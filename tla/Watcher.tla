------------------------------ MODULE Watcher -------------------------------
(***************************************************************************)
(* The configuration watcher (internal/config/watcher.go) as main.go's run *)
(* uses it: the watch-loop goroutine, the goroutines that an expired       *)
(* debounce timer starts, and run itself, which loads the first            *)
(* configuration, later creates the watcher, and at last closes it.        *)
(*                                                                         *)
(* A configuration file is the number of the write that made it and        *)
(* whether Load accepts it.  A write to it queues an event.  The debounce  *)
(* timer expires at any moment after it was armed.                         *)
(***************************************************************************)
EXTENDS Naturals

CONSTANTS
    MaxWrites,   \* bound: writes to the configuration file
    MaxHups      \* bound: SIGHUPs sent to the process

ASSUME BoundsAssumption == MaxWrites \in Nat /\ MaxHups \in Nat

Free == "free"

VARIABLES
    disk,      \* the configuration file: number of its last write, and does it load
    events,    \* fsnotify events of the file that the loop has not received
    hup,       \* the sighup channel, which holds one signal, is full
    hups,      \* SIGHUPs sent so far
    run,       \* where main.run is with the watcher
    closed,    \* Watcher.closed
    timer,     \* Watcher.timer is armed
    fired,     \* goroutines of expired timers that wait for w.mu
    loop,      \* where the watch loop is
    mu,        \* holder of Watcher.mu
    stage,     \* where the reload that holds w.mu is
    read,      \* per trigger, what the Load of its latest reload returned
    applied    \* the configuration that onReload was last given

vars == <<disk, events, hup, hups, run, closed, timer, fired, loop, mu, stage, read, applied>>

outside == <<disk, events, hups>>

Holders == {"loop", "timer"}
Files == [write : 0..MaxWrites, loads : BOOLEAN]

TypeOK ==
    /\ disk \in Files /\ applied \in Files
    /\ read \in [Holders -> Files]
    /\ events \in 0..MaxWrites
    /\ hup \in BOOLEAN /\ hups \in 0..MaxHups
    /\ run \in {"started", "watching", "cancelled", "closing", "closed"}
    /\ closed \in BOOLEAN /\ timer \in BOOLEAN
    /\ fired \in 0..MaxWrites
    /\ loop \in {"none", "select", "hup", "event", "reload", "exited"}
    /\ mu \in {Free} \cup Holders
    /\ stage \in {"none", "load", "apply"}
    /\ stage = "none" <=> mu = Free
    /\ closed => ~timer

(* run has loaded the first configuration.                                 *)
Init == /\ disk = [write |-> 0, loads |-> TRUE]
        /\ events = 0
        /\ hup = FALSE /\ hups = 0
        /\ run = "started"
        /\ closed = FALSE /\ timer = FALSE /\ fired = 0
        /\ loop = "none"
        /\ mu = Free /\ stage = "none"
        /\ read = [h \in Holders |-> disk]
        /\ applied = disk

-----------------------------------------------------------------------------
(* An editor, an agent or an operator writes the file, well or badly.      *)
Write == /\ disk.write < MaxWrites
         /\ \E ok \in BOOLEAN : disk' = [write |-> disk.write + 1, loads |-> ok]
         /\ events' = IF loop = "none" THEN events ELSE events + 1
         /\ UNCHANGED <<hup, hups, run, closed, timer, fired, loop, mu, stage, read, applied>>

(* A signal that finds the channel full is one with the signal in it.      *)
Hangup == /\ hups < MaxHups
          /\ loop \notin {"none", "exited"}
          /\ hups' = hups + 1
          /\ hup' = TRUE
          /\ UNCHANGED <<disk, events, run, closed, timer, fired, loop, mu, stage, read, applied>>

(* NewWatcher adds the directory, Start spawns the loop.                   *)
Start == /\ run = "started"
         /\ run' = "watching"
         /\ loop' = "select"
         /\ UNCHANGED <<outside, hup, closed, timer, fired, mu, stage, read, applied>>

(* The loop's select: any case that is ready.                              *)
ReceiveHup == /\ loop = "select"
              /\ hup
              /\ hup' = FALSE
              /\ loop' = "hup"
              /\ UNCHANGED <<outside, run, closed, timer, fired, mu, stage, read, applied>>

ReceiveEvent == /\ loop = "select"
                /\ events > 0
                /\ events' = events - 1
                /\ loop' = "event"
                /\ UNCHANGED <<disk, hup, hups, run, closed, timer, fired, mu, stage, read, applied>>

(* ctx.Done, which run cancels first, or closeCh; signal.Stop is deferred. *)
LoopExits == /\ loop = "select"
             /\ run \in {"cancelled", "closing"}
             /\ loop' = "exited"
             /\ hup' = FALSE
             /\ UNCHANGED <<outside, run, closed, timer, fired, mu, stage, read, applied>>

(* scheduleReload: the timer is armed anew.                                *)
ScheduleUnlessReloading ==
    /\ loop = "event"
    /\ timer' = IF mu = Free THEN ~closed ELSE timer
    /\ loop' = "select"
    /\ UNCHANGED <<outside, hup, run, closed, fired, mu, stage, read, applied>>

ScheduleReload == /\ loop = "event"
                  /\ mu = Free
                  /\ timer' = ~closed
                  /\ loop' = "select"
                  /\ UNCHANGED <<outside, hup, run, closed, fired, mu, stage, read, applied>>

(* The 100 ms are over: the timer's goroutine runs reload.                 *)
TimerExpires == /\ timer
                /\ timer' = FALSE
                /\ fired' = fired + 1
                /\ UNCHANGED <<outside, hup, run, closed, loop, mu, stage, read, applied>>

-----------------------------------------------------------------------------
(* reload, which holds w.mu for its whole body: nothing once closed, then  *)
(* Load, then onReload for a configuration that loads.                     *)
NeverRefused == FALSE

Refused == closed

ReloadNow(holder) == /\ mu' = holder
                     /\ stage' = "load"

LoopReloadsUnlocked ==
    /\ \/ /\ loop = "hup"
          /\ disk.loads
          /\ loop' = "reload"
          /\ read' = [read EXCEPT !["loop"] = disk]
          /\ UNCHANGED applied
       \/ /\ loop = "reload"
          /\ loop' = "select"
          /\ applied' = read["loop"]
          /\ UNCHANGED read
    /\ UNCHANGED <<outside, hup, run, closed, timer, fired, mu, stage>>

LoopReloads == /\ loop = "hup"
               /\ mu = Free
               /\ IF Refused
                    THEN loop' = "select" /\ UNCHANGED <<mu, stage>>
                    ELSE loop' = "reload" /\ ReloadNow("loop")
               /\ UNCHANGED <<outside, hup, run, closed, timer, fired, read, applied>>

TimerReloads == /\ fired > 0
                /\ mu = Free
                /\ fired' = fired - 1
                /\ IF Refused THEN UNCHANGED <<mu, stage>> ELSE ReloadNow("timer")
                /\ UNCHANGED <<outside, hup, run, closed, timer, loop, read, applied>>

(* The end of a reload: w.mu is free, and the loop goes on if it was its.  *)
ReloadEnds == /\ mu' = Free
              /\ stage' = "none"
              /\ loop' = IF mu = "loop" THEN "select" ELSE loop

Anything == TRUE

Loads == disk.loads

LoadFails == /\ stage = "load"
             /\ ~Loads
             /\ ReloadEnds
             /\ UNCHANGED <<outside, hup, run, closed, timer, fired, read, applied>>

LoadSucceeds == /\ stage = "load"
                /\ Loads
                /\ read' = [read EXCEPT ![mu] = disk]
                /\ stage' = "apply"
                /\ UNCHANGED <<outside, hup, run, closed, timer, fired, loop, mu, applied>>

(* onReload has rebuilt the clients and handed them to SetClients.         *)
OnReload == /\ stage = "apply"
            /\ applied' = read[mu]
            /\ ReloadEnds
            /\ UNCHANGED <<outside, hup, run, closed, timer, fired, read>>

-----------------------------------------------------------------------------
(* A signal ends run: its context is cancelled, and Close is deferred.     *)
Cancel == /\ run = "watching"
          /\ run' = "cancelled"
          /\ UNCHANGED <<outside, hup, closed, timer, fired, loop, mu, stage, read, applied>>

CloseKeepingMutex == /\ run = "cancelled"
                     /\ mu = Free
                     /\ closed' = TRUE
                     /\ timer' = FALSE
                     /\ mu' = "run"
                     /\ run' = "closing"
                     /\ UNCHANGED <<outside, hup, fired, loop, stage, read, applied>>

Close == /\ run = "cancelled"
         /\ mu = Free
         /\ closed' = TRUE
         /\ timer' = FALSE
         /\ run' = "closing"
         /\ UNCHANGED <<outside, hup, fired, loop, mu, stage, read, applied>>

(* wg.Wait, and the filesystem watch is released.                          *)
CloseReturns == /\ run = "closing"
                /\ loop = "exited"
                /\ run' = "closed"
                /\ UNCHANGED <<outside, hup, closed, timer, fired, loop, mu, stage, read, applied>>

Finished == run = "closed" /\ fired = 0 /\ mu = Free /\ UNCHANGED vars

Loop == ReceiveHup \/ ReceiveEvent \/ LoopReloads \/ ScheduleReload \/ LoopExits
Reload == LoadFails \/ LoadSucceeds \/ OnReload

Next == \/ Write \/ Hangup \/ Start
        \/ Loop \/ TimerExpires \/ TimerReloads \/ Reload
        \/ Cancel \/ Close \/ CloseReturns \/ Finished

Spec == Init /\ [][Next]_vars

(* Goroutines run, timers expire, run goes on once it was told to stop.    *)
(* Who waits for w.mu gets it, and select takes a case that is ready over  *)
(* and over.  Nobody has to write, to signal or to stop.                   *)
FairSpec == /\ Spec
            /\ WF_vars(Start) /\ WF_vars(TimerExpires) /\ WF_vars(Reload)
            /\ WF_vars(CloseReturns)
            /\ SF_vars(ScheduleReload) /\ SF_vars(LoopReloads)
            /\ SF_vars(TimerReloads) /\ SF_vars(Close)
            /\ SF_vars(ReceiveHup) /\ SF_vars(ReceiveEvent) /\ SF_vars(LoopExits)

-----------------------------------------------------------------------------
(* "Close() guarantees that no onReload call fires after it returns": not  *)
(* from a timer that was armed, not from one that expired and waits for    *)
(* the mutex, and none is still running then.                              *)
NoReloadAfterClose == [][run = "closed" => applied' = applied /\ stage = "none"]_vars

(* Reloads from the two triggers overtake each other, configurations do    *)
(* not: the targets never go back to an older file, nor on to a bad one,   *)
(* also when it is repaired, or broken again, while a reload runs.         *)
NeverBackwards == [][applied'.write >= applied.write /\ applied'.loads]_vars

(* Debounced or not, in however many writes, the last file that loads is   *)
(* the one applied, unless run stops first.                                *)
WritesArrive ==
    \A n \in 1..MaxWrites :
        (loop # "none" /\ disk = [write |-> n, loads |-> TRUE] /\ events > 0)
            ~> applied.write >= n \/ disk.write > n \/ run \in {"cancelled", "closing", "closed"}

(* Close waits for the loop, and the loop may be waiting for the mutex:    *)
(* Close returns all the same.                                             *)
CloseCompletes == run = "cancelled" ~> run = "closed"
=============================================================================
