--------------------------- MODULE WatcherProofs ----------------------------
(***************************************************************************)
(* The configuration watcher for any number of writes and signals: the     *)
(* targets never go back to an older file, and nothing is applied once     *)
(* Close has returned.                                                     *)
(*                                                                         *)
(* Both rest on the mutex that reload holds while it loads and applies.    *)
(* What a reload has read is no older than what was applied last, as no    *)
(* other reload can come in between; and Close, which needs the mutex,     *)
(* finds no reload under way and leaves none that could still begin.       *)
(***************************************************************************)
EXTENDS Watcher, TLAPS

(* Each write is waiting as an event, as the timer it armed or as an       *)
(* expired timer at most once.                                             *)
Debounced ==
    events + (IF loop = "event" THEN 1 ELSE 0) + (IF timer THEN 1 ELSE 0) + fired <= disk.write

(* The loop waits for its own reload, and is gone when Close returns.      *)
LoopPlace == /\ loop = "reload" <=> mu = "loop"
             /\ loop = "none" <=> run = "started"
             /\ run = "closed" => loop = "exited"

(* Closed is closed: no reload is under way, and none will begin.          *)
ClosedForGood == /\ closed <=> run \in {"closing", "closed"}
                 /\ closed => stage = "none"

(* From the file to what was applied, through what the reload under way    *)
(* has read, files get older, and none but those on disk may be bad.       *)
InOrder ==
    /\ applied.loads /\ applied.write <= disk.write
    /\ stage = "apply" => /\ read[mu].loads
                          /\ applied.write <= read[mu].write
                          /\ read[mu].write <= disk.write

Inv == TypeOK /\ Debounced /\ LoopPlace /\ ClosedForGood /\ InOrder

-----------------------------------------------------------------------------
(* run starts with the file it has loaded, and nothing under way.          *)
LEMMA InitInv == Init => Inv
<1> SUFFICES ASSUME Init
             PROVE  Inv
  OBVIOUS
<1>1. disk \in Files /\ disk.write = 0 /\ disk.loads
  <2>1. disk = [write |-> 0, loads |-> TRUE]
    BY DEF Init
  <2>2. 0 \in 0..MaxWrites
    BY BoundsAssumption
  <2> QED
    BY <2>1, <2>2 DEF Files
<1>2. TypeOK
  <2>1. /\ applied \in Files /\ read \in [Holders -> Files]
        /\ events = 0 /\ hups = 0 /\ fired = 0 /\ hup = FALSE
        /\ run = "started" /\ loop = "none" /\ mu = "free" /\ stage = "none"
        /\ closed = FALSE /\ timer = FALSE
    BY <1>1 DEF Init, Free
  <2>2. 0 \in 0..MaxWrites /\ 0 \in 0..MaxHups
    BY BoundsAssumption
  <2> QED
    BY <1>1, <2>1, <2>2 DEF TypeOK, Free
<1>3. Debounced /\ LoopPlace /\ ClosedForGood /\ InOrder
  BY <1>1 DEF Init, Debounced, LoopPlace, ClosedForGood, InOrder, Free
<1> QED
  BY <1>2, <1>3 DEF Inv

(* Every step keeps the types, the counters within the writes made.        *)
LEMMA TypeStep ==
  ASSUME Inv, [Next]_vars
  PROVE  TypeOK'
<1> USE BoundsAssumption DEF Inv, TypeOK, Debounced, Files, Holders, outside, Free
<1>1. CASE Write
  BY <1>1 DEF Write
<1>2. CASE Hangup
  BY <1>2 DEF Hangup
<1>3. CASE Start
  BY <1>3 DEF Start
<1>4. CASE ReceiveHup
  BY <1>4 DEF ReceiveHup
<1>5. CASE ReceiveEvent
  BY <1>5 DEF ReceiveEvent
<1>6. CASE LoopReloads
  BY <1>6 DEF LoopReloads, ReloadNow, Refused
<1>7. CASE ScheduleReload
  BY <1>7 DEF ScheduleReload
<1>8. CASE LoopExits
  BY <1>8 DEF LoopExits
<1>9. CASE TimerExpires
  <2>1. fired' \in 0..MaxWrites
    <3>1. timer /\ fired' = fired + 1
      BY <1>9 DEF TimerExpires
    <3>2. fired + 1 <= disk.write
      BY <3>1
    <3> QED
      BY <3>1, <3>2
  <2>2. timer' \in BOOLEAN /\ UNCHANGED <<disk, events, hup, hups, loop, mu, read>>
    BY <1>9 DEF TimerExpires
  <2> QED
    BY <1>9, <2>1, <2>2 DEF TimerExpires
<1>10. CASE TimerReloads
  BY <1>10 DEF TimerReloads, ReloadNow, Refused
<1>11. CASE LoadFails
  BY <1>11 DEF LoadFails, ReloadEnds
<1>12. CASE LoadSucceeds
  BY <1>12 DEF LoadSucceeds
<1>13. CASE OnReload
  BY <1>13 DEF OnReload, ReloadEnds
<1>14. CASE Cancel
  BY <1>14 DEF Cancel
<1>15. CASE Close
  BY <1>15 DEF Close
<1>16. CASE CloseReturns
  BY <1>16 DEF CloseReturns
<1>17. CASE Finished \/ UNCHANGED vars
  BY <1>17 DEF Finished, vars
<1> QED
  BY <1>1, <1>2, <1>3, <1>4, <1>5, <1>6, <1>7, <1>8, <1>9, <1>10, <1>11, <1>12, <1>13,
     <1>14, <1>15, <1>16, <1>17 DEF Next, Loop, Reload

(* An event, an armed timer and an expired one are handed on, never        *)
(* doubled: an event that finds the timer armed only arms it anew.         *)
LEMMA DebouncedStep ==
  ASSUME Inv, [Next]_vars
  PROVE  Debounced'
<1> USE BoundsAssumption DEF Inv, TypeOK, Debounced, LoopPlace, Files, outside, Free
<1>1. CASE Write
  BY <1>1 DEF Write
<1>2. CASE Hangup
  BY <1>2 DEF Hangup
<1>3. CASE Start
  BY <1>3 DEF Start
<1>4. CASE ReceiveHup
  BY <1>4 DEF ReceiveHup
<1>5. CASE ReceiveEvent
  BY <1>5 DEF ReceiveEvent
<1>6. CASE LoopReloads
  BY <1>6 DEF LoopReloads, ReloadNow, Refused
<1>7. CASE ScheduleReload
  BY <1>7 DEF ScheduleReload
<1>8. CASE LoopExits
  BY <1>8 DEF LoopExits
<1>9. CASE TimerExpires
  BY <1>9 DEF TimerExpires
<1>10. CASE TimerReloads
  BY <1>10 DEF TimerReloads, ReloadNow, Refused
<1>11. CASE LoadFails
  BY <1>11 DEF LoadFails, ReloadEnds
<1>12. CASE LoadSucceeds
  BY <1>12 DEF LoadSucceeds, Loads
<1>13. CASE OnReload
  BY <1>13 DEF OnReload, ReloadEnds
<1>14. CASE Cancel
  BY <1>14 DEF Cancel
<1>15. CASE Close
  BY <1>15 DEF Close
<1>16. CASE CloseReturns
  BY <1>16 DEF CloseReturns
<1>17. CASE Finished \/ UNCHANGED vars
  BY <1>17 DEF Finished, vars
<1> QED
  BY <1>1, <1>2, <1>3, <1>4, <1>5, <1>6, <1>7, <1>8, <1>9, <1>10, <1>11, <1>12, <1>13,
     <1>14, <1>15, <1>16, <1>17 DEF Next, Loop, Reload

(* The loop enters its reload with the mutex and leaves it with it.        *)
LEMMA LoopPlaceStep ==
  ASSUME Inv, [Next]_vars
  PROVE  LoopPlace'
<1> USE BoundsAssumption DEF Inv, TypeOK, LoopPlace, ClosedForGood, Holders, outside, Free
<1>1. CASE Write
  BY <1>1 DEF Write
<1>2. CASE Hangup
  BY <1>2 DEF Hangup
<1>3. CASE Start
  BY <1>3 DEF Start
<1>4. CASE ReceiveHup
  BY <1>4 DEF ReceiveHup
<1>5. CASE ReceiveEvent
  BY <1>5 DEF ReceiveEvent
<1>6. CASE LoopReloads
  BY <1>6 DEF LoopReloads, ReloadNow, Refused
<1>7. CASE ScheduleReload
  BY <1>7 DEF ScheduleReload
<1>8. CASE LoopExits
  BY <1>8 DEF LoopExits
<1>9. CASE TimerExpires
  BY <1>9 DEF TimerExpires
<1>10. CASE TimerReloads
  BY <1>10 DEF TimerReloads, ReloadNow, Refused
<1>11. CASE LoadFails
  BY <1>11 DEF LoadFails, ReloadEnds
<1>12. CASE LoadSucceeds
  BY <1>12 DEF LoadSucceeds, Loads
<1>13. CASE OnReload
  BY <1>13 DEF OnReload, ReloadEnds
<1>14. CASE Cancel
  BY <1>14 DEF Cancel
<1>15. CASE Close
  BY <1>15 DEF Close
<1>16. CASE CloseReturns
  BY <1>16 DEF CloseReturns
<1>17. CASE Finished \/ UNCHANGED vars
  BY <1>17 DEF Finished, vars
<1> QED
  BY <1>1, <1>2, <1>3, <1>4, <1>5, <1>6, <1>7, <1>8, <1>9, <1>10, <1>11, <1>12, <1>13,
     <1>14, <1>15, <1>16, <1>17 DEF Next, Loop, Reload

(* Close finds the mutex free, so no reload is under way; afterwards a     *)
(* reload that gets the mutex is refused.                                  *)
LEMMA ClosedStep ==
  ASSUME Inv, [Next]_vars
  PROVE  ClosedForGood'
<1> USE BoundsAssumption DEF Inv, TypeOK, ClosedForGood, outside, Free
<1>1. CASE Write
  BY <1>1 DEF Write
<1>2. CASE Hangup
  BY <1>2 DEF Hangup
<1>3. CASE Start
  BY <1>3 DEF Start
<1>4. CASE ReceiveHup
  BY <1>4 DEF ReceiveHup
<1>5. CASE ReceiveEvent
  BY <1>5 DEF ReceiveEvent
<1>6. CASE LoopReloads
  BY <1>6 DEF LoopReloads, ReloadNow, Refused
<1>7. CASE ScheduleReload
  BY <1>7 DEF ScheduleReload
<1>8. CASE LoopExits
  BY <1>8 DEF LoopExits
<1>9. CASE TimerExpires
  BY <1>9 DEF TimerExpires
<1>10. CASE TimerReloads
  BY <1>10 DEF TimerReloads, ReloadNow, Refused
<1>11. CASE LoadFails
  BY <1>11 DEF LoadFails, ReloadEnds
<1>12. CASE LoadSucceeds
  BY <1>12 DEF LoadSucceeds, Loads
<1>13. CASE OnReload
  BY <1>13 DEF OnReload, ReloadEnds
<1>14. CASE Cancel
  BY <1>14 DEF Cancel
<1>15. CASE Close
  BY <1>15 DEF Close
<1>16. CASE CloseReturns
  BY <1>16 DEF CloseReturns
<1>17. CASE Finished \/ UNCHANGED vars
  BY <1>17 DEF Finished, vars
<1> QED
  BY <1>1, <1>2, <1>3, <1>4, <1>5, <1>6, <1>7, <1>8, <1>9, <1>10, <1>11, <1>12, <1>13,
     <1>14, <1>15, <1>16, <1>17 DEF Next, Loop, Reload

(* A reload reads the file as it is now, and nobody else applies one until *)
(* it has applied this.                                                    *)
LEMMA OrderStep ==
  ASSUME Inv, [Next]_vars
  PROVE  InOrder'
<1> USE BoundsAssumption DEF Inv, TypeOK, InOrder, Files, Holders, outside, Free
<1>1. CASE Write
  BY <1>1 DEF Write
<1>2. CASE Hangup
  BY <1>2 DEF Hangup
<1>3. CASE Start
  BY <1>3 DEF Start
<1>4. CASE ReceiveHup
  BY <1>4 DEF ReceiveHup
<1>5. CASE ReceiveEvent
  BY <1>5 DEF ReceiveEvent
<1>6. CASE LoopReloads
  BY <1>6 DEF LoopReloads, ReloadNow, Refused
<1>7. CASE ScheduleReload
  BY <1>7 DEF ScheduleReload
<1>8. CASE LoopExits
  BY <1>8 DEF LoopExits
<1>9. CASE TimerExpires
  BY <1>9 DEF TimerExpires
<1>10. CASE TimerReloads
  BY <1>10 DEF TimerReloads, ReloadNow, Refused
<1>11. CASE LoadFails
  BY <1>11 DEF LoadFails, ReloadEnds
<1>12. CASE LoadSucceeds
  BY <1>12 DEF LoadSucceeds, Loads
<1>13. CASE OnReload
  BY <1>13 DEF OnReload, ReloadEnds
<1>14. CASE Cancel
  BY <1>14 DEF Cancel
<1>15. CASE Close
  BY <1>15 DEF Close
<1>16. CASE CloseReturns
  BY <1>16 DEF CloseReturns
<1>17. CASE Finished \/ UNCHANGED vars
  BY <1>17 DEF Finished, vars
<1> QED
  BY <1>1, <1>2, <1>3, <1>4, <1>5, <1>6, <1>7, <1>8, <1>9, <1>10, <1>11, <1>12, <1>13,
     <1>14, <1>15, <1>16, <1>17 DEF Next, Loop, Reload

(* Inv is inductive.                                                       *)
LEMMA StepInv == Inv /\ [Next]_vars => Inv'
BY TypeStep, DebouncedStep, LoopPlaceStep, ClosedStep, OrderStep DEF Inv

(* The invariant holds in every reachable state.                           *)
THEOREM Invariance == Spec => []Inv
BY InitInv, StepInv, PTL DEF Spec

(* The variables keep their types, and their bounds are those of the       *)
(* writes and signals alone: no burst of writes starts more reloads than   *)
(* it has writes.                                                          *)
THEOREM TypeCorrect == Spec => []TypeOK
<1>1. Inv => TypeOK
  BY DEF Inv
<1> QED
  BY <1>1, Invariance, PTL

-----------------------------------------------------------------------------
(* Once Close has returned, no reload is under way and none is applied.    *)
THEOREM CloseIsFinal == Spec => NoReloadAfterClose
<1>1. Inv /\ [Next]_vars => [run = "closed" => applied' = applied /\ stage = "none"]_vars
  <2> SUFFICES ASSUME Inv, [Next]_vars, run = "closed"
               PROVE  applied' = applied /\ stage = "none"
    OBVIOUS
  <2>1. stage = "none"
    BY DEF Inv, ClosedForGood
  <2> QED
    BY <2>1 DEF Next, Loop, Reload, Write, Hangup, Start, ReceiveHup, ReceiveEvent, LoopReloads,
                ScheduleReload, LoopExits, TimerExpires, TimerReloads, LoadFails, LoadSucceeds,
                OnReload, Cancel, Close, CloseReturns, Finished, vars
<1> QED
  BY <1>1, Invariance, PTL DEF Spec, NoReloadAfterClose

(* Whatever the order of writes, signals, timers and reloads, the applied  *)
(* configuration is one that loads and never an older one than before.     *)
THEOREM ReloadsKeepOrder == Spec => NeverBackwards
<1>1. Inv /\ [Next]_vars => [applied'.write >= applied.write /\ applied'.loads]_vars
  <2> SUFFICES ASSUME Inv, [Next]_vars
               PROVE  applied'.write >= applied.write /\ applied'.loads
    OBVIOUS
  <2>1. applied.write \in Nat /\ applied.loads
    BY BoundsAssumption DEF Inv, TypeOK, InOrder, Files
  <2>2. CASE OnReload
    <3>1. stage = "apply" /\ applied' = read[mu]
      BY <2>2 DEF OnReload
    <3>2. read[mu] \in Files
      BY <3>1 DEF Inv, TypeOK, Free
    <3> QED
      BY <2>1, <3>1, <3>2, BoundsAssumption DEF Inv, InOrder, Files
  <2>3. CASE ~OnReload
    <3>1. applied' = applied
      BY <2>3 DEF Next, Loop, Reload, Write, Hangup, Start, ReceiveHup, ReceiveEvent, LoopReloads,
                  ScheduleReload, LoopExits, TimerExpires, TimerReloads, LoadFails, LoadSucceeds,
                  Cancel, Close, CloseReturns, Finished, vars
    <3> QED
      BY <2>1, <3>1
  <2> QED
    BY <2>2, <2>3
<1> QED
  BY <1>1, Invariance, PTL DEF Spec, NeverBackwards
=============================================================================
