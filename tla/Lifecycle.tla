----------------------------- MODULE Lifecycle ------------------------------
(***************************************************************************)
(* The process (main.go): configuration, --once, the start of the server,  *)
(* the loop, OTLP and the watcher one after another, the signals that may  *)
(* arrive between any two of them, and the shutdown within its budget.     *)
(* What the loop does with its targets is Collector.tla, what the watcher  *)
(* does with the file is Watcher.tla, what OTLP exports is Exporters.tla:  *)
(* here they run, and stop.                                                *)
(***************************************************************************)
EXTENDS ConfigLoad

CONSTANTS
    Inputs,   \* [file, sources, once, slow]: the configuration, the environment, the flag, and
              \* what will not finish in time: the OTLP flush, an open connection
    Budget    \* the shutdown's 10 s, in ticks

ASSUME BudgetAssumption == Budget \in Nat

(* The file's numbers are integers, and an environment says of each        *)
(* variable a field refers to whether it is set.                           *)
ASSUME InputsAssumption ==
    \A given \in Inputs :
        /\ given.file.numbers \in [DOMAIN Defaults -> Int]
        /\ \A i \in DOMAIN given.file.systems :
             \A f \in {"name", "host", "apiKey", "username", "password"} :
                 given.file.systems[i][f].ref \in {Literally} \cup DOMAIN given.sources.process

VARIABLES
    input,      \* what the process is started with
    cfg,        \* the loaded configuration
    at,         \* where run is
    exit,       \* how the process ended, or "running"
    listening,  \* the address is bound
    cycle,      \* the collection loop: "none", "collecting", "idle", "done"
    collected,  \* the systems that --once collected without an error
    ctx,        \* run's context: "live" or "done"
    stop,       \* a signal is in the stop channel
    watching,   \* the watch loop runs, and with it the handling of SIGHUP
    budget      \* what is left of the shutdown's budget

vars == <<input, cfg, at, exit, listening, cycle, collected, ctx, stop, watching, budget>>
main == <<input, cfg, listening, collected, stop, watching, budget>>

Stages == {"load", "once", "serve", "loop", "otlp", "watch", "notify", "wait", "flush", "drain", "close"}

TypeOK ==
    /\ at \in Stages
    /\ exit \in {"running", "ok", "error", "panic", "killed"}
    /\ listening \in BOOLEAN /\ stop \in BOOLEAN /\ watching \in BOOLEAN
    /\ cycle \in {"none", "collecting", "idle", "done"}
    /\ collected \subseteq DOMAIN cfg.systems
    /\ ctx \in {"live", "done"}
    /\ budget \in 0..Budget

Init ==
    /\ input \in Inputs
    /\ cfg = NoConfig
    /\ at = "load"
    /\ exit = "running"
    /\ listening = FALSE
    /\ cycle = "none"
    /\ collected = {}
    /\ ctx = "live"
    /\ stop = FALSE
    /\ watching = FALSE
    /\ budget = Budget

Systems == DOMAIN cfg.systems
Running == exit = "running"

(* run goes on, or returns and ends the process with everything in it.     *)
Goes(stage) == Running /\ at' = stage /\ UNCHANGED exit
Ends(how) == Running /\ exit' = how /\ UNCHANGED at

-----------------------------------------------------------------------------
(* The file may not be read or parsed, and logging not be set up;          *)
(* buildClients fails only for a system without credentials.               *)
CanRun(c) == c # NoConfig /\ \A i \in DOMAIN c.systems : HasCredentials(c.systems[i])

LoadConfig ==
    /\ at = "load"
    /\ cfg' \in {NoConfig, Load(input.file, LoadDotEnv(input.sources))}
    /\ \/ Ends("error")
       \/ CanRun(cfg') /\ Goes(IF input.once THEN "once" ELSE "serve")
    /\ UNCHANGED <<input, listening, cycle, collected, ctx, stop, watching, budget>>

(* --once: any system that failed makes the process fail, and so does a    *)
(* dump that cannot be written.                                            *)
NoneCollected(up) == up = {}

RunOnceFails(up) == up # Systems

RunOnce ==
    /\ at = "once"
    /\ collected' \in SUBSET Systems
    /\ Ends("error") \/ (~RunOnceFails(collected') /\ Ends("ok"))
    /\ UNCHANGED <<input, cfg, listening, cycle, ctx, stop, watching, budget>>

(* What http.ServeMux, which unescapes every segment of a pattern, does    *)
(* with the metrics URI next to the fixed routes.                          *)
MuxPanics == cfg.uri \in Relative \cup ReservedURIs \cup Disguised \cup Spaced \cup (Braced \ Wildcards)

Serve ==
    /\ at = "serve"
    /\ \/ MuxPanics /\ Ends("panic") /\ UNCHANGED listening
       \/ ~MuxPanics /\ Ends("error") /\ UNCHANGED listening
       \/ ~MuxPanics /\ Goes("loop") /\ listening' = TRUE
    /\ UNCHANGED <<input, cfg, cycle, collected, ctx, stop, watching, budget>>

StartLoop ==
    /\ at = "loop"
    /\ cycle' = "collecting"
    /\ Goes("otlp")
    /\ UNCHANGED <<main, ctx>>

StartOTLP ==
    /\ at = "otlp"
    /\ Goes("watch") \/ (cfg.otel /\ Ends("error"))
    /\ UNCHANGED <<main, cycle, ctx>>

StartWatcher ==
    /\ at = "watch"
    /\ \/ Goes("notify") /\ watching' = TRUE
       \/ Ends("error") /\ UNCHANGED watching
    /\ UNCHANGED <<input, cfg, listening, cycle, collected, ctx, stop, budget>>

Notify == at = "notify" /\ Goes("wait") /\ UNCHANGED <<main, cycle, ctx>>

Shutdown ==
    /\ at = "wait" /\ stop
    /\ ctx' = "done"
    /\ stop' = FALSE
    /\ Goes(IF cfg.otel THEN "flush" ELSE "drain")
    /\ UNCHANGED <<input, cfg, listening, cycle, collected, watching, budget>>

Unbounded == FALSE

BudgetOver == budget = 0

(* shutdownTelemetry and shutdownServer share the budget; neither's error  *)
(* changes how the process ends.                                           *)
FlushReturns ==
    /\ at = "flush"
    /\ "flush" \in input.slow => BudgetOver
    /\ Goes("drain")
    /\ UNCHANGED <<main, cycle, ctx>>

DrainReturns ==
    /\ at = "drain"
    /\ "connection" \in input.slow => BudgetOver
    /\ listening' = FALSE
    /\ Goes("close")
    /\ UNCHANGED <<input, cfg, cycle, collected, ctx, stop, watching, budget>>

(* The deferred watcher.Close waits for the watch loop.                    *)
CloseReturns == at = "close" /\ ~watching /\ Ends("ok") /\ UNCHANGED <<main, cycle, ctx>>

Main == \/ LoadConfig \/ RunOnce \/ Serve \/ StartLoop \/ StartOTLP \/ StartWatcher \/ Notify
        \/ Shutdown \/ FlushReturns \/ DrainReturns \/ CloseReturns

-----------------------------------------------------------------------------
(* The first cycle ends with NewTicker, which panics unless the interval   *)
(* is positive.                                                            *)
CycleEnds ==
    /\ Running /\ cycle = "collecting"
    /\ cycle' = "idle"
    /\ exit' = IF cfg.numbers.interval > 0 THEN exit ELSE "panic"
    /\ UNCHANGED <<main, at, ctx>>

Tick ==
    /\ Running /\ cycle = "idle"
    /\ cycle' = "collecting"
    /\ UNCHANGED <<main, at, exit, ctx>>

LoopReturns ==
    /\ Running /\ cycle = "idle" /\ ctx = "done"
    /\ cycle' = "done"
    /\ UNCHANGED <<main, at, exit, ctx>>

WatchLoopExits ==
    /\ Running /\ watching /\ (ctx = "done" \/ at = "close")
    /\ watching' = FALSE
    /\ UNCHANGED <<input, cfg, at, exit, listening, cycle, collected, ctx, stop, budget>>

(* SIGINT and SIGTERM end a process that has not asked for them; later the *)
(* channel holds one, and a further one is lost.                           *)
Asked == at \in {"wait", "flush", "drain", "close"}
Terminate ==
    /\ Running
    /\ IF Asked THEN stop' = TRUE /\ UNCHANGED exit ELSE exit' = "killed" /\ UNCHANGED stop
    /\ UNCHANGED <<input, cfg, at, listening, cycle, collected, ctx, watching, budget>>

(* SIGHUP ends a process without a watch loop; with one it reloads, which  *)
(* swaps the clients of the loop that runs (Watcher.tla, Collector.tla).   *)
Hangup ==
    /\ Running /\ ~watching
    /\ exit' = "killed"
    /\ UNCHANGED <<main, at, cycle, ctx>>

Clock ==
    /\ Running /\ at \in {"flush", "drain"} /\ budget > 0
    /\ budget' = budget - 1
    /\ UNCHANGED <<input, cfg, at, exit, listening, cycle, collected, ctx, stop, watching>>

Next == Main \/ CycleEnds \/ Tick \/ LoopReturns \/ WatchLoopExits \/ Terminate \/ Hangup \/ Clock

Spec == Init /\ [][Next]_vars

(* The scheduler runs every goroutine that can run, and time passes; no    *)
(* signal has to come.                                                     *)
FairSpec == Spec /\ WF_vars(Main) /\ WF_vars(WatchLoopExits) /\ WF_vars(Clock)
-----------------------------------------------------------------------------
(* A name is the `system` label of everything a target exports: two        *)
(* targets whose labels are equal after cleaning would make one of them    *)
(* vanish from both readers.                                               *)
NoTwinSystems ==
    \A i, j \in Systems : i # j => CleanValue(cfg.systems[i].name) # CleanValue(cfg.systems[j].name)

(* What the process was started with decides every field that refers to    *)
(* it: no .env file can replace it, neither a value nor the empty text,    *)
(* for which only the field's own fallback or secret file may stand in.    *)
InjectionWins ==
    \A i \in Systems : \A f \in {"name", "host", "apiKey", "username", "password"} :
        LET field == input.file.systems[i][f]
            injected == input.sources.process[field.ref]
            files == CASE f = "apiKey" -> {input.file.systems[i].apiKeyFile}
                       [] f = "password" -> {input.file.systems[i].passwordFile}
                       [] OTHER -> {}
        IN field.ref # Literally /\ injected # Unset =>
             cfg.systems[i][f] \in (IF injected # "" THEN {injected} ELSE {field.alt} \cup files)

(* The exit status tells the supervisor the truth: success is a handled    *)
(* stop signal or a --once that reached every system; a handled signal     *)
(* never ends in failure, however slow the flush and the connections are;  *)
(* of what Load lets through only another spelling of a reserved URI       *)
(* panics; and once run waits for its signal, only a SIGHUP that comes     *)
(* during the shutdown kills it.                                           *)
ExitTellsWhy ==
    /\ exit = "panic" => cfg.uri \in Disguised
    /\ exit = "ok" => IF input.once THEN collected = Systems ELSE ctx = "done"
    /\ exit = "error" => ctx = "live"
    /\ exit = "killed" /\ Asked => ctx = "done" /\ ~watching

(* A process that was told to stop stops, though the OTLP collector hangs  *)
(* and a client keeps its connection.                                      *)
StopsOnSignal == stop ~> ~Running
=============================================================================
