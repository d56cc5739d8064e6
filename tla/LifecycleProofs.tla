-------------------------- MODULE LifecycleProofs ---------------------------
(***************************************************************************)
(* The process for every configuration, every environment and every        *)
(* shutdown budget: what Load lets through panics only for a URI spelled   *)
(* to look unlike the reserved one it is, an injected value is never       *)
(* replaced, and the exit status is truthful.                              *)
(*                                                                         *)
(* The invariant follows run from place to place.  The context is          *)
(* cancelled exactly from the shutdown on, SIGHUP is handled wherever run  *)
(* waits for its signal, and everything after the load has a configuration *)
(* that Load has let through.                                              *)
(***************************************************************************)
EXTENDS Lifecycle, TLAPS

ShuttingDown == at \in {"flush", "drain", "close"}

(* Before the load there is nothing; after it, what Load made of the file. *)
Loaded ==
    /\ input \in Inputs
    /\ at = "load" => collected = {}
    /\ at # "load" => /\ cfg # NoConfig
                      /\ cfg = Load(input.file, LoadDotEnv(input.sources))
    /\ cfg \in {NoConfig, Load(input.file, LoadDotEnv(input.sources))}
    /\ at \in {"load", "once", "serve", "loop"} => cycle = "none"

(* --once is over without a server; everything else is the server's.       *)
Mode == /\ at = "once" => input.once
        /\ at \notin {"load", "once"} => ~input.once

Handling == /\ ctx = "done" <=> ShuttingDown
            /\ at \in {"notify", "wait"} => watching

Inv == TypeOK /\ Loaded /\ Mode /\ Handling /\ ExitTellsWhy

-----------------------------------------------------------------------------
(* A configuration that Load returns: a loaded system for each of the      *)
(* file's, every one valid and none named like another; a URI that passes; *)
(* and numbers none of which is negative in the file.                      *)
LEMMA LoadedConfig ==
  ASSUME NEW file, NEW env, NEW c, c = Load(file, env), c # NoConfig
  PROVE  /\ c.systems = [i \in DOMAIN file.systems |-> LoadSystem(file.systems[i], env)]
         /\ \A i \in DOMAIN c.systems : SystemIsValid(c.systems[i])
         /\ \A i, j \in DOMAIN c.systems : i # j => c.systems[i].name # c.systems[j].name
         /\ ServerURIIsValid(c.uri)
         /\ \A n \in DOMAIN Defaults : file.numbers[n] >= 0
         /\ c.numbers = OrDefault(file.numbers)
<1> DEFINE systems == [i \in DOMAIN file.systems |-> LoadSystem(file.systems[i], env)]
           uri == IF file.uri = "" THEN "/metrics" ELSE file.uri
           Passes == /\ systems # <<>>
                     /\ \A i \in DOMAIN systems : SystemIsValid(systems[i])
                     /\ ~Twins(file, systems)
                     /\ ServerURIIsValid(uri)
                     /\ \A n \in DOMAIN Defaults : file.numbers[n] >= 0
           Made == [systems |-> systems, uri |-> uri, numbers |-> OrDefault(file.numbers),
                    otel |-> file.otel]
<1>1. c = IF Passes THEN Made ELSE NoConfig
  BY Zenon DEF Load
<1> HIDE DEF systems, uri
<1>2. Passes /\ c = Made
  BY <1>1
<1>3. c.systems = systems /\ c.uri = uri /\ c.numbers = OrDefault(file.numbers)
  BY <1>2
<1>4. \A i, j \in DOMAIN systems : i # j => systems[i].name # systems[j].name
  BY <1>2 DEF Twins
<1>5. /\ \A i \in DOMAIN c.systems : SystemIsValid(c.systems[i])
      /\ \A i, j \in DOMAIN c.systems : i # j => c.systems[i].name # c.systems[j].name
      /\ ServerURIIsValid(c.uri)
      /\ \A n \in DOMAIN Defaults : file.numbers[n] >= 0
  <2> HIDE DEF Made
  <2> QED
    BY <1>2, <1>3, <1>4, Zenon
<1> QED
  BY <1>3, <1>5 DEF systems

(* The same of the configuration that run has.                             *)
LEMMA LoadedState ==
  ASSUME Inv, cfg # NoConfig
  PROVE  LET env == LoadDotEnv(input.sources)
         IN /\ cfg.systems = [i \in DOMAIN input.file.systems |-> LoadSystem(input.file.systems[i], env)]
            /\ \A i \in DOMAIN cfg.systems : SystemIsValid(cfg.systems[i])
            /\ \A i, j \in DOMAIN cfg.systems : i # j => cfg.systems[i].name # cfg.systems[j].name
            /\ ServerURIIsValid(cfg.uri)
            /\ \A n \in DOMAIN Defaults : input.file.numbers[n] >= 0
            /\ cfg.numbers = OrDefault(input.file.numbers)
<1>1. cfg = Load(input.file, LoadDotEnv(input.sources))
  BY DEF Inv, Loaded
<1> DEFINE env == LoadDotEnv(input.sources)
           file == input.file
<1> HIDE DEF env, file
<1>2. cfg = Load(file, env)
  BY <1>1 DEF env, file
<1>3. /\ cfg.systems = [i \in DOMAIN file.systems |-> LoadSystem(file.systems[i], env)]
      /\ \A i \in DOMAIN cfg.systems : SystemIsValid(cfg.systems[i])
      /\ \A i, j \in DOMAIN cfg.systems : i # j => cfg.systems[i].name # cfg.systems[j].name
      /\ ServerURIIsValid(cfg.uri)
      /\ \A n \in DOMAIN Defaults : file.numbers[n] >= 0
      /\ cfg.numbers = OrDefault(file.numbers)
  BY ONLY <1>2, cfg # NoConfig, LoadedConfig
<1> QED
  BY <1>3 DEF env, file

(* Of the paths that ServeMux panics about only a disguised one passes     *)
(* Load.                                                                   *)
LEMMA MuxAccepts == Inv /\ at # "load" /\ MuxPanics => cfg.uri \in Disguised
<1> SUFFICES ASSUME Inv, at # "load", MuxPanics
             PROVE  cfg.uri \in Disguised
  OBVIOUS
<1>1. ServerURIIsValid(cfg.uri)
  BY LoadedState DEF Inv, Loaded
<1> QED
  BY <1>1 DEF ServerURIIsValid, MuxPanics

(* The interval that the loop ticks with is positive: the file's zero      *)
(* stands for the default.                                                 *)
LEMMA IntervalIsPositive == Inv /\ at # "load" => cfg.numbers.interval > 0
<1> SUFFICES ASSUME Inv, at # "load"
             PROVE  cfg.numbers.interval > 0
  OBVIOUS
<1> DEFINE numbers == input.file.numbers
<1>1. /\ \A n \in DOMAIN Defaults : numbers[n] >= 0
      /\ cfg.numbers = OrDefault(numbers)
  BY LoadedState DEF Inv, Loaded
<1>2. "interval" \in DOMAIN Defaults /\ Defaults["interval"] = 60
  BY DEF Defaults
<1>3. numbers["interval"] \in Int
  BY <1>2, InputsAssumption DEF Inv, Loaded
<1>4. cfg.numbers["interval"] = IF numbers["interval"] = 0 THEN 60 ELSE numbers["interval"]
  BY <1>1, <1>2 DEF OrDefault
<1>5. numbers["interval"] >= 0
  BY <1>1, <1>2
<1> QED
  BY <1>3, <1>4, <1>5

(* Every step keeps the types.                                             *)
LEMMA TypeStep ==
  ASSUME Inv, [Next]_vars
  PROVE  TypeOK'
<1> USE DEF Inv, TypeOK, Loaded, Systems, Stages, main
<1>1. CASE LoadConfig
  BY <1>1 DEF LoadConfig, CanRun, Goes, Ends, Running
<1>2. CASE RunOnce
  BY <1>2 DEF RunOnce, RunOnceFails, Ends, Running
<1>3. CASE Serve
  BY <1>3 DEF Serve, Goes, Ends, Running
<1>4. CASE StartLoop
  BY <1>4 DEF StartLoop, Goes, Running
<1>5. CASE StartOTLP
  BY <1>5 DEF StartOTLP, Goes, Ends, Running
<1>6. CASE StartWatcher
  BY <1>6 DEF StartWatcher, Goes, Ends, Running
<1>7. CASE Notify
  BY <1>7 DEF Notify, Goes, Running
<1>8. CASE Shutdown
  BY <1>8 DEF Shutdown, Goes, Running
<1>9. CASE FlushReturns
  BY <1>9 DEF FlushReturns, Goes, Running
<1>10. CASE DrainReturns
  BY <1>10 DEF DrainReturns, Goes, Running
<1>11. CASE CloseReturns
  BY <1>11 DEF CloseReturns, Ends, Running
<1>12. CASE CycleEnds
  BY <1>12 DEF CycleEnds, Running
<1>13. CASE Tick
  BY <1>13 DEF Tick, Running
<1>14. CASE LoopReturns
  BY <1>14 DEF LoopReturns, Running
<1>15. CASE WatchLoopExits
  BY <1>15 DEF WatchLoopExits, Running
<1>16. CASE Terminate
  BY <1>16 DEF Terminate, Asked, Running
<1>17. CASE Hangup
  BY <1>17 DEF Hangup, Running
<1>18. CASE Clock
  BY <1>18, BudgetAssumption DEF Clock, Running
<1>19. CASE UNCHANGED vars
  BY <1>19 DEF vars
<1> QED
  BY <1>1, <1>2, <1>3, <1>4, <1>5, <1>6, <1>7, <1>8, <1>9, <1>10, <1>11, <1>12, <1>13, <1>14, <1>15, <1>16, <1>17, <1>18, <1>19 DEF Next, Main

(* The configuration is loaded once, and nothing runs before it.           *)
LEMMA LoadedStep ==
  ASSUME Inv, [Next]_vars
  PROVE  Loaded'
<1> USE DEF Inv, TypeOK, Loaded, Stages, main
<1>1. CASE LoadConfig
  BY <1>1 DEF LoadConfig, CanRun, Goes, Ends, Running
<1>2. CASE RunOnce
  BY <1>2 DEF RunOnce, RunOnceFails, Ends, Running
<1>3. CASE Serve
  BY <1>3 DEF Serve, Goes, Ends, Running
<1>4. CASE StartLoop
  BY <1>4 DEF StartLoop, Goes, Running
<1>5. CASE StartOTLP
  BY <1>5 DEF StartOTLP, Goes, Ends, Running
<1>6. CASE StartWatcher
  BY <1>6 DEF StartWatcher, Goes, Ends, Running
<1>7. CASE Notify
  BY <1>7 DEF Notify, Goes, Running
<1>8. CASE Shutdown
  BY <1>8 DEF Shutdown, Goes, Running
<1>9. CASE FlushReturns
  BY <1>9 DEF FlushReturns, Goes, Running
<1>10. CASE DrainReturns
  BY <1>10 DEF DrainReturns, Goes, Running
<1>11. CASE CloseReturns
  BY <1>11 DEF CloseReturns, Ends, Running
<1>12. CASE CycleEnds
  BY <1>12 DEF CycleEnds, Running
<1>13. CASE Tick
  BY <1>13 DEF Tick, Running
<1>14. CASE LoopReturns
  BY <1>14 DEF LoopReturns, Running
<1>15. CASE WatchLoopExits
  BY <1>15 DEF WatchLoopExits, Running
<1>16. CASE Terminate
  BY <1>16 DEF Terminate, Asked, Running
<1>17. CASE Hangup
  BY <1>17 DEF Hangup, Running
<1>18. CASE Clock
  BY <1>18 DEF Clock, Running
<1>19. CASE UNCHANGED vars
  BY <1>19 DEF vars
<1> QED
  BY <1>1, <1>2, <1>3, <1>4, <1>5, <1>6, <1>7, <1>8, <1>9, <1>10, <1>11, <1>12, <1>13, <1>14, <1>15, <1>16, <1>17, <1>18, <1>19 DEF Next, Main

(* run never crosses from --once to the server or back.                    *)
LEMMA ModeStep ==
  ASSUME Inv, [Next]_vars
  PROVE  Mode'
<1> USE DEF Inv, TypeOK, Mode, Stages, main
<1>1. CASE LoadConfig
  BY <1>1 DEF LoadConfig, CanRun, Goes, Ends, Running
<1>2. CASE RunOnce
  BY <1>2 DEF RunOnce, RunOnceFails, Ends, Running
<1>3. CASE Serve
  BY <1>3 DEF Serve, Goes, Ends, Running
<1>4. CASE StartLoop
  BY <1>4 DEF StartLoop, Goes, Running
<1>5. CASE StartOTLP
  BY <1>5 DEF StartOTLP, Goes, Ends, Running
<1>6. CASE StartWatcher
  BY <1>6 DEF StartWatcher, Goes, Ends, Running
<1>7. CASE Notify
  BY <1>7 DEF Notify, Goes, Running
<1>8. CASE Shutdown
  BY <1>8 DEF Shutdown, Goes, Running
<1>9. CASE FlushReturns
  BY <1>9 DEF FlushReturns, Goes, Running
<1>10. CASE DrainReturns
  BY <1>10 DEF DrainReturns, Goes, Running
<1>11. CASE CloseReturns
  BY <1>11 DEF CloseReturns, Ends, Running
<1>12. CASE CycleEnds
  BY <1>12 DEF CycleEnds, Running
<1>13. CASE Tick
  BY <1>13 DEF Tick, Running
<1>14. CASE LoopReturns
  BY <1>14 DEF LoopReturns, Running
<1>15. CASE WatchLoopExits
  BY <1>15 DEF WatchLoopExits, Running
<1>16. CASE Terminate
  BY <1>16 DEF Terminate, Asked, Running
<1>17. CASE Hangup
  BY <1>17 DEF Hangup, Running
<1>18. CASE Clock
  BY <1>18 DEF Clock, Running
<1>19. CASE UNCHANGED vars
  BY <1>19 DEF vars
<1> QED
  BY <1>1, <1>2, <1>3, <1>4, <1>5, <1>6, <1>7, <1>8, <1>9, <1>10, <1>11, <1>12, <1>13, <1>14, <1>15, <1>16, <1>17, <1>18, <1>19 DEF Next, Main

(* The context is cancelled by the step that begins the shutdown, and the  *)
(* watch loop ends only after it.                                          *)
LEMMA HandlingStep ==
  ASSUME Inv, [Next]_vars
  PROVE  Handling'
<1> USE DEF Inv, TypeOK, Handling, ShuttingDown, Stages, main
<1>1. CASE LoadConfig
  BY <1>1 DEF LoadConfig, CanRun, Goes, Ends, Running
<1>2. CASE RunOnce
  BY <1>2 DEF RunOnce, RunOnceFails, Ends, Running
<1>3. CASE Serve
  BY <1>3 DEF Serve, Goes, Ends, Running
<1>4. CASE StartLoop
  BY <1>4 DEF StartLoop, Goes, Running
<1>5. CASE StartOTLP
  BY <1>5 DEF StartOTLP, Goes, Ends, Running
<1>6. CASE StartWatcher
  BY <1>6 DEF StartWatcher, Goes, Ends, Running
<1>7. CASE Notify
  BY <1>7 DEF Notify, Goes, Running
<1>8. CASE Shutdown
  BY <1>8 DEF Shutdown, Goes, Running
<1>9. CASE FlushReturns
  BY <1>9 DEF FlushReturns, Goes, Running
<1>10. CASE DrainReturns
  BY <1>10 DEF DrainReturns, Goes, Running
<1>11. CASE CloseReturns
  BY <1>11 DEF CloseReturns, Ends, Running
<1>12. CASE CycleEnds
  BY <1>12 DEF CycleEnds, Running
<1>13. CASE Tick
  BY <1>13 DEF Tick, Running
<1>14. CASE LoopReturns
  BY <1>14 DEF LoopReturns, Running
<1>15. CASE WatchLoopExits
  BY <1>15 DEF WatchLoopExits, Running
<1>16. CASE Terminate
  BY <1>16 DEF Terminate, Asked, Running
<1>17. CASE Hangup
  BY <1>17 DEF Hangup, Running
<1>18. CASE Clock
  BY <1>18 DEF Clock, Running
<1>19. CASE UNCHANGED vars
  BY <1>19 DEF vars
<1> QED
  BY <1>1, <1>2, <1>3, <1>4, <1>5, <1>6, <1>7, <1>8, <1>9, <1>10, <1>11, <1>12, <1>13, <1>14, <1>15, <1>16, <1>17, <1>18, <1>19 DEF Next, Main

(* However the process ends, its status is the truth.                      *)
LEMMA ExitStep ==
  ASSUME Inv, [Next]_vars
  PROVE  ExitTellsWhy'
<1> USE DEF Inv, TypeOK, Mode, Handling, ShuttingDown, ExitTellsWhy, Systems, Asked, Stages, main
<1>1. CASE LoadConfig
  BY <1>1 DEF LoadConfig, CanRun, Goes, Ends, Running
<1>2. CASE RunOnce
  BY <1>2 DEF RunOnce, RunOnceFails, Ends, Running
<1>3. CASE Serve
  BY <1>3, MuxAccepts DEF Serve, Goes, Ends, Running
<1>4. CASE StartLoop
  BY <1>4 DEF StartLoop, Goes, Running
<1>5. CASE StartOTLP
  BY <1>5 DEF StartOTLP, Goes, Ends, Running
<1>6. CASE StartWatcher
  BY <1>6 DEF StartWatcher, Goes, Ends, Running
<1>7. CASE Notify
  BY <1>7 DEF Notify, Goes, Running
<1>8. CASE Shutdown
  BY <1>8 DEF Shutdown, Goes, Running
<1>9. CASE FlushReturns
  BY <1>9 DEF FlushReturns, Goes, Running
<1>10. CASE DrainReturns
  BY <1>10 DEF DrainReturns, Goes, Running
<1>11. CASE CloseReturns
  BY <1>11 DEF CloseReturns, Ends, Running
<1>12. CASE CycleEnds
  BY <1>12, IntervalIsPositive DEF CycleEnds, Running, Loaded
<1>13. CASE Tick
  BY <1>13 DEF Tick, Running
<1>14. CASE LoopReturns
  BY <1>14 DEF LoopReturns, Running
<1>15. CASE WatchLoopExits
  BY <1>15 DEF WatchLoopExits, Running
<1>16. CASE Terminate
  BY <1>16 DEF Terminate, Asked, Running
<1>17. CASE Hangup
  BY <1>17 DEF Hangup, Running
<1>18. CASE Clock
  BY <1>18 DEF Clock, Running
<1>19. CASE UNCHANGED vars
  BY <1>19 DEF vars
<1> QED
  BY <1>1, <1>2, <1>3, <1>4, <1>5, <1>6, <1>7, <1>8, <1>9, <1>10, <1>11, <1>12, <1>13, <1>14, <1>15, <1>16, <1>17, <1>18, <1>19 DEF Next, Main

(* The process starts with nothing.                                        *)
LEMMA InitInv == Init => Inv
<1> SUFFICES ASSUME Init
             PROVE  Inv
  OBVIOUS
<1>1. DOMAIN cfg.systems = {} /\ Budget \in 0..Budget
  BY BudgetAssumption DEF Init, NoConfig
<1>2. TypeOK
  BY <1>1 DEF Init, TypeOK, Stages
<1>3. Loaded /\ Mode
  BY DEF Init, Loaded, Mode
<1>4. Handling /\ ExitTellsWhy
  BY DEF Init, Handling, ShuttingDown, ExitTellsWhy
<1> QED
  BY <1>2, <1>3, <1>4 DEF Inv

(* Inv is inductive.                                                       *)
LEMMA StepInv == Inv /\ [Next]_vars => Inv'
BY TypeStep, LoadedStep, ModeStep, HandlingStep, ExitStep DEF Inv

(* The invariant holds in every reachable state.                           *)
THEOREM Invariance == Spec => []Inv
BY InitInv, StepInv, PTL DEF Spec

(* The variables keep their types, the shutdown budget its bounds.         *)
THEOREM TypeCorrect == Spec => []TypeOK
<1>1. Inv => TypeOK
  BY DEF Inv
<1> QED
  BY <1>1, Invariance, PTL

(* The exit status tells the supervisor the truth, and of what Load lets   *)
(* through only another spelling of a reserved URI panics.                 *)
THEOREM ExitIsTruthful == Spec => []ExitTellsWhy
<1>1. Inv => ExitTellsWhy
  BY DEF Inv
<1> QED
  BY <1>1, Invariance, PTL

-----------------------------------------------------------------------------
(* No two targets share a label: Load refuses equal names, and names that  *)
(* cleaning would change.                                                  *)
THEOREM LabelsAreUnique == Spec => []NoTwinSystems
<1>1. Inv => NoTwinSystems
  <2> SUFFICES ASSUME Inv
               PROVE  NoTwinSystems
    OBVIOUS
  <2>1. CASE cfg = NoConfig
    BY <2>1 DEF NoTwinSystems, Systems, NoConfig
  <2>2. CASE cfg # NoConfig
    <3>1. /\ \A i \in DOMAIN cfg.systems : SystemIsValid(cfg.systems[i])
          /\ \A i, j \in DOMAIN cfg.systems : i # j => cfg.systems[i].name # cfg.systems[j].name
      BY <2>2, LoadedState
    <3>2. \A i \in DOMAIN cfg.systems : CleanValue(cfg.systems[i].name) = cfg.systems[i].name
      BY <3>1, Zenon DEF SystemIsValid, CleanValue
    <3> QED
      BY <3>1, <3>2 DEF NoTwinSystems, Systems
  <2> QED
    BY <2>1, <2>2
<1> QED
  BY <1>1, Invariance, PTL

(* A field that refers to a variable of the process's environment has that *)
(* variable's value; the empty one leaves it to the field's own fallback   *)
(* or secret file.                                                         *)
LEMMA InjectedField ==
  ASSUME NEW sources, NEW field,
         field.ref # Literally, field.ref \in DOMAIN sources.process,
         sources.process[field.ref] # Unset,
         NEW env, env = LoadDotEnv(sources)
  PROVE  /\ sources.process[field.ref] # "" =>
              Interpolate(field, env) = sources.process[field.ref]
         /\ sources.process[field.ref] = "" =>
              Interpolate(field, env) \in {"", field.alt}
<1>1. env[field.ref] = sources.process[field.ref]
  BY Zenon DEF LoadDotEnv, FirstSet
<1> QED
  BY <1>1, Zenon DEF Interpolate, Unset

(* What Load makes of a secret that the process was given.                 *)
LEMMA InjectedSecret ==
  ASSUME NEW sources, NEW field,
         field.ref # Literally, field.ref \in DOMAIN sources.process,
         sources.process[field.ref] # Unset,
         NEW env, env = LoadDotEnv(sources),
         InterpolateSecret(field, env) # Failed
  PROVE  InterpolateSecret(field, env) \in
           IF sources.process[field.ref] # "" THEN {sources.process[field.ref]} ELSE {field.alt}
BY InjectedField, Zenon DEF InterpolateSecret

(* And of a credential, which a file may give instead.                     *)
LEMMA InjectedCredential ==
  ASSUME NEW sources, NEW field, NEW file,
         field.ref # Literally, field.ref \in DOMAIN sources.process,
         sources.process[field.ref] # Unset,
         NEW env, env = LoadDotEnv(sources),
         Credential(field, file, env) # Failed
  PROVE  Credential(field, file, env) \in
           IF sources.process[field.ref] # "" THEN {sources.process[field.ref]}
           ELSE {field.alt, file}
<1>1. CASE file = NoFile
  BY <1>1, InjectedSecret, Zenon DEF Credential
<1>2. CASE file # NoFile
  BY <1>2, InjectedField, Zenon DEF Credential
<1> QED
  BY <1>1, <1>2, Zenon

(* What was injected decides every field that refers to it.                *)
THEOREM InjectedValuesStay == Spec => []InjectionWins
<1>1. Inv => InjectionWins
  <2> SUFFICES ASSUME Inv,
                      NEW i \in Systems,
                      NEW f \in {"name", "host", "apiKey", "username", "password"},
                      input.file.systems[i][f].ref # Literally,
                      input.sources.process[input.file.systems[i][f].ref] # Unset
               PROVE  LET field == input.file.systems[i][f]
                          injected == input.sources.process[field.ref]
                          files == CASE f = "apiKey" -> {input.file.systems[i].apiKeyFile}
                                     [] f = "password" -> {input.file.systems[i].passwordFile}
                                     [] OTHER -> {}
                      IN cfg.systems[i][f] \in
                           (IF injected # "" THEN {injected} ELSE {field.alt} \cup files)
    BY Zenon DEF InjectionWins
  <2> DEFINE sources == input.sources
             written == input.file.systems[i]
             env == LoadDotEnv(sources)
             s == LoadSystem(written, env)
  <2>1. cfg # NoConfig /\ cfg = Load(input.file, env)
    BY DEF Inv, Loaded, Systems, NoConfig
  <2>2. /\ cfg.systems = [j \in DOMAIN input.file.systems |-> LoadSystem(input.file.systems[j], env)]
        /\ SystemIsValid(cfg.systems[i])
    BY <2>1, LoadedState DEF Systems
  <2>3. i \in DOMAIN input.file.systems /\ cfg.systems[i] = s
    BY <2>2 DEF Systems
  <2>4. written[f].ref \in DOMAIN sources.process
    BY <2>3, InputsAssumption DEF Inv, Loaded
  <2>5. s[f] # Failed
    BY <2>2, <2>3, Zenon DEF SystemIsValid, LoadSystem
  <2> DEFINE field == written[f]
             injected == sources.process[field.ref]
  <2>6. /\ field.ref # Literally /\ field.ref \in DOMAIN sources.process
        /\ sources.process[field.ref] # Unset
    BY <2>4
  <2>7. CASE f \in {"name", "host", "username"}
    <3>1. s[f] = InterpolateSecret(field, env)
      <4>1. CASE f = "name"
        BY <4>1 DEF LoadSystem
      <4>2. CASE f = "host"
        BY <4>2 DEF LoadSystem
      <4>3. CASE f = "username"
        BY <4>3 DEF LoadSystem
      <4> QED
        BY <2>7, <4>1, <4>2, <4>3
    <3> HIDE DEF field, env, sources
    <3>2. InterpolateSecret(field, env) # Failed
      BY <3>1, <2>5
    <3>3. InterpolateSecret(field, env) \in IF injected # "" THEN {injected} ELSE {field.alt}
      BY <2>6, <3>2, InjectedSecret, Zenon DEF env
    <3>4. s[f] \in IF injected # "" THEN {injected} ELSE {field.alt}
      BY <3>1, <3>3, Zenon
    <3> QED
      BY <3>4, <2>3, Zenon DEF field, sources
  <2>8. CASE f = "apiKey"
    <3>1. s[f] = Credential(field, written.apiKeyFile, env)
      BY <2>8 DEF LoadSystem
    <3> DEFINE file == written.apiKeyFile
    <3> HIDE DEF field, env, sources, file
    <3>2. Credential(field, file, env) # Failed
      BY <3>1, <2>5 DEF file
    <3>3. Credential(field, file, env) \in IF injected # "" THEN {injected} ELSE {field.alt, file}
      BY <2>6, <3>2, InjectedCredential, Zenon DEF env
    <3>4. s[f] \in IF injected # "" THEN {injected} ELSE {field.alt, written.apiKeyFile}
      BY <3>1, <3>3, Zenon DEF file
    <3> QED
      BY <3>4, <2>3, <2>8, Zenon DEF field, sources
  <2>9. CASE f = "password"
    <3>1. s[f] = Credential(field, written.passwordFile, env)
      BY <2>9 DEF LoadSystem
    <3> DEFINE file == written.passwordFile
    <3> HIDE DEF field, env, sources, file
    <3>2. Credential(field, file, env) # Failed
      BY <3>1, <2>5 DEF file
    <3>3. Credential(field, file, env) \in IF injected # "" THEN {injected} ELSE {field.alt, file}
      BY <2>6, <3>2, InjectedCredential, Zenon DEF env
    <3>4. s[f] \in IF injected # "" THEN {injected} ELSE {field.alt, written.passwordFile}
      BY <3>1, <3>3, Zenon DEF file
    <3> QED
      BY <3>4, <2>3, <2>9, Zenon DEF field, sources
  <2> QED
    BY <2>7, <2>8, <2>9, Zenon
<1> QED
  BY <1>1, Invariance, PTL
=============================================================================
