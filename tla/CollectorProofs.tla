-------------------------- MODULE CollectorProofs ---------------------------
(***************************************************************************)
(* The collection loop for every set of client lists, every MaxConcurrent  *)
(* and any number of reloads: it implements what readers are promised, and *)
(* nothing is carried from one cycle into the next.                        *)
(*                                                                         *)
(* What ties the loop together is that its locals belong to the list it    *)
(* took at the start of the cycle, though the installed list may be        *)
(* another one by then: there is one place in stats, listed and results    *)
(* for each target of List (OwnList), every answer that is in came in this *)
(* cycle (OwnReplies), and each target that has come back left its result  *)
(* at its own place, whatever the order they came back in (OwnResults).    *)
(***************************************************************************)
EXTENDS Collector, SequenceTheorems, FiniteSetTheorems, TLAPS

(* The locals of CollectOnce fit the list of this cycle.                   *)
OwnList == IF loop = "collect" THEN rev \in 1..Current /\ Len(stats) = Len(List)
                               ELSE launched = 0

OwnReplies == \A i \in 1..Len(stats) : stats[i].come # "pending" => stats[i].cycle = cycle

OwnResults ==
  \A i \in (1..launched) \ running : /\ results[i] \in Result
                                    /\ results[i].system = List[i]
                                    /\ results[i].cycle = cycle

Inv == TypeOK /\ OwnList /\ OwnReplies /\ OwnResults /\ NothingCarriedOver

-----------------------------------------------------------------------------
(* A function on 1..n is a sequence of length n.                           *)
LEMMA FunctionIsSeq ==
  ASSUME NEW S, NEW n \in Nat, NEW f \in [1..n -> S]
  PROVE  f \in Seq(S) /\ Len(f) = n
<1>1. f \in Seq(S)
  BY SeqDef
<1>2. Len(f) \in Nat /\ DOMAIN f = 1..Len(f)
  BY <1>1, LenProperties
<1>3. DOMAIN f = 1..n
  OBVIOUS
<1> QED
  BY <1>1, <1>2, <1>3

(* A list of clients is a sequence of targets.                             *)
LEMMA ListIsSeq ==
  ASSUME NEW list \in Configs
  PROVE  /\ Len(list) \in Nat \ {0}
         /\ DOMAIN list = 1..Len(list)
         /\ \A i \in DOMAIN list : list[i] \in Systems
<1>1. list \in Seq({list[i] : i \in DOMAIN list}) /\ Len(list) > 0
  BY ConfigsAssumption
<1>2. Len(list) \in Nat /\ DOMAIN list = 1..Len(list)
  BY <1>1, LenProperties
<1> QED
  BY <1>1, <1>2 DEF Systems

(* The list of a cycle is one of those installed.                          *)
LEMMA ListOfCycle ==
  ASSUME TypeOK, rev \in 1..Current
  PROVE  List \in Configs
BY ElementOfSeq DEF TypeOK, List, Current

(* A reload appends to the lists and leaves the earlier ones as they are.  *)
LEMMA ReloadAppends ==
  ASSUME TypeOK, Reload
  PROVE  /\ clients' \in Seq(Configs)
         /\ Current' = Current + 1
         /\ \A r \in 1..Current : clients'[r] = clients[r]
BY AppendProperties DEF TypeOK, Reload, Current

USE BoundsAssumption

(* The first cycle has not begun, and nothing is published.                *)
LEMMA InitInv == Init => Inv
<1> SUFFICES ASSUME Init
             PROVE  Inv
  OBVIOUS
<1>1. PICK list \in Configs : clients = <<list>>
  BY DEF Init
<1>2. clients \in Seq(Configs) /\ Len(clients) = 1
  BY <1>1
<1>3. /\ stats \in Seq(Reply) /\ Len(stats) = 0
      /\ listed \in Seq(BOOLEAN) /\ Len(listed) = 0
      /\ results \in Seq(Result \cup {NoResult}) /\ Len(results) = 0
      /\ store.systems \in Seq(Result)
  BY EmptySeq DEF Init, EmptySnapshot
<1>4. DOMAIN store.systems = {}
  BY DEF Init, EmptySnapshot
<1>5. TypeOK
  <2>1. /\ rev = 0 /\ cycle = 0 /\ launched = 0 /\ running = {}
        /\ store.rev = 0 /\ store.cycle = 0
    BY DEF Init, EmptySnapshot
  <2>2. stopped \in BOOLEAN /\ loop \in {"begin", "collect", "wait", "returned"}
    BY DEF Init
  <2>3. Current \in 1..MaxRevisions /\ rev \in 0..Current
    BY <1>2, <2>1 DEF Current
  <2>4. /\ launched \in 0..Len(stats) /\ Len(listed) = Len(stats)
        /\ Len(results) = Len(stats) /\ store.rev \in 0..rev
    BY <1>3, <2>1
  <2>5. cycle \in 0..1 /\ store.cycle \in 0..1
    BY <2>1
  <2> QED
    BY <1>2, <1>3, <2>1, <2>2, <2>3, <2>4, <2>5 DEF TypeOK
<1>6. OwnList /\ OwnReplies /\ OwnResults /\ NothingCarriedOver
  <2>1. loop = "begin" /\ launched = 0 /\ 1..launched = {} /\ 1..Len(stats) = {}
    BY <1>3 DEF Init
  <2> QED
    BY <1>4, <2>1 DEF OwnList, OwnReplies, OwnResults, NothingCarriedOver
<1> QED
  BY <1>5, <1>6 DEF Inv

(* What is published is one result for each target, at its place, made of  *)
(* this cycle's answers.                                                   *)
LEMMA PublishStores ==
  ASSUME Inv, Publish
  PROVE  /\ List \in Configs
         /\ store'.rev = rev /\ store'.cycle = cycle
         /\ store'.systems \in Seq(Result)
         /\ DOMAIN store'.systems = DOMAIN List
         /\ \A i \in DOMAIN List : /\ store'.systems[i] \in Result
                                   /\ store'.systems[i].system = List[i]
                                   /\ store'.systems[i].cycle = cycle
<1>1. List \in Configs
  BY ListOfCycle DEF Inv, OwnList, Publish
<1>2. Len(List) \in Nat /\ DOMAIN List = 1..Len(List)
  BY <1>1, ListIsSeq
<1>3. /\ Len(results) = Len(List)
      /\ results \in [1..Len(results) -> Result \cup {NoResult}]
  BY LenProperties DEF Inv, TypeOK, OwnList, Publish
<1>4. \A i \in 1..Len(List) : i \in (1..launched) \ running
  BY DEF Publish
<1>5. \A i \in 1..Len(List) : /\ results[i] \in Result
                              /\ results[i].system = List[i]
                              /\ results[i].cycle = cycle
  BY <1>4 DEF Inv, OwnResults
<1>6. results \in [1..Len(List) -> Result]
  BY <1>3, <1>5
<1>7. store'.rev = rev /\ store'.cycle = cycle /\ store'.systems = results
  BY DEF Publish
<1> QED
  BY <1>1, <1>2, <1>5, <1>6, <1>7, FunctionIsSeq

(* What TakeClients makes is as long as the list that it took.             *)
LEMMA TakeMakesPlaces ==
  ASSUME Inv, TakeClients
  PROVE  /\ rev' = Current /\ rev' \in 1..Current
         /\ stats' \in Seq(Reply) /\ Len(stats') = Len(clients[rev'])
         /\ \A i \in 1..Len(stats') : stats'[i].come = "pending"
         /\ listed' \in Seq(BOOLEAN) /\ Len(listed') = Len(clients[rev'])
         /\ results' \in Seq(Result \cup {NoResult}) /\ Len(results') = Len(clients[rev'])
<1>1. rev' = Current /\ rev' \in 1..Current
  BY DEF Inv, TypeOK, TakeClients, TakeLatest, Current
<1>2. clients[rev'] \in Configs
  BY <1>1, ElementOfSeq DEF Inv, TypeOK, Current
<1>3. Len(clients[rev']) \in Nat /\ DOMAIN clients[rev'] = 1..Len(clients[rev'])
  BY <1>2, ListIsSeq
<1>4. Pending \in Reply /\ Pending.come = "pending"
  BY DEF Pending, Reply
<1>5. stats' = [i \in 1..Len(clients[rev']) |-> Pending]
  BY <1>3 DEF TakeClients
<1>6. /\ stats' \in [1..Len(clients[rev']) -> Reply]
      /\ listed' \in [1..Len(clients[rev']) -> BOOLEAN]
      /\ results' \in [1..Len(clients[rev']) -> Result \cup {NoResult}]
  BY <1>3, <1>4, <1>5 DEF TakeClients
<1>7. Len(stats') = Len(clients[rev'])
  BY <1>3, <1>6, FunctionIsSeq
<1>8. \A i \in 1..Len(stats') : stats'[i].come = "pending"
  BY <1>4, <1>5, <1>7
<1> QED
  BY <1>1, <1>3, <1>6, <1>7, <1>8, FunctionIsSeq

(* The calls of one target write its own place and no other.               *)
LEMMA TargetKeepsPlaces ==
  ASSUME Inv, NEW i \in running, Target(i)
  PROVE  /\ loop = "collect" /\ i \in 1..Len(List) /\ List[i] \in Systems
         /\ stats' \in Seq(Reply) /\ Len(stats') = Len(stats)
         /\ listed' \in Seq(BOOLEAN) /\ Len(listed') = Len(listed)
         /\ results' \in Seq(Result \cup {NoResult}) /\ Len(results') = Len(results)
         /\ \A k \in 1..Len(stats) : k # i => stats'[k] = stats[k] /\ results'[k] = results[k]
         /\ stats'[i].come # "pending" => stats'[i].cycle = cycle
         /\ i \notin running' => /\ results'[i] \in Result
                                /\ results'[i].system = List[i]
                                /\ results'[i].cycle = cycle
<1>0. /\ i \in 1..Len(stats) /\ i \in 1..Len(listed) /\ i \in 1..Len(results)
      /\ stats \in Seq(Reply) /\ listed \in Seq(BOOLEAN)
      /\ results \in Seq(Result \cup {NoResult})
      /\ Len(listed) = Len(stats) /\ Len(results) = Len(stats)
      /\ launched # 0 /\ cycle \in 0..1
  BY LenProperties DEF Inv, TypeOK
<1>1. loop = "collect" /\ Len(stats) = Len(List) /\ List \in Configs
  BY <1>0, ListOfCycle DEF Inv, OwnList
<1>2. i \in 1..Len(List) /\ List[i] \in Systems
  BY <1>0, <1>1, ListIsSeq
<1>3. CASE StatsReturns(i)
  <2>1. PICK r \in {"ok", "failed"} : stats' = [stats EXCEPT ![i] = [come |-> r, cycle |-> cycle]]
    BY <1>3 DEF StatsReturns
  <2>2. [come |-> r, cycle |-> cycle] \in Reply
    BY <1>0 DEF Reply
  <2>3. /\ stats' \in Seq(Reply) /\ Len(stats') = Len(stats)
        /\ stats'[i] = [come |-> r, cycle |-> cycle]
        /\ \A k \in 1..Len(stats) : k # i => stats'[k] = stats[k]
    BY <1>0, <2>1, <2>2, ExceptSeq, LenProperties
  <2> QED
    BY <1>0, <1>1, <1>2, <1>3, <2>3 DEF StatsReturns
<1>4. CASE ListReturns(i)
  <2>1. listed' \in Seq(BOOLEAN) /\ Len(listed') = Len(listed)
    BY <1>0, <1>4, ExceptSeq DEF ListReturns
  <2> QED
    BY <1>0, <1>1, <1>2, <1>4, <2>1 DEF ListReturns, Inv, OwnReplies
<1>5. CASE Finish(i)
  <2>1. Pending \in Reply /\ Pending.come = "pending"
    BY DEF Pending, Reply
  <2>2. stats[i].cycle = cycle
    BY <1>0, <1>5 DEF Finish, Inv, OwnReplies
  <2>3. ResultOf(i) \in Result /\ ResultOf(i).system = List[i] /\ ResultOf(i).cycle = cycle
    BY <1>0, <1>2, <2>2 DEF ResultOf, Result
  <2>4. /\ stats' \in Seq(Reply) /\ Len(stats') = Len(stats)
        /\ stats'[i] = Pending
        /\ \A k \in 1..Len(stats) : k # i => stats'[k] = stats[k]
    BY <1>0, <1>5, <2>1, ExceptSeq, LenProperties DEF Finish
  <2>5. listed' \in Seq(BOOLEAN) /\ Len(listed') = Len(listed)
    BY <1>0, <1>5, ExceptSeq DEF Finish
  <2>6. /\ results' \in Seq(Result \cup {NoResult}) /\ Len(results') = Len(results)
        /\ results'[i] = ResultOf(i)
        /\ \A k \in 1..Len(stats) : k # i => results'[k] = results[k]
    BY <1>0, <1>5, <2>3, ExceptSeq, LenProperties DEF Finish, Place
  <2> QED
    BY <1>1, <1>2, <2>1, <2>3, <2>4, <2>5, <2>6
<1> QED
  BY <1>3, <1>4, <1>5 DEF Target

(* Inv is inductive.                                                       *)
LEMMA StepInv == Inv /\ [Next]_vars => Inv'
<1> SUFFICES ASSUME Inv, [Next]_vars
             PROVE  Inv'
  OBVIOUS
<1>0. /\ TypeOK /\ OwnList /\ OwnReplies /\ OwnResults /\ NothingCarriedOver
      /\ Current \in Nat \ {0} /\ Len(stats) \in Nat /\ launched \in Nat
  BY LenProperties DEF Inv, TypeOK, Current
<1>1. CASE TakeClients
  <2>1. /\ launched = 0 /\ running = {} /\ 1..launched = {}
        /\ UNCHANGED <<clients, stopped, launched, running, store>>
    BY <1>0, <1>1 DEF OwnList, TypeOK, TakeClients
  <2>2. /\ rev' = Current /\ rev' \in 1..Current
        /\ stats' \in Seq(Reply) /\ Len(stats') = Len(clients[rev'])
        /\ \A i \in 1..Len(stats') : stats'[i].come = "pending"
        /\ listed' \in Seq(BOOLEAN) /\ Len(listed') = Len(clients[rev'])
        /\ results' \in Seq(Result \cup {NoResult}) /\ Len(results') = Len(clients[rev'])
    BY <1>1, TakeMakesPlaces
  <2>3. Len(stats') \in Nat /\ 0 \in 0..Len(stats')
    BY <2>2, LenProperties
  <2>4. TypeOK'
    BY <1>0, <1>1, <2>1, <2>2, <2>3 DEF TypeOK, TakeClients, Current
  <2>5. OwnList' /\ OwnReplies' /\ OwnResults' /\ NothingCarriedOver'
    BY <1>0, <1>1, <2>1, <2>2
       DEF OwnList, OwnReplies, OwnResults, NothingCarriedOver, TakeClients, Current, List
  <2> QED
    BY <2>4, <2>5 DEF Inv
<1>2. CASE Launch
  <2>1. /\ launched' = launched + 1 /\ running' = running \cup {launched + 1}
        /\ loop = "collect" /\ launched + 1 <= Len(List) /\ Len(stats) = Len(List)
        /\ UNCHANGED <<clients, stopped, loop, rev, cycle, stats, listed, results, store>>
    BY <1>0, <1>2 DEF Launch, OwnList
  <2>2. (1..launched') \ running' \subseteq (1..launched) \ running
    BY <1>0, <2>1
  <2>3. running' \subseteq 1..launched' /\ launched' \in 0..Len(stats)
    BY <1>0, <2>1 DEF TypeOK
  <2>4. TypeOK' /\ OwnList'
    BY <1>0, <2>1, <2>3 DEF TypeOK, OwnList, Current, List
  <2> QED
    BY <1>0, <2>1, <2>2, <2>4 DEF Inv, OwnReplies, OwnResults, NothingCarriedOver, List
<1>3. CASE Publish
  <2>1. /\ store'.rev = rev /\ store'.cycle = cycle /\ store'.systems \in Seq(Result)
        /\ \A i \in DOMAIN store'.systems : store'.systems[i].cycle = cycle
    BY <1>3, PublishStores
  <2>2. /\ stats' = <<>> /\ listed' = <<>> /\ results' = <<>> /\ launched' = 0 /\ running' = {}
        /\ stats' \in Seq(Reply) /\ Len(stats') = 0
        /\ listed' \in Seq(BOOLEAN) /\ Len(listed') = 0
        /\ results' \in Seq(Result \cup {NoResult}) /\ Len(results') = 0
        /\ 1..0 = {}
    BY <1>3, EmptySeq DEF Publish, ForgetWork
  <2>3. TypeOK'
    BY <1>0, <1>3, <2>1, <2>2 DEF TypeOK, Publish, Current
  <2>4. NothingCarriedOver'
    BY <2>1 DEF NothingCarriedOver
  <2>5. OwnList' /\ OwnReplies' /\ OwnResults'
    BY <1>3, <2>2 DEF OwnList, OwnReplies, OwnResults, Publish
  <2> QED
    BY <2>3, <2>4, <2>5 DEF Inv
<1>4. CASE Tick \/ Exit
  BY <1>0, <1>4 DEF Inv, TypeOK, OwnList, OwnReplies, OwnResults, NothingCarriedOver, Tick, Exit,
     Current, List, work
<1>5. ASSUME NEW i \in running, Target(i) PROVE Inv'
  <2>1. /\ UNCHANGED <<clients, stopped, loop, rev, cycle, launched, store>>
        /\ running' \in {running, running \ {i}}
    BY <1>5 DEF Target, StatsReturns, ListReturns, Finish
  <2>2. /\ stats' \in Seq(Reply) /\ Len(stats') = Len(stats)
        /\ listed' \in Seq(BOOLEAN) /\ Len(listed') = Len(listed)
        /\ results' \in Seq(Result \cup {NoResult}) /\ Len(results') = Len(results)
        /\ \A k \in 1..Len(stats) : k # i => stats'[k] = stats[k] /\ results'[k] = results[k]
        /\ stats'[i].come # "pending" => stats'[i].cycle = cycle
        /\ i \notin running' => /\ results'[i] \in Result
                               /\ results'[i].system = List[i]
                               /\ results'[i].cycle = cycle
    BY <1>5, TargetKeepsPlaces
  <2>3. TypeOK' /\ OwnList'
    BY <1>0, <2>1, <2>2 DEF TypeOK, OwnList, Current, List
  <2>4. OwnReplies'
    BY <1>0, <2>1, <2>2 DEF OwnReplies
  <2>5. OwnResults'
    <3> SUFFICES ASSUME NEW k \in (1..launched) \ running'
                 PROVE  /\ results'[k] \in Result
                        /\ results'[k].system = List[k]
                        /\ results'[k].cycle = cycle
      BY <2>1 DEF OwnResults, List
    <3>1. k \in 1..Len(stats)
      BY <1>0 DEF TypeOK
    <3>2. CASE k = i
      BY <2>2, <3>2
    <3>3. CASE k # i
      BY <1>0, <2>1, <2>2, <3>1, <3>3 DEF OwnResults
    <3> QED
      BY <3>2, <3>3
  <2>6. NothingCarriedOver'
    BY <1>0, <2>1 DEF NothingCarriedOver
  <2> QED
    BY <2>3, <2>4, <2>5, <2>6 DEF Inv
<1>6. CASE Reload
  <2>1. /\ clients' \in Seq(Configs) /\ Current' = Current + 1
        /\ \A r \in 1..Current : clients'[r] = clients[r]
    BY <1>0, <1>6, ReloadAppends
  <2>2. UNCHANGED <<stopped, loop, rev, cycle, launched, running, stats, listed, results, store>>
    BY <1>6 DEF Reload, work
  <2>3. Current < MaxRevisions
    BY <1>6 DEF Reload
  <2>4. TypeOK'
    BY <1>0, <2>1, <2>2, <2>3 DEF TypeOK
  <2>5. OwnList' /\ OwnReplies' /\ NothingCarriedOver'
    BY <1>0, <2>1, <2>2 DEF OwnList, OwnReplies, NothingCarriedOver, List
  <2>6. OwnResults'
    <3>1. CASE loop = "collect"
      BY <1>0, <2>1, <2>2, <3>1 DEF OwnList, OwnResults, List
    <3>2. CASE loop # "collect"
      <4>1. 1..launched = {}
        BY <1>0, <3>2 DEF OwnList
      <4> QED
        BY <2>2, <4>1 DEF OwnResults
    <3> QED
      BY <3>1, <3>2
  <2> QED
    BY <2>4, <2>5, <2>6 DEF Inv
<1>7. CASE Cancel
  BY <1>0, <1>7 DEF Inv, TypeOK, OwnList, OwnReplies, OwnResults, NothingCarriedOver, Cancel,
     Current, List, work
<1>8. CASE UNCHANGED vars
  BY <1>0, <1>8 DEF Inv, TypeOK, OwnList, OwnReplies, OwnResults, NothingCarriedOver, Current,
     List, vars
<1> QED
  BY <1>1, <1>2, <1>3, <1>4, <1>5, <1>6, <1>7, <1>8 DEF Next, Finished

(* The inductive invariant holds in every reachable state.                 *)
THEOREM Invariance == Spec => []Inv
<1>1. Init => Inv
  BY InitInv
<1>2. Inv /\ [Next]_vars => Inv'
  BY StepInv
<1> QED
  BY <1>1, <1>2, PTL DEF Spec

(* The locals always fit the list of the cycle, whatever was reloaded      *)
(* meanwhile, and what is published is never newer than what was taken.    *)
THEOREM TypeCorrect == Spec => []TypeOK
BY Invariance, PTL DEF Inv

(* Every result in the store was made of an answer that came in during the *)
(* cycle that published it.                                                *)
THEOREM AnswersAreFresh == Spec => []NothingCarriedOver
BY Invariance, PTL DEF Inv

-----------------------------------------------------------------------------
(* What readers see of the store.                                          *)
View == [rev |-> store.rev,
         systems |-> [i \in DOMAIN store.systems |->
                        [system |-> store.systems[i].system, up |-> store.systems[i].up]]]

(* A step of the loop, or of whoever reloads it, is one of readers seeing  *)
(* a newer snapshot, one of a configuration being installed, or neither.   *)
LEMMA RefinementStep == Inv /\ [Next]_vars => [SV!Next]_SV!vars
<1> SUFFICES ASSUME Inv, [Next]_vars
             PROVE  [SV!Next]_<<clients, View>>
  BY DEF SV!vars, View
<1>1. CASE Publish
  <2>1. /\ List \in Configs
        /\ store'.rev = rev
        /\ DOMAIN store'.systems = DOMAIN List
        /\ \A i \in DOMAIN List : /\ store'.systems[i] \in Result
                                  /\ store'.systems[i].system = List[i]
    BY <1>1, PublishStores
  <2>2. rev \in 1..Len(clients) /\ rev >= store.rev
    BY <1>1 DEF Inv, TypeOK, OwnList, Publish, Current
  <2> DEFINE shown == [i \in DOMAIN List |->
                         [system |-> List[i], up |-> store'.systems[i].up]]
  <2>3. View' = [rev |-> rev, systems |-> shown]
    BY <2>1 DEF View
  <2>4. shown \in SV!Answers(clients[rev])
    BY <2>1 DEF SV!Answers, List, Result
  <2>5. UNCHANGED clients
    BY <1>1 DEF Publish
  <2> QED
    BY <2>2, <2>3, <2>4, <2>5 DEF SV!Next, SV!Publish, View
<1>2. CASE Reload
  BY <1>2 DEF Reload, SV!Next, SV!Install, View
<1>3. CASE TakeClients \/ Launch \/ Tick \/ Exit \/ Cancel \/ UNCHANGED vars
  BY <1>3 DEF TakeClients, Launch, Tick, Exit, Cancel, vars, View
<1>4. ASSUME NEW i \in running, Target(i) PROVE UNCHANGED <<clients, View>>
  BY <1>4 DEF Target, StatsReturns, ListReturns, Finish, View
<1> QED
  BY <1>1, <1>2, <1>3, <1>4 DEF Next, Finished

(* Readers see, all at once, one answer for each target of one list, in    *)
(* its order, and never go back to an older list.                          *)
THEOREM LoopRefinesView == Spec => ImplementsView
<1>1. Init => SV!Init
  <2> SUFFICES ASSUME Init
               PROVE  SV!Init
    OBVIOUS
  <2>1. store.rev = 0 /\ DOMAIN store.systems = {}
    BY DEF Init, EmptySnapshot
  <2>2. View = [rev |-> 0, systems |-> <<>>]
    BY <2>1 DEF View
  <2> QED
    BY <2>2 DEF Init, SV!Init, View
<1>2. Inv /\ [Next]_vars => [SV!Next]_SV!vars
  BY RefinementStep
<1> QED
  BY <1>1, <1>2, Invariance, PTL DEF Spec, SV!Spec, ImplementsView
=============================================================================
