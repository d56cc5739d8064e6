----------------------------- MODULE Collector ------------------------------
(***************************************************************************)
(* The collection loop (internal/kemp/collector.go) and the snapshot store *)
(* (snapshot.go): Run starts a cycle at once and then on every tick;       *)
(* CollectOnce fans out over a private copy of the client list, at most    *)
(* MaxConcurrent targets at a time; every target asks for statistics and   *)
(* for the virtual-service names concurrently; the finished snapshot       *)
(* replaces the old one whole.  A reload replaces the client list at any   *)
(* moment, shutdown cancels the context at any moment.                     *)
(*                                                                         *)
(* A target is its name.  What goes on inside one client, and the part of  *)
(* SetClients that copies the cooldown, are in ClientReload.tla.           *)
(***************************************************************************)
EXTENDS Naturals, Integers, Sequences, FiniteSets

CONSTANTS
    Configs,         \* the client lists that buildClients may build
    MaxConcurrent,   \* Collection.MaxConcurrent
    MaxRevisions     \* bound: client lists installed, the first included

ASSUME ConfigsAssumption ==
    \A list \in Configs : /\ list \in Seq({list[i] : i \in DOMAIN list})
                          /\ Len(list) > 0
                          /\ \A i, j \in DOMAIN list : list[i] = list[j] => i = j
ASSUME BoundsAssumption == MaxConcurrent \in Int /\ MaxRevisions \in Nat \ {0}

VARIABLES
    clients,   \* every client list installed, in order: the last is l.clients
    stopped,   \* Run's context is cancelled
    loop,      \* where Run is
    rev,       \* the list this cycle works on, as a position in clients
    cycle,     \* history: the number of this cycle, modulo 2
    launched,  \* targets of this cycle handed to errgroup.Go so far
    running,   \* those of them that collectSystem has not returned for
    stats,     \* per target being asked, how GetStatistics came back, and in which cycle
    listed,    \* per target being asked, is ListVirtualServices back
    results,   \* CollectOnce's results, one place per target
    store      \* SnapshotStore.snap

vars == <<clients, stopped, loop, rev, cycle, launched, running, stats, listed, results, store>>

work == <<launched, running, stats, listed, results>>

Current == Len(clients)
List == clients[rev]
NoResult == [system |-> "nil", up |-> FALSE, cycle |-> 0]
EmptySnapshot == [rev |-> 0, cycle |-> 0, systems |-> <<>>]

Systems == UNION {{list[i] : i \in DOMAIN list} : list \in Configs}
Result == [system : Systems, up : BOOLEAN, cycle : 0..1]

Pending == [come |-> "pending", cycle |-> 0]
Reply == [come : {"pending", "ok", "failed"}, cycle : 0..1]

TypeOK ==
    /\ clients \in Seq(Configs) /\ Current \in 1..MaxRevisions
    /\ stopped \in BOOLEAN
    /\ loop \in {"begin", "collect", "wait", "returned"}
    /\ rev \in 0..Current
    /\ cycle \in 0..1
    /\ launched \in 0..Len(stats) /\ Len(listed) = Len(stats) /\ Len(results) = Len(stats)
    /\ running \subseteq 1..launched
    /\ stats \in Seq(Reply)
    /\ listed \in Seq(BOOLEAN)
    /\ results \in Seq(Result \cup {NoResult})
    /\ store.rev \in 0..rev /\ store.cycle \in 0..1 /\ store.systems \in Seq(Result)

Init == /\ \E list \in Configs : clients = <<list>>
        /\ stopped = FALSE
        /\ loop = "begin"
        /\ rev = 0
        /\ cycle = 0
        /\ launched = 0
        /\ running = {}
        /\ stats = <<>>
        /\ listed = <<>>
        /\ results = <<>>
        /\ store = EmptySnapshot

-----------------------------------------------------------------------------
(* CollectOnce up to its loop: snapshotClients.                            *)
TakeFirst == 1

TakeLatest == Current

TakeClients ==
    /\ loop = "begin"
    /\ loop' = "collect"
    /\ rev' = TakeLatest
    /\ cycle' = (cycle + 1) % 2
    /\ stats' = [i \in DOMAIN clients[rev'] |-> Pending]
    /\ listed' = [i \in DOMAIN clients[rev'] |-> FALSE]
    /\ results' = [i \in DOMAIN clients[rev'] |-> NoResult]
    /\ UNCHANGED <<clients, stopped, launched, running, store>>

(* errgroup.Go waits for a slot; collectSystem then starts both calls.     *)
Limit == IF MaxConcurrent <= 0 THEN 1 ELSE MaxConcurrent

Launch ==
    /\ loop = "collect"
    /\ launched < Len(List)
    /\ Cardinality(running) < Limit
    /\ launched' = launched + 1
    /\ running' = running \cup {launched + 1}
    /\ UNCHANGED <<clients, stopped, loop, rev, cycle, stats, listed, results, store>>

(* GetStatistics succeeds, or fails: on its own, at the target's timeout,  *)
(* on shutdown.                                                            *)
StatsReturns(i) ==
    /\ stats[i].come = "pending"
    /\ \E r \in {"ok", "failed"} : stats' = [stats EXCEPT ![i] = [come |-> r, cycle |-> cycle]]
    /\ UNCHANGED <<clients, stopped, loop, rev, cycle, launched, running, listed, results, store>>

(* ListVirtualServices comes back, too, with names or with a failure that  *)
(* is tolerated.                                                           *)
ListReturns(i) ==
    /\ ~listed[i]
    /\ listed' = [listed EXCEPT ![i] = TRUE]
    /\ UNCHANGED <<clients, stopped, loop, rev, cycle, launched, running, stats, results, store>>

(* What collectSystem makes of target i: down without statistics, whether  *)
(* there are names or not.                                                 *)
ResultKeepsLast(i) ==
    LET last == SelectSeq(store.systems, LAMBDA s : s.system = List[i]) IN
    IF stats[i].come = "failed" /\ last # <<>>
      THEN last[1]
      ELSE [system |-> List[i], up |-> stats[i].come = "ok", cycle |-> stats[i].cycle]

ResultOf(i) == [system |-> List[i],
                up |-> stats[i].come = "ok",
                cycle |-> stats[i].cycle]

(* The place of its result: the target's own, in whatever order they come. *)
NextPlace(i) == 1 + Cardinality((1..launched) \ running)

Place(i) == i

(* Both calls are back (collectSystem's g.Wait): the result is written and *)
(* the slot is free again.  The locals of collectSystem are gone.          *)
Finish(i) ==
    /\ stats[i].come # "pending"
    /\ listed[i]
    /\ results' = [results EXCEPT ![Place(i)] = ResultOf(i)]
    /\ running' = running \ {i}
    /\ stats' = [stats EXCEPT ![i] = Pending]
    /\ listed' = [listed EXCEPT ![i] = FALSE]
    /\ UNCHANGED <<clients, stopped, loop, rev, cycle, launched, store>>

Target(i) == StatsReturns(i) \/ ListReturns(i) \/ Finish(i)

(* CollectOnce's locals are gone when it returns.                          *)
ForgetWork == /\ launched' = 0
              /\ running' = {}
              /\ stats' = <<>>
              /\ listed' = <<>>
              /\ results' = <<>>

(* CollectOnce's g.Wait, then SnapshotStore.Store of the results as they   *)
(* were left.                                                              *)
Publish ==
    /\ loop = "collect"
    /\ launched = Len(List)
    /\ running = {}
    /\ store' = [rev |-> rev, cycle |-> cycle, systems |-> results]
    /\ loop' = "wait"
    /\ ForgetWork
    /\ UNCHANGED <<clients, stopped, rev, cycle>>

(* Run's select: a tick starts another cycle, a cancelled context ends it, *)
(* and when both are ready either is taken.                                *)
Tick == /\ loop = "wait"
        /\ loop' = "begin"
        /\ UNCHANGED <<clients, stopped, rev, cycle, work, store>>

Exit == /\ loop = "wait"
        /\ stopped
        /\ loop' = "returned"
        /\ UNCHANGED <<clients, stopped, rev, cycle, work, store>>

(* SetClients; a reload whose config does not build clients changes        *)
(* nothing.                                                                *)
Reload == /\ Current < MaxRevisions
          /\ \E list \in Configs : clients' = Append(clients, list)
          /\ UNCHANGED <<stopped, loop, rev, cycle, work, store>>

Cancel == /\ ~stopped
          /\ stopped' = TRUE
          /\ UNCHANGED <<clients, loop, rev, cycle, work, store>>

Finished == /\ loop = "returned"
            /\ UNCHANGED vars

Next == \/ TakeClients \/ Launch \/ Publish \/ Tick \/ Exit
        \/ \E i \in running : Target(i)
        \/ Reload \/ Cancel \/ Finished

Spec == Init /\ [][Next]_vars

(* Goroutines run, every call returns by its timeout, the ticker ticks.    *)
(* Nobody has to reload or to stop.  Go's select takes a case that is ready *)
(* over and over.                                                          *)
FairSpec == /\ Spec
            /\ WF_vars(TakeClients) /\ WF_vars(Launch) /\ WF_vars(Publish)
            /\ WF_vars(\E i \in running : Target(i))
            /\ WF_vars(Tick) /\ SF_vars(Exit)

-----------------------------------------------------------------------------
(* No series survives from an earlier cycle: whatever order the targets'   *)
(* calls end in, each result of a snapshot was made of an answer that came *)
(* in during the cycle that published it.                                  *)
NothingCarriedOver ==
    \A i \in DOMAIN store.systems : store.systems[i].cycle = store.cycle

(* A reload reaches the readers, unless shutdown comes first.              *)
ReloadsArrive ==
    \A n \in 1..MaxRevisions : Current >= n ~> store.rev >= n \/ stopped

(* The loop implements what readers are promised.                          *)
SV == INSTANCE SnapshotView WITH
        configs <- clients,
        view <- [rev |-> store.rev,
                 systems |-> [i \in DOMAIN store.systems |->
                                [system |-> store.systems[i].system, up |-> store.systems[i].up]]]

ImplementsView == SV!Spec
=============================================================================
