---------------------------- MODULE SnapshotView ----------------------------
(***************************************************************************)
(* What the collection loop promises whoever reads its snapshots: a reader *)
(* sees, all at once, one answer for each system of one configuration, in  *)
(* the configured order, and never a configuration older than one it has   *)
(* seen.                                                                   *)
(*                                                                         *)
(* Collector.tla is shown to implement this specification.                 *)
(***************************************************************************)
EXTENDS Naturals, Sequences

CONSTANT Configs    \* lists of systems that a configuration may name

VARIABLES
    configs,   \* the configurations that have been installed, in order
    view       \* what readers see: a position in configs, and answers

vars == <<configs, view>>

(* The answers of a list of systems: each one up or down.                  *)
Answers(list) == {s \in [DOMAIN list -> [system : {list[i] : i \in DOMAIN list}, up : BOOLEAN]] :
                    \A i \in DOMAIN list : s[i].system = list[i]}

TypeOK == /\ configs \in Seq(Configs) /\ configs # <<>>
          /\ view.rev \in 0..Len(configs)
          /\ IF view.rev = 0 THEN view.systems = <<>>
                             ELSE view.systems \in Answers(configs[view.rev])

Init == /\ \E list \in Configs : configs = <<list>>
        /\ view = [rev |-> 0, systems |-> <<>>]

Install == /\ \E list \in Configs : configs' = Append(configs, list)
           /\ UNCHANGED view

Publish == /\ \E r \in 1..Len(configs) :
                /\ r >= view.rev
                /\ \E s \in Answers(configs[r]) : view' = [rev |-> r, systems |-> s]
           /\ UNCHANGED configs

Next == Install \/ Publish

Spec == Init /\ [][Next]_vars
=============================================================================
