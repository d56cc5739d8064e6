---------------------------- MODULE MCCollector -----------------------------
(* Client lists for Collector under TLC.                                   *)
EXTENDS Collector

(* A reload removes a target and moves the others, or the reverse.         *)
TwoLists == {<<"lm1", "lm2", "lm3">>, <<"lm3", "lm1">>}
=============================================================================
