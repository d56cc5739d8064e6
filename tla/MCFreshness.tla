---------------------------- MODULE MCFreshness -----------------------------
(* Limits for Freshness under TLC.                                         *)
EXTENDS Freshness

(* None given, serial, two to a round, three to a round, room for all.     *)
AnyLimit == {0, 1, 2, 3, 5}
=============================================================================
