---------------------------- MODULE MCExporters -----------------------------
(* Snapshots for Exporters under TLC.                                      *)
EXTENDS Exporters

Of(name, system, series, value) ==
    [name |-> name, system |-> system, series |-> series, value |-> value]

(* Twin series (SubVS rows) of one metric on two systems, a metric that    *)
(* only a later snapshot has, and a snapshot in which the first survivor   *)
(* of a collision is another one.                                          *)
ThreeContents == {
    <<Of("conns", "lm1", "vip", 1), Of("conns", "lm1", "vip", 2),
      Of("conns", "lm2", "vip", 3), Of("conns", "lm2", "vip", 4)>>,
    <<Of("conns", "lm1", "vip", 2), Of("up", "lm1", "", 1)>>,
    <<Of("up", "lm1", "", 0)>>}
=============================================================================
