---------------------------- MODULE MCJsonlStore ----------------------------
(***************************************************************************)
(* Instances of JsonlStore for TLC: two writers that use append_chained,   *)
(* or two recorders, and the faults of each run.                           *)
(***************************************************************************)
EXTENDS JsonlStore

CONSTANTS w1, w2

NoWriters    == {}
TwoWriters   == {w1, w2}

NoFaults     == {}
AllFaults    == {"crash", "disk", "power"}
=============================================================================
