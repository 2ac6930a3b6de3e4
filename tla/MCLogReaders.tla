---------------------------- MODULE MCLogReaders ----------------------------
(***************************************************************************)
(* An instance of LogReaders for TLC: one process that uses append_chained *)
(* and one recorder that locks its writes, and a reader.                   *)
(***************************************************************************)
EXTENDS LogReaders

CONSTANTS w1, w2, c1

OneChained  == {w1}
OneRecorder == {w2}
OneReader   == {c1}
CrashOrDisk == {"crash", "disk"}
=============================================================================
