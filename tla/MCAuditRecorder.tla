--------------------------- MODULE MCAuditRecorder ---------------------------
(***************************************************************************)
(* Instances of AuditRecorder for TLC.                                     *)
(***************************************************************************)
EXTENDS AuditRecorder

CONSTANTS r1, r2, cli

NoProcs      == {}
OneRecorder  == {r1}
TwoRecorders == {r1, r2}
OneRotator   == {cli}
=============================================================================
