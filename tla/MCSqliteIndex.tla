--------------------------- MODULE MCSqliteIndex ---------------------------
(***************************************************************************)
(* An instance of SqliteIndex for TLC: three events, two of them recorded  *)
(* in the same whole second, the third first and with the middle id, and   *)
(* one more with the id of the first and a microsecond later; a recorder   *)
(* and two rebuilds.                                                       *)
(***************************************************************************)
EXTENDS SqliteIndex, TLC

CONSTANTS r1, b1, b2

OneRecorder   == {r1}
TwoRebuilders == {b1, b2}

Event(id, second, micro, type, status) ==
    [event_id |-> id, recorded_time |-> [second |-> second, micro |-> micro], event_type |-> type, status |-> status,
     stream_id |-> "stream"]

MCEvents ==
    {Event(1, 5, 0, "model", "success"), Event(3, 5, 0, "tool", "success"),
     Event(2, 4, 7, "model", "failure"), Event(1, 5, 1, "tool", "failure")}

MCFilters ==
    [event_type : {None, "model", "tool"}, status : {None, "success", "failure"},
     stream_id : {None, "stream", "other"}, limit : 1..3]
=============================================================================
