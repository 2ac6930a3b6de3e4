--------------------------- MODULE MCLogCommands ---------------------------
(***************************************************************************)
(* An instance of LogCommands for TLC.  The documents are valid ones with  *)
(* each of the five renamed fields under its old name, its new one, both   *)
(* or none, in every version, and ones with one field changed for another  *)
(* value of its kind; the jobs are every command and format.               *)
(***************************************************************************)
EXTENDS LogCommands, TLC

CONSTANTS p1, p2

TwoProcs          == {p1, p2}
MCCoreTypes       == {<<"tool", "call", "completed">>}
MCReserved        == {"tool"}
MCStatuses        == {"success"}
MCClassifications == {<<"restricted">>}

Version(type, text) == "schema_version" :> [type |-> type, text |-> text]
Versions == {<<>>} \cup {Version("string", v) : v \in {"0.1", "1", "1.0-alpha", "1.0", "2.0"}}
                   \cup {Version("number", v) : v \in {"1", "1.0"}}

Id(uuid, form)     == [uuid |-> uuid, form |-> form]
Time(moment, zone) == [moment |-> moment, zone |-> zone]

Old == [id |-> Id("a", "canonical"), type |-> <<"tool", "call", "completed">>,
        timestamp |-> Time("noon", "utc"), recorded_at |-> Time("one", "offset"),
        payload |-> "old"]
New == [event_id |-> Id("b", "urn"), event_type |-> <<"tool", "call", "completed">>,
        event_time |-> Time("noon", "utc"), recorded_time |-> Time("one", "offset"),
        data |-> "new"]
Rest == [source |-> "s", actor |-> "a", outcome |-> "success"]

Pick(f, names) == [n \in names |-> f[n]]

Named == {v @@ Pick(Old, o) @@ Pick(New, n) @@ Rest :
             v \in Versions, o \in SUBSET DOMAIN Old, n \in SUBSET DOMAIN New}

Changes ==
    {"event_id" :> Id(None, "text"), "event_type" :> <<"tool", "call", "other">>,
     "event_type" :> <<"acme", "call">>, "event_type" :> <<"acme", "call", "other">>,
     "event_time" :> Time("noon", "naive"), "recorded_time" :> Time("noon", "number"),
     "outcome" :> "done", "subject" :> None,
     "subject" :> [classification |-> <<"restricted">>],
     "subject" :> [classification |-> <<"secret">>],
     "subject" :> [classification |-> <<"acme", "secret">>],
     "integrity" :> [sequence |-> 0], "integrity" :> [sequence |-> 7],
     "extensions" :> "e", "extensions" :> None, "colour" :> "red"}

Changed == {c @@ v @@ New @@ Rest : c \in Changes, v \in Versions}
Lacking == {Pick(New @@ Rest, (DOMAIN New \cup DOMAIN Rest) \ {n}) : n \in DOMAIN Rest}

MCDocuments == Named \cup Changed \cup Lacking

Job(command, format, profile, compress) ==
    [command |-> command, format |-> format, profile |-> profile, compress |-> compress]

MCJobs ==
    {Job("export", "jsonl", p, c) : p, c \in BOOLEAN} \cup
    {Job("export", "csv", TRUE, FALSE), Job("export", "xml", TRUE, TRUE),
     Job("redact", "jsonl", TRUE, FALSE), Job("compress", "jsonl", FALSE, TRUE)}

Symmetry == Permutations(TwoProcs)
=============================================================================
