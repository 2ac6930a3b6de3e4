---------------------------- MODULE LogCommands ----------------------------
(***************************************************************************)
(* The way in and out of a log on the command line: `migrate` and `append` *)
(* of an event file, and the commands that write files about the log:      *)
(* export_events (exports.py, compression.py) with and without a privacy   *)
(* profile, `export`, `redact`, `compress`, all to one output path, in     *)
(* overlapping processes that can die at any step.  `report` writes as an  *)
(* export to Markdown does.                                                *)
(*                                                                         *)
(* A command that exports writes up to three files, one after another:     *)
(*   output    the path it was given                                       *)
(*   copy      <path>.gz, a compressed copy of what is at the path then    *)
(*   manifest  <path>.manifest.json, which describes the output            *)
(* Reading the log is one step (LogReaders) and so is append (JsonlStore). *)
(***************************************************************************)
EXTENDS EventDocuments, FiniteSets

CONSTANTS
    Documents,    \* what the event file may hold at the start
    Jobs,         \* what exporting commands are asked to do:
                  \* [command, format, profile, compress]
    Procs,        \* processes that run exporting commands
    MaxEvents,    \* bound: events in the log
    MaxExports,   \* bound: exporting commands, of a log with an event in it
    MaxCrashes    \* bound: commands that die

Formats == {"jsonl", "json", "csv", "markdown"}

ASSUME ConstantsAssumption ==
    /\ \A j \in Jobs : j.command \in {"export", "redact", "compress"}
    /\ \A j \in Jobs : j.profile \in BOOLEAN /\ j.compress \in BOOLEAN
    /\ \A j \in Jobs : j.command = "compress" => j.compress
    /\ MaxEvents \in Nat /\ MaxExports \in Nat /\ MaxCrashes \in Nat

\* Where an id or a time is expected there is something to read one from.
Readable(d) ==
    /\ \A n \in {"id", "event_id"} \cap DOMAIN d : "uuid" \in DOMAIN d[n]
    /\ \A n \in {"timestamp", "recorded_at", "event_time", "recorded_time"} \cap DOMAIN d :
          "zone" \in DOMAIN d[n]

ASSUME DocumentsAssumption == \A d \in Documents : Readable(d)

VARIABLES
    document,   \* what the event file holds
    log,        \* the events of the log
    files,      \* what is at the three paths
    job,        \* the command each process runs, with its number and the
                \* events it has read; None if it runs none
    todo,       \* the paths each process has still to write
    opened,     \* the processes that have opened the first of them
    exports,    \* exporting commands begun
    crashes,    \* commands that died
    disturbed   \* (history) commands that died or overlapped with another

vars == <<document, log, files, job, todo, opened, exports, crashes, disturbed>>

Paths  == {"output", "copy", "manifest"}
Absent == [state |-> "absent", by |-> 0]

Init ==
    /\ document \in Documents
    /\ log = <<>>
    /\ files = [f \in Paths |-> Absent]
    /\ job = [p \in Procs |-> None]
    /\ todo = [p \in Procs |-> <<>>]
    /\ opened = {}
    /\ exports = 0
    /\ crashes = 0
    /\ disturbed = {}

-----------------------------------------------------------------------------
(* In *)

exporting == <<files, job, todo, opened, exports, crashes, disturbed>>

\* `migrate`, in place; an unsupported version raises before anything is
\* written.
migrate ==
    /\ Migratable(document)
    /\ document' = migrate_event_document(document)
    /\ UNCHANGED <<log, exporting>>

\* append_integrity replaces what the document said of integrity.
Chained(event) == [event EXCEPT !.integrity = [sequence |-> Len(log) + 1]]

\* `append`; a document that AuditEvent does not accept raises, and so would
\* an assignment to integrity that it does not accept.
append ==
    /\ Accepts(document)
    /\ Len(log) < MaxEvents
    /\ validate_sequence(Chained(AuditEvent(document)).integrity)
    /\ log' = Append(log, Chained(AuditEvent(document)))
    /\ UNCHANGED <<document, exporting>>

-----------------------------------------------------------------------------
(* Out *)

\* (mutant) the manifest is written before what it describes
Plan_manifest_first(j) ==
    (IF j.command = "export" /\ j.profile THEN <<"manifest">> ELSE <<>>) \o
    (IF j.command # "compress" THEN <<"output">> ELSE <<>>) \o
    (IF j.compress THEN <<"copy">> ELSE <<>>)

\* The files a command writes, in order.
Plan(j) ==
    (IF j.command # "compress" THEN <<"output">> ELSE <<>>) \o
    (IF j.compress THEN <<"copy">> ELSE <<>>) \o
    (IF j.command = "export" /\ j.profile THEN <<"manifest">> ELSE <<>>)

\* An unknown format, and an output that is not there to be compressed, raise
\* before anything is written: such a command changes nothing.
Possible(j) == j.format \in Formats /\ (j.command = "compress" => files["output"] # Absent)

Busy(q) == job[q] # None

\* A command reads the log and dumps or redacts its events.  It disturbs the
\* others that are running, and they it.
Begin(p) ==
    /\ ~Busy(p)
    /\ log # <<>> /\ exports < MaxExports
    /\ exports' = exports + 1
    /\ \E j \in {k \in Jobs : Possible(k)} :
          /\ job' = [job EXCEPT ![p] = [task |-> j, by |-> exports', events |-> log]]
          /\ todo' = [todo EXCEPT ![p] = Plan(j)]
    /\ LET others == {q \in Procs : Busy(q)} IN
       disturbed' = disturbed \cup {job[q].by : q \in others}
                              \cup (IF others = {} THEN {} ELSE {exports'})
    /\ UNCHANGED <<document, log, files, opened, crashes>>

\* open("w") or open("wb") truncates; until the file is closed there is
\* nothing or only a part in it.
OpenFile(p) ==
    /\ Busy(p)
    /\ p \notin opened
    /\ opened' = opened \cup {p}
    /\ files' = [files EXCEPT ![Head(todo[p])] = [state |-> "part", by |-> job[p].by]]
    /\ UNCHANGED <<document, log, job, todo, exports, crashes, disturbed>>

\* Only json and jsonl are written from the documents the profile redacted;
\* csv and markdown are written from the events.
Redacts(j) == j.profile /\ j.format \in {"json", "jsonl"}

\* What a command writes to a path.
Content(p, path) ==
    CASE path = "output" ->
           [state |-> "whole", by |-> job[p].by, task |-> job[p].task,
            events |-> job[p].events, redacted |-> Redacts(job[p].task)]
      [] path = "copy" ->
           [state |-> "whole", by |-> job[p].by, of |-> files["output"]]
      [] path = "manifest" ->
           [state |-> "whole", by |-> job[p].by, format |-> job[p].task.format,
            event_count |-> Len(job[p].events)]

\* The file is written and closed, and with the last one the command ends.
\* If it is not as this command left it, the longer text sticks out behind
\* the shorter one.
WriteFile(p) ==
    /\ p \in opened
    /\ LET path == Head(todo[p])
           mine == files[path] = [state |-> "part", by |-> job[p].by]
       IN  \E content \in {Content(p, path)} \cup
                (IF mine THEN {} ELSE {[state |-> "mixed", by |-> job[p].by]}) :
              files' = [files EXCEPT ![path] = content]
    /\ opened' = opened \ {p}
    /\ todo' = [todo EXCEPT ![p] = Tail(@)]
    /\ job' = [job EXCEPT ![p] = IF todo'[p] = <<>> THEN None ELSE @]
    /\ UNCHANGED <<document, log, exports, crashes, disturbed>>

\* The command dies or raises between two steps.
Crash(p) ==
    /\ Busy(p)
    /\ crashes < MaxCrashes
    /\ crashes' = crashes + 1
    /\ disturbed' = disturbed \cup {job[p].by}
    /\ job' = [job EXCEPT ![p] = None]
    /\ todo' = [todo EXCEPT ![p] = <<>>]
    /\ opened' = opened \ {p}
    /\ UNCHANGED <<document, log, files, exports>>

Next ==
    \/ migrate \/ append
    \/ \E p \in Procs : Begin(p) \/ OpenFile(p) \/ WriteFile(p) \/ Crash(p)

Spec == Init /\ [][Next]_vars

-----------------------------------------------------------------------------
(* Properties *)

NameToday(n) == IF n \in DOMAIN aliases THEN aliases[n] ELSE n

\* What a document says: its values, each under the name it has today.
Says(d) == {<<NameToday(n), d[n]>> : n \in DOMAIN d \ {"schema_version"}}

\* The fields whose values are stored in a form of their own.
Normalised == {"event_id", "event_time", "recorded_time", "integrity"}

\* No value of a document is lost on its way into the log: migration keeps
\* each under its old or new name, also when a document has both, and append
\* stores what it accepts.
NothingLostOnTheWayIn ==
    [][/\ document' # document => Says(document') = Says(document)
       /\ log' # log => \A n \in DOMAIN document \ Normalised :
                            log'[Len(log')][n] = document[n]]_<<document, log>>

\* The document with today's names, if it has only one of each.
Today(d) ==
    [new \in {NameToday(n) : n \in DOMAIN d} \cup {"schema_version"} |->
        IF new = "schema_version" THEN SCHEMA_VERSION
        ELSE d[CHOOSE n \in DOMAIN d : NameToday(n) = new]]

OneNameEach(d) == \A m, n \in DOMAIN d : NameToday(m) = NameToday(n) => m = n

\* Migration decides, once: what it gives is not migrated again, and is
\* accepted exactly if the document has no field under both its names and
\* would be valid with the new ones.  A document that says it is current is
\* left as it is, and one of an unknown version is not accepted either.
MigrationDecides ==
    LET migrated == migrate_event_document(document) IN
    /\ Accepts(document) => Migratable(document)
    /\ Migratable(document) => migrate_event_document(migrated) = migrated
    /\ Migratable(document) /\ ~IsCurrent(document) =>
          (Accepts(migrated) <=> OneNameEach(document) /\ Accepts(Today(document)))

\* Nothing that append accepts makes the log unreadable: the line of every
\* event is accepted when it is read, and gives the event that was written.
AcceptedReadsBack ==
    \A i \in DOMAIN log :
        Accepts(model_dump(log[i])) /\ AuditEvent(model_dump(log[i])) = log[i]

Whole(path) == files[path].state = "whole"
Undisturbed(path) == files[path].by \notin disturbed

\* The three files of one path fit together as far as the code makes them:
\* the copy and the manifest are never of a later command than the output,
\* and once all is quiet they are of the output itself, unless the command
\* that wrote it made none (then an older one stays: an unredacted copy
\* beside a redacted output, or a manifest that claims a redaction beside an
\* unredacted one), or a command died or overlapped.
FilesFit ==
    LET output == files["output"]
        copy == files["copy"]
        manifest == files["manifest"]
        Quiet == \A p \in Procs : ~Busy(p)
    IN  /\ Undisturbed("manifest") /\ Undisturbed("output") => manifest.by <= output.by
        /\ Quiet /\ Whole("output") /\ Undisturbed("output") =>
             /\ output.task.compress /\ Undisturbed("copy") => Whole("copy") /\ copy.of = output
             /\ output.task.command = "export" /\ output.task.profile =>
                  /\ Whole("manifest") /\ manifest.by = output.by
                  /\ manifest.event_count = Len(output.events)
                  /\ manifest.format \in {"json", "jsonl"} => output.redacted
=============================================================================
