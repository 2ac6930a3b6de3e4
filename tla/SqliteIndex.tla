---------------------------- MODULE SqliteIndex ----------------------------
(***************************************************************************)
(* SQLiteIndex (storage.py) beside the JSONL log it indexes: processes     *)
(* that store an event and then index it, as append_event does, processes  *)
(* that read the log and rebuild the index from it, rotation of the log,   *)
(* and query against filter_events (query.py) as its reference.  The table *)
(* has the event_id as its primary key; one transaction of SQLite is one   *)
(* step, atomic and durable.                                               *)
(*                                                                         *)
(* An event is a record of what the index and the queries look at.  How it *)
(* is chained and stored is the subject of JsonlStore and AuditRecorder.   *)
(***************************************************************************)
EXTENDS Integers, SequencesExt

CONSTANTS
    Recorders,    \* processes that store and index events
    Rebuilders,   \* processes that rebuild the index
    Events,       \* [event_id, recorded_time, event_type, status, stream_id]:
                  \* the events recorders are called with
    Filters,      \* [event_type, status, stream_id, limit]: queries
    None,         \* a filter that is not given
    MaxCalls,     \* bound: calls per process
    MaxRotations, \* bound: rotations of the log
    MaxCrashes    \* bound: calls cut short

Procs == Recorders \cup Rebuilders

ASSUME ConstantsAssumption ==
    /\ Recorders \cap Rebuilders = {}
    /\ MaxCalls \in Nat /\ MaxRotations \in Nat /\ MaxCrashes \in Nat

\* Times in UTC, to the microsecond.
Times == [second : Nat, micro : Nat]

ASSUME EventsAssumption == \A e \in Events : e.event_id \in Nat /\ e.recorded_time \in Times

\* The most that filter_events may be asked for.
MaxLimit == 10000

ASSUME FiltersAssumption == \A f \in Filters : f.limit \in 1..MaxLimit

VARIABLES
    log,        \* the events of the JSONL log
    rows,       \* the table: at most one event for each event_id
    pc,         \* where each process is in its call
    todo,       \* the events each process has still to index
    disturbed,  \* rebuilds since whose start somebody else changed log or table
    stored,     \* every event ever stored in the log, or in a rotated one
    dropped,    \* (history) events that a call left out or cut short of the table
    calls,      \* calls each process has begun
    rotations,  \* rotations so far
    crashes     \* calls cut short so far

vars == <<log, rows, pc, todo, disturbed, stored, dropped, calls,
          rotations, crashes>>

Init ==
    /\ log = <<>>
    /\ rows = {}
    /\ pc = [p \in Procs |-> "idle"]
    /\ todo = [p \in Procs |-> <<>>]
    /\ disturbed = {}
    /\ stored = {}
    /\ dropped = {}
    /\ calls = [p \in Procs |-> 0]
    /\ rotations = 0
    /\ crashes = 0

-----------------------------------------------------------------------------
(* SQLiteIndex *)

\* (mutant) no primary key
replace_adding(event) == rows \cup {event}

\* (mutant) the primary key is the time
replace_time(event) == {r \in rows : r.recorded_time # event.recorded_time} \cup {event}

\* INSERT OR REPLACE
replace(event) == {r \in rows : r.event_id # event.event_id} \cup {event}

\* (mutant) the rebuild adds to what is there
deleted_not == rows

\* DELETE FROM events
deleted == {}

\* WHERE: the conjunction of the clauses of the filters that are given.
Clauses(e, f) ==
    /\ f.event_type \in {None, e.event_type}
    /\ f.status \in {None, e.status}
    /\ f.stream_id \in {None, e.stream_id}

\* (mutant) UTC is written "Z" (90), as format_rfc3339 does
isoformat_z(t) == <<t.second, IF t.micro = 0 THEN 90 ELSE 46, t.micro>>

\* The text of a time: up to the seconds, the character that follows, and the
\* microseconds.  There follows the "+" (43) of the zone, or if there are
\* microseconds a "." (46).
isoformat(t) == <<t.second, IF t.micro = 0 THEN 43 ELSE 46, t.micro>>

\* The order of texts.
TextLess(s, t) ==
    \/ s[1] < t[1]
    \/ s[1] = t[1] /\ s[2] < t[2]
    \/ s[1] = t[1] /\ s[2] = t[2] /\ s[3] < t[3]

\* ORDER BY recorded_time, event_id: the table has the texts of the times.
Precedes(d, e) ==
    \/ TextLess(isoformat(d.recorded_time), isoformat(e.recorded_time))
    \/ /\ isoformat(d.recorded_time) = isoformat(e.recorded_time)
       /\ d.event_id < e.event_id

\* The elements of a set in that order.
Ordered(S) ==
    CHOOSE s \in [1..Cardinality(S) -> S] :
        /\ Range(s) = S
        /\ \A i, j \in DOMAIN s : i < j => Precedes(s[i], s[j])

FirstOf(events, n) == SubSeq(events, 1, IF Len(events) < n THEN Len(events) ELSE n)

\* SELECT ... WHERE ... ORDER BY ... LIMIT
query(f) == FirstOf(Ordered({r \in rows : Clauses(r, f)}), f.limit)

\* The order of datetimes.
Earlier(s, t) == s.second < t.second \/ (s.second = t.second /\ s.micro < t.micro)

\* The keys of the sort are pairs: the times are compared, and the ids where
\* the times are equal.
KeyLess(d, e) ==
    IF d.recorded_time = e.recorded_time THEN d.event_id < e.event_id
                                         ELSE Earlier(d.recorded_time, e.recorded_time)

\* sorted() leaves events with one key in the order in which they are.
Before(events, i, j) ==
    \/ KeyLess(events[i], events[j])
    \/ ~KeyLess(events[j], events[i]) /\ i < j

SortOrder(events) ==
    CHOOSE order \in [DOMAIN events -> DOMAIN events] :
        /\ Range(order) = DOMAIN events
        /\ \A i, j \in DOMAIN events : i < j => Before(events, order[i], order[j])

Sorted(events) == [i \in DOMAIN events |-> events[SortOrder(events)[i]]]

Skips(e, f) ==
    \/ f.event_type # None /\ e.event_type # f.event_type
    \/ f.status # None /\ e.status # f.status
    \/ f.stream_id # None /\ e.stream_id # f.stream_id

\* The loop: the result after each of the sorted events, which is appended
\* unless it is skipped or the loop was left when the result had its length.
Results(events, f) ==
    LET result[i \in 0..Len(events)] ==
            IF i = 0 THEN <<>>
            ELSE IF Skips(events[i], f) \/ Len(result[i - 1]) >= f.limit
                 THEN result[i - 1] ELSE Append(result[i - 1], events[i])
    IN  result

filter_events(events, f) == Results(Sorted(events), f)[Len(events)]

-----------------------------------------------------------------------------
Goto(p, place) == pc' = [pc EXCEPT ![p] = place]

\* Everybody but p who is rebuilding notices, so to speak.
Disturb(p) == disturbed' = disturbed \cup (Rebuilders \ {p})

Begin(p) ==
    /\ pc[p] = "idle"
    /\ calls[p] < MaxCalls
    /\ calls' = [calls EXCEPT ![p] = @ + 1]
    /\ UNCHANGED <<rows, dropped, rotations, crashes>>

\* append_event: the event is in the log before it is in the index.  A caller
\* may pass the same event again.
StoreEvent(p) ==
    /\ p \in Recorders
    /\ Begin(p)
    /\ \E e \in Events :
          /\ log' = Append(log, e)
          /\ stored' = stored \cup {e}
          /\ todo' = [todo EXCEPT ![p] = <<e>>]
    /\ Goto(p, "indexing")
    /\ Disturb(p)

\* A caller of rebuild passes what read_all returned.
ReadLog(p) ==
    /\ p \in Rebuilders
    /\ Begin(p)
    /\ todo' = [todo EXCEPT ![p] = log]
    /\ Goto(p, "deleting")
    /\ disturbed' = disturbed \ {p}
    /\ UNCHANGED <<log, stored>>

\* rebuild: the rows are deleted in one transaction, ...
DeleteRows(p) ==
    /\ pc[p] = "deleting"
    /\ rows' = deleted
    /\ dropped' = (dropped \cup stored) \ Range(todo[p])
    /\ Goto(p, "indexing")
    /\ Disturb(p)
    /\ UNCHANGED <<log, todo, stored, calls, rotations, crashes>>

\* ... and SQLiteIndex.append adds each event in one of its own.
append(p) ==
    /\ pc[p] = "indexing"
    /\ todo[p] # <<>>
    /\ rows' = replace(Head(todo[p]))
    /\ todo' = [todo EXCEPT ![p] = Tail(@)]
    /\ dropped' = dropped \ {Head(todo[p])}
    /\ Disturb(p)
    /\ UNCHANGED <<log, pc, stored, calls, rotations, crashes>>

\* append_event or rebuild returns.
Return(p) ==
    /\ pc[p] = "indexing"
    /\ todo[p] = <<>>
    /\ Goto(p, "idle")
    /\ UNCHANGED <<log, rows, todo, disturbed, stored, dropped, calls, rotations, crashes>>

\* The log is rotated away; the index keeps its rows.
RotateLog ==
    /\ rotations < MaxRotations
    /\ log # <<>>
    /\ rotations' = rotations + 1
    /\ log' = <<>>
    /\ disturbed' = Rebuilders
    /\ UNCHANGED <<rows, pc, todo, stored, dropped, calls, crashes>>

\* The process dies, or the database stays locked: sqlite3 raises.
Crash(p) ==
    /\ pc[p] # "idle"
    /\ crashes < MaxCrashes
    /\ crashes' = crashes + 1
    /\ dropped' = IF pc[p] = "indexing" THEN dropped \cup Range(todo[p]) ELSE dropped
    /\ Goto(p, "idle")
    /\ UNCHANGED <<log, rows, todo, disturbed, stored, calls, rotations>>

Next ==
    \/ \E p \in Procs : \/ StoreEvent(p) \/ ReadLog(p) \/ DeleteRows(p)
                        \/ append(p) \/ Return(p) \/ Crash(p)
    \/ RotateLog

Spec == Init /\ [][Next]_vars

-----------------------------------------------------------------------------
(* Properties *)

\* Whatever rebuilds, recorders, rotations and crashes overlapped, the table
\* has one row for an event_id and none of an event that was never stored.
TypeOK ==
    /\ log \in Seq(Events)
    /\ rows \subseteq stored /\ dropped \subseteq stored /\ stored \subseteq Events
    /\ \A r, q \in rows : r.event_id = q.event_id => r = q
    /\ pc \in [Procs -> {"idle", "deleting", "indexing"}]
    /\ todo \in [Procs -> Seq(Events)]
    /\ disturbed \subseteq Rebuilders
    /\ calls \in [Procs -> 0..MaxCalls]

Ids(events) == {events[i].event_id : i \in DOMAIN events}

\* What the index of `events` should hold: of several with one event_id, the
\* last.
IndexOf(events) ==
    {events[i] : i \in {j \in DOMAIN events :
        \A k \in DOMAIN events : k > j => events[k].event_id # events[j].event_id}}

\* A rebuild that nobody disturbs repairs the index, whatever state crashes,
\* earlier rebuilds or a rotation left it in.
RebuildRepairs ==
    \A p \in Rebuilders :
        pc[p] = "indexing" /\ todo[p] = <<>> /\ p \notin disturbed => rows = IndexOf(log)

\* Being about to index an event.
Pending(e) == \E p \in Procs : pc[p] = "indexing" /\ e \in Range(todo[p])

\* Without a rebuild that repairs it the table lacks the row of a stored
\* event for two reasons only: a rebuild deleted the rows on the strength of
\* a log it had read before the event was stored or after it was rotated
\* away, or the call that had to index the event was cut short.
MissingOnlyIfDropped ==
    \A e \in stored : \/ \E r \in rows : r.event_id = e.event_id
                      \/ Pending(e) \/ e \in dropped

\* While the index agrees with a log in which no event_id repeats, its query
\* gives the events that filter_events gives, in the same order.
QueryAgrees ==
    rows = IndexOf(log) /\ Cardinality(Ids(log)) = Len(log) =>
        \A f \in Filters : query(f) = filter_events(log, f)
=============================================================================
