--------------------------- MODULE AuditRecorder ---------------------------
(***************************************************************************)
(* AuditRecorder.append_event (recorder.py) with a rotation policy         *)
(* (rotation.py) and an SQLite index, and the `rotate` command of the CLI, *)
(* on one active log.  The file system is modelled as far as rotation      *)
(* depends on it: a path names a file, rename moves the name and replaces  *)
(* what it had named before, and an open handle follows the file.          *)
(* Torn lines and the lock file are the subject of JsonlStore; a line is   *)
(* one write here and the recorders' stores do not lock (the default).     *)
(***************************************************************************)
EXTENDS AuditChain, FiniteSets

CONSTANTS
    Recorders,    \* processes that call append_event
    Rotators,     \* processes that run `rotate`
    Stream,       \* stream_id of the recorders
    MaxEvents,    \* max_events of their RotationPolicy, or None
    MaxBytes,     \* do they also have a max_bytes?
    UseIndex,     \* do they have an index?
    MaxSuffix,    \* the last rotation suffix (9999 in the code)
    MaxCalls,     \* bound: calls per process
    MaxFaults     \* bound: calls that are cut short

Procs == Recorders \cup Rotators

ASSUME ConstantsAssumption ==
    /\ Recorders \cap Rotators = {}
    /\ Stream # None
    /\ MaxEvents \in (Nat \ {0}) \cup {None}
    /\ MaxBytes \in BOOLEAN /\ UseIndex \in BOOLEAN
    /\ MaxSuffix \in Nat /\ MaxCalls \in Nat /\ MaxFaults \in Nat

Suffixes == 1..MaxSuffix

VARIABLES
    files,    \* every file ever created, in order: the events of its lines
    active,   \* the file the log's path names, 0 if there is none
    rotated,  \* the file each rotated path names, 0 if there is none
    rows,     \* the events the index has a row for
    pc,       \* where each process is in its call
    chained,  \* the event in the hands of each recorder
    suffix,   \* the suffix each process has picked
    handle,   \* the file each recorder has open for append
    calls,    \* calls each process has begun
    acked,    \* the events whose append_event returned
    faults    \* calls cut short so far

disk == <<files, active, rotated, rows>>
vars == <<disk, pc, chained, suffix, handle, calls, acked, faults>>

Init ==
    /\ files = <<>>
    /\ active = 0
    /\ rotated = [s \in Suffixes |-> 0]
    /\ rows = {}
    /\ pc = [p \in Procs |-> "idle"]
    /\ chained = [p \in Procs |-> None]
    /\ suffix = [p \in Procs |-> 0]
    /\ handle = [p \in Procs |-> 0]
    /\ calls = [p \in Procs |-> 0]
    /\ acked = {}
    /\ faults = 0

-----------------------------------------------------------------------------
Goto(p, place) == pc' = [pc EXCEPT ![p] = place]

exists   == active # 0
read_all == IF exists THEN files[active] ELSE <<>>
free_any == Suffixes          \* (mutant) the candidate is not looked up
free     == {s \in Suffixes : rotated[s] = 0}

\* (mutant) counts down
lowest_free_highest == CHOOSE s \in free : \A t \in free : s >= t
lowest_free == CHOOSE s \in free : \A t \in free : s <= t

HasPolicy == MaxBytes \/ MaxEvents # None

\* append_event or `rotate` is called.
Call(p) ==
    /\ pc[p] = "idle"
    /\ calls[p] < MaxCalls
    /\ calls' = [calls EXCEPT ![p] = @ + 1]
    /\ Goto(p, IF p \in Recorders THEN "reading" ELSE "picking")
    /\ UNCHANGED <<disk, chained, suffix, handle, acked, faults>>

\* append_event: the new event is chained to what the active log holds.
ReadAndChain(p) ==
    /\ pc[p] = "reading"
    /\ chained' = [chained EXCEPT ![p] = chain_next(read_all, <<p, calls[p]>>, Stream)]
    /\ Goto(p, IF HasPolicy THEN "deciding" ELSE "opening")
    /\ UNCHANGED <<disk, suffix, handle, calls, acked, faults>>

\* rotation_decision reads the active log again.  How large the lines are is
\* left open: with a max_bytes any log may be too large for the next event.
\* A decision to rotate fails if no suffix is free.
\* (mutant) the next event is not counted
TooManyEvents_before == exists /\ MaxEvents # None /\ Len(read_all) > MaxEvents
TooManyEvents == exists /\ MaxEvents # None /\ Len(read_all) + 1 > MaxEvents
MayBeTooLarge == exists /\ MaxBytes

rotation_decision(p) ==
    /\ pc[p] = "deciding"
    /\ \/ (TooManyEvents \/ MayBeTooLarge) /\ free # {} /\ Goto(p, "picking")
       \/ (TooManyEvents \/ MayBeTooLarge) /\ free = {} /\ Goto(p, "idle")
       \/ ~TooManyEvents /\ Goto(p, "opening")
    /\ UNCHANGED <<disk, chained, suffix, handle, calls, acked, faults>>

\* rotate_stream, first half: next_rotated_path finds the lowest free suffix.
\* A recorder skips the rotation if the active log is gone.
next_rotated_path(p) ==
    /\ pc[p] = "picking"
    /\ \/ /\ exists \/ p \in Rotators
          /\ free # {}
          /\ suffix' = [suffix EXCEPT ![p] = lowest_free]
          /\ Goto(p, "renaming")
       \/ /\ exists \/ p \in Rotators
          /\ free = {}
          /\ Goto(p, "idle")
          /\ UNCHANGED suffix
       \/ /\ ~exists /\ p \in Recorders
          /\ Goto(p, "opening")
          /\ UNCHANGED suffix
    /\ UNCHANGED <<disk, chained, handle, calls, acked, faults>>

\* rotate_stream, second half: rename, which replaces what is at the target,
\* and fails if the active log is gone.
rotate_stream(p) ==
    /\ pc[p] = "renaming"
    /\ \/ /\ exists
          /\ rotated' = [rotated EXCEPT ![suffix[p]] = active]
          /\ active' = 0
          /\ Goto(p, IF p \in Recorders THEN "opening" ELSE "idle")
       \/ /\ ~exists
          /\ Goto(p, "idle")
          /\ UNCHANGED <<rotated, active>>
    /\ UNCHANGED <<files, rows, chained, suffix, handle, calls, acked, faults>>

\* JsonlStore._append_line: open("a") creates the active log if need be ...
OpenLog(p) ==
    /\ pc[p] = "opening"
    /\ files' = IF exists THEN files ELSE Append(files, <<>>)
    /\ active' = IF exists THEN active ELSE Len(files) + 1
    /\ handle' = [handle EXCEPT ![p] = active']
    /\ Goto(p, "writing")
    /\ UNCHANGED <<rotated, rows, chained, suffix, calls, acked, faults>>

\* ... and the line goes to the file that was opened, whatever its name now.
WriteLine(p) ==
    /\ pc[p] = "writing"
    /\ files' = [files EXCEPT ![handle[p]] = Append(@, chained[p])]
    /\ Goto(p, IF UseIndex THEN "indexing" ELSE "returning")
    /\ UNCHANGED <<active, rotated, rows, chained, suffix, handle, calls, acked, faults>>

\* (mutant) the transaction is not committed
IndexEvent_uncommitted(p) ==
    /\ pc[p] = "indexing"
    /\ Goto(p, "returning")
    /\ UNCHANGED <<disk, chained, suffix, handle, calls, acked, faults>>

\* SQLiteIndex.append: one row in a transaction of its own.
IndexEvent(p) ==
    /\ pc[p] = "indexing"
    /\ rows' = rows \cup {chained[p]}
    /\ Goto(p, "returning")
    /\ UNCHANGED <<files, active, rotated, chained, suffix, handle, calls, acked, faults>>

\* append_event returns the event.
Return(p) ==
    /\ pc[p] = "returning"
    /\ acked' = acked \cup {chained[p]}
    /\ Goto(p, "idle")
    /\ UNCHANGED <<disk, chained, suffix, handle, calls, faults>>

\* The process dies, or the next operation raises: a line over the limit, a
\* disk error, a locked database.  Nothing of what was done is undone.
CutShort(p) ==
    /\ pc[p] # "idle"
    /\ faults < MaxFaults
    /\ faults' = faults + 1
    /\ Goto(p, "idle")
    /\ UNCHANGED <<disk, chained, suffix, handle, calls, acked>>

append_event(p) ==
    \/ ReadAndChain(p) \/ rotation_decision(p) \/ OpenLog(p) \/ WriteLine(p)
    \/ IndexEvent(p) \/ Return(p)

Rotate(p) == next_rotated_path(p) \/ rotate_stream(p)

Next == \E p \in Procs : Call(p) \/ append_event(p) \/ Rotate(p) \/ CutShort(p)

Spec == Init /\ [][Next]_vars

-----------------------------------------------------------------------------
(* Properties *)

\* The files a reader can still reach, and the events in them.
Segments == ({active} \cup {rotated[s] : s \in Suffixes}) \ {0}
Positions == UNION {{i} \X DOMAIN files[i] : i \in Segments}
EventAt(position) == files[position[1]][position[2]]

\* An event that was returned is in the active log or a rotated one, once,
\* even when its log was renamed between open and write.
AckedStoredOnce ==
    \A e \in acked : Cardinality({x \in Positions : EventAt(x) = e}) = 1

\* An event that was returned has a row in the index, and no row points to
\* an event that is in no log.
IndexAgrees ==
    UseIndex => /\ acked \subseteq rows
                /\ \A e \in rows : \E x \in Positions : EventAt(x) = e

\* With one recorder no log ever holds more than max_events events.
SegmentBound ==
    MaxEvents # None => \A i \in DOMAIN files : Len(files[i]) <= MaxEvents

\* The numbers of the rotated logs give their age: they are used without a
\* gap, a higher number is a younger log, and the active log is the youngest.
SegmentsInOrder ==
    /\ \A s, t \in Suffixes : s < t /\ rotated[t] # 0 =>
          rotated[s] # 0 /\ rotated[s] < rotated[t]
    /\ exists => \A s \in Suffixes : rotated[s] < active

\* One recorder's events form one chain of digests across all its logs: each
\* names the one written before it, the first of a log the last of the log
\* before.  Only after a call was cut short (it may have renamed the log and
\* not written to the new one) may the chain begin again, and only at the
\* start of a log.
DigestsLinked ==
    \A i \in DOMAIN files : \A n \in DOMAIN files[i] :
        LET link == files[i][n].previous_event_digest IN
        IF n > 1 THEN link = PreviousOf(files[i], n)
        ELSE \/ i > 1 /\ link = PreviousOf(files[i - 1], Len(files[i - 1]) + 1)
             \/ (i = 1 \/ faults > 0) /\ link = None

\* A rotated log keeps its name: rotation takes the next available path and
\* never replaces a log that has been rotated before.
RotatedPathsStay ==
    [][\A s \in Suffixes : rotated[s] # 0 => rotated'[s] = rotated[s]]_rotated

StreamOrder == UNION {{i} \X DOMAIN files[i] : i \in DOMAIN files}
Earlier(x, y) == x[1] < y[1] \/ (x[1] = y[1] /\ x[2] <= y[2])

\* Sequence numbers begin at 1 and increase by one, whether the stream is
\* taken to be one log or all the logs of the recorder together.
SequencesIncrease ==
    \/ \A x \in StreamOrder : EventAt(x).sequence = x[2]
    \/ \A x \in StreamOrder :
          EventAt(x).sequence = Cardinality({y \in StreamOrder : Earlier(y, x)})
=============================================================================
