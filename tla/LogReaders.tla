----------------------------- MODULE LogReaders -----------------------------
(***************************************************************************)
(* The commands that only read the log (verify, query, summarize, export,  *)
(* redact, report, checkpoint create) beside the processes that append to  *)
(* it: read_all takes no lock and goes through the file line by line.      *)
(* What a read returns is what those commands verify, export or sign.      *)
(***************************************************************************)
EXTENDS JsonlStore

CONSTANTS
    Readers,    \* processes that run reading commands
    MaxReads    \* bound: reads of each of them

ASSUME ReadersAssumption == Readers \cap Procs = {} /\ MaxReads \in Nat

VARIABLES
    got,        \* the events each reader has so far, None outside read_all
    owed,       \* (history) what had been acknowledged when its read began
    reads,      \* reads each reader has begun
    snapshots   \* (history) the reads that returned: [events, owed]

readers == <<got, owed, reads, snapshots>>

LogInit ==
    /\ Init
    /\ got = [r \in Readers |-> None]
    /\ owed = [r \in Readers |-> {}]
    /\ reads = [r \in Readers |-> 0]
    /\ snapshots = {}

\* The command opens the log; a log that does not exist reads as empty.
OpenForReading(r) ==
    /\ got[r] = None
    /\ reads[r] < MaxReads
    /\ reads' = [reads EXCEPT ![r] = @ + 1]
    /\ got' = [got EXCEPT ![r] = <<>>]
    /\ owed' = [owed EXCEPT ![r] = acked]
    /\ UNCHANGED <<vars, snapshots>>

NextLine(r) == Len(got[r]) + 1
AtEnd(r)    == NextLine(r) > Len(lines)

\* (mutant) a last line without its newline is taken for a line
ReadLine_incomplete(r) ==
    /\ got[r] # None
    /\ \/ ~AtEnd(r) /\ got' = [got EXCEPT ![r] = Append(@, EventOf(lines[NextLine(r)]))]
       \/ AtEnd(r) /\ tail # <<>> /\ got' = [got EXCEPT ![r] = Append(@, EventOf(tail))]
    /\ UNCHANGED <<vars, owed, reads, snapshots>>

\* The next line is complete and decodes.
ReadLine(r) ==
    /\ got[r] # None
    /\ ~AtEnd(r)
    /\ Decodes(lines[NextLine(r)])
    /\ got' = [got EXCEPT ![r] = Append(@, EventOf(lines[NextLine(r)]))]
    /\ UNCHANGED <<vars, owed, reads, snapshots>>

\* The next line does not decode, or the last has no newline (yet).
ReadRaises(r) ==
    /\ got[r] # None
    /\ IF AtEnd(r) THEN tail # <<>> ELSE ~Decodes(lines[NextLine(r)])
    /\ got' = [got EXCEPT ![r] = None]
    /\ UNCHANGED <<vars, owed, reads, snapshots>>

\* read_all returns at the end of the file.
ReadReturns(r) ==
    /\ got[r] # None
    /\ AtEnd(r) /\ tail = <<>>
    /\ snapshots' = snapshots \cup {[events |-> got[r], owed |-> owed[r]]}
    /\ got' = [got EXCEPT ![r] = None]
    /\ UNCHANGED <<vars, owed, reads>>

Read(r) == OpenForReading(r) \/ ReadLine(r) \/ ReadRaises(r) \/ ReadReturns(r)

LogNext ==
    \/ Next /\ UNCHANGED readers
    \/ \E r \in Readers : Read(r)

LogSpec == LogInit /\ [][LogNext]_<<vars, readers>>

-----------------------------------------------------------------------------
(* Properties *)

\* The events are those on the first lines of the log.
BeginTheLog(events) ==
    Len(events) <= Len(lines) /\ \A i \in DOMAIN events : lines[i] = Text(events[i])

\* A read without a lock is a snapshot: whatever is appended, fails or dies
\* meanwhile, it returns what the log held at one moment after it began, all
\* that had been acknowledged by then included, and the log goes on to begin
\* with it.  So reading may be taken as one step in the other modules.
ReadsAreSnapshots ==
    /\ \A r \in Readers : got[r] # None => BeginTheLog(got[r])
    /\ \A s \in snapshots :
          /\ BeginTheLog(s.events)
          /\ \A e \in s.owed : \E i \in DOMAIN s.events : s.events[i] = e
=============================================================================
