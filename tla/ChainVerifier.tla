---------------------------- MODULE ChainVerifier ----------------------------
(***************************************************************************)
(* ChainVerifier.verify (chain.py): one pass over the events of a stream   *)
(* that collects issues.  The local variables of the method are the        *)
(* variables of this module and one iteration of its loop is one step, so  *)
(* that what the loop knows half way can be stated as an invariant.        *)
(***************************************************************************)
EXTENDS AuditChain, FiniteSets

CONSTANTS
    Inputs,      \* the event sequences that verify may be called with
    StreamArgs,  \* the values of its stream_id argument, None included
    Original     \* the stream as it was written, which Inputs are edits of

ASSUME InputsAssumption == \A s \in Inputs : IsLog(s)

ASSUME OriginalAssumption ==
    /\ IsLog(Original) /\ Original # <<>>
    /\ \E stream \in StreamArgs : WellFormed(Original, stream)

VARIABLES
    events,             \* argument: the events read from the log
    stream_id,          \* argument: the stream they should belong to, or None
    index,              \* iterations done; 0-based index of the next event
    issues,             \* the set of [index, code] reported so far
    expected_previous,
    expected_sequence,
    seen_sequences,
    active_stream,
    terminal

arguments == <<events, stream_id>>
locals    == <<index, issues, expected_previous, expected_sequence,
               seen_sequences, active_stream, terminal>>
vars      == <<arguments, locals>>

Init ==
    /\ events \in Inputs
    /\ stream_id \in StreamArgs
    /\ index = 0
    /\ issues = {}
    /\ expected_previous = None
    /\ expected_sequence = 1
    /\ seen_sequences = {}
    /\ active_stream = stream_id
    /\ terminal = None

-----------------------------------------------------------------------------
event == events[index + 1]
Done  == index = Len(events)

Codes == {"missing_stream", "stream_mixing", "missing_sequence",
          "duplicate_sequence", "sequence_gap", "previous_digest", "event_digest"}

\* The checks of one iteration, each under the code it reports.
\* (mutant) the first event's stream is compared with None
detects_stream_unguarded(code) ==
    \/ code = "missing_stream" /\ event.stream_id = None
    \/ code = "stream_mixing"  /\ event.stream_id # None
                               /\ event.stream_id # active_stream

detects_stream(code) ==
    \/ code = "missing_stream" /\ event.stream_id = None
    \/ code = "stream_mixing"  /\ event.stream_id # None
                               /\ active_stream # None
                               /\ event.stream_id # active_stream

detects_sequence(code) ==
    \/ code = "missing_sequence"   /\ event.sequence = None
    \/ code = "duplicate_sequence" /\ event.sequence # None
                                   /\ event.sequence \in seen_sequences
    \/ code = "sequence_gap"       /\ event.sequence # None
                                   /\ event.sequence # expected_sequence

\* (mutants) links only, digests only
detects_digest_links(code) ==
    code = "previous_digest" /\ event.previous_event_digest # expected_previous
detects_digest_content(code) ==
    code = "event_digest" /\ event.event_digest # event_digest(event)

detects_digest(code) ==
    \/ code = "previous_digest" /\ event.previous_event_digest # expected_previous
    \/ code = "event_digest"    /\ event.event_digest # event_digest(event)

detects(code) == detects_stream(code) \/ detects_sequence(code) \/ detects_digest(code)

\* A missing sequence is not counted.
next_sequence == expected_sequence + (IF event.sequence = None THEN 0 ELSE 1)

\* (mutant) the link is checked against the recalculated digest
next_previous_calculated == event_digest(event)

\* What the next event has to name: the digest this one states.
next_previous == event.event_digest

verify_event ==
    /\ ~Done
    /\ issues' = issues \cup
          {[index |-> index, code |-> code] : code \in {c \in Codes : detects(c)}}
    /\ active_stream' = IF active_stream = None THEN event.stream_id ELSE active_stream
    /\ seen_sequences' = seen_sequences \cup ({event.sequence} \ {None})
    /\ expected_sequence' = next_sequence
    /\ expected_previous' = next_previous
    /\ terminal' = event.event_digest
    /\ index' = index + 1
    /\ UNCHANGED arguments

Next == verify_event

Spec == Init /\ [][Next]_vars

-----------------------------------------------------------------------------
(* What the verdict means *)

\* The stream the report is about: the one asked for, else the first event's.
Stream ==
    IF stream_id # None THEN stream_id
    ELSE IF events = <<>> THEN None
    ELSE events[1].stream_id

Accepted == Done /\ issues = {}

\* The loop of verify reports its first issue exactly where the events stop
\* being a well-formed stream, and none before: at any point, the first n
\* events are well formed if and only if no issue has an index below n.  With
\* n = Len(events) this is the verdict: ok is true for the well-formed streams
\* and for no other.
FirstIssueExact ==
    \A n \in 0..index :
        (\A i \in 1..n : Linked(events, i, Stream))
            <=> (\A issue \in issues : issue.index >= n)

\* Without making a new digest nobody can turn the original stream into
\* another one that verify accepts, except by dropping events from its end
\* (which is what checkpoints are for) and by changing the signatures of
\* events, which their digests do not cover.
TamperEvident ==
    /\ Accepted
    /\ \A i \in DOMAIN events :
         \E j \in DOMAIN Original : events[i].event_digest = Original[j].event_digest
    => /\ Len(events) <= Len(Original)
       /\ \A i \in DOMAIN events : Unsigned(events[i]) = Unsigned(Original[i])

\* A stream that verify accepts is determined by its terminal digest, all but
\* the signatures of its events, even when the digests of the edited events
\* were recomputed: the reported terminal_digest is what create_checkpoint
\* signs and verify_checkpoint compares.
TerminalDigestAnchors ==
    Accepted /\ events # <<>> /\ terminal = last_digest(Original)
        => SameButSignatures(events, Original)

\* When the chained fields are intact, verify blames exactly the events whose
\* content was changed, once each, and no neighbour of theirs, nor an event
\* whose signatures alone were changed.
EditsBlamedExactly ==
    /\ Done
    /\ stream_id \in {None, Original[1].stream_id}
    /\ Len(events) = Len(Original)
    /\ \A i \in DOMAIN events :
          events[i] = [Original[i] EXCEPT !.body = events[i].body,
                                          !.signatures = events[i].signatures]
    => issues = {[index |-> i - 1, code |-> "event_digest"] :
                    i \in {j \in DOMAIN events : events[j].body # Original[j].body}}
=============================================================================
