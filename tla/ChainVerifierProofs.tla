------------------------ MODULE ChainVerifierProofs ------------------------
(***************************************************************************)
(* Proofs about ChainVerifier: what the verdict of verify means for every  *)
(* log it may be called with, whatever its length and its contents.        *)
(***************************************************************************)
EXTENDS ChainVerifier, AuditChainProofs

-----------------------------------------------------------------------------
(* What the loop knows *)

\* The sequence numbers, or the streams, of the events gone through are those
\* of a well-formed stream.
Numbered  == \A i \in 1..index : events[i].sequence = i
OneStream == \A i \in 1..index : events[i].stream_id = Stream

\* The local variables of verify sum up the events gone through; while those
\* are numbered and of one stream, they expect what a well-formed stream has
\* next.
LoopInv ==
    /\ IsLog(events)
    /\ index \in 0..Len(events)
    /\ expected_previous = PreviousOf(events, index + 1)
    /\ terminal = PreviousOf(events, index + 1)
    /\ \A issue \in issues : issue.index \in 0..(index - 1)
    /\ Numbered => expected_sequence = index + 1 /\ seen_sequences = 1..index
    /\ OneStream => active_stream = IF index = 0 THEN stream_id ELSE Stream

\* The events before n are those of a well-formed stream.
LinkedBelow(n) == \A i \in 1..n : Linked(events, i, Stream)

\* The length of a log, and its next event.
LEMMA NextEvent ==
    ASSUME LoopInv, ~Done
    PROVE  /\ Len(events) \in Nat /\ index \in Nat /\ index < Len(events)
           /\ index + 1 \in 1..Len(events)
           /\ 1..(index + 1) = 1..index \cup {index + 1}
           /\ index + 1 # None
           /\ events # <<>>
  <1>1. Len(events) \in Nat
    BY SequenceShape DEF LoopInv, IsLog
  <1>2. index \in Nat /\ index < Len(events)
    BY <1>1 DEF LoopInv, Done
  <1> QED
    BY <1>1, <1>2, NoneAssumption, EmptySeq

\* Behind a well-formed beginning an iteration has nothing to report if and
\* only if the event is the next link.
LEMMA ReportsUnlinked ==
    ASSUME LoopInv, ~Done, LinkedBelow(index)
    PROVE  (\A code \in Codes : ~ detects(code)) <=> Linked(events, index + 1, Stream)
  <1>1. /\ index \in Nat /\ index + 1 # None /\ events # <<>>
    BY NextEvent
  <1>2. expected_sequence = index + 1 /\ seen_sequences = 1..index
    BY DEF LoopInv, Numbered, LinkedBelow, Linked
  <1>3. active_stream = IF index = 0 THEN stream_id ELSE Stream
    BY DEF LoopInv, OneStream, LinkedBelow, Linked
  <1>4. index # 0 => Stream # None
    <2>1. index # 0 => 1 \in 1..index
      BY <1>1
    <2> QED
      BY <2>1 DEF LinkedBelow, Linked
  <1>5. index = 0 => event.stream_id = events[1].stream_id
    BY DEF event
  <1>6. (\A code \in {"missing_stream", "stream_mixing"} : ~ detects(code))
            <=> event.stream_id = Stream /\ Stream # None
    <2>1. (\A code \in {"missing_stream", "stream_mixing"} : ~ detects(code))
              <=> event.stream_id # None /\ active_stream \in {None, event.stream_id}
      BY DEF detects, detects_stream, detects_sequence, detects_digest
    <2>2. CASE index = 0
      BY <1>1, <1>3, <1>5, <2>1, <2>2 DEF Stream
    <2>3. CASE index # 0
      BY <1>3, <1>4, <2>1, <2>3
    <2> QED
      BY <2>2, <2>3
  <1>7. (\A code \in {"missing_sequence", "duplicate_sequence", "sequence_gap"} :
            ~ detects(code)) <=> event.sequence = index + 1
    <2>1. (\A code \in {"missing_sequence", "duplicate_sequence", "sequence_gap"} :
              ~ detects(code))
              <=> event.sequence # None /\ event.sequence \notin seen_sequences
                  /\ event.sequence = expected_sequence
      BY DEF detects, detects_stream, detects_sequence, detects_digest
    <2> QED
      BY <1>1, <1>2, <2>1
  <1>8. (\A code \in {"previous_digest", "event_digest"} : ~ detects(code))
            <=> /\ event.previous_event_digest = PreviousOf(events, index + 1)
                /\ event.event_digest = event_digest(event)
    BY DEF detects, detects_stream, detects_sequence, detects_digest, LoopInv
  <1> QED
    BY <1>6, <1>7, <1>8 DEF Codes, Linked, event

\* What an iteration reports is about its own event.
LEMMA ReportsHere ==
    ASSUME LoopInv, verify_event
    PROVE  /\ \A issue \in issues' : issue \in issues \/ issue.index = index
           /\ issues' = issues <=> \A code \in Codes : ~ detects(code)
  <1> DEFINE new == {[index |-> index, code |-> code] : code \in {c \in Codes : detects(c)}}
  <1>1. issues' = issues \cup new
    BY DEF verify_event
  <1>2. \A issue \in new : issue.index = index
    OBVIOUS
  <1>3. \A issue \in issues : issue.index # index
    BY NextEvent DEF LoopInv, verify_event
  <1>4. new = {} <=> \A code \in Codes : ~ detects(code)
    OBVIOUS
  <1> HIDE DEF new
  <1> QED
    BY <1>1, <1>2, <1>3, <1>4

LEMMA LoopStep ==
    ASSUME LoopInv, [Next]_vars
    PROVE  LoopInv'
  <1>1. CASE verify_event
    <2>1. /\ Len(events) \in Nat /\ index \in Nat /\ index < Len(events)
          /\ index + 1 \in 1..Len(events)
          /\ 1..(index + 1) = 1..index \cup {index + 1}
          /\ index + 1 # None /\ events # <<>>
      BY <1>1, NextEvent DEF verify_event
    <2>2. /\ index' = index + 1 /\ events' = events /\ stream_id' = stream_id
          /\ Stream' = Stream /\ event = events[index + 1]
      BY <1>1 DEF verify_event, arguments, Stream, event
    <2>3. index' \in 0..Len(events)
      BY <2>1, <2>2
    <2>4. PreviousOf(events, index + 1)' = events[index + 1].event_digest
      BY <2>1, <2>2 DEF PreviousOf
    <2>5. /\ expected_previous' = PreviousOf(events, index + 1)'
          /\ terminal' = PreviousOf(events, index + 1)'
      BY <1>1, <2>2, <2>4 DEF verify_event, next_previous
    <2>6. \A issue \in issues' : issue.index \in 0..(index' - 1)
      <3>1. \A issue \in issues : issue.index \in 0..(index - 1)
        BY DEF LoopInv
      <3> QED
        BY <1>1, <2>1, <2>2, <3>1, ReportsHere
    <2>7. Numbered' => expected_sequence' = index' + 1 /\ seen_sequences' = 1..index'
      <3> SUFFICES ASSUME Numbered'
                   PROVE  expected_sequence' = index' + 1 /\ seen_sequences' = 1..index'
        OBVIOUS
      <3>1. \A i \in 1..(index + 1) : events[i].sequence = i
        BY <2>2 DEF Numbered
      <3>2. event.sequence = index + 1 /\ Numbered
        BY <2>1, <2>2, <3>1 DEF Numbered
      <3>3. expected_sequence = index + 1 /\ seen_sequences = 1..index
        BY <3>2 DEF LoopInv
      <3>4. /\ expected_sequence' = (index + 1) + 1
            /\ seen_sequences' = 1..index \cup {index + 1}
        BY <1>1, <2>1, <3>2, <3>3 DEF verify_event, next_sequence
      <3> QED
        BY <2>1, <2>2, <3>4
    <2>8. OneStream' => active_stream' = Stream
      <3> SUFFICES ASSUME OneStream'
                   PROVE  active_stream' = Stream
        OBVIOUS
      <3>1. \A i \in 1..(index + 1) : events[i].stream_id = Stream
        BY <2>2 DEF OneStream
      <3>2. event.stream_id = Stream /\ OneStream
        BY <2>1, <2>2, <3>1 DEF OneStream
      <3>3. active_stream = IF index = 0 THEN stream_id ELSE Stream
        BY <3>2 DEF LoopInv
      <3>4. active_stream' = IF active_stream = None THEN Stream ELSE active_stream
        BY <1>1, <3>2 DEF verify_event
      <3> QED
        BY <3>3, <3>4 DEF Stream
    <2>9. index' # 0
      BY <2>1, <2>2
    <2> QED
      BY <2>2, <2>3, <2>5, <2>6, <2>7, <2>8, <2>9 DEF LoopInv
  <1>2. CASE UNCHANGED vars
    BY <1>2 DEF vars, arguments, locals, LoopInv, Numbered, OneStream, Stream
  <1> QED
    BY <1>1, <1>2 DEF Next

LEMMA LoopInit == Init => LoopInv
  <1> SUFFICES ASSUME Init
               PROVE  LoopInv
    OBVIOUS
  <1>1. IsLog(events) /\ Len(events) \in Nat
    BY InputsAssumption, SequenceShape DEF Init, IsLog
  <1> QED
    BY <1>1 DEF Init, LoopInv, PreviousOf, Numbered, OneStream

LEMMA LoopAlways == Spec => []LoopInv
  BY LoopInit, LoopStep, PTL DEF Spec

-----------------------------------------------------------------------------
(* Where the first issue is *)

LEMMA FirstIssueStep ==
    ASSUME LoopInv, FirstIssueExact, [Next]_vars
    PROVE  FirstIssueExact'
  <1>1. CASE verify_event
    <2>1. /\ index \in Nat /\ index < Len(events)
          /\ 1..(index + 1) = 1..index \cup {index + 1}
      BY <1>1, NextEvent DEF verify_event
    <2>2. index' = index + 1 /\ events' = events /\ Stream' = Stream
      BY <1>1 DEF verify_event, arguments, Stream
    <2>3. /\ issues \subseteq issues'
          /\ \A issue \in issues' : issue \in issues \/ issue.index = index
      BY <1>1, ReportsHere DEF verify_event
    <2>4. \A issue \in issues : issue.index \in 0..(index - 1)
      BY DEF LoopInv
    <2>5. ASSUME NEW n \in 0..index
          PROVE  LinkedBelow(n) <=> \A issue \in issues' : issue.index >= n
      <3>1. LinkedBelow(n) <=> \A issue \in issues : issue.index >= n
        BY DEF FirstIssueExact, LinkedBelow
      <3> QED
        BY <2>1, <2>3, <3>1
    <2>6. LinkedBelow(index + 1) <=> \A issue \in issues' : issue.index >= index + 1
      <3>1. (\A issue \in issues' : issue.index >= index + 1) <=> issues' = {}
        BY <2>1, <2>3, <2>4
      <3>2. LinkedBelow(index) <=> issues = {}
        BY <2>1, <2>4 DEF FirstIssueExact, LinkedBelow
      <3>3. LinkedBelow(index + 1) <=> LinkedBelow(index) /\ Linked(events, index + 1, Stream)
        BY <2>1 DEF LinkedBelow
      <3>4. LinkedBelow(index) => (issues' = issues <=> Linked(events, index + 1, Stream))
        BY <1>1, ReportsHere, ReportsUnlinked DEF verify_event
      <3> QED
        BY <2>3, <3>1, <3>2, <3>3, <3>4
    <2>7. \A n \in 0..(index + 1) :
              (\A i \in 1..n : Linked(events, i, Stream))
                  <=> (\A issue \in issues' : issue.index >= n)
      <3>1. 0..(index + 1) = 0..index \cup {index + 1}
        BY <2>1
      <3> QED
        BY <2>5, <2>6, <3>1 DEF LinkedBelow
    <2> QED
      BY <2>2, <2>7 DEF FirstIssueExact
  <1>2. CASE UNCHANGED vars
    BY <1>2 DEF vars, arguments, locals, FirstIssueExact, Stream
  <1> QED
    BY <1>1, <1>2 DEF Next

\* verify reports its first issue exactly where the events stop being a
\* well-formed stream: its verdict is right for every log.
THEOREM FirstIssue == Spec => []FirstIssueExact
  <1>1. Init => FirstIssueExact
    BY DEF Init, FirstIssueExact
  <1> QED
    BY <1>1, LoopAlways, FirstIssueStep, PTL DEF Spec

-----------------------------------------------------------------------------
(* What an accepted log may be *)

\* A log without issues is a well-formed stream.
LEMMA AcceptedWellFormed ==
    ASSUME LoopInv, FirstIssueExact, Accepted
    PROVE  WellFormed(events, Stream)
  <1>1. Len(events) \in Nat /\ DOMAIN events = 1..Len(events)
    BY SequenceShape DEF LoopInv, IsLog
  <1> QED
    BY <1>1 DEF FirstIssueExact, Accepted, Done, WellFormed

\* Without making a new digest nobody can turn the original stream into another
\* one that verify accepts, except by dropping events from its end and by
\* changing what the digests leave out, the signatures of events.
THEOREM Tamper == Spec => []TamperEvident
  <1>1. LoopInv /\ FirstIssueExact => TamperEvident
    <2> SUFFICES ASSUME LoopInv, FirstIssueExact, Accepted,
                        \A i \in DOMAIN events :
                            \E j \in DOMAIN Original :
                                events[i].event_digest = Original[j].event_digest
                 PROVE  /\ Len(events) <= Len(Original)
                        /\ \A i \in DOMAIN events : Unsigned(events[i]) = Unsigned(Original[i])
      BY DEF TamperEvident
    <2>1. PICK stream : WellFormed(Original, stream)
      BY OriginalAssumption
    <2>2. /\ Len(events) \in Nat /\ DOMAIN events = 1..Len(events)
          /\ Len(Original) \in Nat /\ DOMAIN Original = 1..Len(Original)
      BY SequenceShape, OriginalAssumption DEF LoopInv, IsLog
    <2>3. ASSUME NEW i \in DOMAIN events
          PROVE  i \in DOMAIN Original /\ Unsigned(events[i]) = Unsigned(Original[i])
      <3>1. PICK j \in DOMAIN Original : events[i].event_digest = Original[j].event_digest
        OBVIOUS
      <3>2. Linked(events, i, Stream) /\ Linked(Original, j, stream)
        BY <2>1, AcceptedWellFormed DEF WellFormed
      <3>3. Unsigned(events[i]) = Unsigned(Original[j])
        BY <3>1, <3>2, SameDigestSameEvent, OriginalAssumption DEF Linked, LoopInv, IsLog
      <3>4. events[i].sequence = Original[j].sequence
        BY <3>3, UnsignedFields, OriginalAssumption DEF LoopInv, IsLog
      <3> QED
        BY <3>2, <3>3, <3>4 DEF Linked
    <2>4. Len(events) # 0 => Len(events) \in DOMAIN events
      BY <2>2
    <2> QED
      BY <2>2, <2>3, <2>4
  <1> QED
    BY <1>1, LoopAlways, FirstIssue, PTL

\* A log that verify accepts with the terminal digest of the original stream is
\* that stream, recomputed digests or not, all but the signatures of its events.
THEOREM Anchors == Spec => []TerminalDigestAnchors
  <1>1. LoopInv /\ FirstIssueExact => TerminalDigestAnchors
    <2> SUFFICES ASSUME LoopInv, FirstIssueExact, Accepted, events # <<>>,
                        terminal = last_digest(Original)
                 PROVE  SameButSignatures(events, Original)
      BY DEF TerminalDigestAnchors
    <2>1. PICK stream : WellFormed(Original, stream)
      BY OriginalAssumption
    <2>2. PICK n, m : n = Len(events) /\ m = Len(Original)
      OBVIOUS
    <2>3. /\ n \in Nat /\ DOMAIN events = 1..n /\ events = [i \in 1..n |-> events[i]]
          /\ m \in Nat /\ DOMAIN Original = 1..m /\ Original = [i \in 1..m |-> Original[i]]
          /\ IsLog(events) /\ IsLog(Original)
      BY <2>2, SequenceShape, OriginalAssumption DEF LoopInv, IsLog
    <2>4. n # 0 /\ m # 0
      <3>1. \A s : IsSequence(s) /\ s # <<>> => Len(s) # 0
        BY EmptySeq DEF IsSequence
      <3> QED
        BY <2>2, <2>3, <3>1, OriginalAssumption DEF IsLog
    <2>5. n \in DOMAIN events /\ m \in DOMAIN Original
      BY <2>3, <2>4
    <2>6. events[n].event_digest = Original[m].event_digest
      <3>1. terminal = events[n].event_digest
        BY <2>2, <2>3, <2>4 DEF LoopInv, Accepted, Done, PreviousOf
      <3> QED
        BY <2>2, <3>1, OriginalAssumption DEF last_digest
    <2>7. Linked(events, n, Stream) /\ Linked(Original, m, stream)
      BY <2>1, <2>5, AcceptedWellFormed DEF WellFormed
    <2>8. Unsigned(events[n]) = Unsigned(Original[m]) /\ n = m
      <3>1. Unsigned(events[n]) = Unsigned(Original[m])
        BY <2>3, <2>5, <2>6, <2>7, SameDigestSameEvent DEF Linked, IsLog
      <3>2. events[n].sequence = Original[m].sequence
        BY <2>3, <2>5, <3>1, UnsignedFields DEF IsLog
      <3> QED
        BY <2>7, <3>1, <3>2 DEF Linked
    <2>9. \A i \in 1..n : Unsigned(events[i]) = Unsigned(Original[i])
      BY <2>1, <2>2, <2>3, <2>8, AcceptedWellFormed, SameUpTo
    <2> QED
      BY <2>2, <2>3, <2>8, <2>9 DEF SameButSignatures
  <1> QED
    BY <1>1, LoopAlways, FirstIssue, PTL

-----------------------------------------------------------------------------
(* Who is blamed *)

\* The log is the original stream but for the content of events and for their
\* signatures.
OnlyBodies ==
    /\ stream_id \in {None, Original[1].stream_id}
    /\ Len(events) = Len(Original)
    /\ \A i \in DOMAIN events :
          events[i] = [Original[i] EXCEPT !.body = events[i].body,
                                          !.signatures = events[i].signatures]

Blame(i) == [index |-> i - 1, code |-> "event_digest"]

\* EditsBlamedExactly speaks of the end of the loop; this holds all along.
BlameInv ==
    OnlyBodies => issues = {Blame(i) : i \in {j \in 1..index : events[j].body # Original[j].body}}

\* The integrity fields of such a log are those of the original stream.
LEMMA IntegrityIntact ==
    ASSUME LoopInv, OnlyBodies
    PROVE  \A i \in 1..Len(events) :
               /\ events[i].stream_id = Stream /\ Stream # None
               /\ events[i].sequence = i
               /\ events[i].previous_event_digest = PreviousOf(events, i)
               /\ events[i].event_digest = event_digest(events[i])
                      <=> events[i].body = Original[i].body
  <1>1. PICK stream : WellFormed(Original, stream)
    BY OriginalAssumption
  <1>2. PICK n : n = Len(events)
    OBVIOUS
  <1>3. /\ n \in Nat /\ DOMAIN events = 1..n /\ DOMAIN Original = 1..n
        /\ \A i \in 1..n : IsEvent(events[i]) /\ IsEvent(Original[i])
    BY <1>2, SequenceShape, OriginalAssumption DEF LoopInv, OnlyBodies, IsLog
  <1>4. ASSUME NEW i \in 1..n
        PROVE  /\ events[i].stream_id = Original[i].stream_id
               /\ events[i].sequence = Original[i].sequence
               /\ events[i].previous_event_digest = Original[i].previous_event_digest
               /\ events[i].event_digest = Original[i].event_digest
    <2>1. events[i] = [Original[i] EXCEPT !.body = events[i].body,
                                          !.signatures = events[i].signatures]
      BY <1>3 DEF OnlyBodies
    <2> QED
      BY <1>3, <2>1 DEF IsEvent
  <1>5. ASSUME NEW i \in 1..n
        PROVE  Linked(Original, i, stream)
    BY <1>1, <1>3 DEF WellFormed
  <1>6. n # 0 => Stream = stream /\ 1 \in 1..n
    <2> SUFFICES ASSUME n # 0
                 PROVE  Stream = stream /\ 1 \in 1..n
      OBVIOUS
    <2>1. 1 \in 1..n /\ events # <<>>
      BY <1>2, <1>3, EmptySeq
    <2>2. events[1].stream_id = stream /\ Original[1].stream_id = stream
      BY <1>4, <1>5, <2>1 DEF Linked
    <2> QED
      BY <2>1, <2>2 DEF Stream, OnlyBodies
  <1> SUFFICES ASSUME NEW i \in 1..n
               PROVE  /\ events[i].stream_id = Stream /\ Stream # None
                      /\ events[i].sequence = i
                      /\ events[i].previous_event_digest = PreviousOf(events, i)
                      /\ events[i].event_digest = event_digest(events[i])
                             <=> events[i].body = Original[i].body
    BY <1>2
  <1>7. Linked(Original, i, stream) /\ Stream = stream
    BY <1>3, <1>5, <1>6
  <1>8. PreviousOf(events, i) = PreviousOf(Original, i)
    BY <1>3, <1>4 DEF PreviousOf
  <1>9. event_digest(events[i]) = event_digest(Original[i])
            <=> events[i].body = Original[i].body
    <2>1. event_digest(events[i]) = event_digest(Original[i])
              => events[i].body = Original[i].body
      BY SameDigestSameContent
    <2>2. events[i].body = Original[i].body
              => event_digest(events[i]) = event_digest(Original[i])
      BY <1>4 DEF event_digest, digest_projection
    <2> QED
      BY <2>1, <2>2
  <1> QED
    BY <1>4, <1>7, <1>8, <1>9 DEF Linked

LEMMA BlameStep ==
    ASSUME LoopInv, BlameInv, [Next]_vars
    PROVE  BlameInv'
  <1>1. CASE verify_event
    <2> SUFFICES ASSUME OnlyBodies'
                 PROVE  issues' = {Blame(i) : i \in {j \in 1..index' :
                                       events'[j].body # Original[j].body}}
      BY DEF BlameInv
    <2>1. /\ index \in Nat /\ index + 1 \in 1..Len(events) /\ index < Len(events)
          /\ Len(events) \in Nat
          /\ 1..(index + 1) = 1..index \cup {index + 1}
          /\ index + 1 # None /\ events # <<>>
      BY <1>1, NextEvent DEF verify_event
    <2>2. /\ index' = index + 1 /\ events' = events /\ stream_id' = stream_id
          /\ event = events[index + 1]
      BY <1>1 DEF verify_event, arguments, event
    <2>3. OnlyBodies
      BY <2>2 DEF OnlyBodies
    <2>4. /\ event.stream_id = Stream /\ Stream # None
          /\ event.sequence = index + 1
          /\ event.previous_event_digest = expected_previous
          /\ event.event_digest = event_digest(event)
                 <=> event.body = Original[index + 1].body
      BY <2>1, <2>2, <2>3, IntegrityIntact DEF LoopInv
    <2>5. \A i \in 1..index : i \in 1..Len(events)
      BY <2>1
    <2>6. expected_sequence = index + 1 /\ seen_sequences = 1..index
      BY <2>3, <2>5, IntegrityIntact DEF LoopInv, Numbered
    <2>7. active_stream \in {None, Stream}
      BY <2>3, <2>5, IntegrityIntact DEF LoopInv, OneStream, Stream
    <2>8. {c \in Codes : detects(c)} =
              IF event.body = Original[index + 1].body THEN {} ELSE {"event_digest"}
      BY <2>1, <2>4, <2>6, <2>7
         DEF Codes, detects, detects_stream, detects_sequence, detects_digest
    <2>9. issues' = issues \cup (IF event.body = Original[index + 1].body THEN {}
                                 ELSE {[index |-> index, code |-> "event_digest"]})
      BY <1>1, <2>8 DEF verify_event
    <2>10. Blame(index + 1) = [index |-> index, code |-> "event_digest"]
      BY <2>1 DEF Blame
    <2>11. {j \in 1..(index + 1) : events[j].body # Original[j].body} =
               {j \in 1..index : events[j].body # Original[j].body} \cup
               (IF event.body = Original[index + 1].body THEN {} ELSE {index + 1})
      BY <2>1, <2>2
    <2>12. issues = {Blame(i) : i \in {j \in 1..index : events[j].body # Original[j].body}}
      BY <2>3 DEF BlameInv
    <2> QED
      BY <2>2, <2>9, <2>10, <2>11, <2>12
  <1>2. CASE UNCHANGED vars
    BY <1>2 DEF vars, arguments, locals, BlameInv, OnlyBodies
  <1> QED
    BY <1>1, <1>2 DEF Next

\* When integrity fields are intact, verify blames exactly the events whose
\* content was changed, once each, and no neighbour of theirs.
THEOREM Blamed == Spec => []EditsBlamedExactly
  <1>1. Init => BlameInv
    BY DEF Init, BlameInv
  <1>2. LoopInv /\ BlameInv => EditsBlamedExactly
    <2>1. LoopInv => DOMAIN events = 1..Len(events)
      BY SequenceShape DEF LoopInv, IsLog
    <2> QED
      BY <2>1 DEF BlameInv, EditsBlamedExactly, OnlyBodies, Done, Blame
  <1>3. LoopInv /\ BlameInv /\ [Next]_vars => BlameInv'
    BY BlameStep
  <1> QED
    BY <1>1, <1>2, <1>3, LoopAlways, PTL DEF Spec
=============================================================================
