----------------------------- MODULE AuditChain -----------------------------
(***************************************************************************)
(* The hash chain of an audit stream: what digest.py and chain.py compute  *)
(* for one event, and what it means for a sequence of events to be a       *)
(* well-formed stream.                                                     *)
(*                                                                         *)
(* An event is a record of                                                 *)
(*   stream_id, sequence, previous_event_digest, event_digest              *)
(*                           the fields of `integrity` that chain.py uses, *)
(*                           None where the field is absent;               *)
(*   signatures              `integrity.signatures`;                       *)
(*   body                    everything else.                              *)
(*                                                                         *)
(* SHA-256 over the canonical JSON of the projection is idealised: two     *)
(* digests are equal exactly when the projections are.                     *)
(***************************************************************************)
EXTENDS Integers, Sequences

CONSTANT None    \* Python's None: an absent optional field

ASSUME NoneAssumption == None \notin Int

-----------------------------------------------------------------------------
(* digest.py *)

\* The fields the digest covers: all but event_digest and signatures.
digest_projection(e) ==
    [body                  |-> e.body,
     stream_id             |-> e.stream_id,
     sequence              |-> e.sequence,
     previous_event_digest |-> e.previous_event_digest]

\* The idealised hash: one digest for each value, never None.
sha256_digest(value) == <<"sha256", value>>

event_digest(e) == sha256_digest(digest_projection(e))

-----------------------------------------------------------------------------
(* chain.py, append_integrity, and the arguments its callers compute *)

append_integrity(body, stream_id, sequence, previous) ==
    LET bare == [body                  |-> body,
                 stream_id             |-> stream_id,
                 sequence              |-> sequence,
                 previous_event_digest |-> previous,
                 event_digest          |-> None,
                 signatures            |-> <<>>]
    IN  [bare EXCEPT !.event_digest = event_digest(bare)]

\* (mutant) links to the first event
last_digest_first(events) ==
    IF events = <<>> THEN None ELSE events[1].event_digest

\* The digest the next event must name: the last event's, None at the start.
last_digest(events) ==
    IF events = <<>> THEN None ELSE events[Len(events)].event_digest

\* The event a writer that has read `events` appends to the stream.
chain_next(events, body, stream_id) ==
    append_integrity(body, stream_id, Len(events) + 1, last_digest(events))

\* A sequence, whatever its elements are.
IsSequence(s) == s \in Seq({s[i] : i \in DOMAIN s})

\* A record with the fields of an event and no other.
IsEvent(e) ==
    e = [body                  |-> e.body,
         stream_id             |-> e.stream_id,
         sequence              |-> e.sequence,
         previous_event_digest |-> e.previous_event_digest,
         event_digest          |-> e.event_digest,
         signatures            |-> e.signatures]

\* An event without its signatures: all that the digest covers, and the digest.
Unsigned(e) == [e EXCEPT !.signatures = <<>>]

\* The same events, whoever signed them.
SameButSignatures(s, t) ==
    Len(s) = Len(t) /\ \A i \in DOMAIN s : Unsigned(s[i]) = Unsigned(t[i])

\* What can be read from a log: events, in an order.
IsLog(s) == IsSequence(s) /\ \A i \in DOMAIN s : IsEvent(s[i])

-----------------------------------------------------------------------------
(* The reference definition of a stream, written from what the chain is    *)
(* for and independent of the loop that verifies it.                       *)

\* The digest that the event at position i has to name as its predecessor.
PreviousOf(events, i) == IF i = 1 THEN None ELSE events[i - 1].event_digest

\* The event at position i belongs to `stream`, carries its own position,
\* names its predecessor, and its digest is the digest of its content.
Linked(events, i, stream) ==
    /\ events[i].stream_id = stream
    /\ stream # None
    /\ events[i].sequence = i
    /\ events[i].previous_event_digest = PreviousOf(events, i)
    /\ events[i].event_digest = event_digest(events[i])

WellFormed(events, stream) ==
    \A i \in DOMAIN events : Linked(events, i, stream)
=============================================================================
