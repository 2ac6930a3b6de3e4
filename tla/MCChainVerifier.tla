--------------------------- MODULE MCChainVerifier ---------------------------
(***************************************************************************)
(* ChainVerifier on every sequence that at most two edits make of a stream *)
(* of three events: the edits the verifier's documentation names (changed, *)
(* deleted, reordered, duplicated, renumbered and mixed-in events, broken  *)
(* links), stripped fields, added signatures, and digests recomputed after *)
(* the edit.                                                               *)
(***************************************************************************)
EXTENDS ChainVerifier

CONSTANTS s1, s2      \* two streams

LOCAL INSTANCE SequencesExt

MCStreamArgs == {s1, s2, None}

MCOriginal ==
    LET one   == chain_next(<<>>, "a", s1)
        two   == chain_next(<<one>>, "b", s1)
    IN  <<one, two, chain_next(<<one, two>>, "c", s1)>>

\* Replace the event at position i of s by e.
Put(s, i, e) == [s EXCEPT ![i] = e]

Digests == {None} \cup {MCOriginal[i].event_digest : i \in DOMAIN MCOriginal}

FieldEdits(s) ==
    LET At(i) ==
          {Put(s, i, [s[i] EXCEPT !.body = b]) : b \in {"a", "x"}} \cup
          {Put(s, i, [s[i] EXCEPT !.sequence = n]) : n \in {None, 0, 1, 2, 3}} \cup
          {Put(s, i, [s[i] EXCEPT !.stream_id = t]) : t \in {None, s2}} \cup
          {Put(s, i, [s[i] EXCEPT !.previous_event_digest = d]) : d \in Digests} \cup
          {Put(s, i, [s[i] EXCEPT !.event_digest = d]) : d \in Digests} \cup
          {Put(s, i, [s[i] EXCEPT !.event_digest = event_digest(s[i])])} \cup
          {Put(s, i, [s[i] EXCEPT !.signatures = <<"signed">>])}
    IN  UNION {At(i) : i \in DOMAIN s}

ShapeEdits(s) ==
    {RemoveAt(s, i) : i \in DOMAIN s} \cup
    {InsertAt(s, i, s[j]) : i, j \in DOMAIN s} \cup
    {[s EXCEPT ![i] = s[j], ![j] = s[i]] : i, j \in DOMAIN s}

\* Edit an event and rebuild every link after it: only the digests differ.
Rechained(s) ==
    {LET edited == chain_next(SubSeq(s, 1, i - 1), "x", s1)
     IN  IF i = Len(s) THEN Append(SubSeq(s, 1, i - 1), edited)
         ELSE LET next == chain_next(Append(SubSeq(s, 1, i - 1), edited), s[i + 1].body, s1)
              IN  SubSeq(s, 1, i - 1) \o <<edited, next>> : i \in DOMAIN s}

Edits(s) == {s} \cup FieldEdits(s) \cup ShapeEdits(s) \cup Rechained(s)

MCInputs == {<<>>} \cup UNION {Edits(s) : s \in Edits(MCOriginal)}
=============================================================================
