-------------------------- MODULE AuditChainProofs --------------------------
(***************************************************************************)
(* Lemmas about sequences and about the hash chain that the proofs of the  *)
(* modules built on AuditChain share.                                      *)
(***************************************************************************)
EXTENDS AuditChain, TLAPS, SequenceTheorems, FiniteSetTheorems

-----------------------------------------------------------------------------
\* Induction, with the numbers that have the property as a set: of the
\* intervals 0..k that end outside the set none is smallest.
LEMMA InductionOverNat ==
    ASSUME NEW T, 0 \in T, \A n \in Nat : n \in T => n + 1 \in T
    PROVE  Nat \subseteq T
  <1> DEFINE F == {0..k : k \in Nat \ T}
             R == StrictSubsetOrdering(Nat)
  <1> SUFFICES ASSUME NEW b \in Nat, b \notin T
               PROVE  FALSE
    OBVIOUS
  <1>1. \A k \in Nat : 0..k \in FiniteSubsetsOf(Nat)
    BY FS_Interval DEF FiniteSubsetsOf
  <1>2. F \subseteq FiniteSubsetsOf(Nat) /\ F # {}
    BY <1>1
  <1>3. IsWellFoundedOn(R, FiniteSubsetsOf(Nat))
    BY FS_StrictSubsetOrderingWellFounded
  <1>4. PICK s \in F : \A t \in F : ~ <<t, s>> \in R
    <2> HIDE DEF F, R
    <2> QED
      BY <1>2, <1>3, WFMin
  <1>5. PICK k \in Nat : s = 0..k /\ k \notin T
    OBVIOUS
  <1>6. k - 1 \in Nat /\ (k - 1) + 1 = k
    BY <1>5
  <1>7. k - 1 \notin T
    BY <1>5, <1>6
  <1>8. 0..(k - 1) \subseteq 0..k /\ 0..(k - 1) # 0..k
    BY <1>6
  <1>9. <<0..(k - 1), s>> \in R
    BY <1>5, <1>6, <1>8 DEF StrictSubsetOrdering
  <1> QED
    BY <1>4, <1>6, <1>7, <1>9

\* A set of numbers that is not empty has a least one.
LEMMA LeastNumber ==
    ASSUME NEW S, S \subseteq Nat, S # {}
    PROVE  \E least \in S : \A n \in S : least <= n
  <1> SUFFICES ASSUME \A least \in S : \E n \in S : ~ least <= n
               PROVE  FALSE
    OBVIOUS
  <1> DEFINE T == {k \in Nat : \A n \in S : k <= n}
  <1>1. 0 \in T
    OBVIOUS
  <1>2. ASSUME NEW k \in Nat, k \in T
        PROVE  k + 1 \in T
    <2>1. k \notin S
      BY <1>2
    <2> QED
      BY <1>2, <2>1
  <1>3. PICK s \in S : TRUE
    OBVIOUS
  <1>4. s + 1 \in Nat /\ s + 1 \notin T
    BY <1>3
  <1> HIDE DEF T
  <1> QED
    BY <1>1, <1>2, <1>4, InductionOverNat

-----------------------------------------------------------------------------
(* Sequences whose elements have no type of their own *)

\* A sequence is a function on 1..Len.
LEMMA SequenceShape ==
    ASSUME NEW s, IsSequence(s)
    PROVE  /\ Len(s) \in Nat
           /\ DOMAIN s = 1..Len(s)
           /\ s = [i \in 1..Len(s) |-> s[i]]
  BY DEF IsSequence

\* Every sequence is one, whatever set its elements are from.
LEMMA SeqIsSequence ==
    ASSUME NEW S, NEW s \in Seq(S)
    PROVE  IsSequence(s)
  BY DEF IsSequence

\* The empty sequence is one.
LEMMA EmptyShape == IsSequence(<<>>) /\ Len(<<>>) = 0
  BY DEF IsSequence

\* Append adds one element and keeps the others.
LEMMA AppendShape ==
    ASSUME NEW s, NEW x, IsSequence(s)
    PROVE  /\ IsSequence(Append(s, x))
           /\ Len(Append(s, x)) = Len(s) + 1
           /\ DOMAIN Append(s, x) = 1..(Len(s) + 1)
           /\ \A i \in 1..Len(s) : Append(s, x)[i] = s[i]
           /\ Append(s, x)[Len(s) + 1] = x
  <1> DEFINE S == {s[i] : i \in DOMAIN s} \cup {x}
             t == Append(s, x)
  <1>1. s \in Seq(S)
    BY SequenceShape
  <1>2. /\ t \in Seq(S)
        /\ Len(t) = Len(s) + 1
        /\ \A i \in 1..Len(s) : t[i] = s[i]
        /\ t[Len(s) + 1] = x
    BY <1>1, AppendProperties
  <1> QED
    BY <1>2, SequenceShape, SeqIsSequence

\* A prefix keeps its elements.
LEMMA PrefixShape ==
    ASSUME NEW s, IsSequence(s), NEW n \in 0..Len(s)
    PROVE  /\ IsSequence(SubSeq(s, 1, n))
           /\ Len(SubSeq(s, 1, n)) = n
           /\ DOMAIN SubSeq(s, 1, n) = 1..n
           /\ \A i \in 1..n : SubSeq(s, 1, n)[i] = s[i]
  <1> DEFINE t == SubSeq(s, 1, n)
             S == {s[i] : i \in DOMAIN s}
  <1>1. Len(s) \in Nat /\ DOMAIN s = 1..Len(s)
    BY SequenceShape
  <1>2. \A i \in 1..n : s[i] \in S
    BY <1>1
  <1>3. /\ t \in Seq(S)
        /\ Len(t) = n
        /\ \A i \in 1..n : t[i] = s[i]
    BY <1>1, <1>2, SubSeqProperties
  <1>4. IsSequence(t)
    BY <1>3, SeqIsSequence
  <1> QED
    BY <1>3, <1>4, SequenceShape

\* So does all but the last element.
LEMMA FrontShape ==
    ASSUME NEW s, IsSequence(s)
    PROVE  IsSequence(SubSeq(s, 1, Len(s) - 1))
  <1> DEFINE S == {s[i] : i \in DOMAIN s}
  <1>1. Len(s) \in Nat /\ DOMAIN s = 1..Len(s)
    BY SequenceShape
  <1>2. SubSeq(s, 1, Len(s) - 1) \in Seq(S)
    BY <1>1, SubSeqProperties
  <1> QED
    BY <1>2, SeqIsSequence

\* Replacing an element of a sequence keeps the others.
LEMMA ExceptShape ==
    ASSUME NEW s, IsSequence(s), NEW h \in DOMAIN s, NEW x
    PROVE  /\ IsSequence([s EXCEPT ![h] = x])
           /\ Len([s EXCEPT ![h] = x]) = Len(s)
           /\ DOMAIN [s EXCEPT ![h] = x] = DOMAIN s
           /\ [s EXCEPT ![h] = x][h] = x
           /\ \A i \in DOMAIN s : i # h => [s EXCEPT ![h] = x][i] = s[i]
  <1> DEFINE t == [s EXCEPT ![h] = x]
             S == {s[i] : i \in DOMAIN s} \cup {x}
  <1>1. Len(s) \in Nat /\ DOMAIN s = 1..Len(s) /\ s = [i \in 1..Len(s) |-> s[i]]
    BY SequenceShape
  <1>2. t \in [1..Len(s) -> S]
    BY <1>1
  <1>3. t \in Seq(S) /\ Len(t) = Len(s)
    BY <1>1, <1>2, IsASeq, LenProperties
  <1> QED
    BY <1>1, <1>3, SeqIsSequence

\* Two sequences make one.
LEMMA ConcatShape ==
    ASSUME NEW s, NEW t, IsSequence(s), IsSequence(t)
    PROVE  IsSequence(s \o t)
  <1> DEFINE S == {s[i] : i \in DOMAIN s} \cup {t[i] : i \in DOMAIN t}
  <1>1. s \in Seq(S) /\ t \in Seq(S)
    BY SequenceShape
  <1>2. s \o t \in Seq(S)
    BY <1>1, ConcatProperties
  <1> QED
    BY <1>2, SeqIsSequence

-----------------------------------------------------------------------------
(* The chain *)

\* The event a writer makes is one.
LEMMA ChainNextIsEvent ==
    ASSUME NEW events, NEW body, NEW stream
    PROVE  IsEvent(chain_next(events, body, stream))
  BY DEF chain_next, append_integrity, IsEvent

\* A log with an event more, or cut after n events, is a log.
LEMMA AppendIsLog ==
    ASSUME NEW events, NEW e, IsLog(events), IsEvent(e)
    PROVE  IsLog(Append(events, e))
  <1>1. Len(events) \in Nat /\ DOMAIN events = 1..Len(events)
    BY SequenceShape DEF IsLog
  <1>2. /\ IsSequence(Append(events, e))
        /\ DOMAIN Append(events, e) = 1..(Len(events) + 1)
        /\ \A i \in 1..Len(events) : Append(events, e)[i] = events[i]
        /\ Append(events, e)[Len(events) + 1] = e
    BY AppendShape DEF IsLog
  <1> QED
    BY <1>1, <1>2 DEF IsLog

LEMMA PrefixIsLog ==
    ASSUME NEW events, IsLog(events), NEW n \in 0..Len(events)
    PROVE  IsLog(SubSeq(events, 1, n))
  <1>1. DOMAIN events = 1..Len(events) /\ Len(events) \in Nat
    BY SequenceShape DEF IsLog
  <1>2. /\ IsSequence(SubSeq(events, 1, n))
        /\ DOMAIN SubSeq(events, 1, n) = 1..n
        /\ \A i \in 1..n : SubSeq(events, 1, n)[i] = events[i]
    BY PrefixShape DEF IsLog
  <1> QED
    BY <1>1, <1>2 DEF IsLog

\* chain_next continues a well-formed stream: the event it makes for a writer
\* that has read the whole stream is the next link.
LEMMA ChainNextWellFormed ==
    ASSUME NEW events, NEW body, NEW stream,
           IsSequence(events), stream # None, WellFormed(events, stream)
    PROVE  WellFormed(Append(events, chain_next(events, body, stream)), stream)
  <1> DEFINE n == Len(events)
             e == chain_next(events, body, stream)
             t == Append(events, e)
  <1>1. /\ n \in Nat
        /\ DOMAIN events = 1..n
        /\ DOMAIN t = 1..(n + 1)
        /\ \A i \in 1..n : t[i] = events[i]
        /\ t[n + 1] = e
    BY SequenceShape, AppendShape
  <1>2. /\ e.stream_id = stream
        /\ e.sequence = n + 1
        /\ e.previous_event_digest = last_digest(events)
        /\ e.event_digest = event_digest(e)
    BY DEF chain_next, append_integrity, event_digest, digest_projection
  <1>3. n = 0 <=> events = <<>>
    BY <1>1, SequenceShape
  <1>4. last_digest(events) = IF n = 0 THEN None ELSE events[n].event_digest
    BY <1>3 DEF last_digest
  <1> HIDE DEF n, e, t
  <1>5. last_digest(events) = PreviousOf(t, n + 1)
    <2>1. CASE n = 0
      BY <1>4, <2>1 DEF PreviousOf
    <2>2. CASE n # 0
      <3>1. t[n] = events[n] /\ n + 1 # 1 /\ (n + 1) - 1 = n
        BY <1>1, <2>2
      <3> QED
        BY <1>4, <2>2, <3>1 DEF PreviousOf
    <2> QED
      BY <2>1, <2>2
  <1>6. ASSUME NEW i \in 1..(n + 1)
        PROVE  Linked(t, i, stream)
    <2>1. CASE i = n + 1
      BY <1>1, <1>2, <1>5, <2>1 DEF Linked
    <2>2. CASE i \in 1..n
      <3>1. Linked(events, i, stream)
        BY <1>1, <2>2 DEF WellFormed
      <3>2. PreviousOf(t, i) = PreviousOf(events, i)
        BY <1>1, <2>2 DEF PreviousOf
      <3> QED
        BY <1>1, <2>2, <3>1, <3>2 DEF Linked
    <2> QED
      BY <1>1, <2>1, <2>2
  <1>7. WellFormed(t, stream)
    BY <1>1, <1>6 DEF WellFormed
  <1> QED
    BY <1>7 DEF t, e

\* A prefix of a well-formed stream is well formed, which is why dropping
\* events from the end of a log goes unnoticed by verify.
LEMMA PrefixWellFormed ==
    ASSUME NEW events, NEW stream, NEW n \in 0..Len(events),
           IsSequence(events), WellFormed(events, stream)
    PROVE  WellFormed(SubSeq(events, 1, n), stream)
  <1> DEFINE t == SubSeq(events, 1, n)
  <1>1. /\ Len(events) \in Nat
        /\ DOMAIN events = 1..Len(events)
        /\ DOMAIN t = 1..n
        /\ \A i \in 1..n : t[i] = events[i]
    BY SequenceShape, PrefixShape
  <1> SUFFICES ASSUME NEW i \in 1..n
               PROVE  Linked(t, i, stream)
    BY <1>1 DEF WellFormed
  <1>2. Linked(events, i, stream)
    BY <1>1 DEF WellFormed
  <1>3. PreviousOf(t, i) = PreviousOf(events, i)
    BY <1>1 DEF PreviousOf
  <1> QED
    BY <1>1, <1>2, <1>3 DEF Linked

\* Whoever states the digest of its own content states the content: two events
\* with one digest are one event, but for what the digest does not cover.
LEMMA SameDigestSameContent ==
    ASSUME NEW d, NEW e, event_digest(d) = event_digest(e)
    PROVE  /\ d.body = e.body
           /\ d.stream_id = e.stream_id
           /\ d.sequence = e.sequence
           /\ d.previous_event_digest = e.previous_event_digest
  BY DEF event_digest, sha256_digest, digest_projection

LEMMA SameDigestSameEvent ==
    ASSUME NEW d, NEW e, IsEvent(d), IsEvent(e),
           d.event_digest = event_digest(d), e.event_digest = event_digest(e),
           d.event_digest = e.event_digest
    PROVE  Unsigned(d) = Unsigned(e)
  <1>1. ASSUME NEW x, IsEvent(x)
        PROVE  Unsigned(x) = [body                  |-> x.body,
                              stream_id             |-> x.stream_id,
                              sequence              |-> x.sequence,
                              previous_event_digest |-> x.previous_event_digest,
                              event_digest          |-> x.event_digest,
                              signatures            |-> <<>>]
    BY <1>1 DEF IsEvent, Unsigned
  <1>2. /\ d.body = e.body
        /\ d.stream_id = e.stream_id
        /\ d.sequence = e.sequence
        /\ d.previous_event_digest = e.previous_event_digest
    BY SameDigestSameContent
  <1> QED
    BY <1>1, <1>2, Zenon

\* What remains of an event without its signatures.
LEMMA UnsignedFields ==
    ASSUME NEW d, NEW e, IsEvent(d), IsEvent(e), Unsigned(d) = Unsigned(e)
    PROVE  /\ d.body = e.body
           /\ d.stream_id = e.stream_id
           /\ d.sequence = e.sequence
           /\ d.previous_event_digest = e.previous_event_digest
           /\ d.event_digest = e.event_digest
  <1>1. ASSUME NEW x, IsEvent(x)
        PROVE  /\ Unsigned(x).body = x.body
               /\ Unsigned(x).stream_id = x.stream_id
               /\ Unsigned(x).sequence = x.sequence
               /\ Unsigned(x).previous_event_digest = x.previous_event_digest
               /\ Unsigned(x).event_digest = x.event_digest
    BY <1>1 DEF IsEvent, Unsigned
  <1> QED
    BY <1>1, Zenon

\* Two well-formed streams whose events at one position are the same, whoever
\* signed them, are the same up to there: each event names the one before.
LEMMA SameUpTo ==
    ASSUME NEW s, NEW t, NEW one, NEW other, IsLog(s), IsLog(t),
           WellFormed(s, one), WellFormed(t, other),
           NEW n \in Nat, n <= Len(s), n <= Len(t),
           Unsigned(s[n]) = Unsigned(t[n])
    PROVE  \A i \in 1..n : Unsigned(s[i]) = Unsigned(t[i])
  <1> DEFINE T == {k \in Nat : k < n => Unsigned(s[n - k]) = Unsigned(t[n - k])}
  <1>1. 0 \in T
    OBVIOUS
  <1>2. ASSUME NEW k \in Nat, k \in T
        PROVE  k + 1 \in T
    <2> SUFFICES ASSUME k + 1 < n
                 PROVE  Unsigned(s[n - (k + 1)]) = Unsigned(t[n - (k + 1)])
      OBVIOUS
    <2> DEFINE i == n - k
               j == n - (k + 1)
    <2>1. /\ i \in 1..n /\ j \in 1..n /\ i - 1 = j /\ i # 1
          /\ Unsigned(s[i]) = Unsigned(t[i])
      BY <1>2
    <2> HIDE DEF i, j
    <2>2. DOMAIN s = 1..Len(s) /\ DOMAIN t = 1..Len(t) /\ Len(s) \in Nat /\ Len(t) \in Nat
      BY SequenceShape DEF IsLog
    <2>3. i \in DOMAIN s /\ i \in DOMAIN t /\ j \in DOMAIN s /\ j \in DOMAIN t
      BY <2>1, <2>2
    <2>4. Linked(s, i, one) /\ Linked(t, i, other) /\ Linked(s, j, one) /\ Linked(t, j, other)
      BY <2>3 DEF WellFormed
    <2>5. s[j].event_digest = t[j].event_digest
      <3>1. s[i].previous_event_digest = t[i].previous_event_digest
        BY <2>1, <2>3, UnsignedFields DEF IsLog
      <3> QED
        BY <2>1, <2>4, <3>1 DEF Linked, PreviousOf
    <2>6. Unsigned(s[j]) = Unsigned(t[j])
      BY <2>3, <2>4, <2>5, SameDigestSameEvent DEF Linked, IsLog
    <2> QED
      BY <2>6 DEF j
  <1>3. Nat \subseteq T
    <2> HIDE DEF T
    <2> QED
      BY <1>1, <1>2, InductionOverNat
  <1> SUFFICES ASSUME NEW i \in 1..n
               PROVE  Unsigned(s[i]) = Unsigned(t[i])
    OBVIOUS
  <1>4. n - i \in Nat /\ n - i < n /\ n - (n - i) = i
    OBVIOUS
  <1> QED
    BY <1>3, <1>4
=============================================================================
