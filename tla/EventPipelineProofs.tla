------------------------ MODULE EventPipelineProofs ------------------------
(***************************************************************************)
(* What the filter of an event gives and withholds, and what its digest    *)
(* covers, for values of every depth, under every profile.                 *)
(***************************************************************************)
EXTENDS EventPipeline, TLAPS, SequenceTheorems, FiniteSetTheorems

-----------------------------------------------------------------------------
(* Numbers *)

\* A set that holds 0 and with every number the next one holds all numbers.
LEMMA InductionOverNat ==
    ASSUME NEW T, 0 \in T, \A n \in Nat : n \in T => n + 1 \in T
    PROVE  Nat \subseteq T
  <1> DEFINE F == {0..k : k \in Nat \ T}
             R == StrictSubsetOrdering(Nat)
  <1> SUFFICES ASSUME NEW b \in Nat, b \notin T
               PROVE  FALSE
    OBVIOUS
  <1>1. \A k \in Nat : 0..k \in FiniteSubsetsOf(Nat)
    BY FS_Interval DEF FiniteSubsetsOf
  <1>2. F \subseteq FiniteSubsetsOf(Nat) /\ F # {}
    BY <1>1
  <1>3. IsWellFoundedOn(R, FiniteSubsetsOf(Nat))
    BY FS_StrictSubsetOrderingWellFounded
  <1>4. PICK s \in F : \A t \in F : ~ <<t, s>> \in R
    <2> HIDE DEF F, R
    <2> QED
      BY <1>2, <1>3, WFMin
  <1>5. PICK k \in Nat : s = 0..k /\ k \notin T
    OBVIOUS
  <1>6. k - 1 \in Nat /\ (k - 1) + 1 = k
    BY <1>5
  <1>7. k - 1 \notin T
    BY <1>5, <1>6
  <1>8. 0..(k - 1) \subseteq 0..k /\ 0..(k - 1) # 0..k
    BY <1>6
  <1>9. <<0..(k - 1), s>> \in R
    BY <1>5, <1>6, <1>8 DEF StrictSubsetOrdering
  <1> QED
    BY <1>4, <1>6, <1>7, <1>9

\* A set of numbers that is not empty has a least one.
LEMMA LeastNumber ==
    ASSUME NEW S, S \subseteq Nat, S # {}
    PROVE  \E least \in S : \A n \in S : least <= n
  <1> SUFFICES ASSUME \A least \in S : \E n \in S : ~ least <= n
               PROVE  FALSE
    OBVIOUS
  <1> DEFINE T == {k \in Nat : \A n \in S : k <= n}
  <1>1. 0 \in T
    OBVIOUS
  <1>2. ASSUME NEW k \in Nat, k \in T
        PROVE  k + 1 \in T
    <2>1. k \notin S
      BY <1>2
    <2> QED
      BY <1>2, <2>1
  <1>3. PICK s \in S : TRUE
    OBVIOUS
  <1>4. s + 1 \in Nat /\ s + 1 \notin T
    BY <1>3
  <1> HIDE DEF T
  <1> QED
    BY <1>1, <1>2, <1>4, InductionOverNat

-----------------------------------------------------------------------------
(* Positions *)

\* The positions above one.
LEMMA Prefixes ==
    ASSUME NEW q \in Seq(Steps), NEW n \in 0..Len(q)
    PROVE  /\ Upto(q, n) \in Seq(Steps)
           /\ Len(Upto(q, n)) = n
           /\ \A i \in 1..n : Upto(q, n)[i] = q[i]
  BY DEF Upto

LEMMA PrefixOfPrefix ==
    ASSUME NEW q \in Seq(Steps), NEW n \in 0..Len(q), NEW m \in 0..n
    PROVE  m \in 0..Len(q) /\ Upto(Upto(q, n), m) = Upto(q, m)
  <1>1. m \in 0..Len(q)
    OBVIOUS
  <1>2. PICK u : u = Upto(q, n)
    OBVIOUS
  <1>3. u \in Seq(Steps) /\ Len(u) = n /\ \A i \in 1..n : u[i] = q[i]
    BY <1>2, Prefixes
  <1>4. PICK v : v = Upto(u, m)
    OBVIOUS
  <1>5. v \in Seq(Steps) /\ Len(v) = m /\ \A i \in 1..m : v[i] = u[i]
    BY <1>3, <1>4, Prefixes
  <1>6. PICK w : w = Upto(q, m)
    OBVIOUS
  <1>7. w \in Seq(Steps) /\ Len(w) = m /\ \A i \in 1..m : w[i] = q[i]
    BY <1>1, <1>6, Prefixes
  <1>8. \A i \in 1..m : i \in 1..n
    OBVIOUS
  <1>9. \A i \in 1..m : v[i] = w[i]
    BY <1>3, <1>5, <1>7, <1>8
  <1>10. v = w
    BY <1>5, <1>7, <1>9, SeqEqual
  <1> QED
    BY <1>1, <1>2, <1>4, <1>6, <1>10

\* A position is the last of its prefixes.
LEMMA WholePrefix ==
    ASSUME NEW q \in Seq(Steps)
    PROVE  Upto(q, Len(q)) = q
  <1>1. Len(q) \in 0..Len(q)
    OBVIOUS
  <1>2. PICK u : u = Upto(q, Len(q))
    OBVIOUS
  <1>3. u \in Seq(Steps) /\ Len(u) = Len(q) /\ \A i \in 1..Len(q) : u[i] = q[i]
    BY <1>1, <1>2, Prefixes
  <1> QED
    BY <1>2, <1>3, SeqEqual

\* The parent and the last step of a prefix.
LEMMA PrefixStep ==
    ASSUME NEW q \in Seq(Steps), NEW n \in 1..Len(q)
    PROVE  /\ Parent(Upto(q, n)) = Upto(q, n - 1)
           /\ Last(Upto(q, n)) = q[n]
  <1>1. n \in 0..Len(q) /\ n - 1 \in 0..n /\ n \in 1..n
    OBVIOUS
  <1>2. Len(Upto(q, n)) = n /\ Upto(q, n)[n] = q[n]
    BY <1>1, Prefixes
  <1> QED
    BY <1>1, <1>2, PrefixOfPrefix DEF Parent, Last

\* A position is its last step below its parent.
LEMMA ParentAndStep ==
    ASSUME NEW q \in Seq(Steps), Len(q) > 0
    PROVE  /\ Parent(q) \in Seq(Steps) /\ Last(q) \in Steps
           /\ q = Append(Parent(q), Last(q))
  <1>1. Len(q) - 1 \in 0..Len(q) /\ Len(q) \in 1..Len(q)
    OBVIOUS
  <1>2. PICK u : u = Parent(q)
    OBVIOUS
  <1>3. u \in Seq(Steps) /\ Len(u) = Len(q) - 1 /\ \A i \in 1..(Len(q) - 1) : u[i] = q[i]
    BY <1>1, <1>2, Prefixes DEF Parent
  <1>4. Last(q) \in Steps /\ Last(q) = q[Len(q)]
    BY <1>1 DEF Last
  <1>5. PICK v : v = Append(u, q[Len(q)])
    OBVIOUS
  <1>6. v \in Seq(Steps) /\ Len(v) = Len(q) /\ v[Len(q)] = q[Len(q)]
        /\ \A i \in 1..(Len(q) - 1) : v[i] = u[i]
    BY <1>3, <1>4, <1>5, AppendProperties
  <1>7. \A i \in 1..Len(q) : v[i] = q[i]
    BY <1>3, <1>6
  <1>8. v = q
    BY <1>6, <1>7, SeqEqual
  <1> QED
    BY <1>2, <1>3, <1>4, <1>5, <1>8

-----------------------------------------------------------------------------
(* Treatments *)

\* What a content key's item becomes.
LEMMA ContentTreatments ==
    ASSUME NEW node, NEW p
    PROVE  /\ content(node, p) \in {"keep", "excerpt", "replace"}
           /\ content(node, p) \in {"keep", "excerpt"} => GivesContent(p)
  BY DEF content, GivesContent

\* No pattern of a profile matches.
Unmatched(q, base, p) ==
    \A patterns \in {p.omit, p.hash, p.mask, p.redact} : ~matches(q, base, patterns)

\* No rule is for an item into which the recursion descends.
LEMMA Descends ==
    ASSUME NEW value, NEW q \in Seq(Steps), NEW base \in Nat, NEW p,
           Len(q) > base, Treatment(value, q, base, p) = "descend"
    PROVE  /\ ~classified_payload(value, Parent(q), base, p)
           /\ Last(q) \notin Indices =>
                /\ Rule(q, base, p) = "descend"
                /\ Unmatched(q, base, p)
                /\ Last(q) \notin ContentKeys
  <1>1. ~(Len(q) <= base)
    OBVIOUS
  <1>2. ~classified_payload(value, Parent(q), base, p)
    BY <1>1 DEF Treatment
  <1>3. ASSUME Last(q) \notin Indices
        PROVE  Rule(q, base, p) = "descend"
    <2>1. Rule(q, base, p) # "content"
      BY <1>1, <1>2, <1>3, ContentTreatments DEF Treatment
    <2> QED
      BY <1>1, <1>2, <1>3, <2>1 DEF Treatment
  <1>4. ASSUME Rule(q, base, p) = "descend"
        PROVE  /\ Unmatched(q, base, p)
               /\ Last(q) \notin ContentKeys
    BY <1>4 DEF Rule, Unmatched
  <1> QED
    BY <1>2, <1>3, <1>4

\* Where no rule applies, the recursion descends.
LEMMA DescendsElse ==
    ASSUME NEW value, NEW q, NEW base, NEW p,
           ~classified_payload(value, Parent(q), base, p),
           Last(q) \in Indices \/ Rule(q, base, p) = "descend"
    PROVE  Treatment(value, q, base, p) = "descend"
  BY DEF Treatment

\* Copied are the classification of a classified dict, and content.
LEMMA Keeps ==
    ASSUME NEW value, NEW q \in Seq(Steps), NEW base \in Nat, NEW p,
           Treatment(value, q, base, p) = "keep" \/ Treatment(value, q, base, p) = "excerpt"
    PROVE  /\ Len(q) > base
           /\ \/ /\ classified_payload(value, Parent(q), base, p) /\ Last(q) = "classification"
                 /\ Treatment(value, q, base, p) = "keep"
              \/ /\ ~classified_payload(value, Parent(q), base, p)
                 /\ Last(q) \notin Indices /\ Last(q) \in ContentKeys
                 /\ Rule(q, base, p) = "content"
                 /\ Treatment(value, q, base, p) = content(value[q], p)
                 /\ GivesContent(p)
  <1>1. Len(q) > base
    BY DEF Treatment
  <1>2. Rule(q, base, p) \in {"omit", "hash", "mask", "replace", "content", "descend"}
        /\ (Rule(q, base, p) = "content" => Last(q) \in ContentKeys)
    BY DEF Rule
  <1>3. CASE classified_payload(value, Parent(q), base, p)
    BY <1>1, <1>3 DEF Treatment
  <1>4. CASE ~classified_payload(value, Parent(q), base, p)
    <2>0. ~(Len(q) <= base)
      BY <1>1
    <2>1. Last(q) \notin Indices
      BY <1>4, <2>0 DEF Treatment
    <2>2. Rule(q, base, p) = "content"
      BY <1>2, <1>4, <2>0, <2>1 DEF Treatment
    <2>3. Treatment(value, q, base, p) = content(value[q], p)
      BY <1>4, <2>0, <2>1, <2>2 DEF Treatment
    <2> QED
      BY <1>1, <1>2, <1>4, <2>1, <2>2, <2>3, ContentTreatments
  <1> QED
    BY <1>3, <1>4

\* Copied beside a classification is content.
LEMMA GivenContent ==
    ASSUME NEW value, NEW u \in Seq(Steps), NEW base \in Nat, NEW p,
           Treatment(value, u, base, p) = "keep" \/ Treatment(value, u, base, p) = "excerpt",
           Last(u) # "classification"
    PROVE  Rule(u, base, p) = "content" /\ GivesContent(p)
  <1>1. PICK treatment : treatment = Treatment(value, u, base, p)
    OBVIOUS
  <1>2. treatment = "keep" \/ treatment = "excerpt"
    BY <1>1
  <1>3. \/ Last(u) = "classification"
        \/ Rule(u, base, p) = "content" /\ GivesContent(p)
    BY <1>1, <1>2, Keeps
  <1> QED
    BY <1>3

\* The classification that withholds a dict is a leaf.
LEMMA ClassificationIsLeaf ==
    ASSUME NEW value, IsValue(value), NEW p \in Profiles, NEW u \in DOMAIN value,
           Len(u) > 0, Last(u) = "classification", IsClassified(value, Parent(u), p)
    PROVE  ~IsBranch(value[u])
  <1>1. u \in Seq(Steps)
    BY DEF IsValue
  <1>2. Append(Parent(u), "classification") = u
    BY <1>1, ParentAndStep
  <1>3. ClassifyingKeys(value, Parent(u)) = {"classification"}
    BY <1>2 DEF ClassifyingKeys
  <1>4. value[Append(Parent(u), "classification")] \in p.classification_redact
    BY <1>3 DEF IsClassified
  <1>5. PICK text \in p.classification_redact : text = value[u]
    BY <1>2, <1>4
  <1>6. text.kind = "json"
    BY ProfilesAssumption, Zenon DEF ProfilesAssumption
  <1> QED
    BY <1>5, <1>6 DEF IsBranch

\* What is copied is content, in a mode that allows it.
LEMMA CopiedIsContent ==
    ASSUME NEW value, IsEvent(value), NEW base \in Nat, NEW p \in Profiles,
           NEW q \in DOMAIN value, Copied(value, q, base, p)
    PROVE  \E k \in 2..Len(q) :
               /\ Reached(value, Upto(q, k), base, p)
               /\ Treatment(value, Upto(q, k), base, p) = "keep"
               /\ q[k] \in ContentKeys
               /\ GivesContent(p)
  <1>1. q \in Seq(Steps) /\ IsValue(value)
    BY DEF IsEvent, IsValue
  <1>2. PICK n \in 0..(Len(q) - 1) :
            /\ Reached(value, Upto(q, n), base, p)
            /\ Treatment(value, Upto(q, n), base, p) = "keep"
    BY DEF Copied
  <1>3. PICK u : u = Upto(q, n)
    OBVIOUS
  <1>4. n \in 0..Len(q) /\ Len(q) \in Nat
    BY <1>1
  <1>5. u \in Seq(Steps) /\ Len(u) = n
    BY <1>1, <1>3, <1>4, Prefixes
  <1>6. u \in DOMAIN value /\ IsBranch(value[u])
    BY <1>1, <1>2, <1>3 DEF IsValue
  <1>7. Treatment(value, u, base, p) = "keep"
    BY <1>2, <1>3
  <1>8. Len(u) > base /\ Len(u) > 0
    <2>1. Len(u) > base
      BY <1>5, <1>7, Keeps
    <2> QED
      BY <1>4, <1>5, <2>1
  <1>9. ~(classified_payload(value, Parent(u), base, p) /\ Last(u) = "classification")
    BY <1>1, <1>6, <1>8, <1>5, ClassificationIsLeaf DEF classified_payload
  <1>10. GivesContent(p) /\ Last(u) \notin Indices /\ Last(u) \in ContentKeys
    BY <1>5, <1>7, <1>9, Keeps
  <1>11. n \in 1..Len(q)
    BY <1>4, <1>5, <1>8
  <1>12. Last(u) = q[n]
    BY <1>1, <1>3, <1>11, PrefixStep
  <1>13. q # <<>>
    BY <1>1, <1>11
  <1>14. n # 1
    BY <1>10, <1>12, <1>13, KeysAssumption DEF KeysAssumption, IsEvent
  <1>15. n \in 2..Len(q)
    BY <1>11, <1>14
  <1> QED
    BY <1>2, <1>10, <1>12, <1>15

\* The recursion comes to a position or copies it, not both.
LEMMA ReachedNotCopied ==
    ASSUME NEW value, NEW q \in Seq(Steps), NEW base, NEW p,
           Reached(value, q, base, p), Copied(value, q, base, p)
    PROVE  FALSE
  BY Zenon DEF Reached, Copied

\* A key that no pattern matches is none of the profile's names.
LEMMA Unnamed ==
    ASSUME NEW u, NEW base \in {0, 1}, NEW p, NEW q, NEW n \in Nat,
           Unmatched(u, base, p), Len(u) = n, Last(u) = q[n]
    PROVE  ~Named(q, n, p)
  <1>1. ASSUME NEW r \in Patterns(p), r.kind = "key", r.name = q[n]
        PROVE  FALSE
    BY <1>1 DEF Patterns, matches, Unmatched
  <1>2. ASSUME n > 2, NEW r \in Patterns(p), r.kind = "below", r.name = q[n]
        PROVE  FALSE
    <2>1. Len(u) > base + 1
      BY <1>2
    <2> QED
      BY <1>2, <2>1 DEF Patterns, matches, Unmatched
  <1> QED
    BY <1>1, <1>2 DEF Named, NamesOf

-----------------------------------------------------------------------------
(* What the filter withholds and what it keeps *)

\* Texts that replace an item do not show it.
LEMMA Opaque ==
    ASSUME NEW value, NEW q \in DOMAIN value, NEW item,
           value[q] \in {Replaced, HashOf(item), MaskOf(item)}
    PROVE  q \notin Shown(value)
  <1>1. value[q].kind = "json" /\ value[q].text[1] \in {"replacement", "hash", "mask"}
    BY DEF Replaced, HashOf, MaskOf, Text
  <1> QED
    BY <1>1 DEF Shown

\* Where something is shown that the recursion came to, the recursion went on
\* or copied the item or an excerpt of it.
LEMMA ShownTreatment ==
    ASSUME NEW value, NEW base, NEW p, NEW q \in Shown(redact_value(value, base, p)),
           q \in Seq(Steps), Reached(value, q, base, p)
    PROVE  \/ Treatment(value, q, base, p) = "descend"
           \/ Treatment(value, q, base, p) = "keep"
           \/ Treatment(value, q, base, p) = "excerpt"
  <1>1. PICK R : R = redact_value(value, base, p)
    OBVIOUS
  <1>2. q \in DOMAIN R /\ q \in Left(value, base, p) /\ R[q] = Given(value, q, base, p)
    BY <1>1 DEF redact_value, Shown
  <1>3. PICK t : t = Treatment(value, q, base, p)
    OBVIOUS
  <1>4. t # "omit"
    BY <1>2, <1>3, ReachedNotCopied DEF Left
  <1>5. t \in {"descend", "keep", "replace", "excerpt", "omit", "hash", "mask"}
    BY <1>3, ContentTreatments DEF Treatment, Rule
  <1>6. PICK item : item = Item(value, q)
    OBVIOUS
  <1>7. t \in {"hash", "mask", "replace"} => R[q] \in {Replaced, HashOf(item), MaskOf(item)}
    BY <1>2, <1>3, <1>6 DEF Given
  <1>8. t \notin {"hash", "mask", "replace"}
    BY <1>1, <1>2, <1>7, Opaque
  <1> QED
    BY <1>3, <1>4, <1>5, <1>8

\* A key is above a position where it is a step.
LEMMA StepIsKey ==
    ASSUME NEW q, NEW key
    PROVE  key \in KeysAbove(q) <=> \E n \in 2..Len(q) : key = q[n] /\ q[n] \notin Indices
  BY DEF KeysAbove

\* What is above a position that the recursion comes to, it has come to, and
\* has descended into.
LEMMA ReachedAbove ==
    ASSUME NEW value, NEW q \in Seq(Steps), NEW base, NEW p, Reached(value, q, base, p),
           NEW n \in 0..Len(q)
    PROVE  /\ Reached(value, Upto(q, n), base, p)
           /\ n < Len(q) => Treatment(value, Upto(q, n), base, p) = "descend"
  <1>1. \A m \in 0..(n - 1) : m \in 0..(Len(q) - 1) /\ m \in 0..n
    OBVIOUS
  <1>2. Len(Upto(q, n)) = n
    BY Prefixes
  <1>3. \A m \in 0..(n - 1) : Upto(Upto(q, n), m) = Upto(q, m)
    BY <1>1, PrefixOfPrefix
  <1>4. Reached(value, Upto(q, n), base, p)
    BY <1>1, <1>2, <1>3 DEF Reached
  <1>5. n < Len(q) => n \in 0..(Len(q) - 1)
    OBVIOUS
  <1> QED
    BY <1>4, <1>5 DEF Reached

\* A step where the recursion went on, or from where it copied, is not named by
\* the profile; and it is a content key only if the mode gives the content.
LEMMA StepsShown ==
    ASSUME NEW value, NEW base \in {0, 1}, NEW p, NEW q \in Seq(Steps), NEW n \in 2..Len(q),
           \/ Treatment(value, Upto(q, n), base, p) = "descend"
           \/ Treatment(value, Upto(q, n), base, p) = "keep"
           \/ Treatment(value, Upto(q, n), base, p) = "excerpt"
    PROVE  /\ ~Named(q, n, p)
           /\ q[n] \in ContentKeys =>
                GivesContent(p) /\ Treatment(value, Upto(q, n), base, p) # "descend"
  <1>1. n \in 0..Len(q) /\ n \in 1..Len(q) /\ n > base /\ n > 1 /\ base \in Nat /\ n \in Nat
    OBVIOUS
  <1>2. PICK u : u = Upto(q, n)
    OBVIOUS
  <1>3. u \in Seq(Steps) /\ Len(u) = n /\ Last(u) = q[n]
    BY <1>1, <1>2, Prefixes, PrefixStep
  <1>4. CASE q[n] \in Indices
    BY <1>4, KeysAssumption DEF Named, KeysAssumption
  <1>5. CASE q[n] = "classification"
    BY <1>5, KeysAssumption DEF Named, NamesOf, KeysAssumption
  <1>6. CASE q[n] \notin Indices /\ q[n] # "classification"
    <2>1. /\ Unmatched(u, base, p)
          /\ q[n] \in ContentKeys => GivesContent(p) /\ Treatment(value, u, base, p) # "descend"
      <3>1. CASE Treatment(value, u, base, p) = "descend"
        BY <1>1, <1>3, <1>6, <3>1, Descends
      <3>2. CASE Treatment(value, u, base, p) = "keep" \/ Treatment(value, u, base, p) = "excerpt"
        <4>1. Rule(u, base, p) = "content" /\ GivesContent(p)
          <5>1. base \in Nat /\ u \in Seq(Steps) /\ Last(u) # "classification"
            BY <1>1, <1>3, <1>6
          <5> QED
            BY <3>2, <5>1, GivenContent
        <4>2. Unmatched(u, base, p)
          <5>1. /\ ~matches(u, base, p.omit) /\ ~matches(u, base, p.hash)
                /\ ~matches(u, base, p.mask) /\ ~matches(u, base, p.redact)
            BY <4>1 DEF Rule
          <5> QED
            BY <5>1 DEF Unmatched
        <4> QED
          BY <3>2, <4>1, <4>2
      <3> QED
        BY <1>2, <3>1, <3>2
    <2>2. ~Named(q, n, p)
      BY <1>1, <1>3, <2>1, Unnamed
    <2> QED
      BY <1>2, <2>1, <2>2
  <1> QED
    BY <1>4, <1>5, <1>6

\* What a filter shows of an event is permitted, wherever the filter begins.
LEMMA FilterWithholds ==
    ASSUME NEW value, IsEvent(value), NEW base \in {0, 1}, NEW p \in Profiles,
           NEW q \in Shown(redact_value(value, base, p))
    PROVE  Permitted(q, p)
  <1>1. q \in Left(value, base, p) /\ q \in DOMAIN value
    BY DEF redact_value, Shown, Left
  <1>2. q \in Seq(Steps) /\ Len(q) \in Nat /\ base \in Nat
    BY <1>1 DEF IsEvent, IsValue
  <1> SUFFICES ASSUME NEW n \in 2..Len(q), Named(q, n, p) \/ q[n] \in ContentKeys
               PROVE  /\ GivesContent(p)
                      /\ \E m \in 2..n : q[m] \in ContentKeys /\ ~Named(q, m, p)
    BY DEF Permitted
  <1>3. CASE Reached(value, q, base, p)
    <2>1. CASE n < Len(q)
      <3>1. n \in 0..Len(q)
        BY <1>2
      <3>2. Treatment(value, Upto(q, n), base, p) = "descend"
        BY <1>2, <1>3, <2>1, <3>1, ReachedAbove
      <3> QED
        BY <1>2, <3>2, StepsShown
    <2>2. CASE n = Len(q)
      <3>1. Upto(q, n) = q
        BY <1>2, <2>2, WholePrefix
      <3>2. \/ Treatment(value, Upto(q, n), base, p) = "descend"
            \/ Treatment(value, Upto(q, n), base, p) = "keep"
            \/ Treatment(value, Upto(q, n), base, p) = "excerpt"
        BY <1>2, <1>3, <3>1, ShownTreatment
      <3>3. ~Named(q, n, p) /\ (q[n] \in ContentKeys => GivesContent(p))
        BY <1>2, <3>2, StepsShown
      <3>4. n \in 2..n
        BY <1>2
      <3> QED
        BY <3>3, <3>4
    <2> QED
      BY <1>2, <2>1, <2>2
  <1>4. CASE Copied(value, q, base, p)
    <2>1. PICK k \in 2..Len(q) :
              /\ Reached(value, Upto(q, k), base, p)
              /\ Treatment(value, Upto(q, k), base, p) = "keep"
              /\ q[k] \in ContentKeys
              /\ GivesContent(p)
      BY <1>1, <1>2, <1>4, CopiedIsContent
    <2>2. CASE n < k
      <3>1. n \in 0..k /\ k \in 0..Len(q)
        BY <1>2, <2>2
      <3>2. PICK w : w = Upto(q, k)
        OBVIOUS
      <3>3. w \in Seq(Steps) /\ Len(w) = k /\ Upto(w, n) = Upto(q, n)
        BY <1>2, <3>1, <3>2, Prefixes, PrefixOfPrefix
      <3>4. Treatment(value, Upto(q, n), base, p) = "descend"
        BY <2>1, <2>2, <3>1, <3>2, <3>3, ReachedAbove
      <3> QED
        BY <1>2, <3>4, StepsShown
    <2>3. CASE n >= k
      <3>1. k \in 2..n
        BY <1>2, <2>3
      <3>2. ~Named(q, k, p)
        BY <1>2, <2>1, StepsShown
      <3> QED
        BY <2>1, <3>1, <3>2
    <2> QED
      BY <1>2, <2>2, <2>3
  <1> QED
    BY <1>1, <1>3, <1>4 DEF Left

\* Above what the filter gives there are the branches of the value.
LEMMA LeftAbove ==
    ASSUME NEW value, IsValue(value), NEW base, NEW p, NEW q \in Left(value, base, p),
           NEW n \in 0..(Len(q) - 1)
    PROVE  /\ Upto(q, n) \in Left(value, base, p)
           /\ redact_value(value, base, p)[Upto(q, n)] = value[Upto(q, n)]
  <1>1. q \in Seq(Steps) /\ q \in DOMAIN value
    BY DEF IsValue, Left
  <1>2. PICK u : u = Upto(q, n)
    OBVIOUS
  <1>3. u \in DOMAIN value /\ n \in 0..Len(q) /\ n < Len(q)
    BY <1>1, <1>2 DEF IsValue
  <1>4. u \in Seq(Steps) /\ Len(u) = n
    BY <1>1, <1>2, <1>3, Prefixes
  <1>5. ASSUME Reached(value, u, base, p), Treatment(value, u, base, p) \in {"descend", "keep"}
        PROVE  u \in Left(value, base, p) /\ redact_value(value, base, p)[u] = value[u]
    <2>1. u \in Left(value, base, p)
      BY <1>3, <1>5 DEF Left
    <2>2. Given(value, u, base, p) = value[u]
      BY <1>5 DEF Given
    <2> QED
      BY <1>5, <2>1, <2>2 DEF redact_value
  <1>6. CASE Reached(value, q, base, p)
    <2>1. Reached(value, u, base, p) /\ Treatment(value, u, base, p) = "descend"
      BY <1>1, <1>2, <1>3, <1>6, ReachedAbove
    <2> QED
      BY <1>2, <1>5, <2>1
  <1>7. CASE Copied(value, q, base, p)
    <2>1. PICK m \in 0..(Len(q) - 1) :
              /\ Reached(value, Upto(q, m), base, p)
              /\ Treatment(value, Upto(q, m), base, p) = "keep"
      BY <1>7 DEF Copied
    <2>2. m \in 0..Len(q)
      BY <1>1
    <2>3. PICK w : w = Upto(q, m)
      OBVIOUS
    <2>4. w \in Seq(Steps) /\ Len(w) = m
      BY <1>1, <2>2, <2>3, Prefixes
    <2>5. CASE n < m
      <3>1. n \in 0..m /\ n \in 0..Len(w) /\ n < Len(w)
        BY <2>4, <2>5
      <3>2. Upto(w, n) = u
        BY <1>1, <1>2, <2>2, <2>3, <3>1, PrefixOfPrefix
      <3>3. Reached(value, u, base, p) /\ Treatment(value, u, base, p) = "descend"
        BY <2>1, <2>3, <2>4, <3>1, <3>2, ReachedAbove
      <3> QED
        BY <1>2, <1>5, <3>3
    <2>6. CASE n = m
      <3>1. u = w
        BY <1>2, <2>3, <2>6
      <3> QED
        BY <1>2, <1>5, <2>1, <2>3, <3>1
    <2>7. CASE n > m
      <3>1. m \in 0..(Len(u) - 1) /\ m \in 0..n
        BY <1>4, <2>7
      <3>2. Upto(u, m) = w
        BY <1>1, <1>2, <1>3, <2>3, <3>1, PrefixOfPrefix
      <3>3. Copied(value, u, base, p)
        BY <2>1, <2>3, <3>1, <3>2 DEF Copied
      <3>4. u \in Left(value, base, p)
        BY <1>3, <3>3 DEF Left
      <3>5. ~Reached(value, u, base, p)
        BY <1>4, <3>3, ReachedNotCopied
      <3> QED
        BY <1>2, <3>4, <3>5 DEF redact_value
    <2> QED
      BY <2>5, <2>6, <2>7
  <1> QED
    BY <1>6, <1>7 DEF Left

\* The filter makes an event of an event.
LEMMA RedactedIsEvent ==
    ASSUME NEW value, IsEvent(value), NEW base, NEW p
    PROVE  IsEvent(redact_value(value, base, p))
  <1>1. PICK R : R = redact_value(value, base, p)
    OBVIOUS
  <1>2. DOMAIN R = Left(value, base, p) /\ Left(value, base, p) \subseteq DOMAIN value
    BY <1>1 DEF redact_value, Left
  <1>3. IsValue(value) /\ \A q \in DOMAIN value : q # <<>> => q[1] = "data"
    BY DEF IsEvent
  <1>4. ASSUME NEW q \in DOMAIN R, NEW n \in 0..(Len(q) - 1)
        PROVE  Upto(q, n) \in DOMAIN R /\ IsBranch(R[Upto(q, n)])
    <2>1. Upto(q, n) \in Left(value, base, p) /\ R[Upto(q, n)] = value[Upto(q, n)]
      BY <1>1, <1>2, <1>3, LeftAbove
    <2>2. IsBranch(value[Upto(q, n)])
      BY <1>2, <1>3 DEF IsValue
    <2> QED
      BY <1>2, <2>1, <2>2
  <1>5. IsValue(R)
    BY <1>2, <1>3, <1>4 DEF IsValue
  <1> QED
    BY <1>1, <1>2, <1>3, <1>5 DEF IsEvent

\* What the log gives back is an event, and shows no more than was stored.
LEMMA DumpedNode ==
    ASSUME NEW node
    PROVE  /\ IsBranch(dump_node(node)) <=> IsBranch(node)
           /\ node.kind = "json" => dump_node(node) = node
  <1>1. CASE node.kind \in {"decimal", "datetime", "date", "bytes"}
    <2>1. PICK form : dump_node(node) = Text(form)
      BY <1>1 DEF dump_node, str, Scientific, Fixed, Octets
    <2>2. Text(form).kind = "json"
      BY DEF Text
    <2> QED
      BY <1>1, <2>1, <2>2 DEF IsBranch
  <1>2. CASE node.kind \notin {"decimal", "datetime", "date", "bytes"}
    BY <1>2 DEF dump_node
  <1> QED
    BY <1>1, <1>2

LEMMA ReloadedIsEvent ==
    ASSUME NEW value, IsEvent(value)
    PROVE  /\ IsEvent(reloaded(value))
           /\ Shown(reloaded(value)) \subseteq Shown(value)
  <1>1. PICK R : R = reloaded(value)
    OBVIOUS
  <1>2. DOMAIN R = DOMAIN value /\ \A q \in DOMAIN value : R[q] = dump_node(value[q])
    BY <1>1 DEF reloaded
  <1>3. IsValue(value)
    BY DEF IsEvent
  <1>4. IsValue(R)
    BY <1>2, <1>3, DumpedNode DEF IsValue
  <1>5. IsEvent(R)
    BY <1>2, <1>4 DEF IsEvent
  <1>6. Shown(R) \subseteq Shown(value)
    BY <1>2, DumpedNode DEF Shown
  <1> QED
    BY <1>1, <1>5, <1>6

-----------------------------------------------------------------------------
(* The way of an event *)

\* What the builder makes of the caller's data.
Built == redact_value(data, 1, profile)

\* Where an event is says what it is, and what its digest was computed of.
PipelineInv ==
    /\ data \in Payloads /\ profile \in Profiles
    /\ pc \in {"new", "built", "chained", "rejected", "read"}
    /\ pc = "new" => event = None
    /\ pc \in {"built", "chained", "rejected"} => event = Built
    /\ pc = "read" => event = reloaded(Built)
    /\ pc = "chained" => Supported(Built)
    /\ pc = "chained" => digest = normalize_for_json(Built)
    /\ exported # None => pc = "read" /\ exported = ExportOf(event)

LEMMA PipelineInvInit == Init => PipelineInv
  BY DEF Init, PipelineInv

\* Every step takes the event to where it is next, with what it is there.
LEMMA PipelineInvStep == PipelineInv /\ [Next]_vars => PipelineInv'
  <1> SUFFICES ASSUME PipelineInv, [Next]_vars
               PROVE  PipelineInv'
    OBVIOUS
  <1>1. CASE create
    <2>1. event' = Built /\ Built' = Built /\ exported = None
      BY <1>1 DEF create, Built, PipelineInv
    <2> QED
      BY <1>1, <2>1 DEF create, PipelineInv
  <1>2. CASE append_integrity
    <2>1. event = Built /\ event' = event /\ Built' = Built /\ exported = None
      BY <1>2 DEF append_integrity, Built, PipelineInv
    <2> QED
      BY <1>2, <2>1 DEF append_integrity, PipelineInv
  <1>3. CASE store_and_read
    <2>1. /\ Built' = Built /\ exported = None
          /\ \/ event' = reloaded(Built) /\ pc' = "read"
             \/ event' = Built /\ pc' = "rejected"
      BY <1>3 DEF store_and_read, Built, PipelineInv
    <2> QED
      BY <1>3, <2>1 DEF store_and_read, PipelineInv
  <1>4. CASE redact
    <2>1. Built' = Built
      BY <1>4 DEF redact, Built
    <2> QED
      BY <1>4, <2>1 DEF redact, PipelineInv, ExportOf
  <1>5. CASE UNCHANGED vars
    <2>1. Built' = Built
      BY <1>5 DEF vars, Built
    <2> QED
      BY <1>5, <2>1 DEF vars, PipelineInv, ExportOf
  <1> QED
    BY <1>1, <1>2, <1>3, <1>4, <1>5 DEF Next

LEMMA PipelineInvAlways == Spec => []PipelineInv
  BY PipelineInvInit, PipelineInvStep, PTL DEF Spec

\* An event shows no more than the builder gave.
LEMMA EventShows ==
    ASSUME PipelineInv, pc # "new"
    PROVE  /\ IsEvent(data) /\ IsEvent(event)
           /\ Shown(event) \subseteq Shown(Built)
  <1>1. IsEvent(data)
    BY PayloadsAssumption DEF PayloadsAssumption, PipelineInv
  <1>2. IsEvent(Built)
    BY <1>1, RedactedIsEvent DEF Built
  <1>3. event = Built \/ event = reloaded(Built)
    BY DEF PipelineInv
  <1> QED
    BY <1>1, <1>2, <1>3, ReloadedIsEvent

\* What stands below a key the profile names is in neither event, log nor
\* export, whatever the data and however deep the key.
THEOREM Withholding == Spec => []NothingNamedIsShown
  <1>1. PipelineInv => NothingNamedIsShown
    <2> SUFFICES ASSUME PipelineInv,
                        NEW value \in {event, exported} \ {None}, NEW q \in Shown(value)
                 PROVE  Permitted(q, profile)
      BY DEF NothingNamedIsShown
    <2>1. pc # "new" /\ profile \in Profiles
      BY DEF PipelineInv
    <2>2. IsEvent(data) /\ IsEvent(event) /\ Shown(event) \subseteq Shown(Built)
      BY <2>1, EventShows
    <2>3. CASE value = event
      BY <2>1, <2>2, <2>3, FilterWithholds DEF Built
    <2>4. CASE value = exported /\ exported # None
      <3>1. q \in Shown(redact_value(event, 0, profile))
        BY <2>4 DEF PipelineInv, ExportOf
      <3> QED
        BY <2>1, <2>2, <3>1, FilterWithholds
    <2> QED
      BY <2>3, <2>4
  <1> QED
    BY <1>1, PipelineInvAlways, PTL

\* What no rule names stays where it is.
LEMMA FilterKeeps ==
    ASSUME NEW value, NEW base \in Nat, NEW p, NEW q \in DOMAIN value, q \in Seq(Steps),
           \A n \in (base + 1)..Len(q) :
               /\ ~classified_payload(value, Parent(Upto(q, n)), base, p)
               /\ Last(Upto(q, n)) \in Indices \/ Rule(Upto(q, n), base, p) = "descend"
    PROVE  /\ q \in Left(value, base, p)
           /\ redact_value(value, base, p)[q] = value[q]
  <1>1. ASSUME NEW n \in 0..Len(q)
        PROVE  Treatment(value, Upto(q, n), base, p) = "descend"
    <2>1. CASE n <= base
      <3>1. Len(Upto(q, n)) <= base
        BY <2>1, Prefixes
      <3> QED
        BY <3>1 DEF Treatment
    <2>2. CASE n > base
      <3>1. n \in (base + 1)..Len(q)
        BY <2>2
      <3> QED
        BY <3>1, DescendsElse
    <2> QED
      BY <2>1, <2>2
  <1>2. \A n \in 0..(Len(q) - 1) : n \in 0..Len(q)
    OBVIOUS
  <1>3. Reached(value, q, base, p)
    BY <1>1, <1>2 DEF Reached
  <1>4. Len(q) \in 0..Len(q) /\ Upto(q, Len(q)) = q
    BY WholePrefix
  <1>5. Treatment(value, q, base, p) = "descend"
    BY <1>1, <1>4
  <1>6. q \in Left(value, base, p)
    BY <1>3, <1>5 DEF Left
  <1>7. Given(value, q, base, p) = value[q]
    BY <1>5 DEF Given
  <1> QED
    BY <1>3, <1>6, <1>7 DEF redact_value

\* Nothing is lost that no rule names, wherever it is in the data.
THEOREM Keeping == Spec => []UnnamedIsKept
  <1>1. PipelineInv => UnnamedIsKept
    <2> DEFINE Names == ContentKeys \cup
                  {p.name : p \in {r \in Patterns(profile) : r.kind # "path"}}
    <2> SUFFICES ASSUME PipelineInv, pc = "built",
                        NEW q \in Shown(data),
                        profile.redact_classified_payloads => \A n \in 2..(Len(q) - 1) :
                            q[n] = "data" => ~IsClassified(data, Upto(q, n), profile),
                        KeysAbove(q) \cap Names = {},
                        \A r \in Patterns(profile) : r.kind = "path" =>
                            \A n \in 2..Len(q) : r.name # path(Upto(q, n), 1)
                 PROVE  q \in DOMAIN event /\ event[q] = data[q]
      BY DEF UnnamedIsKept
    <2>1. event = redact_value(data, 1, profile) /\ IsEvent(data)
      BY PayloadsAssumption DEF PayloadsAssumption, PipelineInv, Built
    <2>2. q \in DOMAIN data /\ q \in Seq(Steps)
      BY <2>1 DEF Shown, IsEvent, IsValue
    <2>3. ASSUME NEW n \in 2..Len(q)
          PROVE  /\ ~classified_payload(data, Parent(Upto(q, n)), 1, profile)
                 /\ Last(Upto(q, n)) \in Indices \/ Rule(Upto(q, n), 1, profile) = "descend"
      <3>1. ~classified_payload(data, Parent(Upto(q, n)), 1, profile)
        <4> SUFFICES ASSUME classified_payload(data, Parent(Upto(q, n)), 1, profile)
                     PROVE  FALSE
          OBVIOUS
        <4>1. n \in 1..Len(q) /\ n - 1 \in 0..Len(q) /\ n - 1 \in Nat
          BY <2>2
        <4>2. PICK m \in Nat : m = n - 1
          BY <4>1
        <4>3. PICK w : w = Upto(q, m)
          OBVIOUS
        <4>4. Parent(Upto(q, n)) = w /\ Len(w) = m
          BY <2>2, <4>1, <4>2, <4>3, Prefixes, PrefixStep
        <4>5. /\ profile.redact_classified_payloads
              /\ Len(w) > 1 /\ Last(w) = "data"
              /\ IsClassified(data, w, profile)
          BY <4>4 DEF classified_payload
        <4>6. m \in 2..(Len(q) - 1) /\ m \in 1..Len(q)
          BY <2>2, <4>2, <4>4, <4>5
        <4>7. q[m] = "data"
          BY <2>2, <4>3, <4>5, <4>6, PrefixStep
        <4> QED
          BY <4>3, <4>5, <4>6, <4>7
      <3>2. PICK u : u = Upto(q, n)
        OBVIOUS
      <3>3. n \in 1..Len(q)
        BY <2>2
      <3>4. Last(u) = q[n]
        BY <2>2, <3>2, <3>3, PrefixStep
      <3>5. CASE q[n] \in Indices
        BY <3>1, <3>2, <3>4, <3>5
      <3>6. CASE q[n] \notin Indices
        <4>1. q[n] \notin Names
          BY <3>6, StepIsKey
        <4>2. \A r \in Patterns(profile) : r.kind = "path" => r.name # path(u, 1)
          BY <3>2
        <4>3. \A r \in Patterns(profile) : r.kind # "path" => r.name # q[n]
          BY <4>1
        <4>4. ASSUME NEW patterns, patterns \subseteq Patterns(profile)
              PROVE  ~matches(u, 1, patterns)
          BY <3>4, <4>2, <4>3, <4>4 DEF matches
        <4>5. /\ ~matches(u, 1, profile.omit) /\ ~matches(u, 1, profile.hash)
              /\ ~matches(u, 1, profile.mask) /\ ~matches(u, 1, profile.redact)
          BY <4>4 DEF Patterns
        <4>6. Last(u) \notin ContentKeys
          BY <3>4, <4>1
        <4>7. Rule(u, 1, profile) = "descend"
          BY <4>5, <4>6 DEF Rule
        <4> QED
          BY <3>1, <3>2, <4>7
      <3> QED
        BY <3>5, <3>6
    <2>4. 1 \in Nat /\ 1 + 1 = 2
      OBVIOUS
    <2>5. /\ q \in Left(data, 1, profile)
          /\ redact_value(data, 1, profile)[q] = data[q]
      BY <2>2, <2>3, <2>4, FilterKeeps
    <2> QED
      BY <2>1, <2>5 DEF redact_value
  <1> QED
    BY <1>1, PipelineInvAlways, PTL

-----------------------------------------------------------------------------
(* The digest *)

\* A node that has the form of a caller's: a decimal has a count of digits and
\* of zeros, and none at the end of zero itself.
WellFormed(node) ==
    node.kind = "decimal" =>
        /\ {node.digits, node.zeros} \subseteq Nat
        /\ node.exponent \in Int
        /\ node.digits = 0 => node.zeros = 0

\* What is stored of a node has the same canonical form exactly if it is plain.
PlainNode(node) ==
    /\ node.kind = "bytes" => node.octets = <<>>
    /\ node.kind = "decimal" => PlainDecimal(node)
    /\ node.kind = "datetime" => node.micros /\ node.utc

\* A decimal has one text exactly if it is plain.
LEMMA PlainDecimals ==
    ASSUME NEW v, v.digits \in Nat, v.zeros \in Nat, v.exponent \in Int,
           v.digits = 0 => v.zeros = 0
    PROVE  str(v) = format_f(v) <=> PlainDecimal(v)
  <1>1. \A form, other : Text(form) = Text(other) => form = other
    BY DEF Text
  <1>2. \A x, y, z, w : \A a, b, c, d : <<x, y, z, w>> = <<a, b, c, d>> => x = a /\ y = b /\ z = c /\ w = d
    OBVIOUS
  <1>3. \A x, y, z, w : \A a, b, c : <<x, y, z, w>> # <<a, b, c>>
    OBVIOUS
  <1>4. ASSUME NEW s, NEW p, NEW t, NEW r
        PROVE  /\ Fixed(v, s, p) = Fixed(v, t, r) <=> s = t /\ p = r
               /\ Scientific(v) # Fixed(v, s, p)
    <2>1. <<"scientific", v.number, v.zeros, v.exponent>> # <<"fixed", v.number, s, p>>
      BY <1>2
    <2>2. <<"fixed", v.number, s, p>> = <<"fixed", v.number, t, r>> => s = t /\ p = r
      BY <1>2, Zenon
    <2> QED
      BY <1>1, <2>1, <2>2, Zenon DEF Fixed, Scientific
  <1>5. CASE v.digits > Precision
    <2>1. PICK short : short = <<"rounded", v.number, v.zeros + v.exponent>>
      OBVIOUS
    <2>2. format_f(v) = Text(short)
      BY <1>5, <2>1 DEF format_f
    <2>3. \A s, p : Fixed(v, s, p) # Text(short)
      BY <1>1, <1>3, <2>1, Zenon DEF Fixed
    <2>4. Scientific(v) # Text(short)
      BY <1>1, <1>3, <2>1, Zenon DEF Scientific
    <2>5. str(v) # format_f(v)
      BY <2>2, <2>3, <2>4, Zenon DEF str
    <2>6. ~PlainDecimal(v)
      <3>1. \A n \in Nat, m \in Nat : n > m => ~(n <= m)
        OBVIOUS
      <3> QED
        BY <1>5, <3>1, PrecisionAssumption DEF PlainDecimal, PrecisionAssumption
    <2> QED
      BY <2>5, <2>6
  <1>6. CASE ~(v.digits > Precision)
    <2>0. v.digits <= Precision
      BY <1>6, PrecisionAssumption DEF PrecisionAssumption
    <2>1. PICK shift, places : /\ format_f(v) = Fixed(v, shift, places)
                               /\ IF v.digits = 0 THEN shift = 0 /\ places = 0
                                  ELSE /\ shift = v.zeros + v.exponent
                                       /\ places = IF v.zeros + v.exponent < 0
                                                   THEN -(v.zeros + v.exponent) ELSE 0
      <3>1. CASE v.digits = 0
        BY <1>6, <3>1 DEF format_f
      <3>2. CASE v.digits # 0
        BY <1>6, <3>2 DEF format_f
      <3> QED
        BY <3>1, <3>2
    <2>2. CASE IsScientific(v)
      <3>1. str(v) = Scientific(v) /\ format_f(v) = Fixed(v, shift, places)
        BY <2>1, <2>2 DEF str
      <3>2. Scientific(v) # Fixed(v, shift, places)
        BY <1>4
      <3>3. str(v) # format_f(v)
        BY <3>1, <3>2, Zenon
      <3> QED
        BY <2>2, <3>3 DEF PlainDecimal
    <2>3. CASE ~IsScientific(v)
      <3>1. /\ str(v) = Fixed(v, v.zeros + v.exponent, -v.exponent)
            /\ format_f(v) = Fixed(v, shift, places)
        BY <2>1, <2>3 DEF str
      <3>2. str(v) = format_f(v) <=> v.zeros + v.exponent = shift /\ -v.exponent = places
        <4>1. Fixed(v, v.zeros + v.exponent, -v.exponent) = Fixed(v, shift, places)
                  <=> v.zeros + v.exponent = shift /\ -v.exponent = places
          BY <1>4
        <4> QED
          BY <3>1, <4>1, Zenon
      <3>3. ~(v.exponent > 0)
        BY <2>3 DEF IsScientific
      <3>4. v.zeros + v.exponent = shift /\ -v.exponent = places
                <=> (v.exponent < 0 => v.digits > 0 /\ v.zeros = 0)
        BY <2>1, <3>3
      <3> QED
        BY <2>0, <2>3, <3>2, <3>4 DEF PlainDecimal
    <2> QED
      BY <2>2, <2>3
  <1> QED
    BY <1>5, <1>6

LEMMA PlainNodes ==
    ASSUME NEW node, WellFormed(node)
    PROVE  normalize_node(dump_node(node)) = normalize_node(node) <=> PlainNode(node)
  <1>1. \A form : normalize_node(Text(form)) = Text(form)
    BY DEF normalize_node, Text
  <1>2. \A form, other : Text(form) = Text(other) => form = other
    BY DEF Text
  <1>3. CASE node.kind = "decimal"
    <2>1. dump_node(node) = str(node) /\ normalize_node(node) = format_f(node)
      BY <1>3 DEF dump_node, normalize_node
    <2>2. PICK form : str(node) = Text(form)
      BY DEF str, Scientific, Fixed
    <2>3. normalize_node(dump_node(node)) = str(node)
      BY <1>1, <2>1, <2>2
    <2>4. str(node) = format_f(node) <=> PlainDecimal(node)
      BY <1>3, PlainDecimals DEF WellFormed
    <2> QED
      BY <1>3, <2>1, <2>3, <2>4 DEF PlainNode
  <1>4. CASE node.kind = "datetime"
    <2>1. dump_node(node) = Text(<<"time", node.moment, IF node.micros THEN "micros" ELSE "seconds",
                                     IF node.utc THEN "utc" ELSE "offset">>)
          /\ normalize_node(node) = Text(<<"time", node.moment, "micros", "utc">>)
      BY <1>4 DEF dump_node, normalize_node, format_rfc3339
    <2> QED
      BY <1>1, <1>2, <1>4, <2>1 DEF PlainNode
  <1>5. CASE node.kind = "bytes"
    <2>1. dump_node(node) = Octets("utf8", node) /\ normalize_node(node) = Octets("hex", node)
      BY <1>5 DEF dump_node, normalize_node
    <2>2. PICK form : Octets("utf8", node) = Text(form)
      BY DEF Octets
    <2>3. normalize_node(dump_node(node)) = Octets("utf8", node)
      BY <1>1, <2>1, <2>2
    <2>4. CASE node.octets = <<>>
      BY <1>5, <2>1, <2>3, <2>4 DEF Octets, PlainNode
    <2>5. CASE node.octets # <<>>
      <3>1. <<"utf8", node.octets>> # <<"hex", node.octets>>
        OBVIOUS
      <3>2. Octets("utf8", node) # Octets("hex", node)
        BY <1>2, <2>5, <3>1 DEF Octets
      <3> QED
        BY <1>5, <2>1, <2>3, <2>5, <3>2 DEF PlainNode
    <2> QED
      BY <2>4, <2>5
  <1>6. CASE node.kind = "date"
    <2>1. dump_node(node) = Text(<<"day", node.day>>) /\ normalize_node(node) = dump_node(node)
      BY <1>6 DEF dump_node, normalize_node
    <2> QED
      BY <1>1, <1>6, <2>1 DEF PlainNode
  <1>7. CASE node.kind \notin {"decimal", "datetime", "bytes", "date"}
    <2>1. dump_node(node) = node
      BY <1>7 DEF dump_node
    <2> QED
      BY <1>7, <2>1 DEF PlainNode
  <1> QED
    BY <1>3, <1>4, <1>5, <1>6, <1>7

\* The filter makes decimals of nothing else.
LEMMA BuiltWellFormed ==
    ASSUME PipelineInv, NEW q \in DOMAIN Built
    PROVE  WellFormed(Built[q])
  <1>1. PICK built : built = Built
    OBVIOUS
  <1>2. q \in DOMAIN built /\ q \in DOMAIN data /\ q \in Left(data, 1, profile)
    BY <1>1 DEF Built, redact_value, Left
  <1>3. built[q] = data[q] \/ built[q].kind = "json"
    BY <1>1, <1>2 DEF Built, redact_value, Given, Replaced, HashOf, MaskOf, Excerpt, Text
  <1>4. WellFormed(data[q])
    BY <1>2, PayloadsAssumption DEF PayloadsAssumption, PipelineInv, WellFormed
  <1> QED
    BY <1>1, <1>3, <1>4 DEF WellFormed

LEMMA PlainValues ==
    ASSUME NEW value, \A q \in DOMAIN value : WellFormed(value[q])
    PROVE  normalize_for_json(reloaded(value)) = normalize_for_json(value) <=> Plain(value)
  <1>1. PICK R : R = reloaded(value)
    OBVIOUS
  <1>2. DOMAIN R = DOMAIN value /\ \A q \in DOMAIN value : R[q] = dump_node(value[q])
    BY <1>1 DEF reloaded
  <1>3. PICK stored : stored = normalize_for_json(R)
    OBVIOUS
  <1>4. PICK signed : signed = normalize_for_json(value)
    OBVIOUS
  <1>5. stored = signed <=> \A q \in DOMAIN value : normalize_node(R[q]) = normalize_node(value[q])
    BY <1>2, <1>3, <1>4 DEF normalize_for_json
  <1>6. stored = signed <=> \A q \in DOMAIN value : PlainNode(value[q])
    BY <1>2, <1>5, PlainNodes
  <1> QED
    BY <1>1, <1>3, <1>4, <1>6 DEF Plain, PlainNode

\* Read back, an event verifies exactly if its data was plain when its digest
\* was made.
THEOREM Verification == Spec => PlainVerifies
  <1>1. PipelineInv /\ [Next]_vars
            => [pc = "chained" /\ pc' = "read" => (Verifies' <=> Plain(event))]_vars
    <2> SUFFICES ASSUME PipelineInv, [Next]_vars, vars' # vars, pc = "chained", pc' = "read"
                 PROVE  Verifies' <=> Plain(event)
      OBVIOUS
    <2>1. store_and_read
      BY DEF Next, create, append_integrity, redact
    <2>2. event = Built /\ digest = normalize_for_json(Built)
      BY DEF PipelineInv
    <2>3. event' = reloaded(event) /\ digest' = digest
      BY <2>1 DEF store_and_read
    <2>4. Verifies' <=> normalize_for_json(reloaded(event)) = normalize_for_json(event)
      BY <2>2, <2>3 DEF Verifies
    <2>5. \A q \in DOMAIN event : WellFormed(event[q])
      BY <2>2, BuiltWellFormed
    <2> QED
      BY <2>4, <2>5, PlainValues
  <1> QED
    BY <1>1, PipelineInvAlways, PTL DEF Spec, PlainVerifies

-----------------------------------------------------------------------------
(* Classified data *)

LEMMA DataShape ==
    Data \in Seq(Steps) /\ Len(Data) = 1 /\ Data[1] = "data" /\ Last(Data) = "data"
  <1>1. Len(Data) = 1 /\ Data[1] = "data" /\ DOMAIN Data = 1..1
    BY DEF Data
  <1>2. "data" \in Steps
    BY KeysAssumption DEF KeysAssumption, Steps
  <1>3. Data \in Seq(Steps)
    BY <1>2 DEF Data
  <1> QED
    BY <1>1, <1>3 DEF Last

\* The data of an event is one step down.
LEMMA DataPosition ==
    ASSUME NEW q \in Seq(Steps), Len(q) > 0, q[1] = "data"
    PROVE  Upto(q, 1) = Data
  <1>1. 1 \in 0..Len(q) /\ 1 \in 1..1
    OBVIOUS
  <1>2. PICK u : u = Upto(q, 1)
    OBVIOUS
  <1>3. u \in Seq(Steps) /\ Len(u) = 1 /\ \A i \in 1..1 : u[i] = q[i]
    BY <1>1, <1>2, Prefixes
  <1>4. \A i \in 1..Len(u) : u[i] = Data[i]
    BY <1>1, <1>3, DataShape
  <1> QED
    BY <1>2, <1>3, <1>4, DataShape, SeqEqual

\* The data and its keys.
LEMMA DataKeys ==
    ASSUME NEW key \in Steps
    PROVE  /\ Data \in Seq(Steps) /\ Len(Data) = 1 /\ Last(Data) = "data"
           /\ Append(Data, key) \in Seq(Steps) /\ Len(Append(Data, key)) = 2
           /\ Last(Append(Data, key)) = key
           /\ Upto(Append(Data, key), 2) = Append(Data, key)
           /\ Parent(Append(Data, key)) = Data
  <1>1. Data \in Seq(Steps) /\ Len(Data) = 1 /\ Last(Data) = "data" /\ Data[1] = "data"
    BY DataShape
  <1>2. PICK u : u = Append(Data, key)
    OBVIOUS
  <1>3. u \in Seq(Steps) /\ Len(u) = 2 /\ u[2] = key /\ u[1] = "data"
    <2>1. 1 \in 1..Len(Data) /\ Len(Data) + 1 = 2
      BY <1>1
    <2>2. PICK d : d = Data
      OBVIOUS
    <2>3. d \in Seq(Steps) /\ u = Append(d, key)
      BY <1>1, <1>2, <2>2
    <2>4. u \in Seq(Steps) /\ Len(u) = Len(d) + 1 /\ u[Len(d) + 1] = key
          /\ \A i \in 1..Len(d) : u[i] = d[i]
      BY <2>3, AppendProperties
    <2> QED
      BY <1>1, <2>1, <2>2, <2>4
  <1>4. Upto(u, 2) = u
    BY <1>3, WholePrefix
  <1>5. Parent(u) = Data
    BY <1>3, DataPosition DEF Parent
  <1> QED
    BY <1>1, <1>2, <1>3, <1>4, <1>5 DEF Last

\* What the builder has no rule for, at a key of the data, stays.
LEMMA DataKeyStays ==
    ASSUME NEW value, NEW p, NEW key \in Steps, Append(Data, key) \in DOMAIN value,
           Rule(Append(Data, key), 1, p) = "descend"
    PROVE  /\ Append(Data, key) \in Left(value, 1, p)
           /\ redact_value(value, 1, p)[Append(Data, key)] = value[Append(Data, key)]
  <1>1. PICK u : u = Append(Data, key)
    OBVIOUS
  <1>2. u \in Seq(Steps) /\ Len(u) = 2 /\ Upto(u, 2) = u /\ Parent(u) = Data /\ Len(Data) = 1
    BY <1>1, DataKeys
  <1>3. ~classified_payload(value, Data, 1, p)
    BY <1>2 DEF classified_payload
  <1>4. ASSUME NEW n \in (1 + 1)..Len(u)
        PROVE  /\ ~classified_payload(value, Parent(Upto(u, n)), 1, p)
               /\ Last(Upto(u, n)) \in Indices \/ Rule(Upto(u, n), 1, p) = "descend"
    <2>1. n = 2
      BY <1>2
    <2> QED
      BY <1>1, <1>2, <1>3, <2>1
  <1>5. u \in DOMAIN value /\ 1 \in Nat
    BY <1>1
  <1>6. u \in Left(value, 1, p) /\ redact_value(value, 1, p)[u] = value[u]
    BY <1>2, <1>4, <1>5, FilterKeeps
  <1> QED
    BY <1>1, <1>6

\* Data classified for the caller is classified for the export.
LEMMA StaysClassified ==
    ASSUME PipelineInv, pc = "read", IsClassified(data, Data, profile),
           \A key \in ClassifyingKeys(data, Data) : Rule(Append(Data, key), 1, profile) = "descend"
    PROVE  /\ event[Data] = Dict
           /\ IsClassified(event, Data, profile)
  <1>1. PICK built : built = Built
    OBVIOUS
  <1>2. /\ built = redact_value(data, 1, profile)
        /\ event = reloaded(built) /\ DOMAIN event = DOMAIN built
        /\ DOMAIN built = Left(data, 1, profile) /\ DOMAIN built \subseteq DOMAIN data
    BY <1>1 DEF PipelineInv, Built, reloaded, redact_value, Left
  <1>3. \A q \in DOMAIN built : event[q] = dump_node(built[q])
    BY <1>2 DEF reloaded
  <1>4. PICK key \in ClassifyingKeys(data, Data) :
            data[Append(Data, key)] \in profile.classification_redact
    BY DEF IsClassified
  <1>5. key \in {"classification", "highest_classification"} /\ Append(Data, key) \in DOMAIN data
    BY <1>4 DEF ClassifyingKeys
  <1>6. PICK c : c = Append(Data, key)
    OBVIOUS
  <1>7. c \in DOMAIN built /\ built[c] = data[c]
    <2>1. key \in Steps
      BY <1>5, KeysAssumption DEF KeysAssumption, Steps
    <2>2. Rule(c, 1, profile) = "descend" /\ c \in DOMAIN data
      BY <1>4, <1>5, <1>6
    <2> QED
      BY <1>2, <1>6, <2>1, <2>2, DataKeyStays
  <1>8. event[c] = data[c] /\ data[c].kind = "json"
    <2>1. profile \in Profiles /\ data[c] \in profile.classification_redact
      BY <1>4, <1>6 DEF PipelineInv
    <2>2. data[c].kind = "json"
      BY <2>1, ProfilesAssumption DEF ProfilesAssumption
    <2> QED
      BY <1>3, <1>7, <2>2, DumpedNode
  <1>9. key \in ClassifyingKeys(event, Data)
    <2>1. Append(Data, "classification") \in DOMAIN event =>
              Append(Data, "classification") \in DOMAIN data
      BY <1>2
    <2> QED
      BY <1>2, <1>4, <1>6, <1>7, <2>1 DEF ClassifyingKeys
  <1>10. IsClassified(event, Data, profile)
    BY <1>4, <1>6, <1>8, <1>9 DEF IsClassified
  <1>11. Data \in DOMAIN data /\ data[Data] = Dict
    BY PayloadsAssumption DEF PayloadsAssumption, PipelineInv
  <1>12. Data \in Left(data, 1, profile) /\ redact_value(data, 1, profile)[Data] = data[Data]
    <2>1. Data \in Seq(Steps) /\ Len(Data) = 1
      BY DataShape
    <2>2. 1 \in Nat /\ \A n \in (1 + 1)..Len(Data) : FALSE
      BY <2>1
    <2> QED
      BY <1>11, <2>1, <2>2, FilterKeeps
  <1>13. event[Data] = dump_node(Dict)
    BY <1>2, <1>3, <1>11, <1>12
  <1>14. dump_node(Dict) = Dict
    BY DEF dump_node, Dict
  <1> QED
    BY <1>10, <1>13, <1>14

\* Of a classified event the filter gives the classification.
LEMMA ClassificationOnly ==
    ASSUME NEW value, IsEvent(value), NEW p \in Profiles, p.redact_classified_payloads,
           value[Data] = Dict, IsClassified(value, Data, p),
           NEW q \in Shown(redact_value(value, 0, p))
    PROVE  KeysAbove(q) \subseteq {"classification"}
  <1>1. q \in Left(value, 0, p) /\ q \in DOMAIN value
    BY DEF Shown, redact_value, Left
  <1>2. q \in Seq(Steps) /\ Len(q) \in Nat /\ IsValue(value)
    BY <1>1 DEF IsEvent, IsValue
  <1> SUFFICES ASSUME Len(q) > 1
               PROVE  KeysAbove(q) \subseteq {"classification"}
    BY <1>2 DEF KeysAbove
  <1>3. PICK u : u = Upto(q, 2)
    OBVIOUS
  <1>4. 2 \in 0..Len(q) /\ 2 \in 1..Len(q) /\ 1 \in 0..(Len(q) - 1)
    BY <1>2
  <1>5. u \in Seq(Steps) /\ Len(u) = 2 /\ Last(u) = q[2] /\ Parent(u) = Upto(q, 1)
    <2>1. u \in Seq(Steps) /\ Len(u) = 2
      BY <1>2, <1>3, <1>4, Prefixes
    <2>2. Last(u) = q[2] /\ Parent(u) = Upto(q, 2 - 1)
      BY <1>2, <1>3, <1>4, PrefixStep
    <2> QED
      BY <2>1, <2>2
  <1>6. Upto(q, 1) = Data /\ q[1] = "data"
    <2>1. q # <<>>
      BY <1>2
    <2> QED
      BY <1>1, <1>2, <2>1, DataPosition DEF IsEvent
  <1>7. Data \in Seq(Steps) /\ Len(Data) = 1 /\ Last(Data) = "data"
    BY DataShape
  <1>8. classified_payload(value, Data, 0, p)
    BY <1>7 DEF classified_payload
  <1>9. Treatment(value, u, 0, p) = IF q[2] = "classification" THEN "keep" ELSE "replace"
    BY <1>5, <1>6, <1>8 DEF Treatment
  <1>10. CASE Reached(value, q, 0, p)
    <2>1. ~(Len(q) > 2)
      <3>1. Len(q) > 2 => Treatment(value, u, 0, p) = "descend"
        BY <1>2, <1>3, <1>4, <1>10, ReachedAbove
      <3> QED
        BY <1>9, <3>1
    <2>2. Len(q) = 2 /\ u = q
      <3>1. \A n \in Nat : n > 1 /\ ~(n > 2) => n = 2
        OBVIOUS
      <3>2. Len(q) = 2
        BY <1>2, <2>1, <3>1, Zenon
      <3> QED
        BY <1>2, <1>3, <3>2, WholePrefix
    <2>3. q[2] = "classification"
      BY <1>2, <1>9, <1>10, <2>2, ShownTreatment
    <2> QED
      BY <2>2, <2>3 DEF KeysAbove
  <1>11. CASE Copied(value, q, 0, p)
    <2>1. PICK n \in 0..(Len(q) - 1) :
              /\ Reached(value, Upto(q, n), 0, p)
              /\ Treatment(value, Upto(q, n), 0, p) = "keep"
      BY <1>11 DEF Copied
    <2>2. PICK w : w = Upto(q, n)
      OBVIOUS
    <2>3. n \in 0..Len(q)
      BY <1>2
    <2>4. w \in Seq(Steps) /\ Len(w) = n /\ Treatment(value, w, 0, p) = "keep"
          /\ Reached(value, w, 0, p)
      BY <1>2, <2>1, <2>2, <2>3, Prefixes
    <2>5. w \in DOMAIN value /\ IsBranch(value[w])
      BY <1>1, <1>2, <2>1, <2>2 DEF IsValue
    <2>6. CASE n = 0
      BY <2>4, <2>6 DEF Treatment
    <2>7. CASE n = 1
      <3>1. w = Data
        BY <1>6, <2>2, <2>7
      <3>2. "data" \notin ContentKeys
        BY KeysAssumption DEF KeysAssumption
      <3> QED
        BY <1>7, <2>4, <3>1, <3>2, Keeps
    <2>8. CASE n = 2
      <3>1. w = u
        BY <1>3, <2>2, <2>8
      <3>2. Last(w) = "classification" /\ Parent(w) = Data
        BY <1>5, <1>6, <1>9, <2>4, <3>1
      <3>3. Len(w) > 0
        BY <2>4, <2>8
      <3> QED
        BY <1>2, <2>5, <3>2, <3>3, ClassificationIsLeaf
    <2>9. CASE n > 2
      <3>1. 2 \in 0..n /\ 2 \in 0..Len(w) /\ 2 < Len(w)
        BY <2>4, <2>9
      <3>2. Upto(w, 2) = u
        BY <1>2, <1>3, <2>2, <2>3, <3>1, PrefixOfPrefix
      <3>3. Treatment(value, u, 0, p) = "descend"
        BY <2>4, <3>1, <3>2, ReachedAbove
      <3> QED
        BY <1>9, <3>3
    <2> QED
      BY <2>6, <2>7, <2>8, <2>9
  <1> QED
    BY <1>1, <1>10, <1>11 DEF Left

\* Of classified data an export gives only the classification.
THEOREM Classification == Spec => []ClassifiedWithheld
  <1>1. PipelineInv => ClassifiedWithheld
    <2> SUFFICES ASSUME PipelineInv, exported # None, profile.redact_classified_payloads,
                        IsClassified(data, Data, profile),
                        \A key \in ClassifyingKeys(data, Data) :
                            Rule(Append(Data, key), 1, profile) = "descend",
                        NEW q \in Shown(exported)
                 PROVE  KeysAbove(q) \subseteq {"classification"}
      BY DEF ClassifiedWithheld
    <2>1. pc = "read" /\ exported = redact_value(event, 0, profile) /\ profile \in Profiles
      BY DEF PipelineInv, ExportOf
    <2>2. event[Data] = Dict /\ IsClassified(event, Data, profile)
      BY <2>1, StaysClassified
    <2>3. IsEvent(event)
      BY <2>1, EventShows
    <2> QED
      BY <2>1, <2>2, <2>3, ClassificationOnly
  <1> QED
    BY <1>1, PipelineInvAlways, PTL

-----------------------------------------------------------------------------
(* An event filtered twice *)

\* The profiles of which ExportAgrees speaks.
Uniform(p) ==
    /\ p \in Profiles
    /\ p.hash = {} /\ p.mask = {}
    /\ p.redact_classified_payloads => p.omit = {}
    /\ \A r \in Patterns(p) :
          r.kind # "path" /\ r.name # "classification" /\ r.name # "highest_classification"

\* A pattern that the builder applies an export applies too.
LEMMA MatchesMore ==
    ASSUME NEW p, Uniform(p), NEW q \in Seq(Steps), NEW patterns, patterns \subseteq Patterns(p),
           matches(q, 1, patterns)
    PROVE  matches(q, 0, patterns)
  <1>1. \A r \in patterns : r.kind # "path"
    BY DEF Uniform
  <1>2. Len(q) \in Nat
    OBVIOUS
  <1> QED
    BY <1>1, <1>2 DEF matches

LEMMA RulesMore ==
    ASSUME NEW p, Uniform(p), NEW q \in Seq(Steps)
    PROVE  /\ matches(q, 1, p.omit) => matches(q, 0, p.omit)
           /\ matches(q, 1, p.redact) => matches(q, 0, p.redact)
           /\ Unmatched(q, 0, p) => Unmatched(q, 1, p)
  <1>1. /\ p.omit \subseteq Patterns(p) /\ p.redact \subseteq Patterns(p)
        /\ p.hash \subseteq Patterns(p) /\ p.mask \subseteq Patterns(p)
    BY DEF Patterns
  <1> QED
    BY <1>1, MatchesMore DEF Unmatched

\* No rule hashes or masks.
LEMMA UniformRules ==
    ASSUME NEW p, Uniform(p), NEW q, NEW base
    PROVE  /\ Rule(q, base, p) = "omit" \/ Rule(q, base, p) = "replace"
              \/ Rule(q, base, p) = "content" \/ Rule(q, base, p) = "descend"
           /\ Rule(q, base, p) = "omit" <=> matches(q, base, p.omit)
           /\ Rule(q, base, p) = "replace" <=>
                 ~matches(q, base, p.omit) /\ matches(q, base, p.redact)
           /\ Rule(q, base, p) = "content" <=> Unmatched(q, base, p) /\ Last(q) \in ContentKeys
           /\ Rule(q, base, p) = "descend" <=> Unmatched(q, base, p) /\ Last(q) \notin ContentKeys
  <1>1. ~matches(q, base, p.hash) /\ ~matches(q, base, p.mask)
    BY DEF Uniform, matches
  <1> QED
    BY <1>1 DEF Rule, Unmatched

\* What is classified for the builder is classified for an export.
LEMMA ClassifiedMore ==
    ASSUME NEW value, NEW q \in Seq(Steps), NEW p, classified_payload(value, q, 1, p)
    PROVE  classified_payload(value, q, 0, p)
  <1>1. Len(q) \in Nat
    OBVIOUS
  <1> QED
    BY <1>1 DEF classified_payload

\* Where the builder stops, an export of the caller's data stops.
LEMMA StopsMore ==
    ASSUME NEW value, NEW p, Uniform(p), NEW q \in Seq(Steps),
           Treatment(value, q, 0, p) = "descend"
    PROVE  Treatment(value, q, 1, p) = "descend"
  <1>1. CASE Len(q) <= 1
    BY <1>1 DEF Treatment
  <1>2. CASE ~(Len(q) <= 1)
    <2>1. Len(q) > 0 /\ 0 \in Nat
      BY <1>2
    <2>2. /\ ~classified_payload(value, Parent(q), 0, p)
          /\ Last(q) \notin Indices => Unmatched(q, 0, p) /\ Last(q) \notin ContentKeys
      BY <2>1, Descends
    <2>3. ~classified_payload(value, Parent(q), 1, p)
      BY <2>1, <2>2, ClassifiedMore, ParentAndStep
    <2>4. Last(q) \notin Indices => Rule(q, 1, p) = "descend"
      BY <2>2, RulesMore, UniformRules
    <2> QED
      BY <2>3, <2>4, DescendsElse
  <1> QED
    BY <1>1, <1>2

\* The recursion comes to the items of what it descends into.
LEMMA ReachedNext ==
    ASSUME NEW value, NEW base, NEW p, NEW q \in Seq(Steps), Len(q) > 0,
           Reached(value, Parent(q), base, p), Treatment(value, Parent(q), base, p) = "descend"
    PROVE  Reached(value, q, base, p)
  <1>1. PICK u : u = Parent(q)
    OBVIOUS
  <1>2. Len(q) - 1 \in 0..Len(q)
    OBVIOUS
  <1>3. Len(u) = Len(q) - 1
    BY <1>1, <1>2, Prefixes DEF Parent
  <1>4. ASSUME NEW n \in 0..(Len(q) - 1)
        PROVE  Treatment(value, Upto(q, n), base, p) = "descend"
    <2>1. CASE n = Len(q) - 1
      BY <2>1 DEF Parent
    <2>2. CASE n # Len(q) - 1
      <3>1. n \in 0..(Len(u) - 1)
        BY <1>3, <2>2
      <3>2. Treatment(value, Upto(u, n), base, p) = "descend"
        BY <1>1, <3>1 DEF Reached
      <3>3. Upto(u, n) = Upto(q, n)
        BY <1>1, <1>2, PrefixOfPrefix DEF Parent
      <3> QED
        BY <3>2, <3>3
    <2> QED
      BY <2>1, <2>2
  <1> QED
    BY <1>4 DEF Reached

\* Above what the recursion comes to, the parent.
LEMMA ReachedParent ==
    ASSUME NEW value, NEW base, NEW p, NEW q \in Seq(Steps), Len(q) > 0,
           Reached(value, q, base, p)
    PROVE  /\ Parent(q) \in Seq(Steps)
           /\ Reached(value, Parent(q), base, p)
           /\ Treatment(value, Parent(q), base, p) = "descend"
  <1>1. Len(q) - 1 \in 0..Len(q) /\ Len(q) - 1 < Len(q)
    OBVIOUS
  <1> QED
    BY <1>1, ReachedAbove, Prefixes DEF Parent

\* What the builder comes to and does not omit is in the event.
LEMMA BuiltItem ==
    ASSUME NEW value, NEW p, NEW q \in DOMAIN value, Reached(value, q, 1, p),
           Treatment(value, q, 1, p) # "omit"
    PROVE  /\ q \in DOMAIN redact_value(value, 1, p)
           /\ redact_value(value, 1, p)[q] = Given(value, q, 1, p)
  BY DEF redact_value, Left

LEMMA BuiltNode ==
    ASSUME NEW value, NEW p, NEW q \in DOMAIN value, Reached(value, q, 1, p),
           Treatment(value, q, 1, p) = "descend" \/ Treatment(value, q, 1, p) = "keep"
    PROVE  /\ q \in DOMAIN redact_value(value, 1, p)
           /\ redact_value(value, 1, p)[q] = value[q]
  <1>1. Given(value, q, 1, p) = value[q]
    BY DEF Given
  <1> QED
    BY <1>1, BuiltItem

\* The builder leaves the classification of a dict, and its highest
\* classification unless it withholds the dict.
LEMMA ClassificationStays ==
    ASSUME NEW value, NEW p, Uniform(p), NEW dict \in Seq(Steps),
           Reached(value, dict, 1, p), Treatment(value, dict, 1, p) = "descend",
           NEW key, Append(dict, key) \in DOMAIN value,
           \/ key = "classification"
           \/ key = "highest_classification" /\ ~classified_payload(value, dict, 1, p)
    PROVE  /\ Append(dict, key) \in DOMAIN redact_value(value, 1, p)
           /\ redact_value(value, 1, p)[Append(dict, key)] = value[Append(dict, key)]
  <1>1. key \in Steps /\ key \notin Indices /\ key \notin ContentKeys
    BY KeysAssumption DEF KeysAssumption, Steps
  <1>2. PICK u : u = Append(dict, key)
    OBVIOUS
  <1>3. u \in Seq(Steps) /\ Len(u) > 0 /\ Last(u) = key /\ Parent(u) = dict
    <2>1. u \in Seq(Steps) /\ Len(u) = Len(dict) + 1 /\ u[Len(dict) + 1] = key
          /\ \A i \in 1..Len(dict) : u[i] = dict[i]
      BY <1>1, <1>2, AppendProperties
    <2>2. Len(u) > 0 /\ Last(u) = key /\ Len(u) - 1 = Len(dict) /\ Len(dict) \in 0..Len(u)
      BY <2>1 DEF Last
    <2>3. PICK w : w = Parent(u)
      OBVIOUS
    <2>4. w \in Seq(Steps) /\ Len(w) = Len(dict) /\ \A i \in 1..Len(dict) : w[i] = u[i]
      BY <2>1, <2>2, <2>3, Prefixes DEF Parent
    <2>5. w = dict
      BY <2>1, <2>4, SeqEqual
    <2> QED
      BY <2>1, <2>2, <2>3, <2>5
  <1>4. Reached(value, u, 1, p)
    BY <1>3, ReachedNext
  <1>5. Unmatched(u, 1, p)
    <2>1. ASSUME NEW patterns, patterns \subseteq Patterns(p)
          PROVE  ~matches(u, 1, patterns)
      <3>1. \A r \in patterns : r.kind # "path" /\ r.name # key
        BY <2>1 DEF Uniform
      <3> QED
        BY <1>3, <3>1 DEF matches
    <2> QED
      BY <2>1 DEF Unmatched, Patterns
  <1>6. Rule(u, 1, p) = "descend"
    BY <1>1, <1>3, <1>5, UniformRules
  <1>7. Treatment(value, u, 1, p) = "descend" \/ Treatment(value, u, 1, p) = "keep"
    <2>1. CASE classified_payload(value, dict, 1, p)
      <3>1. key = "classification"
        BY <2>1
      <3> QED
        BY <1>3, <2>1, <3>1 DEF Treatment
    <2>2. CASE ~classified_payload(value, dict, 1, p)
      BY <1>3, <1>6, <2>2, DescendsElse
    <2> QED
      BY <2>1, <2>2
  <1> QED
    BY <1>2, <1>4, <1>7, BuiltNode

\* A dict that the builder comes to is classified for the export as it was for
\* the caller, unless the builder has replaced its highest classification.
LEMMA SameClassification ==
    ASSUME NEW value, NEW p, Uniform(p), NEW dict \in Seq(Steps), dict \in DOMAIN value,
           Reached(value, dict, 1, p), Treatment(value, dict, 1, p) = "descend",
           \/ ~classified_payload(value, dict, 1, p)
           \/ Append(dict, "classification") \in DOMAIN value
    PROVE  classified_payload(redact_value(value, 1, p), dict, 0, p)
               <=> classified_payload(value, dict, 0, p)
  <1>1. PICK built : built = redact_value(value, 1, p)
    OBVIOUS
  <1>2. DOMAIN built \subseteq DOMAIN value
    BY <1>1 DEF redact_value, Left
  <1>3. built[dict] = value[dict]
    BY <1>1, BuiltNode
  <1>4. PICK c : c = Append(dict, "classification")
    OBVIOUS
  <1>5. PICK h : h = Append(dict, "highest_classification")
    OBVIOUS
  <1>6. CASE c \in DOMAIN value
    <2>1. c \in DOMAIN built /\ built[c] = value[c]
      BY <1>1, <1>4, <1>6, ClassificationStays
    <2>2. ClassifyingKeys(value, dict) = {"classification"}
          /\ ClassifyingKeys(built, dict) = {"classification"}
      BY <1>4, <1>6, <2>1 DEF ClassifyingKeys
    <2>3. IsClassified(built, dict, p) <=> IsClassified(value, dict, p)
      BY <1>4, <2>1, <2>2 DEF IsClassified
    <2> QED
      BY <1>1, <1>3, <2>3 DEF classified_payload
  <1>7. CASE c \notin DOMAIN value
    <2>1. ~classified_payload(value, dict, 1, p) /\ c \notin DOMAIN built
      BY <1>2, <1>4, <1>7
    <2>2. h \in DOMAIN value => h \in DOMAIN built /\ built[h] = value[h]
      BY <1>1, <1>5, <2>1, ClassificationStays
    <2>3. h \in DOMAIN value <=> h \in DOMAIN built
      BY <1>2, <2>2
    <2>4. ClassifyingKeys(value, dict) = {key \in {"highest_classification"} : h \in DOMAIN value}
          /\ ClassifyingKeys(built, dict) = {key \in {"highest_classification"} : h \in DOMAIN value}
      BY <1>4, <1>5, <1>7, <2>1, <2>3 DEF ClassifyingKeys
    <2>5. IsClassified(built, dict, p) <=> IsClassified(value, dict, p)
      BY <1>5, <2>2, <2>4 DEF IsClassified
    <2> QED
      BY <1>1, <1>3, <2>5 DEF classified_payload
  <1> QED
    BY <1>6, <1>7

\* Where an export of the caller's data descends, an export of the event does.
LEMMA DescendsToo ==
    ASSUME NEW value, IsValue(value), NEW p, Uniform(p), NEW q \in DOMAIN value,
           Reached(value, q, 1, p), Treatment(value, q, 0, p) = "descend"
    PROVE  Treatment(redact_value(value, 1, p), q, 0, p) = "descend"
  <1>1. PICK built : built = redact_value(value, 1, p)
    OBVIOUS
  <1>2. q \in Seq(Steps) /\ Len(q) \in Nat
    BY DEF IsValue
  <1>3. CASE Len(q) = 0
    BY <1>3 DEF Treatment
  <1>4. CASE Len(q) > 0
    <2>1. PICK dict : dict = Parent(q)
      OBVIOUS
    <2>2. Len(q) - 1 \in 0..(Len(q) - 1)
      BY <1>2, <1>4
    <2>3. dict \in Seq(Steps) /\ dict \in DOMAIN value
          /\ Reached(value, dict, 1, p) /\ Treatment(value, dict, 1, p) = "descend"
      BY <1>2, <1>4, <2>1, <2>2, ReachedParent DEF IsValue, Parent
    <2>4. 0 \in Nat
      OBVIOUS
    <2>5. /\ ~classified_payload(value, dict, 0, p)
          /\ Last(q) \in Indices \/ Rule(q, 0, p) = "descend"
      BY <1>2, <1>4, <2>1, <2>4, Descends
    <2>6. ~classified_payload(value, dict, 1, p)
      BY <2>3, <2>5, ClassifiedMore
    <2>7. ~classified_payload(built, dict, 0, p)
      BY <1>1, <2>3, <2>5, <2>6, SameClassification
    <2> QED
      BY <1>1, <2>1, <2>5, <2>7, DescendsElse
  <1> QED
    BY <1>2, <1>3, <1>4

\* All three filters come to what an export of the caller's data comes to.
LEMMA ReachedAlike ==
    ASSUME NEW value, IsValue(value), NEW p, Uniform(p), NEW q \in DOMAIN value,
           Reached(value, q, 0, p)
    PROVE  Reached(value, q, 1, p) /\ Reached(redact_value(value, 1, p), q, 0, p)
  <1>1. q \in Seq(Steps)
    BY DEF IsValue
  <1>2. ASSUME NEW n \in 0..(Len(q) - 1)
        PROVE  /\ Upto(q, n) \in DOMAIN value /\ Upto(q, n) \in Seq(Steps) /\ n \in 0..Len(q)
               /\ Treatment(value, Upto(q, n), 0, p) = "descend"
    BY <1>1 DEF IsValue, Reached
  <1>3. \A n \in 0..(Len(q) - 1) : Treatment(value, Upto(q, n), 1, p) = "descend"
    BY <1>2, StopsMore
  <1>4. Reached(value, q, 1, p)
    BY <1>3 DEF Reached
  <1>5. \A n \in 0..(Len(q) - 1) :
            Treatment(redact_value(value, 1, p), Upto(q, n), 0, p) = "descend"
    BY <1>1, <1>2, <1>4, ReachedAbove, DescendsToo
  <1> QED
    BY <1>4, <1>5 DEF Reached

\* Where an export of the caller's data stops, the event has there what makes
\* an export of the event say the same.
StopsAlike(value, p, u) ==
    LET built == redact_value(value, 1, p)
        once  == Treatment(value, u, 0, p)
        twice == Treatment(built, u, 0, p)
    IN  /\ once = "omit" => u \notin DOMAIN built \/ twice = "omit"
        /\ once # "omit" => /\ u \in DOMAIN built /\ twice # "omit"
                            /\ Given(built, u, 0, p) = Given(value, u, 0, p)
        /\ once = "keep" => /\ twice = "keep"
                            /\ Treatment(value, u, 1, p) = "keep" \/ ~IsBranch(value[u])
        /\ once # "keep" => \/ u \in DOMAIN built /\ ~IsBranch(built[u])
                            \/ twice # "keep" /\ twice # "descend"

\* What is put for the treatments that do not depend on what is there.
LEMMA GivenReplaced ==
    ASSUME NEW value, NEW q, NEW base, NEW p
    PROVE  /\ Treatment(value, q, base, p) = "replace" => Given(value, q, base, p) = Replaced
           /\ Treatment(value, q, base, p) = "keep" \/ Treatment(value, q, base, p) = "descend"
                 => Given(value, q, base, p) = value[q]
           /\ Treatment(value, q, base, p) = "excerpt"
                 => Given(value, q, base, p) = Excerpt(Item(value, q))
  BY DEF Given

\* A replacement is a leaf, and short; so is an excerpt.
LEMMA ReplacedIsShort ==
    /\ ~IsBranch(Replaced) /\ IsShort(Replaced)
    /\ \A item : ~IsBranch(Excerpt(item)) /\ IsShort(Excerpt(item))
  BY DEF Replaced, Excerpt, Text, IsBranch, IsShort

\* First case: the builder withholds the dict for its highest classification.
LEMMA WithheldAlike ==
    ASSUME NEW value, IsValue(value), NEW p, Uniform(p), NEW u \in DOMAIN value,
           Reached(value, u, 1, p), Len(u) > 0,
           classified_payload(value, Parent(u), 1, p), Last(u) # "classification"
    PROVE  StopsAlike(value, p, u)
  <1>1. PICK built : built = redact_value(value, 1, p)
    OBVIOUS
  <1>2. u \in Seq(Steps) /\ Len(u) \in Nat
    BY DEF IsValue
  <1>3. Parent(u) \in Seq(Steps) /\ Len(Parent(u)) = Len(u) - 1
    <2>1. Len(u) - 1 \in 0..Len(u)
      BY <1>2
    <2> QED
      BY <1>2, <2>1, Prefixes DEF Parent
  <1>4. ~(Len(u) <= 0) /\ ~(Len(u) <= 1)
    <2>1. Len(Parent(u)) > 1
      BY DEF classified_payload
    <2> QED
      BY <1>2, <1>3, <2>1
  <1>5. classified_payload(value, Parent(u), 0, p) /\ p.omit = {}
    BY <1>3, ClassifiedMore DEF Uniform, classified_payload
  <1>6. Treatment(value, u, 0, p) = "replace" /\ Treatment(value, u, 1, p) = "replace"
    BY <1>4, <1>5 DEF Treatment
  <1>7. u \in DOMAIN built /\ built[u] = Replaced
    BY <1>1, <1>6, BuiltItem, GivenReplaced
  <1>8. PICK twice : twice = Treatment(built, u, 0, p)
    OBVIOUS
  <1>9. twice = "keep" \/ twice = "replace" \/ twice = "descend"
    <2>1. ~matches(u, 0, p.omit)
      BY <1>5 DEF matches
    <2>2. Rule(u, 0, p) = "replace" \/ Rule(u, 0, p) = "content" \/ Rule(u, 0, p) = "descend"
      BY <2>1, UniformRules
    <2>3. content(built[u], p) = "keep" \/ content(built[u], p) = "replace"
      BY <1>7, ReplacedIsShort DEF content
    <2> QED
      BY <1>4, <1>8, <2>2, <2>3 DEF Treatment
  <1>10. Given(built, u, 0, p) = Replaced
    BY <1>7, <1>8, <1>9, GivenReplaced
  <1>11. Given(value, u, 0, p) = Replaced
    BY <1>6, GivenReplaced
  <1> QED
    BY <1>1, <1>6, <1>7, <1>8, <1>9, <1>10, <1>11, ReplacedIsShort DEF StopsAlike

\* Second case: the dict is classified for the exports.
LEMMA ClassifiedAlike ==
    ASSUME NEW value, IsValue(value), NEW p, Uniform(p), NEW u \in DOMAIN value,
           Reached(value, u, 1, p), Len(u) > 0,
           classified_payload(value, Parent(u), 0, p),
           classified_payload(redact_value(value, 1, p), Parent(u), 0, p)
    PROVE  StopsAlike(value, p, u)
  <1>1. PICK built : built = redact_value(value, 1, p)
    OBVIOUS
  <1>2. u \in Seq(Steps) /\ Len(u) \in Nat /\ ~(Len(u) <= 0)
    BY DEF IsValue
  <1>3. p.omit = {} /\ p \in Profiles
    BY DEF Uniform, classified_payload
  <1>4. CASE Last(u) = "classification"
    <2>1. Treatment(value, u, 0, p) = "keep" /\ Treatment(built, u, 0, p) = "keep"
      BY <1>1, <1>2, <1>4 DEF Treatment
    <2>2. ~IsBranch(value[u])
      BY <1>2, <1>3, <1>4, ClassificationIsLeaf DEF classified_payload
    <2>3. u = Append(Parent(u), "classification") /\ Parent(u) \in Seq(Steps)
          /\ Reached(value, Parent(u), 1, p) /\ Treatment(value, Parent(u), 1, p) = "descend"
      BY <1>2, <1>4, ParentAndStep, ReachedParent
    <2>4. PICK dict : dict = Parent(u)
      OBVIOUS
    <2>5. PICK key : key = "classification"
      OBVIOUS
    <2>6. Append(dict, key) \in DOMAIN built /\ built[Append(dict, key)] = value[Append(dict, key)]
      BY <1>1, <2>3, <2>4, <2>5, ClassificationStays
    <2>7. u \in DOMAIN built /\ built[u] = value[u]
      BY <2>3, <2>4, <2>5, <2>6
    <2>8. Given(built, u, 0, p) = built[u] /\ Given(value, u, 0, p) = value[u]
      BY <2>1, GivenReplaced
    <2> QED
      BY <1>1, <2>1, <2>2, <2>7, <2>8 DEF StopsAlike
  <1>5. CASE Last(u) # "classification"
    <2>1. Treatment(value, u, 0, p) = "replace" /\ Treatment(built, u, 0, p) = "replace"
      BY <1>1, <1>2, <1>5 DEF Treatment
    <2>2. Treatment(value, u, 1, p) # "omit"
      <3>1. ~matches(u, 1, p.omit)
        BY <1>3 DEF matches
      <3>2. Rule(u, 1, p) # "omit"
        BY <3>1, UniformRules
      <3> QED
        BY <3>2, ContentTreatments DEF Treatment
    <2>3. u \in DOMAIN built
      BY <1>1, <2>2, BuiltItem
    <2>4. Given(built, u, 0, p) = Replaced /\ Given(value, u, 0, p) = Replaced
      BY <2>1, GivenReplaced
    <2> QED
      BY <1>1, <2>1, <2>3, <2>4 DEF StopsAlike
  <1> QED
    BY <1>4, <1>5

\* Third case: a rule is for the item.
LEMMA RuledAlike ==
    ASSUME NEW value, IsEvent(value), NEW p, Uniform(p), NEW u \in DOMAIN value,
           Reached(value, u, 1, p), Len(u) > 0, Treatment(value, u, 0, p) # "descend",
           ~classified_payload(value, Parent(u), 0, p),
           ~classified_payload(redact_value(value, 1, p), Parent(u), 0, p)
    PROVE  StopsAlike(value, p, u)
  <1>1. PICK built : built = redact_value(value, 1, p)
    OBVIOUS
  <1>2. u \in Seq(Steps) /\ Len(u) \in Nat /\ ~(Len(u) <= 0) /\ Parent(u) \in Seq(Steps)
    BY ParentAndStep DEF IsEvent, IsValue
  <1>3. ~classified_payload(value, Parent(u), 1, p)
    BY <1>2, ClassifiedMore
  <1>4. Last(u) \notin Indices
    BY <1>2 DEF Treatment
  <1>5. /\ Treatment(value, u, 0, p)
              = IF Rule(u, 0, p) = "content" THEN content(value[u], p) ELSE Rule(u, 0, p)
        /\ Treatment(built, u, 0, p)
              = IF Rule(u, 0, p) = "content" THEN content(built[u], p) ELSE Rule(u, 0, p)
    BY <1>1, <1>2, <1>4 DEF Treatment
  <1>6. ASSUME ~matches(u, 0, p.omit)
        PROVE  Treatment(value, u, 1, p) # "omit"
    <2>1. Rule(u, 1, p) # "omit"
      BY <1>2, <1>6, RulesMore, UniformRules
    <2> QED
      BY <1>3, <2>1, ContentTreatments DEF Treatment
  <1>7. CASE Rule(u, 0, p) = "omit"
    BY <1>1, <1>5, <1>7 DEF StopsAlike
  <1>8. CASE Rule(u, 0, p) = "replace"
    <2>1. Treatment(value, u, 0, p) = "replace" /\ Treatment(built, u, 0, p) = "replace"
      BY <1>5, <1>8
    <2>2. u \in DOMAIN built
      BY <1>1, <1>6, <1>8, UniformRules, BuiltItem
    <2>3. Given(built, u, 0, p) = Replaced /\ Given(value, u, 0, p) = Replaced
      BY <2>1, GivenReplaced
    <2> QED
      BY <1>1, <2>1, <2>2, <2>3 DEF StopsAlike
  <1>9. CASE Rule(u, 0, p) = "content"
    <2>1. Unmatched(u, 0, p) /\ Last(u) \in ContentKeys
      BY <1>9, UniformRules
    <2>2. ~(Len(u) <= 1)
      <3>1. Len(u) = 1 => Last(u) = u[1] /\ u # <<>>
        BY DEF Last
      <3>2. "data" \notin ContentKeys
        BY KeysAssumption DEF KeysAssumption
      <3>3. Len(u) # 1
        BY <2>1, <3>1, <3>2 DEF IsEvent
      <3>4. \A n \in Nat : ~(n <= 0) /\ n # 1 => ~(n <= 1)
        OBVIOUS
      <3> QED
        BY <1>2, <3>3, <3>4, Zenon
    <2>3. Rule(u, 1, p) = "content"
      BY <1>2, <2>1, RulesMore, UniformRules
    <2>4. Treatment(value, u, 1, p) = content(value[u], p)
      BY <1>3, <1>4, <2>2, <2>3 DEF Treatment
    <2>5. Treatment(value, u, 0, p) = content(value[u], p)
          /\ Treatment(built, u, 0, p) = content(built[u], p)
      BY <1>5, <1>9
    <2>6. CASE content(value[u], p) = "keep"
      <3>1. u \in DOMAIN built /\ built[u] = value[u]
        BY <1>1, <2>4, <2>6, BuiltNode
      <3>2. Treatment(built, u, 0, p) = "keep" /\ Treatment(value, u, 0, p) = "keep"
        BY <2>5, <2>6, <3>1
      <3>3. Given(built, u, 0, p) = built[u] /\ Given(value, u, 0, p) = value[u]
        BY <3>2, GivenReplaced
      <3> QED
        BY <1>1, <2>4, <2>6, <3>1, <3>2, <3>3 DEF StopsAlike
    <2>7. CASE content(value[u], p) = "excerpt"
      <3>1. u \in DOMAIN built /\ built[u] = Excerpt(Item(value, u))
        BY <1>1, <2>4, <2>7, BuiltItem, GivenReplaced
      <3>2. content(built[u], p) = "keep"
        <4>1. ~(p.mode = "full-content" /\ p.allow_full_content) /\ p.mode = "balanced"
          BY <2>7 DEF content
        <4> QED
          BY <3>1, <4>1, ReplacedIsShort DEF content
      <3>3. Treatment(built, u, 0, p) = "keep" /\ Treatment(value, u, 0, p) = "excerpt"
        BY <2>5, <2>7, <3>2
      <3>4. Given(built, u, 0, p) = built[u] /\ Given(value, u, 0, p) = Excerpt(Item(value, u))
        BY <3>3, GivenReplaced
      <3> QED
        BY <1>1, <3>1, <3>3, <3>4, ReplacedIsShort DEF StopsAlike
    <2>8. CASE content(value[u], p) = "replace"
      <3>1. u \in DOMAIN built /\ built[u] = Replaced
        BY <1>1, <2>4, <2>8, BuiltItem, GivenReplaced
      <3>2. content(built[u], p) = "replace"
        <4>1. ~(p.mode = "full-content" /\ p.allow_full_content) /\ p.mode # "balanced"
          BY <2>8 DEF content
        <4> QED
          BY <4>1 DEF content
      <3>3. Treatment(built, u, 0, p) = "replace" /\ Treatment(value, u, 0, p) = "replace"
        BY <2>5, <2>8, <3>2
      <3>4. Given(built, u, 0, p) = Replaced /\ Given(value, u, 0, p) = Replaced
        BY <3>3, GivenReplaced
      <3> QED
        BY <1>1, <3>1, <3>3, <3>4 DEF StopsAlike
    <2> QED
      BY <2>6, <2>7, <2>8, ContentTreatments
  <1> QED
    BY <1>5, <1>7, <1>8, <1>9, UniformRules

\* Where the export of the caller's data stops, so does the export of the event.
LEMMA AllStopAlike ==
    ASSUME NEW value, IsEvent(value), NEW p, Uniform(p), NEW u \in DOMAIN value,
           Reached(value, u, 0, p), Treatment(value, u, 0, p) # "descend"
    PROVE  StopsAlike(value, p, u)
  <1>1. PICK built : built = redact_value(value, 1, p)
    OBVIOUS
  <1>2. u \in Seq(Steps) /\ Len(u) \in Nat /\ IsValue(value)
    BY DEF IsEvent, IsValue
  <1>3. Len(u) > 0
    <2>1. ~(Len(u) <= 0)
      BY DEF Treatment
    <2> QED
      BY <1>2, <2>1
  <1>4. Reached(value, u, 1, p)
    BY <1>2, ReachedAlike
  <1>5. PICK dict : dict = Parent(u)
    OBVIOUS
  <1>6. dict \in Seq(Steps) /\ Reached(value, dict, 1, p)
        /\ Treatment(value, dict, 1, p) = "descend"
    BY <1>2, <1>3, <1>4, <1>5, ReachedParent
  <1>7. dict \in DOMAIN value
    <2>1. Len(u) - 1 \in 0..(Len(u) - 1)
      BY <1>2, <1>3
    <2> QED
      BY <1>2, <1>5, <2>1 DEF IsValue, Parent
  <1>8. CASE classified_payload(value, dict, 1, p) /\ Last(u) # "classification"
    BY <1>2, <1>3, <1>4, <1>5, <1>8, WithheldAlike
  <1>9. CASE ~(classified_payload(value, dict, 1, p) /\ Last(u) # "classification")
    <2>1. ~classified_payload(value, dict, 1, p) \/ Append(dict, "classification") \in DOMAIN value
      BY <1>2, <1>3, <1>5, <1>9, ParentAndStep
    <2>2. classified_payload(built, dict, 0, p) <=> classified_payload(value, dict, 0, p)
      BY <1>1, <1>6, <1>7, <2>1, SameClassification
    <2> QED
      BY <1>1, <1>2, <1>3, <1>4, <1>5, <2>2, ClassifiedAlike, RuledAlike
  <1> QED
    BY <1>8, <1>9

\* The recursion either descends all the way to a position or stops somewhere.
LEMMA FirstStop ==
    ASSUME NEW value, NEW base, NEW p, NEW q \in Seq(Steps)
    PROVE  \/ Reached(value, q, base, p) /\ Treatment(value, q, base, p) = "descend"
           \/ \E n \in 0..Len(q) : /\ Reached(value, Upto(q, n), base, p)
                                   /\ Treatment(value, Upto(q, n), base, p) # "descend"
  <1> DEFINE stops == {n \in 0..Len(q) : Treatment(value, Upto(q, n), base, p) # "descend"}
  <1>1. CASE stops = {}
    <2>1. \A n \in 0..Len(q) : Treatment(value, Upto(q, n), base, p) = "descend"
      BY <1>1
    <2>2. Len(q) \in 0..Len(q) /\ \A n \in 0..(Len(q) - 1) : n \in 0..Len(q)
      OBVIOUS
    <2>3. Upto(q, Len(q)) = q
      BY WholePrefix
    <2> QED
      BY <2>1, <2>2, <2>3 DEF Reached
  <1>2. CASE stops # {}
    <2>1. stops \subseteq Nat
      OBVIOUS
    <2>2. PICK n \in stops : \A m \in stops : n <= m
      <3> HIDE DEF stops
      <3> QED
        BY <1>2, <2>1, LeastNumber
    <2>3. n \in 0..Len(q) /\ Treatment(value, Upto(q, n), base, p) # "descend"
      BY <2>2
    <2>4. ASSUME NEW m \in 0..(n - 1)
          PROVE  m \in 0..n /\ Treatment(value, Upto(q, m), base, p) = "descend"
      <3>1. m \in 0..Len(q) /\ ~(n <= m)
        BY <2>3
      <3>2. m \notin stops
        BY <2>2, <3>1
      <3> QED
        BY <2>3, <3>1, <3>2
    <2>5. PICK u : u = Upto(q, n)
      OBVIOUS
    <2>6. Len(u) = n
      BY <2>3, <2>5, Prefixes
    <2>7. \A m \in 0..(n - 1) : Upto(u, m) = Upto(q, m)
      BY <2>3, <2>4, <2>5, PrefixOfPrefix
    <2>8. Reached(value, u, base, p)
      BY <2>4, <2>6, <2>7 DEF Reached
    <2> QED
      BY <2>3, <2>5, <2>8
  <1> QED
    BY <1>1, <1>2

\* What the filter gives where it stops, and below.
LEMMA AtStop ==
    ASSUME NEW value, NEW base, NEW p, NEW u \in DOMAIN value, u \in Seq(Steps),
           Reached(value, u, base, p)
    PROVE  /\ u \in Left(value, base, p) <=> Treatment(value, u, base, p) # "omit"
           /\ u \in Left(value, base, p) =>
                 redact_value(value, base, p)[u] = Given(value, u, base, p)
  <1>1. ~Copied(value, u, base, p)
    BY ReachedNotCopied
  <1> QED
    BY <1>1 DEF Left, redact_value

LEMMA BelowStop ==
    ASSUME NEW value, NEW base, NEW p, NEW q \in DOMAIN value, q \in Seq(Steps),
           NEW k \in 0..(Len(q) - 1), Reached(value, Upto(q, k), base, p),
           Treatment(value, Upto(q, k), base, p) # "descend"
    PROVE  /\ q \in Left(value, base, p) <=> Treatment(value, Upto(q, k), base, p) = "keep"
           /\ q \in Left(value, base, p) => redact_value(value, base, p)[q] = value[q]
  <1>1. ~Reached(value, q, base, p)
    BY DEF Reached
  <1>2. PICK u : u = Upto(q, k)
    OBVIOUS
  <1>3. k \in 0..Len(q) /\ Len(q) \in Nat
    OBVIOUS
  <1>4. ASSUME NEW n \in 0..(Len(q) - 1), Reached(value, Upto(q, n), base, p),
               Treatment(value, Upto(q, n), base, p) = "keep"
        PROVE  Treatment(value, u, base, p) = "keep"
    <2>1. PICK w : w = Upto(q, n)
      OBVIOUS
    <2>2. n \in 0..Len(q)
      BY <1>3
    <2>3. Len(u) = k /\ Len(w) = n /\ u \in Seq(Steps) /\ w \in Seq(Steps)
      BY <1>2, <1>3, <2>1, <2>2, Prefixes
    <2>4. CASE n = k
      BY <1>2, <1>4, <2>4
    <2>5. CASE n < k
      <3>1. n \in 0..k /\ n \in 0..(Len(u) - 1)
        BY <2>3, <2>5
      <3>2. Upto(u, n) = w
        BY <1>2, <1>3, <2>1, <3>1, PrefixOfPrefix
      <3>3. Treatment(value, w, base, p) = "descend"
        BY <1>2, <3>1, <3>2 DEF Reached
      <3> QED
        BY <1>4, <2>1, <3>3
    <2>6. CASE n > k
      <3>1. k \in 0..n /\ k \in 0..(Len(w) - 1)
        BY <2>3, <2>6
      <3>2. Upto(w, k) = u
        BY <1>2, <2>1, <2>2, <3>1, PrefixOfPrefix
      <3>3. Treatment(value, u, base, p) = "descend"
        BY <1>4, <2>1, <3>1, <3>2 DEF Reached
      <3> QED
        BY <1>2, <3>3
    <2> QED
      BY <2>4, <2>5, <2>6
  <1>5. Copied(value, q, base, p) <=> Treatment(value, u, base, p) = "keep"
    BY <1>2, <1>4 DEF Copied
  <1> QED
    BY <1>1, <1>2, <1>5 DEF Left, redact_value

\* What an export says of the caller's data it says of the event.
LEMMA TwiceIsOnce ==
    ASSUME NEW value, IsEvent(value), NEW p, Uniform(p)
    PROVE  redact_value(redact_value(value, 1, p), 0, p) = redact_value(value, 0, p)
  <1>1. PICK built : built = redact_value(value, 1, p)
    OBVIOUS
  <1>2. PICK once : once = redact_value(value, 0, p)
    OBVIOUS
  <1>3. PICK twice : twice = redact_value(built, 0, p)
    OBVIOUS
  <1>4. IsEvent(built) /\ IsValue(built) /\ IsValue(value)
    BY <1>1, RedactedIsEvent DEF IsEvent
  <1>5. /\ DOMAIN once = Left(value, 0, p) /\ DOMAIN twice = Left(built, 0, p)
        /\ DOMAIN once \subseteq DOMAIN value
        /\ DOMAIN twice \subseteq DOMAIN built /\ DOMAIN built \subseteq DOMAIN value
        /\ DOMAIN built = Left(value, 1, p)
    BY <1>1, <1>2, <1>3 DEF redact_value, Left
  <1>6. ASSUME NEW q \in DOMAIN value
        PROVE  /\ q \in DOMAIN twice <=> q \in DOMAIN once
               /\ q \in DOMAIN once => twice[q] = once[q]
    <2>1. q \in Seq(Steps) /\ Len(q) \in Nat
      BY <1>4 DEF IsValue
    <2>2. CASE Reached(value, q, 0, p) /\ Treatment(value, q, 0, p) = "descend"
      <3>1. Reached(value, q, 1, p) /\ Reached(built, q, 0, p)
        BY <1>1, <1>4, <2>2, ReachedAlike
      <3>2. Treatment(value, q, 1, p) = "descend" /\ Treatment(built, q, 0, p) = "descend"
        BY <1>1, <1>4, <2>1, <2>2, <3>1, StopsMore, DescendsToo
      <3>3. q \in DOMAIN built /\ built[q] = value[q]
        BY <1>1, <3>1, <3>2, BuiltNode
      <3>4. q \in DOMAIN twice /\ twice[q] = built[q]
        BY <1>3, <1>5, <2>1, <3>1, <3>2, <3>3, AtStop, GivenReplaced
      <3>5. q \in DOMAIN once /\ once[q] = value[q]
        BY <1>2, <1>5, <2>1, <2>2, AtStop, GivenReplaced
      <3> QED
        BY <3>3, <3>4, <3>5
    <2>3. ASSUME NEW k \in 0..Len(q), Reached(value, Upto(q, k), 0, p),
                 Treatment(value, Upto(q, k), 0, p) # "descend"
          PROVE  /\ q \in DOMAIN twice <=> q \in DOMAIN once
                 /\ q \in DOMAIN once => twice[q] = once[q]
      <3>1. PICK u : u = Upto(q, k)
        OBVIOUS
      <3>2. u \in DOMAIN value /\ u \in Seq(Steps)
        <4>1. CASE k = Len(q)
          BY <2>1, <3>1, <4>1, WholePrefix
        <4>2. CASE k # Len(q)
          <5>1. k \in 0..(Len(q) - 1)
            BY <2>1, <4>2
          <5> QED
            BY <1>4, <3>1, <5>1 DEF IsValue
        <4> QED
          BY <4>1, <4>2
      <3>3. Reached(built, u, 0, p)
        BY <1>1, <1>4, <2>3, <3>1, <3>2, ReachedAlike
      <3>4. StopsAlike(value, p, u)
        BY <2>3, <3>1, <3>2, AllStopAlike
      <3>5. CASE k = Len(q)
        <4>1. u = q
          BY <2>1, <3>1, <3>5, WholePrefix
        <4>2. /\ q \in DOMAIN once <=> Treatment(value, q, 0, p) # "omit"
              /\ q \in DOMAIN once => once[q] = Given(value, q, 0, p)
          BY <1>2, <1>5, <2>1, <2>3, <3>1, <4>1, AtStop
        <4>3. q \in DOMAIN built =>
                  /\ q \in DOMAIN twice <=> Treatment(built, q, 0, p) # "omit"
                  /\ q \in DOMAIN twice => twice[q] = Given(built, q, 0, p)
          BY <1>3, <1>5, <2>1, <3>3, <4>1, AtStop
        <4> QED
          BY <1>1, <1>5, <3>4, <4>1, <4>2, <4>3 DEF StopsAlike
      <3>6. CASE k # Len(q)
        <4>1. k \in 0..(Len(q) - 1)
          BY <2>1, <3>6
        <4>2. /\ q \in DOMAIN once <=> Treatment(value, u, 0, p) = "keep"
              /\ q \in DOMAIN once => once[q] = value[q]
          BY <1>2, <1>5, <2>1, <2>3, <3>1, <4>1, BelowStop
        <4>3. q \in DOMAIN built /\ Treatment(built, u, 0, p) # "descend" =>
                  /\ q \in DOMAIN twice <=> Treatment(built, u, 0, p) = "keep"
                  /\ q \in DOMAIN twice => twice[q] = built[q]
          BY <1>3, <1>5, <2>1, <3>1, <3>3, <4>1, BelowStop
        <4>4. CASE Treatment(value, u, 0, p) = "keep"
          <5>1. IsBranch(value[u])
            BY <1>4, <3>1, <4>1 DEF IsValue
          <5>2. Treatment(value, u, 1, p) = "keep" /\ Treatment(built, u, 0, p) = "keep"
            BY <1>1, <3>4, <4>4, <5>1 DEF StopsAlike
          <5>3. Reached(value, u, 1, p)
            BY <1>4, <2>3, <3>1, <3>2, ReachedAlike
          <5>4. q \in DOMAIN built /\ built[q] = value[q]
            <6>1. 1 \in Nat /\ Treatment(value, u, 1, p) # "descend"
              BY <5>2
            <6>2. q \in Left(value, 1, p) /\ redact_value(value, 1, p)[q] = value[q]
              BY <2>1, <3>1, <4>1, <5>2, <5>3, <6>1, BelowStop
            <6> QED
              BY <1>1, <1>5, <6>2
          <5> QED
            BY <4>2, <4>3, <4>4, <5>2, <5>4
        <4>5. CASE Treatment(value, u, 0, p) # "keep"
          <5>1. q \notin DOMAIN once
            BY <4>2, <4>5
          <5>2. q \in DOMAIN built => u \in DOMAIN built /\ IsBranch(built[u])
            BY <1>4, <3>1, <4>1 DEF IsValue
          <5>3. q \in DOMAIN built =>
                    Treatment(built, u, 0, p) # "keep" /\ Treatment(built, u, 0, p) # "descend"
            BY <1>1, <3>4, <4>5, <5>2 DEF StopsAlike
          <5> QED
            BY <1>5, <4>3, <5>1, <5>3
        <4> QED
          BY <4>4, <4>5
      <3> QED
        BY <3>5, <3>6
    <2> QED
      BY <2>1, <2>2, <2>3, FirstStop
  <1>7. DOMAIN twice = DOMAIN once
    BY <1>5, <1>6
  <1>8. \A q \in DOMAIN once : twice[q] = once[q]
    BY <1>5, <1>6
  <1>9. twice = [q \in DOMAIN twice |-> twice[q]] /\ once = [q \in DOMAIN once |-> once[q]]
    BY <1>2, <1>3 DEF redact_value
  <1>10. twice = once
    BY <1>7, <1>8, <1>9
  <1> QED
    BY <1>1, <1>2, <1>3, <1>10

\* Data that storing does not change is not changed when it has been filtered.
LEMMA StoredAlike ==
    ASSUME NEW value, IsEvent(value), value = reloaded(value), NEW p, Uniform(p)
    PROVE  reloaded(redact_value(value, 1, p)) = redact_value(value, 1, p)
  <1>1. PICK built : built = redact_value(value, 1, p)
    OBVIOUS
  <1>2. \A q \in DOMAIN value : dump_node(value[q]) = value[q]
    BY DEF reloaded
  <1>3. ASSUME NEW q \in DOMAIN built
        PROVE  dump_node(built[q]) = built[q]
    <2>1. q \in DOMAIN value
          /\ built[q] = IF Reached(value, q, 1, p) THEN Given(value, q, 1, p) ELSE value[q]
      BY <1>1, <1>3 DEF redact_value, Left
    <2>2. PICK item : item = Item(value, q)
      OBVIOUS
    <2>3. \/ built[q] = value[q] \/ built[q] = Replaced
          \/ built[q] = HashOf(item) \/ built[q] = MaskOf(item) \/ built[q] = Excerpt(item)
      BY <2>1, <2>2 DEF Given
    <2>4. \A form : dump_node(Text(form)) = Text(form)
      BY DEF dump_node, Text
    <2> QED
      BY <1>2, <2>1, <2>3, <2>4 DEF Replaced, HashOf, MaskOf, Excerpt
  <1>4. built = [q \in DOMAIN built |-> built[q]]
    BY <1>1 DEF redact_value
  <1>5. reloaded(built) = built
    BY <1>3, <1>4 DEF reloaded
  <1> QED
    BY <1>1, <1>5

\* An export of an event says what an export of its unfiltered data says.
THEOREM Agreement == Spec => []ExportAgrees
  <1>1. PipelineInv => ExportAgrees
    <2> SUFFICES ASSUME PipelineInv, exported # None, data = reloaded(data),
                        profile.hash = {}, profile.mask = {},
                        profile.redact_classified_payloads => profile.omit = {},
                        \A p \in Patterns(profile) :
                            /\ p.kind # "path"
                            /\ p.name \notin {"classification", "highest_classification"}
                 PROVE  exported = ExportOf(data)
      BY DEF ExportAgrees
    <2>1. Uniform(profile) /\ IsEvent(data)
      BY PayloadsAssumption DEF PayloadsAssumption, PipelineInv, Uniform
    <2>2. event = reloaded(Built) /\ exported = redact_value(event, 0, profile)
      BY DEF PipelineInv, ExportOf
    <2>3. event = redact_value(data, 1, profile)
      BY <2>1, <2>2, StoredAlike DEF Built
    <2>4. exported = redact_value(data, 0, profile)
      BY <2>1, <2>2, <2>3, TwiceIsOnce
    <2> QED
      BY <2>4 DEF ExportOf
  <1> QED
    BY <1>1, PipelineInvAlways, PTL
=============================================================================
