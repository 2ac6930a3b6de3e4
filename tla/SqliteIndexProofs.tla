------------------------- MODULE SqliteIndexProofs -------------------------
(***************************************************************************)
(* Proofs about SqliteIndex, for every set of processes and events and     *)
(* every number of calls, rotations and crashes: what the table may hold,  *)
(* why a row may be missing, what a rebuild repairs, and that a query      *)
(* gives what filter_events gives.                                         *)
(***************************************************************************)
EXTENDS SqliteIndex, TLAPS, SequenceTheorems, FiniteSetTheorems

-----------------------------------------------------------------------------
(* Type correctness *)

\* The work of a process and the events of the log have been stored: without
\* this the rows need not be those of stored events.
StoredInv ==
    /\ Range(log) \subseteq stored
    /\ \A p \in Procs : Range(todo[p]) \subseteq stored

\* A sequence is its head and its tail.
LEMMA HeadAndTail ==
    ASSUME NEW S, NEW s \in Seq(S), s # <<>>
    PROVE  /\ Len(s) \in Nat /\ Len(s) > 0 /\ DOMAIN s = 1..Len(s)
           /\ Head(s) = s[1] /\ Head(s) \in S
           /\ Tail(s) \in Seq(S)
           /\ Len(Tail(s)) = Len(s) - 1 /\ DOMAIN Tail(s) = 1..(Len(s) - 1)
           /\ \A i \in 1..(Len(s) - 1) : Tail(s)[i] = s[i + 1]
           /\ Range(s) = {Head(s)} \cup Range(Tail(s))
  <1>1. Len(s) \in Nat /\ Len(s) > 0 /\ DOMAIN s = 1..Len(s)
    BY EmptySeq, LenProperties
  <1>2. /\ Head(s) = s[1] /\ Head(s) \in S
        /\ Tail(s) \in Seq(S) /\ Len(Tail(s)) = Len(s) - 1
        /\ \A i \in 1..Len(Tail(s)) : Tail(s)[i] = s[i + 1]
    BY HeadTailProperties
  <1>3. DOMAIN Tail(s) = 1..(Len(s) - 1)
    BY <1>2, LenProperties
  <1>4. Range(s) \subseteq {Head(s)} \cup Range(Tail(s))
    <2> SUFFICES ASSUME NEW i \in 1..Len(s)
                 PROVE  s[i] \in {Head(s)} \cup Range(Tail(s))
      BY <1>1 DEF Range
    <2>1. CASE i = 1
      BY <1>2, <2>1
    <2>2. CASE i # 1
      <3>1. i - 1 \in 1..(Len(s) - 1) /\ (i - 1) + 1 = i
        BY <1>1, <2>2
      <3>2. Tail(s)[i - 1] = s[i]
        BY <1>2, <3>1
      <3> QED
        BY <1>3, <3>1, <3>2 DEF Range
    <2> QED
      BY <2>1, <2>2
  <1>5. {Head(s)} \cup Range(Tail(s)) \subseteq Range(s)
    <2>1. \A i \in 1..(Len(s) - 1) : i + 1 \in 1..Len(s) /\ Tail(s)[i] = s[i + 1]
      BY <1>1, <1>2
    <2> QED
      BY <1>1, <1>2, <1>3, <2>1 DEF Range
  <1> QED
    BY <1>1, <1>2, <1>3, <1>4, <1>5

\* Appending adds one element.
LEMMA AppendRange ==
    ASSUME NEW S, NEW s \in Seq(S), NEW e \in S
    PROVE  Append(s, e) \in Seq(S) /\ Range(Append(s, e)) = Range(s) \cup {e}
  <1> DEFINE t == Append(s, e)
  <1>1. Len(s) \in Nat /\ DOMAIN s = 1..Len(s)
    BY LenProperties
  <1>2. /\ t \in Seq(S) /\ Len(t) = Len(s) + 1
        /\ \A i \in 1..Len(s) : t[i] = s[i]
        /\ t[Len(s) + 1] = e
    BY AppendProperties
  <1>3. DOMAIN t = 1..(Len(s) + 1)
    BY <1>2, LenProperties
  <1> HIDE DEF t
  <1>4. Range(t) = Range(s) \cup {e}
    BY <1>1, <1>2, <1>3 DEF Range
  <1> QED
    BY <1>2, <1>4 DEF t

\* INSERT OR REPLACE leaves one row for an event_id.
LEMMA ReplaceKeepsKeys ==
    ASSUME NEW e, \A r, q \in rows : r.event_id = q.event_id => r = q
    PROVE  \A r, q \in replace(e) : r.event_id = q.event_id => r = q
  BY DEF replace

\* A call is counted.
LEMMA CountCall ==
    ASSUME TypeOK, NEW p \in Procs, Begin(p)
    PROVE  calls' \in [Procs -> 0..MaxCalls] /\ UNCHANGED <<rows, dropped>>
  <1>1. calls[p] + 1 \in 0..MaxCalls
    <2>0. calls \in [Procs -> 0..MaxCalls] /\ calls[p] < MaxCalls
      BY DEF TypeOK, Begin
    <2>1. calls[p] \in 0..MaxCalls /\ calls[p] < MaxCalls
      BY <2>0
    <2>2. MaxCalls \in Nat
      BY ConstantsAssumption DEF ConstantsAssumption
    <2> QED
      BY <2>1, <2>2
  <1> QED
    BY <1>1 DEF TypeOK, Begin

\* The types are kept.
LEMMA TypingStep == TypeOK /\ StoredInv /\ [Next]_vars => (TypeOK /\ StoredInv)'
  <1> SUFFICES ASSUME TypeOK, StoredInv, [Next]_vars
               PROVE  (TypeOK /\ StoredInv)'
    OBVIOUS
  <1> DEFINE Places == {"idle", "deleting", "indexing"}
             OneRow == \A r, q \in rows : r.event_id = q.event_id => r = q
  <1>a. pc \in [Procs -> Places] /\ todo \in [Procs -> Seq(Events)]
    BY DEF TypeOK
  <1>b. log \in Seq(Events) /\ disturbed \subseteq Rebuilders /\ calls \in [Procs -> 0..MaxCalls]
    BY DEF TypeOK
  <1>c. rows \subseteq stored /\ dropped \subseteq stored /\ stored \subseteq Events
    BY DEF TypeOK
  <1>d. OneRow
    BY DEF TypeOK
  <1>e. Range(log) \subseteq stored /\ \A p \in Procs : Range(todo[p]) \subseteq stored
    BY DEF StoredInv
  <1>f. Rebuilders \subseteq Procs /\ Range(<<>>) = {}
    BY DEF Procs, Range
  <1>g. ASSUME pc' \in [Procs -> Places], todo' \in [Procs -> Seq(Events)],
               log' \in Seq(Events), disturbed' \subseteq Rebuilders,
               calls' \in [Procs -> 0..MaxCalls], OneRow',
               rows' \subseteq stored', dropped' \subseteq stored', stored' \subseteq Events,
               Range(log') \subseteq stored', \A p \in Procs : Range(todo'[p]) \subseteq stored'
        PROVE  (TypeOK /\ StoredInv)'
    BY <1>g DEF TypeOK, StoredInv
  <1>1. ASSUME NEW p \in Procs, StoreEvent(p)
        PROVE  (TypeOK /\ StoredInv)'
    <2>1. PICK e \in Events : /\ log' = Append(log, e)
                              /\ stored' = stored \cup {e}
                              /\ todo' = [todo EXCEPT ![p] = <<e>>]
      BY <1>1 DEF StoreEvent
    <2>2. Begin(p) /\ pc' = [pc EXCEPT ![p] = "indexing"]
          /\ disturbed' = disturbed \cup (Rebuilders \ {p})
      BY <1>1 DEF StoreEvent, Goto, Disturb
    <2>3. calls' \in [Procs -> 0..MaxCalls] /\ rows' = rows /\ dropped' = dropped
      BY <2>2, CountCall
    <2>4. log' \in Seq(Events) /\ Range(log') = Range(log) \cup {e}
      BY <1>b, <2>1, AppendRange
    <2>5. <<e>> \in Seq(Events) /\ Range(<<e>>) = {e}
      BY DEF Range
    <2>6. pc' \in [Procs -> Places]
      BY <1>a, <2>2
    <2>7. todo' \in [Procs -> Seq(Events)]
      BY <1>a, <2>1, <2>5
    <2>8. disturbed' \subseteq Rebuilders
      BY <1>b, <2>2
    <2>9. stored' \subseteq Events /\ rows' \subseteq stored' /\ dropped' \subseteq stored'
      BY <1>c, <2>1, <2>3
    <2>10. OneRow'
      BY <1>d, <2>3
    <2>11. Range(log') \subseteq stored'
      BY <1>e, <2>1, <2>4
    <2>12. ASSUME NEW q \in Procs
           PROVE  Range(todo'[q]) \subseteq stored'
      <3>1. todo'[q] = (IF q = p THEN <<e>> ELSE todo[q])
        BY <1>a, <2>1
      <3> QED
        BY <1>e, <2>1, <2>5, <3>1
    <2> QED
      BY <1>g, <2>3, <2>4, <2>6, <2>7, <2>8, <2>9, <2>10, <2>11, <2>12
  <1>2. ASSUME NEW p \in Procs, ReadLog(p)
        PROVE  (TypeOK /\ StoredInv)'
    <2>1. Begin(p) /\ pc' = [pc EXCEPT ![p] = "deleting"] /\ disturbed' = disturbed \ {p}
          /\ todo' = [todo EXCEPT ![p] = log] /\ log' = log /\ stored' = stored
      BY <1>2 DEF ReadLog, Goto
    <2>2. calls' \in [Procs -> 0..MaxCalls] /\ rows' = rows /\ dropped' = dropped
      BY <2>1, CountCall
    <2>3. pc' \in [Procs -> Places]
      BY <1>a, <2>1
    <2>4. todo' \in [Procs -> Seq(Events)]
      BY <1>a, <1>b, <2>1
    <2>5. log' \in Seq(Events) /\ disturbed' \subseteq Rebuilders
      BY <1>b, <2>1
    <2>6. /\ stored' \subseteq Events /\ rows' \subseteq stored' /\ dropped' \subseteq stored'
          /\ Range(log') \subseteq stored'
      BY <1>c, <1>e, <2>1, <2>2
    <2>7. OneRow'
      BY <1>d, <2>2
    <2>8. ASSUME NEW q \in Procs
          PROVE  Range(todo'[q]) \subseteq stored'
      <3>1. todo'[q] = (IF q = p THEN log ELSE todo[q])
        BY <1>a, <2>1
      <3> QED
        BY <1>e, <2>1, <3>1
    <2> QED
      BY <1>g, <2>2, <2>3, <2>4, <2>5, <2>6, <2>7, <2>8
  <1>3. ASSUME NEW p \in Procs, DeleteRows(p)
        PROVE  (TypeOK /\ StoredInv)'
    <2>1. /\ rows' = {} /\ dropped' = (dropped \cup stored) \ Range(todo[p])
          /\ pc' = [pc EXCEPT ![p] = "indexing"]
          /\ disturbed' = disturbed \cup (Rebuilders \ {p})
          /\ log' = log /\ todo' = todo /\ stored' = stored /\ calls' = calls
      BY <1>3 DEF DeleteRows, deleted, Goto, Disturb
    <2>2. pc' \in [Procs -> Places] /\ todo' \in [Procs -> Seq(Events)]
      BY <1>a, <2>1
    <2>3. log' \in Seq(Events) /\ disturbed' \subseteq Rebuilders /\ calls' \in [Procs -> 0..MaxCalls]
      BY <1>b, <2>1
    <2>4. OneRow' /\ rows' \subseteq stored' /\ dropped' \subseteq stored' /\ stored' \subseteq Events
      BY <1>c, <2>1
    <2>5. Range(log') \subseteq stored' /\ \A q \in Procs : Range(todo'[q]) \subseteq stored'
      BY <1>e, <2>1
    <2> QED
      BY <1>g, <2>2, <2>3, <2>4, <2>5
  <1>4. ASSUME NEW p \in Procs, append(p)
        PROVE  (TypeOK /\ StoredInv)'
    <2>0. PICK e : e = Head(todo[p])
      OBVIOUS
    <2>1. /\ rows' = replace(e) /\ todo' = [todo EXCEPT ![p] = Tail(todo[p])]
          /\ dropped' = dropped \ {e} /\ todo[p] # <<>>
          /\ log' = log /\ pc' = pc /\ stored' = stored /\ calls' = calls
          /\ disturbed' = disturbed \cup (Rebuilders \ {p})
      BY <1>4, <2>0 DEF append, Disturb
    <2>2. todo[p] \in Seq(Events)
      BY <1>a
    <2>3. /\ e \in Events /\ Tail(todo[p]) \in Seq(Events)
          /\ Range(todo[p]) = {e} \cup Range(Tail(todo[p]))
      BY <2>0, <2>1, <2>2, HeadAndTail
    <2>4. e \in stored /\ Range(Tail(todo[p])) \subseteq stored
      BY <1>e, <2>3
    <2>5. rows' \subseteq stored' /\ dropped' \subseteq stored' /\ stored' \subseteq Events
      BY <1>c, <2>1, <2>4 DEF replace
    <2>6. OneRow'
      BY <1>d, <2>1, ReplaceKeepsKeys
    <2>7. pc' \in [Procs -> Places] /\ todo' \in [Procs -> Seq(Events)]
      BY <1>a, <2>1, <2>3
    <2>8. log' \in Seq(Events) /\ disturbed' \subseteq Rebuilders /\ calls' \in [Procs -> 0..MaxCalls]
      BY <1>b, <2>1
    <2>9. Range(log') \subseteq stored'
      BY <1>e, <2>1
    <2>10. ASSUME NEW q \in Procs
           PROVE  Range(todo'[q]) \subseteq stored'
      <3>1. todo'[q] = (IF q = p THEN Tail(todo[p]) ELSE todo[q])
        BY <1>a, <2>1
      <3> QED
        BY <1>e, <2>1, <2>4, <3>1
    <2> QED
      BY <1>g, <2>5, <2>6, <2>7, <2>8, <2>9, <2>10
  <1>h. ASSUME pc' \in [Procs -> Places], UNCHANGED <<rows, todo, stored, calls>>,
               log' \in {log, <<>>}, disturbed' \subseteq Rebuilders, dropped' \subseteq stored
        PROVE  (TypeOK /\ StoredInv)'
    <2>1. log' \in Seq(Events) /\ calls' \in [Procs -> 0..MaxCalls]
      <3>1. <<>> \in Seq(Events)
        OBVIOUS
      <3> QED
        BY <1>b, <1>h, <3>1
    <2>2. todo' \in [Procs -> Seq(Events)] /\ OneRow'
      BY <1>a, <1>d, <1>h
    <2>3. rows' \subseteq stored' /\ dropped' \subseteq stored' /\ stored' \subseteq Events
      BY <1>c, <1>h
    <2>4. Range(log') \subseteq stored' /\ \A q \in Procs : Range(todo'[q]) \subseteq stored'
      BY <1>e, <1>f, <1>h
    <2> QED
      BY <1>g, <1>h, <2>1, <2>2, <2>3, <2>4
  <1>5. ASSUME NEW p \in Procs, Return(p)
        PROVE  (TypeOK /\ StoredInv)'
    <2>1. pc' = [pc EXCEPT ![p] = "idle"]
          /\ UNCHANGED <<log, rows, todo, disturbed, stored, dropped, calls>>
      BY <1>5 DEF Return, Goto
    <2>2. pc' \in [Procs -> Places]
      BY <1>a, <2>1
    <2> QED
      BY <1>b, <1>c, <1>h, <2>1, <2>2
  <1>6. ASSUME RotateLog
        PROVE  (TypeOK /\ StoredInv)'
    <2>1. log' = <<>> /\ disturbed' = Rebuilders
          /\ UNCHANGED <<rows, pc, todo, stored, dropped, calls>>
      BY <1>6 DEF RotateLog
    <2> QED
      BY <1>a, <1>c, <1>h, <2>1
  <1>7. ASSUME NEW p \in Procs, Crash(p)
        PROVE  (TypeOK /\ StoredInv)'
    <2>1. /\ pc' = [pc EXCEPT ![p] = "idle"]
          /\ dropped' \subseteq dropped \cup Range(todo[p])
          /\ UNCHANGED <<log, rows, todo, disturbed, stored, calls>>
      BY <1>7 DEF Crash, Goto
    <2>2. pc' \in [Procs -> Places]
      BY <1>a, <2>1
    <2>3. dropped' \subseteq stored
      BY <1>c, <1>e, <2>1
    <2> QED
      BY <1>b, <1>h, <2>1, <2>2, <2>3
  <1>8. CASE UNCHANGED vars
    <2>1. UNCHANGED <<log, rows, todo, disturbed, stored, dropped, calls, pc>>
      BY <1>8 DEF vars
    <2> QED
      BY <1>a, <1>b, <1>c, <1>h, <2>1
  <1> QED
    BY <1>1, <1>2, <1>3, <1>4, <1>5, <1>6, <1>7, <1>8 DEF Next

LEMMA TypingAlways == Spec => [](TypeOK /\ StoredInv)
  <1>1. Init => TypeOK /\ StoredInv
    <2>1. MaxCalls \in Nat
      BY ConstantsAssumption DEF ConstantsAssumption
    <2>2. Range(<<>>) = {} /\ <<>> \in Seq(Events) /\ 0 \in 0..MaxCalls
      BY <2>1 DEF Range
    <2> QED
      BY <2>2 DEF Init, TypeOK, StoredInv
  <1> QED
    BY <1>1, TypingStep, PTL DEF Spec

\* The table has one row for an event_id and none of an event that was never
\* stored, whatever rebuilds, recorders, rotations and crashes overlap.
THEOREM Typing == Spec => []TypeOK
  BY TypingAlways, PTL

-----------------------------------------------------------------------------
(* Rows that are missing *)

\* An event loses its row only to a rebuild that goes on to index it or is
\* recorded as having dropped it, and leaves the work of a process only by
\* being indexed or by being dropped.
LEMMA MissingStep ==
    ASSUME TypeOK, StoredInv, MissingOnlyIfDropped, [Next]_vars
    PROVE  MissingOnlyIfDropped'
  <1> USE DEF Goto, Disturb
  <1> DEFINE Indexed(e) == \E r \in rows : r.event_id = e.event_id
  <1>1. ASSUME NEW p \in Procs, StoreEvent(p)
        PROVE  MissingOnlyIfDropped'
    <2>1. PICK e \in Events : /\ stored' = stored \cup {e}
                              /\ todo' = [todo EXCEPT ![p] = <<e>>]
      BY <1>1 DEF StoreEvent
    <2>2. /\ pc[p] = "idle" /\ pc' = [pc EXCEPT ![p] = "indexing"]
          /\ UNCHANGED <<rows, dropped>>
      BY <1>1 DEF StoreEvent, Begin
    <2>3. Pending(e)'
      <3>1. pc'[p] = "indexing" /\ todo'[p] = <<e>>
        BY <2>1, <2>2 DEF TypeOK
      <3>2. e \in Range(<<e>>)
        BY DEF Range
      <3> QED
        BY <3>1, <3>2 DEF Pending
    <2>4. ASSUME NEW d \in stored, Pending(d)
          PROVE  Pending(d)'
      <3>1. PICK q \in Procs : pc[q] = "indexing" /\ d \in Range(todo[q])
        BY <2>4 DEF Pending
      <3>2. pc'[q] = "indexing" /\ todo'[q] = todo[q]
        BY <2>1, <2>2, <3>1 DEF TypeOK
      <3> QED
        BY <3>1, <3>2 DEF Pending
    <2> QED
      BY <2>1, <2>2, <2>3, <2>4 DEF MissingOnlyIfDropped
  <1>2. ASSUME NEW p \in Procs, ReadLog(p)
        PROVE  MissingOnlyIfDropped'
    <2>1. /\ pc[p] = "idle" /\ UNCHANGED <<rows, dropped, stored>>
          /\ \A q \in Procs \ {p} : pc'[q] = pc[q] /\ todo'[q] = todo[q]
      BY <1>2 DEF ReadLog, Begin, TypeOK
    <2>2. \A d : Pending(d) => Pending(d)'
      BY <2>1 DEF Pending
    <2> QED
      BY <2>1, <2>2 DEF MissingOnlyIfDropped
  <1>3. ASSUME NEW p \in Procs, DeleteRows(p)
        PROVE  MissingOnlyIfDropped'
    <2>1. /\ dropped' = (dropped \cup stored) \ Range(todo[p])
          /\ pc'[p] = "indexing" /\ todo' = todo /\ stored' = stored
      BY <1>3 DEF DeleteRows, TypeOK
    <2>2. \A d \in Range(todo[p]) : Pending(d)'
      BY <2>1 DEF Pending
    <2> QED
      BY <2>1, <2>2 DEF MissingOnlyIfDropped
  <1>4. ASSUME NEW p \in Procs, append(p)
        PROVE  MissingOnlyIfDropped'
    <2>1. PICK e : e = Head(todo[p])
      OBVIOUS
    <2>2. Range(todo[p]) = {e} \cup Range(Tail(todo[p]))
      BY <1>4, <2>1, HeadAndTail DEF append, TypeOK
    <2>3. /\ rows' = replace(e) /\ dropped' = dropped \ {e}
          /\ todo'[p] = Tail(todo[p])
          /\ \A q \in Procs \ {p} : todo'[q] = todo[q]
          /\ UNCHANGED <<pc, stored>>
      BY <1>4, <2>1 DEF append, TypeOK
    <2>4. ASSUME NEW d \in stored
          PROVE  Indexed(d)' \/ Pending(d)' \/ d \in dropped'
      <3>1. CASE d.event_id = e.event_id
        BY <2>3, <3>1 DEF replace
      <3>2. CASE d.event_id # e.event_id
        <4>1. Indexed(d) => Indexed(d)'
          BY <2>3, <3>2 DEF replace
        <4>2. Pending(d) => Pending(d)'
          BY <2>2, <2>3, <3>2 DEF Pending
        <4> QED
          BY <2>3, <3>2, <4>1, <4>2 DEF MissingOnlyIfDropped
      <3> QED
        BY <3>1, <3>2
    <2> QED
      BY <2>3, <2>4 DEF MissingOnlyIfDropped
  <1>5. ASSUME NEW p \in Procs, Return(p)
        PROVE  MissingOnlyIfDropped'
    <2>1. Range(todo[p]) = {}
      BY <1>5 DEF Return, Range
    <2>2. \A d : Pending(d) => Pending(d)'
      BY <1>5, <2>1 DEF Return, Pending, TypeOK
    <2> QED
      BY <1>5, <2>2 DEF Return, MissingOnlyIfDropped
  <1>6. ASSUME RotateLog
        PROVE  MissingOnlyIfDropped'
    BY <1>6 DEF RotateLog, MissingOnlyIfDropped, Pending
  <1>7. ASSUME NEW p \in Procs, Crash(p)
        PROVE  MissingOnlyIfDropped'
    <2>1. /\ dropped' = IF pc[p] = "indexing" THEN dropped \cup Range(todo[p]) ELSE dropped
          /\ \A q \in Procs \ {p} : pc'[q] = pc[q]
          /\ UNCHANGED <<rows, todo, stored>>
      BY <1>7 DEF Crash, TypeOK
    <2>2. \A d : Pending(d) => Pending(d)' \/ d \in dropped'
      BY <2>1 DEF Pending
    <2> QED
      BY <2>1, <2>2 DEF MissingOnlyIfDropped
  <1>8. CASE UNCHANGED vars
    BY <1>8 DEF vars, MissingOnlyIfDropped, Pending
  <1> QED
    BY <1>1, <1>2, <1>3, <1>4, <1>5, <1>6, <1>7, <1>8 DEF Next

\* The table lacks the row of a stored event only if somebody is about to
\* index it, or a rebuild or a call cut short left it out.
THEOREM MissingRows == Spec => []MissingOnlyIfDropped
  <1>1. Init => MissingOnlyIfDropped
    BY DEF Init, MissingOnlyIfDropped
  <1>2. TypeOK /\ StoredInv /\ MissingOnlyIfDropped /\ [Next]_vars => MissingOnlyIfDropped'
    BY MissingStep
  <1> QED
    BY <1>1, <1>2, TypingAlways, PTL DEF Spec

-----------------------------------------------------------------------------
(* What a rebuild does *)

\* What the index of the first k of `events` should hold.
LatestOf(events, k) ==
    {events[i] : i \in {j \in 1..k :
        \A m \in 1..k : m > j => events[m].event_id # events[j].event_id}}

\* A rebuild has the log, and then the index of what it has gone through and
\* the rest of the log still to do.
Rebuilding(p) ==
    /\ pc[p] = "deleting" => todo[p] = log
    /\ pc[p] = "indexing" =>
          \E k \in 0..Len(log) :
              /\ Len(todo[p]) = Len(log) - k
              /\ \A i \in DOMAIN todo[p] : todo[p][i] = log[k + i]
              /\ rows = LatestOf(log, k)

\* RebuildRepairs speaks of the end of a rebuild; this holds all along.
RebuildInv == \A p \in Rebuilders : p \notin disturbed => Rebuilding(p)

\* One event more replaces the row with its event_id.
LEMMA LatestStep ==
    ASSUME NEW events, NEW k \in Nat
    PROVE  LatestOf(events, k + 1) =
               {r \in LatestOf(events, k) : r.event_id # events[k + 1].event_id}
                   \cup {events[k + 1]}
  <1> DEFINE Final(n) == {j \in 1..n :
                 \A m \in 1..n : m > j => events[m].event_id # events[j].event_id}
             new == events[k + 1].event_id
  <1>1. k + 1 \in 1..(k + 1) /\ 1..(k + 1) = 1..k \cup {k + 1}
        /\ \A j \in 1..k : k + 1 > j
        /\ \A m \in 1..(k + 1) : ~ m > k + 1
    OBVIOUS
  <1>2. Final(k + 1) = {j \in Final(k) : events[j].event_id # new} \cup {k + 1}
    <2>1. ASSUME NEW j \in 1..k
          PROVE  j \in Final(k + 1) <=> j \in Final(k) /\ new # events[j].event_id
      BY <1>1
    <2>2. k + 1 \in Final(k + 1)
      BY <1>1
    <2> QED
      BY <1>1, <2>1, <2>2
  <1>3. \A n : LatestOf(events, n) = {events[i] : i \in Final(n)}
    BY DEF LatestOf
  <1> HIDE DEF Final
  <1> QED
    BY <1>2, <1>3

\* The index of the whole log.
LEMMA LatestOfAll ==
    ASSUME NEW S, NEW events \in Seq(S)
    PROVE  LatestOf(events, Len(events)) = IndexOf(events)
  <1>1. DOMAIN events = 1..Len(events)
    BY LenProperties
  <1> QED
    BY <1>1 DEF LatestOf, IndexOf

\* What a rebuild knows survives the steps that change neither the log nor
\* the table.
LEMMA RebuildQuiet ==
    ASSUME NEW p \in Rebuilders, Rebuilding(p), UNCHANGED <<log, rows>>,
           pc'[p] \in {pc[p], "idle"}, todo'[p] = todo[p]
    PROVE  Rebuilding(p)'
  <1>1. CASE pc'[p] = "idle"
    <2>1. pc'[p] # "deleting" /\ pc'[p] # "indexing"
      BY <1>1
    <2> QED
      BY <2>1 DEF Rebuilding
  <1>2. CASE pc'[p] = pc[p]
    BY <1>2 DEF Rebuilding, LatestOf
  <1> QED
    BY <1>1, <1>2

\* A rebuild starts from the log as it is, and its own steps are the only ones
\* to change the table while nobody disturbs it.
LEMMA RebuildStep ==
    ASSUME TypeOK, RebuildInv, [Next]_vars
    PROVE  RebuildInv'
  <1> USE DEF Goto, Disturb
  <1> SUFFICES ASSUME NEW b \in Rebuilders, b \notin disturbed'
               PROVE  Rebuilding(b)'
    BY DEF RebuildInv
  <1>a. Recorders \cap Rebuilders = {}
    BY ConstantsAssumption DEF ConstantsAssumption
  <1>b. b \in Procs /\ b \notin Recorders
    BY <1>a DEF Procs
  <1>0. b \in Procs /\ b \notin Recorders /\ log \in Seq(Events) /\ todo[b] \in Seq(Events)
    BY <1>b DEF TypeOK
  <1>1. ASSUME NEW p \in Procs, StoreEvent(p)
        PROVE  FALSE
    <2>1. p \in Recorders /\ disturbed' = disturbed \cup (Rebuilders \ {p})
      BY <1>1 DEF StoreEvent
    <2> QED
      BY <1>0, <2>1
  <1>2. ASSUME NEW p \in Procs, ReadLog(p)
        PROVE  Rebuilding(b)'
    <2>1. CASE p = b
      <3>1. pc'[b] = "deleting" /\ todo'[b] = log /\ log' = log
        BY <1>0, <1>2, <2>1 DEF ReadLog, TypeOK
      <3> QED
        BY <3>1 DEF Rebuilding
    <2>2. CASE p # b
      <3>1. b \notin disturbed /\ UNCHANGED <<log, rows>>
            /\ pc'[b] = pc[b] /\ todo'[b] = todo[b]
        BY <1>0, <1>2, <2>2 DEF ReadLog, Begin, TypeOK
      <3> QED
        BY <3>1, RebuildQuiet DEF RebuildInv
    <2> QED
      BY <2>1, <2>2
  <1>3. ASSUME NEW p \in Procs, DeleteRows(p)
        PROVE  Rebuilding(b)'
    <2>1. p = b /\ b \notin disturbed
      BY <1>0, <1>3 DEF DeleteRows
    <2>2. pc[b] = "deleting" /\ todo[b] = log /\ UNCHANGED <<log, todo>>
          /\ rows' = {} /\ pc'[b] = "indexing"
      BY <1>0, <1>3, <2>1 DEF DeleteRows, deleted, RebuildInv, Rebuilding, TypeOK
    <2>3. Len(log) \in Nat /\ DOMAIN log = 1..Len(log) /\ LatestOf(log, 0) = {}
      BY <1>0, LenProperties DEF LatestOf
    <2>4. /\ 0 \in 0..Len(log) /\ Len(log) = Len(log) - 0
          /\ \A i \in DOMAIN log : log[i] = log[0 + i]
      BY <2>3
    <2>5. \E k \in 0..Len(log) : /\ Len(todo'[b]) = Len(log) - k
                                 /\ \A i \in DOMAIN todo'[b] : todo'[b][i] = log[k + i]
                                 /\ rows' = LatestOf(log, k)
      BY <2>2, <2>3, <2>4
    <2> QED
      BY <2>2, <2>5 DEF Rebuilding
  <1>4. ASSUME NEW p \in Procs, append(p)
        PROVE  Rebuilding(b)'
    <2>1. p = b /\ b \notin disturbed
      BY <1>0, <1>4 DEF append
    <2>2. /\ pc[b] = "indexing" /\ todo[b] # <<>> /\ UNCHANGED <<log, pc>>
          /\ rows' = replace(Head(todo[b])) /\ todo'[b] = Tail(todo[b])
      BY <1>0, <1>4, <2>1 DEF append, TypeOK
    <2>3. PICK k \in 0..Len(log) :
              /\ Len(todo[b]) = Len(log) - k
              /\ \A i \in DOMAIN todo[b] : todo[b][i] = log[k + i]
              /\ rows = LatestOf(log, k)
      BY <2>1, <2>2 DEF RebuildInv, Rebuilding
    <2>4. /\ Len(log) \in Nat /\ k \in Nat
      BY <1>0, LenProperties
    <2>5. /\ Len(todo[b]) \in Nat /\ Len(todo[b]) > 0 /\ DOMAIN todo[b] = 1..Len(todo[b])
          /\ Head(todo[b]) = todo[b][1]
          /\ Len(Tail(todo[b])) = Len(todo[b]) - 1
          /\ DOMAIN Tail(todo[b]) = 1..(Len(todo[b]) - 1)
          /\ \A i \in 1..(Len(todo[b]) - 1) : Tail(todo[b])[i] = todo[b][i + 1]
      BY <1>0, <2>2, HeadAndTail
    <2>6. k + 1 \in 0..Len(log) /\ Len(Tail(todo[b])) = Len(log) - (k + 1)
      BY <2>3, <2>4, <2>5
    <2>7. Head(todo[b]) = log[k + 1]
      BY <2>3, <2>5
    <2>8. rows' = LatestOf(log, k + 1)
      <3>1. rows' = {r \in LatestOf(log, k) : r.event_id # log[k + 1].event_id} \cup {log[k + 1]}
        BY <2>2, <2>3, <2>7 DEF replace
      <3> QED
        BY <2>4, <3>1, LatestStep
    <2>9. ASSUME NEW i \in DOMAIN Tail(todo[b])
          PROVE  Tail(todo[b])[i] = log[(k + 1) + i]
      <3>1. i + 1 \in DOMAIN todo[b] /\ k + (i + 1) = (k + 1) + i
        BY <2>4, <2>5
      <3> QED
        BY <2>3, <2>5, <3>1
    <2>10. \E n \in 0..Len(log) : /\ Len(todo'[b]) = Len(log) - n
                                  /\ \A i \in DOMAIN todo'[b] : todo'[b][i] = log[n + i]
                                  /\ rows' = LatestOf(log, n)
      BY <2>2, <2>6, <2>8, <2>9
    <2> QED
      BY <2>2, <2>10 DEF Rebuilding
  <1>5. ASSUME NEW p \in Procs, Return(p)
        PROVE  Rebuilding(b)'
    <2>1. b \notin disturbed /\ UNCHANGED <<log, rows>>
          /\ pc'[b] \in {pc[b], "idle"} /\ todo'[b] = todo[b]
      BY <1>0, <1>5 DEF Return, TypeOK
    <2> QED
      BY <2>1, RebuildQuiet DEF RebuildInv
  <1>6. ASSUME RotateLog
        PROVE  FALSE
    BY <1>6 DEF RotateLog
  <1>7. ASSUME NEW p \in Procs, Crash(p)
        PROVE  Rebuilding(b)'
    <2>1. b \notin disturbed /\ UNCHANGED <<log, rows>>
          /\ pc'[b] \in {pc[b], "idle"} /\ todo'[b] = todo[b]
      BY <1>0, <1>7 DEF Crash, TypeOK
    <2> QED
      BY <2>1, RebuildQuiet DEF RebuildInv
  <1>8. CASE UNCHANGED vars
    <2>1. b \notin disturbed /\ UNCHANGED <<log, rows>>
          /\ pc'[b] \in {pc[b], "idle"} /\ todo'[b] = todo[b]
      BY <1>8 DEF vars
    <2> QED
      BY <2>1, RebuildQuiet DEF RebuildInv
  <1> QED
    BY <1>1, <1>2, <1>3, <1>4, <1>5, <1>6, <1>7, <1>8 DEF Next

\* A rebuild that nobody disturbs leaves the table with the last event of every
\* event_id of the log, whatever it found there.
THEOREM Repair == Spec => []RebuildRepairs
  <1>1. Init => RebuildInv
    BY DEF Init, RebuildInv, Rebuilding, Procs
  <1>2. TypeOK /\ StoredInv /\ RebuildInv /\ [Next]_vars => RebuildInv'
    BY RebuildStep
  <1>3. TypeOK /\ StoredInv /\ RebuildInv => RebuildRepairs
    <2> SUFFICES ASSUME TypeOK, RebuildInv, NEW p \in Rebuilders,
                        pc[p] = "indexing", todo[p] = <<>>, p \notin disturbed
                 PROVE  rows = IndexOf(log)
      BY DEF RebuildRepairs
    <2>1. PICK k \in 0..Len(log) : Len(todo[p]) = Len(log) - k /\ rows = LatestOf(log, k)
      BY DEF RebuildInv, Rebuilding
    <2>2. Len(log) \in Nat /\ Len(todo[p]) = 0
      BY LenProperties, EmptySeq DEF TypeOK
    <2>3. k = Len(log)
      BY <2>1, <2>2
    <2> QED
      BY <2>1, <2>3, LatestOfAll DEF TypeOK
  <1> QED
    BY <1>1, <1>2, <1>3, TypingAlways, PTL DEF Spec
-----------------------------------------------------------------------------
(* Induction and orderings *)

\* Induction, with the numbers that have the property as a set: of the
\* intervals 0..k that end outside the set none is smallest.
LEMMA InductionOverNat ==
    ASSUME NEW T, 0 \in T, \A n \in Nat : n \in T => n + 1 \in T
    PROVE  Nat \subseteq T
  <1> DEFINE F == {0..k : k \in Nat \ T}
             R == StrictSubsetOrdering(Nat)
  <1> SUFFICES ASSUME NEW b \in Nat, b \notin T
               PROVE  FALSE
    OBVIOUS
  <1>1. \A k \in Nat : 0..k \in FiniteSubsetsOf(Nat)
    BY FS_Interval DEF FiniteSubsetsOf
  <1>2. F \subseteq FiniteSubsetsOf(Nat) /\ F # {}
    BY <1>1
  <1>3. IsWellFoundedOn(R, FiniteSubsetsOf(Nat))
    BY FS_StrictSubsetOrderingWellFounded
  <1>4. PICK s \in F : \A t \in F : ~ <<t, s>> \in R
    <2> HIDE DEF F, R
    <2> QED
      BY <1>2, <1>3, WFMin
  <1>5. PICK k \in Nat : s = 0..k /\ k \notin T
    OBVIOUS
  <1>6. k - 1 \in Nat /\ (k - 1) + 1 = k
    BY <1>5
  <1>7. k - 1 \notin T
    BY <1>5, <1>6
  <1>8. 0..(k - 1) \subseteq 0..k /\ 0..(k - 1) # 0..k
    BY <1>6
  <1>9. <<0..(k - 1), s>> \in R
    BY <1>5, <1>6, <1>8 DEF StrictSubsetOrdering
  <1> QED
    BY <1>4, <1>6, <1>7, <1>9

\* A set of numbers that is not empty has a least one.
LEMMA LeastNumber ==
    ASSUME NEW S, S \subseteq Nat, S # {}
    PROVE  \E least \in S : \A n \in S : least <= n
  <1> SUFFICES ASSUME \A least \in S : \E n \in S : ~ least <= n
               PROVE  FALSE
    OBVIOUS
  <1> DEFINE T == {k \in Nat : \A n \in S : k <= n}
  <1>1. 0 \in T
    OBVIOUS
  <1>2. ASSUME NEW k \in Nat, k \in T
        PROVE  k + 1 \in T
    <2>1. k \notin S
      BY <1>2
    <2> QED
      BY <1>2, <2>1
  <1>3. PICK s \in S : TRUE
    OBVIOUS
  <1>4. s + 1 \in Nat /\ s + 1 \notin T
    BY <1>3
  <1> HIDE DEF T
  <1> QED
    BY <1>1, <1>2, <1>4, InductionOverNat

\* s lists S, each element once and in the order L.
Lists(s, S, L) ==
    /\ s \in [1..Cardinality(S) -> S]
    /\ Range(s) = S
    /\ \A i, j \in 1..Cardinality(S) : i < j => <<s[i], s[j]>> \in L

\* A finite set of whose subsets each has a first element can be listed: the
\* first element, and then the others.
LEMMA ListExists ==
    ASSUME NEW L, NEW S, IsFiniteSet(S),
           \A T \in SUBSET S : T # {} => \E m \in T : \A e \in T \ {m} : <<m, e>> \in L
    PROVE  \E s : Lists(s, S, L)
  <1> DEFINE N == {n \in Nat : \A T \in SUBSET S : Cardinality(T) = n => \E s : Lists(s, T, L)}
  <1>1. \A T \in SUBSET S : IsFiniteSet(T) /\ Cardinality(T) \in Nat
    BY FS_Subset, FS_CardinalityType
  <1>2. 0 \in N
    <2> SUFFICES ASSUME NEW T \in SUBSET S, Cardinality(T) = 0
                 PROVE  \E s : Lists(s, T, L)
      OBVIOUS
    <2>1. T = {}
      BY <1>1, FS_EmptySet
    <2>2. Range(<<>>) = {} /\ <<>> \in [1..0 -> T]
      BY <2>1 DEF Range
    <2> QED
      BY <2>1, <2>2 DEF Lists
  <1>3. ASSUME NEW n \in Nat, n \in N
        PROVE  n + 1 \in N
    <2> SUFFICES ASSUME NEW T \in SUBSET S, Cardinality(T) = n + 1
                 PROVE  \E s : Lists(s, T, L)
      OBVIOUS
    <2>1. T # {}
      BY FS_EmptySet
    <2>2. PICK m \in T : \A e \in T \ {m} : <<m, e>> \in L
      BY <2>1
    <2>3. PICK U \in SUBSET S : U = T \ {m}
      OBVIOUS
    <2>4. Cardinality(U) = n
      <3>1. IsFiniteSet(T)
        BY <1>1
      <3>2. Cardinality(T \ {m}) = Cardinality(T) - 1
        BY <3>1, FS_RemoveElement
      <3> QED
        BY <2>3, <3>2
    <2>5. PICK u : Lists(u, U, L)
      BY <1>3, <2>4
    <2>6. u \in [1..n -> U] /\ Range(u) = U /\ \A i, j \in 1..n : i < j => <<u[i], u[j]>> \in L
      BY <2>4, <2>5 DEF Lists
    <2>7. PICK s : s = [i \in 1..(n + 1) |-> IF i = 1 THEN m ELSE u[i - 1]]
      OBVIOUS
    <2>8. \A i \in 1..(n + 1) : i = 1 \/ i - 1 \in 1..n
      OBVIOUS
    <2>9. s \in [1..(n + 1) -> T]
      BY <2>3, <2>6, <2>7, <2>8
    <2>10. ASSUME NEW e \in T
           PROVE  \E i \in 1..(n + 1) : s[i] = e
      <3>1. CASE e = m
        BY <2>7, <3>1
      <3>2. CASE e # m
        <4>1. PICK k \in 1..n : u[k] = e
          BY <2>3, <2>6, <3>2 DEF Range
        <4>2. k + 1 \in 1..(n + 1) /\ k + 1 # 1 /\ (k + 1) - 1 = k
          OBVIOUS
        <4> QED
          BY <2>7, <4>1, <4>2
      <3> QED
        BY <3>1, <3>2
    <2>11. Range(s) = T
      BY <2>9, <2>10 DEF Range
    <2>12. ASSUME NEW i \in 1..(n + 1), NEW j \in 1..(n + 1), i < j
           PROVE  <<s[i], s[j]>> \in L
      <3>1. j - 1 \in 1..n /\ j # 1 /\ s[j] = u[j - 1]
        BY <2>7, <2>12
      <3>2. s[j] \in T \ {m}
        BY <2>3, <2>6, <3>1
      <3>3. CASE i = 1
        BY <2>2, <2>7, <3>2, <3>3
      <3>4. CASE i # 1
        <4>1. i - 1 \in 1..n /\ i - 1 < j - 1 /\ s[i] = u[i - 1]
          BY <2>7, <2>8, <2>12, <3>4
        <4> QED
          BY <2>6, <3>1, <4>1
      <3> QED
        BY <3>3, <3>4
    <2> QED
      BY <2>9, <2>11, <2>12 DEF Lists
  <1> HIDE DEF N
  <1>4. Cardinality(S) \in N
    BY <1>1, <1>2, <1>3, InductionOverNat
  <1> QED
    BY <1>4 DEF N

\* t has k elements of S in the order L and leaves out none before its own.
Leads(t, k, S, L) ==
    /\ t \in [1..k -> S]
    /\ \A i, j \in 1..k : i < j => <<t[i], t[j]>> \in L
    /\ \A x \in 1..k, e \in S : <<e, t[x]>> \in L => e \in Range(t)

Asymmetric(L) == \A d, e : <<d, e>> \in L => <<e, d>> \notin L

\* t, which has k elements, is what s, which has m, begins with.
Begins(t, k, s, m) == k <= m /\ \A i \in 1..k : t[i] = s[i]

\* Such a sequence begins the list, and is the list when it has all of it.
LEMMA BeginsTheList ==
    ASSUME NEW L, NEW S, NEW s, NEW t, NEW k \in Nat, Cardinality(S) \in Nat,
           Asymmetric(L), Lists(s, S, L), Leads(t, k, S, L)
    PROVE  Begins(t, k, s, Cardinality(S)) /\ (Range(t) = S => k = Cardinality(S))
  <1>m. PICK m \in Nat : m = Cardinality(S)
    OBVIOUS
  <1>s. /\ s \in [1..m -> S] /\ Range(s) = S
        /\ \A i, j \in 1..m : i < j => <<s[i], s[j]>> \in L
    BY <1>m DEF Lists
  <1>t. /\ t \in [1..k -> S]
        /\ \A i, j \in 1..k : i < j => <<t[i], t[j]>> \in L
        /\ \A x \in 1..k, e \in S : <<e, t[x]>> \in L => e \in Range(t)
    BY DEF Leads
  <1> DEFINE N == {n \in Nat : \A i \in 1..k : i <= n => i <= m /\ t[i] = s[i]}
  <1>0. /\ \A e : <<e, e>> \notin L
        /\ \A e \in S : \E j \in 1..m : s[j] = e
        /\ \A e \in Range(t) : \E j \in 1..k : t[j] = e
        /\ \A d, e : <<d, e>> \in L => <<e, d>> \notin L
    BY <1>s, <1>t DEF Range, Asymmetric
  <1>1. 0 \in N
    OBVIOUS
  <1>2. ASSUME NEW n \in Nat, n \in N
        PROVE  n + 1 \in N
    <2> SUFFICES ASSUME n + 1 \in 1..k
                 PROVE  n + 1 <= m /\ t[n + 1] = s[n + 1]
      BY <1>2
    <2>0. \A i \in 1..n : i \in 1..k /\ i \in 1..m /\ t[i] = s[i]
      BY <1>2
    <2>1. t[n + 1] \in S
      BY <1>t
    <2>2. PICK j \in 1..m : s[j] = t[n + 1]
      BY <1>0, <2>1
    <2>3. n + 1 <= j
      <3> SUFFICES ASSUME j \in 1..n
                   PROVE  FALSE
        OBVIOUS
      <3>1. t[j] = t[n + 1] /\ j \in 1..k /\ j < n + 1
        BY <2>0, <2>2
      <3> QED
        BY <1>0, <1>t, <3>1
    <2>4. n + 1 \in 1..m
      BY <2>3
    <2>5. ASSUME n + 1 < j
          PROVE  FALSE
      <3>1. <<s[n + 1], t[n + 1]>> \in L /\ s[n + 1] \in S
        BY <1>s, <2>2, <2>4, <2>5
      <3>2. PICK x \in 1..k : t[x] = s[n + 1]
        BY <1>0, <1>t, <3>1
      <3>3. CASE x \in 1..n
        <4>1. s[x] = s[n + 1] /\ x \in 1..m /\ x < n + 1
          BY <2>0, <3>2, <3>3
        <4> QED
          BY <1>0, <1>s, <2>4, <4>1
      <3>4. CASE x = n + 1
        BY <1>0, <3>1, <3>2, <3>4
      <3>5. CASE n + 1 < x
        BY <1>0, <1>t, <3>1, <3>2, <3>5
      <3> QED
        BY <3>3, <3>4, <3>5
    <2> QED
      BY <2>2, <2>3, <2>4, <2>5
  <1> HIDE DEF N
  <1>3. k \in N
    BY <1>1, <1>2, InductionOverNat
  <1>4. \A i \in 1..k : i <= m /\ t[i] = s[i]
    BY <1>3 DEF N
  <1>5. k <= m
    BY <1>4
  <1>6. ASSUME Range(t) = S, k < m
        PROVE  FALSE
    <2>1. k + 1 \in 1..m
      BY <1>6
    <2>2. PICK j \in 1..k : t[j] = s[k + 1]
      <3>1. s[k + 1] \in Range(t)
        BY <1>s, <1>6, <2>1
      <3> QED
        BY <1>0, <3>1
    <2>3. s[j] = s[k + 1] /\ j \in 1..m /\ j < k + 1
      BY <1>4, <1>5, <2>2
    <2> QED
      BY <1>0, <1>s, <2>1, <2>3
  <1>7. Range(t) = S => k = m
    BY <1>5, <1>6
  <1> QED
    BY <1>m, <1>4, <1>5, <1>7 DEF Begins

-----------------------------------------------------------------------------
(* Queries *)

\* Events with ids of their own.
Keyed(S) ==
    /\ S \subseteq Events
    /\ \A d, e \in S : d.event_id = e.event_id => d = e

\* The order of the key on S.
KeyOrder(S) == {p \in S \X S : Precedes(p[1], p[2])}

\* The texts of times and the times themselves have one order.
LEMMA OneOrder ==
    ASSUME NEW d \in Events, NEW e \in Events
    PROVE  /\ Precedes(d, e) <=> KeyLess(d, e)
           /\ KeyLess(d, e) =>  ~KeyLess(e, d)
           /\ d.event_id # e.event_id => KeyLess(d, e) \/ KeyLess(e, d)
  <1>1. PICK s, t : s = d.recorded_time /\ t = e.recorded_time
    OBVIOUS
  <1>2. /\ s.second \in Nat /\ s.micro \in Nat /\ t.second \in Nat /\ t.micro \in Nat
        /\ d.event_id \in Nat /\ e.event_id \in Nat
        /\ s = t <=> s.second = t.second /\ s.micro = t.micro
    BY <1>1, EventsAssumption DEF EventsAssumption, Times
  <1>3. TextLess(isoformat(s), isoformat(t)) <=> Earlier(s, t)
    BY <1>2 DEF TextLess, isoformat, Earlier
  <1>4. isoformat(s) = isoformat(t) <=> s = t
    BY <1>2 DEF isoformat
  <1>5. (Earlier(s, t) => s # t /\ ~Earlier(t, s)) /\ (s # t => Earlier(s, t) \/ Earlier(t, s))
    BY <1>2 DEF Earlier
  <1>6. Precedes(d, e) <=> KeyLess(d, e)
    BY <1>1, <1>3, <1>4, <1>5 DEF Precedes, KeyLess
  <1> QED
    BY <1>1, <1>2, <1>5, <1>6 DEF KeyLess

\* Some event comes before all the others: of those with the least time the
\* one with the least id.
LEMMA FirstEvent ==
    ASSUME NEW S, Keyed(S), S # {}
    PROVE  \E m \in S : \A e \in S \ {m} : Precedes(m, e)
  <1>0. S \subseteq Events
    BY DEF Keyed
  <1>1. \A e \in S : e.event_id \in Nat /\ e.recorded_time \in Times
                     /\ e.recorded_time.second \in Nat /\ e.recorded_time.micro \in Nat
    BY <1>0, EventsAssumption DEF EventsAssumption, Times
  <1> DEFINE Second(e) == e.recorded_time.second
             Micro(e)  == e.recorded_time.micro
  <1>2. PICK s \in {Second(e) : e \in S} : \A u \in {Second(e) : e \in S} : s <= u
    <2>1. {Second(e) : e \in S} \subseteq Nat /\ {Second(e) : e \in S} # {}
      BY <1>1
    <2> QED
      BY <2>1, LeastNumber
  <1> DEFINE V == {e \in S : Second(e) = s}
  <1>6. PICK t \in {Micro(e) : e \in V} : \A u \in {Micro(e) : e \in V} : t <= u
    <2>1. {Micro(e) : e \in V} \subseteq Nat /\ {Micro(e) : e \in V} # {}
      BY <1>1, <1>2
    <2> QED
      BY <2>1, LeastNumber
  <1> DEFINE U == {e \in V : Micro(e) = t}
  <1>3. PICK k \in {e.event_id : e \in U} : \A l \in {e.event_id : e \in U} : k <= l
    <2>1. {e.event_id : e \in U} \subseteq Nat /\ {e.event_id : e \in U} # {}
      BY <1>1, <1>6
    <2> QED
      BY <2>1, LeastNumber
  <1>4. PICK m \in S : Second(m) = s /\ Micro(m) = t /\ m.event_id = k
    BY <1>3
  <1>5. ASSUME NEW e \in S \ {m}
        PROVE  Precedes(m, e)
    <2>1. /\ s <= Second(e) /\ s \in Nat /\ t \in Nat /\ k \in Nat
          /\ Second(e) \in Nat /\ Micro(e) \in Nat /\ e.event_id \in Nat
      BY <1>1, <1>2, <1>4
    <2>2. Second(e) = s => t <= Micro(e)
      BY <1>6
    <2>3. Second(e) = s /\ Micro(e) = t => k <= e.event_id /\ k # e.event_id
      BY <1>3, <1>4 DEF Keyed
    <2>4. \/ Second(m) < Second(e)
          \/ Second(m) = Second(e) /\ Micro(m) < Micro(e)
          \/ Second(m) = Second(e) /\ Micro(m) = Micro(e) /\ m.event_id < e.event_id
      BY <1>4, <2>1, <2>2, <2>3
    <2>5. m.recorded_time = e.recorded_time <=> Second(m) = Second(e) /\ Micro(m) = Micro(e)
      BY <1>1 DEF Times
    <2>6. KeyLess(m, e)
      BY <1>1, <2>4, <2>5 DEF KeyLess, Earlier
    <2> QED
      BY <1>0, <2>6, OneOrder
  <1> QED
    BY <1>5

\* No event comes before one that comes before it.
LEMMA KeyOrderAsymmetric ==
    ASSUME NEW S, Keyed(S)
    PROVE  /\ \A d, e \in S : Precedes(d, e) => ~Precedes(e, d)
           /\ \A d, e : <<d, e>> \in KeyOrder(S) => <<e, d>> \notin KeyOrder(S)
  <1>1. S \subseteq Events
    BY DEF Keyed
  <1>2. \A d, e \in S : Precedes(d, e) => ~Precedes(e, d)
    BY <1>1, OneOrder
  <1> QED
    BY <1>2 DEF KeyOrder

\* SQLite's sort: the rows in the order of the key.
LEMMA OrderedLists ==
    ASSUME NEW S, Keyed(S), IsFiniteSet(S)
    PROVE  Lists(Ordered(S), S, KeyOrder(S))
  <1>1. ASSUME NEW T \in SUBSET S, T # {}
        PROVE  \E m \in T : \A e \in T \ {m} : <<m, e>> \in KeyOrder(S)
    <2>1. Keyed(T)
      BY DEF Keyed
    <2>2. PICK m \in T : \A e \in T \ {m} : Precedes(m, e)
      BY <1>1, <2>1, FirstEvent
    <2> QED
      BY <2>2 DEF KeyOrder
  <1>2. PICK l : Lists(l, S, KeyOrder(S))
    BY <1>1, ListExists
  <1>3. \A s \in [1..Cardinality(S) -> S] :
            /\ DOMAIN s = 1..Cardinality(S)
            /\ \A i, j \in 1..Cardinality(S) :
                   Precedes(s[i], s[j]) <=> <<s[i], s[j]>> \in KeyOrder(S)
    BY DEF KeyOrder
  <1>4. \E s \in [1..Cardinality(S) -> S] :
            /\ Range(s) = S
            /\ \A i, j \in DOMAIN s : i < j => Precedes(s[i], s[j])
    BY <1>2, <1>3 DEF Lists
  <1>5. /\ Ordered(S) \in [1..Cardinality(S) -> S]
        /\ Range(Ordered(S)) = S
        /\ \A i, j \in DOMAIN Ordered(S) : i < j => Precedes(Ordered(S)[i], Ordered(S)[j])
    BY <1>4 DEF Ordered
  <1> QED
    BY <1>3, <1>5 DEF Lists

\* Python's sort: the positions in the order of the keys of their events.
LEMMA SortedInOrder ==
    ASSUME NEW events \in Seq(Events), Keyed(Range(events)),
           \A i, j \in DOMAIN events : events[i] = events[j] => i = j
    PROVE  /\ Sorted(events) \in [1..Len(events) -> Range(events)]
           /\ Range(Sorted(events)) = Range(events)
           /\ \A i, j \in 1..Len(events) : i < j => Precedes(Sorted(events)[i], Sorted(events)[j])
  <1> DEFINE D == 1..Len(events)
             L == {p \in D \X D : Before(events, p[1], p[2])}
  <1>0. Len(events) \in Nat /\ DOMAIN events = D /\ Range(events) = {events[i] : i \in D}
    BY LenProperties DEF Range
  <1>1. \A i \in D : events[i] \in Events
    BY <1>0 DEF Keyed
  <1>2. \A i, j \in D : Precedes(events[i], events[j]) => Before(events, i, j)
    BY <1>1, OneOrder DEF Before
  <1>3. ASSUME NEW i \in D, NEW j \in D, i # j, Before(events, i, j)
        PROVE  Precedes(events[i], events[j])
    <2>1. events[i].event_id # events[j].event_id
      BY <1>0, <1>3 DEF Keyed
    <2> QED
      BY <1>1, <1>3, <2>1, OneOrder DEF Before
  <1>4. IsFiniteSet(D) /\ Cardinality(D) = Len(events)
    <2>1. PICK n \in Nat : n = Len(events)
      BY <1>0
    <2>2. IsFiniteSet(1..n) /\ Cardinality(1..n) = IF 1 > n THEN 0 ELSE n - 1 + 1
      BY FS_Interval
    <2> QED
      BY <2>1, <2>2
  <1>5. ASSUME NEW T \in SUBSET D, T # {}
        PROVE  \E m \in T : \A i \in T \ {m} : <<m, i>> \in L
    <2>1. PICK S : S = {events[i] : i \in T}
      OBVIOUS
    <2>2. Keyed(S) /\ S # {}
      <3>1. S \subseteq Range(events)
        BY <1>0, <2>1
      <3>2. S # {}
        BY <1>5, <2>1
      <3> QED
        BY <3>1, <3>2 DEF Keyed
    <2>3. PICK e \in S : \A d \in S \ {e} : Precedes(e, d)
      BY <2>2, FirstEvent
    <2>4. PICK m \in T : events[m] = e
      BY <2>1
    <2>5. \A i \in T \ {m} : events[i] \in S \ {e}
      BY <1>0, <2>1, <2>4
    <2> QED
      BY <1>2, <2>3, <2>4, <2>5
  <1>6. PICK l : Lists(l, D, L)
    <2> HIDE DEF L, D
    <2> QED
      BY <1>4, <1>5, ListExists
  <1>7. \E order \in [DOMAIN events -> DOMAIN events] :
            /\ Range(order) = DOMAIN events
            /\ \A i, j \in DOMAIN events : i < j => Before(events, order[i], order[j])
    <2>1. /\ l \in [D -> D] /\ Range(l) = D
          /\ \A i, j \in D : i < j => <<l[i], l[j]>> \in L
      BY <1>4, <1>6 DEF Lists
    <2>2. \A i, j \in D : i < j => Before(events, l[i], l[j])
      BY <2>1
    <2> QED
      BY <1>0, <2>1, <2>2
  <1>8. PICK order : order = SortOrder(events)
    OBVIOUS
  <1>9. /\ order \in [D -> D] /\ Range(order) = D
        /\ \A i, j \in D : i < j => Before(events, order[i], order[j])
    BY <1>0, <1>7, <1>8 DEF SortOrder
  <1>10. Sorted(events) = [i \in D |-> events[order[i]]]
    BY <1>0, <1>8 DEF Sorted
  <1>11. ASSUME NEW i \in D, NEW j \in D, i < j
         PROVE  Precedes(events[order[i]], events[order[j]])
    <2>1. ~Before(events, order[i], order[i])
      BY <1>0, <1>1, <1>9, OneOrder DEF Before
    <2>2. Before(events, order[i], order[j]) /\ order[i] \in D /\ order[j] \in D
      BY <1>9, <1>11
    <2> QED
      BY <1>3, <2>1, <2>2
  <1>12. Range(Sorted(events)) = Range(events)
    <2>1. \A j \in D : \E i \in D : order[i] = j
      BY <1>9 DEF Range
    <2>2. \A i \in D : order[i] \in D
      BY <1>9
    <2>3. Range(Sorted(events)) = {events[order[i]] : i \in D}
      BY <1>10 DEF Range
    <2> QED
      BY <1>0, <2>1, <2>2, <2>3
  <1> QED
    BY <1>0, <1>9, <1>10, <1>11, <1>12

\* The loop of filter_events, step by step: the function that its definition
\* names exists, and computes the result after each event from the one before.
LEMMA LoopSteps ==
    ASSUME NEW s, NEW f, Len(s) \in Nat
    PROVE  /\ Results(s, f)[0] = <<>>
           /\ \A i \in 1..Len(s) :
                  Results(s, f)[i] = IF Skips(s[i], f) \/ Len(Results(s, f)[i - 1]) >= f.limit
                                     THEN Results(s, f)[i - 1]
                                     ELSE Append(Results(s, f)[i - 1], s[i])
  <1> DEFINE Next1(old, i) == IF Skips(s[i], f) \/ Len(old) >= f.limit
                              THEN old ELSE Append(old, s[i])
             Loop(r, k) == r = [i \in 0..k |-> IF i = 0 THEN <<>> ELSE Next1(r[i - 1], i)]
             N == {k \in Nat : \E r : Loop(r, k)}
  <1>1. 0 \in N
    <2>1. PICK r : r = [i \in 0..0 |-> <<>>]
      OBVIOUS
    <2>2. \A i \in 0..0 : i = 0
      OBVIOUS
    <2>3. Loop(r, 0)
      BY <2>1, <2>2
    <2> QED
      BY <2>3
  <1>2. ASSUME NEW k \in Nat, k \in N
        PROVE  k + 1 \in N
    <2>1. PICK r : Loop(r, k)
      BY <1>2
    <2> HIDE DEF Next1
    <2>2. PICK q : q = [i \in 0..(k + 1) |-> IF i = k + 1 THEN Next1(r[k], k + 1) ELSE r[i]]
      OBVIOUS
    <2>3. \A i \in 0..k : r[i] = IF i = 0 THEN <<>> ELSE Next1(r[i - 1], i)
      BY <2>1
    <2>4. \A i \in 0..k : i \in 0..(k + 1) /\ i # k + 1 /\ q[i] = r[i]
      BY <2>2
    <2>5. ASSUME NEW i \in 0..(k + 1)
          PROVE  q[i] = IF i = 0 THEN <<>> ELSE Next1(q[i - 1], i)
      <3>1. CASE i = k + 1
        <4>1. k \in 0..k /\ i - 1 = k /\ i # 0
          BY <3>1
        <4>2. q[i] = Next1(r[k], i) /\ q[k] = r[k]
          BY <2>2, <2>4, <3>1, <4>1
        <4> QED
          BY <4>1, <4>2
      <3>2. CASE i # k + 1
        <4>1. i \in 0..k /\ (i # 0 => i - 1 \in 0..k)
          BY <3>2
        <4> QED
          BY <2>3, <2>4, <4>1
      <3> QED
        BY <3>1, <3>2
    <2>6. DOMAIN q = 0..(k + 1) /\ q = [i \in 0..(k + 1) |-> q[i]]
      BY <2>2
    <2>7. Loop(q, k + 1)
      BY <2>5, <2>6
    <2> QED
      BY <2>7
  <1>3. PICK r : Loop(r, Len(s))
    <2> HIDE DEF Loop
    <2>1. Nat \subseteq N
      <3> HIDE DEF N
      <3> QED
        BY <1>1, <1>2, InductionOverNat
    <2> QED
      BY <2>1
  <1>4. Results(s, f) = CHOOSE q : Loop(q, Len(s))
    BY DEF Results
  <1>5. Loop(Results(s, f), Len(s))
    <2> HIDE DEF Loop
    <2> QED
      BY <1>3, <1>4
  <1>6. PICK q : q = Results(s, f)
    OBVIOUS
  <1>7. q = [i \in 0..Len(s) |-> IF i = 0 THEN <<>> ELSE Next1(q[i - 1], i)]
    BY <1>5, <1>6
  <1>8. 0 \in 0..Len(s) /\ \A i \in 1..Len(s) : i \in 0..Len(s) /\ i # 0
    OBVIOUS
  <1>9. q[0] = <<>> /\ \A i \in 1..Len(s) : q[i] = Next1(q[i - 1], i)
    <2> HIDE DEF Next1
    <2> QED
      BY <1>7, <1>8
  <1> QED
    BY <1>6, <1>9

\* r is in the order of s and holds what is not skipped of the first n events
\* of s, where n is k or r is full.
LoopResult(r, S, s, f, k) ==
    /\ r \in Seq(S) /\ Len(r) <= f.limit
    /\ \A x, y \in 1..Len(r) : x < y => Precedes(r[x], r[y])
    /\ \E n \in 0..k : /\ Range(r) = {s[i] : i \in {j \in 1..n : ~Skips(s[j], f)}}
                       /\ n = k \/ Len(r) = f.limit

\* After k of the sorted events the result is in their order and holds those
\* of the first n that are not skipped, where n is k or the result is full.
LEMMA LoopKeeps ==
    ASSUME NEW S, NEW f, f.limit \in Nat, NEW m \in Nat, NEW s \in [1..m -> S],
           Len(s) = m,
           \A i, j \in 1..m : i < j => Precedes(s[i], s[j]),
           NEW k \in 0..m
    PROVE  LoopResult(Results(s, f)[k], S, s, f, k)
  <1> DEFINE Kept(n) == {s[i] : i \in {j \in 1..n : ~Skips(s[j], f)}}
             Good(r, i) == /\ r \in Seq(S) /\ Len(r) <= f.limit
                           /\ \A x, y \in 1..Len(r) : x < y => Precedes(r[x], r[y])
                           /\ \E n \in 0..i : /\ Range(r) = Kept(n)
                                              /\ n = i \/ Len(r) = f.limit
             N == {i \in Nat : i \in 0..m => Good(Results(s, f)[i], i)}
  <1>1. 0 \in N
    <2>1. Results(s, f)[0] = <<>>
      BY LoopSteps
    <2>2. <<>> \in Seq(S) /\ Len(<<>>) = 0 /\ Range(<<>>) = {}
      BY DEF Range
    <2>3. Kept(0) = {}
      OBVIOUS
    <2>4. Good(<<>>, 0)
      <3> HIDE DEF Kept
      <3>1. 0 \in 0..0
        OBVIOUS
      <3>2. Len(<<>>) <= f.limit
        BY <2>2
      <3>3. \A x \in 1..Len(<<>>) : FALSE
        BY <2>2
      <3>4. \E n \in 0..0 : Range(<<>>) = Kept(n) /\ (n = 0 \/ Len(<<>>) = f.limit)
        BY <2>2, <2>3, <3>1, Zenon
      <3>5. \A x, y \in 1..Len(<<>>) : x < y => Precedes(<<>>[x], <<>>[y])
        BY <3>3
      <3> QED
        BY <2>2, <3>2, <3>4, <3>5, Zenon
    <2> QED
      BY <2>1, <2>4
  <1>2. ASSUME NEW h \in Nat, h \in N
        PROVE  h + 1 \in N
    <2> SUFFICES ASSUME h + 1 \in 1..m
                 PROVE  Good(Results(s, f)[h + 1], h + 1)
      OBVIOUS
    <2>1. PICK old : old = Results(s, f)[h]
      OBVIOUS
    <2>2. PICK new : new = Results(s, f)[h + 1]
      OBVIOUS
    <2>3. Good(old, h)
      <3> HIDE DEF Good
      <3>1. h \in 0..m
        OBVIOUS
      <3> QED
        BY <1>2, <2>1, <3>1
    <2>4. new = IF Skips(s[h + 1], f) \/ Len(old) >= f.limit THEN old ELSE Append(old, s[h + 1])
      <3>1. (h + 1) - 1 = h
        OBVIOUS
      <3> QED
        BY <2>1, <2>2, <3>1, LoopSteps
    <2>5. /\ old \in Seq(S) /\ Len(old) <= f.limit /\ Len(old) \in Nat
          /\ \A x, y \in 1..Len(old) : x < y => Precedes(old[x], old[y])
      BY <2>3, LenProperties
    <2>6. PICK n \in 0..h : Range(old) = Kept(n) /\ (n = h \/ Len(old) = f.limit)
      BY <2>3
    <2> HIDE DEF Good
    <2>7. CASE Len(old) >= f.limit
      <3>1. new = old /\ Len(old) = f.limit
        BY <2>4, <2>5, <2>7
      <3>2. n \in 0..(h + 1)
        OBVIOUS
      <3>3. Good(new, h + 1)
        <4> HIDE DEF Kept
        <4> QED
          BY <2>5, <2>6, <3>1, <3>2 DEF Good
      <3> QED
        BY <2>2, <3>3
    <2>8. CASE Len(old) < f.limit
      <3>1. n = h /\ h + 1 \in 0..(h + 1)
        BY <2>5, <2>6, <2>8
      <3>2. 1..(h + 1) = 1..h \cup {h + 1}
        OBVIOUS
      <3>3. CASE Skips(s[h + 1], f)
        <4>1. Kept(h + 1) = Kept(h) /\ new = old
          BY <2>4, <3>2, <3>3
        <4> HIDE DEF Kept
        <4>2. Good(new, h + 1)
          BY <2>5, <2>6, <3>1, <4>1 DEF Good
        <4> QED
          BY <2>2, <4>2
      <3>4. CASE ~Skips(s[h + 1], f)
        <4>1. new = Append(old, s[h + 1]) /\ s[h + 1] \in S
          BY <2>4, <2>5, <2>8, <3>4
        <4>2. Kept(h + 1) = Kept(h) \cup {s[h + 1]}
          BY <3>2, <3>4
        <4>3. new \in Seq(S) /\ Range(new) = Range(old) \cup {s[h + 1]}
          BY <2>5, <4>1, AppendRange
        <4>4. /\ Len(new) = Len(old) + 1 /\ new[Len(old) + 1] = s[h + 1]
              /\ \A x \in 1..Len(old) : new[x] = old[x]
          BY <2>5, <4>1, AppendProperties
        <4>5. \A x \in 1..Len(old) : Precedes(old[x], s[h + 1])
          <5>1. \A i \in 1..h : Precedes(s[i], s[h + 1])
            OBVIOUS
          <5>2. \A x \in 1..Len(old) : old[x] \in Kept(h)
            BY <2>5, <2>6, <3>1, LenProperties DEF Range
          <5> QED
            BY <5>1, <5>2
        <4> HIDE DEF Kept
        <4>6. ASSUME NEW x \in 1..Len(new), NEW y \in 1..Len(new), x < y
              PROVE  Precedes(new[x], new[y])
          <5>1. x \in 1..Len(old)
            BY <2>5, <4>4, <4>6
          <5>2. CASE y \in 1..Len(old)
            BY <2>5, <4>4, <4>6, <5>1, <5>2
          <5>3. CASE y = Len(old) + 1
            BY <4>4, <4>5, <5>1, <5>3
          <5> QED
            BY <2>5, <4>4, <5>2, <5>3
        <4>7. Len(new) <= f.limit
          BY <2>5, <2>8, <4>4
        <4>8. Range(new) = Kept(h + 1)
          BY <2>6, <3>1, <4>2, <4>3
        <4>9. Good(new, h + 1)
          BY <3>1, <4>3, <4>6, <4>7, <4>8 DEF Good
        <4> QED
          BY <2>2, <4>9
      <3> QED
        BY <3>3, <3>4
    <2> QED
      BY <2>5, <2>7, <2>8
  <1>3. Good(Results(s, f)[k], k)
    <2>1. Nat \subseteq N
      <3> HIDE DEF N
      <3> QED
        BY <1>1, <1>2, InductionOverNat
    <2> HIDE DEF Good
    <2> QED
      BY <2>1
  <1> QED
    BY <1>3 DEF LoopResult

\* Both end with the first `limit` of the events that match.
LEMMA Agreement ==
    ASSUME TypeOK, rows = IndexOf(log), Cardinality(Ids(log)) = Len(log), NEW f \in Filters
    PROVE  query(f) = filter_events(log, f)
  <1> DEFINE n == Len(log)
             All == Range(log)
  <1>r. PICK R : R = {r \in rows : Clauses(r, f)}
    OBVIOUS
  <1>l. PICK L : L = KeyOrder(R)
    OBVIOUS
  <1>1. /\ log \in Seq(Events) /\ n \in Nat /\ DOMAIN log = 1..n
        /\ All = {log[i] : i \in 1..n} /\ All \subseteq Events
    <2>1. log \in Seq(Events)
      BY DEF TypeOK
    <2> QED
      BY <2>1, LenProperties DEF Range
  <1>2. IsFiniteSet(1..n) /\ Cardinality(1..n) = n
    <2>1. PICK m \in Nat : m = n
      BY <1>1
    <2>2. IsFiniteSet(1..m) /\ Cardinality(1..m) = IF 1 > m THEN 0 ELSE m - 1 + 1
      BY FS_Interval
    <2> QED
      BY <2>1, <2>2
  <1>3. \A i, j \in 1..n : log[i].event_id = log[j].event_id => i = j
    <2>1. PICK g : g = [i \in 1..n |-> log[i].event_id]
      OBVIOUS
    <2>2. g \in Surjection(1..n, Ids(log))
      BY <1>1, <2>1 DEF Surjection, Ids
    <2>3. g \in Injection(1..n, Ids(log))
      BY <1>2, <2>2, FS_SurjSameCardinalityImpliesInj
    <2>4. \A i, j \in 1..n : g[i] = g[j] => i = j
      BY <2>1, <2>3 DEF Injection, IsInjective
    <2> QED
      BY <2>1, <2>4
  <1>4. Keyed(All)
    BY <1>1, <1>3 DEF Keyed
  <1>5. rows = All
    <2>1. \A i, k \in 1..n : k > i => log[k].event_id # log[i].event_id
      BY <1>3
    <2> QED
      BY <1>1, <2>1 DEF IndexOf
  <1>6. IsFiniteSet(All)
    <2>1. log \in Surjection(1..n, All)
      BY <1>1 DEF Surjection
    <2> QED
      BY <1>2, <2>1, FS_Surjection
  <1>7. Keyed(R) /\ IsFiniteSet(R) /\ R \subseteq All
    <2>1. R \subseteq All
      BY <1>5, <1>r
    <2>2. Keyed(R)
      BY <1>4, <2>1 DEF Keyed
    <2> QED
      BY <1>6, <2>1, <2>2, FS_Subset
  <1>8. f.limit \in Nat
    <2>1. MaxLimit \in Nat
      BY DEF MaxLimit
    <2>2. f.limit \in 1..MaxLimit
      BY FiltersAssumption DEF FiltersAssumption
    <2>3. PICK limit : limit = f.limit
      OBVIOUS
    <2>4. limit \in Nat
      BY <2>1, <2>2, <2>3
    <2> QED
      BY <2>3, <2>4
  <1>m. PICK m \in Nat : m = Cardinality(R)
    BY <1>7, FS_CardinalityType
  <1>o. PICK o : o = Ordered(R)
    OBVIOUS
  <1>9. Lists(o, R, L) /\ o \in [1..m -> R]
    <2>1. Lists(o, R, L)
      BY <1>7, <1>l, <1>o, OrderedLists
    <2> QED
      BY <1>m, <2>1 DEF Lists
  <1>10. PICK s \in [1..n -> All] :
             /\ s = Sorted(log) /\ Range(s) = All
             /\ \A i, j \in 1..n : i < j => Precedes(s[i], s[j])
    <2>1. \A i, j \in DOMAIN log : log[i] = log[j] => i = j
      BY <1>1, <1>3
    <2> QED
      BY <1>1, <1>4, <2>1, SortedInOrder
  <1>11. Len(s) = n
    <2>1. s \in Seq(All) /\ DOMAIN s = 1..n
      BY <1>1
    <2> QED
      BY <1>1, <2>1, LenProperties
  <1>12. PICK t : t = Results(s, f)[n]
    OBVIOUS
  <1>13. /\ t \in Seq(All) /\ Len(t) \in Nat /\ Len(t) <= f.limit
         /\ \A i, j \in 1..Len(t) : i < j => Precedes(t[i], t[j])
         /\ \E q \in 0..n : /\ Range(t) = {s[i] : i \in {j \in 1..q : ~Skips(s[j], f)}}
                            /\ q = n \/ Len(t) = f.limit
    <2>1. n \in 0..n
      BY <1>1
    <2>2. LoopResult(Results(s, f)[n], All, s, f, n)
      <3> HIDE DEF n, All
      <3> QED
        BY <1>1, <1>8, <1>10, <1>11, <2>1, LoopKeeps
    <2>3. LoopResult(t, All, s, f, n)
      BY <1>12, <2>2
    <2>4. t \in Seq(All) /\ Len(t) \in Nat
      BY <2>3, LenProperties DEF LoopResult
    <2> QED
      BY <2>3, <2>4 DEF LoopResult
  <1>14. PICK q \in 0..n : /\ Range(t) = {s[i] : i \in {j \in 1..q : Clauses(s[j], f)}}
                           /\ q = n \/ Len(t) = f.limit
    <2>1. \A e : Skips(e, f) <=> ~Clauses(e, f)
      BY DEF Skips, Clauses
    <2> QED
      BY <1>13, <2>1
  <1> DEFINE k == Len(t)
  <1>15. \A e \in R : \E i \in 1..n : s[i] = e /\ Clauses(s[i], f)
    <2> SUFFICES ASSUME NEW e \in R
                 PROVE  \E i \in 1..n : s[i] = e /\ Clauses(s[i], f)
      OBVIOUS
    <2>1. e \in Range(s) /\ Clauses(e, f)
      BY <1>7, <1>10, <1>r
    <2>2. PICK i \in 1..n : s[i] = e
      BY <2>1 DEF Range
    <2> QED
      BY <2>1, <2>2
  <1>16. Range(t) \subseteq R /\ (q = n => Range(t) = R)
    <2>1. \A i \in 1..q : i \in 1..n /\ s[i] \in All
      BY <1>1, <1>10
    <2>2. Range(t) \subseteq R
      BY <1>5, <1>14, <1>r, <2>1
    <2>3. q = n => R \subseteq Range(t)
      BY <1>14, <1>15
    <2> QED
      BY <2>2, <2>3
  <1>17. t \in [1..k -> R] /\ Range(t) = {t[i] : i \in 1..k}
    <2>1. DOMAIN t = 1..k /\ t = [i \in 1..k |-> t[i]]
      BY <1>13, LenProperties
    <2>2. \A i \in 1..k : t[i] \in Range(t)
      BY <2>1 DEF Range
    <2> QED
      BY <1>16, <2>1, <2>2 DEF Range
  <1>18. \A i, j \in 1..k : i < j => <<t[i], t[j]>> \in L
    BY <1>13, <1>17, <1>l DEF KeyOrder
  <1>19. ASSUME NEW x \in 1..k, NEW e \in R, <<e, t[x]>> \in L
         PROVE  e \in Range(t)
    <2>1. Precedes(e, t[x])
      BY <1>19, <1>l DEF KeyOrder
    <2>2. PICK i \in 1..n : s[i] = e /\ Clauses(s[i], f)
      BY <1>15
    <2>3. PICK j \in 1..q : s[j] = t[x]
      BY <1>14, <1>17
    <2>4. j \in 1..n /\ ~Precedes(s[j], s[i])
      <3>1. t[x] \in R
        BY <1>17
      <3>2. ~Precedes(t[x], e)
        BY <1>7, <2>1, <3>1, KeyOrderAsymmetric
      <3>3. j \in 1..n
        BY <1>1, <2>3
      <3> QED
        BY <2>2, <2>3, <3>2, <3>3
    <2>5. ~ j < i
      BY <1>10, <2>4
    <2>6. i \in 1..q
      BY <1>1, <2>3, <2>5
    <2> QED
      BY <1>14, <2>2, <2>6
  <1>20. k <= m /\ (\A i \in 1..k : t[i] = o[i]) /\ (Range(t) = R => k = m)
    <2>1. Asymmetric(L)
      BY <1>7, <1>l, KeyOrderAsymmetric DEF Asymmetric
    <2>2. k \in Nat /\ Cardinality(R) \in Nat
      BY <1>m, <1>13
    <2>3. Leads(t, k, R, L)
      BY <1>17, <1>18, <1>19 DEF Leads
    <2>4. Begins(t, k, o, m) /\ (Range(t) = R => k = m)
      <3> HIDE DEF k
      <3> QED
        BY <1>m, <1>9, <2>1, <2>2, <2>3, BeginsTheList
    <2> QED
      BY <2>4 DEF Begins
  <1>21. o \in Seq(R) /\ Len(o) = m
    <2>1. o \in Seq(R) /\ DOMAIN o = 1..m
      BY <1>9
    <2> QED
      BY <1>9, <2>1, LenProperties
  <1>22. k = IF m < f.limit THEN m ELSE f.limit
    <2>1. CASE q = n
      BY <1>8, <1>13, <1>16, <1>20, <2>1
    <2>2. CASE k = f.limit
      BY <1>8, <1>13, <1>20, <2>2
    <2> QED
      BY <1>14, <2>1, <2>2
  <1>23. query(f) = SubSeq(o, 1, k)
    BY <1>o, <1>21, <1>22, <1>r DEF query, FirstOf
  <1>24. SubSeq(o, 1, k) = t
    <2>1. \A i \in 1..k : o[i] \in R
      BY <1>9, <1>13, <1>20
    <2>2. SubSeq(o, 1, k) = [i \in 1..k |-> o[i]]
      BY <1>13
    <2> QED
      BY <1>17, <1>20, <2>2
  <1>25. filter_events(log, f) = t
    BY <1>10, <1>12 DEF filter_events
  <1> QED
    BY <1>23, <1>24, <1>25

\* A query of an index that agrees with the log gives what filter_events gives
\* for the log, in the same order and cut at the same place, for every filter
\* and every limit.
THEOREM Queries == Spec => []QueryAgrees
  <1>1. TypeOK => QueryAgrees
    BY Agreement DEF QueryAgrees
  <1> QED
    BY <1>1, Typing, PTL
=============================================================================
