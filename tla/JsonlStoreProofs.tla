-------------------------- MODULE JsonlStoreProofs --------------------------
(***************************************************************************)
(* Proofs about JsonlStore, and about the readers of LogReaders beside it, *)
(* for every number of writers, readers, calls and faults.                 *)
(***************************************************************************)
EXTENDS LogReaders, AuditChainProofs

-----------------------------------------------------------------------------
(* Type correctness *)

\* Whoever is about to write or to return has chained an event.
Chained(p) ==
    \/ pc[p] \in {"writing", "flushing", "syncing", "returning"}
    \/ pc[p] = "locking" /\ ~LocksFirst(p)

HandsOK == \A p \in Procs : Chained(p) => chained[p].sequence \in Nat

\* Finishing a line keeps the log a sequence of sequences, one line longer.
LEMMA FinishLineShape ==
    ASSUME TypeOK, NEW text, IsSequence(text), FinishLine(text)
    PROVE  /\ IsSequence(lines') /\ \A i \in DOMAIN lines' : IsSequence(lines'[i])
           /\ IsSequence(tail')
           /\ Len(lines') = Len(lines) + 1
           /\ synced \in 0..Len(lines')
  <1> DEFINE line == tail \o text
  <1>1. IsSequence(line)
    BY ConcatShape DEF TypeOK
  <1>2. lines' = Append(lines, line) /\ tail' = <<>>
    BY DEF FinishLine
  <1> HIDE DEF line
  <1>3. /\ IsSequence(lines')
        /\ Len(lines') = Len(lines) + 1
        /\ DOMAIN lines' = 1..(Len(lines) + 1)
        /\ \A i \in 1..Len(lines) : lines'[i] = lines[i]
        /\ lines'[Len(lines) + 1] = line
    BY <1>2, AppendShape DEF TypeOK
  <1>4. Len(lines) \in Nat /\ DOMAIN lines = 1..Len(lines)
    BY SequenceShape DEF TypeOK
  <1>5. \A i \in DOMAIN lines' : IsSequence(lines'[i])
    BY <1>1, <1>3, <1>4 DEF TypeOK
  <1>6. IsSequence(tail')
    BY <1>2, EmptyShape
  <1> QED
    BY <1>3, <1>4, <1>5, <1>6 DEF TypeOK

\* The pieces of a line are sequences.
LEMMA TextShape ==
    ASSUME NEW e
    PROVE  IsSequence(Text(e)) /\ IsSequence(<<Text(e)[2]>>)
  <1>1. Text(e) \in Seq({Text(e)[1], Text(e)[2]})
    BY DEF Text
  <1>2. <<Text(e)[2]>> \in Seq({Text(e)[2]})
    OBVIOUS
  <1> QED
    BY <1>1, <1>2, SeqIsSequence

\* The invariant behind the types: one step keeps it.
LEMMA TypingStep ==
    ASSUME TypeOK, HandsOK, [Next]_vars
    PROVE  TypeOK' /\ HandsOK'
  <1> USE DEF TypeOK, Places, HandsOK, Chained, Goto, log
  <1>0. Len(lines) \in Nat /\ DOMAIN lines = 1..Len(lines)
    BY SequenceShape
  <1>1. ASSUME NEW p \in Procs, Call(p)
        PROVE  TypeOK' /\ HandsOK'
    BY <1>1, ConstantsAssumption DEF Call, Procs, LocksFirst
  <1>2. ASSUME NEW p \in Procs, DeadlinePasses(p)
        PROVE  TypeOK' /\ HandsOK'
    BY <1>2 DEF DeadlinePasses
  <1>3. ASSUME NEW p \in Procs, CreateLock(p)
        PROVE  TypeOK' /\ HandsOK'
    BY <1>3 DEF CreateLock, OpenExclusive
  <1>4. ASSUME NEW p \in Procs, LockTimeout(p)
        PROVE  TypeOK' /\ HandsOK'
    BY <1>4 DEF LockTimeout
  <1>5. ASSUME NEW p \in Procs, ReadAndChain(p)
        PROVE  TypeOK' /\ HandsOK'
    <2>1. chained'[p].sequence \in Nat
      BY <1>0, <1>5 DEF ReadAndChain, chain_next, append_integrity, read_all
    <2> QED
      BY <1>5, <2>1 DEF ReadAndChain
  <1>6. ASSUME NEW p \in Procs, ReadOrEncodeFails(p)
        PROVE  TypeOK' /\ HandsOK'
    BY <1>6 DEF ReadOrEncodeFails
  <1>7. ASSUME NEW p \in Procs, AppendShortLine(p)
        PROVE  TypeOK' /\ HandsOK'
    <2>1. /\ IsSequence(lines') /\ \A i \in DOMAIN lines' : IsSequence(lines'[i])
          /\ IsSequence(tail')
          /\ synced \in 0..Len(lines')
      BY <1>7, FinishLineShape, TextShape DEF AppendShortLine
    <2> QED
      BY <1>7, <2>1 DEF AppendShortLine, AfterWrite
  <1>8. ASSUME NEW p \in Procs, AppendLongLine(p)
        PROVE  TypeOK' /\ HandsOK'
    <2>1. IsSequence(tail')
      BY <1>8, AppendShape DEF AppendLongLine
    <2> QED
      BY <1>8, <2>1 DEF AppendLongLine
  <1>9. ASSUME NEW p \in Procs, FlushLongLine(p)
        PROVE  TypeOK' /\ HandsOK'
    <2>1. /\ IsSequence(lines') /\ \A i \in DOMAIN lines' : IsSequence(lines'[i])
          /\ IsSequence(tail')
          /\ synced \in 0..Len(lines')
      BY <1>9, FinishLineShape, TextShape DEF FlushLongLine
    <2> QED
      BY <1>9, <2>1 DEF FlushLongLine, AfterWrite
  <1>10. ASSUME NEW p \in Procs, SyncLine(p)
         PROVE  TypeOK' /\ HandsOK'
    BY <1>0, <1>10 DEF SyncLine
  <1>11. ASSUME NEW p \in Procs, Return(p)
         PROVE  TypeOK' /\ HandsOK'
    BY <1>11 DEF Return, Unlock
  <1>12. ASSUME NEW p \in Procs, Raise(p)
         PROVE  TypeOK' /\ HandsOK'
    BY <1>12 DEF Raise, Unlock
  <1>13. ASSUME NEW p \in Procs, DiskError(p)
         PROVE  TypeOK' /\ HandsOK'
    <2>1. CASE UNCHANGED <<lines, tail>>
      BY <1>13, <2>1, ConstantsAssumption DEF DiskError, Fault
    <2>2. CASE tail' = Append(tail, Text(chained[p])[1]) /\ UNCHANGED lines
      <3>1. IsSequence(tail')
        BY <2>2, AppendShape
      <3> QED
        BY <1>13, <2>2, <3>1, ConstantsAssumption DEF DiskError, Fault
    <2>3. CASE FinishLine(Text(chained[p])) \/ FinishLine(<<Text(chained[p])[2]>>)
      <3>1. /\ IsSequence(lines') /\ \A i \in DOMAIN lines' : IsSequence(lines'[i])
            /\ IsSequence(tail')
            /\ synced \in 0..Len(lines')
        BY <2>3, FinishLineShape, TextShape
      <3> QED
        BY <1>13, <3>1, ConstantsAssumption DEF DiskError, Fault
    <2> QED
      BY <1>13, <2>1, <2>2, <2>3 DEF DiskError
  <1>14. ASSUME NEW p \in Procs, Crash(p)
         PROVE  TypeOK' /\ HandsOK'
    BY <1>14, ConstantsAssumption DEF Crash, Fault
  <1>15. ASSUME PowerLoss
         PROVE  TypeOK' /\ HandsOK'
    <2>1. PICK n \in synced..Len(lines) :
            LET rest == IF n < Len(lines) THEN SubSeq(lines[n + 1], 1, Len(lines[n + 1]) - 1)
                                          ELSE tail
            IN  /\ lines' = SubSeq(lines, 1, n)
                /\ \E m \in 0..Len(rest) : tail' = SubSeq(rest, 1, m)
                /\ synced' = n
      BY <1>15 DEF PowerLoss
    <2> DEFINE rest == IF n < Len(lines) THEN SubSeq(lines[n + 1], 1, Len(lines[n + 1]) - 1)
                                         ELSE tail
    <2>2. IsSequence(rest)
      <3>1. CASE n < Len(lines)
        <4>1. n + 1 \in DOMAIN lines
          BY <1>0, <3>1
        <4>2. IsSequence(lines[n + 1])
          BY <4>1
        <4>3. IsSequence(SubSeq(lines[n + 1], 1, Len(lines[n + 1]) - 1))
          BY <4>2, FrontShape
        <4> QED
          BY <3>1, <4>3
      <3> QED
        BY <3>1
    <2>3. n \in 0..Len(lines)
      BY <1>0
    <2>4. IsSequence(tail')
      <3>1. PICK m \in 0..Len(rest) : tail' = SubSeq(rest, 1, m)
        BY <2>1
      <3> HIDE DEF rest
      <3> QED
        BY <2>2, <3>1, PrefixShape
    <2>5. /\ IsSequence(lines')
          /\ Len(lines') = n
          /\ DOMAIN lines' = 1..n
          /\ \A i \in 1..n : lines'[i] = lines[i]
      BY <2>1, <2>3, PrefixShape
    <2>6. \A i \in DOMAIN lines' : IsSequence(lines'[i])
      BY <1>0, <2>3, <2>5
    <2> QED
      BY <1>0, <1>15, <2>1, <2>4, <2>5, <2>6, ConstantsAssumption DEF PowerLoss, Fault
  <1>16. ASSUME RemoveLock
         PROVE  TypeOK' /\ HandsOK'
    BY <1>16 DEF RemoveLock
  <1>17. CASE UNCHANGED vars
    BY <1>17 DEF vars
  <1> QED
    BY <1>1, <1>2, <1>3, <1>4, <1>5, <1>6, <1>7, <1>8, <1>9, <1>10, <1>11, <1>12,
       <1>13, <1>14, <1>15, <1>16, <1>17
       DEF Next, Step, FileLock, AppendLine

\* The variables keep their types, whatever mix of writers shares the log.
THEOREM Typing == Spec => []TypeOK
  <1>1. ASSUME Init
        PROVE  TypeOK /\ HandsOK
    <2>1. IsSequence(lines) /\ IsSequence(tail) /\ synced \in 0..Len(lines)
      BY <1>1, EmptyShape DEF Init
    <2>2. \A i \in DOMAIN lines : IsSequence(lines[i])
      BY <1>1 DEF Init
    <2>3. HandsOK
      BY <1>1 DEF Init, HandsOK, Chained
    <2>4. pc \in [Procs -> Places] /\ calls \in [Procs -> 0..MaxCalls]
      BY <1>1, ConstantsAssumption DEF Init, Places
    <2>5. expired \in [Procs -> BOOLEAN] /\ DOMAIN chained = Procs
      BY <1>1 DEF Init
    <2>6. lock \in BOOLEAN
      BY <1>1 DEF Init
    <2>7. faults \in 0..MaxFaults
      BY <1>1, ConstantsAssumption DEF Init
    <2>8. held \subseteq Procs /\ \A e \in acked : e.sequence \in Nat
      BY <1>1 DEF Init
    <2> QED
      BY <2>1, <2>2, <2>3, <2>4, <2>5, <2>6, <2>7, <2>8 DEF TypeOK
  <1>2. TypeOK /\ HandsOK /\ [Next]_vars => (TypeOK /\ HandsOK)'
    BY TypingStep
  <1> QED
    BY <1>1, <1>2, PTL DEF Spec

-----------------------------------------------------------------------------
(* Mutual exclusion *)

\* There is at most one open lock handle, its file exists, and whoever is in
\* the critical section has it.  MutualExclusion alone is not inductive: that
\* no second handle is opened rests on the file being there.
HolderInv ==
    /\ \A p, q \in held : p = q
    /\ \A p \in held : lock = TRUE
    /\ \A p \in Procs : Critical(p) => p \in held

\* Every step keeps the lock in at most one hand.
LEMMA HolderStep ==
    ASSUME TypeOK, HolderInv, [Next]_vars
    PROVE  HolderInv'
  <1> USE DEF TypeOK, HolderInv, Critical, LocksFirst, LocksLast, Goto
  <1>1. ASSUME NEW p \in Procs, Call(p)
        PROVE  HolderInv'
    BY <1>1 DEF Call
  <1>2. ASSUME NEW p \in Procs, DeadlinePasses(p)
        PROVE  HolderInv'
    BY <1>2 DEF DeadlinePasses
  <1>3. ASSUME NEW p \in Procs, CreateLock(p)
        PROVE  HolderInv'
    \* Nobody has a handle, since the file does not exist.
    <2>1. held' = {p} /\ lock' = TRUE
      BY <1>3 DEF CreateLock, OpenExclusive
    <2>2. ASSUME NEW q \in Procs, q # p
          PROVE  ~Critical(q)
      BY <1>3, <2>2 DEF CreateLock, OpenExclusive
    <2>3. \A q \in Procs : q # p => pc'[q] = pc[q]
      BY <1>3 DEF CreateLock, OpenExclusive
    <2> QED
      BY <2>1, <2>2, <2>3
  <1>4. ASSUME NEW p \in Procs, LockTimeout(p)
        PROVE  HolderInv'
    BY <1>4 DEF LockTimeout
  <1>5. ASSUME NEW p \in Procs, ReadAndChain(p)
        PROVE  HolderInv'
    BY <1>5 DEF ReadAndChain
  <1>6. ASSUME NEW p \in Procs, ReadOrEncodeFails(p)
        PROVE  HolderInv'
    BY <1>6 DEF ReadOrEncodeFails
  <1>7. ASSUME NEW p \in Procs, AppendLine(p)
        PROVE  HolderInv'
    BY <1>7 DEF AppendLine, AppendShortLine, AppendLongLine, FlushLongLine,
                SyncLine, AfterWrite
  <1>8. ASSUME NEW p \in Procs, Return(p) \/ Raise(p)
        PROVE  HolderInv'
    \* If p had the handle nobody else is critical; else nothing was unlocked.
    <2>1. /\ held' = held \ {p}
          /\ lock' = (lock /\ p \notin held)
          /\ pc' = [pc EXCEPT ![p] = "idle"]
      BY <1>8 DEF Return, Raise, Unlock
    <2> QED
      BY <2>1
  <1>9. ASSUME NEW p \in Procs, DiskError(p)
        PROVE  HolderInv'
    BY <1>9 DEF DiskError
  <1>10. ASSUME NEW p \in Procs, Crash(p)
         PROVE  HolderInv'
    BY <1>10 DEF Crash
  <1>11. ASSUME PowerLoss
         PROVE  HolderInv'
    BY <1>11 DEF PowerLoss
  <1>12. ASSUME RemoveLock
         PROVE  HolderInv'
    BY <1>12 DEF RemoveLock
  <1>13. CASE UNCHANGED vars
    BY <1>13 DEF vars
  <1> QED
    BY <1>1, <1>2, <1>3, <1>4, <1>5, <1>6, <1>7, <1>8, <1>9, <1>10, <1>11,
       <1>12, <1>13 DEF Next, Step, FileLock

\* file_lock excludes, whatever crashes, fails or is removed by an operator
\* who checks that no holder is alive.
THEOREM Exclusion == Spec => []MutualExclusion
  <1>1. Init => HolderInv
    BY DEF Init, HolderInv, Critical
  <1>2. TypeOK /\ HolderInv /\ [Next]_vars => HolderInv'
    BY HolderStep
  <1>3. TypeOK /\ HolderInv => MutualExclusion
    BY DEF TypeOK, HolderInv, MutualExclusion
  <1> QED
    BY <1>1, <1>2, <1>3, Typing, PTL DEF Spec

-----------------------------------------------------------------------------
(* The log of chained writers *)

InPlace(e) == e.sequence \in DOMAIN lines /\ lines[e.sequence] = Text(e)

\* Every line is the text of an event, and the events are one chain.  What
\* makes this inductive is what a writer knows while it holds the lock: the
\* event in its hands is the next link of the log as it is now, and what
\* follows the last newline is nothing, or the piece it has written itself.
LogInv ==
    /\ \A i \in DOMAIN lines : Decodes(lines[i])
    /\ WellFormed(read_all, Stream)
    /\ \A p \in Procs : pc[p] \in {"writing", "flushing"} =>
          chained[p] = chain_next(read_all, <<p, calls[p]>>, Stream)
    /\ \A p \in Procs : pc[p] = "writing" => tail = <<>>
    /\ \A p \in Procs : pc[p] = "flushing" => tail = <<Text(chained[p])[1]>>

\* The events of the log are a sequence as long as the log.
LEMMA ReadAllShape ==
    ASSUME IsSequence(lines)
    PROVE  /\ IsSequence(read_all)
           /\ Len(read_all) = Len(lines)
           /\ DOMAIN read_all = 1..Len(lines)
           /\ \A i \in 1..Len(lines) : read_all[i] = EventOf(lines[i])
  <1>1. Len(lines) \in Nat /\ DOMAIN lines = 1..Len(lines)
    BY SequenceShape
  <1>2. read_all = [i \in 1..Len(lines) |-> EventOf(lines[i])]
    BY <1>1 DEF read_all
  <1> DEFINE S == {EventOf(lines[i]) : i \in DOMAIN lines}
  <1>3. read_all \in Seq(S)
    BY <1>1, <1>2
  <1>4. Len(read_all) = Len(lines)
    BY <1>1, <1>2
  <1> QED
    BY <1>1, <1>2, <1>3, <1>4, SeqIsSequence

\* What is read of the first lines are the first events.
LEMMA PrefixRead ==
    ASSUME IsSequence(lines), NEW n \in 0..Len(lines), lines' = SubSeq(lines, 1, n)
    PROVE  read_all' = SubSeq(read_all, 1, n) /\ n \in 0..Len(read_all)
  <1> DEFINE t == SubSeq(read_all, 1, n)
  <1>0. Len(lines) \in Nat
    BY SequenceShape
  <1>1. /\ DOMAIN lines' = 1..n
        /\ \A i \in 1..n : lines'[i] = lines[i]
    BY PrefixShape
  <1>2. /\ IsSequence(t) /\ Len(t) = n
        /\ \A i \in 1..n : t[i] = EventOf(lines[i])
    BY <1>0, ReadAllShape, PrefixShape
  <1> HIDE DEF t
  <1>3. t = [i \in 1..n |-> EventOf(lines[i])]
    BY <1>2, SequenceShape
  <1>4. read_all' = [i \in 1..n |-> EventOf(lines'[i])]
    BY <1>1 DEF read_all
  <1>5. read_all' = t
    BY <1>1, <1>3, <1>4
  <1> QED
    BY <1>5, ReadAllShape DEF t

\* A line starts with the event it is the text of.
LEMMA TextDecodes ==
    ASSUME NEW e
    PROVE  EventOf(Text(e)) = e /\ Decodes(Text(e))
  BY DEF EventOf, Decodes, Text

\* A line written in two pieces is the line written at once.
LEMMA TextPieces ==
    ASSUME NEW e
    PROVE  /\ <<>> \o Text(e) = Text(e)
           /\ <<Text(e)[1]>> \o <<Text(e)[2]>> = Text(e)
  <1>1. Text(e) = <<Text(e)[1], Text(e)[2]>>
    BY DEF Text
  <1>2. Text(e) \in Seq({Text(e)[1], Text(e)[2]})
    BY DEF Text
  <1>3. <<>> \o Text(e) = Text(e)
    BY <1>2, ConcatEmptySeq
  <1>4. ASSUME NEW a, NEW b
        PROVE  <<a>> \o <<b>> = <<a, b>>
    <2> DEFINE S == {a, b}
               t == <<a>> \o <<b>>
    <2>1. <<a>> \in Seq(S) /\ <<b>> \in Seq(S) /\ <<a, b>> \in Seq(S)
      OBVIOUS
    <2>2. t \in Seq(S) /\ Len(t) = 2 /\ t[1] = a /\ t[2] = b
      BY <2>1, ConcatProperties
    <2> HIDE DEF t
    <2>3. t = <<a, b>>
      BY <2>1, <2>2, SeqEqual
    <2> QED
      BY <2>3 DEF t
  <1> QED
    BY <1>1, <1>3, <1>4

\* A complete line at the end of the log is an event at the end of the chain,
\* and moves no other.
LEMMA CommitLine ==
    ASSUME TypeOK, NEW e, lines' = Append(lines, Text(e)),
           \A i \in DOMAIN lines : Decodes(lines[i])
    PROVE  /\ read_all' = Append(read_all, e)
           /\ \A i \in DOMAIN lines' : Decodes(lines'[i])
           /\ \A i \in DOMAIN lines : i \in DOMAIN lines' /\ lines'[i] = lines[i]
           /\ Len(lines) + 1 \in DOMAIN lines'
           /\ lines'[Len(lines) + 1] = Text(e)
  <1>1. /\ Len(lines) \in Nat
        /\ DOMAIN lines = 1..Len(lines)
        /\ IsSequence(lines')
        /\ Len(lines') = Len(lines) + 1
        /\ DOMAIN lines' = 1..(Len(lines) + 1)
        /\ \A i \in 1..Len(lines) : lines'[i] = lines[i]
        /\ lines'[Len(lines) + 1] = Text(e)
    BY SequenceShape, AppendShape DEF TypeOK
  <1>2. /\ IsSequence(read_all)
        /\ Len(read_all) = Len(lines)
        /\ \A i \in 1..Len(lines) : read_all[i] = EventOf(lines[i])
    BY ReadAllShape DEF TypeOK
  <1>3. read_all' = [i \in 1..(Len(lines) + 1) |-> EventOf(lines'[i])]
    BY <1>1 DEF read_all
  <1> DEFINE t == Append(read_all, e)
  <1>4. /\ IsSequence(t)
        /\ Len(t) = Len(lines) + 1
        /\ \A i \in 1..Len(lines) : t[i] = EventOf(lines[i])
        /\ t[Len(lines) + 1] = e
    BY <1>2, AppendShape
  <1> HIDE DEF t
  <1>5. \A i \in 1..(Len(lines) + 1) : t[i] = EventOf(lines'[i])
    <2> SUFFICES ASSUME NEW i \in 1..(Len(lines) + 1)
                 PROVE  t[i] = EventOf(lines'[i])
      OBVIOUS
    <2>1. CASE i = Len(lines) + 1
      BY <1>1, <1>4, <2>1, TextDecodes
    <2>2. CASE i \in 1..Len(lines)
      BY <1>1, <1>4, <2>2
    <2> QED
      BY <1>1, <2>1, <2>2
  <1>6. read_all' = t
    BY <1>3, <1>4, <1>5, SequenceShape
  <1>7. \A i \in DOMAIN lines' : Decodes(lines'[i])
    BY <1>1, TextDecodes
  <1> QED
    BY <1>1, <1>6, <1>7 DEF t

\* With append_chained alone, nobody else is critical while a writer writes.
LEMMA WriterAlone ==
    ASSUME RecorderWriters = {}, MutualExclusion,
           NEW p \in Procs, pc[p] \in {"writing", "flushing", "syncing", "returning"},
           NEW q \in Procs, q # p
    PROVE  pc[q] \notin {"reading", "writing", "flushing", "syncing", "returning", "raising"}
  BY DEF MutualExclusion, Critical, LocksFirst, Procs

\* What either way of finishing a line writes, in the hands of its writer.
LEMMA FinishedLine ==
    ASSUME LogInv, NEW p \in Procs,
           \/ pc[p] = "writing" /\ FinishLine(Text(chained[p]))
           \/ pc[p] = "flushing" /\ FinishLine(<<Text(chained[p])[2]>>)
    PROVE  lines' = Append(lines, Text(chained[p])) /\ tail' = <<>>
  <1>1. CASE pc[p] = "writing" /\ FinishLine(Text(chained[p]))
    BY <1>1, TextPieces DEF LogInv, FinishLine
  <1>2. CASE pc[p] = "flushing" /\ FinishLine(<<Text(chained[p])[2]>>)
    BY <1>2, TextPieces DEF LogInv, FinishLine
  <1> QED
    BY <1>1, <1>2

\* A writer that finishes its line adds the next link of the chain.
LEMMA CommitStep ==
    ASSUME RecorderWriters = {}, TypeOK, MutualExclusion, LogInv,
           NEW p \in Procs, NEW place,
           \/ pc[p] = "writing" /\ FinishLine(Text(chained[p]))
           \/ pc[p] = "flushing" /\ FinishLine(<<Text(chained[p])[2]>>),
           place \notin {"writing", "flushing"},
           pc' = [pc EXCEPT ![p] = place], chained' = chained
    PROVE  LogInv'
  <1>1. pc[p] \in {"writing", "flushing"}
    OBVIOUS
  <1>2. lines' = Append(lines, Text(chained[p]))
    BY FinishedLine
  <1>3. /\ read_all' = Append(read_all, chained[p])
        /\ \A i \in DOMAIN lines' : Decodes(lines'[i])
    BY <1>2, CommitLine DEF LogInv
  <1>4. chained[p] = chain_next(read_all, <<p, calls[p]>>, Stream)
    BY <1>1 DEF LogInv
  <1>5. WellFormed(read_all, Stream)'
    BY <1>3, <1>4, ReadAllShape, ChainNextWellFormed, ConstantsAssumption DEF TypeOK, LogInv
  <1>6. \A q \in Procs : pc'[q] \notin {"writing", "flushing"}
    BY <1>1, WriterAlone DEF TypeOK
  <1> QED
    BY <1>3, <1>5, <1>6 DEF LogInv

\* A step that moves no writer into its write and leaves the file alone.
LEMMA QuietStep ==
    ASSUME TypeOK, LogInv, UNCHANGED <<lines, tail>>,
           \A p \in Procs : pc'[p] \in {"writing", "flushing"} =>
               pc'[p] = pc[p] /\ chained'[p] = chained[p] /\ calls'[p] = calls[p]
    PROVE  LogInv'
  BY DEF LogInv, read_all

\* The empty log is a chain.
LEMMA InitLogInv ==
    ASSUME Init
    PROVE  LogInv
  <1>1. lines = <<>> /\ \A p \in Procs : pc[p] = "idle"
    BY DEF Init
  <1>2. \A i \in DOMAIN lines : FALSE
    BY <1>1
  <1>3. \A i \in DOMAIN read_all : FALSE
    BY <1>2 DEF read_all
  <1> QED
    BY <1>1, <1>2, <1>3 DEF LogInv, WellFormed

\* Every step of the writers keeps the log a chain.
LEMMA LogStep ==
    ASSUME RecorderWriters = {}, TypeOK, MutualExclusion, LogInv, [Next]_vars
    PROVE  LogInv'
  <1> USE DEF Goto
  <1>0. \A p \in Procs : LocksFirst(p) /\ ~LocksLast(p)
    BY DEF Procs, LocksFirst, LocksLast
  <1>1. ASSUME NEW p \in Procs,
               \/ Call(p) \/ FileLock(p) \/ ReadOrEncodeFails(p) \/ SyncLine(p)
               \/ Return(p) \/ Raise(p) \/ Crash(p)
        PROVE  LogInv'
    <2>1. UNCHANGED <<lines, tail>>
      BY <1>1 DEF Call, FileLock, DeadlinePasses, CreateLock, OpenExclusive, LockTimeout,
                  ReadOrEncodeFails, SyncLine, Return, Raise, Crash, log
    <2>2. ASSUME NEW q \in Procs, pc'[q] \in {"writing", "flushing"}
          PROVE  pc'[q] = pc[q] /\ chained'[q] = chained[q] /\ calls'[q] = calls[q]
      BY <1>0, <1>1, <2>2 DEF TypeOK, Call, FileLock, DeadlinePasses, CreateLock, OpenExclusive,
                  LockTimeout, ReadOrEncodeFails, SyncLine, Return, Raise, Crash
    <2> QED
      BY <2>1, <2>2, QuietStep
  <1>2. ASSUME NEW p \in Procs, ReadAndChain(p)
        PROVE  LogInv'
    <2>1. /\ tail = <<>> /\ UNCHANGED <<lines, tail>>
          /\ read_all' = read_all /\ calls' = calls
      BY <1>2 DEF ReadAndChain, Readable, log, read_all
    <2>2. /\ pc'[p] = "writing"
          /\ chained'[p] = chain_next(read_all, <<p, calls[p]>>, Stream)
      BY <1>0, <1>2 DEF ReadAndChain, TypeOK
    <2>3. \A q \in Procs \ {p} : pc'[q] = pc[q] /\ chained'[q] = chained[q]
      BY <1>2 DEF ReadAndChain, TypeOK
    <2> QED
      BY <2>1, <2>2, <2>3 DEF LogInv
  <1>3. ASSUME NEW p \in Procs, AppendShortLine(p) \/ FlushLongLine(p)
        PROVE  LogInv'
    <2>1. \E place : /\ place \notin {"writing", "flushing"}
                     /\ pc' = [pc EXCEPT ![p] = place]
      BY <1>3 DEF AppendShortLine, FlushLongLine, AfterWrite
    <2> QED
      BY <1>3, <2>1, CommitStep DEF AppendShortLine, FlushLongLine
  <1>4. ASSUME NEW p \in Procs, AppendLongLine(p)
        PROVE  LogInv'
    <2>1. /\ tail = <<>>
          /\ tail' = Append(tail, Text(chained[p])[1])
          /\ lines' = lines /\ chained' = chained /\ calls' = calls
          /\ pc[p] = "writing"
          /\ pc' = [pc EXCEPT ![p] = "flushing"]
      BY <1>4 DEF AppendLongLine, LogInv
    <2>2. tail' = <<Text(chained[p])[1]>>
      BY <2>1
    <2>3. \A q \in Procs \ {p} : pc'[q] \notin {"writing", "flushing"}
      BY <2>1, WriterAlone DEF TypeOK
    <2>4. read_all' = read_all
      BY <2>1 DEF read_all
    <2> QED
      BY <2>1, <2>2, <2>3, <2>4 DEF LogInv, TypeOK
  <1>5. ASSUME NEW p \in Procs, DiskError(p)
        PROVE  LogInv'
    <2>1. pc[p] \in {"writing", "flushing", "syncing"} /\ chained' = chained /\ calls' = calls
      BY <1>5 DEF DiskError
    <2>2. pc' = [pc EXCEPT ![p] = "raising"]
      BY <1>5 DEF DiskError
    <2>3. \A q \in Procs : pc'[q] \notin {"writing", "flushing"}
      BY <2>1, <2>2, WriterAlone DEF TypeOK
    <2>4. CASE UNCHANGED lines
      BY <2>3, <2>4 DEF LogInv, read_all
    <2>5. CASE \/ pc[p] = "writing" /\ FinishLine(Text(chained[p]))
               \/ pc[p] = "flushing" /\ FinishLine(<<Text(chained[p])[2]>>)
      BY <2>1, <2>2, <2>5, CommitStep
    <2> QED
      BY <1>5, <2>4, <2>5 DEF DiskError
  <1>6. ASSUME PowerLoss
        PROVE  LogInv'
    <2>1. PICK n \in synced..Len(lines) : lines' = SubSeq(lines, 1, n)
      BY <1>6 DEF PowerLoss
    <2>2. n \in 0..Len(lines) /\ Len(lines) \in Nat
      BY SequenceShape DEF TypeOK
    <2>3. /\ DOMAIN lines' = 1..n
          /\ \A i \in 1..n : lines'[i] = lines[i]
      BY <2>1, <2>2, PrefixShape DEF TypeOK
    <2>4. \A i \in DOMAIN lines' : Decodes(lines'[i])
      <3>1. DOMAIN lines = 1..Len(lines)
        BY SequenceShape DEF TypeOK
      <3>2. \A i \in DOMAIN lines : Decodes(lines[i])
        BY DEF LogInv
      <3>3. \A i \in 1..n : i \in DOMAIN lines
        BY <2>2, <3>1
      <3> QED
        BY <2>3, <3>2, <3>3
    <2>5. read_all' = SubSeq(read_all, 1, n)
      BY <2>1, <2>2, PrefixRead DEF TypeOK
    <2>6. WellFormed(read_all, Stream)'
      BY <2>2, <2>5, ReadAllShape, PrefixWellFormed DEF LogInv, TypeOK
    <2>7. \A q \in Procs : pc'[q] = "idle"
      BY <1>6 DEF PowerLoss
    <2> QED
      BY <2>4, <2>6, <2>7 DEF LogInv
  <1>7. ASSUME RemoveLock \/ UNCHANGED vars
        PROVE  LogInv'
    BY <1>7 DEF RemoveLock, vars, log, LogInv, read_all
  <1> QED
    BY <1>1, <1>2, <1>3, <1>4, <1>5, <1>6, <1>7 DEF Next, Step, AppendLine

\* As long as every writer uses append_chained, a readable log verifies,
\* whatever crashes, fails, loses power or is unlocked by hand.
THEOREM LogSafety ==
    ASSUME RecorderWriters = {}
    PROVE  Spec => []LogVerifies
  <1>1. Init => LogInv
    BY InitLogInv
  <1>2. TypeOK /\ MutualExclusion /\ LogInv /\ [Next]_vars => LogInv'
    BY LogStep
  <1>3. LogInv => LogVerifies
    BY DEF LogInv, LogVerifies
  <1> QED
    BY <1>1, <1>2, <1>3, Typing, Exclusion, PTL DEF Spec

-----------------------------------------------------------------------------
(* Events that were returned *)

\* A returned event is in its place, and with fsync that place is durable; to
\* carry this over Return it has to hold from the write onwards.
AckInv ==
    /\ \A p \in Procs : pc[p] \in {"syncing", "returning"} => InPlace(chained[p])
    /\ AckedInPlace
    /\ Fsync => \A p \in Procs : pc[p] = "returning" => chained[p].sequence <= synced
    /\ Fsync => \A e \in acked : e.sequence <= synced

\* A step that keeps the lines and durability keeps what is in place.
LEMMA AckQuietStep ==
    ASSUME AckInv, UNCHANGED <<lines, synced, acked>>,
           \A p \in Procs : pc'[p] \in {"syncing", "returning"} =>
               pc'[p] = pc[p] /\ chained'[p] = chained[p]
    PROVE  AckInv'
  BY DEF AckInv, AckedInPlace, InPlace

\* Adding a line keeps what is in place, and puts the new event there.
LEMMA AckCommitStep ==
    ASSUME RecorderWriters = {}, TypeOK, MutualExclusion, LogInv, AckInv,
           NEW p \in Procs,
           \/ pc[p] = "writing" /\ FinishLine(Text(chained[p]))
           \/ pc[p] = "flushing" /\ FinishLine(<<Text(chained[p])[2]>>)
    PROVE  /\ \A e : InPlace(e) => InPlace(e)'
           /\ lines'[chained[p].sequence] = Text(chained[p])
           /\ chained[p].sequence \in DOMAIN lines'
  <1>1. lines' = Append(lines, Text(chained[p]))
    BY FinishedLine
  <1>2. chained[p] = chain_next(read_all, <<p, calls[p]>>, Stream)
    BY DEF LogInv
  <1>3. chained[p].sequence = Len(lines) + 1
    BY <1>2, ReadAllShape DEF TypeOK, chain_next, append_integrity
  <1>4. /\ \A i \in DOMAIN lines : i \in DOMAIN lines' /\ lines'[i] = lines[i]
        /\ Len(lines) + 1 \in DOMAIN lines'
        /\ lines'[Len(lines) + 1] = Text(chained[p])
    BY <1>1, CommitLine DEF LogInv
  <1>5. ASSUME NEW e, InPlace(e)
        PROVE  InPlace(e)'
    BY <1>4, <1>5 DEF InPlace
  <1> QED
    BY <1>3, <1>4, <1>5

\* Every step keeps returned events in their places.
LEMMA AckStep ==
    ASSUME RecorderWriters = {}, "power" \in Faults => Fsync,
           TypeOK, MutualExclusion, LogInv, AckInv, [Next]_vars
    PROVE  AckInv'
  <1> USE DEF Goto
  <1>1. ASSUME NEW p \in Procs,
               \/ Call(p) \/ FileLock(p) \/ ReadAndChain(p) \/ ReadOrEncodeFails(p)
               \/ AppendLongLine(p) \/ Raise(p) \/ Crash(p)
        PROVE  AckInv'
    <2>1. UNCHANGED <<lines, synced, acked>>
      BY <1>1 DEF Call, FileLock, DeadlinePasses, CreateLock, OpenExclusive, LockTimeout, log,
           ReadAndChain, ReadOrEncodeFails, AppendLongLine, Raise, Crash
    <2>2. ASSUME NEW q \in Procs, pc'[q] \in {"syncing", "returning"}
          PROVE  pc'[q] = pc[q] /\ chained'[q] = chained[q]
      BY <1>1, <2>2 DEF TypeOK, Call, FileLock, DeadlinePasses, CreateLock, OpenExclusive, LockTimeout,
           ReadAndChain, ReadOrEncodeFails, AppendLongLine, Raise, Crash
    <2> QED
      BY <2>1, <2>2, AckQuietStep
  <1>2. ASSUME NEW p \in Procs, AppendShortLine(p) \/ FlushLongLine(p)
        PROVE  AckInv'
    <2>1. /\ \/ pc[p] = "writing" /\ FinishLine(Text(chained[p]))
             \/ pc[p] = "flushing" /\ FinishLine(<<Text(chained[p])[2]>>)
          /\ pc' = [pc EXCEPT ![p] = IF Fsync THEN "syncing" ELSE "returning"]
          /\ UNCHANGED <<synced, chained, acked>>
      BY <1>2 DEF AppendShortLine, FlushLongLine, AfterWrite
    <2>2. /\ \A e : InPlace(e) => InPlace(e)'
          /\ InPlace(chained[p])'
      BY <2>1, AckCommitStep DEF InPlace
    <2>3. AckedInPlace'
      BY <2>1, <2>2 DEF AckInv, AckedInPlace, InPlace
    <2>4. \A q \in Procs : pc'[q] \in {"syncing", "returning"} => InPlace(chained[q])'
      <3> SUFFICES ASSUME NEW q \in Procs, pc'[q] \in {"syncing", "returning"}
                   PROVE  InPlace(chained[q])'
        OBVIOUS
      <3>1. CASE q = p
        BY <2>2, <3>1
      <3>2. CASE q # p
        <4>1. pc[q] \in {"syncing", "returning"} /\ chained'[q] = chained[q]
          BY <2>1, <3>2 DEF TypeOK
        <4>2. InPlace(chained[q])
          BY <4>1 DEF AckInv
        <4> QED
          BY <2>2, <4>1, <4>2 DEF InPlace
      <3> QED
        BY <3>1, <3>2
    <2>5. Fsync => \A q \in Procs : pc'[q] = "returning" => pc[q] = "returning"
      BY <2>1 DEF TypeOK
    <2> QED
      BY <2>1, <2>3, <2>4, <2>5 DEF AckInv
  <1>3. ASSUME NEW p \in Procs, SyncLine(p)
        PROVE  AckInv'
    <2>1. /\ synced' = Len(lines)
          /\ pc' = [pc EXCEPT ![p] = "returning"]
          /\ UNCHANGED <<lines, chained, acked>>
          /\ pc[p] = "syncing"
      BY <1>3 DEF SyncLine
    <2>2. ASSUME NEW e, InPlace(e)
          PROVE  e.sequence <= Len(lines)
      BY <2>2, SequenceShape DEF InPlace, TypeOK
    <2>3. \A q \in Procs : pc'[q] \in {"syncing", "returning"} => InPlace(chained[q])
      BY <2>1 DEF AckInv, TypeOK
    <2> QED
      BY <2>1, <2>2, <2>3 DEF AckInv, AckedInPlace, InPlace
  <1>4. ASSUME NEW p \in Procs, Return(p)
        PROVE  AckInv'
    <2>1. /\ acked' = acked \cup {chained[p]}
          /\ UNCHANGED <<lines, synced, chained>>
          /\ pc[p] = "returning"
          /\ pc' = [pc EXCEPT ![p] = "idle"]
      BY <1>4 DEF Return, log
    <2>2. \A q \in Procs : pc'[q] \in {"syncing", "returning"} => pc[q] = pc'[q]
      BY <2>1 DEF TypeOK
    <2> QED
      BY <2>1, <2>2 DEF AckInv, AckedInPlace, InPlace
  <1>5. ASSUME NEW p \in Procs, DiskError(p)
        PROVE  AckInv'
    <2>1. /\ pc' = [pc EXCEPT ![p] = "raising"]
          /\ UNCHANGED <<synced, chained, acked>>
      BY <1>5 DEF DiskError
    <2>2. \A q \in Procs : pc'[q] \in {"syncing", "returning"} => pc[q] = pc'[q]
      BY <2>1 DEF TypeOK
    <2>3. CASE UNCHANGED lines
      BY <2>1, <2>2, <2>3, AckQuietStep
    <2>4. CASE \/ pc[p] = "writing" /\ FinishLine(Text(chained[p]))
               \/ pc[p] = "flushing" /\ FinishLine(<<Text(chained[p])[2]>>)
      <3>1. \A e : InPlace(e) => InPlace(e)'
        BY <2>4, AckCommitStep
      <3> QED
        BY <2>1, <2>2, <3>1 DEF AckInv, AckedInPlace, InPlace
    <2> QED
      BY <1>5, <2>3, <2>4 DEF DiskError
  <1>6. ASSUME PowerLoss
        PROVE  AckInv'
    <2>1. Fsync
      BY <1>6 DEF PowerLoss, Fault
    <2>2. PICK n \in synced..Len(lines) : lines' = SubSeq(lines, 1, n) /\ synced' = n
      BY <1>6 DEF PowerLoss
    <2>3. n \in 0..Len(lines) /\ Len(lines) \in Nat /\ synced <= n
      BY SequenceShape DEF TypeOK
    <2>4. /\ DOMAIN lines' = 1..n
          /\ \A i \in 1..n : lines'[i] = lines[i]
      BY <2>2, <2>3, PrefixShape DEF TypeOK
    <2>5. ASSUME NEW e \in acked
          PROVE  e.sequence \in 1..n /\ lines[e.sequence] = Text(e)
      BY <2>1, <2>3, SequenceShape DEF AckInv, AckedInPlace, TypeOK
    <2>6. acked' = acked /\ \A q \in Procs : pc'[q] = "idle"
      BY <1>6 DEF PowerLoss
    <2> QED
      BY <2>2, <2>4, <2>5, <2>6 DEF AckInv, AckedInPlace
  <1>7. ASSUME RemoveLock \/ UNCHANGED vars
        PROVE  AckInv'
    BY <1>7 DEF RemoveLock, vars, log, AckInv, AckedInPlace, InPlace
  <1> QED
    BY <1>1, <1>2, <1>3, <1>4, <1>5, <1>6, <1>7 DEF Next, Step, AppendLine

\* An event that append_chained returned stays at its place in the log, for
\* ever; over a loss of power too if the store uses fsync.
THEOREM Durability ==
    ASSUME RecorderWriters = {}, "power" \in Faults => Fsync
    PROVE  Spec => []AckedInPlace
  <1>1. Init => LogInv /\ AckInv
    BY InitLogInv DEF Init, AckInv, AckedInPlace
  <1>2. TypeOK /\ MutualExclusion /\ LogInv /\ AckInv /\ [Next]_vars => (LogInv /\ AckInv)'
    BY LogStep, AckStep
  <1>3. AckInv => AckedInPlace
    BY DEF AckInv
  <1> QED
    BY <1>1, <1>2, <1>3, Typing, Exclusion, PTL DEF Spec

-----------------------------------------------------------------------------
(* Logs that stay as they are *)

\* The writers all lock what they write.
Locking == RecorderWriters = {} \/ UseLock

\* Where every writer locks, only the holder of the lock writes or returns.
LEMMA WritersHold ==
    ASSUME Locking, HolderInv, NEW p \in Procs,
           pc[p] \in {"writing", "flushing", "syncing", "returning"}
    PROVE  p \in held
  BY DEF Locking, HolderInv, Critical, LocksFirst, LocksLast, Procs

LEMMA HolderAlways == Spec => [](TypeOK /\ HolderInv)
  <1>1. Init => HolderInv
    BY DEF Init, HolderInv, Critical
  <1>2. TypeOK /\ HolderInv /\ [Next]_vars => HolderInv'
    BY HolderStep
  <1> QED
    BY <1>1, <1>2, Typing, PTL DEF Spec

\* A lock file without a holder stops every writer that locks: the file and
\* what was returned stay as they are until the lock is removed by hand.
THEOREM StaleLock ==
    ASSUME Locking
    PROVE  Spec => StaleLockFreezesLog
  <1> DEFINE Frozen == lock /\ held = {} => \/ lock' /\ UNCHANGED <<lines, tail, acked>>
                                            \/ RemoveLock \/ PowerLoss
  <1>1. TypeOK /\ HolderInv /\ [Next]_vars => [Frozen]_vars
    <2> SUFFICES ASSUME TypeOK, HolderInv, Next, lock, held = {}, ~RemoveLock, ~PowerLoss
                 PROVE  lock' /\ UNCHANGED <<lines, tail, acked>>
      OBVIOUS
    <2>1. \A q \in Procs : pc[q] \notin {"writing", "flushing", "syncing", "returning"}
      BY WritersHold
    <2>2. ASSUME NEW p \in Procs,
                 \/ Call(p) \/ FileLock(p) \/ ReadAndChain(p) \/ ReadOrEncodeFails(p)
                 \/ Raise(p) \/ Crash(p)
          PROVE  lock' /\ UNCHANGED <<lines, tail, acked>>
      BY <2>2 DEF Call, FileLock, DeadlinePasses, CreateLock, OpenExclusive, LockTimeout,
           ReadAndChain, ReadOrEncodeFails, Raise, Unlock, Crash, log
    <2>3. ASSUME NEW p \in Procs, AppendLine(p) \/ Return(p) \/ DiskError(p)
          PROVE  FALSE
      BY <2>1, <2>3 DEF AppendLine, AppendShortLine, AppendLongLine, FlushLongLine, SyncLine,
           Return, DiskError
    <2> QED
      BY <2>2, <2>3 DEF Next, Step
  <1> QED
    BY <1>1, HolderAlways, PTL DEF Spec, StaleLockFreezesLog

\* After an incomplete line append_chained writes nothing more: what a writer
\* read before it wrote was whole, and nobody can have written since.
THEOREM TornLine ==
    ASSUME RecorderWriters = {}
    PROVE  Spec => TornLineFreezesLog
  <1> DEFINE Frozen == Torn => UNCHANGED <<lines, tail>> \/ PowerLoss
  <1>1. TypeOK /\ LogInv /\ [Next]_vars => [Frozen]_vars
    <2> SUFFICES ASSUME TypeOK, LogInv, Next, Torn, ~PowerLoss
                 PROVE  UNCHANGED <<lines, tail>>
      OBVIOUS
    <2>1. \A q \in Procs : pc[q] \notin {"writing", "flushing"}
      BY DEF Torn, LogInv
    <2> QED
      BY <2>1 DEF Next, Step, FileLock, AppendLine, Call, DeadlinePasses, CreateLock,
           OpenExclusive, LockTimeout, ReadAndChain, ReadOrEncodeFails, AppendShortLine,
           AppendLongLine, FlushLongLine, SyncLine, Return, Raise, DiskError, Crash,
           RemoveLock, log
  <1>2. Init => LogInv
    BY InitLogInv
  <1>3. TypeOK /\ MutualExclusion /\ LogInv /\ [Next]_vars => LogInv'
    BY LogStep
  <1> QED
    BY <1>1, <1>2, <1>3, Typing, Exclusion, PTL DEF Spec, TornLineFreezesLog

-----------------------------------------------------------------------------
(* The abstract stream *)

\* A call that is under way has been counted.
Counted == \A p \in Procs : pc[p] # "idle" => calls[p] \in 1..MaxCalls

LEMMA CountedStep ==
    ASSUME TypeOK, Counted, [Next]_vars
    PROVE  Counted'
  <1>1. ASSUME NEW p \in Procs, Call(p)
        PROVE  Counted'
    <2>1. calls[p] + 1 \in 1..MaxCalls
      BY <1>1, ConstantsAssumption DEF Call, TypeOK
    <2> QED
      BY <1>1, <2>1 DEF Call, Goto, TypeOK, Counted
  <1>2. ASSUME NEW p \in Procs, Step(p) \/ DiskError(p) \/ Crash(p)
        PROVE  Counted'
    <2>1. calls' = calls /\ pc[p] # "idle" /\ \A q \in Procs \ {p} : pc'[q] = pc[q]
      BY <1>2 DEF Step, FileLock, AppendLine, DeadlinePasses, CreateLock, LockTimeout,
           ReadAndChain, ReadOrEncodeFails, AppendShortLine, AppendLongLine, FlushLongLine,
           AfterWrite, SyncLine, Return, Raise, DiskError, Crash, Goto, TypeOK
    <2> QED
      BY <2>1 DEF Counted
  <1>3. CASE PowerLoss \/ RemoveLock \/ UNCHANGED vars
    BY <1>3 DEF PowerLoss, RemoveLock, vars, Counted
  <1> QED
    BY <1>1, <1>2, <1>3 DEF Next

\* The stream and the store mean the same by the next link.
LEMMA SameLink ==
    ASSUME NEW events, NEW body, NEW stream
    PROVE  Abstract!chain_next(events, body, stream) = chain_next(events, body, stream)
  BY DEF Abstract!chain_next, Abstract!append_integrity, Abstract!last_digest,
         Abstract!event_digest, Abstract!digest_projection, Abstract!sha256_digest,
         chain_next, append_integrity, last_digest, event_digest, digest_projection,
         sha256_digest

\* A line that is finished is a commit of the abstract stream.
LEMMA CommitImplements ==
    ASSUME RecorderWriters = {}, TypeOK, LogInv, Counted, NEW p \in Procs,
           \/ pc[p] = "writing" /\ FinishLine(Text(chained[p]))
           \/ pc[p] = "flushing" /\ FinishLine(<<Text(chained[p])[2]>>),
           acked' = acked
    PROVE  Abstract!Commit
  <1>1. lines' = Append(lines, Text(chained[p]))
    BY FinishedLine
  <1>2. read_all' = Append(read_all, chained[p])
    BY <1>1, CommitLine DEF LogInv
  <1>3. chained[p] = chain_next(read_all, <<p, calls[p]>>, Stream)
    BY DEF LogInv
  <1>4. <<p, calls[p]>> \in Procs \X (1..MaxCalls)
    BY DEF Counted
  <1> QED
    BY <1>2, <1>3, <1>4, SameLink DEF Abstract!Commit

\* Every step of the writers is a step of the abstract stream, or stutters.
LEMMA ImplementationStep ==
    ASSUME RecorderWriters = {}, "power" \in Faults => Fsync,
           TypeOK, MutualExclusion, LogInv, AckInv, AckInv', Counted, [Next]_vars
    PROVE  [Abstract!Next]_<<read_all, acked>>
  <1> USE DEF Goto
  <1>1. ASSUME NEW p \in Procs,
               \/ Call(p) \/ FileLock(p) \/ ReadAndChain(p) \/ ReadOrEncodeFails(p)
               \/ AppendLongLine(p) \/ SyncLine(p) \/ Raise(p) \/ Crash(p)
        PROVE  UNCHANGED <<read_all, acked>>
    <2>1. UNCHANGED <<lines, acked>>
      BY <1>1 DEF Call, FileLock, DeadlinePasses, CreateLock, OpenExclusive, LockTimeout, log,
           ReadAndChain, ReadOrEncodeFails, AppendLongLine, SyncLine, Raise, Crash
    <2> QED
      BY <2>1 DEF read_all
  <1>2. ASSUME NEW p \in Procs, AppendShortLine(p) \/ FlushLongLine(p)
        PROVE  Abstract!Commit
    BY <1>2, CommitImplements DEF AppendShortLine, FlushLongLine
  <1>3. ASSUME NEW p \in Procs, Return(p)
        PROVE  Abstract!Acknowledge
    <2>1. /\ InPlace(chained[p])
          /\ acked' = acked \cup {chained[p]}
          /\ UNCHANGED lines
      BY <1>3 DEF Return, AckInv, log
    <2>2. /\ chained[p].sequence \in DOMAIN read_all
          /\ read_all[chained[p].sequence] = chained[p]
      BY <2>1, TextDecodes DEF InPlace, read_all
    <2>3. read_all' = read_all
      BY <2>1 DEF read_all
    <2> QED
      BY <2>1, <2>2, <2>3 DEF Abstract!Acknowledge
  <1>4. ASSUME NEW p \in Procs, DiskError(p)
        PROVE  Abstract!Commit \/ UNCHANGED <<read_all, acked>>
    <2>1. CASE UNCHANGED lines
      BY <1>4, <2>1 DEF DiskError, read_all
    <2>2. CASE \/ pc[p] = "writing" /\ FinishLine(Text(chained[p]))
               \/ pc[p] = "flushing" /\ FinishLine(<<Text(chained[p])[2]>>)
      BY <1>4, <2>2, CommitImplements DEF DiskError
    <2> QED
      BY <1>4, <2>1, <2>2 DEF DiskError
  <1>5. ASSUME PowerLoss
        PROVE  Abstract!Lose
    <2>1. PICK n \in synced..Len(lines) : lines' = SubSeq(lines, 1, n)
      BY <1>5 DEF PowerLoss
    <2>2. n \in 0..Len(lines) /\ acked' = acked
      BY <1>5, SequenceShape DEF TypeOK, PowerLoss
    <2>3. read_all' = SubSeq(read_all, 1, n) /\ n \in 0..Len(read_all)
      BY <2>1, <2>2, PrefixRead DEF TypeOK
    <2>4. ASSUME NEW e \in acked
          PROVE  \E i \in DOMAIN read_all' : read_all'[i] = e
      <3>1. e.sequence \in DOMAIN lines' /\ lines'[e.sequence] = Text(e)
        BY <2>2 DEF AckInv, AckedInPlace
      <3>2. e.sequence \in DOMAIN read_all' /\ read_all'[e.sequence] = EventOf(lines'[e.sequence])
        BY <3>1 DEF read_all
      <3> QED
        BY <3>1, <3>2, TextDecodes
    <2> QED
      BY <2>2, <2>3, <2>4 DEF Abstract!Lose
  <1>6. ASSUME RemoveLock \/ UNCHANGED vars
        PROVE  UNCHANGED <<read_all, acked>>
    BY <1>6 DEF RemoveLock, vars, log, read_all
  <1> QED
    BY <1>1, <1>2, <1>3, <1>4, <1>5, <1>6 DEF Next, Step, AppendLine, Abstract!Next

\* append_chained implements the abstract stream, whatever crashes, fails or
\* is unlocked by hand, and over a loss of power too if the store uses fsync.
THEOREM Implementation ==
    ASSUME RecorderWriters = {}, "power" \in Faults => Fsync
    PROVE  Spec => ImplementsStream
  <1>1. Init => LogInv /\ AckInv /\ Counted
    BY InitLogInv DEF Init, AckInv, AckedInPlace, Counted
  <1>2. TypeOK /\ MutualExclusion /\ LogInv /\ AckInv /\ Counted /\ [Next]_vars
        => (LogInv /\ AckInv /\ Counted)'
    BY LogStep, AckStep, CountedStep
  <1>3. Init => Abstract!Init
    BY DEF Init, read_all, Abstract!Init
  <1>4. TypeOK /\ MutualExclusion /\ LogInv /\ AckInv /\ AckInv' /\ Counted /\ [Next]_vars
        => [Abstract!Next]_<<read_all, acked>>
    BY ImplementationStep
  <1> QED
    BY <1>1, <1>2, <1>3, <1>4, Typing, Exclusion, PTL DEF Spec, ImplementsStream, Abstract!Spec

-----------------------------------------------------------------------------
(* Events that survive recorders *)

\* The text of e ends the line at i, and is all of it unless something failed.
Ends(e, i) ==
    LET before == Len(lines[i]) - Len(Text(e)) IN
    /\ before >= 0 /\ SubSeq(lines[i], before + 1, Len(lines[i])) = Text(e)
    /\ before > 0 => faults > 0

\* Lines are not torn apart by others: the writers all lock, or write lines
\* that need one write each.
Whole == Locking \/ ~LongLines

\* A returned event ends a line, one that is durable if the store uses fsync.
\* Before that, the piece a writer is about to complete is the last thing in
\* the file, and nothing but a failure leaves an incomplete line otherwise.
SurviveInv ==
    /\ \A p \in Procs : pc[p] = "syncing" => \E i \in DOMAIN lines : Ends(chained[p], i)
    /\ \A p \in Procs : pc[p] = "returning" =>
          \E i \in DOMAIN lines : Ends(chained[p], i) /\ (Fsync => i <= synced)
    /\ \A e \in acked : \E i \in DOMAIN lines : Ends(e, i) /\ (Fsync => i <= synced)
    /\ \A p \in Procs : pc[p] = "flushing" =>
          /\ LongLines
          /\ tail # <<>> /\ tail[Len(tail)] = Text(chained[p])[1]
          /\ Len(tail) > 1 => faults > 0
    /\ tail # <<>> => faults > 0 \/ \E p \in Procs : pc[p] = "flushing"

\* The last two elements of a sequence.
LEMMA LastTwo ==
    ASSUME NEW t, IsSequence(t), Len(t) > 1
    PROVE  SubSeq(t, Len(t) - 1, Len(t)) = <<t[Len(t) - 1], t[Len(t)]>>
  <1> DEFINE S == {t[i] : i \in DOMAIN t}
             n == Len(t)
             u == SubSeq(t, n - 1, n)
  <1>1. n \in Nat /\ DOMAIN t = 1..n
    BY SequenceShape
  <1>2. \A i \in (n - 1)..n : t[i] \in S
    BY <1>1
  <1>3. u \in Seq(S) /\ Len(u) = 2 /\ \A i \in 1..2 : u[i] = t[(n - 1) + i - 1]
    BY <1>1, <1>2, SubSeqProperties
  <1>4. <<t[n - 1], t[n]>> \in Seq(S)
    BY <1>1, <1>2
  <1>5. u[1] = t[n - 1] /\ u[2] = t[n]
    BY <1>1, <1>3
  <1> HIDE DEF u
  <1>6. u = <<t[n - 1], t[n]>>
    BY <1>3, <1>4, <1>5, SeqEqual
  <1> QED
    BY <1>6 DEF u

\* A text behind what is there, and the second piece behind the first, make
\* a line that the text ends.
LEMMA LineEnds ==
    ASSUME NEW s, NEW e, IsSequence(s)
    PROVE  /\ Len(Text(e)) = 2
           /\ /\ Len(s \o Text(e)) = Len(s) + 2
              /\ SubSeq(s \o Text(e), Len(s) + 1, Len(s) + 2) = Text(e)
           /\ s # <<>> /\ s[Len(s)] = Text(e)[1] =>
              /\ Len(s \o <<Text(e)[2]>>) = Len(s) + 1
              /\ SubSeq(s \o <<Text(e)[2]>>, Len(s), Len(s) + 1) = Text(e)
  <1> DEFINE n == Len(s)
             x == Text(e)[2]
             S == {s[i] : i \in DOMAIN s} \cup {Text(e)[1], x}
  <1>1. /\ Text(e) = <<Text(e)[1], x>>
        /\ Len(Text(e)) = 2
        /\ Text(e) \in Seq(S) /\ <<x>> \in Seq(S)
    BY DEF Text
  <1>2. s \in Seq(S) /\ n \in Nat
    BY SequenceShape
  <1>3. SubSeq(s \o Text(e), n + 1, n + 2) = Text(e) /\ Len(s \o Text(e)) = n + 2
    <2> DEFINE t == s \o Text(e)
    <2>1. /\ t \in Seq(S) /\ Len(t) = n + 2
          /\ \A i \in 1..(n + 2) : t[i] = IF i <= n THEN s[i] ELSE Text(e)[i - n]
      <3>1. PICK v : v = Text(e)
        OBVIOUS
      <3>2. v \in Seq(S) /\ Len(v) = 2
        BY <1>1, <3>1
      <3>3. /\ s \o v \in Seq(S) /\ Len(s \o v) = n + 2
            /\ \A i \in 1..(n + 2) : (s \o v)[i] = IF i <= n THEN s[i] ELSE v[i - n]
        <4>1. /\ s \o v \in Seq(S) /\ Len(s \o v) = Len(s) + Len(v)
              /\ \A i \in 1..(Len(s) + Len(v)) :
                     (s \o v)[i] = IF i <= Len(s) THEN s[i] ELSE v[i - Len(s)]
          BY <1>2, <3>2, ConcatProperties
        <4> QED
          BY <3>2, <4>1
      <3> QED
        BY <3>1, <3>3
    <2> HIDE DEF t
    <2>2. t[n + 1] = Text(e)[1] /\ t[n + 2] = x
      BY <1>2, <2>1
    <2>3. IsSequence(t) /\ Len(t) > 1 /\ Len(t) - 1 = n + 1
      BY <1>2, <2>1, SeqIsSequence
    <2>4. SubSeq(t, n + 1, n + 2) = <<t[n + 1], t[n + 2]>>
      BY <2>1, <2>3, LastTwo
    <2> QED
      BY <1>1, <2>1, <2>4, <2>2 DEF t
  <1>4. ASSUME s # <<>>, s[n] = Text(e)[1]
        PROVE  SubSeq(s \o <<x>>, n, n + 1) = Text(e) /\ Len(s \o <<x>>) = n + 1
    <2> DEFINE t == s \o <<x>>
    <2>0. n > 0
      BY <1>2, <1>4, EmptySeq
    <2>1. /\ t \in Seq(S) /\ Len(t) = n + 1
          /\ t[n] = s[n] /\ t[n + 1] = x
      BY <1>1, <1>2, <2>0, ConcatProperties
    <2> HIDE DEF t
    <2>2. IsSequence(t) /\ Len(t) > 1 /\ Len(t) - 1 = n
      BY <1>2, <2>0, <2>1, SeqIsSequence
    <2>3. SubSeq(t, n, n + 1) = <<t[n], t[n + 1]>>
      BY <2>1, <2>2, LastTwo
    <2> QED
      BY <1>1, <1>4, <2>1, <2>3 DEF t
  <1> QED
    BY <1>1, <1>3, <1>4

\* While one writer is between the two writes of a line no other writes.
LEMMA FlushesAlone ==
    ASSUME Whole, TypeOK, MutualExclusion, SurviveInv, NEW p \in Procs, NEW q \in Procs,
           pc[p] = "flushing", pc[q] \in {"writing", "flushing"}
    PROVE  p = q
  BY DEF Whole, Locking, MutualExclusion, SurviveInv, Critical, LocksFirst, LocksLast, Procs

\* A writer that finishes its line ends it with its text, leaves nothing
\* behind it and every other line as it was.
LEMMA FinishEnds ==
    ASSUME Whole, TypeOK, MutualExclusion, SurviveInv, NEW p \in Procs,
           \/ pc[p] = "writing" /\ FinishLine(Text(chained[p]))
           \/ pc[p] = "flushing" /\ FinishLine(<<Text(chained[p])[2]>>),
           chained' = chained, faults' \in {faults, faults + 1}
    PROVE  /\ tail' = <<>>
           /\ \E i \in DOMAIN lines' : Ends(chained[p], i)'
           /\ \A e : \A i \in DOMAIN lines : Ends(e, i) => i \in DOMAIN lines' /\ Ends(e, i)'
  <1> DEFINE text == IF pc[p] = "writing" THEN Text(chained[p]) ELSE <<Text(chained[p])[2]>>
             line == tail \o text
             n == Len(lines)
  <1>1. lines' = Append(lines, line) /\ tail' = <<>>
    BY DEF FinishLine
  <1>2. faults \in Nat /\ faults' \in Nat /\ (faults > 0 => faults' > 0)
    BY ConstantsAssumption DEF TypeOK
  <1>3. /\ n \in Nat /\ DOMAIN lines = 1..n /\ DOMAIN lines' = 1..(n + 1)
        /\ \A i \in 1..n : lines'[i] = lines[i]
        /\ lines'[n + 1] = line
    BY <1>1, SequenceShape, AppendShape DEF TypeOK
  <1>4. Len(Text(chained[p])) = 2 /\ IsSequence(tail) /\ Len(tail) \in Nat
    BY LineEnds, SequenceShape DEF TypeOK
  <1>5. /\ Len(line) - 2 \in Nat
        /\ SubSeq(line, (Len(line) - 2) + 1, Len(line)) = Text(chained[p])
        /\ Len(line) - 2 > 0 => faults > 0
    <2>1. CASE pc[p] = "writing"
      <3>1. /\ Len(line) = Len(tail) + 2
            /\ SubSeq(line, Len(tail) + 1, Len(tail) + 2) = Text(chained[p])
        BY <1>4, <2>1, LineEnds
      <3>2. Len(tail) > 0 => faults > 0
        <4>1. Len(tail) > 0 => tail # <<>>
          BY EmptyShape
        <4>2. \A q \in Procs : pc[q] # "flushing"
          BY <2>1, FlushesAlone
        <4> QED
          BY <4>1, <4>2 DEF SurviveInv
      <3>3. Len(line) - 2 = Len(tail)
        BY <1>4, <3>1
      <3> QED
        BY <1>4, <3>1, <3>2, <3>3
    <2>2. CASE pc[p] = "flushing"
      <3>1. /\ tail # <<>> /\ tail[Len(tail)] = Text(chained[p])[1]
            /\ Len(tail) > 1 => faults > 0
        BY <2>2 DEF SurviveInv
      <3>2. /\ Len(line) = Len(tail) + 1
            /\ SubSeq(line, Len(tail), Len(tail) + 1) = Text(chained[p])
        BY <1>4, <2>2, <3>1, LineEnds
      <3>3. Len(tail) > 0
        BY <1>4, <3>1, SequenceShape, EmptyShape
      <3>4. Len(line) - 2 = Len(tail) - 1 /\ (Len(line) - 2) + 1 = Len(tail)
        BY <1>4, <3>2
      <3> HIDE DEF line
      <3>5. Len(line) - 2 \in Nat /\ (Len(line) - 2 > 0 => faults > 0)
        BY <1>4, <3>1, <3>3, <3>4
      <3>6. SubSeq(line, (Len(line) - 2) + 1, Len(line)) = Text(chained[p])
        BY <3>2, <3>4
      <3> QED
        BY <3>5, <3>6
    <2> QED
      BY <2>1, <2>2
  <1> HIDE DEF line
  <1>6. \E i \in DOMAIN lines' : Ends(chained[p], i)'
    <2>1. PICK i \in DOMAIN lines' : i = n + 1
      BY <1>3
    <2>2. lines'[i] = line
      BY <1>3, <2>1
    <2>3. Ends(chained[p], i)'
      BY <1>2, <1>4, <1>5, <2>2 DEF Ends
    <2> QED
      BY <2>3
  <1>7. ASSUME NEW e, NEW i \in DOMAIN lines, Ends(e, i)
        PROVE  i \in DOMAIN lines' /\ Ends(e, i)'
    <2>1. i \in DOMAIN lines' /\ lines'[i] = lines[i]
      BY <1>3
    <2> QED
      BY <1>2, <1>7, <2>1 DEF Ends
  <1>8. tail' = <<>>
    BY <1>1
  <1> QED
    BY <1>6, <1>7, <1>8

\* A step that leaves lines and acknowledgements alone and moves nobody into
\* or out of a write.
LEMMA SurviveQuietStep ==
    ASSUME SurviveInv, UNCHANGED <<lines, tail, synced, acked>>,
           faults \in Nat, faults' \in {faults, faults + 1},
           \A p \in Procs : pc'[p] \in {"flushing", "syncing", "returning"} =>
               pc'[p] = pc[p] /\ chained'[p] = chained[p],
           (\A p \in Procs : pc[p] = "flushing" => pc'[p] = "flushing") \/ faults' > 0
    PROVE  SurviveInv'
  <1>1. \A e : \A i \in DOMAIN lines : Ends(e, i) => Ends(e, i)'
    BY DEF Ends
  <1> QED
    BY <1>1 DEF SurviveInv

\* Every step keeps the texts of returned events at the ends of their lines.
LEMMA SurviveStep ==
    ASSUME Whole, "power" \in Faults => Fsync,
           TypeOK, MutualExclusion, SurviveInv, [Next]_vars
    PROVE  SurviveInv'
  <1> USE DEF Goto
  <1>0. faults \in Nat /\ Len(lines) \in Nat /\ DOMAIN lines = 1..Len(lines)
    BY SequenceShape, ConstantsAssumption DEF TypeOK
  <1>1. ASSUME NEW p \in Procs,
               \/ Call(p) \/ FileLock(p) \/ ReadAndChain(p) \/ ReadOrEncodeFails(p) \/ Raise(p)
        PROVE  SurviveInv'
    <2>1. UNCHANGED <<lines, tail, synced, acked, faults>>
      BY <1>1 DEF Call, FileLock, DeadlinePasses, CreateLock, OpenExclusive, LockTimeout, log,
           ReadAndChain, ReadOrEncodeFails, Raise
    <2>2. ASSUME NEW q \in Procs, pc'[q] \in {"flushing", "syncing", "returning"}
          PROVE  pc'[q] = pc[q] /\ chained'[q] = chained[q]
      BY <1>1, <2>2 DEF TypeOK, Call, FileLock, DeadlinePasses, CreateLock, OpenExclusive,
           LockTimeout, ReadAndChain, ReadOrEncodeFails, Raise
    <2>3. ASSUME NEW q \in Procs, pc[q] = "flushing"
          PROVE  pc'[q] = "flushing"
      BY <1>1, <2>3 DEF TypeOK, Call, FileLock, DeadlinePasses, CreateLock, OpenExclusive,
           LockTimeout, ReadAndChain, ReadOrEncodeFails, Raise
    <2> QED
      BY <1>0, <2>1, <2>2, <2>3, SurviveQuietStep
  <1>2. ASSUME NEW p \in Procs, AppendShortLine(p) \/ FlushLongLine(p)
        PROVE  SurviveInv'
    <2>1. /\ \/ pc[p] = "writing" /\ FinishLine(Text(chained[p]))
             \/ pc[p] = "flushing" /\ FinishLine(<<Text(chained[p])[2]>>)
          /\ pc' = [pc EXCEPT ![p] = IF Fsync THEN "syncing" ELSE "returning"]
          /\ UNCHANGED <<synced, chained, acked, faults>>
      BY <1>2 DEF AppendShortLine, FlushLongLine, AfterWrite
    <2>2. /\ tail' = <<>>
          /\ \E i \in DOMAIN lines' : Ends(chained[p], i)'
          /\ \A e : \A i \in DOMAIN lines : Ends(e, i) => i \in DOMAIN lines' /\ Ends(e, i)'
      BY <2>1, FinishEnds
    <2>3. \A q \in Procs : pc'[q] # "flushing"
      <3>1. ASSUME NEW q \in Procs, pc[q] = "flushing"
            PROVE  q = p
        BY <2>1, <3>1, FlushesAlone
      <3> QED
        BY <2>1, <3>1 DEF TypeOK
    <2>4. ASSUME NEW q \in Procs, pc'[q] = "syncing"
          PROVE  \E i \in DOMAIN lines' : Ends(chained[q], i)'
      <3>1. CASE q = p
        BY <2>2, <3>1
      <3>2. CASE q # p
        <4>1. pc[q] = "syncing" /\ chained'[q] = chained[q]
          BY <2>1, <2>4, <3>2 DEF TypeOK
        <4>2. PICK i \in DOMAIN lines : Ends(chained[q], i)
          BY <4>1 DEF SurviveInv
        <4>3. i \in DOMAIN lines' /\ Ends(chained[q], i)'
          BY <2>2, <4>1, <4>2 DEF Ends
        <4> QED
          BY <4>3
      <3> QED
        BY <3>1, <3>2
    <2>5. ASSUME NEW q \in Procs, pc'[q] = "returning"
          PROVE  \E i \in DOMAIN lines' : Ends(chained[q], i)' /\ (Fsync => i <= synced')
      <3>1. CASE q = p
        BY <2>1, <2>2, <2>5, <3>1 DEF TypeOK
      <3>2. CASE q # p
        <4>1. pc[q] = "returning" /\ chained'[q] = chained[q]
          BY <2>1, <2>5, <3>2 DEF TypeOK
        <4>2. PICK i \in DOMAIN lines : Ends(chained[q], i) /\ (Fsync => i <= synced)
          BY <4>1 DEF SurviveInv
        <4>3. i \in DOMAIN lines' /\ Ends(chained[q], i)'
          BY <2>2, <4>1, <4>2 DEF Ends
        <4> QED
          BY <2>1, <4>2, <4>3
      <3> QED
        BY <3>1, <3>2
    <2>6. \A e \in acked : \E i \in DOMAIN lines' : Ends(e, i)' /\ (Fsync => i <= synced')
      BY <2>1, <2>2 DEF SurviveInv
    <2> QED
      BY <2>1, <2>2, <2>3, <2>4, <2>5, <2>6 DEF SurviveInv
  <1>3. ASSUME NEW p \in Procs, AppendLongLine(p)
        PROVE  SurviveInv'
    <2>1. /\ LongLines /\ pc[p] = "writing"
          /\ tail' = Append(tail, Text(chained[p])[1])
          /\ pc' = [pc EXCEPT ![p] = "flushing"]
          /\ UNCHANGED <<lines, synced, chained, acked, faults>>
      BY <1>3 DEF AppendLongLine
    <2>2. \A q \in Procs : pc[q] # "flushing"
      BY <2>1, FlushesAlone
    <2>3. tail # <<>> => faults > 0
      BY <2>2 DEF SurviveInv
    <2>4. /\ Len(tail) \in Nat /\ Len(tail') = Len(tail) + 1
          /\ tail'[Len(tail')] = Text(chained[p])[1]
          /\ Len(tail) > 0 => tail # <<>>
      BY <2>1, SequenceShape, AppendShape, EmptyShape DEF TypeOK
    <2>5. tail' # <<>>
      BY <2>4, EmptyShape
    <2>6. \A e : \A i \in DOMAIN lines : Ends(e, i) => Ends(e, i)'
      BY <2>1 DEF Ends
    <2>7. \A q \in Procs : pc'[q] = "flushing" => q = p
      BY <2>1, <2>2 DEF TypeOK
    <2>8. \A q \in Procs : pc'[q] \in {"syncing", "returning"} => pc'[q] = pc[q]
      BY <2>1 DEF TypeOK
    <2>9. pc'[p] = "flushing" /\ (Len(tail') > 1 => faults' > 0)
      BY <2>1, <2>3, <2>4 DEF TypeOK
    <2> QED
      BY <2>1, <2>4, <2>5, <2>6, <2>7, <2>8, <2>9 DEF SurviveInv
  <1>4. ASSUME NEW p \in Procs, SyncLine(p)
        PROVE  SurviveInv'
    <2>1. /\ pc[p] = "syncing" /\ synced' = Len(lines)
          /\ pc' = [pc EXCEPT ![p] = "returning"]
          /\ UNCHANGED <<lines, tail, chained, acked, faults>>
      BY <1>4 DEF SyncLine
    <2>2. \A e : \A i \in DOMAIN lines : Ends(e, i) => Ends(e, i)' /\ i <= synced'
      BY <1>0, <2>1 DEF Ends
    <2>3. \A q \in Procs : /\ pc'[q] \in {"syncing", "returning"} =>
                                pc[q] \in {"syncing", "returning"}
                           /\ pc'[q] = "flushing" <=> pc[q] = "flushing"
      BY <2>1 DEF TypeOK
    <2> QED
      BY <2>1, <2>2, <2>3 DEF SurviveInv
  <1>5. ASSUME NEW p \in Procs, Return(p)
        PROVE  SurviveInv'
    <2>1. /\ pc[p] = "returning"
          /\ pc' = [pc EXCEPT ![p] = "idle"]
          /\ acked' = acked \cup {chained[p]}
          /\ UNCHANGED <<lines, tail, synced, chained, faults>>
      BY <1>5 DEF Return, log
    <2>2. \A e : \A i \in DOMAIN lines : Ends(e, i) => Ends(e, i)'
      BY <2>1 DEF Ends
    <2>3. \A q \in Procs : /\ pc'[q] \in {"syncing", "returning"} => pc'[q] = pc[q]
                           /\ pc'[q] = "flushing" <=> pc[q] = "flushing"
      BY <2>1 DEF TypeOK
    <2> QED
      BY <2>1, <2>2, <2>3 DEF SurviveInv
  <1>6. ASSUME NEW p \in Procs, DiskError(p)
        PROVE  SurviveInv'
    <2>1. /\ faults' = faults + 1 /\ faults' > 0
          /\ pc[p] \in {"writing", "flushing", "syncing"}
          /\ pc' = [pc EXCEPT ![p] = "raising"]
          /\ UNCHANGED <<synced, chained, acked>>
      BY <1>0, <1>6 DEF DiskError, Fault
    <2>2. \A q \in Procs : pc'[q] \in {"flushing", "syncing", "returning"} => pc'[q] = pc[q]
      BY <2>1 DEF TypeOK
    <2>3. CASE UNCHANGED <<lines, tail>>
      BY <1>0, <2>1, <2>2, <2>3, SurviveQuietStep
    <2>4. CASE UNCHANGED lines /\ pc[p] = "writing"
      <3>1. \A q \in Procs : pc'[q] # "flushing"
        BY <2>2, <2>4, FlushesAlone
      <3>2. \A e : \A i \in DOMAIN lines : Ends(e, i) => Ends(e, i)'
        BY <2>1, <2>4 DEF Ends
      <3> QED
        BY <2>1, <2>2, <2>4, <3>1, <3>2 DEF SurviveInv
    <2>5. CASE \/ pc[p] = "writing" /\ FinishLine(Text(chained[p]))
               \/ pc[p] = "flushing" /\ FinishLine(<<Text(chained[p])[2]>>)
      <3>1. /\ tail' = <<>>
            /\ \A e : \A i \in DOMAIN lines : Ends(e, i) => i \in DOMAIN lines' /\ Ends(e, i)'
        BY <2>1, <2>5, FinishEnds
      <3>2. \A q \in Procs : pc'[q] # "flushing"
        <4>1. ASSUME NEW q \in Procs, pc[q] = "flushing"
              PROVE  q = p
          BY <2>5, <4>1, FlushesAlone
        <4> QED
          BY <2>1, <2>2, <4>1 DEF TypeOK
      <3> QED
        BY <2>1, <2>2, <3>1, <3>2 DEF SurviveInv
    <2> QED
      BY <1>6, <2>3, <2>4, <2>5 DEF DiskError
  <1>7. ASSUME NEW p \in Procs, Crash(p)
        PROVE  SurviveInv'
    <2>1. /\ faults' = faults + 1 /\ faults' > 0
          /\ pc' = [pc EXCEPT ![p] = "idle"]
          /\ UNCHANGED <<lines, tail, synced, chained, acked>>
      BY <1>0, <1>7 DEF Crash, Fault, log
    <2>2. \A q \in Procs : pc'[q] \in {"flushing", "syncing", "returning"} => pc'[q] = pc[q]
      BY <2>1 DEF TypeOK
    <2> QED
      BY <1>0, <2>1, <2>2, SurviveQuietStep
  <1>8. ASSUME PowerLoss
        PROVE  SurviveInv'
    <2>1. Fsync /\ faults' = faults + 1 /\ faults' > 0
      BY <1>0, <1>8 DEF PowerLoss, Fault
    <2>2. PICK n \in synced..Len(lines) : lines' = SubSeq(lines, 1, n) /\ synced' = n
      BY <1>8 DEF PowerLoss
    <2>3. n \in 0..Len(lines) /\ synced \in Nat /\ synced <= n
      BY <1>0 DEF TypeOK
    <2>4. DOMAIN lines' = 1..n /\ \A i \in 1..n : lines'[i] = lines[i]
      BY <2>2, <2>3, PrefixShape DEF TypeOK
    <2>5. acked' = acked /\ \A q \in Procs : pc'[q] = "idle"
      BY <1>8 DEF PowerLoss
    <2>6. ASSUME NEW e \in acked
          PROVE  \E i \in DOMAIN lines' : Ends(e, i)' /\ (Fsync => i <= synced')
      <3>1. PICK i \in DOMAIN lines : Ends(e, i) /\ i <= synced
        BY <2>1 DEF SurviveInv
      <3>2. i \in DOMAIN lines' /\ lines'[i] = lines[i] /\ i <= synced'
        BY <1>0, <2>2, <2>3, <2>4, <3>1
      <3>3. Ends(e, i)'
        BY <2>1, <3>1, <3>2 DEF Ends
      <3> QED
        BY <3>2, <3>3
    <2> QED
      BY <2>1, <2>5, <2>6 DEF SurviveInv
  <1>9. CASE RemoveLock \/ UNCHANGED vars
    <2>1. UNCHANGED <<pc, lines, tail, synced, chained, acked, faults>>
      BY <1>9 DEF RemoveLock, vars, log
    <2> QED
      BY <1>0, <2>1, SurviveQuietStep
  <1> QED
    BY <1>1, <1>2, <1>3, <1>4, <1>5, <1>6, <1>7, <1>8, <1>9 DEF Next, Step, AppendLine

\* Writers that lock their writes, or whose lines need one write each, do not
\* destroy each other's events, whichever of the two callers they use and
\* whatever fails; over a loss of power that needs fsync.
THEOREM Survival ==
    ASSUME Whole, "power" \in Faults => Fsync
    PROVE  Spec => []AckedSurvive
  <1>1. Init => SurviveInv
    BY DEF Init, SurviveInv
  <1>2. TypeOK /\ MutualExclusion /\ SurviveInv /\ [Next]_vars => SurviveInv'
    BY SurviveStep
  <1>3. SurviveInv => AckedSurvive
    BY DEF SurviveInv, AckedSurvive, Ends
  <1> QED
    BY <1>1, <1>2, <1>3, Typing, Exclusion, PTL DEF Spec

-----------------------------------------------------------------------------
(* The writers beside the readers *)

\* A reader changes nothing a writer can see: what holds of the writers alone
\* holds of them beside any number of readers.
THEOREM ReadersInvisible == LogSpec => Spec
  <1>1. LogInit => Init
    BY DEF LogInit
  <1>2. [LogNext]_<<vars, readers>> => [Next]_vars
    BY DEF LogNext, Read, OpenForReading, ReadLine, ReadRaises, ReadReturns
  <1> QED
    BY <1>1, <1>2, PTL DEF LogSpec, Spec

\* Without a loss of power the log only grows, line by line, and events that
\* were returned stay returned.
LEMMA LogGrows ==
    ASSUME TypeOK, "power" \notin Faults, [Next]_vars
    PROVE  /\ Len(lines) <= Len(lines')
           /\ \A i \in DOMAIN lines : lines'[i] = lines[i]
           /\ acked \subseteq acked'
  <1>0. Len(lines) \in Nat /\ DOMAIN lines = 1..Len(lines)
    BY SequenceShape DEF TypeOK
  <1>1. CASE UNCHANGED lines
    <2>1. ~PowerLoss
      BY DEF PowerLoss, Fault
    <2>2. acked \subseteq acked'
      BY <2>1 DEF Next, Step, FileLock, AppendLine, Call, DeadlinePasses, CreateLock,
           LockTimeout, ReadAndChain, ReadOrEncodeFails, AppendShortLine,
           AppendLongLine, FlushLongLine, SyncLine, Return, Raise, DiskError, Crash,
           RemoveLock, vars
    <2> QED
      BY <1>0, <1>1, <2>2
  <1>2. ASSUME NEW text, FinishLine(text), acked' = acked
        PROVE  /\ Len(lines) <= Len(lines')
               /\ \A i \in DOMAIN lines : lines'[i] = lines[i]
               /\ acked \subseteq acked'
    <2>1. lines' = Append(lines, tail \o text)
      BY <1>2 DEF FinishLine
    <2> QED
      BY <1>0, <1>2, <2>1, AppendShape DEF TypeOK
  <1>3. \/ UNCHANGED lines
        \/ \E text : FinishLine(text) /\ acked' = acked
    <2>1. ~PowerLoss
      BY DEF PowerLoss, Fault
    <2>2. ASSUME NEW p \in Procs, AppendLine(p) \/ DiskError(p)
          PROVE  \/ UNCHANGED lines
                 \/ \E text : FinishLine(text) /\ acked' = acked
      BY <2>2 DEF AppendLine, AppendShortLine, AppendLongLine, FlushLongLine, SyncLine, DiskError
    <2> QED
      BY <2>1, <2>2 DEF Next, Step, FileLock, Call, DeadlinePasses, CreateLock,
           LockTimeout, ReadAndChain, ReadOrEncodeFails, Return, Raise, Crash,
           RemoveLock, vars, log
  <1> QED
    BY <1>1, <1>2, <1>3

\* What the log begins with it goes on to begin with.
LEMMA BeginningStays ==
    ASSUME TypeOK, NEW events, IsSequence(events), BeginTheLog(events),
           Len(lines') \in Nat, Len(lines) <= Len(lines'),
           \A i \in DOMAIN lines : lines'[i] = lines[i]
    PROVE  BeginTheLog(events)'
  <1>1. /\ Len(events) \in Nat /\ DOMAIN events = 1..Len(events)
        /\ Len(lines) \in Nat /\ DOMAIN lines = 1..Len(lines)
    BY SequenceShape DEF TypeOK
  <1> QED
    BY <1>1 DEF BeginTheLog

-----------------------------------------------------------------------------
(* Snapshots *)

\* Two texts are the same only for one event.
LEMMA TextInjective ==
    ASSUME NEW d, NEW e, Text(d) = Text(e)
    PROVE  d = e
  <1>1. EventOf(Text(d)) = d /\ EventOf(Text(e)) = e
    BY TextDecodes
  <1> QED
    BY <1>1

\* At the end of the file a reader has every event that was returned: the
\* text of each ends a line, and every line is the text of one event.
LEMMA NothingOwed ==
    ASSUME TypeOK, SurviveInv, NEW events, IsSequence(events), BeginTheLog(events),
           Len(events) + 1 > Len(lines), NEW e \in acked
    PROVE  \E i \in DOMAIN events : events[i] = e
  <1>1. /\ Len(events) \in Nat /\ DOMAIN events = 1..Len(events)
        /\ Len(lines) \in Nat /\ DOMAIN lines = 1..Len(lines)
    BY SequenceShape DEF TypeOK
  <1>2. DOMAIN events = DOMAIN lines /\ \A i \in DOMAIN events : lines[i] = Text(events[i])
    <2>1. Len(events) <= Len(lines)
      BY DEF BeginTheLog
    <2>2. Len(events) = Len(lines)
      <3>1. \A m, n \in Nat : m <= n /\ m + 1 > n => m = n
        OBVIOUS
      <3> QED
        BY <1>1, <2>1, <3>1
    <2> QED
      BY <1>1, <2>2 DEF BeginTheLog
  <1>3. PICK i \in DOMAIN lines : Ends(e, i)
    BY DEF SurviveInv
  <1>4. lines[i] = Text(events[i])
    BY <1>2
  <1>5. SubSeq(Text(events[i]), 1, 2) = Text(e)
    <2>1. Len(Text(events[i])) = 2 /\ Len(Text(e)) = 2
      BY DEF Text
    <2> QED
      BY <1>3, <1>4, <2>1 DEF Ends
  <1>6. SubSeq(Text(events[i]), 1, 2) = Text(events[i])
    <2>1. IsSequence(Text(events[i])) /\ Len(Text(events[i])) = 2
      BY TextShape DEF Text
    <2> DEFINE t == Text(events[i])
    <2> HIDE DEF t
    <2>2. SubSeq(t, Len(t) - 1, Len(t)) = <<t[Len(t) - 1], t[Len(t)]>>
      BY <2>1, LastTwo DEF t
    <2>3. SubSeq(t, 1, 2) = <<t[1], t[2]>>
      BY <2>1, <2>2 DEF t
    <2> QED
      BY <2>3 DEF t, Text
  <1> QED
    BY <1>2, <1>5, <1>6, TextInjective

\* What a reader has is what the log begins with, as is every read that
\* returned; and what was returned by when its read began still is.
ReadInv ==
    /\ DOMAIN got = Readers /\ DOMAIN owed = Readers
    /\ \A r \in Readers : got[r] # None => IsSequence(got[r])
    /\ \A s \in snapshots : IsSequence(s.events)
    /\ \A r \in Readers : owed[r] \subseteq acked
    /\ ReadsAreSnapshots

LEMMA ReadInvInit == LogInit => ReadInv
  BY DEF LogInit, Init, ReadInv, ReadsAreSnapshots

\* Neither a step of a writer nor one of a reader spoils a snapshot.
LEMMA ReadInvStep ==
    ASSUME "power" \notin Faults, TypeOK, TypeOK', SurviveInv, ReadInv,
           [LogNext]_<<vars, readers>>
    PROVE  ReadInv'
  <1>0. /\ Len(lines) \in Nat /\ DOMAIN lines = 1..Len(lines)
        /\ Len(lines') \in Nat
    BY SequenceShape DEF TypeOK
  <1>1. ASSUME [Next]_vars, UNCHANGED readers
        PROVE  ReadInv'
    <2>1. /\ Len(lines) <= Len(lines')
          /\ \A i \in DOMAIN lines : lines'[i] = lines[i]
          /\ acked \subseteq acked'
      BY <1>1, LogGrows
    <2>2. ASSUME NEW r \in Readers, got'[r] # None
          PROVE  IsSequence(got'[r]) /\ BeginTheLog(got[r])'
      <3>1. got'[r] = got[r] /\ IsSequence(got[r]) /\ BeginTheLog(got[r])
        BY <1>1, <2>2 DEF readers, ReadInv, ReadsAreSnapshots
      <3>2. PICK x : x = got[r] /\ x = got'[r]
        BY <3>1
      <3>3. IsSequence(x) /\ BeginTheLog(x)
        BY <3>1, <3>2, Zenon DEF IsSequence, BeginTheLog
      <3>4. BeginTheLog(x)'
        BY <1>0, <2>1, <3>3, BeginningStays
      <3> QED
        BY <3>1, <3>2, <3>4 DEF BeginTheLog
    <2>3. ASSUME NEW s \in snapshots
          PROVE  BeginTheLog(s.events)'
      BY <1>0, <2>1, BeginningStays DEF ReadInv, ReadsAreSnapshots
    <2> QED
      BY <1>1, <2>1, <2>2, <2>3 DEF readers, ReadInv, ReadsAreSnapshots
  <1>2. ASSUME NEW r \in Readers, OpenForReading(r)
        PROVE  ReadInv'
    <2>1. /\ got' = [got EXCEPT ![r] = <<>>]
          /\ owed' = [owed EXCEPT ![r] = acked]
          /\ UNCHANGED <<lines, acked, snapshots>>
      BY <1>2 DEF OpenForReading, vars
    <2>2. IsSequence(<<>>) /\ BeginTheLog(<<>>)
      BY <1>0, EmptyShape DEF BeginTheLog
    <2> QED
      BY <2>1, <2>2 DEF ReadInv, ReadsAreSnapshots, BeginTheLog
  <1>3. ASSUME NEW r \in Readers, ReadLine(r)
        PROVE  ReadInv'
    <2> DEFINE n == Len(got[r])
               e == EventOf(lines[n + 1])
               new == Append(got[r], e)
    <2>1. /\ got[r] # None /\ ~(n + 1 > Len(lines))
          /\ lines[n + 1] = Text(e)
          /\ got' = [got EXCEPT ![r] = new]
          /\ UNCHANGED <<lines, acked, owed, snapshots>>
      BY <1>3 DEF ReadLine, vars, AtEnd, NextLine, Decodes
    <2>2. /\ IsSequence(got[r]) /\ BeginTheLog(got[r])
          /\ n \in Nat /\ DOMAIN got[r] = 1..n
      BY <2>1, SequenceShape DEF ReadInv, ReadsAreSnapshots
    <2>3. /\ IsSequence(new) /\ Len(new) = n + 1 /\ DOMAIN new = 1..(n + 1)
          /\ \A i \in 1..n : new[i] = got[r][i]
          /\ new[n + 1] = e
      BY <2>2, AppendShape
    <2> HIDE DEF new
    <2>4. BeginTheLog(new)
      BY <1>0, <2>1, <2>2, <2>3 DEF BeginTheLog
    <2> QED
      BY <2>1, <2>3, <2>4 DEF ReadInv, ReadsAreSnapshots, BeginTheLog
  <1>4. ASSUME NEW r \in Readers, ReadRaises(r)
        PROVE  ReadInv'
    <2>1. /\ got' = [got EXCEPT ![r] = None]
          /\ UNCHANGED <<lines, acked, owed, snapshots>>
      BY <1>4 DEF ReadRaises, vars
    <2> QED
      BY <2>1 DEF ReadInv, ReadsAreSnapshots, BeginTheLog
  <1>5. ASSUME NEW r \in Readers, ReadReturns(r)
        PROVE  ReadInv'
    <2>1. /\ got[r] # None /\ Len(got[r]) + 1 > Len(lines)
          /\ snapshots' = snapshots \cup {[events |-> got[r], owed |-> owed[r]]}
          /\ got' = [got EXCEPT ![r] = None]
          /\ UNCHANGED <<lines, acked, owed>>
      BY <1>5 DEF ReadReturns, vars, AtEnd, NextLine
    <2>2. IsSequence(got[r]) /\ BeginTheLog(got[r]) /\ owed[r] \subseteq acked
      BY <2>1 DEF ReadInv, ReadsAreSnapshots
    <2>3. \A e \in owed[r] : \E i \in DOMAIN got[r] : got[r][i] = e
      BY <2>1, <2>2, NothingOwed
    <2> QED
      BY <2>1, <2>2, <2>3 DEF ReadInv, ReadsAreSnapshots, BeginTheLog
  <1> QED
    BY <1>1, <1>2, <1>3, <1>4, <1>5 DEF LogNext, Read, readers

\* Reading needs no lock: as long as writers do not tear each other's lines
\* apart and the machine keeps its power, what read_all returns is a prefix
\* of the log for ever after, with all that had been returned by when the
\* read began.
THEOREM Snapshots ==
    ASSUME Whole, "power" \notin Faults
    PROVE  LogSpec => []ReadsAreSnapshots
  <1>1. LogInit => SurviveInv
    BY DEF LogInit, Init, SurviveInv
  <1>2. TypeOK /\ MutualExclusion /\ SurviveInv /\ [Next]_vars => SurviveInv'
    BY SurviveStep
  <1>3. TypeOK /\ TypeOK' /\ SurviveInv /\ ReadInv /\ [LogNext]_<<vars, readers>> => ReadInv'
    BY ReadInvStep
  <1>4. [LogNext]_<<vars, readers>> => [Next]_vars
    BY DEF LogNext, Read, OpenForReading, ReadLine, ReadRaises, ReadReturns
  <1>5. ReadInv => ReadsAreSnapshots
    BY DEF ReadInv
  <1> QED
    BY <1>1, <1>2, <1>3, <1>4, <1>5, ReadInvInit, ReadersInvisible, Typing, Exclusion,
       PTL DEF LogSpec
=============================================================================
