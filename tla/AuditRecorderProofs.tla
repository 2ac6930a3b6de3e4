------------------------ MODULE AuditRecorderProofs ------------------------
(***************************************************************************)
(* Proofs about AuditRecorder, for every number of recorders, suffixes,    *)
(* calls and faults.  Two hypotheses say who works on the log: OneRotates, *)
(* where rotated logs are concerned, and OneRecorder, where what one call  *)
(* read has to be what the next event is written behind.  That neither can *)
(* be done without is what the code leaves open: nothing locks the log     *)
(* between the choice of a suffix and the rename, or between the read and  *)
(* the write.                                                              *)
(***************************************************************************)
EXTENDS AuditRecorder, AuditChainProofs

\* At most one process renames logs: a recorder does if it has a policy.
Renames(p) == p \in Rotators \/ HasPolicy
OneRotates == \A p, q \in Procs : Renames(p) /\ Renames(q) => p = q

OneRecorder == \A p, q \in Recorders : p = q
Alone       == OneRecorder /\ Rotators = {}

-----------------------------------------------------------------------------
(* Types *)

BeforeWrite == {"deciding", "picking", "renaming", "opening", "writing"}
AfterWrite  == {"indexing", "returning"}
Places      == {"idle", "reading"} \cup BeforeWrite \cup AfterWrite

TypeInv ==
    /\ IsSequence(files) /\ \A i \in DOMAIN files : IsSequence(files[i])
    /\ active \in 0..Len(files)
    /\ rotated \in [Suffixes -> 0..Len(files)]
    /\ pc \in [Procs -> Places]
    /\ DOMAIN chained = Procs
    /\ suffix \in [Procs -> 0..MaxSuffix]
    /\ handle \in [Procs -> 0..Len(files)]
    /\ calls \in [Procs -> Nat]
    /\ faults \in Nat

\* Who can be where, and with what.
PlaceInv ==
    \A p \in Procs :
        /\ pc[p] \notin {"idle", "picking", "renaming"} => p \in Recorders
        /\ pc[p] \in {"picking", "renaming"} => Renames(p)
        /\ pc[p] = "deciding" => HasPolicy
        /\ pc[p] = "renaming" => suffix[p] \in Suffixes
        /\ pc[p] = "writing" => handle[p] # 0
        /\ pc[p] = "indexing" => UseIndex

\* The names: the process about to rename has the lowest suffix, still free;
\* the log is the youngest file; every file has a name.
NamesInv ==
    /\ SegmentsInOrder
    /\ \A p \in Procs : pc[p] = "renaming" =>
          suffix[p] \in free /\ \A s \in free : suffix[p] <= s
    /\ exists => active = Len(files)
    /\ \A i \in DOMAIN files : i = active \/ \E s \in Suffixes : rotated[s] = i

\* The events of the files are of calls that have begun, no two of one call,
\* and none of a call that has not written yet.
CallsInv ==
    /\ \A i \in DOMAIN files : \A n \in DOMAIN files[i] :
          \E p \in Recorders : \E c \in 0..calls[p] : files[i][n].body = <<p, c>>
    /\ \A i, j \in DOMAIN files : \A m \in DOMAIN files[i], n \in DOMAIN files[j] :
          files[i][m].body = files[j][n].body => i = j /\ m = n
    /\ \A p \in Recorders : pc[p] \in {"reading"} \cup BeforeWrite =>
          \A i \in DOMAIN files : \A n \in DOMAIN files[i] :
              files[i][n].body # <<p, calls[p]>>
    /\ \A p \in Recorders : pc[p] \in BeforeWrite => chained[p].body = <<p, calls[p]>>

Stored(e) == \E i \in DOMAIN files : \E n \in DOMAIN files[i] : files[i][n] = e

\* What has been written, indexed or returned is in the files, and what has
\* been returned is in the index.
KeptInv ==
    /\ \A p \in Recorders : pc[p] \in AfterWrite => Stored(chained[p])
    /\ \A p \in Recorders : UseIndex /\ pc[p] = "returning" => chained[p] \in rows
    /\ \A e \in rows : Stored(e)
    /\ \A e \in acked : Stored(e)
    /\ UseIndex => acked \subseteq rows

\* The recorder writes behind the events it has counted.
RoomInv ==
    /\ SegmentBound
    /\ MaxEvents # None => \A p \in Recorders :
          /\ pc[p] = "opening" /\ exists => Len(files[active]) < MaxEvents
          /\ pc[p] = "writing" => Len(files[handle[p]]) < MaxEvents

\* What an event may name that comes to stand at position n of file i.
MayLink(link, i, n) ==
    IF n > 1 THEN link = PreviousOf(files[i], n)
    ELSE \/ i > 1 /\ link = PreviousOf(files[i - 1], Len(files[i - 1]) + 1)
         \/ (i = 1 \/ faults > 0) /\ link = None

\* The event in the hands of the recorder names the last one of the log, which
\* may have been renamed since.  Between calls the log is missing or empty only
\* if there has never been one or a call was cut short.
LinkAt(p) ==
    LET link == chained[p].previous_event_digest IN
    /\ ~exists /\ pc[p] # "opening" => Len(files) = 0 \/ faults > 0
    /\ exists /\ pc[p] # "writing" => Len(files[active]) > 0 \/ faults > 0
    /\ pc[p] \in {"deciding", "picking", "renaming"} => link = last_digest(read_all)
    /\ pc[p] = "opening" => IF exists THEN link = last_digest(read_all)
                                      ELSE MayLink(link, Len(files) + 1, 1)
    /\ pc[p] = "writing" =>
          /\ exists /\ handle[p] = active
          /\ MayLink(link, active, Len(files[active]) + 1)

LinkInv == DigestsLinked /\ \A p \in Recorders : LinkAt(p)

\* open("a") leaves every line where it was, and may create an empty file.
LEMMA Opened ==
    ASSUME TypeInv, NEW p \in Procs, OpenLog(p)
    PROVE  /\ IsSequence(files') /\ \A i \in DOMAIN files' : IsSequence(files'[i])
           /\ DOMAIN files = 1..Len(files) /\ DOMAIN files' = 1..Len(files')
           /\ Len(files) \in Nat /\ Len(files') \in Nat
           /\ \A i \in DOMAIN files : i \in DOMAIN files' /\ files'[i] = files[i]
           /\ exists => files' = files /\ active' = active
           /\ ~exists => /\ Len(files') = Len(files) + 1 /\ active' = Len(files) + 1
                         /\ files'[Len(files) + 1] = <<>>
           /\ active' \in 1..Len(files') /\ handle'[p] = active'
           /\ handle' = [handle EXCEPT ![p] = active']
  <1>1. /\ IsSequence(files) /\ Len(files) \in Nat /\ DOMAIN files = 1..Len(files)
        /\ \A i \in DOMAIN files : IsSequence(files[i])
        /\ active \in 0..Len(files)
    BY SequenceShape DEF TypeInv
  <1>2. handle' = [handle EXCEPT ![p] = active'] /\ handle'[p] = active'
    BY DEF OpenLog, TypeInv
  <1>3. CASE exists
    <2>1. files' = files /\ active' = active /\ active # 0
      BY <1>3 DEF OpenLog, exists
    <2> QED
      BY <1>1, <1>2, <1>3, <2>1
  <1>4. CASE ~exists
    <2>1. files' = Append(files, <<>>) /\ active' = Len(files) + 1
      BY <1>4 DEF OpenLog
    <2>2. /\ IsSequence(files') /\ Len(files') = Len(files) + 1
          /\ DOMAIN files' = 1..(Len(files) + 1)
          /\ \A i \in 1..Len(files) : files'[i] = files[i]
          /\ files'[Len(files) + 1] = <<>>
      BY <1>1, <2>1, AppendShape
    <2>3. \A i \in DOMAIN files' : IsSequence(files'[i])
      BY <1>1, <2>2, EmptyShape
    <2>4. active' \in 1..Len(files') /\ \A i \in DOMAIN files : i \in DOMAIN files'
      BY <1>1, <2>1, <2>2
    <2>5. Len(files') \in Nat /\ DOMAIN files' = 1..Len(files')
      BY <1>1, <2>2
    <2> QED
      BY <1>1, <1>2, <1>4, <2>1, <2>2, <2>3, <2>4, <2>5
  <1> QED
    BY <1>3, <1>4

\* The line is written behind the last one of the file that was opened.
LEMMA Wrote ==
    ASSUME TypeInv, PlaceInv, NEW p \in Procs, WriteLine(p)
    PROVE  /\ IsSequence(files') /\ \A i \in DOMAIN files' : IsSequence(files'[i])
           /\ DOMAIN files = 1..Len(files) /\ DOMAIN files' = 1..Len(files)
           /\ Len(files) \in Nat /\ Len(files') = Len(files)
           /\ handle[p] \in DOMAIN files
           /\ \A i \in DOMAIN files : i # handle[p] => files'[i] = files[i]
           /\ Len(files[handle[p]]) \in Nat
           /\ Len(files'[handle[p]]) = Len(files[handle[p]]) + 1
           /\ DOMAIN files[handle[p]] = 1..Len(files[handle[p]])
           /\ DOMAIN files'[handle[p]] = 1..(Len(files[handle[p]]) + 1)
           /\ \A n \in DOMAIN files[handle[p]] :
                 files'[handle[p]][n] = files[handle[p]][n]
           /\ files'[handle[p]][Len(files[handle[p]]) + 1] = chained[p]
  <1>1. PICK h : h = handle[p]
    OBVIOUS
  <1>2. /\ IsSequence(files) /\ Len(files) \in Nat /\ DOMAIN files = 1..Len(files)
        /\ \A i \in DOMAIN files : IsSequence(files[i])
    BY SequenceShape DEF TypeInv
  <1>3. h \in DOMAIN files
    <2>1. h \in 0..Len(files) /\ h # 0
      BY <1>1 DEF TypeInv, PlaceInv, WriteLine
    <2> QED
      BY <1>2, <2>1
  <1>4. PICK line : line = Append(files[h], chained[p])
    OBVIOUS
  <1>5. files' = [files EXCEPT ![h] = line]
    BY <1>1, <1>4 DEF WriteLine
  <1>6. /\ IsSequence(files') /\ Len(files') = Len(files) /\ DOMAIN files' = DOMAIN files
        /\ files'[h] = line
        /\ \A i \in DOMAIN files : i # h => files'[i] = files[i]
    BY <1>2, <1>3, <1>5, ExceptShape
  <1>7. /\ IsSequence(line) /\ Len(line) = Len(files[h]) + 1
        /\ DOMAIN line = 1..(Len(files[h]) + 1)
        /\ \A n \in 1..Len(files[h]) : line[n] = files[h][n]
        /\ line[Len(files[h]) + 1] = chained[p]
    BY <1>2, <1>3, <1>4, AppendShape
  <1>8. Len(files[h]) \in Nat /\ DOMAIN files[h] = 1..Len(files[h])
    BY <1>2, <1>3, SequenceShape
  <1>9. \A i \in DOMAIN files' : IsSequence(files'[i])
    BY <1>2, <1>6, <1>7
  <1> QED
    BY <1>1, <1>2, <1>3, <1>6, <1>7, <1>8, <1>9

\* The suffix a process picks is free, and the lowest that is.
LEMMA LowestFree ==
    ASSUME free # {}
    PROVE  lowest_free \in free /\ \A s \in free : lowest_free <= s
  <1>1. free \subseteq Nat
    BY ConstantsAssumption DEF free, Suffixes
  <1>2. \E s \in free : \A t \in free : s <= t
    BY <1>1, LeastNumber
  <1> QED
    BY <1>2 DEF lowest_free

\* The types are kept, and everybody is where they may be.
LEMMA TypeStep ==
    ASSUME TypeInv, PlaceInv, [Next]_vars
    PROVE  TypeInv' /\ PlaceInv'
  <1> USE DEF Goto, disk
  <1>0. Procs = Recorders \cup Rotators
    BY DEF Procs
  <1>1. ASSUME NEW p \in Procs, Call(p)
        PROVE  TypeInv' /\ PlaceInv'
    <2>1. TypeInv'
      BY <1>1 DEF TypeInv, Call, Places, BeforeWrite
    <2>2. PlaceInv'
      BY <1>0, <1>1 DEF TypeInv, PlaceInv, Call, Renames
    <2> QED
      BY <2>1, <2>2
  <1>2. ASSUME NEW p \in Procs, ReadAndChain(p)
        PROVE  TypeInv' /\ PlaceInv'
    <2>1. TypeInv'
      BY <1>2 DEF TypeInv, ReadAndChain, Places, BeforeWrite
    <2>2. PlaceInv'
      BY <1>2 DEF TypeInv, PlaceInv, ReadAndChain
    <2> QED
      BY <2>1, <2>2
  <1>3. ASSUME NEW p \in Procs, rotation_decision(p)
        PROVE  TypeInv' /\ PlaceInv'
    <2>1. TypeInv'
      BY <1>3 DEF TypeInv, rotation_decision, Places, BeforeWrite
    <2>2. PlaceInv'
      BY <1>3 DEF TypeInv, PlaceInv, rotation_decision, Renames
    <2> QED
      BY <2>1, <2>2
  <1>4. ASSUME NEW p \in Procs, next_rotated_path(p)
        PROVE  TypeInv' /\ PlaceInv'
    <2>1. free # {} => lowest_free \in Suffixes /\ lowest_free \in 0..MaxSuffix
      BY LowestFree, ConstantsAssumption DEF free, Suffixes
    <2>2. TypeInv'
      BY <1>4, <2>1 DEF TypeInv, next_rotated_path, Places, BeforeWrite
    <2>3. PlaceInv'
      <3>1. \A q \in Procs \ {p} : pc'[q] = pc[q] /\ suffix'[q] = suffix[q]
        BY <1>4 DEF TypeInv, next_rotated_path
      <3>2. Renames(p) /\ handle' = handle
        BY <1>4 DEF PlaceInv, next_rotated_path
      <3>3. \/ pc'[p] = "renaming" /\ suffix'[p] \in Suffixes
            \/ pc'[p] = "idle"
            \/ pc'[p] = "opening" /\ p \in Recorders
        BY <1>4, <2>1 DEF TypeInv, next_rotated_path
      <3>4. Renames(p)' <=> Renames(p)
        BY DEF Renames
      <3> QED
        BY <3>1, <3>2, <3>3, <3>4 DEF PlaceInv, Renames
    <2> QED
      BY <2>2, <2>3
  <1>5. ASSUME NEW p \in Procs, rotate_stream(p)
        PROVE  TypeInv' /\ PlaceInv'
    <2>1. suffix[p] \in Suffixes /\ Len(files) \in Nat
      BY <1>5, SequenceShape DEF PlaceInv, rotate_stream, TypeInv
    <2>2. TypeInv'
      <3>1. pc' \in [Procs -> Places]
        BY <1>5 DEF TypeInv, rotate_stream, Places, BeforeWrite
      <3>2. rotated' \in [Suffixes -> 0..Len(files)] /\ active' \in 0..Len(files)
        <4>1. /\ rotated \in [Suffixes -> 0..Len(files)] /\ active \in 0..Len(files)
              /\ 0 \in 0..Len(files)
          BY <2>1 DEF TypeInv
        <4>2. \/ rotated' = [rotated EXCEPT ![suffix[p]] = active] /\ active' = 0
              \/ UNCHANGED <<rotated, active>>
          BY <1>5 DEF rotate_stream
        <4> QED
          BY <4>1, <4>2
      <3>3. UNCHANGED <<files, chained, suffix, handle, calls, faults>>
        BY <1>5 DEF rotate_stream
      <3> QED
        BY <3>1, <3>2, <3>3 DEF TypeInv
    <2>3. PlaceInv'
      BY <1>5 DEF TypeInv, PlaceInv, rotate_stream
    <2> QED
      BY <2>2, <2>3
  <1>6. ASSUME NEW p \in Procs, OpenLog(p)
        PROVE  TypeInv' /\ PlaceInv'
    <2>1. /\ IsSequence(files') /\ \A i \in DOMAIN files' : IsSequence(files'[i])
          /\ Len(files) \in Nat /\ Len(files') \in Nat
          /\ Len(files) <= Len(files')
          /\ active' \in 1..Len(files')
          /\ handle' = [handle EXCEPT ![p] = active']
      BY <1>6, Opened
    <2>2. \A n \in 0..Len(files) : n \in 0..Len(files')
      BY <2>1
    <2>3. /\ handle' \in [Procs -> 0..Len(files')] /\ handle'[p] # 0
          /\ rotated' \in [Suffixes -> 0..Len(files')]
      BY <1>6, <2>1, <2>2 DEF TypeInv, OpenLog
    <2>4. TypeInv'
      BY <1>6, <2>1, <2>3 DEF TypeInv, OpenLog, Places, BeforeWrite
    <2>5. PlaceInv'
      BY <1>6, <2>1, <2>3 DEF TypeInv, PlaceInv, OpenLog
    <2> QED
      BY <2>4, <2>5
  <1>7. ASSUME NEW p \in Procs, WriteLine(p)
        PROVE  TypeInv' /\ PlaceInv'
    <2>1. /\ IsSequence(files') /\ \A i \in DOMAIN files' : IsSequence(files'[i])
          /\ Len(files') = Len(files)
      BY <1>7, Wrote
    <2>2. TypeInv'
      BY <1>7, <2>1 DEF TypeInv, WriteLine, Places, AfterWrite
    <2>3. PlaceInv'
      BY <1>7 DEF TypeInv, PlaceInv, WriteLine
    <2> QED
      BY <2>2, <2>3
  <1>8. ASSUME NEW p \in Procs, IndexEvent(p)
        PROVE  TypeInv' /\ PlaceInv'
    <2>1. TypeInv'
      BY <1>8 DEF TypeInv, IndexEvent, Places, AfterWrite
    <2>2. PlaceInv'
      BY <1>8 DEF TypeInv, PlaceInv, IndexEvent
    <2> QED
      BY <2>1, <2>2
  <1>9. ASSUME NEW p \in Procs, Return(p) \/ CutShort(p)
        PROVE  TypeInv' /\ PlaceInv'
    <2>1. TypeInv'
      <3>1. pc' \in [Procs -> Places]
        BY <1>9 DEF TypeInv, Return, CutShort, Places
      <3>2. faults' \in Nat
        BY <1>9 DEF TypeInv, Return, CutShort
      <3>3. UNCHANGED <<disk, chained, suffix, handle, calls>>
        BY <1>9 DEF Return, CutShort
      <3> QED
        BY <3>1, <3>2, <3>3 DEF TypeInv
    <2>2. PlaceInv'
      BY <1>9 DEF TypeInv, PlaceInv, Return, CutShort
    <2> QED
      BY <2>1, <2>2
  <1>10. CASE UNCHANGED vars
    BY <1>10 DEF vars, TypeInv, PlaceInv
  <1> QED
    BY <1>1, <1>2, <1>3, <1>4, <1>5, <1>6, <1>7, <1>8, <1>9, <1>10
       DEF Next, append_event, Rotate

LEMMA TypeAlways == Spec => [](TypeInv /\ PlaceInv)
  <1>1. Init => TypeInv /\ PlaceInv
    BY EmptyShape, ConstantsAssumption DEF Init, TypeInv, PlaceInv, Places
  <1> QED
    BY <1>1, TypeStep, PTL DEF Spec

-----------------------------------------------------------------------------
(* The names of the logs *)

\* The steps that touch no name.
LEMMA NamesQuiet ==
    ASSUME NamesInv, NEW p \in Procs, UNCHANGED <<active, rotated, suffix>>,
           Len(files') = Len(files), DOMAIN files' = DOMAIN files,
           \A q \in Procs \ {p} : pc'[q] = pc[q], pc'[p] # "renaming"
    PROVE  NamesInv'
  <1>1. SegmentsInOrder'
    BY DEF NamesInv, SegmentsInOrder, exists
  <1>2. \A q \in Procs : pc'[q] = "renaming" =>
            suffix'[q] \in free' /\ \A s \in free' : suffix'[q] <= s
    BY DEF NamesInv, free
  <1>3. exists' => active' = Len(files')
    BY DEF NamesInv, exists
  <1>4. \A i \in DOMAIN files' : i = active' \/ \E s \in Suffixes : rotated'[s] = i
    BY DEF NamesInv
  <1> QED
    BY <1>1, <1>2, <1>3, <1>4 DEF NamesInv

\* While one process renames, the suffix it picked stays free and the lowest.
LEMMA NamesStep ==
    ASSUME OneRotates, TypeInv, PlaceInv, NamesInv, [Next]_vars
    PROVE  NamesInv' /\ \A s \in Suffixes : rotated[s] # 0 => rotated'[s] = rotated[s]
  <1> USE DEF Goto, disk
  <1>0. /\ Len(files) \in Nat /\ DOMAIN files = 1..Len(files)
        /\ active \in 0..Len(files)
        /\ \A s \in Suffixes : rotated[s] \in 0..Len(files)
    BY SequenceShape DEF TypeInv
  <1>1. ASSUME NEW p \in Procs, Call(p) \/ ReadAndChain(p) \/ rotation_decision(p)
                                \/ IndexEvent(p) \/ Return(p) \/ CutShort(p)
        PROVE  NamesInv' /\ rotated' = rotated
    <2>1. /\ UNCHANGED <<files, active, rotated, suffix>>
          /\ \E place \in Places \ {"renaming"} : pc' = [pc EXCEPT ![p] = place]
      BY <1>1 DEF Call, ReadAndChain, rotation_decision, IndexEvent, Return, CutShort,
                  Places, BeforeWrite, AfterWrite
    <2>2. (\A q \in Procs \ {p} : pc'[q] = pc[q]) /\ pc'[p] # "renaming"
      BY <2>1 DEF TypeInv
    <2> QED
      BY <2>1, <2>2, NamesQuiet
  <1>2. ASSUME NEW p \in Procs, WriteLine(p)
        PROVE  NamesInv' /\ rotated' = rotated
    <2>1. Len(files') = Len(files) /\ DOMAIN files' = DOMAIN files
      BY <1>2, Wrote
    <2>2. /\ UNCHANGED <<active, rotated, suffix>>
          /\ \A q \in Procs \ {p} : pc'[q] = pc[q]
          /\ pc'[p] # "renaming"
      BY <1>2 DEF WriteLine, TypeInv
    <2> QED
      BY <2>1, <2>2, NamesQuiet
  <1>3. ASSUME NEW p \in Procs, next_rotated_path(p)
        PROVE  NamesInv' /\ rotated' = rotated
    <2>1. UNCHANGED <<files, active, rotated>>
      BY <1>3 DEF next_rotated_path
    <2>2. \A q \in Procs \ {p} : pc'[q] = pc[q] /\ suffix'[q] = suffix[q]
      BY <1>3 DEF next_rotated_path, TypeInv
    <2>3. pc'[p] = "renaming" => free # {} /\ suffix'[p] = lowest_free
      BY <1>3 DEF next_rotated_path, TypeInv
    <2>4. SegmentsInOrder' /\ free' = free /\ (exists' => active' = Len(files'))
      BY <2>1 DEF NamesInv, SegmentsInOrder, exists, free
    <2>5. \A q \in Procs : pc'[q] = "renaming" =>
              suffix'[q] \in free' /\ \A s \in free' : suffix'[q] <= s
      BY <2>2, <2>3, <2>4, LowestFree DEF NamesInv
    <2> QED
      BY <2>1, <2>4, <2>5 DEF NamesInv
  <1>4. ASSUME NEW p \in Procs, rotate_stream(p)
        PROVE  NamesInv' /\ \A s \in Suffixes : rotated[s] # 0 => rotated'[s] = rotated[s]
    <2>1. CASE ~exists
      <3>1. /\ UNCHANGED <<files, active, rotated, suffix>>
            /\ pc' = [pc EXCEPT ![p] = "idle"]
        BY <1>4, <2>1 DEF rotate_stream
      <3>2. (\A q \in Procs \ {p} : pc'[q] = pc[q]) /\ pc'[p] # "renaming"
        BY <3>1 DEF TypeInv
      <3> QED
        BY <3>1, <3>2, NamesQuiet
    <2>2. CASE exists
      <3>1. PICK target : target = suffix[p]
        OBVIOUS
      <3>2. /\ rotated' = [rotated EXCEPT ![target] = active] /\ active' = 0
            /\ UNCHANGED <<files, suffix>> /\ pc[p] = "renaming"
            /\ \A q \in Procs \ {p} : pc'[q] = pc[q]
            /\ pc'[p] # "renaming"
        BY <1>4, <2>2, <3>1 DEF rotate_stream, TypeInv
      <3>3. /\ target \in Suffixes /\ rotated[target] = 0
            /\ \A s \in Suffixes : rotated[s] = 0 => target <= s
        BY <3>1, <3>2 DEF NamesInv, free
      <3>4. /\ rotated'[target] = active
            /\ \A s \in Suffixes : s # target => rotated'[s] = rotated[s]
        BY <3>2, <3>3 DEF TypeInv
      <3>5. active = Len(files) /\ \A s \in Suffixes : rotated[s] < active
        BY <2>2 DEF NamesInv, SegmentsInOrder
      <3>6. SegmentsInOrder'
        <4>1. ASSUME NEW s \in Suffixes, NEW t \in Suffixes, s < t, rotated'[t] # 0
              PROVE  rotated'[s] # 0 /\ rotated'[s] < rotated'[t]
          <5>0. s \in Int /\ t \in Int /\ target \in Int
            BY <3>3 DEF Suffixes
          <5>1. CASE t = target
            <6>1. s # target /\ rotated[s] # 0
              BY <3>3, <4>1, <5>0, <5>1
            <6> QED
              BY <3>4, <3>5, <5>1, <6>1
          <5>2. CASE t # target
            <6>1. rotated[t] # 0 /\ rotated[s] # 0 /\ rotated[s] < rotated[t]
              BY <3>4, <4>1, <5>2 DEF NamesInv, SegmentsInOrder
            <6>2. s # target
              BY <3>3, <6>1
            <6> QED
              BY <3>4, <5>2, <6>1, <6>2
          <5> QED
            BY <5>1, <5>2
        <4> QED
          BY <3>2, <4>1 DEF SegmentsInOrder, exists
      <3>7. ASSUME NEW q \in Procs
            PROVE  pc'[q] # "renaming"
        <4>1. pc[q] = "renaming" => q = p
          BY <3>2 DEF OneRotates, PlaceInv
        <4> QED
          BY <3>2, <4>1
      <3>8. ASSUME NEW i \in DOMAIN files'
            PROVE  \E s \in Suffixes : rotated'[s] = i
        <4>1. CASE i = active
          BY <3>3, <3>4, <4>1
        <4>2. CASE i # active
          <5>1. PICK s \in Suffixes : rotated[s] = i
            BY <3>2, <4>2 DEF NamesInv
          <5>2. i # 0
            BY <1>0, <3>2
          <5> QED
            BY <3>3, <3>4, <5>1, <5>2
        <4> QED
          BY <4>1, <4>2
      <3> QED
        BY <3>2, <3>3, <3>4, <3>6, <3>7, <3>8 DEF NamesInv, exists
    <2> QED
      BY <2>1, <2>2
  <1>5. ASSUME NEW p \in Procs, OpenLog(p)
        PROVE  NamesInv' /\ rotated' = rotated
    <2>1. /\ UNCHANGED <<rotated, suffix>>
          /\ \A q \in Procs \ {p} : pc'[q] = pc[q]
          /\ pc'[p] # "renaming"
      BY <1>5 DEF OpenLog, TypeInv
    <2>2. CASE exists
      BY <1>5, <2>1, <2>2, Opened, NamesQuiet
    <2>3. CASE ~exists
      <3>1. /\ Len(files') = Len(files) + 1 /\ active' = Len(files) + 1
            /\ DOMAIN files' = 1..(Len(files) + 1)
        BY <1>5, <2>3, Opened
      <3>2. SegmentsInOrder' /\ free' = free
        <4>1. \A s \in Suffixes : rotated[s] < active'
          BY <1>0, <3>1
        <4>2. SegmentsInOrder
          BY DEF NamesInv
        <4> QED
          BY <2>1, <4>1, <4>2 DEF SegmentsInOrder, free
      <3>3. \A i \in DOMAIN files' : i = active' \/ i \in DOMAIN files \ {active}
        BY <1>0, <2>3, <3>1 DEF exists
      <3>4. \A i \in DOMAIN files' : i = active' \/ \E s \in Suffixes : rotated'[s] = i
        BY <2>1, <3>3 DEF NamesInv
      <3> QED
        BY <2>1, <3>1, <3>2, <3>4 DEF NamesInv
    <2> QED
      BY <2>1, <2>2, <2>3
  <1>6. CASE UNCHANGED vars
    BY <1>6 DEF vars, NamesInv, SegmentsInOrder, exists, free
  <1> QED
    BY <1>1, <1>2, <1>3, <1>4, <1>5, <1>6 DEF Next, append_event, Rotate

LEMMA NamesAlways ==
    ASSUME OneRotates
    PROVE  Spec => [](TypeInv /\ PlaceInv /\ NamesInv)
  <1>1. Init => NamesInv
    BY EmptyShape DEF Init, NamesInv, SegmentsInOrder, exists
  <1>2. TypeInv /\ PlaceInv /\ NamesInv /\ [Next]_vars => NamesInv'
    BY NamesStep
  <1> QED
    BY <1>1, <1>2, TypeAlways, PTL DEF Spec

\* The numbers of the rotated logs give their age, if one process rotates.
THEOREM Order ==
    ASSUME OneRotates
    PROVE  Spec => []SegmentsInOrder
  <1>1. NamesInv => SegmentsInOrder
    BY DEF NamesInv
  <1> QED
    BY <1>1, NamesAlways, PTL

\* Rotation never replaces a log that has been rotated before, if one process
\* rotates.
THEOREM PathsStay ==
    ASSUME OneRotates
    PROVE  Spec => RotatedPathsStay
  <1>1. TypeInv /\ PlaceInv /\ NamesInv /\ [Next]_vars
            => [\A s \in Suffixes : rotated[s] # 0 => rotated'[s] = rotated[s]]_rotated
    BY NamesStep
  <1> QED
    BY <1>1, NamesAlways, PTL DEF Spec, RotatedPathsStay

-----------------------------------------------------------------------------
(* The events that were returned *)

\* The files have the lines they had, if perhaps one empty file more.
SameLines ==
    /\ \A i \in DOMAIN files : \A n \in DOMAIN files[i] :
          i \in DOMAIN files' /\ n \in DOMAIN files'[i] /\ files'[i][n] = files[i][n]
    /\ \A i \in DOMAIN files' : \A n \in DOMAIN files'[i] :
          i \in DOMAIN files /\ n \in DOMAIN files[i] /\ files'[i][n] = files[i][n]

LEMMA OpenedSameLines ==
    ASSUME TypeInv, NEW p \in Procs, OpenLog(p)
    PROVE  SameLines
  <1>1. /\ DOMAIN files = 1..Len(files) /\ DOMAIN files' = 1..Len(files')
        /\ Len(files) \in Nat
        /\ \A i \in DOMAIN files : i \in DOMAIN files' /\ files'[i] = files[i]
        /\ exists => files' = files
        /\ ~exists => Len(files') = Len(files) + 1 /\ files'[Len(files) + 1] = <<>>
    BY Opened
  <1>2. CASE exists
    BY <1>1, <1>2 DEF SameLines
  <1>3. CASE ~exists
    <2>1. \A i \in DOMAIN files' : i \in DOMAIN files \/ files'[i] = <<>>
      BY <1>1, <1>3
    <2>2. DOMAIN <<>> = {}
      OBVIOUS
    <2> QED
      BY <1>1, <2>1, <2>2 DEF SameLines
  <1> QED
    BY <1>2, <1>3

\* The steps that write no line and begin no call.
LEMMA CallsQuiet ==
    ASSUME CallsInv, NEW p \in Procs, SameLines, UNCHANGED <<calls, chained>>,
           \A q \in Procs \ {p} : pc'[q] = pc[q],
           p \in Recorders /\ pc'[p] \in {"reading"} \cup BeforeWrite =>
               pc[p] \in BeforeWrite
    PROVE  CallsInv'
  <1>0. Recorders \subseteq Procs
    BY DEF Procs
  <1>1. \A i \in DOMAIN files' : \A n \in DOMAIN files'[i] :
            \E q \in Recorders : \E c \in 0..calls'[q] : files'[i][n].body = <<q, c>>
    BY DEF CallsInv, SameLines
  <1>2. \A i, j \in DOMAIN files' : \A m \in DOMAIN files'[i], n \in DOMAIN files'[j] :
            files'[i][m].body = files'[j][n].body => i = j /\ m = n
    BY DEF CallsInv, SameLines
  <1>3. \A q \in Recorders : pc'[q] \in {"reading"} \cup BeforeWrite =>
            pc[q] \in {"reading"} \cup BeforeWrite
    BY <1>0
  <1>4. \A q \in Recorders : pc'[q] \in {"reading"} \cup BeforeWrite =>
            \A i \in DOMAIN files' : \A n \in DOMAIN files'[i] :
                files'[i][n].body # <<q, calls'[q]>>
    BY <1>3 DEF CallsInv, SameLines
  <1>5. \A q \in Recorders : pc'[q] \in BeforeWrite => chained'[q].body = <<q, calls'[q]>>
    BY <1>0 DEF CallsInv
  <1> QED
    BY <1>1, <1>2, <1>4, <1>5 DEF CallsInv

LEMMA CallsStep ==
    ASSUME TypeInv, PlaceInv, CallsInv, [Next]_vars
    PROVE  CallsInv'
  <1> USE DEF Goto, disk
  <1>0. Recorders \subseteq Procs /\ Recorders \cap Rotators = {}
    BY ConstantsAssumption DEF Procs
  <1>1. ASSUME NEW p \in Procs, Call(p)
        PROVE  CallsInv'
    <2>1. /\ UNCHANGED <<files, chained>>
          /\ \A q \in Procs \ {p} : pc'[q] = pc[q] /\ calls'[q] = calls[q]
          /\ calls'[p] = calls[p] + 1 /\ calls[p] \in Nat
          /\ p \in Recorders => pc'[p] = "reading"
      BY <1>1 DEF Call, TypeInv
    <2>2. \A i \in DOMAIN files' : \A n \in DOMAIN files'[i] :
              \E q \in Recorders : \E c \in 0..calls'[q] : files'[i][n].body = <<q, c>>
      <3>1. \A q \in Recorders : 0..calls[q] \subseteq 0..calls'[q]
        BY <1>0, <2>1
      <3> QED
        BY <2>1, <3>1 DEF CallsInv
    <2>3. p \in Recorders =>
              \A i \in DOMAIN files : \A n \in DOMAIN files[i] :
                  files[i][n].body # <<p, calls[p] + 1>>
      <3> SUFFICES ASSUME NEW i \in DOMAIN files, NEW n \in DOMAIN files[i]
                   PROVE  files[i][n].body # <<p, calls[p] + 1>>
        OBVIOUS
      <3>1. PICK q \in Recorders : \E c \in 0..calls[q] : files[i][n].body = <<q, c>>
        BY DEF CallsInv
      <3>2. PICK c \in 0..calls[q] : files[i][n].body = <<q, c>>
        BY <3>1
      <3> QED
        BY <2>1, <3>2
    <2>4. \A q \in Recorders : pc'[q] \in {"reading"} \cup BeforeWrite =>
              \A i \in DOMAIN files' : \A n \in DOMAIN files'[i] :
                  files'[i][n].body # <<q, calls'[q]>>
      BY <1>0, <2>1, <2>3 DEF CallsInv
    <2>5. \A q \in Recorders : pc'[q] \in BeforeWrite => chained'[q].body = <<q, calls'[q]>>
      BY <1>0, <2>1 DEF CallsInv, BeforeWrite
    <2> QED
      BY <2>1, <2>2, <2>4, <2>5 DEF CallsInv
  <1>2. ASSUME NEW p \in Procs, ReadAndChain(p)
        PROVE  CallsInv'
    <2>1. /\ UNCHANGED <<files, calls>> /\ pc[p] = "reading"
          /\ \A q \in Procs \ {p} : pc'[q] = pc[q] /\ chained'[q] = chained[q]
          /\ chained'[p] = chain_next(read_all, <<p, calls[p]>>, Stream)
      BY <1>2 DEF ReadAndChain, TypeInv
    <2>2. chained'[p].body = <<p, calls[p]>>
      BY <2>1 DEF chain_next, append_integrity
    <2>3. \A q \in Recorders : pc'[q] \in {"reading"} \cup BeforeWrite =>
              pc[q] \in {"reading"} \cup BeforeWrite
      BY <1>0, <2>1
    <2> QED
      BY <1>0, <2>1, <2>2, <2>3 DEF CallsInv
  <1>3. ASSUME NEW p \in Procs, rotation_decision(p) \/ next_rotated_path(p)
                                \/ rotate_stream(p) \/ IndexEvent(p) \/ Return(p)
                                \/ CutShort(p)
        PROVE  CallsInv'
    <2>1. /\ UNCHANGED <<files, calls, chained>>
          /\ \A q \in Procs \ {p} : pc'[q] = pc[q]
          /\ pc'[p] \in {"reading"} \cup BeforeWrite => pc[p] \in BeforeWrite
      BY <1>3 DEF rotation_decision, next_rotated_path, rotate_stream, IndexEvent,
                  Return, CutShort, TypeInv, BeforeWrite
    <2> QED
      BY <2>1, CallsQuiet DEF SameLines
  <1>4. ASSUME NEW p \in Procs, OpenLog(p)
        PROVE  CallsInv'
    <2>1. /\ UNCHANGED <<calls, chained>>
          /\ \A q \in Procs \ {p} : pc'[q] = pc[q]
          /\ pc[p] \in BeforeWrite
      BY <1>4 DEF OpenLog, TypeInv, BeforeWrite
    <2> QED
      BY <1>4, <2>1, OpenedSameLines, CallsQuiet
  <1>5. ASSUME NEW p \in Procs, WriteLine(p)
        PROVE  CallsInv'
    <2>1. PICK h, last : h = handle[p] /\ last = Len(files[handle[p]]) + 1
      OBVIOUS
    <2>2. /\ DOMAIN files' = DOMAIN files /\ h \in DOMAIN files
          /\ \A i \in DOMAIN files : i # h => files'[i] = files[i]
          /\ DOMAIN files'[h] = DOMAIN files[h] \cup {last}
          /\ last \notin DOMAIN files[h]
          /\ \A n \in DOMAIN files[h] : files'[h][n] = files[h][n]
          /\ files'[h][last] = chained[p]
      <3>1. /\ DOMAIN files[h] = 1..(last - 1) /\ DOMAIN files'[h] = 1..last
            /\ last \in Nat \ {0}
        BY <1>5, <2>1, Wrote
      <3>2. DOMAIN files'[h] = DOMAIN files[h] \cup {last} /\ last \notin DOMAIN files[h]
        BY <3>1
      <3> QED
        BY <1>5, <2>1, <3>2, Wrote
    <2>3. /\ UNCHANGED <<calls, chained>> /\ pc[p] = "writing" /\ p \in Recorders
          /\ \A q \in Procs \ {p} : pc'[q] = pc[q]
          /\ pc'[p] \notin {"reading"} \cup BeforeWrite
          /\ calls[p] \in Nat
      BY <1>5 DEF WriteLine, TypeInv, PlaceInv, BeforeWrite
    <2>4. chained[p].body = <<p, calls[p]>>
      BY <2>3 DEF CallsInv, BeforeWrite
    <2>5. \A i \in DOMAIN files : \A n \in DOMAIN files[i] :
              files[i][n].body # <<p, calls[p]>>
      BY <2>3 DEF CallsInv, BeforeWrite
    <2>6. \A i \in DOMAIN files' : \A n \in DOMAIN files'[i] :
              \/ i \in DOMAIN files /\ n \in DOMAIN files[i] /\ files'[i][n] = files[i][n]
              \/ i = h /\ n = last /\ files'[i][n].body = <<p, calls[p]>>
      BY <2>2, <2>4
    <2>7. \A i \in DOMAIN files' : \A n \in DOMAIN files'[i] :
              \E q \in Recorders : \E c \in 0..calls'[q] : files'[i][n].body = <<q, c>>
      <3>1. calls[p] \in 0..calls[p]
        BY <2>3
      <3> QED
        BY <2>3, <2>6, <3>1 DEF CallsInv
    <2>8. \A i, j \in DOMAIN files' : \A m \in DOMAIN files'[i], n \in DOMAIN files'[j] :
              files'[i][m].body = files'[j][n].body => i = j /\ m = n
      BY <2>5, <2>6 DEF CallsInv
    <2>9. \A q \in Recorders : pc'[q] \in {"reading"} \cup BeforeWrite =>
              q # p /\ pc[q] \in {"reading"} \cup BeforeWrite
      BY <1>0, <2>3
    <2>10. \A q \in Recorders : pc'[q] \in {"reading"} \cup BeforeWrite =>
               \A i \in DOMAIN files' : \A n \in DOMAIN files'[i] :
                   files'[i][n].body # <<q, calls'[q]>>
      BY <2>3, <2>6, <2>9 DEF CallsInv
    <2>11. \A q \in Recorders : pc'[q] \in BeforeWrite => chained'[q].body = <<q, calls'[q]>>
      BY <1>0, <2>3 DEF CallsInv
    <2> QED
      BY <2>7, <2>8, <2>10, <2>11 DEF CallsInv
  <1>6. CASE UNCHANGED vars
    BY <1>6 DEF vars, CallsInv
  <1> QED
    BY <1>1, <1>2, <1>3, <1>4, <1>5, <1>6 DEF Next, append_event, Rotate

\* Nothing that is in the files is lost by a step.
LEMMA StoredStays ==
    ASSUME TypeInv, PlaceInv, [Next]_vars, NEW e, Stored(e)
    PROVE  Stored(e)'
  <1> USE DEF disk
  <1>1. ASSUME NEW p \in Procs, WriteLine(p)
        PROVE  Stored(e)'
    <2>1. PICK i \in DOMAIN files : \E n \in DOMAIN files[i] : files[i][n] = e
      BY DEF Stored
    <2>2. PICK n \in DOMAIN files[i] : files[i][n] = e
      BY <2>1
    <2>3. i \in DOMAIN files' /\ n \in DOMAIN files'[i] /\ files'[i][n] = e
      <3>1. CASE i = handle[p]
        <4>1. /\ i \in DOMAIN files' /\ DOMAIN files[i] = 1..Len(files[i])
              /\ DOMAIN files'[i] = 1..(Len(files[i]) + 1) /\ Len(files[i]) \in Nat
              /\ files'[i][n] = e
          BY <1>1, <2>2, <3>1, Wrote
        <4> QED
          BY <4>1
      <3>2. CASE i # handle[p]
        BY <1>1, <2>2, <3>2, Wrote
      <3> QED
        BY <3>1, <3>2
    <2> QED
      BY <2>3 DEF Stored
  <1>2. ASSUME NEW p \in Procs, OpenLog(p)
        PROVE  Stored(e)'
    BY <1>2, OpenedSameLines DEF SameLines, Stored
  <1>3. CASE UNCHANGED files
    BY <1>3 DEF Stored
  <1>4. \/ \E p \in Procs : WriteLine(p) \/ OpenLog(p)
        \/ UNCHANGED files
    BY DEF Next, append_event, Rotate, vars, Call, ReadAndChain, rotation_decision,
           next_rotated_path, rotate_stream, IndexEvent, Return, CutShort
  <1> QED
    BY <1>1, <1>2, <1>3, <1>4

LEMMA KeptStep ==
    ASSUME TypeInv, PlaceInv, KeptInv, [Next]_vars
    PROVE  KeptInv'
  <1> USE DEF Goto, disk
  <1>0. /\ Recorders \subseteq Procs
        /\ \A e : Stored(e) => Stored(e)'
    BY StoredStays DEF Procs
  <1>1. ASSUME NEW p \in Procs,
               \/ Call(p) \/ rotation_decision(p) \/ next_rotated_path(p)
               \/ rotate_stream(p) \/ OpenLog(p) \/ CutShort(p)
        PROVE  KeptInv'
    <2>1. /\ UNCHANGED <<rows, acked, chained>>
          /\ \A q \in Procs \ {p} : pc'[q] = pc[q]
          /\ pc'[p] \notin AfterWrite
      BY <1>1 DEF Call, rotation_decision, next_rotated_path, rotate_stream, OpenLog,
                  CutShort, TypeInv, AfterWrite
    <2> QED
      BY <1>0, <2>1 DEF KeptInv, AfterWrite
  <1>2. ASSUME NEW p \in Procs, ReadAndChain(p)
        PROVE  KeptInv'
    <2>1. /\ UNCHANGED <<rows, acked>>
          /\ \A q \in Procs \ {p} : pc'[q] = pc[q] /\ chained'[q] = chained[q]
          /\ pc'[p] \notin AfterWrite
      BY <1>2 DEF ReadAndChain, TypeInv, AfterWrite
    <2> QED
      BY <1>0, <2>1 DEF KeptInv, AfterWrite
  <1>3. ASSUME NEW p \in Procs, WriteLine(p)
        PROVE  KeptInv'
    <2>1. /\ UNCHANGED <<rows, acked, chained>>
          /\ \A q \in Procs \ {p} : pc'[q] = pc[q]
          /\ pc'[p] = IF UseIndex THEN "indexing" ELSE "returning"
      BY <1>3 DEF WriteLine, TypeInv
    <2>2. Stored(chained[p])'
      <3>1. PICK h, last : h = handle[p] /\ last = Len(files[handle[p]]) + 1
        OBVIOUS
      <3>2. h \in DOMAIN files' /\ last \in DOMAIN files'[h] /\ files'[h][last] = chained[p]
        <4>1. /\ DOMAIN files'[h] = 1..last /\ last - 1 \in Nat
              /\ h \in DOMAIN files'
          BY <1>3, <3>1, Wrote
        <4> QED
          BY <1>3, <3>1, <4>1, Wrote
      <3> QED
        BY <2>1, <3>2 DEF Stored
    <2>3. \A q \in Recorders : pc'[q] \in AfterWrite => Stored(chained[q])'
      BY <1>0, <2>1, <2>2 DEF KeptInv
    <2> QED
      BY <1>0, <2>1, <2>3 DEF KeptInv
  <1>4. ASSUME NEW p \in Procs, IndexEvent(p)
        PROVE  KeptInv'
    <2>1. /\ UNCHANGED <<acked, chained>> /\ rows' = rows \cup {chained[p]}
          /\ \A q \in Procs \ {p} : pc'[q] = pc[q]
          /\ pc[p] = "indexing" /\ p \in Recorders
      BY <1>4 DEF IndexEvent, TypeInv, PlaceInv
    <2>2. Stored(chained[p])
      BY <2>1 DEF KeptInv, AfterWrite
    <2>3. \A q \in Recorders : pc'[q] \in AfterWrite => Stored(chained[q])'
      BY <1>0, <2>1, <2>2 DEF KeptInv
    <2>4. \A q \in Recorders : UseIndex /\ pc'[q] = "returning" => chained'[q] \in rows'
      BY <1>0, <2>1 DEF KeptInv
    <2> QED
      BY <1>0, <2>1, <2>2, <2>3, <2>4 DEF KeptInv
  <1>5. ASSUME NEW p \in Procs, Return(p)
        PROVE  KeptInv'
    <2>1. /\ UNCHANGED <<rows, chained>> /\ acked' = acked \cup {chained[p]}
          /\ \A q \in Procs \ {p} : pc'[q] = pc[q]
          /\ pc[p] = "returning" /\ pc'[p] = "idle" /\ p \in Recorders
      BY <1>5 DEF Return, TypeInv, PlaceInv
    <2>2. Stored(chained[p]) /\ (UseIndex => chained[p] \in rows)
      BY <2>1 DEF KeptInv, AfterWrite
    <2> QED
      BY <1>0, <2>1, <2>2 DEF KeptInv, AfterWrite
  <1>6. CASE UNCHANGED vars
    <2>1. UNCHANGED <<rows, acked, chained, pc>>
      BY <1>6 DEF vars
    <2> QED
      BY <1>0, <2>1 DEF KeptInv
  <1> QED
    BY <1>1, <1>2, <1>3, <1>4, <1>5, <1>6 DEF Next, append_event, Rotate

\* Every file can be reached under some name.
LEMMA AllReachable ==
    ASSUME TypeInv, NamesInv
    PROVE  \A i, n : <<i, n>> \in Positions <=> i \in DOMAIN files /\ n \in DOMAIN files[i]
  <1>1. Len(files) \in Nat /\ DOMAIN files = 1..Len(files)
    BY SequenceShape DEF TypeInv
  <1>2. Segments = DOMAIN files
    <2>1. Segments \subseteq DOMAIN files
      BY <1>1 DEF Segments, TypeInv
    <2>2. DOMAIN files \subseteq Segments
      BY <1>1 DEF Segments, NamesInv
    <2> QED
      BY <2>1, <2>2
  <1> QED
    BY <1>2 DEF Positions

LEMMA EventsAlways ==
    ASSUME OneRotates
    PROVE  Spec => [](TypeInv /\ NamesInv /\ CallsInv /\ KeptInv)
  <1>1. Init => CallsInv /\ KeptInv
    BY DEF Init, CallsInv, KeptInv, Procs, BeforeWrite, AfterWrite
  <1>2. TypeInv /\ PlaceInv /\ CallsInv /\ KeptInv /\ [Next]_vars => (CallsInv /\ KeptInv)'
    BY CallsStep, KeptStep
  <1> QED
    BY <1>1, <1>2, NamesAlways, PTL DEF Spec

\* An event that was returned is in the logs that can be reached, once, however
\* recorders and a rotation overlap, if one process rotates.
THEOREM StoredOnce ==
    ASSUME OneRotates
    PROVE  Spec => []AckedStoredOnce
  <1>1. TypeInv /\ NamesInv /\ CallsInv /\ KeptInv => AckedStoredOnce
    <2> SUFFICES ASSUME TypeInv, NamesInv, CallsInv, KeptInv, NEW e \in acked
                 PROVE  Cardinality({x \in Positions : EventAt(x) = e}) = 1
      BY DEF AckedStoredOnce
    <2>1. PICK i \in DOMAIN files : \E n \in DOMAIN files[i] : files[i][n] = e
      BY DEF KeptInv, Stored
    <2>2. PICK n \in DOMAIN files[i] : files[i][n] = e
      BY <2>1
    <2>3. <<i, n>> \in Positions /\ EventAt(<<i, n>>) = e
      BY <2>2, AllReachable DEF EventAt
    <2>4. ASSUME NEW x \in Positions, EventAt(x) = e
          PROVE  x = <<i, n>>
      <3>1. PICK j, m : x = <<j, m>>
        BY DEF Positions
      <3>2. j \in DOMAIN files /\ m \in DOMAIN files[j] /\ files[j][m] = e
        BY <2>4, <3>1, AllReachable DEF EventAt
      <3> QED
        BY <2>2, <3>1, <3>2 DEF CallsInv
    <2>5. {x \in Positions : EventAt(x) = e} = {<<i, n>>}
      BY <2>3, <2>4
    <2> QED
      BY <2>5, FS_Singleton
  <1> QED
    BY <1>1, EventsAlways, PTL

\* The index has a row for every event that was returned, and none for an event
\* that is in no log, if one process rotates.
THEOREM IndexComplete ==
    ASSUME OneRotates
    PROVE  Spec => []IndexAgrees
  <1>1. TypeInv /\ NamesInv /\ CallsInv /\ KeptInv => IndexAgrees
    <2> SUFFICES ASSUME TypeInv, NamesInv, KeptInv, NEW e \in rows
                 PROVE  \E x \in Positions : EventAt(x) = e
      BY DEF IndexAgrees, KeptInv
    <2>1. PICK i \in DOMAIN files : \E n \in DOMAIN files[i] : files[i][n] = e
      BY DEF KeptInv, Stored
    <2>2. PICK n \in DOMAIN files[i] : files[i][n] = e
      BY <2>1
    <2>3. <<i, n>> \in Positions /\ EventAt(<<i, n>>) = e
      BY <2>2, AllReachable DEF EventAt
    <2> QED
      BY <2>3
  <1> QED
    BY <1>1, EventsAlways, PTL

-----------------------------------------------------------------------------
(* How large a log gets *)

\* The steps that change no log and no handle.
LEMMA RoomQuiet ==
    ASSUME RoomInv, UNCHANGED <<files, handle>>, active' \in {active, 0},
           \A q \in Recorders : pc'[q] \in {"opening", "writing"} =>
               pc'[q] = pc[q] \/ (pc'[q] = "opening" /\ active' = 0)
    PROVE  RoomInv'
  BY DEF RoomInv, SegmentBound, exists

LEMMA RoomStep ==
    ASSUME OneRecorder, TypeInv, PlaceInv, RoomInv, [Next]_vars
    PROVE  RoomInv'
  <1> USE DEF Goto, disk
  <1>0. Recorders \subseteq Procs
    BY DEF Procs
  <1>1. ASSUME NEW p \in Procs, Call(p) \/ IndexEvent(p) \/ Return(p) \/ CutShort(p)
        PROVE  RoomInv'
    <2>1. /\ UNCHANGED <<files, handle, active>>
          /\ \A q \in Procs \ {p} : pc'[q] = pc[q]
          /\ pc'[p] \notin {"opening", "writing"}
      BY <1>1 DEF Call, IndexEvent, Return, CutShort, TypeInv
    <2> QED
      BY <1>0, <2>1, RoomQuiet
  <1>2. ASSUME NEW p \in Procs, ReadAndChain(p)
        PROVE  RoomInv'
    <2>1. /\ UNCHANGED <<files, handle, active>>
          /\ \A q \in Procs \ {p} : pc'[q] = pc[q]
          /\ MaxEvents # None => pc'[p] = "deciding"
      BY <1>2 DEF ReadAndChain, TypeInv, HasPolicy
    <2> QED
      BY <1>0, <2>1 DEF RoomInv, SegmentBound, exists
  <1>3. ASSUME NEW p \in Procs, rotation_decision(p)
        PROVE  RoomInv'
    <2>1. /\ UNCHANGED <<files, handle, active>>
          /\ \A q \in Procs \ {p} : pc'[q] = pc[q]
          /\ pc'[p] # "writing" /\ p \in Recorders
          /\ pc'[p] = "opening" => ~TooManyEvents
      BY <1>3 DEF rotation_decision, TypeInv, PlaceInv
    <2>2. ASSUME MaxEvents # None, exists, ~TooManyEvents
          PROVE  Len(files[active]) < MaxEvents
      <3>1. Len(files[active]) \in Nat
        <4>0. DOMAIN files = 1..Len(files) /\ Len(files) \in Nat
          BY SequenceShape DEF TypeInv
        <4>1. active \in DOMAIN files
          BY <2>2, <4>0 DEF TypeInv, exists
        <4> QED
          BY <4>1, SequenceShape DEF TypeInv
      <3>2. MaxEvents \in Nat
        BY <2>2, ConstantsAssumption
      <3>3. ~ Len(files[active]) + 1 > MaxEvents
        BY <2>2 DEF TooManyEvents, read_all
      <3> QED
        BY <3>1, <3>2, <3>3
    <2> QED
      BY <1>0, <2>1, <2>2 DEF RoomInv, SegmentBound, exists
  <1>4. ASSUME NEW p \in Procs, next_rotated_path(p)
        PROVE  RoomInv'
    <2>1. /\ UNCHANGED <<files, handle, active>>
          /\ \A q \in Procs \ {p} : pc'[q] = pc[q]
          /\ pc'[p] # "writing"
          /\ pc'[p] = "opening" => active = 0
      BY <1>4 DEF next_rotated_path, TypeInv, exists
    <2> QED
      BY <1>0, <2>1, RoomQuiet
  <1>5. ASSUME NEW p \in Procs, rotate_stream(p)
        PROVE  RoomInv'
    <2>1. /\ UNCHANGED <<files, handle>> /\ active' = 0
          /\ \A q \in Procs \ {p} : pc'[q] = pc[q]
          /\ pc'[p] # "writing"
      BY <1>5 DEF rotate_stream, TypeInv, exists
    <2> QED
      BY <1>0, <2>1, RoomQuiet
  <1>6. ASSUME NEW p \in Procs, OpenLog(p)
        PROVE  RoomInv'
    <2> SUFFICES ASSUME MaxEvents # None
                 PROVE  RoomInv'
      BY DEF RoomInv, SegmentBound
    <2>1. /\ p \in Recorders /\ pc[p] = "opening" /\ pc'[p] = "writing"
          /\ \A q \in Recorders : q = p
      BY <1>6 DEF OpenLog, TypeInv, PlaceInv, OneRecorder
    <2>2. MaxEvents \in Nat \ {0} /\ Len(<<>>) = 0
      BY ConstantsAssumption, EmptyShape
    <2>3. Len(files'[handle'[p]]) < MaxEvents
      <3>1. CASE exists
        <4>1. files'[handle'[p]] = files[active]
          BY <1>6, <3>1, Opened
        <4> QED
          BY <2>1, <3>1, <4>1 DEF RoomInv
      <3>2. CASE ~exists
        <4>1. files'[handle'[p]] = <<>>
          BY <1>6, <3>2, Opened
        <4> QED
          BY <2>2, <4>1
      <3> QED
        BY <3>1, <3>2
    <2>4. \A i \in DOMAIN files' : Len(files'[i]) <= MaxEvents
      <3>1. \A i \in DOMAIN files' : i \in DOMAIN files \/ files'[i] = <<>>
        <4>1. /\ DOMAIN files = 1..Len(files) /\ DOMAIN files' = 1..Len(files')
              /\ Len(files) \in Nat
              /\ exists => files' = files
              /\ ~exists => /\ Len(files') = Len(files) + 1
                            /\ files'[Len(files) + 1] = <<>>
          BY <1>6, Opened
        <4>2. CASE exists
          BY <4>1, <4>2
        <4>3. CASE ~exists
          BY <4>1, <4>3
        <4> QED
          BY <4>2, <4>3
      <3>2. \A i \in DOMAIN files : files'[i] = files[i]
        BY <1>6, Opened
      <3> QED
        BY <2>2, <3>1, <3>2 DEF RoomInv, SegmentBound
    <2> QED
      BY <2>1, <2>3, <2>4 DEF RoomInv, SegmentBound
  <1>7. ASSUME NEW p \in Procs, WriteLine(p)
        PROVE  RoomInv'
    <2> SUFFICES ASSUME MaxEvents # None
                 PROVE  RoomInv'
      BY DEF RoomInv, SegmentBound
    <2>1. /\ p \in Recorders /\ pc[p] = "writing"
          /\ pc'[p] \notin {"opening", "writing"}
          /\ \A q \in Recorders : q = p
      BY <1>7 DEF WriteLine, TypeInv, PlaceInv, OneRecorder
    <2>2. PICK h : h = handle[p]
      OBVIOUS
    <2>3. /\ Len(files'[h]) = Len(files[h]) + 1 /\ Len(files[h]) \in Nat
          /\ DOMAIN files' = DOMAIN files
          /\ \A i \in DOMAIN files : i # h => files'[i] = files[i]
      BY <1>7, <2>2, Wrote
    <2>4. Len(files[h]) < MaxEvents /\ MaxEvents \in Nat
      BY <2>1, <2>2, ConstantsAssumption DEF RoomInv
    <2>5. Len(files'[h]) <= MaxEvents
      BY <2>3, <2>4
    <2>6. \A i \in DOMAIN files' : Len(files'[i]) <= MaxEvents
      BY <2>3, <2>5 DEF RoomInv, SegmentBound
    <2> QED
      BY <2>1, <2>6 DEF RoomInv, SegmentBound
  <1>8. CASE UNCHANGED vars
    BY <1>8 DEF vars, RoomInv, SegmentBound, exists
  <1> QED
    BY <1>1, <1>2, <1>3, <1>4, <1>5, <1>6, <1>7, <1>8 DEF Next, append_event, Rotate

\* With one recorder no log ever holds more than max_events events, whatever
\* else rotates the log meanwhile.
THEOREM Bound ==
    ASSUME OneRecorder
    PROVE  Spec => []SegmentBound
  <1>1. Init => RoomInv
    BY DEF Init, RoomInv, SegmentBound, Procs
  <1>2. TypeInv /\ PlaceInv /\ RoomInv /\ [Next]_vars => RoomInv'
    BY RoomStep
  <1>3. RoomInv => SegmentBound
    BY DEF RoomInv
  <1> QED
    BY <1>1, <1>2, <1>3, TypeAlways, PTL DEF Spec

-----------------------------------------------------------------------------
(* What the events name *)

\* The steps that change no log: who goes to one of these places had better
\* know what LinkAt says of it.
LEMMA LinkQuiet ==
    ASSUME LinkInv, NEW p \in Recorders, \A q \in Recorders : q = p,
           UNCHANGED <<files, active, handle>>, faults' \in {faults, faults + 1},
           faults \in Nat, pc[p] \notin {"opening", "writing"} \/ faults' > 0,
           \/ pc'[p] \in {"idle", "reading", "indexing", "returning"}
           \/ /\ pc'[p] \in BeforeWrite \ {"writing"}
              /\ chained'[p].previous_event_digest = last_digest(read_all)
              /\ pc[p] # "opening"
    PROVE  LinkInv'
  <1>1. faults > 0 => faults' > 0
    OBVIOUS
  <1>2. DigestsLinked'
    BY <1>1 DEF LinkInv, DigestsLinked, PreviousOf
  <1>3. /\ ~exists => Len(files) = 0 \/ faults' > 0
        /\ exists => Len(files[active]) > 0 \/ faults' > 0
    BY <1>1 DEF LinkInv, LinkAt
  <1>4. read_all' = read_all /\ (exists' <=> exists)
    BY DEF read_all, exists
  <1>5. ASSUME ~exists, pc'[p] \in BeforeWrite
        PROVE  MayLink(chained[p].previous_event_digest, Len(files) + 1, 1)'
    <2>1. chained'[p].previous_event_digest = None
      BY <1>5 DEF BeforeWrite, last_digest, read_all
    <2> QED
      BY <1>3, <1>5, <2>1 DEF MayLink
  <1>6. LinkAt(p)'
    BY <1>3, <1>4, <1>5 DEF LinkAt, BeforeWrite, last_digest
  <1> QED
    BY <1>2, <1>6 DEF LinkInv

LEMMA LinkStep ==
    ASSUME Alone, TypeInv, PlaceInv, NamesInv, LinkInv, [Next]_vars
    PROVE  LinkInv'
  <1> USE DEF Goto, disk
  <1>0. /\ Procs = Recorders
        /\ \A p, q \in Recorders : q = p
        /\ Len(files) \in Nat /\ DOMAIN files = 1..Len(files)
        /\ faults \in Nat
    BY SequenceShape DEF Alone, OneRecorder, Procs, TypeInv
  <1>1. ASSUME NEW p \in Recorders, Call(p) \/ IndexEvent(p) \/ Return(p)
        PROVE  LinkInv'
    <2>1. /\ UNCHANGED <<files, active, handle, faults>>
          /\ pc[p] \notin {"opening", "writing"}
          /\ pc'[p] \in {"idle", "reading", "indexing", "returning"}
      BY <1>0, <1>1 DEF Call, IndexEvent, Return, TypeInv
    <2> QED
      BY <1>0, <2>1, LinkQuiet
  <1>2. ASSUME NEW p \in Recorders, ReadAndChain(p)
        PROVE  LinkInv'
    <2>1. /\ UNCHANGED <<files, active, handle, faults>>
          /\ pc[p] = "reading"
          /\ pc'[p] \in {"deciding", "opening"}
          /\ chained'[p] = chain_next(read_all, <<p, calls[p]>>, Stream)
      BY <1>0, <1>2 DEF ReadAndChain, TypeInv
    <2>2. chained'[p].previous_event_digest = last_digest(read_all)
      BY <2>1 DEF chain_next, append_integrity
    <2> QED
      BY <1>0, <2>1, <2>2, LinkQuiet DEF BeforeWrite
  <1>3. ASSUME NEW p \in Recorders, rotation_decision(p) \/ next_rotated_path(p)
        PROVE  LinkInv'
    <2>1. /\ UNCHANGED <<files, active, handle, faults, chained>>
          /\ pc[p] \in {"deciding", "picking"}
          /\ pc'[p] \in {"idle", "picking", "renaming", "opening"}
      BY <1>0, <1>3 DEF rotation_decision, next_rotated_path, TypeInv
    <2>2. chained'[p].previous_event_digest = last_digest(read_all)
      BY <2>1 DEF LinkInv, LinkAt
    <2> QED
      BY <1>0, <2>1, <2>2, LinkQuiet DEF BeforeWrite
  <1>4. ASSUME NEW p \in Recorders, CutShort(p)
        PROVE  LinkInv'
    <2>1. /\ UNCHANGED <<files, active, handle>>
          /\ faults' = faults + 1 /\ pc'[p] = "idle"
      BY <1>0, <1>4 DEF CutShort, TypeInv
    <2>2. faults' > 0
      BY <1>0, <2>1
    <2> QED
      BY <1>0, <2>1, <2>2, LinkQuiet
  <1>5. ASSUME NEW p \in Recorders, rotate_stream(p)
        PROVE  LinkInv'
    <2>1. CASE ~exists
      <3>1. /\ UNCHANGED <<files, active, handle, faults>>
            /\ pc[p] = "renaming" /\ pc'[p] = "idle"
        BY <1>0, <1>5, <2>1 DEF rotate_stream, TypeInv
      <3> QED
        BY <1>0, <3>1, LinkQuiet
    <2>2. CASE exists
      <3>1. /\ UNCHANGED <<files, chained, handle, faults>> /\ active' = 0
            /\ pc[p] = "renaming" /\ pc'[p] = "opening"
        BY <1>0, <1>5, <2>2 DEF rotate_stream, TypeInv
      <3>2. active = Len(files) /\ active \in DOMAIN files
        BY <1>0, <2>2 DEF NamesInv, TypeInv, exists
      <3>3. PICK link : link = chained[p].previous_event_digest
        OBVIOUS
      <3>4. link = last_digest(files[active])
        BY <2>2, <3>1, <3>3 DEF LinkInv, LinkAt, read_all
      <3>5. link = PreviousOf(files[active], Len(files[active]) + 1)
        <4>1. /\ Len(files[active]) \in Nat /\ IsSequence(files[active])
          BY <3>2, SequenceShape DEF TypeInv
        <4>2. files[active] = <<>> <=> Len(files[active]) = 0
          BY <4>1, SequenceShape, EmptyShape
        <4> QED
          BY <3>4, <4>1, <4>2 DEF last_digest, PreviousOf
      <3>6. MayLink(link, Len(files) + 1, 1)
        BY <1>0, <3>2, <3>5 DEF MayLink
      <3>7. LinkAt(p)'
        BY <3>1, <3>3, <3>6 DEF LinkAt, exists, MayLink, PreviousOf
      <3>8. DigestsLinked'
        BY <3>1 DEF LinkInv, DigestsLinked, PreviousOf
      <3> QED
        BY <1>0, <3>7, <3>8 DEF LinkInv
    <2> QED
      BY <2>1, <2>2
  <1>6. ASSUME NEW p \in Recorders, OpenLog(p)
        PROVE  LinkInv'
    <2>1. /\ pc[p] = "opening" /\ pc'[p] = "writing"
          /\ UNCHANGED <<chained, faults>>
          /\ active' \in DOMAIN files' /\ active' # 0 /\ handle'[p] = active'
          /\ \A i \in DOMAIN files : i \in DOMAIN files' /\ files'[i] = files[i]
      <3>1. pc[p] = "opening" /\ pc'[p] = "writing" /\ UNCHANGED <<chained, faults>>
        BY <1>0, <1>6 DEF OpenLog, TypeInv
      <3>2. /\ active' \in 1..Len(files') /\ DOMAIN files' = 1..Len(files')
            /\ Len(files') \in Nat /\ handle'[p] = active'
            /\ \A i \in DOMAIN files : i \in DOMAIN files' /\ files'[i] = files[i]
        BY <1>0, <1>6, Opened
      <3> QED
        BY <3>1, <3>2
    <2>2. PICK link : link = chained[p].previous_event_digest
      OBVIOUS
    <2>3. MayLink(link, active, Len(files[active]) + 1)'
      <3>1. CASE exists
        <4>1. files' = files /\ active' = active /\ active \in DOMAIN files
          BY <1>0, <1>6, <2>1, <3>1, Opened
        <4>2. PICK n : n = Len(files[active])
          OBVIOUS
        <4>3. n \in Nat /\ (files[active] = <<>> <=> n = 0)
          BY <4>1, <4>2, SequenceShape, EmptyShape DEF TypeInv
        <4>4. link = last_digest(files[active]) /\ (n > 0 \/ faults > 0)
          BY <2>1, <2>2, <3>1, <4>2 DEF LinkInv, LinkAt, read_all
        <4>5. CASE n = 0
          <5>1. n + 1 = 1 /\ link = None /\ faults > 0
            BY <4>3, <4>4, <4>5 DEF last_digest
          <5>2. MayLink(link, active, n + 1)
            BY <5>1 DEF MayLink
          <5> QED
            BY <2>1, <4>1, <4>2, <5>1 DEF MayLink
        <4>6. CASE n > 0
          <5>1. link = files[active][n].event_digest
            BY <4>2, <4>3, <4>4, <4>6 DEF last_digest
          <5>2. n + 1 > 1 /\ n + 1 # 1 /\ (n + 1) - 1 = n
            BY <4>3, <4>6
          <5>3. link = PreviousOf(files[active], n + 1)
            BY <5>1, <5>2 DEF PreviousOf
          <5> QED
            BY <4>1, <4>2, <5>2, <5>3 DEF MayLink, PreviousOf
        <4> QED
          BY <4>3, <4>5, <4>6
      <3>2. CASE ~exists
        <4>1. /\ active' = Len(files) + 1 /\ files'[Len(files) + 1] = <<>>
              /\ Len(<<>>) = 0
          BY <1>0, <1>6, <3>2, Opened, EmptyShape
        <4>2. MayLink(link, Len(files) + 1, 1)
          BY <2>1, <2>2, <3>2 DEF LinkInv, LinkAt
        <4>3. PICK m : m = Len(files)
          OBVIOUS
        <4>4. \/ m > 0 /\ link = PreviousOf(files[m], Len(files[m]) + 1)
              \/ (m = 0 \/ faults > 0) /\ link = None
          BY <1>0, <4>2, <4>3 DEF MayLink
        <4>5. m > 0 => files'[m] = files[m]
          BY <1>0, <2>1, <4>3
        <4>6. /\ m \in Nat /\ (m + 1) - 1 = m /\ (m > 0 => m + 1 > 1)
              /\ active' = m + 1 /\ Len(files'[m + 1]) + 1 = 1
              /\ (m = 0 => m + 1 = 1)
          BY <1>0, <4>1, <4>3
        <4>7. \/ m + 1 > 1 /\ link = PreviousOf(files[m], Len(files[m]) + 1)'
              \/ (m + 1 = 1 \/ faults' > 0) /\ link = None
          BY <2>1, <4>4, <4>5, <4>6 DEF PreviousOf
        <4> QED
          BY <4>6, <4>7 DEF MayLink
      <3> QED
        BY <3>1, <3>2
    <2>4. LinkAt(p)'
      BY <2>1, <2>2, <2>3 DEF LinkAt, exists
    <2>5. DigestsLinked'
      <3> SUFFICES ASSUME NEW i \in DOMAIN files', NEW n \in DOMAIN files'[i]
                   PROVE  MayLink(files[i][n].previous_event_digest, i, n)'
        BY DEF DigestsLinked, MayLink
      <3>1. i \in DOMAIN files /\ n \in DOMAIN files[i] /\ files'[i] = files[i]
        BY <1>0, <1>6, <2>1, OpenedSameLines DEF SameLines
      <3>2. MayLink(files[i][n].previous_event_digest, i, n)
        BY <3>1 DEF LinkInv, DigestsLinked, MayLink
      <3>3. i > 1 => i - 1 \in DOMAIN files /\ files'[i - 1] = files[i - 1]
        BY <1>0, <2>1, <3>1
      <3> QED
        BY <2>1, <3>1, <3>2, <3>3 DEF MayLink, PreviousOf
    <2> QED
      BY <1>0, <2>4, <2>5 DEF LinkInv
  <1>7. ASSUME NEW p \in Recorders, WriteLine(p)
        PROVE  LinkInv'
    <2>1. PICK h, m : h = handle[p] /\ m = Len(files[h])
      OBVIOUS
    <2>2. /\ pc[p] = "writing" /\ pc'[p] \in {"indexing", "returning"}
          /\ UNCHANGED <<active, chained, faults>>
      BY <1>0, <1>7 DEF WriteLine, TypeInv
    <2>3. PICK link : link = chained[p].previous_event_digest
      OBVIOUS
    <2>4. /\ exists /\ h = active /\ h = Len(files)
          /\ MayLink(link, h, m + 1)
      BY <2>1, <2>2, <2>3 DEF LinkInv, LinkAt, NamesInv
    <2>5. /\ h \in DOMAIN files /\ DOMAIN files' = DOMAIN files
          /\ \A i \in DOMAIN files : i # h => files'[i] = files[i]
          /\ m \in Nat /\ Len(files'[h]) = m + 1
          /\ DOMAIN files[h] = 1..m /\ DOMAIN files'[h] = 1..(m + 1)
          /\ \A n \in 1..m : files'[h][n] = files[h][n]
          /\ files'[h][m + 1] = chained[p]
      <3>1. /\ h \in DOMAIN files /\ DOMAIN files' = DOMAIN files
            /\ \A i \in DOMAIN files : i # h => files'[i] = files[i]
            /\ m \in Nat /\ Len(files'[h]) = m + 1
            /\ DOMAIN files[h] = 1..m /\ DOMAIN files'[h] = 1..(m + 1)
            /\ \A n \in DOMAIN files[h] : files'[h][n] = files[h][n]
            /\ files'[h][m + 1] = chained[p]
        BY <1>0, <1>7, <2>1, Wrote
      <3> QED
        BY <3>1
    <2>6. LinkAt(p)'
      <3>1. exists' /\ Len(files'[active']) > 0
        BY <2>2, <2>4, <2>5 DEF exists
      <3> QED
        BY <2>2, <3>1 DEF LinkAt
    <2>7. ASSUME NEW i \in DOMAIN files', i > 1
          PROVE  i - 1 \in DOMAIN files /\ files'[i - 1] = files[i - 1]
      <3>1. i - 1 \in DOMAIN files /\ i - 1 # h
        BY <1>0, <2>4, <2>5, <2>7
      <3> QED
        BY <2>5, <3>1
    <2>8. ASSUME NEW i \in DOMAIN files', NEW n \in DOMAIN files'[i]
          PROVE  MayLink(files[i][n].previous_event_digest, i, n)'
      <3>1. PICK own : own = files'[i][n].previous_event_digest
        OBVIOUS
      <3>2. MayLink(own, i, n)
        <4>1. CASE i # h
          <5>1. i \in DOMAIN files /\ files'[i] = files[i]
            BY <2>5, <4>1
          <5> QED
            BY <3>1, <5>1 DEF LinkInv, DigestsLinked, MayLink
        <4>2. CASE i = h /\ n # m + 1
          <5>1. n \in 1..m /\ files'[i][n] = files[i][n]
            BY <2>5, <4>2
          <5> QED
            BY <2>5, <3>1, <4>2, <5>1 DEF LinkInv, DigestsLinked, MayLink
        <4>3. CASE i = h /\ n = m + 1
          BY <2>3, <2>4, <2>5, <3>1, <4>3
        <4> QED
          BY <4>1, <4>2, <4>3
      <3>3. n > 1 => PreviousOf(files'[i], n) = PreviousOf(files[i], n)
        <4>1. CASE i # h
          <5>1. files'[i] = files[i]
            BY <2>5, <4>1
          <5> QED
            BY <5>1
        <4>2. CASE i = h
          <5>1. n > 1 => n - 1 \in 1..m
            BY <2>5, <4>2
          <5> QED
            BY <2>5, <4>2, <5>1 DEF PreviousOf
        <4> QED
          BY <4>1, <4>2
      <3>4. n > 1 => MayLink(own, i, n)'
        BY <3>2, <3>3 DEF MayLink, PreviousOf
      <3>5. ~ n > 1 => MayLink(own, i, n)'
        <4>1. ~ n > 1 => \/ i > 1 /\ own = PreviousOf(files[i - 1], Len(files[i - 1]) + 1)
                         \/ (i = 1 \/ faults > 0) /\ own = None
          BY <3>2 DEF MayLink
        <4>2. ~ n > 1 => \/ i > 1 /\ own = PreviousOf(files'[i - 1], Len(files'[i - 1]) + 1)
                         \/ (i = 1 \/ faults' > 0) /\ own = None
          BY <2>2, <2>7, <4>1
        <4> QED
          BY <4>2 DEF MayLink, PreviousOf
      <3> QED
        BY <3>1, <3>4, <3>5 DEF MayLink, PreviousOf
    <2>9. DigestsLinked'
      BY <2>8 DEF DigestsLinked, MayLink
    <2> QED
      BY <1>0, <2>6, <2>9 DEF LinkInv
  <1>8. CASE UNCHANGED vars
    BY <1>8 DEF vars, LinkInv, DigestsLinked, LinkAt, MayLink, PreviousOf, exists, read_all,
                last_digest
  <1> QED
    BY <1>0, <1>1, <1>2, <1>3, <1>4, <1>5, <1>6, <1>7, <1>8
       DEF Next, append_event, Rotate

\* One recorder's events form one chain of digests across all its logs; only a
\* call that was cut short lets it begin again.
THEOREM Linkage ==
    ASSUME Alone
    PROVE  Spec => []DigestsLinked
  <1>1. OneRotates
    BY DEF Alone, OneRecorder, OneRotates, Procs
  <1>2. Init => LinkInv
    BY EmptyShape DEF Init, LinkInv, DigestsLinked, LinkAt, exists, Procs, BeforeWrite
  <1>3. TypeInv /\ PlaceInv /\ NamesInv /\ LinkInv /\ [Next]_vars => LinkInv'
    BY LinkStep
  <1>4. LinkInv => DigestsLinked
    BY DEF LinkInv
  <1>5. Spec => [](TypeInv /\ PlaceInv /\ NamesInv)
    BY <1>1, NamesAlways
  <1> QED
    BY <1>2, <1>3, <1>4, <1>5, PTL DEF Spec
=============================================================================
