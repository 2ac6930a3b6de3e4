------------------------- MODULE LogCommandsProofs -------------------------
(***************************************************************************)
(* Proofs about LogCommands, for every set of documents, jobs and          *)
(* processes and every number of events, exports and crashes.              *)
(***************************************************************************)
EXTENDS LogCommands, TLAPS, SequenceTheorems

-----------------------------------------------------------------------------
(* The plan of a command *)

\* The commands that leave a manifest.
Claims(j) == j.command = "export" /\ j.profile

\* What a command may have still to write.
Remaining(j, rest) ==
    \/ rest = Plan(j)
    \/ Claims(j) /\ j.compress /\ rest = <<"copy", "manifest">>
    \/ Claims(j) /\ rest = <<"manifest">>
    \/ j.command # "compress" /\ ~Claims(j) /\ j.compress /\ rest = <<"copy">>

LEMMA Concatenations ==
    /\ <<>> \o <<"copy">> = <<"copy">> /\ <<"copy">> \o <<>> = <<"copy">>
    /\ <<"output">> \o <<>> = <<"output">>
    /\ <<"output", "copy">> \o <<>> = <<"output", "copy">>
    /\ <<"output">> \o <<"copy">> = <<"output", "copy">>
    /\ <<"output">> \o <<"manifest">> = <<"output", "manifest">>
    /\ <<"output", "copy">> \o <<"manifest">> = <<"output", "copy", "manifest">>
  <1>1. \A s \in Seq(Paths) : s \o <<>> = s /\ <<>> \o s = s
    BY ConcatEmptySeq
  <1>2. ASSUME NEW x \in Paths, NEW y \in Paths
        PROVE  <<x>> \o <<y>> = <<x, y>>
    <2> DEFINE t == <<x>> \o <<y>>
    <2>1. <<x>> \in Seq(Paths) /\ <<y>> \in Seq(Paths) /\ <<x, y>> \in Seq(Paths)
      OBVIOUS
    <2>2. t \in Seq(Paths) /\ Len(t) = 2 /\ t[1] = x /\ t[2] = y
      BY <2>1, ConcatProperties
    <2> HIDE DEF t
    <2>3. t = <<x, y>>
      BY <2>1, <2>2, SeqEqual
    <2> QED
      BY <2>3 DEF t
  <1>3. ASSUME NEW x \in Paths, NEW y \in Paths, NEW z \in Paths
        PROVE  <<x, y>> \o <<z>> = <<x, y, z>>
    <2> DEFINE t == <<x, y>> \o <<z>>
    <2>1. <<x, y>> \in Seq(Paths) /\ <<z>> \in Seq(Paths) /\ <<x, y, z>> \in Seq(Paths)
      OBVIOUS
    <2>2. t \in Seq(Paths) /\ Len(t) = 3 /\ t[1] = x /\ t[2] = y /\ t[3] = z
      BY <2>1, ConcatProperties
    <2> HIDE DEF t
    <2>3. t = <<x, y, z>>
      BY <2>1, <2>2, SeqEqual
    <2> QED
      BY <2>3 DEF t
  <1>4. "output" \in Paths /\ "copy" \in Paths /\ "manifest" \in Paths
    BY DEF Paths
  <1>5. <<"output">> \in Seq(Paths) /\ <<"copy">> \in Seq(Paths) /\ <<"output", "copy">> \in Seq(Paths)
    BY <1>4
  <1> QED
    BY <1>1, <1>2, <1>3, <1>4, <1>5

LEMMA PlanShape ==
    ASSUME NEW j \in Jobs
    PROVE  \/ j.command = "compress" /\ j.compress /\ ~Claims(j) /\ Plan(j) = <<"copy">>
           \/ Claims(j) /\ j.compress /\ Plan(j) = <<"output", "copy", "manifest">>
           \/ Claims(j) /\ ~j.compress /\ Plan(j) = <<"output", "manifest">>
           \/ /\ j.command # "compress" /\ ~Claims(j) /\ j.compress
              /\ Plan(j) = <<"output", "copy">>
           \/ /\ j.command # "compress" /\ ~Claims(j) /\ ~j.compress
              /\ Plan(j) = <<"output">>
  <1>1. /\ j.command \in {"export", "redact", "compress"}
        /\ j.profile \in BOOLEAN /\ j.compress \in BOOLEAN
        /\ j.command = "compress" => j.compress
    BY ConstantsAssumption
  <1>2. CASE j.command = "compress"
    BY <1>1, <1>2 DEF Plan, Claims
  <1>3. CASE Claims(j) /\ j.compress
    BY <1>1, <1>3, Concatenations DEF Plan, Claims
  <1>4. CASE Claims(j) /\ ~j.compress
    BY <1>1, <1>4, Concatenations DEF Plan, Claims
  <1>5. CASE j.command # "compress" /\ ~Claims(j) /\ j.compress
    BY <1>1, <1>5, Concatenations DEF Plan, Claims
  <1>6. CASE j.command # "compress" /\ ~Claims(j) /\ ~j.compress
    BY <1>1, <1>6, Concatenations DEF Plan, Claims
  <1> QED
    BY <1>1, <1>2, <1>3, <1>4, <1>5, <1>6 DEF Claims

\* The output comes first, unless it is only compressed; the manifest last.
LEMMA RemainingShape ==
    ASSUME NEW j \in Jobs, NEW rest, Remaining(j, rest)
    PROVE  /\ Head(rest) \in Paths
           /\ rest # <<>>
           /\ Claims(j) => j.command # "compress"
           /\ rest = Plan(j) => IF j.command = "compress" THEN rest = <<"copy">>
                                ELSE Head(rest) = "output"
           /\ rest # Plan(j) => Head(rest) # "output" /\ j.command # "compress"
           /\ Tail(rest) = <<>> \/ Remaining(j, Tail(rest))
           /\ Tail(rest) # Plan(j)
           /\ Tail(rest) = <<>> /\ Claims(j) => rest = <<"manifest">>
           /\ Head(rest) = "manifest" => rest = <<"manifest">> /\ Tail(rest) = <<>> /\ Claims(j)
           /\ j.command # "compress" /\ j.compress /\ ~Claims(j) /\ Tail(rest) = <<>> =>
                  Head(rest) = "copy"
           /\ Tail(rest) = <<"manifest">> /\ j.compress => Head(rest) = "copy"
  <1>1. /\ Head(<<"copy">>) = "copy" /\ Tail(<<"copy">>) = <<>>
        /\ Head(<<"manifest">>) = "manifest" /\ Tail(<<"manifest">>) = <<>>
        /\ Head(<<"output">>) = "output" /\ Tail(<<"output">>) = <<>>
        /\ Head(<<"output", "copy">>) = "output" /\ Tail(<<"output", "copy">>) = <<"copy">>
        /\ Head(<<"output", "manifest">>) = "output"
        /\ Tail(<<"output", "manifest">>) = <<"manifest">>
        /\ Head(<<"copy", "manifest">>) = "copy"
        /\ Tail(<<"copy", "manifest">>) = <<"manifest">>
        /\ Head(<<"output", "copy", "manifest">>) = "output"
        /\ Tail(<<"output", "copy", "manifest">>) = <<"copy", "manifest">>
    OBVIOUS
  <1>2. /\ <<"copy">> # <<>> /\ <<"manifest">> # <<>> /\ <<"output">> # <<>>
        /\ <<"output", "copy">> # <<>> /\ <<"output", "manifest">> # <<>>
        /\ <<"copy", "manifest">> # <<>> /\ <<"output", "copy", "manifest">> # <<>>
        /\ <<"copy">> # <<"manifest">> /\ <<"copy", "manifest">> # <<"manifest">>
        /\ <<"copy">> # <<"copy", "manifest">>
    OBVIOUS
  <1>3. j.command = "compress" => ~Claims(j)
    BY DEF Claims
  <1>4. CASE rest = Plan(j)
    BY <1>1, <1>2, <1>3, <1>4, PlanShape DEF Remaining, Paths
  <1>5. CASE Claims(j) /\ j.compress /\ rest = <<"copy", "manifest">>
    BY <1>1, <1>2, <1>3, <1>5, PlanShape DEF Remaining, Paths
  <1>6. CASE Claims(j) /\ rest = <<"manifest">>
    BY <1>1, <1>2, <1>3, <1>6, PlanShape DEF Remaining, Paths
  <1>7. CASE j.command # "compress" /\ ~Claims(j) /\ j.compress /\ rest = <<"copy">>
    BY <1>1, <1>2, <1>3, <1>7, PlanShape DEF Remaining, Paths
  <1> QED
    BY <1>4, <1>5, <1>6, <1>7 DEF Remaining

-----------------------------------------------------------------------------
(* The steps of an exporting command *)

TypeInv ==
    /\ job = [p \in Procs |-> job[p]]
    /\ todo = [p \in Procs |-> todo[p]]
    /\ files = [f \in Paths |-> files[f]]
    /\ exports \in Nat

BeginStep(p, j) ==
    /\ j \in Jobs /\ ~Busy(p)
    /\ exports' = exports + 1
    /\ job'[p] = [task |-> j, by |-> exports + 1, events |-> log]
    /\ todo'[p] = Plan(j)
    /\ \A q \in Procs \ {p} : job'[q] = job[q] /\ todo'[q] = todo[q]
    /\ disturbed' = disturbed \cup {job[q].by : q \in {r \in Procs : Busy(r)}}
                        \cup (IF {r \in Procs : Busy(r)} = {} THEN {} ELSE {exports + 1})
    /\ UNCHANGED <<files, opened>>

OpenStep(p, path) ==
    /\ Busy(p) /\ p \notin opened
    /\ opened' = opened \cup {p}
    /\ path = Head(todo[p])
    /\ path \in Paths => files'[path] = [state |-> "part", by |-> job[p].by]
    /\ \A f \in Paths \ {path} : files'[f] = files[f]
    /\ UNCHANGED <<job, todo, exports, disturbed>>

WriteStep(p, path, content) ==
    /\ p \in opened
    /\ opened' = opened \ {p}
    /\ path = Head(todo[p])
    /\ \/ content = Content(p, path)
       \/ /\ content = [state |-> "mixed", by |-> job[p].by]
          /\ files[path] # [state |-> "part", by |-> job[p].by]
    /\ path \in Paths => files'[path] = content
    /\ \A f \in Paths \ {path} : files'[f] = files[f]
    /\ p \in Procs => /\ todo'[p] = Tail(todo[p])
                      /\ job'[p] = IF Tail(todo[p]) = <<>> THEN None ELSE job[p]
    /\ \A q \in Procs \ {p} : job'[q] = job[q] /\ todo'[q] = todo[q]
    /\ UNCHANGED <<exports, disturbed>>

CrashStep(p) ==
    /\ Busy(p)
    /\ job'[p] = None /\ todo'[p] = <<>>
    /\ \A q \in Procs \ {p} : job'[q] = job[q] /\ todo'[q] = todo[q]
    /\ opened' = opened \ {p}
    /\ disturbed' = disturbed \cup {job[p].by}
    /\ UNCHANGED <<files, exports>>

LEMMA Steps ==
    ASSUME TypeInv, [Next]_vars
    PROVE  \/ UNCHANGED <<files, job, todo, opened, exports, disturbed>>
           \/ \E p \in Procs :
                 \/ \E j : BeginStep(p, j)
                 \/ \E path : OpenStep(p, path)
                 \/ \E path, content : WriteStep(p, path, content)
                 \/ CrashStep(p)
  <1>1. CASE UNCHANGED vars \/ migrate \/ append
    BY <1>1 DEF vars, migrate, append, exporting
  <1>2. ASSUME NEW p \in Procs, Begin(p)
        PROVE  \E j : BeginStep(p, j)
    <2>1. PICK j \in Jobs :
              /\ job' = [job EXCEPT ![p] = [task |-> j, by |-> exports', events |-> log]]
              /\ todo' = [todo EXCEPT ![p] = Plan(j)]
      BY <1>2 DEF Begin
    <2>2. exports' = exports + 1 /\ ~Busy(p) /\ UNCHANGED <<files, opened>>
      BY <1>2 DEF Begin
    <2>3. /\ job'[p] = [task |-> j, by |-> exports + 1, events |-> log]
          /\ todo'[p] = Plan(j)
          /\ \A q \in Procs \ {p} : job'[q] = job[q] /\ todo'[q] = todo[q]
      BY <2>1, <2>2 DEF TypeInv
    <2>4. disturbed' = disturbed \cup {job[q].by : q \in {r \in Procs : Busy(r)}}
                           \cup (IF {r \in Procs : Busy(r)} = {} THEN {} ELSE {exports + 1})
      BY <1>2, <2>2 DEF Begin
    <2> QED
      BY <2>1, <2>2, <2>3, <2>4 DEF BeginStep
  <1>3. ASSUME NEW p \in Procs, OpenFile(p)
        PROVE  \E path : OpenStep(p, path)
    <2>1. PICK path : path = Head(todo[p])
      OBVIOUS
    <2>2. OpenStep(p, path)
      BY <1>3, <2>1 DEF OpenFile, OpenStep, TypeInv
    <2> QED
      BY <2>2
  <1>4. ASSUME NEW p \in Procs, WriteFile(p)
        PROVE  \E path, content : WriteStep(p, path, content)
    <2>1. PICK path : path = Head(todo[p])
      OBVIOUS
    <2>2. PICK content :
              /\ files' = [files EXCEPT ![path] = content]
              /\ \/ content = Content(p, path)
                 \/ /\ content = [state |-> "mixed", by |-> job[p].by]
                    /\ files[path] # [state |-> "part", by |-> job[p].by]
      BY <1>4, <2>1 DEF WriteFile
    <2>3. /\ todo' = [todo EXCEPT ![p] = Tail(@)]
          /\ job' = [job EXCEPT ![p] = IF todo'[p] = <<>> THEN None ELSE @]
          /\ p \in opened /\ opened' = opened \ {p}
          /\ UNCHANGED <<exports, disturbed>>
      BY <1>4 DEF WriteFile
    <2>4. todo'[p] = Tail(todo[p])
      BY <2>3 DEF TypeInv
    <2>5. job'[p] = IF Tail(todo[p]) = <<>> THEN None ELSE job[p]
      BY <2>3, <2>4 DEF TypeInv
    <2>6. \A q \in Procs \ {p} : job'[q] = job[q] /\ todo'[q] = todo[q]
      BY <2>3 DEF TypeInv
    <2>7. /\ path \in Paths => files'[path] = content
          /\ \A f \in Paths \ {path} : files'[f] = files[f]
      BY <2>2 DEF TypeInv
    <2>8. WriteStep(p, path, content)
      BY <2>1, <2>2, <2>3, <2>4, <2>5, <2>6, <2>7 DEF WriteStep
    <2> QED
      BY <2>8
  <1>5. ASSUME NEW p \in Procs, Crash(p)
        PROVE  CrashStep(p)
    BY <1>5 DEF Crash, CrashStep, TypeInv
  <1> QED
    BY <1>1, <1>2, <1>3, <1>4, <1>5 DEF Next

LEMMA TypeInvariant == Spec => []TypeInv
  <1>1. Init => TypeInv
    BY DEF Init, TypeInv
  <1>2. ASSUME TypeInv, [Next]_vars
        PROVE  TypeInv'
    <2>1. CASE UNCHANGED vars \/ migrate \/ append
      BY <1>2, <2>1 DEF vars, migrate, append, exporting, TypeInv
    <2>2. ASSUME NEW p \in Procs, Begin(p)
          PROVE  TypeInv'
      <3>1. exports' = exports + 1 /\ files' = files
        BY <2>2 DEF Begin
      <3>2. PICK j \in Jobs :
                /\ job' = [job EXCEPT ![p] = [task |-> j, by |-> exports', events |-> log]]
                /\ todo' = [todo EXCEPT ![p] = Plan(j)]
        BY <2>2 DEF Begin
      <3>3. PICK x, y : x = [task |-> j, by |-> exports', events |-> log] /\ y = Plan(j)
        OBVIOUS
      <3>4. job' = [job EXCEPT ![p] = x] /\ todo' = [todo EXCEPT ![p] = y]
        BY <3>2, <3>3
      <3>5. job' = [q \in Procs |-> job'[q]] /\ todo' = [q \in Procs |-> todo'[q]]
        BY <1>2, <3>4 DEF TypeInv
      <3> QED
        BY <1>2, <3>1, <3>5 DEF TypeInv
    <2>3. ASSUME NEW p \in Procs, OpenFile(p)
          PROVE  TypeInv'
      BY <1>2, <2>3 DEF OpenFile, TypeInv
    <2>4. ASSUME NEW p \in Procs, WriteFile(p)
          PROVE  TypeInv'
      <3>1. PICK path, content : files' = [files EXCEPT ![path] = content]
        BY <2>4 DEF WriteFile
      <3>2. PICK rest : rest = todo'[p]
        OBVIOUS
      <3>3. /\ job' = [job EXCEPT ![p] = IF rest = <<>> THEN None ELSE @]
            /\ todo' = [todo EXCEPT ![p] = Tail(@)]
            /\ exports' = exports
        BY <2>4, <3>2 DEF WriteFile
      <3> QED
        BY <1>2, <3>1, <3>3 DEF TypeInv
    <2>5. ASSUME NEW p \in Procs, Crash(p)
          PROVE  TypeInv'
      BY <1>2, <2>5 DEF Crash, TypeInv
    <2> QED
      BY <1>2, <2>1, <2>2, <2>3, <2>4, <2>5 DEF Next
  <1> QED
    BY <1>1, <1>2, PTL DEF Spec

\* Whatever a command writes to a path carries the command's number.
LEMMA ContentShape ==
    ASSUME NEW p
    PROVE  /\ \A path \in Paths : /\ Content(p, path).by = job[p].by
                                  /\ Content(p, path).state = "whole"
           /\ Content(p, "output").task = job[p].task
           /\ Content(p, "output").events = job[p].events
           /\ Content(p, "output").redacted = Redacts(job[p].task)
           /\ Content(p, "copy").of = files["output"]
           /\ Content(p, "manifest").format = job[p].task.format
           /\ Content(p, "manifest").event_count = Len(job[p].events)
  BY DEF Content, Paths

-----------------------------------------------------------------------------
(* Who runs *)

\* p runs a command that met no other.
Alone(p) == Busy(p) /\ job[p].by \notin disturbed

\* Commands have numbers of their own and write their files in order, and one
\* that is undisturbed is alone and the last that began.
JobInv ==
    /\ \A p \in Procs : Busy(p) =>
          /\ job[p].task \in Jobs
          /\ job[p].by \in 1..exports
          /\ Remaining(job[p].task, todo[p])
    /\ \A p, q \in Procs : Busy(p) /\ Busy(q) /\ job[p].by = job[q].by => p = q
    /\ \A p, q \in Procs : Alone(p) /\ Busy(q) => p = q
    /\ \A p \in Procs : Alone(p) => job[p].by = exports
    /\ \A p \in opened : p \in Procs /\ Busy(p)
    /\ disturbed \subseteq 1..exports
    /\ \A f \in Paths : files[f].by \in 0..exports

LEMMA JobInit == Init => JobInv
  BY DEF Init, JobInv, Busy, Alone, Absent

LEMMA JobStep ==
    ASSUME TypeInv, JobInv, [Next]_vars
    PROVE  JobInv'
  <1>0. exports \in Nat
    BY DEF TypeInv
  <1>1. CASE UNCHANGED <<files, job, todo, opened, exports, disturbed>>
    BY <1>1 DEF JobInv, Busy, Alone
  <1>2. ASSUME NEW p \in Procs, NEW j, BeginStep(p, j)
        PROVE  JobInv'
    <2>1. /\ exports' = exports + 1 /\ j \in Jobs /\ ~Busy(p)
          /\ job'[p].task = j /\ job'[p].by = exports + 1 /\ todo'[p] = Plan(j)
          /\ \A q \in Procs \ {p} : job'[q] = job[q] /\ todo'[q] = todo[q]
          /\ UNCHANGED <<files, opened>>
      BY <1>2 DEF BeginStep
    <2>2. \A q \in Procs \ {p} : Busy(q)' <=> Busy(q)
      BY <2>1 DEF Busy
    <2>3. \A q \in Procs \ {p} : Busy(q) => job[q].by \in disturbed' /\ exports + 1 \in disturbed'
      BY <1>2 DEF BeginStep
    <2>4. \A q \in Procs : Busy(q)' =>
              /\ job'[q].task \in Jobs
              /\ job'[q].by \in 1..exports'
              /\ Remaining(job'[q].task, todo'[q])
      BY <1>0, <2>1, <2>2 DEF JobInv, Remaining
    <2>5. \A q, r \in Procs : Busy(q)' /\ Busy(r)' /\ job'[q].by = job'[r].by => q = r
      <3>1. \A q \in Procs \ {p} : Busy(q) => job[q].by # exports + 1
        BY <1>0 DEF JobInv
      <3> QED
        BY <2>1, <2>2, <3>1 DEF JobInv
    <2>6. \A q \in Procs : Alone(q)' => q = p /\ \A r \in Procs : Busy(r)' => r = p
      BY <2>1, <2>2, <2>3 DEF Alone
    <2>7. \A q \in opened' : q \in Procs /\ Busy(q)'
      BY <2>1, <2>2 DEF JobInv
    <2>8. disturbed' \subseteq 1..exports'
      <3>1. \A k \in disturbed' : k \in disturbed \/ k = exports + 1
                                    \/ \E q \in Procs : Busy(q) /\ k = job[q].by
        BY <1>2 DEF BeginStep
      <3>2. \A k \in disturbed : k \in 1..(exports + 1)
        <4>1. disturbed \subseteq 1..exports
          BY DEF JobInv
        <4> QED
          BY <1>0, <4>1
      <3>3. \A q \in Procs : Busy(q) => job[q].by \in 1..(exports + 1)
        BY <1>0 DEF JobInv
      <3>4. exports + 1 \in 1..(exports + 1)
        BY <1>0
      <3> QED
        BY <2>1, <3>1, <3>2, <3>3, <3>4
    <2>9. \A f \in Paths : files'[f].by \in 0..exports'
      BY <1>0, <2>1 DEF JobInv
    <2> QED
      BY <2>1, <2>4, <2>5, <2>6, <2>7, <2>8, <2>9 DEF JobInv
  <1>3. ASSUME NEW p \in Procs, NEW path, OpenStep(p, path)
        PROVE  JobInv'
    <2>1. UNCHANGED <<job, todo, exports, disturbed>> /\ opened' = opened \cup {p} /\ Busy(p)
      BY <1>3 DEF OpenStep
    <2>2. path \in Paths
      BY <1>3, RemainingShape DEF OpenStep, JobInv
    <2>3. \A f \in Paths : files'[f].by \in 0..exports
      <3>1. job[p].by \in 0..exports
        BY <1>0, <2>1 DEF JobInv
      <3>2. files'[path].by = job[p].by
        BY <1>3, <2>2 DEF OpenStep
      <3>3. \A f \in Paths \ {path} : files'[f] = files[f]
        BY <1>3 DEF OpenStep
      <3> QED
        BY <3>1, <3>2, <3>3 DEF JobInv
    <2>4. \A q \in Procs : (Busy(q)' <=> Busy(q)) /\ (Alone(q)' <=> Alone(q))
      BY <2>1 DEF Busy, Alone
    <2> QED
      BY <2>1, <2>3, <2>4 DEF JobInv
  <1>4. ASSUME NEW p \in Procs, NEW path, NEW content, WriteStep(p, path, content)
        PROVE  JobInv'
    <2>1. /\ p \in opened /\ opened' = opened \ {p} /\ path = Head(todo[p])
          /\ todo'[p] = Tail(todo[p])
          /\ job'[p] = IF Tail(todo[p]) = <<>> THEN None ELSE job[p]
          /\ \A q \in Procs \ {p} : job'[q] = job[q] /\ todo'[q] = todo[q]
          /\ UNCHANGED <<exports, disturbed>>
      BY <1>4 DEF WriteStep
    <2>2. Busy(p) /\ job[p].task \in Jobs /\ job[p].by \in 0..exports
      BY <1>0, <2>1 DEF JobInv
    <2>3. path \in Paths /\ (Tail(todo[p]) = <<>> \/ Remaining(job[p].task, Tail(todo[p])))
      BY <2>1, <2>2, RemainingShape DEF JobInv
    <2>4. \A q \in Procs : /\ Busy(q)' => Busy(q) /\ job'[q] = job[q]
                           /\ Alone(q)' => Alone(q)
      BY <2>1, <2>2 DEF Busy, Alone
    <2>5. Busy(p)' => Remaining(job'[p].task, todo'[p])
      BY <2>1, <2>3, <2>4 DEF Busy
    <2>6. \A f \in Paths : files'[f].by \in 0..exports
      <3>1. files'[path].by = job[p].by
        <4>1. content.by = job[p].by
          BY <1>4, <2>3, ContentShape DEF WriteStep
        <4> QED
          BY <1>4, <2>3, <4>1 DEF WriteStep
      <3>2. \A f \in Paths \ {path} : files'[f] = files[f]
        BY <1>4 DEF WriteStep
      <3> QED
        BY <2>2, <3>1, <3>2 DEF JobInv
    <2>7. \A q \in opened' : q \in Procs /\ Busy(q)'
      BY <2>1 DEF JobInv, Busy
    <2>8. \A q \in Procs : Busy(q)' =>
              /\ job'[q].task \in Jobs
              /\ job'[q].by \in 1..exports
              /\ Remaining(job'[q].task, todo'[q])
      BY <2>1, <2>4, <2>5 DEF JobInv
    <2>9. \A q, r \in Procs : Busy(q)' /\ Busy(r)' /\ job'[q].by = job'[r].by => q = r
      BY <2>4 DEF JobInv
    <2>10. \A q, r \in Procs : Alone(q)' /\ Busy(r)' => q = r
      BY <2>4 DEF JobInv
    <2>11. \A q \in Procs : Alone(q)' => job'[q].by = exports
      BY <2>4 DEF JobInv, Alone
    <2> QED
      BY <2>1, <2>6, <2>7, <2>8, <2>9, <2>10, <2>11 DEF JobInv
  <1>5. ASSUME NEW p \in Procs, CrashStep(p)
        PROVE  JobInv'
    <2>1. /\ Busy(p) /\ ~Busy(p)' /\ opened' = opened \ {p}
          /\ \A q \in Procs \ {p} : job'[q] = job[q] /\ todo'[q] = todo[q]
          /\ disturbed' = disturbed \cup {job[p].by}
          /\ UNCHANGED <<files, exports>>
      BY <1>5 DEF CrashStep, Busy
    <2>2. \A q \in Procs : /\ Busy(q)' => Busy(q) /\ q # p /\ job'[q] = job[q] /\ todo'[q] = todo[q]
                           /\ Alone(q)' => Alone(q)
      BY <2>1 DEF Busy, Alone
    <2>3. \A q \in opened' : q \in Procs /\ Busy(q)'
      BY <2>1 DEF JobInv, Busy
    <2>4. disturbed' \subseteq 1..exports
      BY <2>1 DEF JobInv
    <2>5. \A q, r \in Procs : Busy(q)' /\ Busy(r)' /\ job'[q].by = job'[r].by => q = r
      BY <2>2 DEF JobInv
    <2>6. \A q, r \in Procs : Alone(q)' /\ Busy(r)' => q = r
      BY <2>2 DEF JobInv
    <2>7. \A q \in Procs : Alone(q)' => job'[q].by = exports
      BY <2>2 DEF JobInv, Alone
    <2>8. \A q \in Procs : Busy(q)' =>
              /\ job'[q].task \in Jobs
              /\ job'[q].by \in 1..exports
              /\ Remaining(job'[q].task, todo'[q])
      BY <2>2 DEF JobInv
    <2> QED
      BY <2>1, <2>3, <2>4, <2>5, <2>6, <2>7, <2>8 DEF JobInv
  <1> QED
    BY <1>1, <1>2, <1>3, <1>4, <1>5, Steps

LEMMA JobInvariant == Spec => []JobInv
  BY JobInit, JobStep, TypeInvariant, PTL DEF Spec

\* A path is truncated and written by the command whose turn it is.
LEMMA Turn ==
    ASSUME JobInv, NEW p \in Procs, Busy(p)
    PROVE  /\ job[p].task \in Jobs /\ Remaining(job[p].task, todo[p])
           /\ Head(todo[p]) \in Paths
           /\ Head(todo[p]) = "output" => job[p].task.command # "compress"
           /\ Head(todo[p]) = "copy" /\ job[p].task.command # "compress" =>
                  todo[p] # Plan(job[p].task)
           /\ Head(todo[p]) = "manifest" =>
                  /\ todo[p] # Plan(job[p].task) /\ Claims(job[p].task)
                  /\ todo[p] = <<"manifest">> /\ Tail(todo[p]) = <<>>
                  /\ job[p].task.command # "compress"
           /\ Tail(todo[p]) # <<>> /\ Head(todo[p]) # "output" => todo[p] # Plan(job[p].task)
           /\ todo[p] # Plan(job[p].task) => Head(todo[p]) # "output"
  <1>1. job[p].task \in Jobs /\ Remaining(job[p].task, todo[p])
    BY DEF JobInv
  <1>2. Head(<<"copy">>) = "copy" /\ Tail(<<"copy">>) = <<>>
    OBVIOUS
  <1> QED
    BY <1>1, <1>2, RemainingShape

-----------------------------------------------------------------------------
(* What a command that is alone has written is there *)

AloneOf(p) ==
    /\ p \in opened => files[Head(todo[p])] = [state |-> "part", by |-> job[p].by]
    /\ todo[p] # Plan(job[p].task) => files["output"] = Content(p, "output")
    /\ todo[p] = <<"manifest">> /\ job[p].task.compress =>
          /\ Whole("copy") /\ files["copy"].by = job[p].by
          /\ files["copy"].of = files["output"]

AloneInv == \A p \in Procs : Alone(p) => AloneOf(p)

LEMMA AloneStep ==
    ASSUME TypeInv, JobInv, JobInv', AloneInv, [Next]_vars
    PROVE  AloneInv'
  <1>1. CASE UNCHANGED <<files, job, todo, opened, exports, disturbed>>
    BY <1>1 DEF AloneInv, AloneOf, Alone, Busy, Whole, Content
  <1>2. ASSUME NEW p \in Procs, NEW j, BeginStep(p, j)
        PROVE  AloneInv'
    <2>1. /\ j \in Jobs /\ p \notin opened' /\ job'[p].task = j /\ todo'[p] = Plan(j)
          /\ \A q \in Procs \ {p} : Busy(q)' => job'[q].by \in disturbed'
      <3>1. \A q \in Procs \ {p} : Busy(q) => job[q].by \in disturbed'
        BY <1>2 DEF BeginStep
      <3> QED
        BY <1>2, <3>1 DEF BeginStep, JobInv, Busy
    <2>2. todo'[p] # <<"manifest">>
      <3>1. <<"copy">> # <<"manifest">> /\ <<"output", "copy", "manifest">> # <<"manifest">>
            /\ <<"output", "manifest">> # <<"manifest">> /\ <<"output", "copy">> # <<"manifest">>
            /\ <<"output">> # <<"manifest">>
        OBVIOUS
      <3> QED
        BY <2>1, <3>1, PlanShape
    <2>3. AloneOf(p)'
      BY <2>1, <2>2 DEF AloneOf
    <2> QED
      BY <2>1, <2>3 DEF AloneInv, Alone
  <1>3. ASSUME NEW p \in Procs, NEW path, OpenStep(p, path)
        PROVE  AloneInv'
    <2>1. /\ UNCHANGED <<job, todo, exports, disturbed>> /\ opened' = opened \cup {p} /\ Busy(p)
          /\ path = Head(todo[p])
          /\ path \in Paths => files'[path] = [state |-> "part", by |-> job[p].by]
          /\ \A f \in Paths \ {path} : files'[f] = files[f]
      BY <1>3 DEF OpenStep
    <2>2. \A q \in Procs : Alone(q)' => q = p /\ Alone(p)
      BY <2>1 DEF JobInv, Alone, Busy
    <2>3. SUFFICES ASSUME Alone(p)
                   PROVE  AloneOf(p)'
      BY <2>2 DEF AloneInv
    <2>4. AloneOf(p)
      BY <2>3 DEF AloneInv
    <2>5. path \in Paths
      BY <2>1, Turn
    <2>6. files'[Head(todo'[p])] = [state |-> "part", by |-> job'[p].by]
      BY <2>1, <2>5
    <2>7. ASSUME todo'[p] # Plan(job'[p].task)
          PROVE  files'["output"] = Content(p, "output")'
      <3>1. path # "output" /\ todo[p] # Plan(job[p].task)
        BY <2>1, <2>7, Turn
      <3>2. files'["output"] = files["output"]
        BY <2>1, <3>1 DEF Paths
      <3>3. Content(p, "output")' = Content(p, "output")
        BY <2>1 DEF Content
      <3> QED
        BY <2>4, <3>1, <3>2, <3>3 DEF AloneOf
    <2>8. ASSUME todo'[p] = <<"manifest">>, job'[p].task.compress
          PROVE  /\ Whole("copy")' /\ files'["copy"].by = job'[p].by
                 /\ files'["copy"].of = files'["output"]
      <3>1. path = "manifest"
        BY <2>1, <2>8
      <3>2. files'["output"] = files["output"] /\ files'["copy"] = files["copy"]
        BY <2>1, <3>1 DEF Paths
      <3> QED
        BY <2>1, <2>4, <2>8, <3>2 DEF AloneOf, Whole
    <2> QED
      BY <2>6, <2>7, <2>8 DEF AloneOf
  <1>4. ASSUME NEW p \in Procs, NEW path, NEW content, WriteStep(p, path, content)
        PROVE  AloneInv'
    <2>1. /\ p \in opened /\ opened' = opened \ {p} /\ path = Head(todo[p])
          /\ \/ content = Content(p, path)
             \/ files[path] # [state |-> "part", by |-> job[p].by]
          /\ path \in Paths => files'[path] = content
          /\ \A f \in Paths \ {path} : files'[f] = files[f]
          /\ todo'[p] = Tail(todo[p])
          /\ job'[p] = IF Tail(todo[p]) = <<>> THEN None ELSE job[p]
          /\ \A q \in Procs \ {p} : job'[q] = job[q] /\ todo'[q] = todo[q]
          /\ UNCHANGED <<exports, disturbed>>
      BY <1>4 DEF WriteStep
    <2>2. Busy(p)
      BY <2>1 DEF JobInv
    <2>3. \A q \in Procs : Alone(q)' => Alone(q) /\ q = p
      <3>1. \A q \in Procs : Alone(q)' => Alone(q)
        BY <2>1, <2>2 DEF Busy, Alone
      <3> QED
        BY <2>2, <3>1 DEF JobInv
    <2>4. SUFFICES ASSUME Alone(p), Alone(p)'
                   PROVE  AloneOf(p)'
      BY <2>3 DEF AloneInv
    <2>5. job'[p] = job[p] /\ Tail(todo[p]) # <<>> /\ path \in Paths
      BY <2>1, <2>2, <2>4, Turn DEF Alone, Busy
    <2>6. AloneOf(p) /\ files'[path] = Content(p, path)
      BY <2>1, <2>4, <2>5 DEF AloneInv, AloneOf
    <2>7. files'["output"] = Content(p, "output")'
      <3>1. Content(p, "output")' = Content(p, "output")
        BY <2>5 DEF Content
      <3>2. CASE path = "output"
        BY <2>6, <3>1, <3>2
      <3>3. CASE path # "output"
        <4>1. files'["output"] = files["output"] /\ todo[p] # Plan(job[p].task)
          BY <2>1, <2>2, <2>5, <3>3, Turn DEF Paths
        <4> QED
          BY <2>6, <3>1, <4>1 DEF AloneOf
      <3> QED
        BY <3>2, <3>3
    <2>8. ASSUME todo'[p] = <<"manifest">>, job'[p].task.compress
          PROVE  /\ Whole("copy")' /\ files'["copy"].by = job'[p].by
                 /\ files'["copy"].of = files'["output"]
      <3>1. path = "copy"
        <4>1. job[p].task \in Jobs /\ Remaining(job[p].task, todo[p])
          BY <2>2, Turn
        <4>2. Tail(todo[p]) = <<"manifest">> /\ job[p].task.compress
          BY <2>1, <2>5, <2>8
        <4>3. Head(todo[p]) = "copy"
          BY <4>1, <4>2, RemainingShape
        <4> QED
          BY <2>1, <4>3
      <3>2. files'["output"] = files["output"] /\ files'["copy"] = Content(p, "copy")
        BY <2>1, <2>6, <3>1 DEF Paths
      <3> QED
        BY <2>5, <3>2, ContentShape DEF Whole, Paths
    <2> QED
      BY <2>1, <2>7, <2>8 DEF AloneOf
  <1>5. ASSUME NEW p \in Procs, CrashStep(p)
        PROVE  AloneInv'
    <2>1. /\ Busy(p) /\ ~Busy(p)'
          /\ \A q \in Procs \ {p} : job'[q] = job[q] /\ todo'[q] = todo[q]
          /\ disturbed \subseteq disturbed'
      BY <1>5 DEF CrashStep, Busy
    <2>2. \A q \in Procs : ~Alone(q)'
      <3>1. \A q \in Procs : Alone(q)' => q # p /\ Alone(q)
        BY <2>1 DEF Alone, Busy
      <3> QED
        BY <2>1, <3>1 DEF JobInv
    <2> QED
      BY <2>2 DEF AloneInv
  <1> QED
    BY <1>1, <1>2, <1>3, <1>4, <1>5, Steps

LEMMA AloneInvariant == Spec => []AloneInv
  <1>1. Init => AloneInv
    BY DEF Init, AloneInv, Alone, Busy
  <1> QED
    BY <1>1, AloneStep, TypeInvariant, JobInvariant, PTL DEF Spec

-----------------------------------------------------------------------------
(* The manifest *)

\* Nobody writes a manifest before the output it describes.
ManifestInv ==
    files["manifest"].by > 0 /\ files["manifest"].by \notin disturbed =>
        /\ files["output"].by >= files["manifest"].by
        /\ \A p \in Procs : Busy(p) => job[p].by >= files["manifest"].by

\* What opening and writing a file have in common: the file is the command's.
LEMMA ManifestFile ==
    ASSUME TypeInv, JobInv, AloneInv, ManifestInv, UNCHANGED <<exports, disturbed>>,
           NEW p \in Procs, Busy(p), NEW path \in Paths, path = Head(todo[p]),
           files'[path].by = job[p].by,
           \A f \in Paths \ {path} : files'[f] = files[f],
           \A q \in Procs : Busy(q)' => Busy(q) /\ job'[q] = job[q]
    PROVE  ManifestInv'
  <1>1. /\ exports \in Nat /\ job[p].by \in 1..exports
        /\ \A f \in Paths : files[f].by \in 0..exports
        /\ \A q \in Procs : Busy(q) => job[q].by \in 1..exports
    BY DEF JobInv, TypeInv
  <1>2. CASE path = "manifest"
    <2>1. SUFFICES ASSUME job[p].by \notin disturbed
                   PROVE  ManifestInv'
      BY <1>2 DEF ManifestInv
    <2>2. Alone(p) /\ \A q \in Procs : Busy(q) => q = p
      BY <2>1 DEF Alone, JobInv
    <2>3. files["output"].by = job[p].by
      <3>1. files["output"] = Content(p, "output")
        BY <1>2, <2>2, Turn DEF AloneInv, AloneOf
      <3> QED
        BY <3>1, ContentShape DEF Paths
    <2>4. files'["output"] = files["output"] /\ files'["manifest"].by = job[p].by
      BY <1>2 DEF Paths
    <2> QED
      BY <1>1, <2>2, <2>3, <2>4 DEF ManifestInv
  <1>3. CASE path = "output"
    <2>1. files'["manifest"] = files["manifest"] /\ files'["output"].by = job[p].by
      BY <1>3 DEF Paths
    <2> QED
      BY <2>1 DEF ManifestInv
  <1>4. CASE path = "copy"
    <2>1. files'["manifest"] = files["manifest"] /\ files'["output"] = files["output"]
      BY <1>4 DEF Paths
    <2> QED
      BY <2>1 DEF ManifestInv
  <1> QED
    BY <1>2, <1>3, <1>4 DEF Paths

LEMMA ManifestStep ==
    ASSUME TypeInv, JobInv, AloneInv, ManifestInv, [Next]_vars
    PROVE  ManifestInv'
  <1>1. CASE UNCHANGED <<files, job, todo, opened, exports, disturbed>>
    BY <1>1 DEF ManifestInv, Busy
  <1>2. ASSUME NEW p \in Procs, NEW j, BeginStep(p, j)
        PROVE  ManifestInv'
    <2>1. /\ exports \in Nat /\ files["manifest"].by \in 0..exports
          /\ files' = files /\ job'[p].by = exports + 1
          /\ \A q \in Procs \ {p} : job'[q] = job[q]
          /\ disturbed \subseteq disturbed'
      BY <1>2 DEF BeginStep, JobInv, TypeInv, Paths
    <2> QED
      BY <2>1 DEF ManifestInv, Busy
  <1>3. ASSUME NEW p \in Procs, NEW path, OpenStep(p, path)
        PROVE  ManifestInv'
    <2>1. path \in Paths /\ path = Head(todo[p]) /\ Busy(p)
      BY <1>3, Turn DEF OpenStep
    <2>2. files'[path].by = job[p].by
      BY <1>3, <2>1 DEF OpenStep
    <2>3. /\ \A q \in Procs : Busy(q)' => Busy(q) /\ job'[q] = job[q]
          /\ \A f \in Paths \ {path} : files'[f] = files[f]
          /\ UNCHANGED <<exports, disturbed>>
      BY <1>3 DEF OpenStep, Busy
    <2> QED
      BY <2>1, <2>2, <2>3, ManifestFile
  <1>4. ASSUME NEW p \in Procs, NEW path, NEW content, WriteStep(p, path, content)
        PROVE  ManifestInv'
    <2>1. path \in Paths /\ path = Head(todo[p]) /\ Busy(p)
      BY <1>4, Turn DEF WriteStep, JobInv
    <2>2. files'[path].by = job[p].by
      <3>1. content.by = job[p].by
        BY <1>4, <2>1, ContentShape DEF WriteStep
      <3> QED
        BY <1>4, <2>1, <3>1 DEF WriteStep
    <2>3. /\ \A q \in Procs : Busy(q)' => Busy(q) /\ job'[q] = job[q]
          /\ \A f \in Paths \ {path} : files'[f] = files[f]
          /\ UNCHANGED <<exports, disturbed>>
      BY <1>4, <2>1 DEF WriteStep, Busy
    <2> QED
      BY <2>1, <2>2, <2>3, ManifestFile
  <1>5. ASSUME NEW p \in Procs, CrashStep(p)
        PROVE  ManifestInv'
    <2>1. /\ files' = files /\ disturbed \subseteq disturbed'
          /\ \A q \in Procs : Busy(q)' => Busy(q) /\ job'[q] = job[q]
      BY <1>5 DEF CrashStep, Busy
    <2> QED
      BY <2>1 DEF ManifestInv
  <1> QED
    BY <1>1, <1>2, <1>3, <1>4, <1>5, Steps

LEMMA ManifestInvariant == Spec => []ManifestInv
  <1>1. Init => ManifestInv
    BY DEF Init, ManifestInv, Absent, Paths
  <1> QED
    BY <1>1, ManifestStep, TypeInvariant, JobInvariant, AloneInvariant, PTL DEF Spec

-----------------------------------------------------------------------------
(* What a command that was alone has left behind *)

Started(p) == todo[p] # Plan(job[p].task) \/ p \in opened

Finished(k) == \A p \in Procs : Busy(p) => job[p].by # k

\* The output belongs to a command that has begun to write it, and is redacted
\* as that command's task says.
OutputInv ==
    /\ \A p \in Procs : Busy(p) /\ files["output"].by = job[p].by =>
          job[p].task.command # "compress" /\ Started(p)
    /\ Whole("output") => files["output"].redacted = Redacts(files["output"].task)

\* Nobody has begun to replace the output; the copy is of the output or about
\* to be written again; the manifest describes the output.
Settled ==
    /\ \A p \in Procs : Busy(p) /\ job[p].task.command # "compress" => ~Started(p)
    /\ files["output"].task.compress /\ Undisturbed("copy") =>
          \/ Whole("copy") /\ files["copy"].of = files["output"]
          \/ ~Finished(files["copy"].by)
    /\ Claims(files["output"].task) =>
          /\ Whole("manifest") /\ files["manifest"].by = files["output"].by
          /\ files["manifest"].event_count = Len(files["output"].events)
          /\ files["manifest"].format = files["output"].task.format

EndedInv ==
    Whole("output") /\ Undisturbed("output") /\ Finished(files["output"].by) => Settled

LEMMA OutputStep ==
    ASSUME TypeInv, JobInv, JobInv', OutputInv, [Next]_vars
    PROVE  OutputInv'
  <1>0. "output" \in Paths
    BY DEF Paths
  <1>1. CASE UNCHANGED <<files, job, todo, opened, exports, disturbed>>
    BY <1>1 DEF OutputInv, Started, Busy, Whole
  <1>2. ASSUME NEW p \in Procs, NEW j, BeginStep(p, j)
        PROVE  OutputInv'
    <2>1. /\ exports \in Nat /\ files["output"].by \in 0..exports
          /\ files' = files /\ opened' = opened /\ job'[p].by = exports + 1
          /\ \A q \in Procs \ {p} : job'[q] = job[q] /\ todo'[q] = todo[q]
      BY <1>0, <1>2 DEF BeginStep, JobInv, TypeInv
    <2>2. files["output"].by # exports + 1
      BY <2>1
    <2> QED
      BY <2>1, <2>2 DEF OutputInv, Started, Busy, Whole
  <1>3. ASSUME NEW p \in Procs, NEW path, OpenStep(p, path)
        PROVE  OutputInv'
    <2>1. /\ path \in Paths /\ path = Head(todo[p]) /\ Busy(p)
          /\ UNCHANGED <<job, todo>> /\ opened' = opened \cup {p}
          /\ files'[path] = [state |-> "part", by |-> job[p].by]
          /\ \A f \in Paths \ {path} : files'[f] = files[f]
      BY <1>3, Turn DEF OpenStep
    <2>2. CASE path # "output"
      <3>1. files'["output"] = files["output"]
        BY <1>0, <2>1, <2>2
      <3> QED
        BY <2>1, <3>1 DEF OutputInv, Started, Busy, Whole
    <2>3. CASE path = "output"
      <3>1. \A q \in Procs : Busy(q)' /\ files'["output"].by = job'[q].by => q = p
        BY <2>1, <2>3 DEF JobInv, Busy
      <3>2. job[p].task.command # "compress"
        BY <2>1, <2>3, Turn
      <3>3. ~Whole("output")'
        BY <2>1, <2>3 DEF Whole
      <3> QED
        BY <2>1, <3>1, <3>2, <3>3 DEF OutputInv, Started
    <2> QED
      BY <2>2, <2>3
  <1>4. ASSUME NEW p \in Procs, NEW path, NEW content, WriteStep(p, path, content)
        PROVE  OutputInv'
    <2>1. /\ p \in opened /\ opened' = opened \ {p} /\ path = Head(todo[p])
          /\ \/ content = Content(p, path)
             \/ content = [state |-> "mixed", by |-> job[p].by]
          /\ path \in Paths => files'[path] = content
          /\ \A f \in Paths \ {path} : files'[f] = files[f]
          /\ todo'[p] = Tail(todo[p])
          /\ job'[p] = IF Tail(todo[p]) = <<>> THEN None ELSE job[p]
          /\ \A q \in Procs \ {p} : job'[q] = job[q] /\ todo'[q] = todo[q]
      BY <1>4 DEF WriteStep
    <2>2. Busy(p) /\ path \in Paths
      BY <2>1, Turn DEF JobInv
    <2>3. /\ \A q \in Procs : Busy(q)' => Busy(q) /\ job'[q] = job[q]
          /\ \A q \in Procs \ {p} : Started(q)' <=> Started(q)
      BY <2>1, <2>2 DEF Busy, Started
    <2>4. Busy(p)' => Started(p)'
      <3>1. job[p].task \in Jobs /\ Remaining(job[p].task, todo[p])
        BY <2>2, Turn
      <3>2. Tail(todo[p]) # Plan(job[p].task)
        BY <3>1, RemainingShape
      <3> QED
        BY <2>1, <2>3, <3>2 DEF Started
    <2>5. CASE path # "output"
      <3>1. files'["output"] = files["output"]
        BY <1>0, <2>1, <2>5
      <3>2. \A q \in Procs : Busy(q)' /\ files'["output"].by = job'[q].by =>
                job'[q].task.command # "compress" /\ Started(q)'
        BY <2>3, <2>4, <3>1 DEF OutputInv
      <3> QED
        BY <3>1, <3>2 DEF OutputInv, Whole
    <2>6. CASE path = "output"
      <3>1. files'["output"].by = job[p].by
        BY <1>0, <2>1, <2>6, ContentShape
      <3>2. \A q \in Procs : Busy(q)' /\ files'["output"].by = job'[q].by => q = p
        BY <2>2, <2>3, <3>1 DEF JobInv
      <3>3. job[p].task.command # "compress"
        BY <2>1, <2>2, <2>6, Turn
      <3>4. Whole("output")' => files'["output"].redacted = Redacts(files'["output"].task)
        <4>1. CASE content = Content(p, "output")
          <5>1. files'["output"] = content
            BY <1>0, <2>1, <2>6
          <5> QED
            BY <4>1, <5>1, ContentShape
        <4>2. CASE content = [state |-> "mixed", by |-> job[p].by]
          BY <1>0, <2>1, <2>6, <4>2 DEF Whole
        <4> QED
          BY <2>1, <2>6, <4>1, <4>2
      <3> QED
        BY <2>3, <2>4, <3>2, <3>3, <3>4 DEF OutputInv
    <2> QED
      BY <2>5, <2>6
  <1>5. ASSUME NEW p \in Procs, CrashStep(p)
        PROVE  OutputInv'
    <2>1. /\ ~Busy(p)' /\ opened' = opened \ {p} /\ files' = files
          /\ \A q \in Procs \ {p} : job'[q] = job[q] /\ todo'[q] = todo[q]
      BY <1>5 DEF CrashStep, Busy
    <2> QED
      BY <2>1 DEF OutputInv, Started, Busy, Whole
  <1> QED
    BY <1>1, <1>2, <1>3, <1>4, <1>5, Steps

LEMMA OutputInvariant == Spec => []OutputInv
  <1>1. Init => OutputInv
    BY DEF Init, OutputInv, Busy, Whole, Absent, Paths
  <1> QED
    BY <1>1, OutputStep, TypeInvariant, JobInvariant, PTL DEF Spec

LEMMA EndedBegin ==
    ASSUME TypeInv, JobInv, EndedInv, NEW p \in Procs, NEW j, BeginStep(p, j)
    PROVE  EndedInv'
  <1>1. /\ ~Busy(p) /\ job'[p].by = exports + 1 /\ job'[p].task = j /\ todo'[p] = Plan(j)
        /\ \A q \in Procs \ {p} : job'[q] = job[q] /\ todo'[q] = todo[q]
        /\ disturbed \subseteq disturbed' /\ UNCHANGED <<files, opened>>
    BY DEF BeginStep
  <1>2. SUFFICES ASSUME Whole("output")', Undisturbed("output")', Finished(files["output"].by)'
                 PROVE  Settled'
    BY <1>1 DEF EndedInv
  <1>3. \A q \in Procs : Busy(q) => Busy(q)' /\ q # p /\ job'[q] = job[q]
    BY <1>1 DEF Busy
  <1>4. Settled
    BY <1>1, <1>2, <1>3 DEF EndedInv, Whole, Undisturbed, Finished
  <1>5. \A q \in Procs : Busy(q)' /\ job'[q].task.command # "compress" => ~Started(q)'
    <2>1. p \notin opened'
      BY <1>1 DEF JobInv
    <2>2. ~Started(p)'
      BY <1>1, <2>1 DEF Started
    <2> QED
      BY <1>1, <1>4, <2>2 DEF Settled, Started, Busy
  <1>6. ~Finished(files["copy"].by) => ~Finished(files["copy"].by)'
    BY <1>1, <1>3 DEF Finished
  <1> QED
    BY <1>1, <1>4, <1>5, <1>6 DEF Settled, Undisturbed, Whole

LEMMA EndedOpen ==
    ASSUME TypeInv, JobInv, EndedInv, NEW p \in Procs, NEW path, OpenStep(p, path)
    PROVE  EndedInv'
  <1>1. /\ path \in Paths /\ path = Head(todo[p]) /\ Busy(p)
        /\ UNCHANGED <<job, todo, disturbed>> /\ opened' = opened \cup {p}
        /\ files'[path] = [state |-> "part", by |-> job[p].by]
        /\ \A f \in Paths \ {path} : files'[f] = files[f]
    BY Turn DEF OpenStep
  <1>2. SUFFICES ASSUME Whole("output")', Undisturbed("output")', Finished(files["output"].by)'
                 PROVE  Settled'
    BY DEF EndedInv
  <1>3. path # "output" /\ files'["output"] = files["output"]
    <2>1. path # "output"
      BY <1>1, <1>2 DEF Whole
    <2> QED
      BY <1>1, <2>1 DEF Paths
  <1>4. Settled
    BY <1>1, <1>2, <1>3 DEF EndedInv, Whole, Undisturbed, Finished, Busy
  <1>5. job[p].task.command = "compress"
    <2>1. SUFFICES ASSUME job[p].task.command # "compress"
                   PROVE  FALSE
      OBVIOUS
    <2>2. todo[p] # Plan(job[p].task)
      BY <1>1, <1>3, <2>1, Turn DEF Paths
    <2> QED
      BY <1>1, <1>4, <2>1, <2>2 DEF Settled, Started
  <1>6. path = "copy" /\ files'["manifest"] = files["manifest"]
    <2>1. path = "copy"
      BY <1>1, <1>3, <1>5, Turn DEF Paths
    <2> QED
      BY <1>1, <2>1 DEF Paths
  <1>7. \A q \in Procs : Busy(q)' /\ job'[q].task.command # "compress" => ~Started(q)'
    BY <1>1, <1>4, <1>5 DEF Settled, Started, Busy
  <1>8. ~Finished(files["copy"].by)'
    BY <1>1, <1>6 DEF Finished, Busy
  <1> QED
    BY <1>3, <1>4, <1>6, <1>7, <1>8 DEF Settled, Whole

LEMMA EndedCrash ==
    ASSUME EndedInv, NEW p \in Procs, CrashStep(p)
    PROVE  EndedInv'
  <1>1. /\ Busy(p) /\ ~Busy(p)' /\ files' = files /\ opened' = opened \ {p}
        /\ \A q \in Procs \ {p} : job'[q] = job[q] /\ todo'[q] = todo[q]
        /\ disturbed' = disturbed \cup {job[p].by}
    BY DEF CrashStep, Busy
  <1>2. SUFFICES ASSUME Whole("output")', Undisturbed("output")', Finished(files["output"].by)'
                 PROVE  Settled'
    BY <1>1 DEF EndedInv
  <1>3. Whole("output") /\ Undisturbed("output") /\ Finished(files["output"].by)
    BY <1>1, <1>2 DEF Whole, Undisturbed, Finished, Busy
  <1>4. Settled
    BY <1>3 DEF EndedInv
  <1>5. \A q \in Procs : Busy(q)' /\ job'[q].task.command # "compress" => ~Started(q)'
    BY <1>1, <1>4 DEF Settled, Started, Busy
  <1>6. Undisturbed("copy")' => /\ Undisturbed("copy")
                                /\ ~Finished(files["copy"].by) => ~Finished(files["copy"].by)'
    BY <1>1 DEF Undisturbed, Finished, Busy
  <1> QED
    BY <1>1, <1>4, <1>5, <1>6 DEF Settled, Whole

LEMMA EndedWrite ==
    ASSUME TypeInv, JobInv, AloneInv, OutputInv, EndedInv,
           NEW p \in Procs, NEW path, NEW content, WriteStep(p, path, content)
    PROVE  EndedInv'
  <1>1. /\ p \in opened /\ opened' = opened \ {p} /\ path = Head(todo[p])
        /\ \/ content = Content(p, path)
           \/ /\ content = [state |-> "mixed", by |-> job[p].by]
              /\ files[path] # [state |-> "part", by |-> job[p].by]
        /\ path \in Paths => files'[path] = content
        /\ \A f \in Paths \ {path} : files'[f] = files[f]
        /\ todo'[p] = Tail(todo[p])
        /\ job'[p] = IF Tail(todo[p]) = <<>> THEN None ELSE job[p]
        /\ \A q \in Procs \ {p} : job'[q] = job[q] /\ todo'[q] = todo[q]
        /\ UNCHANGED disturbed
    BY DEF WriteStep
  <1>2. Busy(p) /\ path \in Paths /\ job[p].task \in Jobs /\ Remaining(job[p].task, todo[p])
    BY <1>1, Turn DEF JobInv
  <1>3. SUFFICES ASSUME Whole("output")', Undisturbed("output")', Finished(files["output"].by)'
                 PROVE  Settled'
    BY DEF EndedInv
  <1>4. files'[path].by = job[p].by
    BY <1>1, <1>2, ContentShape
  <1>5. \A q \in Procs : Busy(q)' => Busy(q) /\ job'[q] = job[q]
    BY <1>1, <1>2 DEF Busy
  <1>6. Alone(p) => files'[path] = Content(p, path)
    BY <1>1, <1>2 DEF AloneInv, AloneOf
  <1>7. Alone(p) => \A q \in Procs : Busy(q) => q = p
    BY DEF JobInv
  <1>8. job[p].by = files'["output"].by => ~Busy(p)' /\ Tail(todo[p]) = <<>> /\ Alone(p)
    BY <1>1, <1>2, <1>3, <1>5 DEF Finished, Undisturbed, Alone, Busy
  <1>9. CASE path = "output"
    <2>1. files'["output"] = content /\ job[p].by = files'["output"].by
      BY <1>1, <1>2, <1>4, <1>9
    <2>2. /\ Tail(todo[p]) = <<>> /\ Alone(p) /\ content = Content(p, "output")
          /\ \A q \in Procs : ~Busy(q)'
      BY <1>5, <1>6, <1>7, <1>8, <1>9, <2>1
    <2>3. files'["output"].task = job[p].task
      BY <2>1, <2>2, ContentShape
    <2>4. job[p].task.command # "compress"
      BY <1>1, <1>2, <1>9, Turn
    <2>5. ~Claims(job[p].task)
      <3>1. Claims(job[p].task) => todo[p] = <<"manifest">>
        BY <1>2, <2>2, RemainingShape
      <3>2. Head(<<"manifest">>) = "manifest"
        OBVIOUS
      <3> QED
        BY <1>1, <1>9, <3>1, <3>2
    <2>6. ~job[p].task.compress
      <3>1. job[p].task.compress => Head(todo[p]) = "copy"
        BY <1>2, <2>2, <2>4, <2>5, RemainingShape
      <3> QED
        BY <1>1, <1>9, <3>1
    <2> QED
      BY <2>2, <2>3, <2>5, <2>6 DEF Settled
  <1>10. CASE path = "copy"
    <2>1. files'["output"] = files["output"] /\ files'["manifest"] = files["manifest"]
      BY <1>1, <1>10 DEF Paths
    <2>2. Alone(p) => Whole("copy")' /\ files'["copy"].of = files'["output"]
      BY <1>6, <1>10, <2>1, ContentShape DEF Whole, Paths
    <2>3. CASE Finished(files["output"].by)
      <3>1. Settled
        BY <1>1, <1>3, <2>1, <2>3 DEF EndedInv, Whole, Undisturbed
      <3>2. job[p].task.command = "compress"
        BY <1>1, <1>2, <3>1 DEF Settled, Started
      <3>3. \A q \in Procs : Busy(q)' /\ job'[q].task.command # "compress" => ~Started(q)'
        BY <1>1, <1>5, <3>1, <3>2 DEF Settled, Started
      <3>4. Undisturbed("copy")' => Alone(p)
        BY <1>1, <1>2, <1>4, <1>10 DEF Undisturbed, Alone
      <3> QED
        BY <2>1, <2>2, <3>1, <3>3, <3>4 DEF Settled, Whole
    <2>4. CASE ~Finished(files["output"].by)
      <3>1. PICK q \in Procs : Busy(q) /\ job[q].by = files["output"].by
        BY <2>4 DEF Finished
      <3>2. q = p
        BY <1>1, <1>3, <2>1, <3>1 DEF Finished, Busy
      <3>3. Alone(p) /\ Tail(todo[p]) = <<>> /\ \A r \in Procs : ~Busy(r)'
        BY <1>5, <1>7, <1>8, <2>1, <3>1, <3>2
      <3>4. job[p].task.command # "compress"
        BY <3>1, <3>2 DEF OutputInv
      <3>5. files["output"] = Content(p, "output")
        BY <1>1, <1>2, <1>10, <3>3, <3>4, Turn DEF AloneInv, AloneOf
      <3>6. ~Claims(job[p].task)
        <4>1. Claims(job[p].task) => todo[p] = <<"manifest">>
          BY <1>2, <3>3, RemainingShape
        <4>2. Head(<<"manifest">>) = "manifest"
          OBVIOUS
        <4> QED
          BY <1>1, <1>10, <4>1, <4>2
      <3> QED
        BY <2>1, <2>2, <3>3, <3>5, <3>6, ContentShape DEF Settled
    <2> QED
      BY <2>3, <2>4
  <1>11. CASE path = "manifest"
    <2>1. files'["output"] = files["output"] /\ files'["copy"] = files["copy"]
      BY <1>1, <1>11 DEF Paths
    <2>2. todo[p] # Plan(job[p].task) /\ job[p].task.command # "compress"
          /\ todo[p] = <<"manifest">>
      BY <1>1, <1>2, <1>11, Turn
    <2>3. ~Finished(files["output"].by)
      <3>1. SUFFICES ASSUME Finished(files["output"].by)
                     PROVE  FALSE
        OBVIOUS
      <3>2. Settled
        BY <1>1, <1>3, <2>1, <3>1 DEF EndedInv, Whole, Undisturbed
      <3> QED
        BY <1>2, <2>2, <3>2 DEF Settled, Started
    <2>4. PICK q \in Procs : Busy(q) /\ job[q].by = files["output"].by
      BY <2>3 DEF Finished
    <2>5. q = p
      BY <1>1, <1>3, <2>1, <2>4 DEF Finished, Busy
    <2>6. Alone(p) /\ \A r \in Procs : ~Busy(r)'
      BY <1>5, <1>7, <1>8, <2>1, <2>4, <2>5
    <2>7. /\ files["output"] = Content(p, "output")
          /\ files'["manifest"] = Content(p, "manifest")
      BY <1>6, <1>11, <2>2, <2>6 DEF AloneInv, AloneOf
    <2>8. job[p].task.compress => Whole("copy")' /\ files'["copy"].of = files'["output"]
      BY <2>1, <2>2, <2>6 DEF AloneInv, AloneOf, Whole
    <2>9. /\ files'["output"].task = job[p].task /\ files'["output"].by = job[p].by
          /\ files'["output"].events = job[p].events
          /\ files'["manifest"].state = "whole" /\ files'["manifest"].by = job[p].by
          /\ files'["manifest"].event_count = Len(job[p].events)
          /\ files'["manifest"].format = job[p].task.format
      BY <2>1, <2>7, ContentShape DEF Paths
    <2> QED
      BY <2>6, <2>8, <2>9 DEF Settled, Whole
  <1> QED
    BY <1>2, <1>9, <1>10, <1>11 DEF Paths

LEMMA EndedInvariant == Spec => []EndedInv
  <1>1. Init => EndedInv
    BY DEF Init, EndedInv, Whole, Absent, Paths
  <1>2. TypeInv /\ JobInv /\ AloneInv /\ OutputInv /\ EndedInv /\ [Next]_vars => EndedInv'
    <2> SUFFICES ASSUME TypeInv, JobInv, AloneInv, OutputInv, EndedInv, [Next]_vars
                 PROVE  EndedInv'
      OBVIOUS
    <2>1. CASE UNCHANGED <<files, job, todo, opened, exports, disturbed>>
      BY <2>1 DEF EndedInv, Settled, Whole, Undisturbed, Finished, Started, Busy
    <2> QED
      BY <2>1, EndedBegin, EndedOpen, EndedWrite, EndedCrash, Steps
  <1> QED
    BY <1>1, <1>2, TypeInvariant, JobInvariant, AloneInvariant, OutputInvariant, PTL DEF Spec

\* The output, the compressed copy and the manifest of one path fit together
\* as far as the code makes them, with any number of commands, overlapping
\* and dying as they may.
THEOREM Fitting == Spec => []FilesFit
  <1>1. JobInv /\ OutputInv /\ ManifestInv /\ EndedInv => FilesFit
    <2> SUFFICES ASSUME JobInv, OutputInv, ManifestInv, EndedInv
                 PROVE  FilesFit
      OBVIOUS
    <2>1. Undisturbed("manifest") => files["manifest"].by <= files["output"].by
      <3>1. files["manifest"].by \in Int /\ files["output"].by \in Int
            /\ files["manifest"].by >= 0 /\ files["output"].by >= 0
        BY DEF JobInv, Paths
      <3> QED
        BY <3>1 DEF ManifestInv, Undisturbed
    <2>2. ASSUME \A p \in Procs : ~Busy(p), Whole("output"), Undisturbed("output")
          PROVE  Settled /\ Finished(files["copy"].by)
                 /\ files["output"].redacted = Redacts(files["output"].task)
      BY <2>2 DEF EndedInv, Finished, OutputInv
    <2>3. ASSUME \A p \in Procs : ~Busy(p), Whole("output"), Undisturbed("output")
          PROVE  /\ files["output"].task.compress /\ Undisturbed("copy") =>
                        Whole("copy") /\ files["copy"].of = files["output"]
                 /\ files["output"].task.command = "export" /\ files["output"].task.profile =>
                      /\ Whole("manifest") /\ files["manifest"].by = files["output"].by
                      /\ files["manifest"].event_count = Len(files["output"].events)
                      /\ files["manifest"].format \in {"json", "jsonl"} =>
                             files["output"].redacted
      <3>1. Claims(files["output"].task) /\ files["output"].task.format \in {"json", "jsonl"} =>
                files["output"].redacted
        BY <2>2, <2>3 DEF Redacts, Claims
      <3> QED
        BY <2>2, <2>3, <3>1 DEF Settled, Claims
    <2> QED
      BY <2>1, <2>3 DEF FilesFit
  <1> QED
    BY <1>1, JobInvariant, OutputInvariant, ManifestInvariant, EndedInvariant, PTL

-----------------------------------------------------------------------------
(* Migration of a document *)

LEMMA Aliases ==
    /\ DOMAIN aliases = {"id", "type", "timestamp", "recorded_at", "payload"}
    /\ aliases["id"] = "event_id" /\ aliases["type"] = "event_type"
    /\ aliases["timestamp"] = "event_time" /\ aliases["recorded_at"] = "recorded_time"
    /\ aliases["payload"] = "data"
  BY DEF aliases

\* The new names are no old ones, each is of one old name, and the model of
\* today has none of the old.
LEMMA Names ==
    /\ \A old \in DOMAIN aliases :
          /\ aliases[old] \notin DOMAIN aliases /\ aliases[old] # "schema_version"
          /\ old \notin Required \cup Optional /\ old # "schema_version"
          /\ NameToday(old) = aliases[old] /\ NameToday(aliases[old]) = aliases[old]
    /\ \A old1, old2 \in DOMAIN aliases : aliases[old1] = aliases[old2] => old1 = old2
    /\ \A n : n \notin DOMAIN aliases => NameToday(n) = n
  BY Aliases DEF Required, Optional, NameToday

\* What a document d that is not current becomes.
IsMigrated(d, m) ==
    /\ m = [n \in DOMAIN m |-> m[n]]
    /\ DOMAIN m = (DOMAIN d \ renamed(d)) \cup {aliases[old] : old \in renamed(d)}
                      \cup {"schema_version"}
    /\ m["schema_version"] = SCHEMA_VERSION
    /\ \A n \in DOMAIN d \ renamed(d) : n # "schema_version" => m[n] = d[n]
    /\ \A old \in renamed(d) : m[aliases[old]] = d[old]
    /\ \A n \in DOMAIN m \ {"schema_version"} :
          \/ n \in DOMAIN d \ renamed(d)
          \/ n \notin DOMAIN d /\ \E old \in renamed(d) : n = aliases[old]

LEMMA Migrated ==
    ASSUME NEW d, ~IsCurrent(d)
    PROVE  IsMigrated(d, migrate_event_document(d))
  <1>0. PICK m : m = migrate_event_document(d)
    OBVIOUS
  <1> DEFINE Value(n) == IF n = "schema_version" THEN SCHEMA_VERSION
                         ELSE IF n \in DOMAIN d THEN d[n]
                         ELSE d[CHOOSE old \in renamed(d) : aliases[old] = n]
             Names0 == (DOMAIN d \ renamed(d)) \cup {aliases[old] : old \in renamed(d)}
                           \cup {"schema_version"}
  <1>1. m = [n \in Names0 |-> Value(n)]
    BY <1>0 DEF migrate_event_document
  <1>2. \A old \in renamed(d) : /\ old \in DOMAIN aliases /\ old \in DOMAIN d
                                /\ aliases[old] \notin DOMAIN d
    BY DEF renamed
  <1>3. \A old \in renamed(d) : (CHOOSE o \in renamed(d) : aliases[o] = aliases[old]) = old
    BY <1>2, Names
  <1>4. \A old \in renamed(d) : Value(aliases[old]) = d[old]
    BY <1>2, <1>3, Names
  <1>5. DOMAIN m = Names0 /\ \A n \in Names0 : m[n] = Value(n)
    <2> HIDE DEF Names0, Value
    <2> QED
      BY <1>1
  <1>6. m = [n \in DOMAIN m |-> m[n]]
    <2> HIDE DEF Names0, Value
    <2> QED
      BY <1>1, <1>5
  <1>7. \A old \in renamed(d) : m[aliases[old]] = d[old]
    BY <1>4, <1>5
  <1>8. \A n \in DOMAIN d \ renamed(d) : n # "schema_version" => m[n] = d[n]
    BY <1>5
  <1>9. m["schema_version"] = SCHEMA_VERSION
    BY <1>5
  <1>10. \A n \in DOMAIN m \ {"schema_version"} :
            \/ n \in DOMAIN d \ renamed(d)
            \/ n \notin DOMAIN d /\ \E old \in renamed(d) : n = aliases[old]
    BY <1>2, <1>5
  <1> QED
    BY <1>0, <1>5, <1>6, <1>7, <1>8, <1>9, <1>10 DEF IsMigrated

LEMMA MigrationSettles ==
    ASSUME NEW d
    PROVE  migrate_event_document(migrate_event_document(d)) = migrate_event_document(d)
  <1>1. CASE IsCurrent(d)
    BY <1>1 DEF migrate_event_document
  <1>2. CASE ~IsCurrent(d)
    <2>0. PICK m : m = migrate_event_document(d)
      OBVIOUS
    <2>1. IsMigrated(d, m)
      BY <1>2, <2>0, Migrated
    <2>2. "schema_version" \in DOMAIN m /\ m["schema_version"] = SCHEMA_VERSION
      BY <1>2, <2>1 DEF IsMigrated
    <2>3. IsCurrent(m)
      BY <2>2 DEF IsCurrent, source_version
    <2>4. migrate_event_document(m) = m
      BY <2>3 DEF migrate_event_document
    <2> QED
      BY <2>0, <2>4
  <1> QED
    BY <1>1, <1>2

\* Migration keeps what the document says.
LEMMA MigrationSays ==
    ASSUME NEW d
    PROVE  Says(migrate_event_document(d)) = Says(d)
  <1>1. CASE IsCurrent(d)
    BY <1>1 DEF migrate_event_document
  <1>2. CASE ~IsCurrent(d)
    <2>0. PICK m : m = migrate_event_document(d)
      OBVIOUS
    <2>1. IsMigrated(d, m)
      BY <1>2, <2>0, Migrated
    <2>2. \A old \in renamed(d) : old \in DOMAIN aliases /\ old \in DOMAIN d
      BY DEF renamed
    <2>3. ASSUME NEW n \in DOMAIN m \ {"schema_version"}
          PROVE  \E k \in DOMAIN d \ {"schema_version"} :
                     NameToday(k) = NameToday(n) /\ d[k] = m[n]
      <3>1. CASE n \in DOMAIN d \ renamed(d)
        <4>1. m[n] = d[n]
          BY <1>2, <2>1, <2>3, <3>1 DEF IsMigrated
        <4> QED
          BY <2>3, <3>1, <4>1
      <3>2. CASE n \notin DOMAIN d \ renamed(d)
        <4>1. PICK old \in renamed(d) : n = aliases[old]
          BY <1>2, <2>1, <2>3, <3>2 DEF IsMigrated
        <4>2. m[n] = d[old]
          BY <1>2, <2>1, <4>1 DEF IsMigrated
        <4> QED
          BY <2>2, <4>1, <4>2, Names
      <3> QED
        BY <3>1, <3>2
    <2>4. ASSUME NEW k \in DOMAIN d \ {"schema_version"}
          PROVE  \E n \in DOMAIN m \ {"schema_version"} :
                     NameToday(k) = NameToday(n) /\ d[k] = m[n]
      <3>1. CASE k \in renamed(d)
        <4>1. aliases[k] \in DOMAIN m /\ m[aliases[k]] = d[k]
          BY <1>2, <2>1, <3>1 DEF IsMigrated
        <4> QED
          BY <2>2, <3>1, <4>1, Names
      <3>2. CASE k \notin renamed(d)
        <4>1. k \in DOMAIN m /\ m[k] = d[k]
          BY <1>2, <2>1, <2>4, <3>2 DEF IsMigrated
        <4> QED
          BY <2>4, <4>1
      <3> QED
        BY <3>1, <3>2
    <2>5. Says(m) = Says(d)
      BY <2>3, <2>4 DEF Says
    <2> QED
      BY <2>0, <2>5
  <1> QED
    BY <1>1, <1>2

\* With one name for each field, migration gives the document of today.
LEMMA MigrationGivesToday ==
    ASSUME NEW d, ~IsCurrent(d), OneNameEach(d)
    PROVE  migrate_event_document(d) = Today(d)
  <1>0. PICK m : m = migrate_event_document(d)
    OBVIOUS
  <1>1. IsMigrated(d, m)
    BY <1>0, Migrated
  <1>2. \A old \in renamed(d) : old \in DOMAIN aliases /\ old \in DOMAIN d
    BY DEF renamed
  <1>3. \A old \in DOMAIN d : old \in renamed(d) <=> old \in DOMAIN aliases
    <2>1. ASSUME NEW old \in DOMAIN d, old \in DOMAIN aliases
          PROVE  aliases[old] \notin DOMAIN d
      <3>1. NameToday(old) = NameToday(aliases[old]) /\ old # aliases[old]
        BY <2>1, Names
      <3> QED
        BY <2>1, <3>1 DEF OneNameEach
    <2> QED
      BY <1>2, <2>1 DEF renamed
  <1>4. DOMAIN m = {NameToday(n) : n \in DOMAIN d} \cup {"schema_version"}
    <2>1. \A n \in DOMAIN m : n \in {NameToday(k) : k \in DOMAIN d} \cup {"schema_version"}
      <3>1. \A n \in DOMAIN d \ renamed(d) : NameToday(n) = n
        BY <1>3, Names
      <3>2. \A old \in renamed(d) : NameToday(old) = aliases[old] /\ old \in DOMAIN d
        BY <1>2, Names
      <3>3. DOMAIN m = (DOMAIN d \ renamed(d)) \cup {aliases[old] : old \in renamed(d)}
                             \cup {"schema_version"}
        BY <1>1 DEF IsMigrated
      <3> QED
        BY <3>1, <3>2, <3>3
    <2>2. \A k \in DOMAIN d : NameToday(k) \in DOMAIN m
      <3>1. \A k \in renamed(d) : NameToday(k) = aliases[k] /\ aliases[k] \in DOMAIN m
        BY <1>1, <1>2, Names DEF IsMigrated
      <3>2. \A k \in DOMAIN d \ renamed(d) : NameToday(k) = k /\ k \in DOMAIN m
        BY <1>1, <1>3, Names DEF IsMigrated
      <3> QED
        BY <3>1, <3>2
    <2>3. "schema_version" \in DOMAIN m
      BY <1>1 DEF IsMigrated
    <2> QED
      BY <2>1, <2>2, <2>3
  <1>5. ASSUME NEW n \in DOMAIN m, n # "schema_version"
        PROVE  m[n] = d[CHOOSE k \in DOMAIN d : NameToday(k) = n]
    <2>1. PICK k \in DOMAIN d : NameToday(k) = n
      BY <1>4, <1>5
    <2>2. (CHOOSE x \in DOMAIN d : NameToday(x) = n) = k
      BY <2>1 DEF OneNameEach
    <2>3. m[n] = d[k]
      <3>1. CASE k \in renamed(d)
        BY <1>1, <1>2, <2>1, <3>1, Names DEF IsMigrated
      <3>2. CASE k \notin renamed(d)
        <4>1. n = k
          BY <1>3, <2>1, <3>2, Names
        <4> QED
          BY <1>1, <1>5, <3>2, <4>1 DEF IsMigrated
      <3> QED
        BY <3>1, <3>2
    <2> QED
      BY <2>2, <2>3
  <1>6. m = [n \in DOMAIN m |-> m[n]] /\ m["schema_version"] = SCHEMA_VERSION
    BY <1>1 DEF IsMigrated
  <1>7. m = Today(d)
    BY <1>4, <1>5, <1>6 DEF Today
  <1> QED
    BY <1>0, <1>7

\* A field under both its names keeps the old one, and so is refused.
LEMMA BothNamesRefused ==
    ASSUME NEW d, ~IsCurrent(d), ~OneNameEach(d)
    PROVE  ~Accepts(migrate_event_document(d))
  <1>0. PICK m : m = migrate_event_document(d)
    OBVIOUS
  <1>1. IsMigrated(d, m)
    BY <1>0, Migrated
  <1>2. PICK x, y \in DOMAIN d : NameToday(x) = NameToday(y) /\ x # y
    BY DEF OneNameEach
  <1>3. \E old \in DOMAIN aliases : old \in DOMAIN d /\ aliases[old] \in DOMAIN d
    <2>1. CASE x \in DOMAIN aliases /\ y \in DOMAIN aliases
      BY <1>2, <2>1, Names
    <2>2. CASE x \notin DOMAIN aliases
      BY <1>2, <2>2, Names
    <2>3. CASE y \notin DOMAIN aliases
      BY <1>2, <2>3, Names
    <2> QED
      BY <2>1, <2>2, <2>3
  <1>4. PICK old \in DOMAIN aliases : old \in DOMAIN d /\ aliases[old] \in DOMAIN d
    BY <1>3
  <1>5. old \notin renamed(d)
    BY <1>4 DEF renamed
  <1>6. old \in DOMAIN m
    BY <1>1, <1>4, <1>5 DEF IsMigrated
  <1>7. ~Accepts(m)
    BY <1>4, <1>6, Names DEF Accepts
  <1> QED
    BY <1>0, <1>7

\* What migration makes of a document decides whether it can be appended, and
\* a second migration changes nothing, for every document there may be.
THEOREM Deciding == Spec => []MigrationDecides
  <1>1. ASSUME NEW d
        PROVE  /\ Accepts(d) => Migratable(d)
               /\ ~IsCurrent(d) =>
                      (Accepts(migrate_event_document(d)) <=> OneNameEach(d) /\ Accepts(Today(d)))
    <2>1. Accepts(d) => Migratable(d)
      BY DEF Accepts, Migratable, IsCurrent, source_version, SCHEMA_VERSION
    <2>2. CASE OneNameEach(d)
      BY <2>1, <2>2, MigrationGivesToday
    <2>3. CASE ~OneNameEach(d)
      BY <2>1, <2>3, BothNamesRefused
    <2> QED
      BY <2>2, <2>3
  <1>2. MigrationDecides
    BY <1>1, MigrationSettles DEF MigrationDecides
  <1>3. Spec => []TypeInv
    BY TypeInvariant
  <1> QED
    BY <1>2, <1>3, PTL

-----------------------------------------------------------------------------
(* The events of the log *)

\* JSON null is none of the values a normalised field can have: no object and
\* not the empty one.
NullIsNoObject ==
    None # "empty" /\ \A field \in {"uuid", "zone", "sequence", "type"} : field \notin DOMAIN None

LEMMA MigrationReadable ==
    ASSUME NEW d, Readable(d)
    PROVE  Readable(migrate_event_document(d))
  <1>1. CASE IsCurrent(d)
    BY <1>1 DEF migrate_event_document
  <1>2. CASE ~IsCurrent(d)
    <2>0. PICK m : m = migrate_event_document(d)
      OBVIOUS
    <2>1. IsMigrated(d, m)
      BY <1>2, <2>0, Migrated
    <2>2. \A old \in renamed(d) : old \in DOMAIN aliases /\ old \in DOMAIN d
      BY DEF renamed
    <2>3. ASSUME NEW n \in {"id", "event_id"} \cap DOMAIN m
          PROVE  "uuid" \in DOMAIN m[n]
      <3>1. CASE n \in DOMAIN d \ renamed(d)
        <4>1. m[n] = d[n]
          BY <2>1, <2>3, <3>1 DEF IsMigrated
        <4> QED
          BY <3>1, <4>1 DEF Readable
      <3>2. CASE n \notin DOMAIN d \ renamed(d)
        <4>1. PICK old \in renamed(d) : n = aliases[old]
          BY <2>1, <2>3, <3>2 DEF IsMigrated
        <4>2. old = "id" /\ old \in DOMAIN d
          BY <2>2, <2>3, <4>1, Aliases
        <4>3. m[n] = d["id"]
          BY <2>1, <4>1, <4>2 DEF IsMigrated
        <4> QED
          BY <4>2, <4>3 DEF Readable
      <3> QED
        BY <3>1, <3>2
    <2>4. ASSUME NEW n \in {"timestamp", "recorded_at", "event_time", "recorded_time"} \cap DOMAIN m
          PROVE  "zone" \in DOMAIN m[n]
      <3>1. CASE n \in DOMAIN d \ renamed(d)
        <4>1. m[n] = d[n]
          BY <2>1, <2>4, <3>1 DEF IsMigrated
        <4> QED
          BY <2>4, <3>1, <4>1 DEF Readable
      <3>2. CASE n \notin DOMAIN d \ renamed(d)
        <4>1. PICK old \in renamed(d) : n = aliases[old]
          BY <2>1, <2>4, <3>2 DEF IsMigrated
        <4>2. old \in {"timestamp", "recorded_at"} /\ old \in DOMAIN d
          BY <2>2, <2>4, <4>1, Aliases
        <4>3. m[n] = d[old]
          BY <2>1, <4>1 DEF IsMigrated
        <4> QED
          BY <4>2, <4>3 DEF Readable
      <3> QED
        BY <3>1, <3>2
    <2>5. Readable(m)
      BY <2>3, <2>4 DEF Readable
    <2> QED
      BY <2>0, <2>5
  <1> QED
    BY <1>1, <1>2

\* The event that is stored of an accepted document.
Stored(d, k) == [AuditEvent(d) EXCEPT !.integrity = [sequence |-> k]]

IsStored(d, k, e) ==
    /\ DOMAIN e = Required \cup Optional /\ e = [n \in Required \cup Optional |-> e[n]]
    /\ e["integrity"] = [sequence |-> k] /\ e["event_id"] = canonical(d.event_id)
    /\ \A n \in {"event_time", "recorded_time"} : e[n] = require_aware_utc(d[n])
    /\ \A n \in (Required \cup Optional) \ Normalised : n \in DOMAIN d => e[n] = d[n]
    /\ "schema_version" \notin DOMAIN d => e["schema_version"] = SCHEMA_VERSION
    /\ "subject" \notin DOMAIN d => e["subject"] = None
    /\ \A n \in {"data", "extensions"} : n \notin DOMAIN d => e[n] = "empty"

LEMMA EventShape ==
    ASSUME NEW d, NEW k, Required \subseteq DOMAIN d
    PROVE  IsStored(d, k, Stored(d, k))
  <1> DEFINE Value(n) ==
         IF n \notin DOMAIN d THEN Default[n]
         ELSE IF n = "event_id" THEN canonical(d[n])
         ELSE IF n \in {"event_time", "recorded_time"} THEN require_aware_utc(d[n])
         ELSE d[n]
  <1>0. {"event_id", "event_time", "recorded_time"} \subseteq DOMAIN d
    BY DEF Required
  <1>1. PICK x, y : x = AuditEvent(d) /\ y = [sequence |-> k]
    OBVIOUS
  <1>2. x = [n \in Required \cup Optional |-> Value(n)]
    BY <1>1 DEF AuditEvent
  <1>3. Value("event_id") = canonical(d.event_id)
    BY <1>0
  <1>4. \A n \in {"event_time", "recorded_time"} : Value(n) = require_aware_utc(d[n])
    BY <1>0
  <1>5. \A n : n \notin Normalised /\ n \in DOMAIN d => Value(n) = d[n]
    BY DEF Normalised
  <1>6. /\ "schema_version" \notin DOMAIN d => Value("schema_version") = SCHEMA_VERSION
        /\ "subject" \notin DOMAIN d => Value("subject") = None
        /\ \A n \in {"data", "extensions"} : n \notin DOMAIN d => Value(n) = "empty"
    BY DEF Default
  <1> HIDE DEF Value
  <1>7. PICK e : e = [x EXCEPT !["integrity"] = y]
    OBVIOUS
  <1>8. e = Stored(d, k)
    BY <1>1, <1>7 DEF Stored
  <1>9. /\ DOMAIN e = Required \cup Optional /\ e = [n \in Required \cup Optional |-> e[n]]
        /\ e["integrity"] = y
        /\ \A n \in (Required \cup Optional) \ {"integrity"} : e[n] = Value(n)
    BY <1>2, <1>7 DEF Required, Optional
  <1>10. /\ {"event_id", "event_time", "recorded_time", "schema_version", "subject", "data",
             "extensions"} \subseteq (Required \cup Optional) \ {"integrity"}
         /\ "integrity" \in Normalised
    BY DEF Required, Optional, Normalised
  <1>11. e["event_id"] = canonical(d.event_id)
    BY <1>3, <1>9, <1>10
  <1>12. \A n \in {"event_time", "recorded_time"} : e[n] = require_aware_utc(d[n])
    BY <1>4, <1>9, <1>10
  <1>13. \A n \in (Required \cup Optional) \ Normalised : n \in DOMAIN d => e[n] = d[n]
    BY <1>5, <1>9, <1>10
  <1>14. /\ "schema_version" \notin DOMAIN d => e["schema_version"] = SCHEMA_VERSION
         /\ "subject" \notin DOMAIN d => e["subject"] = None
         /\ \A n \in {"data", "extensions"} : n \notin DOMAIN d => e[n] = "empty"
    BY <1>6, <1>9, <1>10
  <1> QED
    BY <1>1, <1>8, <1>9, <1>11, <1>12, <1>13, <1>14 DEF IsStored

\* canonical and require_aware_utc change one field and are settled at once.
LEMMA NormalForms ==
    ASSUME NullIsNoObject, NEW x
    PROVE  /\ canonical(canonical(x)) = canonical(x)
           /\ require_aware_utc(require_aware_utc(x)) = require_aware_utc(x)
           /\ "uuid" \in DOMAIN x => canonical(x).uuid = x.uuid /\ canonical(x) # None
           /\ "zone" \in DOMAIN x => require_aware_utc(x).zone = "utc" /\ require_aware_utc(x) # None
  <1>1. PICK y : y = [x EXCEPT !["form"] = "canonical"]
    OBVIOUS
  <1>2. PICK z : z = [x EXCEPT !["zone"] = "utc"]
    OBVIOUS
  <1>3. y = canonical(x) /\ z = require_aware_utc(x)
    BY <1>1, <1>2 DEF canonical, require_aware_utc
  <1>4. [y EXCEPT !["form"] = "canonical"] = y
    BY <1>1
  <1>5. [z EXCEPT !["zone"] = "utc"] = z
    BY <1>2
  <1>6. canonical(y) = y /\ require_aware_utc(z) = z
    BY <1>4, <1>5 DEF canonical, require_aware_utc
  <1>7. "uuid" \in DOMAIN x => y.uuid = x.uuid /\ "uuid" \in DOMAIN y
    BY <1>1
  <1>8. "zone" \in DOMAIN x => z.zone = "utc" /\ "zone" \in DOMAIN z
    BY <1>2
  <1> QED
    BY <1>3, <1>6, <1>7, <1>8 DEF NullIsNoObject

\* The line of a stored event is accepted and gives the event again.
LEMMA ReadsBack ==
    ASSUME NullIsNoObject, NEW d, NEW k \in Nat \ {0}, Accepts(d), Readable(d)
    PROVE  LET e == Stored(d, k)
           IN  Accepts(model_dump(e)) /\ AuditEvent(model_dump(e)) = e
  <1>0. /\ Required \subseteq DOMAIN d /\ DOMAIN d \subseteq Required \cup Optional
        /\ \A n \in DOMAIN d : d[n] = None => n = "subject"
        /\ "schema_version" \in DOMAIN d => d.schema_version = SCHEMA_VERSION
        /\ validate_event_id(d.event_id) /\ validate_event_type(d.event_type)
        /\ d.outcome \in Statuses
        /\ "subject" \in DOMAIN d /\ d.subject # None =>
               validate_classification(d.subject.classification)
    BY DEF Accepts
  <1>1. PICK e, all : e = Stored(d, k) /\ all = Required \cup Optional
    OBVIOUS
  <1>2. /\ DOMAIN e = all /\ e = [n \in all |-> e[n]]
        /\ e["integrity"] = [sequence |-> k]
        /\ e["event_id"] = canonical(d.event_id)
        /\ \A n \in {"event_time", "recorded_time"} : e[n] = require_aware_utc(d[n])
        /\ \A n \in all \ Normalised : n \in DOMAIN d => e[n] = d[n]
        /\ "schema_version" \notin DOMAIN d => e["schema_version"] = SCHEMA_VERSION
        /\ "subject" \notin DOMAIN d => e["subject"] = None
        /\ \A n \in {"data", "extensions"} : n \notin DOMAIN d => e[n] = "empty"
    <2>1. IsStored(d, k, e)
      BY <1>0, <1>1, EventShape
    <2> QED
      BY <1>1, <2>1 DEF IsStored
  <1>3. /\ "event_id" \in DOMAIN d /\ "uuid" \in DOMAIN d.event_id
        /\ \A n \in {"event_time", "recorded_time"} : n \in DOMAIN d /\ "zone" \in DOMAIN d[n]
    BY <1>0 DEF Readable, Required
  <1>4. /\ e["event_id"].uuid = d.event_id.uuid /\ e["event_id"] # None
        /\ canonical(e["event_id"]) = e["event_id"]
        /\ \A n \in {"event_time", "recorded_time"} :
              /\ e[n].zone = "utc" /\ e[n] # None
              /\ require_aware_utc(e[n]) = e[n]
    BY <1>2, <1>3, NormalForms
  <1>5. e["schema_version"] = SCHEMA_VERSION /\ SCHEMA_VERSION # None
    <2>1. "type" \in DOMAIN SCHEMA_VERSION
      BY DEF SCHEMA_VERSION
    <2>2. "schema_version" \in all \ Normalised
      BY <1>1 DEF Optional, Normalised
    <2> QED
      BY <1>0, <1>2, <2>1, <2>2 DEF NullIsNoObject
  <1>6. e["integrity"].sequence = k /\ e["integrity"] # None
    <2>1. "sequence" \in DOMAIN e["integrity"]
      BY <1>2
    <2> QED
      BY <1>2, <2>1 DEF NullIsNoObject
  <1>7. \A n \in all : e[n] = None => n = "subject"
    <2>1. ASSUME NEW n \in all, e[n] = None, n \notin Normalised, n \in DOMAIN d
          PROVE  n = "subject"
      BY <1>0, <1>2, <2>1
    <2>2. ASSUME NEW n \in all, e[n] = None, n \notin Normalised, n \notin DOMAIN d
          PROVE  n = "subject"
      <3>1. n \in {"schema_version", "subject", "data", "extensions"}
        BY <1>0, <1>1, <2>2 DEF Optional, Normalised
      <3> QED
        BY <1>2, <1>5, <2>2, <3>1 DEF NullIsNoObject
    <2>3. \A n \in Normalised : e[n] # None
      BY <1>4, <1>6 DEF Normalised
    <2> QED
      BY <2>1, <2>2, <2>3
  <1>8. PICK line : line = model_dump(e)
    OBVIOUS
  <1>9. /\ DOMAIN line = {n \in all : e[n] # None}
        /\ \A n \in DOMAIN line : line[n] = e[n]
    <2>1. \A n \in {"event_time", "recorded_time"} : serialize_time(e[n]) = e[n]
      BY <1>4 DEF serialize_time
    <2>2. DOMAIN line = {n \in all : e[n] # None}
      BY <1>2, <1>8 DEF model_dump
    <2>3. \A n \in DOMAIN line :
              line[n] = IF n \in {"event_time", "recorded_time"} THEN serialize_time(e[n]) ELSE e[n]
      BY <1>2, <1>8, <2>2 DEF model_dump
    <2> QED
      BY <2>1, <2>2, <2>3
  <1>10. {"event_id", "event_type", "event_time", "recorded_time", "outcome", "integrity",
          "schema_version"} \subseteq DOMAIN line
    BY <1>1, <1>7, <1>9 DEF Required, Optional
  <1>11. e["event_type"] = d["event_type"] /\ e["outcome"] = d["outcome"]
    <2>1. {"event_type", "outcome"} \subseteq all \ Normalised
          /\ {"event_type", "outcome"} \subseteq DOMAIN d
      BY <1>0, <1>1 DEF Required, Normalised
    <2> QED
      BY <1>2, <2>1
  <1>12. "subject" \in DOMAIN line => validate_classification(line.subject.classification)
    <2>1. ASSUME "subject" \in DOMAIN line
          PROVE  e["subject"] # None /\ line["subject"] = e["subject"]
      BY <1>9, <2>1
    <2>2. "subject" \in all \ Normalised
      BY <1>1 DEF Optional, Normalised
    <2>3. e["subject"] # None => "subject" \in DOMAIN d /\ d["subject"] = e["subject"]
      BY <1>2, <2>2
    <2> QED
      BY <1>0, <2>1, <2>3
  <1>13. Accepts(line)
    <2>1. Required \subseteq DOMAIN line /\ DOMAIN line \subseteq Required \cup Optional
      BY <1>1, <1>7, <1>9 DEF Required
    <2>2. \A n \in DOMAIN line : line[n] # None
      BY <1>9
    <2>3. line.schema_version = SCHEMA_VERSION
      BY <1>5, <1>9, <1>10
    <2>4. validate_event_id(line.event_id) /\ validate_event_type(line.event_type)
      <3>1. line["event_id"].uuid = d.event_id.uuid /\ line["event_type"] = d["event_type"]
        BY <1>4, <1>9, <1>10, <1>11
      <3> QED
        BY <1>0, <3>1 DEF validate_event_id
    <2>5. parse_time(line.event_time) /\ parse_time(line.recorded_time)
      BY <1>4, <1>9, <1>10 DEF parse_time
    <2>6. line.outcome \in Statuses
      BY <1>0, <1>9, <1>10, <1>11
    <2>7. validate_sequence(line.integrity)
      BY <1>6, <1>9, <1>10 DEF validate_sequence
    <2> QED
      BY <1>12, <2>1, <2>2, <2>3, <2>4, <2>5, <2>6, <2>7 DEF Accepts
  <1>14. AuditEvent(line) = e
    <2>1. PICK x : x = AuditEvent(line)
      OBVIOUS
    <2>2. /\ x = [n \in all |-> x[n]] /\ DOMAIN x = all
          /\ \A n \in all :
                x[n] = IF n \notin DOMAIN line THEN Default[n]
                       ELSE IF n = "event_id" THEN canonical(line[n])
                       ELSE IF n \in {"event_time", "recorded_time"} THEN require_aware_utc(line[n])
                       ELSE line[n]
      BY <1>1, <2>1 DEF AuditEvent
    <2>3. Default["subject"] = None
      BY DEF Default
    <2>4. \A n \in all : x[n] = e[n]
      BY <1>4, <1>7, <1>9, <2>2, <2>3
    <2>5. x = e
      BY <1>2, <2>2, <2>4
    <2> QED
      BY <2>1, <2>5
  <1> QED
    BY <1>1, <1>8, <1>13, <1>14

\* The documents the event file can hold, and the events stored of them.
Reach == Documents \cup {migrate_event_document(d) : d \in Documents}

StoredEvents == {Stored(d, k) : d \in {r \in Reach : Accepts(r)}, k \in Nat \ {0}}

LogInv == document \in Reach /\ log \in Seq(StoredEvents)

LEMMA ReachReadable == \A d \in Reach : Readable(d)
  BY DocumentsAssumption, MigrationReadable DEF Reach

LEMMA Appended ==
    ASSUME LogInv, append
    PROVE  /\ log' = Append(log, Stored(document, Len(log) + 1))
           /\ Len(log) \in Nat
           /\ Stored(document, Len(log) + 1) \in StoredEvents
  <1>1. log' = Append(log, Stored(document, Len(log) + 1))
    BY DEF append, Chained, Stored
  <1>2. Len(log) \in Nat /\ Accepts(document) /\ document \in Reach
    BY DEF append, LogInv
  <1>3. Len(log) + 1 \in Nat \ {0}
    BY <1>2
  <1> QED
    BY <1>1, <1>2, <1>3 DEF StoredEvents

LEMMA LogInvariant == Spec => []LogInv
  <1>1. Init => LogInv
    BY DEF Init, LogInv, Reach
  <1>2. ASSUME LogInv, [Next]_vars
        PROVE  LogInv'
    <2>1. CASE migrate
      <3>1. document' = migrate_event_document(document) /\ log' = log
        BY <2>1 DEF migrate
      <3>2. document' \in Reach
        <4>1. CASE document \in Documents
          BY <3>1, <4>1 DEF Reach
        <4>2. CASE \E d \in Documents : document = migrate_event_document(d)
          BY <3>1, <4>2, MigrationSettles DEF Reach
        <4> QED
          BY <1>2, <4>1, <4>2 DEF LogInv, Reach
      <3> QED
        BY <1>2, <3>1, <3>2 DEF LogInv
    <2>2. CASE append
      <3>1. PICK e \in StoredEvents : log' = Append(log, e)
        BY <1>2, <2>2, Appended
      <3>2. log' \in Seq(StoredEvents)
        BY <1>2, <3>1 DEF LogInv
      <3> QED
        BY <1>2, <2>2, <3>2 DEF append, LogInv
    <2>3. CASE UNCHANGED <<document, log>>
      BY <1>2, <2>3 DEF LogInv
    <2>4. UNCHANGED vars \/ (\E p \in Procs : Begin(p) \/ OpenFile(p) \/ WriteFile(p) \/ Crash(p)) =>
              UNCHANGED <<document, log>>
      BY DEF vars, Begin, OpenFile, WriteFile, Crash
    <2> QED
      BY <1>2, <2>1, <2>2, <2>3, <2>4 DEF Next
  <1> QED
    BY <1>1, <1>2, PTL DEF Spec

\* Whatever is appended, from whatever document, migrated or not: every line
\* of the log is accepted when it is read and gives the event that was stored.
THEOREM Reading ==
    ASSUME NullIsNoObject
    PROVE  Spec => []AcceptedReadsBack
  <1>1. LogInv => AcceptedReadsBack
    <2> SUFFICES ASSUME LogInv, NEW i \in DOMAIN log
                 PROVE  Accepts(model_dump(log[i])) /\ AuditEvent(model_dump(log[i])) = log[i]
      BY DEF AcceptedReadsBack
    <2>1. log[i] \in StoredEvents
      BY DEF LogInv
    <2>2. PICK d \in Reach, k \in Nat \ {0} : Accepts(d) /\ log[i] = Stored(d, k)
      BY <2>1 DEF StoredEvents
    <2> QED
      BY <2>2, ReachReadable, ReadsBack
  <1> QED
    BY <1>1, LogInvariant, PTL

\* Neither migrate nor append loses a value of the document.
THEOREM Keeping == Spec => NothingLostOnTheWayIn
  <1>1. ASSUME LogInv, [Next]_vars
        PROVE  /\ document' # document => Says(document') = Says(document)
               /\ log' # log => \A n \in DOMAIN document \ Normalised :
                                    log'[Len(log')][n] = document[n]
    <2>1. CASE migrate
      BY <2>1, MigrationSays DEF migrate
    <2>2. CASE append
      <3>1. PICK e : e = Stored(document, Len(log) + 1)
        OBVIOUS
      <3>2. log' = Append(log, e) /\ Len(log) \in Nat /\ e \in StoredEvents
        BY <1>1, <2>2, <3>1, Appended
      <3>3. log'[Len(log')] = e
        <4>1. log \in Seq(StoredEvents)
          BY <1>1 DEF LogInv
        <4> QED
          BY <3>2, <4>1
      <3>4. \A n \in DOMAIN document \ Normalised : e[n] = document[n]
        <4>1. Required \subseteq DOMAIN document /\ DOMAIN document \subseteq Required \cup Optional
          BY <2>2 DEF append, Accepts
        <4> QED
          <5>1. PICK d, k : d = document /\ k = Len(log) + 1
            OBVIOUS
          <5>2. Required \subseteq DOMAIN d /\ e = Stored(d, k)
            BY <3>1, <4>1, <5>1
          <5>3. IsStored(d, k, e)
            BY <5>2, EventShape
          <5> QED
            BY <4>1, <5>1, <5>3 DEF IsStored
      <3> QED
        BY <2>2, <3>3, <3>4 DEF append
    <2>3. UNCHANGED vars \/ (\E p \in Procs : Begin(p) \/ OpenFile(p) \/ WriteFile(p) \/ Crash(p)) =>
              UNCHANGED <<document, log>>
      BY DEF vars, Begin, OpenFile, WriteFile, Crash
    <2> QED
      BY <1>1, <2>1, <2>2, <2>3 DEF Next
  <1> QED
    BY <1>1, LogInvariant, PTL DEF Spec, NothingLostOnTheWayIn
=============================================================================
