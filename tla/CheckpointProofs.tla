-------------------------- MODULE CheckpointProofs --------------------------
(***************************************************************************)
(* Proofs about signing.  The properties of Checkpoint hold for any number *)
(* of processes, keys, key ids, commands, edits and crashes, and any       *)
(* policy; those of KeyFiles, at the end, for every set of processes and   *)
(* every way in which they share paths.                                    *)
(***************************************************************************)
EXTENDS Checkpoint, KeyFiles, AuditChainProofs

-----------------------------------------------------------------------------
(* Types, and the signatures of every document *)

\* A document: a record with the fields of a checkpoint and no other.
IsDocument(d) ==
    /\ d = [stream_id         |-> d.stream_id,
            event_count       |-> d.event_count,
            terminal_digest   |-> d.terminal_digest,
            created_time      |-> d.created_time,
            checkpoint_digest |-> d.checkpoint_digest,
            signatures        |-> d.signatures]
    /\ IsSequence(d.signatures)

\* The checkpoint file holds a text that a command or a forger wrote.
Text == file \notin {Missing, Empty, Garbage}

Busy(p)  == pc[p] # "idle"
Signs(p) == "key" \in DOMAIN draft[p]

\* What p will have signed once it has written its draft.
Own(p) == IF Signs(p) THEN {[key |-> draft[p].key, payload |-> draft[p].payload]} ELSE {}

\* Each signature of d was made for a member of `by`.
MadeFor(d, by) ==
    \A i \in DOMAIN d.signatures :
        \E s \in by, id \in KeyIds :
            d.signatures[i] = sign_payload(s.payload, s.key, id)

TypeInv ==
    /\ pc \in [Procs -> {"idle", "opening", "writing"}]
    /\ draft = [p \in Procs |-> draft[p]]
    /\ calls \in [Procs -> Nat]

\* Nobody signs but with a key, and no signature is made up.
SigInv ==
    /\ \A s \in signed : s.key \in Keys
    /\ Text => IsDocument(file) /\ MadeFor(file, signed)
    /\ \A p \in Procs : Busy(p) =>
          /\ IsDocument(draft[p].doc)
          /\ MadeFor(draft[p].doc, signed \cup Own(p))
          /\ Signs(p) => draft[p].key \in Keys

-----------------------------------------------------------------------------
(* What the signatures say *)

Fits(d) ==
    d.created_time \notin forged =>
        \A i \in DOMAIN d.signatures :
            verify_payload_signature(unsigned_payload(d), d.signatures[i],
                                     d.signatures[i].public_key_fingerprint)

FitInv ==
    /\ Text => Fits(file)
    /\ \A p \in Procs : Busy(p) => Fits(draft[p].doc)

-----------------------------------------------------------------------------
(* No signature is lost *)

\* Every signature of a checkpoint made when d was is in d.
Keeps(d) ==
    \A s \in signed : s.payload.created_time = d.created_time =>
        \E i \in DOMAIN d.signatures : d.signatures[i].signature = <<s.key, s.payload>>

\* A time when a checkpoint may have been made: a command of p began then.
Past == {<<p, c>> : p \in Procs, c \in Nat}
IsPast(time) == \E p \in Procs : \E c \in Nat : c < calls[p] /\ time = <<p, c>>

TimeInv ==
    /\ \A s \in signed : IsPast(s.payload.created_time)
    /\ Text => IsPast(file.created_time)
    /\ \A p \in Procs : Busy(p) =>
          /\ IsPast(draft[p].doc.created_time)
          /\ Signs(p) => draft[p].payload.created_time = draft[p].doc.created_time

KeptInv ==
    ~overlapped =>
        /\ \A p, q \in Procs : Busy(p) /\ Busy(q) => p = q
        /\ \A p \in Procs : pc[p] = "writing" => file = Empty
        /\ Text => Keeps(file)
        /\ \A p \in Procs : Busy(p) =>
              /\ Keeps(draft[p].doc)
              /\ Signs(p) =>
                    \E i \in DOMAIN draft[p].doc.signatures :
                        draft[p].doc.signatures[i].signature
                            = <<draft[p].key, draft[p].payload>>

-----------------------------------------------------------------------------
(* What a create describes *)

\* d is what `create` makes of events, which were a stream.
Describing(d, events) ==
    /\ IsLog(events)
    /\ WellFormed(events, ReportedStream(events))
    /\ \E time \in Past : d = create_checkpoint(events, time)

CreatedInv ==
    /\ IsLog(log)
    /\ \A c \in created : Describing(c.doc, c.log)
    /\ \A p \in Procs : Busy(p) /\ ~Signs(p) => Describing(draft[p].doc, draft[p].log)

-----------------------------------------------------------------------------
(* Documents *)

\* What `create` makes says what it was made of, and is signed by nobody.
LEMMA CreateShape ==
    ASSUME NEW events, NEW time, NEW d, d = create_checkpoint(events, time)
    PROVE  /\ IsDocument(d)
           /\ d.stream_id = active_stream(events)
           /\ d.event_count = Len(events)
           /\ d.terminal_digest = last_digest(events)
           /\ d.created_time = time
           /\ d.checkpoint_digest = sha256_digest(unsigned_payload(d))
           /\ d.signatures = <<>>
  BY EmptyShape DEF create_checkpoint, Digested, unsigned_payload, IsDocument

\* A signature more changes nothing of what is signed.
LEMMA WithSignatureShape ==
    ASSUME NEW c, NEW record, NEW d, IsDocument(c), d = WithSignature(c, record)
    PROVE  /\ IsDocument(d)
           /\ d.signatures = Append(c.signatures, record)
           /\ unsigned_payload(d) = unsigned_payload(c)
           /\ d.created_time = c.created_time
  <1>1. /\ d.signatures = Append(c.signatures, record)
        /\ d.stream_id = c.stream_id
        /\ d.event_count = c.event_count
        /\ d.terminal_digest = c.terminal_digest
        /\ d.created_time = c.created_time
        /\ d = [stream_id         |-> d.stream_id,
                event_count       |-> d.event_count,
                terminal_digest   |-> d.terminal_digest,
                created_time      |-> d.created_time,
                checkpoint_digest |-> d.checkpoint_digest,
                signatures        |-> d.signatures]
    BY DEF IsDocument, WithSignature
  <1>2. IsSequence(d.signatures)
    BY <1>1, AppendShape DEF IsDocument
  <1> QED
    BY <1>1, <1>2 DEF IsDocument, unsigned_payload

\* A forger keeps the signatures and the time.
LEMMA ForgeShape ==
    ASSUME IsDocument(file), Forge
    PROVE  /\ IsDocument(file')
           /\ file'.signatures = file.signatures
           /\ file'.created_time = file.created_time
  BY DEF IsDocument, Digested, Forge

-----------------------------------------------------------------------------
(* Types *)

LEMMA TypeInvariant == Spec => []TypeInv
  <1>1. Init => TypeInv
    BY DEF Init, TypeInv
  <1>2. ASSUME TypeInv, [Next]_vars
        PROVE  TypeInv'
    <2>1. CASE UNCHANGED vars
      BY <1>2, <2>1 DEF TypeInv, vars
    <2>2. ASSUME NEW p \in Procs, checkpoint_create(p)
          PROVE  TypeInv'
      <3> PICK x : draft' = [draft EXCEPT ![p] = x] \/ draft' = draft
        BY <2>2 DEF checkpoint_create
      <3> QED
        BY <1>2, <2>2 DEF TypeInv, checkpoint_create, Begin, Goto
    <2>3. ASSUME NEW p \in Procs, NEW key \in Keys, NEW id \in KeyIds, sign(p, key, id)
          PROVE  TypeInv'
      <3> PICK x : draft' = [draft EXCEPT ![p] = x] \/ draft' = draft
        BY <2>3 DEF sign
      <3> QED
        BY <1>2, <2>3 DEF TypeInv, sign, Begin, Goto
    <2>4. ASSUME NEW p \in Procs, OpenFile(p) \/ WriteFile(p) \/ Crash(p)
          PROVE  TypeInv'
      BY <1>2, <2>4 DEF TypeInv, OpenFile, WriteFile, Crash, Goto
    <2>5. ASSUME NEW kind \in Edits, Edit(kind)
          PROVE  TypeInv'
      BY <1>2, <2>5 DEF TypeInv, Edit
    <2> QED
      BY <1>2, <2>1, <2>2, <2>3, <2>4, <2>5 DEF Next
  <1> QED
    BY <1>1, <1>2, PTL DEF Spec

\* How a step of p that leaves the drafts alone, or makes p's, changes them.
LEMMA BeginStep ==
    ASSUME TypeInv, NEW p \in Procs, NEW x,
           draft' = [draft EXCEPT ![p] = x], Goto(p, "opening"), pc[p] = "idle"
    PROVE  /\ draft'[p] = x /\ pc'[p] = "opening"
           /\ \A q \in Procs \ {p} : draft'[q] = draft[q] /\ pc'[q] = pc[q]
  BY DEF TypeInv, Goto

\* The ways the processes and the forger can move, with what each does to the
\* checkpoint file and the drafts.
CreateStep(p, d) ==
    /\ \A q \in Procs \ {p} : draft'[q] = draft[q] /\ pc'[q] = pc[q]
    /\ pc[p] = "idle" /\ pc'[p] = "opening"
    /\ draft'[p] = [doc |-> d, log |-> log]
    /\ WellFormed(log, ReportedStream(log))
    /\ d = create_checkpoint(log, <<p, calls[p]>>)
    /\ Begin(p)

SignStep(p, key, id, d) ==
    /\ \A q \in Procs \ {p} : draft'[q] = draft[q] /\ pc'[q] = pc[q]
    /\ pc[p] = "idle" /\ pc'[p] = "opening"
    /\ draft'[p] = [doc |-> d, key |-> key, payload |-> unsigned_payload(file)]
    /\ Loadable(file)
    /\ d = WithSignature(file, sign_payload(unsigned_payload(file), key, id))
    /\ Begin(p)

RefusedStep(p) ==
    /\ Begin(p)
    /\ UNCHANGED <<draft, pc>>

StoreStep(p) ==
    /\ \A q \in Procs \ {p} : pc'[q] = pc[q]
    /\ pc[p] = "writing" /\ pc'[p] = "idle"
    /\ file' = draft[p].doc \/ (file # Empty /\ file' = Garbage)
    /\ signed' = signed \cup Own(p)
    /\ Signs(p) => created' = created
    /\ ~Signs(p) => created' = created \cup {draft[p]}
    /\ UNCHANGED <<log, draft, calls, forged, overlapped>>

OpenStep(p) ==
    /\ \A q \in Procs \ {p} : pc'[q] = pc[q]
    /\ pc[p] = "opening" /\ pc'[p] = "writing"
    /\ file' = Empty
    /\ UNCHANGED <<log, draft, calls, created, signed, forged, overlapped>>

CrashStep(p) ==
    /\ \A q \in Procs \ {p} : pc'[q] = pc[q]
    /\ pc'[p] = "idle"
    /\ UNCHANGED <<log, file, draft, calls, created, signed, forged, overlapped>>

ForgeStep ==
    /\ Forge
    /\ UNCHANGED <<log, pc, draft, calls, created, signed, overlapped>>

EditStep(kind) ==
    /\ EditLog(kind)
    /\ UNCHANGED <<file, pc, draft, calls, created, signed, forged, overlapped>>

\* Every step is one of these.
LEMMA Steps ==
    ASSUME TypeInv, [Next]_vars
    PROVE  \/ UNCHANGED vars
           \/ \E p \in Procs :
                 \/ \E d : CreateStep(p, d)
                 \/ \E key \in Keys, id \in KeyIds : \E d : SignStep(p, key, id, d)
                 \/ RefusedStep(p) \/ OpenStep(p) \/ StoreStep(p) \/ CrashStep(p)
           \/ ForgeStep
           \/ \E kind \in Edits : EditStep(kind)
  <1>1. ASSUME NEW p \in Procs, checkpoint_create(p)
        PROVE  (\E d : CreateStep(p, d)) \/ RefusedStep(p)
    <2> DEFINE d == create_checkpoint(log, <<p, calls[p]>>)
               x == [doc |-> d, log |-> log]
    <2>1. CASE UNCHANGED <<draft, pc>>
      BY <1>1, <2>1 DEF checkpoint_create, RefusedStep
    <2>2. CASE /\ WellFormed(log, ReportedStream(log))
               /\ draft' = [draft EXCEPT ![p] = x]
               /\ Goto(p, "opening")
      <3>1. Begin(p) /\ pc[p] = "idle"
        BY <1>1 DEF checkpoint_create, Begin
      <3> HIDE DEF x
      <3>2. /\ draft'[p] = x /\ pc'[p] = "opening"
            /\ \A q \in Procs \ {p} : draft'[q] = draft[q] /\ pc'[q] = pc[q]
        BY <2>2, <3>1, BeginStep
      <3> USE DEF x
      <3> HIDE DEF d
      <3>3. draft'[p] = [doc |-> d, log |-> log]
        BY <3>2
      <3>4. d = create_checkpoint(log, <<p, calls[p]>>)
        BY DEF d
      <3>5. CreateStep(p, d)
        BY <2>2, <3>1, <3>2, <3>3, <3>4 DEF CreateStep
      <3> QED
        BY <3>5
    <2> QED
      BY <1>1, <2>1, <2>2 DEF checkpoint_create
  <1>2. ASSUME NEW p \in Procs, NEW key \in Keys, NEW id \in KeyIds, sign(p, key, id)
        PROVE  (\E d : SignStep(p, key, id, d)) \/ RefusedStep(p)
    <2> DEFINE d == WithSignature(file, sign_payload(unsigned_payload(file), key, id))
               x == [doc |-> d, key |-> key, payload |-> unsigned_payload(file)]
    <2>1. CASE UNCHANGED <<draft, pc>>
      BY <1>2, <2>1 DEF sign, RefusedStep
    <2>2. CASE /\ Loadable(file)
               /\ draft' = [draft EXCEPT ![p] = x]
               /\ Goto(p, "opening")
      <3>1. Begin(p) /\ pc[p] = "idle"
        BY <1>2 DEF sign, Begin
      <3> HIDE DEF x
      <3>2. /\ draft'[p] = x /\ pc'[p] = "opening"
            /\ \A q \in Procs \ {p} : draft'[q] = draft[q] /\ pc'[q] = pc[q]
        BY <2>2, <3>1, BeginStep
      <3> USE DEF x
      <3> HIDE DEF d
      <3>3. draft'[p] = [doc |-> d, key |-> key, payload |-> unsigned_payload(file)]
        BY <3>2
      <3>4. d = WithSignature(file, sign_payload(unsigned_payload(file), key, id))
        BY DEF d
      <3>5. SignStep(p, key, id, d)
        BY <2>2, <3>1, <3>2, <3>3, <3>4 DEF SignStep
      <3> QED
        BY <3>5
    <2> QED
      BY <1>2, <2>1, <2>2 DEF sign
  <1>3. ASSUME NEW p \in Procs, OpenFile(p)
        PROVE  OpenStep(p)
    BY <1>3 DEF OpenFile, OpenStep, Goto, TypeInv
  <1>4. ASSUME NEW p \in Procs, WriteFile(p)
        PROVE  StoreStep(p)
    <2>1. /\ \A q \in Procs \ {p} : pc'[q] = pc[q]
          /\ pc[p] = "writing" /\ pc'[p] = "idle"
          /\ file' = draft[p].doc \/ (file # Empty /\ file' = Garbage)
          /\ UNCHANGED <<log, draft, calls, forged, overlapped>>
      BY <1>4 DEF WriteFile, Goto, TypeInv
    <2>2. CASE Signs(p)
      BY <1>4, <2>1, <2>2 DEF WriteFile, StoreStep, Own, Signs
    <2>3. CASE ~Signs(p)
      BY <1>4, <2>1, <2>3 DEF WriteFile, StoreStep, Own, Signs
    <2> QED
      BY <2>2, <2>3
  <1>5. ASSUME NEW p \in Procs, Crash(p)
        PROVE  CrashStep(p)
    BY <1>5 DEF Crash, CrashStep, Goto, TypeInv
  <1>6. ASSUME NEW kind \in Edits, Edit(kind)
        PROVE  ForgeStep \/ EditStep(kind)
    BY <1>6 DEF Edit, ForgeStep, EditStep
  <1> QED
    BY <1>1, <1>2, <1>3, <1>4, <1>5, <1>6 DEF Next

-----------------------------------------------------------------------------
(* Nobody trusts a signature that was not made *)

LEMMA MadeForMore ==
    ASSUME NEW d, NEW some, NEW more, some \subseteq more, MadeFor(d, some)
    PROVE  MadeFor(d, more)
  BY DEF MadeFor

LEMMA SigInit == Init => SigInv
  BY DEF Init, SigInv, Text, Busy

LEMMA SigStep ==
    ASSUME TypeInv, [Next]_vars, SigInv
    PROVE  SigInv'
  <1>1. CASE UNCHANGED vars
    BY <1>1 DEF vars, SigInv, Text, Busy, Own, Signs
  <1>2. ASSUME NEW p \in Procs, NEW d, CreateStep(p, d)
        PROVE  SigInv'
    <2>1. UNCHANGED <<file, signed>>
      BY <1>2 DEF CreateStep, Begin
    <2>2. /\ draft'[p].doc = d
          /\ ~Signs(p)'
          /\ Own(p)' = {}
      BY <1>2 DEF CreateStep, Signs, Own
    <2>3. IsDocument(d) /\ d.signatures = <<>>
      BY <1>2, CreateShape DEF CreateStep
    <2>4. MadeFor(d, (signed \cup Own(p))')
      BY <2>3 DEF MadeFor
    <2>5. ASSUME NEW q \in Procs, q # p, Busy(q)'
          PROVE  /\ IsDocument(draft'[q].doc)
                 /\ MadeFor(draft'[q].doc, (signed \cup Own(q))')
                 /\ Signs(q)' => draft'[q].key \in Keys
      BY <1>2, <2>1, <2>5 DEF CreateStep, SigInv, Busy, Own, Signs
    <2> QED
      BY <2>1, <2>2, <2>3, <2>4, <2>5 DEF SigInv, Text
  <1>3. ASSUME NEW p \in Procs, NEW key \in Keys, NEW id \in KeyIds, NEW d,
               SignStep(p, key, id, d)
        PROVE  SigInv'
    <2> DEFINE record == sign_payload(unsigned_payload(file), key, id)
               own == [key |-> key, payload |-> unsigned_payload(file)]
    <2>1. UNCHANGED <<file, signed>>
      BY <1>3 DEF SignStep, Begin
    <2>2. /\ draft'[p].doc = d /\ draft'[p].key = key
          /\ Own(p)' = {own}
      BY <1>3 DEF SignStep, Signs, Own
    <2>3. IsDocument(file) /\ MadeFor(file, signed)
      BY <1>3 DEF SignStep, Loadable, SigInv, Text
    <2>4. IsDocument(d) /\ d.signatures = Append(file.signatures, record)
      BY <1>3, <2>3, WithSignatureShape DEF SignStep
    <2>5. MadeFor(d, (signed \cup Own(p))')
      <3> SUFFICES ASSUME NEW i \in DOMAIN d.signatures
                   PROVE  \E s \in signed \cup {own}, n \in KeyIds :
                             d.signatures[i] = sign_payload(s.payload, s.key, n)
        BY <2>1, <2>2 DEF MadeFor
      <3>1. /\ DOMAIN d.signatures = 1..(Len(file.signatures) + 1)
            /\ \A j \in 1..Len(file.signatures) : d.signatures[j] = file.signatures[j]
            /\ d.signatures[Len(file.signatures) + 1] = record
            /\ DOMAIN file.signatures = 1..Len(file.signatures)
            /\ Len(file.signatures) \in Nat
        BY <2>3, <2>4, AppendShape, SequenceShape DEF IsDocument
      <3>2. CASE i \in DOMAIN file.signatures
        BY <2>3, <3>1, <3>2 DEF MadeFor
      <3>3. CASE d.signatures[i] = record
        <4>1. own \in signed \cup {own} /\ record = sign_payload(own.payload, own.key, id)
          OBVIOUS
        <4> HIDE DEF own, record
        <4> QED
          BY <3>3, <4>1
      <3> QED
        BY <3>1, <3>2, <3>3
    <2>6. ASSUME NEW q \in Procs, q # p, Busy(q)'
          PROVE  /\ IsDocument(draft'[q].doc)
                 /\ MadeFor(draft'[q].doc, (signed \cup Own(q))')
                 /\ Signs(q)' => draft'[q].key \in Keys
      BY <1>3, <2>1, <2>6 DEF SignStep, SigInv, Busy, Own, Signs
    <2> QED
      BY <2>1, <2>2, <2>3, <2>4, <2>5, <2>6 DEF SigInv, Text
  <1>4. ASSUME NEW p \in Procs, RefusedStep(p)
        PROVE  SigInv'
    BY <1>4 DEF RefusedStep, Begin, SigInv, Text, Busy, Own, Signs
  <1>5. ASSUME NEW p \in Procs, OpenStep(p)
        PROVE  SigInv'
    <2>1. ~Text'
      BY <1>5 DEF OpenStep, Text
    <2>2. \A q \in Procs : Busy(q)' => Busy(q)
      BY <1>5 DEF OpenStep, Busy
    <2> QED
      BY <1>5, <2>1, <2>2 DEF OpenStep, SigInv, Own, Signs
  <1>6. ASSUME NEW p \in Procs, StoreStep(p)
        PROVE  SigInv'
    <2>1. Busy(p) /\ \A q \in Procs : Busy(q)' => Busy(q) /\ q # p
      BY <1>6 DEF StoreStep, Busy
    <2>2. \A q \in Procs : Own(q)' = Own(q) /\ (Signs(q)' <=> Signs(q))
      BY <1>6 DEF StoreStep, Own, Signs
    <2>3. signed' = signed \cup Own(p)
      BY <1>6 DEF StoreStep
    <2>4. \A s \in signed' : s.key \in Keys
      <3>1. Signs(p) => draft[p].key \in Keys
        BY <2>1 DEF SigInv
      <3>2. \A s \in Own(p) : Signs(p) /\ s.key = draft[p].key
        BY DEF Own
      <3> QED
        BY <2>3, <3>1, <3>2 DEF SigInv
    <2>5. Text' => IsDocument(file') /\ MadeFor(file', signed')
      <3>1. Text' => file' = draft[p].doc
        BY <1>6 DEF StoreStep, Text
      <3> QED
        BY <2>1, <2>3, <3>1 DEF SigInv
    <2>6. ASSUME NEW q \in Procs, Busy(q)'
          PROVE  /\ IsDocument(draft'[q].doc)
                 /\ MadeFor(draft'[q].doc, (signed \cup Own(q))')
                 /\ Signs(q)' => draft'[q].key \in Keys
      <3>1. draft'[q] = draft[q] /\ Busy(q)
        BY <1>6, <2>1, <2>6 DEF StoreStep
      <3>2. MadeFor(draft[q].doc, signed \cup Own(q))
        BY <3>1 DEF SigInv
      <3>3. signed \cup Own(q) \subseteq (signed \cup Own(q))'
        BY <2>2, <2>3
      <3>4. MadeFor(draft[q].doc, (signed \cup Own(q))')
        BY <3>2, <3>3, MadeForMore
      <3> QED
        BY <2>2, <3>1, <3>4 DEF SigInv
    <2> QED
      BY <2>4, <2>5, <2>6 DEF SigInv
  <1>7. ASSUME NEW p \in Procs, CrashStep(p)
        PROVE  SigInv'
    <2>1. \A q \in Procs : Busy(q)' => Busy(q)
      BY <1>7 DEF CrashStep, Busy
    <2> QED
      BY <1>7, <2>1 DEF CrashStep, SigInv, Text, Own, Signs
  <1>8. CASE ForgeStep
    <2>1. IsDocument(file) /\ MadeFor(file, signed)
      BY <1>8 DEF ForgeStep, Forge, Loadable, SigInv, Text
    <2>2. IsDocument(file') /\ file'.signatures = file.signatures
      BY <1>8, <2>1, ForgeShape DEF ForgeStep
    <2>3. MadeFor(file', signed')
      BY <1>8, <2>1, <2>2 DEF ForgeStep, MadeFor
    <2>4. ASSUME NEW q \in Procs, Busy(q)'
          PROVE  /\ IsDocument(draft'[q].doc)
                 /\ MadeFor(draft'[q].doc, (signed \cup Own(q))')
                 /\ Signs(q)' => draft'[q].key \in Keys
      <3>1. /\ draft' = draft /\ signed' = signed /\ Own(q)' = Own(q)
            /\ Signs(q)' = Signs(q) /\ Busy(q)
        BY <1>8, <2>4 DEF ForgeStep, Own, Signs, Busy
      <3> HIDE DEF Busy, Own, Signs
      <3>2. /\ IsDocument(draft[q].doc) /\ MadeFor(draft[q].doc, signed \cup Own(q))
            /\ Signs(q) => draft[q].key \in Keys
        BY <3>1 DEF SigInv
      <3> QED
        BY <3>1, <3>2
    <2> QED
      BY <1>8, <2>2, <2>3, <2>4 DEF ForgeStep, SigInv
  <1>9. ASSUME NEW kind \in Edits, EditStep(kind)
        PROVE  SigInv'
    BY <1>9 DEF EditStep, SigInv, Text, Busy, Own, Signs
  <1> QED
    BY <1>1, <1>2, <1>3, <1>4, <1>5, <1>6, <1>7, <1>8, <1>9, Steps

LEMMA SigInvariant == Spec => []SigInv
  BY TypeInvariant, SigInit, SigStep, PTL DEF Spec

\* A signature that verifies, for a payload and with a key, was made by `sign`
\* for that payload with that key.
LEMMA VerifiedWasSigned ==
    ASSUME SigInv, Text
    PROVE  \A i \in DOMAIN file.signatures : \A payload, key :
              verify_payload_signature(payload, file.signatures[i], key) =>
                 /\ file.signatures[i].key_id \in KeyIds
                 /\ key \in Keys
                 /\ \E s \in signed :
                       /\ s.key = key /\ s.payload = payload
                       /\ file.signatures[i].signature = <<s.key, s.payload>>
  <1> SUFFICES ASSUME NEW i \in DOMAIN file.signatures, NEW payload, NEW key,
                      verify_payload_signature(payload, file.signatures[i], key)
               PROVE  /\ file.signatures[i].key_id \in KeyIds
                      /\ key \in Keys
                      /\ \E s \in signed :
                            /\ s.key = key /\ s.payload = payload
                            /\ file.signatures[i].signature = <<s.key, s.payload>>
    OBVIOUS
  <1>1. PICK s \in signed, id \in KeyIds :
            file.signatures[i] = sign_payload(s.payload, s.key, id)
    BY DEF SigInv, MadeFor
  <1>2. file.signatures[i].signature = <<s.key, s.payload>> /\ file.signatures[i].key_id = id
    BY <1>1 DEF sign_payload
  <1>3. file.signatures[i].signature = <<key, payload>>
    BY DEF verify_payload_signature
  <1>4. s.key = key /\ s.payload = payload
    BY <1>2, <1>3
  <1> QED
    BY <1>1, <1>2, <1>4 DEF SigInv

\* Whoever accepts a log by its checkpoint and by its signatures, with the
\* policy or with a trusted key, accepts a log that the holder of a trusted
\* key signed for; whatever else happens to the log and to the file.
THEOREM Trust == Spec => []TrustedLog
  <1>1. ASSUME SigInv, checkpoint_verify,
               \/ verify_checkpoint_policy(file) /\ Minimum > 0
               \/ \E key \in Trusted : signature_verify(file, key)
        PROVE  /\ \E s \in signed : s.key \in Trusted /\ Describes(s.payload, log)
               /\ \A i \in DOMAIN file.signatures :
                     \E s \in signed :
                        s.key \in Trusted /\ file.signatures[i].signature = <<s.key, s.payload>>
    <2> DEFINE payload == unsigned_payload(file)
    <2>1. Text /\ IsDocument(file)
      BY <1>1 DEF checkpoint_verify, Loadable, Text, SigInv
    <2>2. Describes(payload, log)
      BY <1>1 DEF checkpoint_verify, verify_checkpoint, Describes, unsigned_payload
    <2>3. DOMAIN file.signatures = 1..Len(file.signatures) /\ Len(file.signatures) \in Nat
      BY <2>1, SequenceShape DEF IsDocument
    <2>4. 1 \in DOMAIN file.signatures
      <3>1. CASE verify_checkpoint_policy(file) /\ Minimum > 0
        <4>1. Len(file.signatures) >= Minimum /\ Minimum \in Nat
          BY <3>1, ConstantsAssumption DEF verify_checkpoint_policy
        <4> QED
          BY <2>3, <3>1, <4>1
      <3>2. CASE \E key \in Trusted : signature_verify(file, key)
        <4>1. file.signatures # <<>>
          BY <3>2 DEF signature_verify
        <4>2. Len(file.signatures) # 0
          BY <2>1, <4>1, SequenceShape DEF IsDocument
        <4> QED
          BY <2>3, <4>2
      <3> QED
        BY <1>1, <3>1, <3>2
    <2> HIDE DEF payload
    <2>6. ASSUME NEW i \in DOMAIN file.signatures, NEW key,
                 verify_payload_signature(payload, file.signatures[i], key)
          PROVE  /\ file.signatures[i].key_id \in KeyIds
                 /\ key \in Keys
                 /\ \E s \in signed :
                       /\ s.key = key /\ s.payload = payload
                       /\ file.signatures[i].signature = <<s.key, s.payload>>
      BY <1>1, <2>1, <2>6, VerifiedWasSigned DEF verify_payload_signature
    <2>5. ASSUME NEW i \in DOMAIN file.signatures
          PROVE  \E s \in signed :
                    /\ s.key \in Trusted /\ s.payload = payload
                    /\ file.signatures[i].signature = <<s.key, s.payload>>
      <3>1. CASE verify_checkpoint_policy(file)
        <4> DEFINE record == file.signatures[i]
                   key == PublicKeys[record.key_id]
        <4>1. ~HasIssue(record) /\ verify_payload_signature(payload, record, key)
          BY <3>1 DEF verify_checkpoint_policy, Verifies, payload
        <4>2. /\ record.key_id \in KeyIds /\ key \in Keys
              /\ \E s \in signed : /\ s.key = key /\ s.payload = payload
                                   /\ record.signature = <<s.key, s.payload>>
          <5> HIDE DEF key
          <5> QED
            BY <2>6, <4>1 DEF verify_payload_signature
        <4>3. key \in Trusted
          BY <4>1, <4>2 DEF HasIssue, Trusted
        <4> QED
          BY <4>2, <4>3
      <3>2. CASE \E key \in Trusted : signature_verify(file, key)
        <4>1. PICK key \in Trusted : signature_verify(file, key)
          BY <3>2
        <4>2. verify_payload_signature(payload, file.signatures[i], key)
          BY <4>1 DEF signature_verify, payload
        <4> QED
          BY <2>6, <4>1, <4>2
      <3> QED
        BY <1>1, <3>1, <3>2
    <2> QED
      BY <2>2, <2>4, <2>5
  <1>2. SigInv => TrustedLog
    BY <1>1 DEF TrustedLog
  <1> QED
    BY <1>2, SigInvariant, PTL

-----------------------------------------------------------------------------
(* Signatures say what the file says *)

LEMMA FitInit == Init => FitInv
  BY DEF Init, FitInv, Text, Busy

LEMMA FitStep ==
    ASSUME TypeInv, [Next]_vars, SigInv, FitInv
    PROVE  FitInv'
  <1>1. CASE UNCHANGED vars
    BY <1>1 DEF vars, FitInv, Fits, Text, Busy
  <1>2. ASSUME NEW p \in Procs, NEW d, CreateStep(p, d)
        PROVE  FitInv'
    <2>1. UNCHANGED <<file, forged>>
      BY <1>2 DEF CreateStep, Begin
    <2>2. draft'[p].doc = d /\ d.signatures = <<>>
      BY <1>2, CreateShape DEF CreateStep
    <2>3. Fits(draft[p].doc)'
      BY <2>2 DEF Fits
    <2>4. ASSUME NEW q \in Procs, q # p, Busy(q)'
          PROVE  Fits(draft[q].doc)'
      BY <1>2, <2>1, <2>4 DEF CreateStep, FitInv, Fits, Busy
    <2>5. Text' => Fits(file)'
      BY <2>1 DEF FitInv, Fits, Text
    <2> QED
      BY <2>3, <2>4, <2>5 DEF FitInv
  <1>3. ASSUME NEW p \in Procs, NEW key \in Keys, NEW id \in KeyIds, NEW d,
               SignStep(p, key, id, d)
        PROVE  FitInv'
    <2> DEFINE record == sign_payload(unsigned_payload(file), key, id)
    <2>1. UNCHANGED <<file, forged>>
      BY <1>3 DEF SignStep, Begin
    <2>2. draft'[p].doc = d
      BY <1>3 DEF SignStep
    <2>3. IsDocument(file) /\ Fits(file)
      BY <1>3 DEF SignStep, Loadable, SigInv, FitInv, Text
    <2>4. /\ d.signatures = Append(file.signatures, record)
          /\ unsigned_payload(d) = unsigned_payload(file)
          /\ d.created_time = file.created_time
      BY <1>3, <2>3, WithSignatureShape DEF SignStep
    <2>5. /\ DOMAIN d.signatures = 1..(Len(file.signatures) + 1)
          /\ \A j \in 1..Len(file.signatures) : d.signatures[j] = file.signatures[j]
          /\ d.signatures[Len(file.signatures) + 1] = record
          /\ DOMAIN file.signatures = 1..Len(file.signatures)
          /\ Len(file.signatures) \in Nat
      BY <2>3, <2>4, AppendShape, SequenceShape DEF IsDocument
    <2>6. ASSUME d.created_time \notin forged, NEW i \in DOMAIN d.signatures
          PROVE  verify_payload_signature(unsigned_payload(d), d.signatures[i],
                                          d.signatures[i].public_key_fingerprint)
      <3>1. CASE i \in DOMAIN file.signatures
        BY <2>3, <2>4, <2>5, <2>6, <3>1 DEF Fits, verify_payload_signature
      <3>2. CASE d.signatures[i] = record
        BY <2>4, <3>2 DEF verify_payload_signature, sign_payload
      <3> QED
        BY <2>5, <3>1, <3>2
    <2>7. Fits(draft[p].doc)'
      BY <2>1, <2>2, <2>6 DEF Fits
    <2>8. ASSUME NEW q \in Procs, q # p, Busy(q)'
          PROVE  Fits(draft[q].doc)'
      BY <1>3, <2>1, <2>8 DEF SignStep, FitInv, Fits, Busy
    <2>9. Text' => Fits(file)'
      BY <2>1 DEF FitInv, Fits, Text
    <2> QED
      BY <2>7, <2>8, <2>9 DEF FitInv
  <1>4. ASSUME NEW p \in Procs, RefusedStep(p)
        PROVE  FitInv'
    BY <1>4 DEF RefusedStep, Begin, FitInv, Fits, Text, Busy
  <1>5. ASSUME NEW p \in Procs, OpenStep(p)
        PROVE  FitInv'
    <2>1. ~Text'
      BY <1>5 DEF OpenStep, Text
    <2>2. \A q \in Procs : Busy(q)' => Busy(q)
      BY <1>5 DEF OpenStep, Busy
    <2> QED
      BY <1>5, <2>1, <2>2 DEF OpenStep, FitInv, Fits
  <1>6. ASSUME NEW p \in Procs, StoreStep(p)
        PROVE  FitInv'
    <2>1. Busy(p) /\ \A q \in Procs : Busy(q)' => Busy(q) /\ q # p
      BY <1>6 DEF StoreStep, Busy
    <2>2. UNCHANGED <<draft, forged>>
      BY <1>6 DEF StoreStep
    <2>3. Text' => file' = draft[p].doc
      BY <1>6 DEF StoreStep, Text
    <2>4. Text' => Fits(file)'
      BY <2>1, <2>2, <2>3 DEF FitInv, Fits
    <2> QED
      BY <2>1, <2>2, <2>4 DEF FitInv, Fits
  <1>7. ASSUME NEW p \in Procs, CrashStep(p)
        PROVE  FitInv'
    <2>1. \A q \in Procs : Busy(q)' => Busy(q)
      BY <1>7 DEF CrashStep, Busy
    <2> QED
      BY <1>7, <2>1 DEF CrashStep, FitInv, Fits, Text
  <1>8. CASE ForgeStep
    <2>1. Loadable(file) /\ forged' = forged \cup {file.created_time}
      BY <1>8 DEF ForgeStep, Forge
    <2>2. IsDocument(file)
      BY <2>1 DEF Loadable, SigInv, Text
    <2>3. file'.created_time = file.created_time
      BY <1>8, <2>2, ForgeShape DEF ForgeStep
    <2>4. Fits(file)'
      BY <2>1, <2>3 DEF Fits
    <2>5. ASSUME NEW q \in Procs, Busy(q)'
          PROVE  Fits(draft[q].doc)'
      <3>1. Busy(q) /\ draft' = draft
        BY <1>8, <2>5 DEF ForgeStep, Busy
      <3> QED
        BY <2>1, <3>1 DEF FitInv, Fits
    <2> QED
      BY <2>4, <2>5 DEF FitInv
  <1>9. ASSUME NEW kind \in Edits, EditStep(kind)
        PROVE  FitInv'
    BY <1>9 DEF EditStep, FitInv, Fits, Text, Busy
  <1> QED
    BY <1>1, <1>2, <1>3, <1>4, <1>5, <1>6, <1>7, <1>8, <1>9, Steps

\* However commands overlap and die, a checkpoint that nobody forged has no
\* signature of anything else than what it says.
THEOREM Signatures == Spec => []SignaturesFit
  <1>1. Text /\ FitInv => SignaturesFit
    BY DEF FitInv, Fits, SignaturesFit
  <1>2. ~Text => SignaturesFit
    BY DEF Text, SignaturesFit, Loadable
  <1> QED
    BY <1>1, <1>2, TypeInvariant, SigInvariant, FitInit, FitStep, PTL DEF Spec

-----------------------------------------------------------------------------
(* No signature is lost *)

LEMMA TimeInit == Init => TimeInv
  BY DEF Init, TimeInv, Text, Busy

\* A command that begins leaves every past time a past one, and makes its own
\* beginning one; no other step changes what is past.
LEMMA PastStep ==
    ASSUME TypeInv, NEW p \in Procs, Begin(p)
    PROVE  /\ \A time : IsPast(time) => IsPast(time)'
           /\ \A time : time = <<p, calls[p]>> => ~IsPast(time) /\ IsPast(time)'
  <1>1. /\ calls \in [Procs -> Nat]
        /\ calls'[p] = calls[p] + 1
        /\ \A q \in Procs : q # p => calls'[q] = calls[q]
    BY DEF TypeInv, Begin
  <1>2. \A q \in Procs : calls[q] \in Nat /\ calls[q] <= calls'[q]
    BY <1>1
  <1>3. ASSUME NEW time, IsPast(time)
        PROVE  IsPast(time)'
    <2>1. PICK q \in Procs, c \in Nat : c < calls[q] /\ time = <<q, c>>
      BY <1>3 DEF IsPast
    <2>2. calls'[q] \in Nat
      BY <1>1
    <2>3. c < calls'[q]
      BY <1>2, <2>1, <2>2
    <2> QED
      BY <2>1, <2>3 DEF IsPast
  <1>4. calls[p] \in Nat /\ calls[p] < calls'[p]
    BY <1>1
  <1>5. ASSUME NEW time, time = <<p, calls[p]>>
        PROVE  IsPast(time)'
    BY <1>4, <1>5 DEF IsPast
  <1>6. ASSUME NEW time, time = <<p, calls[p]>>, IsPast(time)
        PROVE  FALSE
    <2>1. PICK q \in Procs, c \in Nat : c < calls[q] /\ time = <<q, c>>
      BY <1>6 DEF IsPast
    <2> QED
      BY <1>4, <1>6, <2>1
  <1> QED
    BY <1>3, <1>5, <1>6

LEMMA TimeStep ==
    ASSUME TypeInv, [Next]_vars, SigInv, TimeInv
    PROVE  TimeInv'
  <1>1. CASE UNCHANGED vars
    BY <1>1 DEF vars, TimeInv, Text, Busy, Signs, IsPast
  <1>2. ASSUME NEW p \in Procs, NEW d, CreateStep(p, d)
        PROVE  TimeInv'
    <2>1. UNCHANGED <<file, signed>> /\ Begin(p)
      BY <1>2 DEF CreateStep, Begin
    <2>2. draft'[p].doc = d /\ ~Signs(p)'
      BY <1>2 DEF CreateStep, Signs
    <2>3. d.created_time = <<p, calls[p]>>
      BY <1>2, CreateShape DEF CreateStep
    <2>4. /\ \A time : IsPast(time) => IsPast(time)'
          /\ \A time : time = <<p, calls[p]>> => IsPast(time)'
      BY <2>1, PastStep
    <2>5. ASSUME NEW q \in Procs, q # p, Busy(q)'
          PROVE  draft'[q] = draft[q] /\ Busy(q) /\ (Signs(q)' <=> Signs(q))
      BY <1>2, <2>5 DEF CreateStep, Busy, Signs
    <2>6. PICK time : time = <<p, calls[p]>>
      OBVIOUS
    <2>7. draft'[p].doc.created_time = time /\ IsPast(time)'
      BY <2>2, <2>3, <2>4, <2>6
    <2> QED
      BY <2>1, <2>2, <2>4, <2>5, <2>7 DEF TimeInv, Text
  <1>3. ASSUME NEW p \in Procs, NEW key \in Keys, NEW id \in KeyIds, NEW d,
               SignStep(p, key, id, d)
        PROVE  TimeInv'
    <2>1. UNCHANGED <<file, signed>> /\ Begin(p) /\ Text
      BY <1>3 DEF SignStep, Begin, Loadable, Text
    <2>2. draft'[p].doc = d /\ draft'[p].payload = unsigned_payload(file)
      BY <1>3 DEF SignStep
    <2>3. d.created_time = file.created_time
      BY <1>3, <2>1, WithSignatureShape DEF SignStep, SigInv
    <2>4. unsigned_payload(file).created_time = file.created_time
      BY DEF unsigned_payload
    <2>5. \A time : IsPast(time) => IsPast(time)'
      BY <2>1, PastStep
    <2>6. ASSUME NEW q \in Procs, q # p, Busy(q)'
          PROVE  draft'[q] = draft[q] /\ Busy(q) /\ (Signs(q)' <=> Signs(q))
      BY <1>3, <2>6 DEF SignStep, Busy, Signs
    <2> QED
      BY <2>1, <2>2, <2>3, <2>4, <2>5, <2>6 DEF TimeInv, Text
  <1>4. ASSUME NEW p \in Procs, RefusedStep(p)
        PROVE  TimeInv'
    <2>1. \A time : IsPast(time) => IsPast(time)'
      BY <1>4, PastStep DEF RefusedStep
    <2>2. UNCHANGED <<file, signed, draft, pc>>
      BY <1>4 DEF RefusedStep, Begin
    <2>3. \A q \in Procs : (Busy(q)' <=> Busy(q)) /\ (Signs(q)' <=> Signs(q))
      BY <2>2 DEF Busy, Signs
    <2> QED
      BY <2>1, <2>2, <2>3 DEF TimeInv, Text
  <1>5. ASSUME NEW p \in Procs, OpenStep(p)
        PROVE  TimeInv'
    <2>1. ~Text'
      BY <1>5 DEF OpenStep, Text
    <2>2. \A q \in Procs : Busy(q)' => Busy(q)
      BY <1>5 DEF OpenStep, Busy
    <2> QED
      BY <1>5, <2>1, <2>2 DEF OpenStep, TimeInv, IsPast, Signs
  <1>6. ASSUME NEW p \in Procs, StoreStep(p)
        PROVE  TimeInv'
    <2>1. Busy(p) /\ \A q \in Procs : Busy(q)' => Busy(q)
      BY <1>6 DEF StoreStep, Busy
    <2>2. draft' = draft /\ calls' = calls /\ signed' = signed \cup Own(p)
      BY <1>6 DEF StoreStep
    <2>3. \A time : IsPast(time)' <=> IsPast(time)
      BY <2>2 DEF IsPast
    <2>4. \A q \in Procs : Signs(q)' <=> Signs(q)
      BY <2>2 DEF Signs
    <2>5. Text' => file' = draft[p].doc
      BY <1>6 DEF StoreStep, Text
    <2>6. \A s \in Own(p) : Signs(p) /\ s.payload = draft[p].payload
      BY DEF Own
    <2>7. \A s \in signed' : IsPast(s.payload.created_time)
      BY <2>1, <2>2, <2>6 DEF TimeInv
    <2> QED
      BY <2>1, <2>2, <2>3, <2>4, <2>5, <2>7 DEF TimeInv
  <1>7. ASSUME NEW p \in Procs, CrashStep(p)
        PROVE  TimeInv'
    <2>1. \A q \in Procs : Busy(q)' => Busy(q)
      BY <1>7 DEF CrashStep, Busy
    <2> QED
      BY <1>7, <2>1 DEF CrashStep, TimeInv, IsPast, Signs, Text
  <1>8. CASE ForgeStep
    <2>1. Text
      BY <1>8 DEF ForgeStep, Forge, Loadable, Text
    <2>2. file'.created_time = file.created_time
      BY <1>8, <2>1, ForgeShape DEF ForgeStep, SigInv
    <2>3. UNCHANGED <<pc, draft, calls, signed>>
      BY <1>8 DEF ForgeStep
    <2>4. /\ \A time : IsPast(time)' <=> IsPast(time)
          /\ \A q \in Procs : (Busy(q)' <=> Busy(q)) /\ (Signs(q)' <=> Signs(q))
      BY <2>3 DEF IsPast, Busy, Signs
    <2> QED
      BY <2>1, <2>2, <2>3, <2>4 DEF TimeInv
  <1>9. ASSUME NEW kind \in Edits, EditStep(kind)
        PROVE  TimeInv'
    BY <1>9 DEF EditStep, TimeInv, IsPast, Text, Busy, Signs
  <1> QED
    BY <1>1, <1>2, <1>3, <1>4, <1>5, <1>6, <1>7, <1>8, <1>9, Steps

LEMMA KeptInit == Init => KeptInv
  BY DEF Init, KeptInv, Text, Busy

\* While no commands overlap, p's alone can be under way.
LEMMA AloneStep ==
    ASSUME TypeInv, KeptInv, NEW p \in Procs, Begin(p), ~overlapped'
    PROVE  ~overlapped /\ \A q \in Procs : ~Busy(q)
  BY DEF Begin, Busy

LEMMA KeptStep ==
    ASSUME TypeInv, [Next]_vars, SigInv, TimeInv, KeptInv
    PROVE  KeptInv'
  <1> SUFFICES ASSUME ~overlapped'
               PROVE  KeptInv'
    BY DEF KeptInv
  <1>1. CASE UNCHANGED vars
    BY <1>1 DEF vars, KeptInv, Keeps, Text, Busy, Signs
  <1>2. ASSUME NEW p \in Procs, NEW d, CreateStep(p, d)
        PROVE  KeptInv'
    <2>1. UNCHANGED <<file, signed>> /\ Begin(p)
      BY <1>2 DEF CreateStep, Begin
    <2>2. ~overlapped /\ \A q \in Procs : ~Busy(q)
      BY <2>1, AloneStep
    <2>3. \A q \in Procs : Busy(q)' => q = p
      BY <1>2, <2>2 DEF CreateStep, Busy
    <2>4. \A q \in Procs : pc'[q] # "writing"
      BY <1>2, <2>2 DEF CreateStep, Busy
    <2>5. draft'[p].doc = d /\ ~Signs(p)'
      BY <1>2 DEF CreateStep, Signs
    <2>6. Keeps(draft[p].doc)'
      <3>1. d.created_time = <<p, calls[p]>>
        BY <1>2, CreateShape DEF CreateStep
      <3>2. ~IsPast(d.created_time)
        BY <2>1, <3>1, PastStep
      <3>3. \A s \in signed : s.payload.created_time # d.created_time
        BY <3>2 DEF TimeInv
      <3> QED
        BY <2>1, <2>5, <3>3 DEF Keeps
    <2>7. Text' => Keeps(file)'
      BY <2>1, <2>2 DEF KeptInv, Keeps, Text
    <2> QED
      BY <2>3, <2>4, <2>5, <2>6, <2>7 DEF KeptInv
  <1>3. ASSUME NEW p \in Procs, NEW key \in Keys, NEW id \in KeyIds, NEW d,
               SignStep(p, key, id, d)
        PROVE  KeptInv'
    <2> DEFINE record == sign_payload(unsigned_payload(file), key, id)
    <2>1. UNCHANGED <<file, signed>> /\ Begin(p) /\ Text
      BY <1>3 DEF SignStep, Begin, Loadable, Text
    <2>2. ~overlapped /\ \A q \in Procs : ~Busy(q)
      BY <2>1, AloneStep
    <2>3. \A q \in Procs : Busy(q)' => q = p
      BY <1>3, <2>2 DEF SignStep, Busy
    <2>4. \A q \in Procs : pc'[q] # "writing"
      BY <1>3, <2>2 DEF SignStep, Busy
    <2>5. /\ draft'[p].doc = d /\ draft'[p].key = key
          /\ draft'[p].payload = unsigned_payload(file)
      BY <1>3 DEF SignStep
    <2>6. IsDocument(file) /\ Keeps(file)
      BY <2>1, <2>2 DEF SigInv, KeptInv
    <2>7. /\ d.signatures = Append(file.signatures, record)
          /\ d.created_time = file.created_time
      BY <1>3, <2>6, WithSignatureShape DEF SignStep
    <2>8. /\ DOMAIN d.signatures = 1..(Len(file.signatures) + 1)
          /\ \A j \in 1..Len(file.signatures) : d.signatures[j] = file.signatures[j]
          /\ d.signatures[Len(file.signatures) + 1] = record
          /\ DOMAIN file.signatures = 1..Len(file.signatures)
          /\ Len(file.signatures) \in Nat
      BY <2>6, <2>7, AppendShape, SequenceShape DEF IsDocument
    <2>9. DOMAIN file.signatures \subseteq DOMAIN d.signatures
      BY <2>8
    <2>10. Keeps(draft[p].doc)'
      <3> SUFFICES ASSUME NEW s \in signed, s.payload.created_time = d.created_time
                   PROVE  \E i \in DOMAIN d.signatures :
                             d.signatures[i].signature = <<s.key, s.payload>>
        BY <2>1, <2>5 DEF Keeps
      <3>1. PICK i \in DOMAIN file.signatures :
                file.signatures[i].signature = <<s.key, s.payload>>
        BY <2>6, <2>7 DEF Keeps
      <3> QED
        BY <2>8, <2>9, <3>1
    <2>11. Len(file.signatures) + 1 \in DOMAIN d.signatures
      BY <2>8
    <2>12. record.signature = <<key, unsigned_payload(file)>>
      BY DEF sign_payload
    <2>13. \E i \in DOMAIN draft'[p].doc.signatures :
              draft'[p].doc.signatures[i].signature = <<draft'[p].key, draft'[p].payload>>
      BY <2>5, <2>8, <2>11, <2>12
    <2>14. Text' => Keeps(file)'
      BY <2>1, <2>6 DEF Keeps
    <2> QED
      BY <2>3, <2>4, <2>10, <2>13, <2>14 DEF KeptInv
  <1>4. ASSUME NEW p \in Procs, RefusedStep(p)
        PROVE  KeptInv'
    <2>1. UNCHANGED <<file, signed, draft, pc>> /\ Begin(p)
      BY <1>4 DEF RefusedStep, Begin
    <2>2. ~overlapped
      BY <2>1, AloneStep
    <2> QED
      BY <2>1, <2>2 DEF KeptInv, Keeps, Text, Busy, Signs
  <1>5. ASSUME NEW p \in Procs, OpenStep(p)
        PROVE  KeptInv'
    <2>1. ~Text' /\ file' = Empty
      BY <1>5 DEF OpenStep, Text
    <2>2. \A q \in Procs : Busy(q)' => Busy(q)
      BY <1>5 DEF OpenStep, Busy
    <2>3. ~overlapped /\ UNCHANGED <<draft, signed>>
      BY <1>5 DEF OpenStep
    <2> QED
      BY <2>1, <2>2, <2>3 DEF KeptInv, Keeps, Signs
  <1>6. ASSUME NEW p \in Procs, StoreStep(p)
        PROVE  KeptInv'
    <2>1. ~overlapped /\ Busy(p) /\ pc[p] = "writing"
      BY <1>6 DEF StoreStep, Busy
    <2>2. \A q \in Procs : ~Busy(q)'
      BY <1>6, <2>1 DEF StoreStep, Busy, KeptInv
    <2>3. file' = draft[p].doc
      BY <1>6, <2>1 DEF StoreStep, KeptInv
    <2>4. Keeps(file)'
      <3> SUFFICES ASSUME NEW s \in signed', s.payload.created_time = draft[p].doc.created_time
                   PROVE  \E i \in DOMAIN draft[p].doc.signatures :
                             draft[p].doc.signatures[i].signature = <<s.key, s.payload>>
        BY <2>3 DEF Keeps
      <3>1. CASE s \in signed
        BY <2>1, <3>1 DEF KeptInv, Keeps
      <3>2. CASE s \notin signed
        <4>1. Signs(p) /\ s.key = draft[p].key /\ s.payload = draft[p].payload
          BY <1>6, <3>2 DEF StoreStep, Own
        <4> QED
          BY <2>1, <4>1 DEF KeptInv
      <3> QED
        BY <3>1, <3>2
    <2>5. \A q \in Procs : pc'[q] # "writing"
      BY <2>2 DEF Busy
    <2> QED
      BY <2>2, <2>4, <2>5 DEF KeptInv
  <1>7. ASSUME NEW p \in Procs, CrashStep(p)
        PROVE  KeptInv'
    <2>1. \A q \in Procs : (Busy(q)' => Busy(q)) /\ (pc'[q] = "writing" => pc[q] = "writing")
      BY <1>7 DEF CrashStep, Busy
    <2>2. ~overlapped /\ UNCHANGED <<file, draft, signed>>
      BY <1>7 DEF CrashStep
    <2>3. \A q \in Procs : (Signs(q)' <=> Signs(q)) /\ (Keeps(draft[q].doc)' <=> Keeps(draft[q].doc))
      BY <2>2 DEF Keeps, Signs
    <2>4. Text' => Keeps(file)'
      BY <2>2 DEF KeptInv, Keeps, Text
    <2>5. ASSUME NEW q \in Procs, Busy(q)', Signs(q)'
          PROVE  \E i \in DOMAIN draft'[q].doc.signatures :
                     draft'[q].doc.signatures[i].signature = <<draft'[q].key, draft'[q].payload>>
      BY <2>1, <2>2, <2>3, <2>5 DEF KeptInv
    <2>6. ASSUME NEW q \in Procs, Busy(q)'
          PROVE  Keeps(draft[q].doc)'
      BY <2>1, <2>2, <2>3, <2>6 DEF KeptInv
    <2>7. /\ \A q, r \in Procs : Busy(q)' /\ Busy(r)' => q = r
          /\ \A q \in Procs : pc'[q] = "writing" => file' = Empty
      BY <2>1, <2>2 DEF KeptInv
    <2> QED
      BY <2>4, <2>5, <2>6, <2>7 DEF KeptInv
  <1>8. CASE ForgeStep
    <2>1. ~overlapped /\ UNCHANGED <<pc, draft, signed>>
      BY <1>8 DEF ForgeStep
    <2>2. Text
      BY <1>8 DEF ForgeStep, Forge, Loadable, Text
    <2>3. file'.created_time = file.created_time /\ file'.signatures = file.signatures
      BY <1>8, <2>2, ForgeShape DEF ForgeStep, SigInv
    <2>4. \A q \in Procs : pc[q] # "writing"
      BY <2>1, <2>2 DEF KeptInv, Text
    <2>5. Keeps(file)'
      BY <2>1, <2>2, <2>3 DEF KeptInv, Keeps
    <2>6. ASSUME NEW q \in Procs, Busy(q)'
          PROVE  /\ Busy(q) /\ Keeps(draft[q].doc)'
                 /\ Signs(q)' =>
                       \E i \in DOMAIN draft'[q].doc.signatures :
                           draft'[q].doc.signatures[i].signature
                               = <<draft'[q].key, draft'[q].payload>>
      BY <2>1, <2>6 DEF KeptInv, Keeps, Busy, Signs
    <2> QED
      BY <2>1, <2>4, <2>5, <2>6 DEF KeptInv
  <1>9. ASSUME NEW kind \in Edits, EditStep(kind)
        PROVE  KeptInv'
    BY <1>9 DEF EditStep, KeptInv, Keeps, Text, Busy, Signs
  <1> QED
    BY <1>1, <1>2, <1>3, <1>4, <1>5, <1>6, <1>7, <1>8, <1>9, Steps

\* While commands never overlap no signature is lost silently, whatever dies
\* between the emptying of the file and its writing, and whatever is forged.
THEOREM Keeping == Spec => []SignaturesKept
  <1>1. Text /\ KeptInv => SignaturesKept
    <2> SUFFICES ASSUME Text, KeptInv, ~overlapped, NEW s \in signed,
                        s.payload = unsigned_payload(file)
                 PROVE  \E i \in DOMAIN file.signatures :
                           file.signatures[i].signature = <<s.key, s.payload>>
      BY DEF SignaturesKept
    <2>1. s.payload.created_time = file.created_time
      BY DEF unsigned_payload
    <2> QED
      BY <2>1 DEF KeptInv, Keeps
  <1>2. ~Text => SignaturesKept
    BY DEF Text, SignaturesKept, Loadable
  <1> QED
    BY <1>1, <1>2, TypeInvariant, SigInvariant, TimeInit, TimeStep, KeptInit, KeptStep, PTL
       DEF Spec

-----------------------------------------------------------------------------
(* What a checkpoint describes *)

\* Rebuilding makes events of events: upto, the function that Rebuilt defines
\* by recursion, exists and has logs for its values.
LEMMA RebuiltIsLog ==
    ASSUME NEW events, IsLog(events), NEW i \in DOMAIN events
    PROVE  IsLog(Rebuilt(events, i))
  <1> DEFINE stream == ReportedStream(events)
             first == Append(SubSeq(events, 1, i - 1),
                             chain_next(SubSeq(events, 1, i - 1), Changed, stream))
             After(s, n) == Append(s, chain_next(s, events[n].body, stream))
             Recurs(g, k) == g = [n \in i..k |-> IF n = i THEN first ELSE After(g[n - 1], n)]
             upto == CHOOSE g : Recurs(g, Len(events))
  <1>1. Rebuilt(events, i) = upto[Len(events)]
    BY DEF Rebuilt
  <1>2. /\ DOMAIN events = 1..Len(events) /\ Len(events) \in Nat
        /\ i \in 1..Len(events) /\ i - 1 \in 0..Len(events)
    BY SequenceShape DEF IsLog
  <1>3. IsLog(first)
    BY <1>2, PrefixIsLog, ChainNextIsEvent, AppendIsLog
  <1>4. \A s, n : IsLog(s) => IsLog(After(s, n))
    BY ChainNextIsEvent, AppendIsLog
  <1> HIDE DEF first, After
  <1>5. \E g : Recurs(g, Len(events))
    <2> DEFINE T == {k \in Nat : \E g : Recurs(g, i + k)}
    <2>1. 0 \in T
      <3>1. Recurs([n \in i..i |-> first], i + 0)
        BY <1>2
      <3> QED
        BY <3>1
    <2>2. ASSUME NEW k \in Nat, k \in T
          PROVE  k + 1 \in T
      <3>1. PICK g : Recurs(g, i + k)
        BY <2>2
      <3> DEFINE h == [n \in i..(i + (k + 1)) |-> IF n = i + (k + 1) THEN After(g[i + k], n) ELSE g[n]]
      <3>2. ASSUME NEW n \in i..(i + (k + 1))
            PROVE  h[n] = IF n = i THEN first ELSE After(h[n - 1], n)
        <4>1. CASE n = i + (k + 1)
          BY <1>2, <4>1
        <4>2. CASE n \in i..(i + k)
          <5>1. h[n] = g[n] /\ g[n] = IF n = i THEN first ELSE After(g[n - 1], n)
            BY <1>2, <3>1, <4>2
          <5>2. n # i => h[n - 1] = g[n - 1]
            BY <1>2, <4>2
          <5> QED
            BY <5>1, <5>2
        <4> QED
          BY <1>2, <4>1, <4>2
      <3>3. h = [n \in i..(i + (k + 1)) |-> IF n = i THEN first ELSE After(h[n - 1], n)]
        BY <3>2
      <3> HIDE DEF h
      <3>4. Recurs(h, i + (k + 1))
        BY <3>3
      <3> HIDE DEF Recurs
      <3> QED
        BY <3>4
    <2>3. Nat \subseteq T
      <3> HIDE DEF T
      <3> QED
        BY <2>1, <2>2, InductionOverNat
    <2>4. Len(events) - i \in Nat /\ i + (Len(events) - i) = Len(events)
      BY <1>2
    <2> QED
      BY <2>3, <2>4
  <1>6. Recurs(upto, Len(events))
    <2> HIDE DEF Recurs
    <2> QED
      BY <1>5
  <1> HIDE DEF upto
  <1>7. Len(events) - i \in {k \in Nat : i + k <= Len(events) => IsLog(upto[i + k])}
    <2> DEFINE T == {k \in Nat : i + k <= Len(events) => IsLog(upto[i + k])}
    <2>1. 0 \in T
      <3>1. upto[i + 0] = first
        BY <1>2, <1>6
      <3> QED
        BY <1>3, <3>1
    <2>2. ASSUME NEW k \in Nat, k \in T
          PROVE  k + 1 \in T
      <3> SUFFICES ASSUME i + (k + 1) <= Len(events)
                   PROVE  IsLog(upto[i + (k + 1)])
        OBVIOUS
      <3>1. IsLog(upto[i + k])
        BY <1>2, <2>2
      <3>2. i + (k + 1) \in i..Len(events) /\ i + (k + 1) # i /\ (i + (k + 1)) - 1 = i + k
        BY <1>2
      <3>3. upto[i + (k + 1)] = After(upto[i + k], i + (k + 1))
        BY <1>6, <3>2
      <3> QED
        BY <1>4, <3>1, <3>3
    <2>3. Nat \subseteq T
      <3> HIDE DEF T
      <3> QED
        BY <2>1, <2>2, InductionOverNat
    <2> QED
      BY <1>2, <2>3
  <1> QED
    BY <1>1, <1>2, <1>7

\* Whatever is done to the log, what can be read from it are events.
LEMMA EditedIsLog ==
    ASSUME IsLog(log), NEW kind, EditLog(kind)
    PROVE  IsLog(log')
  <1>1. Len(log) \in Nat /\ DOMAIN log = 1..Len(log) /\ IsSequence(log)
    BY SequenceShape DEF IsLog
  <1>2. CASE \E stream \in Streams : log' = Append(log, chain_next(log, Added, stream))
    BY <1>2, ChainNextIsEvent, AppendIsLog
  <1>3. CASE \E n \in 1..(Len(log) - 1) : log' = SubSeq(log, 1, n)
    <2>1. PICK n \in 0..Len(log) : log' = SubSeq(log, 1, n)
      BY <1>1, <1>3
    <2>2. IsLog(SubSeq(log, 1, n))
      BY PrefixIsLog
    <2> QED
      BY <2>1, <2>2
  <1>4. CASE log' = <<>>
    BY <1>4, EmptyShape DEF IsLog
  <1>5. CASE \E i \in DOMAIN log : log' = Rebuilt(log, i)
    BY <1>5, RebuiltIsLog
  <1>6. CASE \E i \in DOMAIN log : log' = [log EXCEPT ![i].body = Changed]
    <2>1. PICK i \in DOMAIN log : log' = [log EXCEPT ![i].body = Changed]
      BY <1>6
    <2>2. PICK e : e = [log[i] EXCEPT !.body = Changed]
      OBVIOUS
    <2>3. IsEvent(log[i])
      BY DEF IsLog
    <2>4. IsEvent(e)
      BY <2>2, <2>3 DEF IsEvent
    <2>5. log' = [log EXCEPT ![i] = e]
      BY <2>1, <2>2
    <2>6. /\ IsSequence(log') /\ DOMAIN log' = DOMAIN log /\ log'[i] = e
          /\ \A j \in DOMAIN log : j # i => log'[j] = log[j]
      BY <1>1, <2>5, ExceptShape
    <2> QED
      BY <2>4, <2>6 DEF IsLog
  <1>7. CASE \E i \in DOMAIN log : log' = [log EXCEPT ![i].signatures = <<Added>>]
    <2>1. PICK i \in DOMAIN log : log' = [log EXCEPT ![i].signatures = <<Added>>]
      BY <1>7
    <2>2. PICK e : e = [log[i] EXCEPT !.signatures = <<Added>>]
      OBVIOUS
    <2>3. IsEvent(log[i])
      BY DEF IsLog
    <2>4. IsEvent(e)
      BY <2>2, <2>3 DEF IsEvent
    <2>5. log' = [log EXCEPT ![i] = e]
      BY <2>1, <2>2
    <2>6. /\ IsSequence(log') /\ DOMAIN log' = DOMAIN log /\ log'[i] = e
          /\ \A j \in DOMAIN log : j # i => log'[j] = log[j]
      BY <1>1, <2>5, ExceptShape
    <2> QED
      BY <2>4, <2>6 DEF IsLog
  <1> QED
    BY <1>2, <1>3, <1>4, <1>5, <1>6, <1>7 DEF EditLog

LEMMA CreatedInit == Init => CreatedInv
  BY ConstantsAssumption DEF Init, CreatedInv, Busy

LEMMA CreatedStep ==
    ASSUME TypeInv, [Next]_vars, CreatedInv
    PROVE  CreatedInv'
  <1>1. CASE UNCHANGED vars
    BY <1>1 DEF vars, CreatedInv, Busy, Signs
  <1>2. ASSUME NEW p \in Procs, NEW d, CreateStep(p, d)
        PROVE  CreatedInv'
    <2>1. UNCHANGED <<log, created>>
      BY <1>2 DEF CreateStep, Begin
    <2>2. draft'[p].doc = d /\ draft'[p].log = log
      BY <1>2 DEF CreateStep
    <2>3. <<p, calls[p]>> \in Past
      BY DEF TypeInv, Past
    <2>4. Describing(d, log)
      BY <1>2, <2>3 DEF CreateStep, Describing, CreatedInv
    <2>5. ASSUME NEW q \in Procs, q # p, Busy(q)'
          PROVE  draft'[q] = draft[q] /\ Busy(q) /\ (Signs(q)' <=> Signs(q))
      BY <1>2, <2>5 DEF CreateStep, Busy, Signs
    <2>6. ASSUME NEW q \in Procs, Busy(q)', ~Signs(q)'
          PROVE  Describing(draft'[q].doc, draft'[q].log)
      <3>1. CASE q = p
        BY <2>2, <2>4, <3>1
      <3>2. CASE q # p
        BY <2>5, <2>6, <3>2 DEF CreatedInv
      <3> QED
        BY <3>1, <3>2
    <2> QED
      BY <2>1, <2>6 DEF CreatedInv, Describing
  <1>3. ASSUME NEW p \in Procs, NEW key \in Keys, NEW id \in KeyIds, NEW d,
               SignStep(p, key, id, d)
        PROVE  CreatedInv'
    <2>1. UNCHANGED <<log, created>>
      BY <1>3 DEF SignStep, Begin
    <2>2. Signs(p)'
      BY <1>3 DEF SignStep, Signs
    <2>3. ASSUME NEW q \in Procs, q # p, Busy(q)'
          PROVE  draft'[q] = draft[q] /\ Busy(q) /\ (Signs(q)' <=> Signs(q))
      BY <1>3, <2>3 DEF SignStep, Busy, Signs
    <2>4. ASSUME NEW q \in Procs, Busy(q)', ~Signs(q)'
          PROVE  Describing(draft'[q].doc, draft'[q].log)
      BY <2>2, <2>3, <2>4 DEF CreatedInv
    <2> QED
      BY <2>1, <2>4 DEF CreatedInv, Describing
  <1>4. ASSUME NEW p \in Procs, RefusedStep(p)
        PROVE  CreatedInv'
    BY <1>4 DEF RefusedStep, Begin, CreatedInv, Busy, Signs
  <1>5. ASSUME NEW p \in Procs, OpenStep(p)
        PROVE  CreatedInv'
    <2>1. \A q \in Procs : (Busy(q)' => Busy(q)) /\ (Signs(q)' <=> Signs(q))
      BY <1>5 DEF OpenStep, Busy, Signs
    <2> QED
      BY <1>5, <2>1 DEF OpenStep, CreatedInv
  <1>6. ASSUME NEW p \in Procs, StoreStep(p)
        PROVE  CreatedInv'
    <2>1. Busy(p) /\ \A q \in Procs : (Busy(q)' => Busy(q)) /\ (Signs(q)' <=> Signs(q))
      BY <1>6 DEF StoreStep, Busy, Signs
    <2>2. log' = log /\ draft' = draft
      BY <1>6 DEF StoreStep
    <2>3. ASSUME NEW c \in created'
          PROVE  Describing(c.doc, c.log)
      <3>1. CASE Signs(p)
        BY <1>6, <2>3, <3>1 DEF StoreStep, CreatedInv
      <3>2. CASE ~Signs(p)
        BY <1>6, <2>1, <2>3, <3>2 DEF StoreStep, CreatedInv
      <3> QED
        BY <3>1, <3>2
    <2> QED
      BY <2>1, <2>2, <2>3 DEF CreatedInv
  <1>7. ASSUME NEW p \in Procs, CrashStep(p)
        PROVE  CreatedInv'
    <2>1. \A q \in Procs : (Busy(q)' => Busy(q)) /\ (Signs(q)' <=> Signs(q))
      BY <1>7 DEF CrashStep, Busy, Signs
    <2> QED
      BY <1>7, <2>1 DEF CrashStep, CreatedInv
  <1>8. CASE ForgeStep
    BY <1>8 DEF ForgeStep, CreatedInv, Busy, Signs
  <1>9. ASSUME NEW kind \in Edits, EditStep(kind)
        PROVE  CreatedInv'
    <2>1. IsLog(log')
      BY <1>9, EditedIsLog DEF EditStep, CreatedInv
    <2> QED
      BY <1>9, <2>1 DEF EditStep, CreatedInv, Busy, Signs
  <1> QED
    BY <1>1, <1>2, <1>3, <1>4, <1>5, <1>6, <1>7, <1>8, <1>9, Steps

LEMMA CreatedInvariant == Spec => []CreatedInv
  BY TypeInvariant, CreatedInit, CreatedStep, PTL DEF Spec

\* Python's sha256 digests are strings, so none of them is None.
DigestNeverNone == \A value : sha256_digest(value) # None

\* Two well-formed streams of one length that end in one digest are the same,
\* whoever signed their events.
LEMMA SameEndSameLog ==
    ASSUME NEW s, NEW t, NEW one, NEW other, IsLog(s), IsLog(t),
           WellFormed(s, one), WellFormed(t, other),
           Len(s) = Len(t), Len(s) # 0, last_digest(s) = last_digest(t)
    PROVE  SameButSignatures(s, t)
  <1>1. /\ Len(s) \in Nat /\ DOMAIN s = 1..Len(s) /\ s = [i \in 1..Len(s) |-> s[i]]
        /\ Len(t) \in Nat /\ DOMAIN t = 1..Len(t) /\ t = [i \in 1..Len(t) |-> t[i]]
    BY SequenceShape DEF IsLog
  <1>2. PICK n \in Nat : n = Len(s) /\ n \in DOMAIN s /\ n \in DOMAIN t
    BY <1>1
  <1>3. s # <<>> /\ t # <<>>
    BY EmptyShape
  <1>4. s[n].event_digest = t[n].event_digest
    BY <1>2, <1>3 DEF last_digest
  <1>5. Linked(s, n, one) /\ Linked(t, n, other) /\ IsEvent(s[n]) /\ IsEvent(t[n])
    BY <1>2 DEF WellFormed, IsLog
  <1>6. Unsigned(s[n]) = Unsigned(t[n])
    BY <1>4, <1>5, SameDigestSameEvent DEF Linked
  <1>7. \A i \in 1..n : Unsigned(s[i]) = Unsigned(t[i])
    BY <1>2, <1>6, SameUpTo
  <1> QED
    BY <1>1, <1>2, <1>7 DEF SameButSignatures

\* To a verifier two logs that differ in the signatures of events are the same.
LEMMA SignaturesIgnored ==
    ASSUME NEW s, NEW t, NEW stream, IsLog(s), IsLog(t),
           SameButSignatures(s, t), WellFormed(t, stream)
    PROVE  /\ WellFormed(s, stream)
           /\ last_digest(s) = last_digest(t)
           /\ s = <<>> <=> t = <<>>
           /\ ReportedStream(s) = ReportedStream(t)
  <1>1. PICK n \in Nat : n = Len(s) /\ n = Len(t)
    BY SequenceShape DEF SameButSignatures, IsLog
  <1>2. /\ DOMAIN s = 1..n /\ DOMAIN t = 1..n
        /\ n = 0 <=> s = <<>>
        /\ n = 0 <=> t = <<>>
    <2>1. \A x : IsSequence(x) => (Len(x) = 0 <=> x = <<>>)
      BY EmptySeq DEF IsSequence
    <2> QED
      BY <1>1, <2>1, SequenceShape DEF IsLog
  <1>3. ASSUME NEW i \in 1..n
        PROVE  /\ s[i].body = t[i].body
               /\ s[i].stream_id = t[i].stream_id
               /\ s[i].sequence = t[i].sequence
               /\ s[i].previous_event_digest = t[i].previous_event_digest
               /\ s[i].event_digest = t[i].event_digest
    <2>1. IsEvent(s[i]) /\ IsEvent(t[i]) /\ Unsigned(s[i]) = Unsigned(t[i])
      BY <1>2 DEF IsLog, SameButSignatures
    <2> QED
      BY <2>1, UnsignedFields
  <1>4. ASSUME NEW i \in 1..n
        PROVE  Linked(s, i, stream)
    <2>1. Linked(t, i, stream)
      BY <1>2 DEF WellFormed
    <2>2. PreviousOf(s, i) = PreviousOf(t, i)
      BY <1>3 DEF PreviousOf
    <2>3. event_digest(s[i]) = event_digest(t[i])
      BY <1>3 DEF event_digest, digest_projection
    <2> QED
      BY <1>3, <2>1, <2>2, <2>3 DEF Linked
  <1>5. WellFormed(s, stream)
    BY <1>2, <1>4 DEF WellFormed
  <1>6. last_digest(s) = last_digest(t)
    BY <1>1, <1>2, <1>3 DEF last_digest
  <1>7. ReportedStream(s) = ReportedStream(t)
    BY <1>2, <1>3 DEF ReportedStream
  <1> QED
    BY <1>2, <1>5, <1>6, <1>7

\* `checkpoint verify` accepts the log that a checkpoint was made of and no
\* other, up to the signatures of events, however often the checkpoint was
\* signed since and whatever became of the log: the last digest says everything
\* about the events before.  A checkpoint of a stream named "" accepts none.
THEOREM Pinning ==
    ASSUME DigestNeverNone
    PROVE  Spec => []PinsTheLog
  <1>1. ASSUME CreatedInv, NEW c \in created, From(c)
        PROVE  checkpoint_verify <=> /\ SameButSignatures(log, c.log)
                                     /\ log # <<>> /\ c.log[1].stream_id # ""
    <2>1. /\ IsLog(log) /\ IsLog(c.log) /\ WellFormed(c.log, ReportedStream(c.log))
          /\ \E time : c.doc = create_checkpoint(c.log, time)
      BY <1>1 DEF CreatedInv, Describing
    <2>2. PICK d : d = [file EXCEPT !.signatures = <<>>] /\ d = c.doc
      BY <1>1 DEF From
    <2>3. /\ IsDocument(d)
          /\ d.stream_id = active_stream(c.log)
          /\ d.event_count = Len(c.log)
          /\ d.terminal_digest = last_digest(c.log)
          /\ d.checkpoint_digest = sha256_digest(unsigned_payload(d))
      <3>1. PICK time : d = create_checkpoint(c.log, time)
        BY <2>1, <2>2
      <3> QED
        BY <3>1, CreateShape
    <2>4. /\ file.stream_id = d.stream_id
          /\ file.event_count = d.event_count
          /\ file.terminal_digest = d.terminal_digest
          /\ file.created_time = d.created_time
          /\ file.checkpoint_digest = d.checkpoint_digest
      BY <2>2, <2>3 DEF IsDocument
    <2>5. unsigned_payload(file) = unsigned_payload(d)
      BY <2>4 DEF unsigned_payload
    <2>6. /\ DOMAIN c.log = 1..Len(c.log) /\ Len(c.log) \in Nat
          /\ Len(c.log) = 0 <=> c.log = <<>>
      BY <2>1, SequenceShape, EmptyShape DEF IsLog
    <2>7. ASSUME checkpoint_verify
          PROVE  SameButSignatures(log, c.log) /\ log # <<>> /\ c.log[1].stream_id # ""
      <3>1. /\ WellFormed(log, file.stream_id) /\ Len(c.log) = Len(log)
            /\ last_digest(c.log) = last_digest(log) /\ last_digest(c.log) # None
        BY <2>3, <2>4, <2>7 DEF checkpoint_verify, Loadable, verify_checkpoint
      <3>2. c.log # <<>>
        BY <3>1 DEF last_digest
      <3>3. Len(c.log) # 0
        BY <2>6, <3>2
      <3>4. SameButSignatures(log, c.log)
        BY <2>1, <3>1, <3>3, SameEndSameLog
      <3>5. log # <<>> /\ ReportedStream(log) = ReportedStream(c.log)
        BY <2>1, <3>2, <3>4, SignaturesIgnored
      <3>6. log[1].stream_id = file.stream_id
        <4>1. 1 \in DOMAIN log
          BY <2>1, <3>1, <3>3, <2>6, SequenceShape DEF IsLog
        <4> QED
          BY <3>1, <4>1 DEF WellFormed, Linked
      <3>7. c.log[1].stream_id = active_stream(c.log)
        BY <2>3, <2>4, <3>2, <3>5, <3>6 DEF ReportedStream
      <3>8. c.log[1].stream_id # ""
        BY <3>2, <3>7 DEF active_stream, ReportedStream
      <3> QED
        BY <3>4, <3>5, <3>8
    <2>8. ASSUME SameButSignatures(log, c.log), log # <<>>, c.log[1].stream_id # ""
          PROVE  checkpoint_verify
      <3>1. /\ WellFormed(log, ReportedStream(c.log)) /\ last_digest(log) = last_digest(c.log)
            /\ Len(log) = Len(c.log) /\ c.log # <<>>
        BY <2>1, <2>8, SignaturesIgnored DEF SameButSignatures
      <3>2. 1 \in DOMAIN c.log /\ Len(c.log) \in DOMAIN c.log
        BY <2>6, <3>1
      <3>3. /\ Linked(c.log, 1, ReportedStream(c.log))
            /\ Linked(c.log, Len(c.log), ReportedStream(c.log))
        BY <2>1, <3>2 DEF WellFormed
      <3>4. file.stream_id = ReportedStream(c.log)
        BY <2>3, <2>4, <2>8, <3>1, <3>3 DEF Linked, ReportedStream, active_stream
      <3>5. last_digest(c.log) # None
        <4>1. last_digest(c.log) = event_digest(c.log[Len(c.log)])
          BY <3>1, <3>3 DEF last_digest, Linked
        <4> QED
          BY <4>1 DEF event_digest, DigestNeverNone
      <3>6. Loadable(file)
        BY <1>1, <2>3, <2>4, <3>5 DEF From, Loadable
      <3>7. verify_checkpoint(file, log)
        BY <2>3, <2>4, <2>5, <3>1, <3>4 DEF verify_checkpoint
      <3> QED
        BY <3>6, <3>7 DEF checkpoint_verify
    <2> QED
      BY <2>7, <2>8
  <1>2. CreatedInv => PinsTheLog
    BY <1>1 DEF PinsTheLog
  <1> QED
    BY <1>2, CreatedInvariant, PTL

-----------------------------------------------------------------------------
(* Key files *)

\* A counter below its bound can be increased.
LEMMA Increased ==
    ASSUME NEW m \in Nat, NEW n \in 0..m, n < m
    PROVE  n + 1 \in 0..m /\ n + 1 > 0
    OBVIOUS

\* The contents of key files can be told apart.
LEMMA Halves ==
    ASSUME NEW one \in KeyPairs, NEW other \in KeyPairs
    PROVE  /\ Private(one) # Public(other)
           /\ Private(one) = Private(other) => one = other
           /\ Public(one) = Public(other) => one = other
           /\ Private(one) # NoFile /\ Private(one) # NoText /\ Private(one) # Spoilt
           /\ Public(one) # NoFile /\ Public(one) # NoText /\ Public(one) # Spoilt
           /\ NoFile # NoText /\ NoFile # Spoilt /\ NoText # Spoilt
  <1>1. /\ Private(one) # Public(other)
        /\ Private(one) = Private(other) => one = other
        /\ Public(one) = Public(other) => one = other
    BY DEF Private, Public
  <1>2. /\ NoFile # NoText /\ NoFile # Spoilt /\ NoText # Spoilt
        /\ {NoFile, NoText, Spoilt} \cap {Private(one), Public(one)} = {}
    BY ContentsAssumption DEF ContentsAssumption
  <1> QED
    BY <1>1, <1>2

KeyPlaces == {"idle", "open private", "write private", "open public", "write public"}

Contents == {NoFile, NoText, Spoilt} \cup {Private(pair) : pair \in KeyPairs}
                                     \cup {Public(pair) : pair \in KeyPairs}

KeyTypeOK ==
    /\ files \in [Paths -> Contents]
    /\ at \in [Generators -> KeyPlaces]
    /\ generated \in [Generators -> 0..MaxKeys]
    /\ \A p \in Generators : at[p] # "idle" => generated[p] > 0
    /\ deaths \in 0..MaxDeaths

\* The pair of a call that has begun.
LEMMA OwnPair ==
    ASSUME KeyTypeOK, NEW p \in Generators, at[p] # "idle"
    PROVE  key_pair(p) \in KeyPairs
  <1>1. generated[p] \in 1..MaxKeys
    BY PathsAssumption DEF PathsAssumption, KeyTypeOK
  <1> QED
    BY <1>1 DEF KeyPairs, key_pair

\* The initial files are missing and every step writes contents and places of
\* the right kind.
LEMMA TypingStep == KeyTypeOK /\ [KeyNext]_keyVars => KeyTypeOK'
  <1> SUFFICES ASSUME KeyTypeOK, [KeyNext]_keyVars
               PROVE  KeyTypeOK'
    OBVIOUS
  <1> USE PathsAssumption DEF PathsAssumption, KeyTypeOK, KeyPlaces, Goes
  <1>1. ASSUME NEW p \in Generators, key_generate(p)
        PROVE  KeyTypeOK'
    <2>1. generated[p] + 1 \in 0..MaxKeys /\ generated[p] + 1 > 0
      <3>1. generated[p] \in 0..MaxKeys /\ generated[p] < MaxKeys
        BY <1>1 DEF key_generate
      <3> QED
        BY <3>1, Increased
    <2>2. generated' \in [Generators -> 0..MaxKeys] /\ UNCHANGED <<files, deaths>>
      BY <1>1, <2>1 DEF key_generate
    <2>3. at' \in [Generators -> KeyPlaces]
      BY <1>1 DEF key_generate
    <2>4. ASSUME NEW q \in Generators, at'[q] # "idle"
          PROVE  generated'[q] > 0
      <3>1. CASE q = p
        BY <1>1, <2>1, <3>1 DEF key_generate
      <3>2. CASE q # p
        BY <1>1, <2>4, <3>2 DEF key_generate
      <3> QED
        BY <3>1, <3>2
    <2> QED
      BY <2>2, <2>3, <2>4
  <1>2. ASSUME NEW p \in Generators, OpenPrivate(p)
        PROVE  KeyTypeOK'
    <2>1. NoText \in Contents
      BY DEF Contents
    <2>2. files' \in [Paths -> Contents]
      BY <1>2, <2>1 DEF OpenPrivate
    <2>3. /\ at' \in [Generators -> KeyPlaces]
          /\ \A q \in Generators : at'[q] # "idle" => at[q] # "idle"
          /\ UNCHANGED <<generated, deaths>>
      BY <1>2 DEF OpenPrivate
    <2> QED
      BY <2>2, <2>3
  <1>3. ASSUME NEW p \in Generators, write_private_pem(p)
        PROVE  KeyTypeOK'
    <2>1. Private(key_pair(p)) \in Contents
      BY <1>3, OwnPair DEF write_private_pem, Contents
    <2> QED
      BY <1>3, <2>1 DEF write_private_pem
  <1>4. ASSUME NEW p \in Generators, OpenPublic(p)
        PROVE  KeyTypeOK'
    <2>1. NoText \in Contents
      BY DEF Contents
    <2> QED
      BY <1>4, <2>1 DEF OpenPublic
  <1>5. ASSUME NEW p \in Generators, write_public_pem(p)
        PROVE  KeyTypeOK'
    <2>1. Public(key_pair(p)) \in Contents /\ Spoilt \in Contents
      BY <1>5, OwnPair DEF write_public_pem, Contents
    <2>2. PICK x \in Contents : files' = [files EXCEPT ![PublicPath[p]] = x]
      BY <1>5, <2>1 DEF write_public_pem
    <2>3. files' \in [Paths -> Contents]
      BY <2>2
    <2>4. /\ at' \in [Generators -> KeyPlaces]
          /\ \A q \in Generators : at'[q] # "idle" => at[q] # "idle"
          /\ UNCHANGED <<generated, deaths>>
      BY <1>5 DEF write_public_pem
    <2> QED
      BY <2>3, <2>4
  <1>6. ASSUME NEW p \in Generators, Dies(p)
        PROVE  KeyTypeOK'
    <2>1. deaths' \in 0..MaxDeaths
      BY <1>6, Increased DEF Dies
    <2> QED
      BY <1>6, <2>1 DEF Dies
  <1>7. CASE UNCHANGED keyVars
    BY <1>7 DEF keyVars
  <1> QED
    BY <1>1, <1>2, <1>3, <1>4, <1>5, <1>6, <1>7 DEF KeyNext

LEMMA TypingInit == KeyInit => KeyTypeOK
  BY PathsAssumption DEF PathsAssumption, KeyInit, KeyTypeOK, KeyPlaces, Contents

-----------------------------------------------------------------------------
(* What each step does, path by path and process by process *)

Moves(p, place) ==
    at'[p] = place /\ \A q \in Generators : q # p => at'[q] = at[q]

Puts(f, x) ==
    files'[f] = x /\ \A g \in Paths : g # f => files'[g] = files[g]

GenerateMove(p) ==
    /\ at[p] = "idle" /\ generated'[p] > 0
    /\ \A q \in Generators : q # p => generated'[q] = generated[q]
    /\ \/ Refuses(p) /\ at' = at
       \/ ~Refuses(p) /\ Moves(p, "open private")
    /\ UNCHANGED <<files, deaths>>

\* The private file is created,
CreateMove(p) ==
    /\ at[p] = "open private" /\ Moves(p, "write private")
    /\ files[PrivatePath[p]] = NoFile /\ Puts(PrivatePath[p], NoText)
    /\ UNCHANGED <<generated, deaths>>

\* opened again by a command that forces, or the command ends.
ReopenMove(p) ==
    /\ at[p] = "open private" /\ files[PrivatePath[p]] # NoFile
    /\ \/ p \in Forcing /\ Moves(p, "write private")
       \/ p \notin Forcing /\ Moves(p, "idle")
    /\ UNCHANGED <<files, generated, deaths>>

PrivateMove(p) ==
    /\ at[p] = "write private" /\ Moves(p, "open public")
    /\ Puts(PrivatePath[p], Private(key_pair(p)))
    /\ UNCHANGED <<generated, deaths>>

TruncateMove(p) ==
    /\ at[p] = "open public" /\ Moves(p, "write public")
    /\ Puts(PublicPath[p], NoText)
    /\ UNCHANGED <<generated, deaths>>

PublicMove(p) ==
    /\ at[p] = "write public" /\ Moves(p, "idle")
    /\ Puts(PublicPath[p], IF Longer(PublicPath[p]) THEN Spoilt ELSE Public(key_pair(p)))
    /\ UNCHANGED <<generated, deaths>>

DeathMove(p) ==
    /\ Moves(p, "idle")
    /\ deaths' # 0
    /\ UNCHANGED <<files, generated>>

\* Every step is one of these.
LEMMA KeyMoves ==
    ASSUME KeyTypeOK, [KeyNext]_keyVars
    PROVE  \/ UNCHANGED keyVars
           \/ \E p \in Generators :
                 \/ GenerateMove(p) \/ CreateMove(p) \/ ReopenMove(p) \/ PrivateMove(p)
                 \/ TruncateMove(p) \/ PublicMove(p) \/ DeathMove(p)
  <1> USE PathsAssumption DEF PathsAssumption
  <1>1. ASSUME NEW p \in Generators, NEW place, Goes(p, place)
        PROVE  Moves(p, place)
    BY <1>1 DEF Goes, Moves, KeyTypeOK
  <1>2. ASSUME NEW f \in Paths, NEW x, files' = [files EXCEPT ![f] = x]
        PROVE  Puts(f, x)
    BY <1>2 DEF Puts, KeyTypeOK
  <1>3. ASSUME NEW p \in Generators, key_generate(p)
        PROVE  GenerateMove(p)
    <2>1. generated'[p] > 0
      <3>1. generated'[p] = generated[p] + 1 /\ generated[p] \in 0..MaxKeys
        BY <1>3 DEF key_generate, KeyTypeOK
      <3>2. \A m \in Nat : \A n \in 0..m : n + 1 > 0
        OBVIOUS
      <3> QED
        BY <3>1, <3>2
    <2>2. \A q \in Generators : q # p => generated'[q] = generated[q]
      BY <1>3 DEF key_generate, KeyTypeOK
    <2>3. Goes(p, "open private") => Moves(p, "open private")
      BY <1>1
    <2> QED
      BY <1>3, <2>1, <2>2, <2>3, Zenon DEF key_generate, GenerateMove
  <1>4. ASSUME NEW p \in Generators, OpenPrivate(p)
        PROVE  CreateMove(p) \/ ReopenMove(p)
    BY <1>1, <1>2, <1>4 DEF OpenPrivate, CreateMove, ReopenMove, exists, Exclusive
  <1>5. ASSUME NEW p \in Generators, write_private_pem(p)
        PROVE  PrivateMove(p)
    BY <1>1, <1>2, <1>5 DEF write_private_pem, PrivateMove
  <1>6. ASSUME NEW p \in Generators, OpenPublic(p)
        PROVE  TruncateMove(p)
    BY <1>1, <1>2, <1>6 DEF OpenPublic, TruncateMove
  <1>7. ASSUME NEW p \in Generators, write_public_pem(p)
        PROVE  PublicMove(p)
    <2>1. PICK x : x = IF Longer(PublicPath[p]) THEN Spoilt ELSE Public(key_pair(p))
      OBVIOUS
    <2>2. files' = [files EXCEPT ![PublicPath[p]] = x]
      BY <1>7, <2>1 DEF write_public_pem
    <2>3. Puts(PublicPath[p], x)
      BY <1>2, <2>2
    <2> QED
      BY <1>1, <1>7, <2>1, <2>3 DEF write_public_pem, PublicMove
  <1>8. ASSUME NEW p \in Generators, Dies(p)
        PROVE  DeathMove(p)
    <2>1. deaths' = deaths + 1 /\ deaths \in Nat
      BY <1>8 DEF Dies, KeyTypeOK
    <2> QED
      BY <1>1, <1>8, <2>1 DEF Dies, DeathMove
  <1> QED
    BY <1>3, <1>4, <1>5, <1>6, <1>7, <1>8 DEF KeyNext

-----------------------------------------------------------------------------
(* Who has written what *)

\* Who has opened a kept private path has created its file, and is alone in
\* that: the file is still empty.
Opened(p) ==
    at[p] = "write private" /\ Kept(PrivatePath[p]) =>
        /\ files[PrivatePath[p]] = NoText
        /\ \A q \in Generators : PrivatePath[q] = PrivatePath[p] /\ at[q] = "write private" => q = p

\* Who has gone on to the public key has written the private key that is there.
Written(p) ==
    (at[p] = "open public" \/ at[p] = "write public") /\ Kept(PrivatePath[p]) =>
        files[PrivatePath[p]] = Private(key_pair(p))

KeyInv == KeyTypeOK /\ PairsMatch /\ \A p \in Generators : Opened(p) /\ Written(p)

\* A kept private file is created by one command, which alone writes it before
\* it goes on to the public file; a public file is written last.
LEMMA KeyInvStep == KeyInv /\ [KeyNext]_keyVars => KeyInv'
  <1> SUFFICES ASSUME KeyInv, [KeyNext]_keyVars
               PROVE  KeyInv'
    OBVIOUS
  <1>0. KeyTypeOK /\ KeyTypeOK' /\ PairsMatch /\ \A p \in Generators : Opened(p) /\ Written(p)
    BY TypingStep DEF KeyInv
  <1>p. \A q \in Generators : PrivatePath[q] \in Paths /\ PublicPath[q] \in Paths
    BY PathsAssumption DEF PathsAssumption
  <1>1. ASSUME NEW p \in Generators, GenerateMove(p)
        PROVE  KeyInv'
    <2>1. ASSUME NEW q \in Generators
          PROVE  /\ at'[q] = at[q] \/ (at[q] = "idle" /\ at'[q] = "open private")
                 /\ at[q] # "idle" => generated'[q] = generated[q]
      BY <1>1 DEF GenerateMove, Moves
    <2>2. files' = files
      BY <1>1 DEF GenerateMove
    <2>3. ASSUME NEW q \in Generators
          PROVE  Opened(q)'
      BY <1>0, <2>1, <2>2 DEF Opened
    <2>4. ASSUME NEW q \in Generators
          PROVE  Written(q)'
      BY <1>0, <2>1, <2>2 DEF Written, key_pair
    <2>5. PairsMatch'
      BY <1>0, <2>2 DEF PairsMatch
    <2> QED
      BY <1>0, <2>3, <2>4, <2>5 DEF KeyInv
  <1>2. ASSUME NEW p \in Generators, CreateMove(p)
        PROVE  KeyInv'
    <2>1. /\ files[PrivatePath[p]] = NoFile /\ files'[PrivatePath[p]] = NoText
          /\ \A g \in Paths : g # PrivatePath[p] => files'[g] = files[g]
          /\ at'[p] = "write private" /\ \A q \in Generators : q # p => at'[q] = at[q]
          /\ generated' = generated
      BY <1>2 DEF CreateMove, Puts, Moves
    <2>2. NoFile # NoText /\ \A pair \in KeyPairs : /\ Private(pair) # NoFile
                                                    /\ Private(pair) # NoText
                                                    /\ Public(pair) # NoText
      BY ContentsAssumption, Halves DEF ContentsAssumption
    <2>3. ASSUME NEW q \in Generators, PrivatePath[q] = PrivatePath[p], Kept(PrivatePath[p])
          PROVE  at[q] # "write private" /\ at[q] # "open public" /\ at[q] # "write public"
      <3>1. at[q] # "idle" => key_pair(q) \in KeyPairs
        BY <1>0, OwnPair
      <3> QED
        BY <1>0, <2>1, <2>2, <2>3, <3>1 DEF Opened, Written
    <2>4. ASSUME NEW q \in Generators
          PROVE  Opened(q)'
      <3>1. CASE PrivatePath[q] = PrivatePath[p]
        BY <2>1, <2>3, <3>1 DEF Opened
      <3>2. CASE PrivatePath[q] # PrivatePath[p]
        <4>1. q # p /\ files'[PrivatePath[q]] = files[PrivatePath[q]]
          BY <1>p, <2>1, <3>2
        <4>2. \A r \in Generators : PrivatePath[r] = PrivatePath[q] => at'[r] = at[r]
          BY <2>1, <3>2
        <4> QED
          BY <1>0, <4>1, <4>2 DEF Opened
      <3> QED
        BY <3>1, <3>2
    <2>5. ASSUME NEW q \in Generators
          PROVE  Written(q)'
      <3>1. CASE PrivatePath[q] = PrivatePath[p]
        BY <2>1, <2>3, <3>1 DEF Written
      <3>2. CASE PrivatePath[q] # PrivatePath[p]
        <4>1. q # p /\ files'[PrivatePath[q]] = files[PrivatePath[q]]
          BY <1>p, <2>1, <3>2
        <4> QED
          BY <1>0, <2>1, <4>1 DEF Written, key_pair
      <3> QED
        BY <3>1, <3>2
    <2>6. PairsMatch'
      <3> SUFFICES ASSUME NEW q \in Generators, NEW pair \in KeyPairs, Paired(q),
                          files'[PublicPath[q]] = Public(pair)
                   PROVE  files'[PrivatePath[q]] = Private(pair)
        BY DEF PairsMatch, Paired, Kept
      <3>1. PublicPath[q] # PrivatePath[p]
        BY DEF Paired
      <3>2. files[PublicPath[q]] = Public(pair)
        BY <1>p, <2>1, <3>1
      <3>3. files[PrivatePath[q]] = Private(pair)
        BY <1>0, <3>2 DEF PairsMatch
      <3> QED
        BY <1>p, <2>1, <2>2, <3>3
    <2> QED
      BY <1>0, <2>4, <2>5, <2>6 DEF KeyInv
  <1>3. ASSUME NEW p \in Generators, ReopenMove(p)
        PROVE  KeyInv'
    <2>1. UNCHANGED <<files, generated>>
      BY <1>3 DEF ReopenMove
    <2>2. ASSUME NEW q \in Generators
          PROVE  at'[q] = at[q] \/ at'[q] = "idle" \/ (q \in Forcing /\ at'[q] = "write private")
      BY <1>3 DEF ReopenMove, Moves
    <2>3. ASSUME NEW q \in Generators
          PROVE  Opened(q)'
      <3> SUFFICES ASSUME at'[q] = "write private", Kept(PrivatePath[q])
                   PROVE  /\ files'[PrivatePath[q]] = NoText
                          /\ \A r \in Generators : PrivatePath[r] = PrivatePath[q]
                                                   /\ at'[r] = "write private" => r = q
        BY DEF Opened, Kept
      <3>1. \A r \in Generators : PrivatePath[r] = PrivatePath[q] /\ at'[r] = "write private"
                                  => at[r] = "write private"
        BY <2>2 DEF Kept
      <3> QED
        BY <1>0, <2>1, <3>1 DEF Opened
    <2>4. ASSUME NEW q \in Generators
          PROVE  Written(q)'
      BY <1>0, <2>1, <2>2 DEF Written, key_pair
    <2>5. PairsMatch'
      BY <1>0, <2>1 DEF PairsMatch
    <2> QED
      BY <1>0, <2>3, <2>4, <2>5 DEF KeyInv
  <1>4. ASSUME NEW p \in Generators, PrivateMove(p)
        PROVE  KeyInv'
    <2>1. /\ at[p] = "write private" /\ at'[p] = "open public"
          /\ \A q \in Generators : q # p => at'[q] = at[q]
          /\ files'[PrivatePath[p]] = Private(key_pair(p))
          /\ \A g \in Paths : g # PrivatePath[p] => files'[g] = files[g]
          /\ generated' = generated
      BY <1>4 DEF PrivateMove, Puts, Moves
    <2>2. \A pair \in KeyPairs : Private(pair) # NoText
      BY Halves
    <2>3. ASSUME NEW q \in Generators, q # p, PrivatePath[q] = PrivatePath[p], Kept(PrivatePath[p])
          PROVE  at[q] # "write private" /\ at[q] # "open public" /\ at[q] # "write public"
      <3>1. at[q] # "idle" => key_pair(q) \in KeyPairs
        BY <1>0, OwnPair
      <3>2. PICK f : f = files[PrivatePath[p]]
        OBVIOUS
      <3>3. f = NoText /\ (at[q] = "write private" => q = p)
        BY <1>0, <2>1, <2>3, <3>2 DEF Opened
      <3>4. at[q] = "open public" \/ at[q] = "write public" => f = Private(key_pair(q))
        BY <1>0, <2>3, <3>2 DEF Written
      <3>5. at[q] = "open public" \/ at[q] = "write public" => Private(key_pair(q)) # NoText
        BY <2>2, <3>1
      <3> QED
        BY <2>3, <3>3, <3>4, <3>5, Zenon
    <2>4. ASSUME NEW q \in Generators
          PROVE  Opened(q)'
      <3>1. CASE PrivatePath[q] = PrivatePath[p]
        BY <2>1, <2>3, <3>1 DEF Opened
      <3>2. CASE PrivatePath[q] # PrivatePath[p]
        <4>1. q # p /\ files'[PrivatePath[q]] = files[PrivatePath[q]]
          BY <1>p, <2>1, <3>2
        <4>2. \A r \in Generators : PrivatePath[r] = PrivatePath[q] => at'[r] = at[r]
          BY <2>1, <3>2
        <4> QED
          BY <1>0, <4>1, <4>2 DEF Opened
      <3> QED
        BY <3>1, <3>2
    <2>5. ASSUME NEW q \in Generators
          PROVE  Written(q)'
      <3>1. CASE q = p
        BY <2>1, <3>1 DEF Written, key_pair
      <3>2. CASE q # p /\ PrivatePath[q] = PrivatePath[p]
        BY <2>1, <2>3, <3>2 DEF Written
      <3>3. CASE PrivatePath[q] # PrivatePath[p]
        <4>1. q # p /\ files'[PrivatePath[q]] = files[PrivatePath[q]]
          BY <1>p, <2>1, <3>3
        <4> QED
          BY <1>0, <2>1, <4>1 DEF Written, key_pair
      <3> QED
        BY <3>1, <3>2, <3>3
    <2>6. PairsMatch'
      <3> SUFFICES ASSUME NEW q \in Generators, NEW pair \in KeyPairs, Paired(q),
                          files'[PublicPath[q]] = Public(pair)
                   PROVE  files'[PrivatePath[q]] = Private(pair)
        BY DEF PairsMatch, Paired, Kept
      <3>1. PublicPath[q] # PrivatePath[p] /\ Kept(PrivatePath[q])
        BY DEF Paired
      <3>2. files[PublicPath[q]] = Public(pair)
        BY <1>p, <2>1, <3>1
      <3>3. files[PrivatePath[q]] = Private(pair)
        BY <1>0, <3>2 DEF PairsMatch
      <3>4. PrivatePath[q] # PrivatePath[p]
        BY <1>0, <2>1, <2>2, <3>1, <3>3 DEF Opened
      <3> QED
        BY <1>p, <2>1, <3>3, <3>4
    <2> QED
      BY <1>0, <2>4, <2>5, <2>6 DEF KeyInv
  <1>5. ASSUME NEW p \in Generators, TruncateMove(p) \/ PublicMove(p)
        PROVE  KeyInv'
    <2>1. /\ \/ at[p] = "open public" /\ at'[p] = "write public"
             \/ at[p] = "write public" /\ at'[p] = "idle"
          /\ \A q \in Generators : q # p => at'[q] = at[q]
          /\ \/ files'[PublicPath[p]] = NoText \/ files'[PublicPath[p]] = Spoilt
             \/ at[p] = "write public" /\ files'[PublicPath[p]] = Public(key_pair(p))
          /\ \A g \in Paths : g # PublicPath[p] => files'[g] = files[g]
          /\ generated' = generated
      BY <1>5 DEF TruncateMove, PublicMove, Puts, Moves
    <2>2. ASSUME NEW q \in Generators, Kept(PrivatePath[q])
          PROVE  files'[PrivatePath[q]] = files[PrivatePath[q]]
      BY <1>p, <2>1, <2>2 DEF Kept
    <2>3. ASSUME NEW q \in Generators
          PROVE  Opened(q)'
      <3> SUFFICES ASSUME at'[q] = "write private", Kept(PrivatePath[q])
                   PROVE  /\ files'[PrivatePath[q]] = NoText
                          /\ \A r \in Generators : PrivatePath[r] = PrivatePath[q]
                                                   /\ at'[r] = "write private" => r = q
        BY DEF Opened, Kept
      <3>1. \A r \in Generators : at'[r] = "write private" => at[r] = "write private"
        BY <2>1
      <3> QED
        BY <1>0, <2>2, <3>1 DEF Opened
    <2>4. ASSUME NEW q \in Generators
          PROVE  Written(q)'
      <3> SUFFICES ASSUME at'[q] = "open public" \/ at'[q] = "write public", Kept(PrivatePath[q])
                   PROVE  files'[PrivatePath[q]] = Private(key_pair(q))
        BY <2>1 DEF Written, Kept, key_pair
      <3>1. at[q] = "open public" \/ at[q] = "write public"
        BY <2>1
      <3> QED
        BY <1>0, <2>2, <3>1 DEF Written
    <2>5. PairsMatch'
      <3> SUFFICES ASSUME NEW q \in Generators, NEW pair \in KeyPairs, Paired(q),
                          files'[PublicPath[q]] = Public(pair)
                   PROVE  files'[PrivatePath[q]] = Private(pair)
        BY DEF PairsMatch, Paired, Kept
      <3>1. files'[PrivatePath[q]] = files[PrivatePath[q]]
        BY <2>2 DEF Paired
      <3>2. CASE PublicPath[q] # PublicPath[p]
        <4>1. files[PublicPath[q]] = Public(pair)
          BY <1>p, <2>1, <3>2
        <4> QED
          BY <1>0, <3>1, <4>1 DEF PairsMatch
      <3>3. CASE PublicPath[q] = PublicPath[p]
        <4>1. Public(pair) # NoText /\ Public(pair) # Spoilt
          BY Halves
        <4>2. at[p] = "write public" /\ Public(pair) = Public(key_pair(p))
          BY <2>1, <3>3, <4>1
        <4>3. key_pair(p) \in KeyPairs
          BY <1>0, <4>2, OwnPair
        <4>4. pair = key_pair(p)
          BY <4>2, <4>3, Halves
        <4>5. PrivatePath[q] = PrivatePath[p] /\ Kept(PrivatePath[p])
          BY <3>3 DEF Paired
        <4> QED
          BY <1>0, <3>1, <4>2, <4>4, <4>5 DEF Written
      <3> QED
        BY <3>2, <3>3
    <2> QED
      BY <1>0, <2>3, <2>4, <2>5 DEF KeyInv
  <1>6. ASSUME NEW p \in Generators, DeathMove(p)
        PROVE  KeyInv'
    <2>1. UNCHANGED <<files, generated>>
      BY <1>6 DEF DeathMove
    <2>2. \A q \in Generators : at'[q] = at[q] \/ at'[q] = "idle"
      BY <1>6 DEF DeathMove, Moves
    <2> QED
      BY <1>0, <2>1, <2>2 DEF Opened, Written, key_pair, PairsMatch, KeyInv
  <1>7. CASE UNCHANGED keyVars
    BY <1>0, <1>7 DEF keyVars, Opened, Written, key_pair, PairsMatch, KeyInv
  <1> QED
    BY <1>0, <1>1, <1>2, <1>3, <1>4, <1>5, <1>6, <1>7, KeyMoves

LEMMA KeyInvInit == KeyInit => KeyInv
  <1> SUFFICES ASSUME KeyInit
               PROVE  KeyInv
    OBVIOUS
  <1>1. \A p \in Generators : Opened(p) /\ Written(p)
    BY DEF KeyInit, Opened, Written
  <1>2. PairsMatch
    <2>1. \A p \in Generators : files[PublicPath[p]] = NoFile
      BY PathsAssumption DEF KeyInit, PathsAssumption
    <2>2. \A pair \in KeyPairs : Public(pair) # NoFile
      BY Halves
    <2> QED
      BY <2>1, <2>2 DEF PairsMatch
  <1> QED
    BY <1>1, <1>2, TypingInit DEF KeyInv

LEMMA KeyInvAlways == KeySpec => []KeyInv
  BY KeyInvInit, KeyInvStep, PTL DEF KeySpec

\* Of concurrent commands that share both paths, none of which forces and whose
\* paths no other command uses, the public key left is that of the private key
\* left.
THEOREM Pairing == KeySpec => []PairsMatch
  <1>1. KeyInv => PairsMatch
    BY DEF KeyInv
  <1> QED
    BY <1>1, KeyInvAlways, PTL

\* No command replaces a private key but one with --force that names its path,
\* or one that names that path for its public key.
THEOREM KeyKeeping == KeySpec => PrivateKeysKept
  <1> DEFINE KeepsKeys ==
        \A f \in Paths, pair \in KeyPairs :
            Kept(f) /\ files[f] = Private(pair) => files'[f] = files[f]
  <1>1. KeyInv /\ [KeyNext]_keyVars => [KeepsKeys]_files
    <2> SUFFICES ASSUME KeyInv, [KeyNext]_keyVars, NEW f \in Paths, NEW pair \in KeyPairs,
                        Kept(f), files[f] = Private(pair)
                 PROVE  files'[f] = files[f]
      OBVIOUS
    <2>1. KeyTypeOK /\ \A p \in Generators : Opened(p)
      BY DEF KeyInv
    <2>2. Private(pair) # NoFile /\ Private(pair) # NoText
      BY Halves
    <2>3. ASSUME NEW p \in Generators, CreateMove(p)
          PROVE  files'[f] = files[f]
      BY <2>2, <2>3 DEF CreateMove, Puts
    <2>4. ASSUME NEW p \in Generators, PrivateMove(p)
          PROVE  files'[f] = files[f]
      BY <2>1, <2>2, <2>4 DEF PrivateMove, Puts, Opened
    <2>5. ASSUME NEW p \in Generators, TruncateMove(p) \/ PublicMove(p)
          PROVE  files'[f] = files[f]
      BY <2>5 DEF TruncateMove, PublicMove, Puts, Kept
    <2>6. ASSUME NEW p \in Generators, GenerateMove(p) \/ ReopenMove(p) \/ DeathMove(p)
          PROVE  files' = files
      BY <2>6 DEF GenerateMove, ReopenMove, DeathMove
    <2>7. UNCHANGED keyVars => files' = files
      BY DEF keyVars
    <2> QED
      BY <2>1, <2>3, <2>4, <2>5, <2>6, <2>7, KeyMoves
  <1> QED
    BY <1>1, KeyInvAlways, PTL DEF KeySpec, PrivateKeysKept
-----------------------------------------------------------------------------
(* Somebody wins *)

\* A path that is nobody's private path never holds a private key.
PublicOnly ==
    \A f \in Paths : (\A q \in Generators : PrivatePath[q] # f) =>
        files[f] = NoFile \/ files[f] = NoText \/ \E pair \in KeyPairs : files[f] = Public(pair)

LEMMA PublicOnlyStep ==
    ASSUME KeyTypeOK, [KeyNext]_keyVars, PublicOnly
    PROVE  PublicOnly'
  <1> SUFFICES ASSUME NEW f \in Paths, \A q \in Generators : PrivatePath[q] # f
               PROVE  \/ files'[f] = NoFile \/ files'[f] = NoText
                      \/ \E pair \in KeyPairs : files'[f] = Public(pair)
    BY DEF PublicOnly
  <1>0. files[f] = NoFile \/ files[f] = NoText \/ \E pair \in KeyPairs : files[f] = Public(pair)
    BY DEF PublicOnly
  <1>1. ASSUME NEW p \in Generators, CreateMove(p) \/ PrivateMove(p)
        PROVE  files'[f] = files[f]
    BY <1>1 DEF CreateMove, PrivateMove, Puts
  <1>2. ASSUME NEW p \in Generators, GenerateMove(p) \/ ReopenMove(p) \/ DeathMove(p)
        PROVE  files'[f] = files[f]
    BY <1>2 DEF GenerateMove, ReopenMove, DeathMove
  <1>3. ASSUME NEW p \in Generators, TruncateMove(p)
        PROVE  files'[f] = files[f] \/ files'[f] = NoText
    BY <1>3 DEF TruncateMove, Puts
  <1>4. ASSUME NEW p \in Generators, PublicMove(p)
        PROVE  files'[f] = files[f] \/ \E pair \in KeyPairs : files'[f] = Public(pair)
    <2>1. CASE f # PublicPath[p]
      BY <1>4, <2>1 DEF PublicMove, Puts
    <2>2. CASE f = PublicPath[p]
      <3>1. ~Longer(f)
        <4>1. \A pair \in KeyPairs : Private(pair) # files[f]
          BY <1>0, Halves
        <4>2. Spoilt # files[f]
          <5>1. NoFile # Spoilt /\ NoText # Spoilt
            BY ContentsAssumption DEF ContentsAssumption
          <5> QED
            BY <1>0, <5>1, Halves
        <4> QED
          BY <4>1, <4>2 DEF Longer
      <3>2. files'[f] = Public(key_pair(p))
        BY <1>4, <2>2, <3>1 DEF PublicMove, Puts
      <3>3. key_pair(p) \in KeyPairs
        BY <1>4, OwnPair DEF PublicMove
      <3> QED
        BY <3>2, <3>3
    <2> QED
      BY <2>1, <2>2
  <1>5. CASE UNCHANGED keyVars
    BY <1>0, <1>5 DEF keyVars
  <1> QED
    BY <1>0, <1>1, <1>2, <1>3, <1>4, <1>5, KeyMoves

\* Commands that share either path share both, and none forces.
Rivals(p) ==
    /\ Paired(p)
    /\ \A q \in Generators : PrivatePath[q] = PrivatePath[p] => PublicPath[q] = PublicPath[p]

\* Before, while and after one of the rivals of p writes the two files.
Before(p) ==
    /\ files[PrivatePath[p]] = NoFile /\ files[PublicPath[p]] = NoFile
    /\ \A q \in Generators : PrivatePath[q] = PrivatePath[p] =>
          at[q] = "open private" \/ (at[q] = "idle" /\ generated[q] = 0)

Writing(q) == at[q] = "write private" \/ at[q] = "open public" \/ at[q] = "write public"

During(p) ==
    /\ files[PrivatePath[p]] # NoFile
    /\ \E q \in Generators : PrivatePath[q] = PrivatePath[p] /\ Writing(q)

After(p) ==
    /\ \E pair \in KeyPairs : /\ files[PrivatePath[p]] = Private(pair)
                              /\ files[PublicPath[p]] = Public(pair)
    /\ \A q \in Generators : PrivatePath[q] = PrivatePath[p] =>
          at[q] = "idle" \/ at[q] = "open private"

WinInv == \A p \in Generators : deaths = 0 /\ Rivals(p) => Before(p) \/ During(p) \/ After(p)

\* Only rivals touch the paths of rivals, and they take turns.
LEMMA WinStep ==
    ASSUME KeyInv, PublicOnly, WinInv, [KeyNext]_keyVars
    PROVE  WinInv'
  <1> SUFFICES ASSUME NEW p \in Generators, deaths' = 0, Rivals(p)
               PROVE  Before(p)' \/ During(p)' \/ After(p)'
    BY DEF WinInv, Rivals, Paired, Kept
  <1> DEFINE f == PrivatePath[p]
             g == PublicPath[p]
  <1>1. /\ KeyTypeOK
        /\ \A q \in Generators : Opened(q) /\ Written(q)
        /\ f \in Paths /\ g \in Paths /\ f # g
        /\ Kept(f) /\ \A q \in Generators : PrivatePath[q] # g
    BY PathsAssumption DEF KeyInv, PathsAssumption, Rivals, Paired
  <1>2. ASSUME NEW m \in Generators, PrivatePath[m] = f
        PROVE  m \notin Forcing /\ PublicPath[m] = g
    BY <1>1, <1>2 DEF Kept, Rivals
  <1>3. ASSUME NEW m \in Generators, PrivatePath[m] # f
        PROVE  PublicPath[m] # f /\ PublicPath[m] # g /\ PrivatePath[m] # g
    BY <1>1, <1>3 DEF Kept, Rivals, Paired
  <1>4. deaths = 0 => Before(p) \/ During(p) \/ After(p)
    BY DEF WinInv
  <1> HIDE DEF f, g
  <1>5. CASE UNCHANGED keyVars
    BY <1>4, <1>5 DEF keyVars, Before, During, After, Writing
  <1>6. ASSUME NEW m \in Generators, PrivatePath[m] # f,
               \/ GenerateMove(m) \/ CreateMove(m) \/ ReopenMove(m) \/ PrivateMove(m)
               \/ TruncateMove(m) \/ PublicMove(m)
        PROVE  Before(p)' \/ During(p)' \/ After(p)'
    <2>1. deaths = 0 /\ files'[f] = files[f] /\ files'[g] = files[g]
      BY <1>1, <1>3, <1>6 DEF GenerateMove, CreateMove, ReopenMove, PrivateMove,
                              TruncateMove, PublicMove, Puts
    <2>2. ASSUME NEW q \in Generators, PrivatePath[q] = f
          PROVE  at'[q] = at[q] /\ generated'[q] = generated[q]
      <3>1. q # m
        BY <1>6, <2>2
      <3> QED
        BY <1>6, <3>1 DEF GenerateMove, CreateMove, ReopenMove, PrivateMove,
                          TruncateMove, PublicMove, Moves
    <2> QED
      BY <1>4, <2>1, <2>2 DEF Before, During, After, Writing, f, g
  <1>7. ASSUME NEW m \in Generators, PrivatePath[m] = f, GenerateMove(m)
        PROVE  Before(p)' \/ During(p)' \/ After(p)'
    <2>1. /\ deaths = 0 /\ files' = files /\ at[m] = "idle"
          /\ \A q \in Generators : q # m => at'[q] = at[q] /\ generated'[q] = generated[q]
          /\ at'[m] = "idle" \/ at'[m] = "open private"
      BY <1>7 DEF GenerateMove, Moves
    <2>2. CASE Before(p)
      <3>1. ~Refuses(m)
        BY <1>2, <1>7, <2>2 DEF Before, Refuses, exists, f, g
      <3>2. at'[m] = "open private"
        BY <1>7, <3>1 DEF GenerateMove, Moves
      <3> QED
        BY <2>1, <2>2, <3>2 DEF Before
    <2>3. CASE During(p)
      <3>1. PICK q \in Generators : PrivatePath[q] = PrivatePath[p] /\ Writing(q)
        BY <2>3 DEF During
      <3>2. q # m
        BY <2>1, <3>1 DEF Writing
      <3> QED
        BY <2>1, <2>3, <3>1, <3>2 DEF During, Writing
    <2>4. CASE After(p)
      BY <2>1, <2>4 DEF After
    <2> QED
      BY <1>4, <2>1, <2>2, <2>3, <2>4
  <1>8. ASSUME NEW m \in Generators, PrivatePath[m] = f,
               CreateMove(m) \/ PrivateMove(m) \/ TruncateMove(m)
        PROVE  During(p)'
    <2>1. at[m] # "idle" /\ key_pair(m) \in KeyPairs
      BY <1>1, <1>8, OwnPair DEF CreateMove, PrivateMove, TruncateMove
    <2>2. files'[f] = NoText \/ files'[f] = Private(key_pair(m))
      <3>1. CASE TruncateMove(m)
        <4>1. files'[f] = files[f]
          BY <1>1, <1>2, <1>8, <3>1 DEF TruncateMove, Puts
        <4> QED
          BY <1>1, <1>8, <3>1, <4>1 DEF TruncateMove, Written
      <3>2. CASE CreateMove(m) \/ PrivateMove(m)
        BY <1>8, <3>2 DEF CreateMove, PrivateMove, Puts
      <3> QED
        BY <1>8, <3>1, <3>2
    <2>3. files'[f] # NoFile
      BY <2>1, <2>2, Halves
    <2>4. Writing(m)'
      BY <1>8 DEF CreateMove, PrivateMove, TruncateMove, Moves, Writing
    <2> QED
      BY <1>8, <2>3, <2>4 DEF During, f
  <1>9. ASSUME NEW m \in Generators, PrivatePath[m] = f, ReopenMove(m)
        PROVE  Before(p)' \/ During(p)' \/ After(p)'
    <2>1. /\ deaths = 0 /\ files' = files /\ at[m] = "open private" /\ at'[m] = "idle"
          /\ \A q \in Generators : q # m => at'[q] = at[q]
          /\ files[f] # NoFile
      BY <1>2, <1>9 DEF ReopenMove, Moves
    <2>2. CASE During(p)
      <3>1. PICK q \in Generators : PrivatePath[q] = PrivatePath[p] /\ Writing(q)
        BY <2>2 DEF During
      <3>2. q # m
        BY <2>1, <3>1 DEF Writing
      <3> QED
        BY <2>1, <2>2, <3>1, <3>2 DEF During, Writing
    <2>3. CASE After(p)
      BY <2>1, <2>3 DEF After
    <2> QED
      BY <1>4, <2>1, <2>2, <2>3 DEF Before, f
  <1>10. ASSUME NEW m \in Generators, PrivatePath[m] = f, PublicMove(m)
         PROVE  After(p)'
    <2>1. /\ at[m] = "write public" /\ at'[m] = "idle" /\ PublicPath[m] = g
          /\ \A q \in Generators : q # m => at'[q] = at[q]
          /\ files'[f] = files[f]
          /\ files'[g] = IF Longer(g) THEN Spoilt ELSE Public(key_pair(m))
      BY <1>1, <1>2, <1>10 DEF PublicMove, Moves, Puts
    <2>2. key_pair(m) \in KeyPairs
      BY <1>1, <2>1, OwnPair
    <2>3. files[f] = Private(key_pair(m))
      BY <1>1, <1>10, <2>1 DEF Written
    <2>4. ~Longer(g)
      <3>1. files[g] = NoFile \/ files[g] = NoText
            \/ \E pair \in KeyPairs : files[g] = Public(pair)
        BY <1>1 DEF PublicOnly
      <3>2. NoFile # Spoilt /\ NoText # Spoilt
        BY ContentsAssumption DEF ContentsAssumption
      <3> QED
        BY <3>1, <3>2, Halves DEF Longer
    <2>5. ASSUME NEW q \in Generators, PrivatePath[q] = f
          PROVE  at'[q] = "idle" \/ at'[q] = "open private"
      <3>1. CASE q = m
        BY <2>1, <3>1
      <3>2. CASE q # m
        <4>1. at[q] # "write private"
          BY <1>1, <2>2, <2>3, <2>5, Halves DEF Opened
        <4>2. at[q] # "open public" /\ at[q] # "write public"
          <5> SUFFICES ASSUME at[q] = "open public" \/ at[q] = "write public"
                       PROVE  FALSE
            OBVIOUS
          <5>1. key_pair(q) \in KeyPairs /\ Private(key_pair(q)) = Private(key_pair(m))
            BY <1>1, <2>3, <2>5, OwnPair DEF Written
          <5>2. key_pair(q) = key_pair(m)
            BY <2>2, <5>1, Halves
          <5> QED
            BY <3>2, <5>2 DEF key_pair
        <4>3. at[q] \in KeyPlaces
          BY <1>1 DEF KeyTypeOK
        <4> QED
          BY <2>1, <3>2, <4>1, <4>2, <4>3 DEF KeyPlaces
      <3> QED
        BY <3>1, <3>2
    <2>6. files'[f] = Private(key_pair(m)) /\ files'[g] = Public(key_pair(m))
      BY <2>1, <2>3, <2>4
    <2> QED
      BY <2>2, <2>5, <2>6 DEF After, f, g
  <1>11. ASSUME NEW m \in Generators, DeathMove(m)
         PROVE  FALSE
    BY <1>11 DEF DeathMove
  <1> QED
    BY <1>1, <1>5, <1>6, <1>7, <1>8, <1>9, <1>10, <1>11, KeyMoves

LEMMA WinInit == KeyInit => PublicOnly /\ WinInv
  <1> SUFFICES ASSUME KeyInit
               PROVE  PublicOnly /\ WinInv
    OBVIOUS
  <1>1. PublicOnly
    BY DEF KeyInit, PublicOnly
  <1>2. ASSUME NEW p \in Generators
        PROVE  Before(p)
    BY PathsAssumption DEF KeyInit, Before, PathsAssumption
  <1> QED
    BY <1>1, <1>2 DEF WinInv

\* Of commands that share both paths, none of which forces or dies and whose
\* paths no other command uses, one leaves its pair, whatever the order.
THEOREM Winning == KeySpec => []OneWins
  <1>1. KeyInv /\ PublicOnly /\ WinInv /\ [KeyNext]_keyVars => (PublicOnly /\ WinInv)'
    BY PublicOnlyStep, WinStep DEF KeyInv
  <1>2. WinInv => OneWins
    <2> SUFFICES ASSUME WinInv, NEW p \in Generators, deaths = 0, Paired(p), generated[p] > 0,
                        \A q \in Generators : PrivatePath[q] = PrivatePath[p] =>
                            PublicPath[q] = PublicPath[p] /\ at[q] = "idle"
                 PROVE  \E pair \in KeyPairs : /\ files[PrivatePath[p]] = Private(pair)
                                               /\ files[PublicPath[p]] = Public(pair)
      BY DEF OneWins
    <2>1. Rivals(p)
      BY DEF Rivals
    <2>2. ~Before(p)
      <3>1. at[p] = "idle" /\ generated[p] # 0
        OBVIOUS
      <3> QED
        BY <3>1 DEF Before
    <2>3. ~During(p)
      BY DEF During, Writing
    <2> QED
      BY <2>1, <2>2, <2>3 DEF WinInv, After
  <1> QED
    BY <1>1, <1>2, WinInit, KeyInvInit, KeyInvStep, PTL DEF KeySpec
=============================================================================
