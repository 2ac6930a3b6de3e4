----------------------------- MODULE Checkpoint -----------------------------
(***************************************************************************)
(* Checkpoints of a log (checkpoint.py), their Ed25519 signatures          *)
(* (signatures.py) and the policy that judges them (checkpoint_policy.py): *)
(* processes that run the CLI's `checkpoint create` and `sign` on one      *)
(* checkpoint file, while the log is appended to, cut, rewritten and       *)
(* rotated by others.  `checkpoint verify`, `signature verify` and the     *)
(* policy change nothing; they are operators on a document and a log.      *)
(*                                                                         *)
(* Both commands end with write_text, which truncates the file and then    *)
(* writes at its start, in two steps that others can come between.         *)
(***************************************************************************)
EXTENDS AuditChain, FiniteSets

CONSTANTS
    Procs,        \* processes running the commands
    Keys,         \* private keys, each standing for its public key too
    KeyIds,       \* the key ids a signer may give
    PublicKeys,   \* the policy's public_keys: KeyIds -> Keys or None
    AllowedIds,   \* allowed_key_ids, {} for any
    AllowedKeys,  \* allowed_fingerprints, {} for any
    Minimum,      \* minimum_signatures
    Required,     \* require_signature
    Streams,      \* the streams events are appended to
    Missing,      \* contents of the checkpoint file: there is none, ...
    Empty,        \* ... it is truncated and not written yet, ...
    Garbage,      \* ... or overlapping writes have spoilt it
    FirstLogs,    \* the log at the start is one of these
    Edits,        \* what others may do to the files
    MaxCalls,     \* bound: commands per process
    MaxEdits,     \* bound: edits in a behaviour
    MaxCrashes    \* bound: commands cut short

ASSUME ConstantsAssumption ==
    /\ None \notin Keys
    /\ PublicKeys \in [KeyIds -> Keys \cup {None}]
    /\ AllowedIds \subseteq KeyIds /\ AllowedKeys \subseteq Keys
    /\ Minimum \in Nat /\ Required \in BOOLEAN
    /\ \A events \in FirstLogs : IsLog(events)
    /\ Edits \subseteq {"append", "cut", "rewrite", "rotate", "damage",
                       "sign_event", "forge"}
    /\ MaxCalls \in Nat /\ MaxEdits \in Nat /\ MaxCrashes \in Nat

VARIABLES
    log,       \* the events of the log
    file,      \* the checkpoint file: Missing, Empty, Garbage or a document
    pc,        \* where each process is in its command
    draft,     \* what each process is about to write
    calls,     \* commands begun
    edits,     \* edits so far
    crashes,   \* commands cut short so far
    created,   \* [doc, log]: what each completed create wrote, of which log
    signed,    \* [key, payload]: what `sign` has signed and stored
    forged,    \* the created_time of each checkpoint that was forged
    overlapped \* did a command ever begin while another was running?

vars == <<log, file, pc, draft, calls, edits, crashes, created, signed, forged,
          overlapped>>

-----------------------------------------------------------------------------
(* checkpoint.py *)

\* (mutant) the signatures are signed too
unsigned_payload_all(c) ==
    [stream_id |-> c.stream_id, event_count |-> c.event_count,
     terminal_digest |-> c.terminal_digest, created_time |-> c.created_time,
     signatures |-> c.signatures]

\* What the digest and the signatures of a checkpoint cover.
unsigned_payload(c) ==
    [stream_id |-> c.stream_id, event_count |-> c.event_count,
     terminal_digest |-> c.terminal_digest, created_time |-> c.created_time]

\* The fields are filled in first, the digest then.
Digested(c) == [c EXCEPT !.checkpoint_digest = sha256_digest(unsigned_payload(c))]

\* The stream that ChainVerifier reports when it is asked for none.
ReportedStream(events) == IF events = <<>> THEN None ELSE events[1].stream_id

\* `report.stream_id or "default"`: an empty name is replaced as well.
active_stream(events) ==
    IF ReportedStream(events) \in {None, ""} THEN "default" ELSE ReportedStream(events)

create_checkpoint(events, time) ==
    Digested([stream_id         |-> active_stream(events),
              event_count       |-> Len(events),
              terminal_digest   |-> last_digest(events),
              created_time      |-> time,
              checkpoint_digest |-> None,
              signatures        |-> <<>>])

\* (mutant) only the digest and the count are compared
verify_checkpoint_count(c, events) ==
    /\ c.checkpoint_digest = sha256_digest(unsigned_payload(c))
    /\ WellFormed(events, c.stream_id)
    /\ c.event_count = Len(events)

\* verify_checkpoint: no issue.  That ChainVerifier accepts exactly the
\* well-formed streams is checked in module ChainVerifier; it reports the
\* stream it was asked for.
verify_checkpoint(c, events) ==
    /\ c.checkpoint_digest = sha256_digest(unsigned_payload(c))
    /\ WellFormed(events, c.stream_id)
    /\ c.event_count = Len(events)
    /\ c.terminal_digest = last_digest(events)

\* model_validate_json: terminal_digest has no default, and model_dump_json
\* leaves it out of the file when it is None.
Loadable(text) == text \notin {Missing, Empty, Garbage} /\ text.terminal_digest # None

-----------------------------------------------------------------------------
(* signatures.py.  A signature is the pair of key and payload; a           *)
(* fingerprint stands for its key.                                         *)

sign_payload(payload, key, id) ==
    [key_id |-> id, public_key_fingerprint |-> key, signature |-> <<key, payload>>]

\* Returns; in all other cases it raises.
verify_payload_signature(payload, record, key) ==
    /\ record.public_key_fingerprint = key
    /\ record.signature = <<key, payload>>

\* `signature verify`: ok, rather than an exit code or an exception.
signature_verify(c, key) ==
    /\ c.signatures # <<>>
    /\ \A i \in DOMAIN c.signatures :
          verify_payload_signature(unsigned_payload(c), c.signatures[i], key)

(* checkpoint_policy.py.  One round of the loop either reports an issue    *)
(* and continues, or verifies the signature, which counts it or raises.    *)

HasIssue(record) ==
    \/ AllowedIds # {} /\ record.key_id \notin AllowedIds
    \/ AllowedKeys # {} /\ record.public_key_fingerprint \notin AllowedKeys
    \/ PublicKeys[record.key_id] = None
    \/ record.public_key_fingerprint # PublicKeys[record.key_id]

Verifies(c, record) ==
    verify_payload_signature(unsigned_payload(c), record, PublicKeys[record.key_id])

\* (mutant) the signatures themselves are not verified
verify_checkpoint_policy_listed(c) ==
    /\ ~(Required /\ c.signatures = <<>>)
    /\ \A i \in DOMAIN c.signatures : ~HasIssue(c.signatures[i])
    /\ Len(c.signatures) >= Minimum

\* ok: nothing raised, no issue, and enough accepted.
verify_checkpoint_policy(c) ==
    /\ ~(Required /\ c.signatures = <<>>)
    /\ \A i \in DOMAIN c.signatures :
          ~HasIssue(c.signatures[i]) /\ Verifies(c, c.signatures[i])
    /\ Len(c.signatures) >= Minimum

-----------------------------------------------------------------------------
(* The commands *)

\* The bodies of the events that edits put into the log.
Changed == 0
Added   == -1

Init ==
    /\ log \in FirstLogs
    /\ file = Missing
    /\ pc = [p \in Procs |-> "idle"]
    /\ draft = [p \in Procs |-> None]
    /\ calls = [p \in Procs |-> 0]
    /\ edits = 0
    /\ crashes = 0
    /\ created = {}
    /\ signed = {}
    /\ forged = {}
    /\ overlapped = FALSE

Goto(p, place) == pc' = [pc EXCEPT ![p] = place]

Begin(p) ==
    /\ pc[p] = "idle"
    /\ calls[p] < MaxCalls
    /\ calls' = [calls EXCEPT ![p] = @ + 1]
    /\ overlapped' = (overlapped \/ \E q \in Procs : pc[q] # "idle")
    /\ UNCHANGED <<log, file, edits, crashes, created, signed, forged>>

\* `checkpoint create` up to write_text; IntegrityError if the log is no chain.
checkpoint_create(p) ==
    /\ Begin(p)
    /\ \/ /\ WellFormed(log, ReportedStream(log))
          /\ draft' = [draft EXCEPT ![p] =
                          [doc |-> create_checkpoint(log, <<p, calls[p]>>), log |-> log]]
          /\ Goto(p, "opening")
       \/ ~WellFormed(log, ReportedStream(log)) /\ UNCHANGED <<draft, pc>>

\* (mutant) the new signature replaces the old ones
WithSignature_only(c, record) == [c EXCEPT !.signatures = <<record>>]

WithSignature(c, record) == [c EXCEPT !.signatures = Append(@, record)]

\* `sign` up to write_text; an exception if the checkpoint cannot be loaded.
sign(p, key, id) ==
    /\ Begin(p)
    /\ \/ /\ Loadable(file)
          /\ draft' = [draft EXCEPT ![p] =
                [doc |-> WithSignature(file, sign_payload(unsigned_payload(file), key, id)),
                 key |-> key, payload |-> unsigned_payload(file)]]
          /\ Goto(p, "opening")
       \/ ~Loadable(file) /\ UNCHANGED <<draft, pc>>

\* write_text opens the file with "w", which empties it ...
OpenFile(p) ==
    /\ pc[p] = "opening"
    /\ file' = Empty
    /\ Goto(p, "writing")
    /\ UNCHANGED <<log, draft, calls, edits, crashes, created, signed, forged, overlapped>>

\* ... and writes the text at its start, in one write.  If another command
\* has written since, what is longer than the text is left behind it.
WriteFile(p) ==
    /\ pc[p] = "writing"
    /\ \/ file' = draft[p].doc
       \/ file # Empty /\ file' = Garbage
    /\ IF "key" \in DOMAIN draft[p]
       THEN /\ signed' = signed \cup {[key |-> draft[p].key, payload |-> draft[p].payload]}
            /\ UNCHANGED created
       ELSE created' = created \cup {draft[p]} /\ UNCHANGED signed
    /\ Goto(p, "idle")
    /\ UNCHANGED <<log, draft, calls, edits, crashes, forged, overlapped>>

\* The command dies or raises (an unreadable key, a full disk).
Crash(p) ==
    /\ pc[p] # "idle"
    /\ crashes < MaxCrashes
    /\ crashes' = crashes + 1
    /\ Goto(p, "idle")
    /\ UNCHANGED <<log, file, draft, calls, edits, created, signed, forged, overlapped>>

-----------------------------------------------------------------------------
(* Others who change the files *)

\* The log with the event at position i replaced and every later one rebuilt.
Rebuilt(events, i) ==
    LET stream == ReportedStream(events)
        upto[n \in i..Len(events)] ==
          IF n = i THEN Append(SubSeq(events, 1, i - 1),
                               chain_next(SubSeq(events, 1, i - 1), Changed, stream))
          ELSE Append(upto[n - 1], chain_next(upto[n - 1], events[n].body, stream))
    IN  upto[Len(events)]

EditLog(kind) ==
    \/ kind = "append" /\ \E stream \in Streams :
                            log' = Append(log, chain_next(log, Added, stream))
    \/ kind = "cut" /\ \E n \in 1..(Len(log) - 1) : log' = SubSeq(log, 1, n)
    \/ kind = "rotate" /\ log' = <<>>
    \/ kind = "rewrite" /\ \E i \in DOMAIN log : log' = Rebuilt(log, i)
    \/ kind = "damage" /\ \E i \in DOMAIN log : log' = [log EXCEPT ![i].body = Changed]
    \/ kind = "sign_event" /\ \E i \in DOMAIN log :
                                log' = [log EXCEPT ![i].signatures = <<Added>>]

\* A checkpoint rewritten to describe the log as it is now, its signatures
\* kept.
Forge ==
    /\ Loadable(file)
    /\ file' = Digested([file EXCEPT !.event_count = Len(log),
                                     !.terminal_digest = last_digest(log)])
    /\ forged' = forged \cup {file.created_time}

Edit(kind) ==
    /\ edits < MaxEdits
    /\ edits' = edits + 1
    /\ \/ EditLog(kind) /\ UNCHANGED <<file, forged>>
       \/ kind = "forge" /\ Forge /\ UNCHANGED log
    /\ UNCHANGED <<pc, draft, calls, crashes, created, signed, overlapped>>

Next ==
    \/ \E p \in Procs :
          \/ checkpoint_create(p)
          \/ \E key \in Keys, id \in KeyIds : sign(p, key, id)
          \/ OpenFile(p) \/ WriteFile(p) \/ Crash(p)
    \/ \E kind \in Edits : Edit(kind)

Spec == Init /\ [][Next]_vars

-----------------------------------------------------------------------------
(* Properties *)

checkpoint_verify == Loadable(file) /\ verify_checkpoint(file, log)

\* The file is what a create wrote, but for signatures added to it.
From(c) == /\ file \notin {Missing, Empty, Garbage}
           /\ [file EXCEPT !.signatures = <<>>] = c.doc

\* A checkpoint pins its log.  However often it was signed, `checkpoint verify`
\* accepts the log it was made of, and fails as soon as an event is added,
\* removed or changed in anything but its own signatures, even if all later
\* links were rebuilt.  Two checkpoints accept no log at all: that of an empty
\* log, which `create` writes and no command can load again, and that of a
\* stream named "", which names the stream "default".
PinsTheLog ==
    \A c \in created : From(c) =>
        (checkpoint_verify <=> /\ SameButSignatures(log, c.log)
                               /\ log # <<>> /\ c.log[1].stream_id # "")

\* Whatever commands overlapped or died, a checkpoint that can be loaded and
\* that nobody forged has only signatures of what it says.
SignaturesFit ==
    Loadable(file) /\ file.created_time \notin forged =>
        \A i \in DOMAIN file.signatures :
            verify_payload_signature(unsigned_payload(file), file.signatures[i],
                                     file.signatures[i].public_key_fingerprint)

\* With one command at a time no signature is lost silently: if a crash or
\* anything else cost one, the file can no longer be loaded.
SignaturesKept ==
    Loadable(file) /\ ~overlapped =>
        \A s \in signed : s.payload = unsigned_payload(file) =>
            \E i \in DOMAIN file.signatures : file.signatures[i].signature = <<s.key, s.payload>>

Trusted == {key \in Keys : /\ AllowedKeys = {} \/ key \in AllowedKeys
                           /\ \E id \in KeyIds : /\ AllowedIds = {} \/ id \in AllowedIds
                                                 /\ PublicKeys[id] = key}

Describes(payload, events) ==
    /\ payload.event_count = Len(events)
    /\ payload.terminal_digest = last_digest(events)

\* If `checkpoint verify` accepts, and so does the policy or `signature verify`
\* with a trusted key, the log is one that the holder of a trusted key has
\* signed for, and each signature in the file is of such a holder.
TrustedLog ==
    /\ checkpoint_verify
    /\ \/ verify_checkpoint_policy(file) /\ Minimum > 0
       \/ \E key \in Trusted : signature_verify(file, key)
    =>
        /\ \E s \in signed : s.key \in Trusted /\ Describes(s.payload, log)
        /\ \A i \in DOMAIN file.signatures :
              \E s \in signed :
                  s.key \in Trusted /\ file.signatures[i].signature = <<s.key, s.payload>>
=============================================================================
