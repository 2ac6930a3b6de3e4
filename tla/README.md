# AIAuditLog: TLA+ models and proofs

AIAuditLog records what AI systems do as events on a hash-chained JSONL log. This directory holds
TLA+ models of the parts of it that order, store, protect and check those events, TLC runs of small
instances, and TLAPS proofs for all instances. Paths below are relative to `src/src/ai_audit_log/`, those of documents to `src/`.

## 1. The system

| Component | State it keeps | Operations | Interacts with | What is hard |
|---|---|---|---|---|
| Digest and chain (`digest.py`, `chain.py`) | none; mutates the event it is given | `digest_projection`, `event_digest`, `append_integrity` | every writer | what the digest covers |
| Chain verifier (`chain.py`) | locals of one pass | `ChainVerifier.verify` | CLI `verify`, checkpoints, reports | seven checks that depend on each other's running state |
| JSONL store (`storage.py`) | the log file, the lock file | `file_lock`, `append`, `append_chained`, `read_all`, `write_all` | recorders and CLI processes that share the path | interleaved reads and writes, a lock without an owner, crashes, torn lines, fsync, timeouts |
| Recorder (`recorder.py`) | none between calls (re-reads the log) | `append_event`, `record` | store, rotation, index | five steps on shared files, each of which can be the last |
| Rotation (`rotation.py`) | names of the rotated logs | `rotation_decision`, `next_rotated_path`, `rotate_stream` | recorder, CLI `rotate` | check, then rename; open handles survive a rename |
| SQLite index (`storage.py`) | one table | `append`, `rebuild`, `query` | recorder, CLI `query` | two stores with no common transaction |
| Checkpoints (`checkpoint.py`) | a JSON file | create, verify, sign in place | log, signatures | log grows under the checkpoint; read-modify-write of the file |
| Signatures, keys, policy (`signatures.py`, `checkpoint_policy.py`) | key files | generate, sign, verify, policy loop | checkpoints | check-then-write of key files; early exits |
| Event models (`models.py`, `ids.py`) | none | validate, normalise, dump | store, CLI | what is written has to be accepted when it is read |
| Canonical JSON (`canonical.py`) | none | canonicalise | digest, store | digest computed before, checked after a JSON round trip |
| Builder and privacy (`builder.py`, `privacy.py`) | profile | `create`, `redact_value` | recorder, CLI `redact` | path-dependent rules |
| Query (`query.py`) | none | `filter_events` | CLI | limits, order |
| Migration (`migration.py`) | none | `migrate_event_document` | CLI, models | versions, old and new names in one document |
| Exports, compression (`exports.py`, `compression.py`) | output, `.gz` copy, manifest | `export_events`, `gzip_file` | log, privacy, CLI | three files one after another, none ever removed |
| Reports, adapters, ecosystem, OpenTelemetry, schema | none | pure mappings and texts | CLI | - |

Processes do not talk to each other. They share files: a log, its lock file `<log>.lock`, its rotated
logs `<log>.0001`, ..., an index. Everything concurrent in this system is the interleaving of the
system calls that separate processes (or threads) make on those files.

What makes each component correct:

* **Chain, verifier**: `verify` accepts exactly the well-formed streams, blames the first event that
  breaks one, and nobody can edit an accepted stream into another accepted one without new digests, but for
  cutting its end and for the signatures of events, which no digest covers.
* **Store**: writers exclude each other from read to write; a readable log is a chain; an event that
  was returned stays where its number says; what a crash leaves behind stops the log instead of
  corrupting it; no call waits for ever; a command that reads without the lock sees the log as it was at one moment.
* **Recorder, rotation, index**: no returned event is lost by a rotation; logs stay within their
  bound and their names in order; the index has what was returned and nothing else; the digests
  link across logs.
* **Checkpoints, signatures**: a checkpoint pins all of its log that digests cover; signatures in the file are of
  what the file says and are not lost; what policy and `checkpoint verify` accept was signed with a trusted key.
* **Key files**: of racing `key generate` commands with the same paths one wins, and leaves a private key with its public key.
* **Index**: a rebuild leaves what the log has, whatever state it found; a row is missing only if a crash or an
  overlapping rebuild dropped it; `query` is `filter_events`.
* **Canonical JSON**: the digest of an event in memory is that of the event read back.
* **Privacy**: what a rule names is in neither log nor export, what no rule names is kept, and the
  second filter (export) agrees with the first (builder).
* **Migration, event models**: a document loses no value on its way into the log; what migration gives is accepted
  exactly if it would be valid with today's names; what is accepted can be read back.
* **Exports**: copy and manifest beside an output are of that output.

## 2. Modules

| Module | Models | |
|---|---|---|
| `AuditChain` | digest, link and the reference definition `WellFormed` of a stream | constant level |
| `ChainVerifier` | the loop of `ChainVerifier.verify`, one iteration a step | extends `AuditChain` |
| `JsonlStore` | writers on one log, with lock file, torn lines, fsync, faults | extends `AuditChain` |
| `LogReaders` | reading commands line by line beside those writers | extends `JsonlStore` |
| `AuditStream` | what an append-only stream promises, abstractly | implemented by `JsonlStore` |
| `AuditRecorder` | `append_event` with rotation and index, CLI `rotate` | extends `AuditChain` |
| `Checkpoint` | `checkpoint create`, `sign` on one file; verification and policy | extends `AuditChain` |
| `KeyFiles` | `key generate` in racing processes | |
| `SqliteIndex` | the table beside the log: append, rebuild, query | |
| `JsonValues`, `Privacy`, `Codec` | values as functions on positions, `redact_value`, `normalize_for_json` and storage | operators |
| `EventPipeline` | the data of one event from builder to export | extends `Privacy`, `Codec` |
| `NestedValues` | values one inside the other, and `redact_value` as the recursion it is | compared with `Privacy` in the run |
| `EventDocuments` | migration, the validators of `AuditEvent`, what is written of an event | operators |
| `LogCommands` | `migrate` and `append` of an event file, exports of the log | extends `EventDocuments` |
| `AuditChainProofs` | lemmas about sequences, links, digests, and induction | |
| `JsonlStoreProofs` | proofs about `JsonlStore` and `LogReaders` | extends `AuditChainProofs` |
| `CheckpointProofs` | proofs about `Checkpoint` and `KeyFiles` | extends `AuditChainProofs`; the two models share no name |
| `ChainVerifierProofs`, `AuditRecorderProofs`, `SqliteIndexProofs`, `EventPipelineProofs`, `LogCommandsProofs` | proofs about the module of the name | the first two extend `AuditChainProofs` |
| `MC...` | instances for TLC | |

Operators keep the names of the functions they stand for. A definition whose comment begins with
`(mutant)` is not part of a model: it is the following definition with a bug a programmer could make, there to show that a
property of a run would notice it.

### AuditChain

An event is its `body` (all that is outside `integrity`), the four fields of `integrity` that
`chain.py` reads, and `signatures`, which `digest_projection` leaves out (`digest.py:19`, on purpose: `docs/security.md:17`).
So two events can have one digest; `Unsigned` and `SameButSignatures` say what remains equal then.
The digest is the pair of a tag and the projection: SHA-256 and canonical JSON are
idealised to a function that is injective on projections. That `None` fields are dropped before
hashing (`exclude_none`) keeps it injective, because a missing field and a `None` field are the same
event. `WellFormed` is written from what the chain is for: position, predecessor, stream, content.

### ChainVerifier

The variables are the locals of the method. `detects_stream`, `detects_sequence` and
`detects_digest` are its three groups of checks, `verify_event` is the loop body. The instance
applies up to two edits to a stream of three events: changed bodies, numbers, streams and links,
added signatures, removed fields, deleted, duplicated and exchanged events, recomputed digests, and whole rebuilt tails:
about 2000 streams, with the right, a wrong and no stream argument. Two edits are enough for one edit to
hide another (drop a number, then recompute the digest).

### JsonlStore

One action is one system call that another process can see, with the code around it.

| Variable | In the code |
|---|---|
| `lock` | existence of the lock file |
| `held` | processes whose `file_lock` has an open `handle` |
| `expired` | `time.monotonic() >= deadline` |
| `lines`, `tail` | the log: newline-terminated lines, and what follows the last newline |
| `synced` | lines that an `os.fsync` covered |
| `chained` | the event the process is about to write |
| `acked` | events whose append returned to the caller (history) |

A line is two pieces. Lines up to Python's buffer size are written with their newline by one
`write`; longer ones by two, so that a crash, an error or another writer comes between. A line
decodes if it is exactly the two pieces of one event; `read_all` raises on anything else. Blank lines
are not modelled: a readable file written by these actions has none.

`append_chained` locks, reads, writes. `append_event` and the CLI's `append` without `--lock` read first, and
lock (if `use_lock`) around the write only: `LocksFirst` and `LocksLast` name the two orders.

Faults: `Crash` (a process dies at any step; its lock file stays), `DiskError` (a write, flush or
fsync fails having written nothing, a part, or all), `PowerLoss` (all processes die, any prefix of
the log that includes what was synced survives, the lock file may or may not). `RemoveLock` is an
operator who removes a lock file that no live process holds; the code never does it.
`PowerLoss` and `RemoveLock` are outside `src/`.

### LogReaders

`read_all` takes no lock. A reader opens the log, takes one line a step and returns or raises at the end. Its reads
begin, go on and end anywhere between the steps of the writers. That what it returns is a prefix of the log that
includes all that had been acknowledged is what lets the other modules read a log in one step.

### AuditStream

Three actions: an event becomes the next link, an event that is in the stream is returned, events that were not
returned are lost from the end. `JsonlStore` with chained writers implements it under
`committed <- read_all, returned <- acked`: reading, locking, half-written lines and crashes are stutters.

### AuditRecorder

`files` is every file that ever existed under the log's name; `active` and `rotated` are directory
entries; `handle` is an open file. So `rename` onto an existing rotated log forgets that log, and a
line goes to the file that was opened even if it has been renamed since. The steps of
`append_event` are those of the code: read and chain, decide, look for a free suffix, rename, open,
write, index, return. `CutShort` ends a call before its next step: the death of the process and an
exception (line too long, disk full, database locked) are the same there, since nothing is undone.

### Checkpoint

`checkpoint create` and `sign` read their inputs when they begin and end with `write_text`, which is two steps: `OpenFile`
truncates, `WriteFile` writes at the start. If another command has written in between, the longer text
sticks out behind the shorter one (`Garbage`). `draft` is what a command has read and computed;
`created`, `signed` and `forged` are history. A signature is the pair of key and payload, a fingerprint is its
key: Ed25519 is idealised to signatures that nobody else can make. The stream a checkpoint names is `active_stream`: that of the log, or
"default" if the log's has no name (`checkpoint.py:54`). Verification and the policy loop
change nothing and are operators; in the policy, a signature that does not verify raises, others add
an issue, and the two are told apart from being counted. `Edit` is whoever changes the log (append, cut,
rotate, rebuild all later links, damage, sign an event) or rewrites the checkpoint to describe the log as it is now.

### KeyFiles

System calls of `key generate`: look at both paths, open the private key with `O_EXCL` (without it under
`--force`), write it, truncate and write the public key. Key pairs are named by the call
that made them. Its definitions are named apart from those of `Checkpoint` (`KeySpec`, `KeyNext`), whose
proof module extends both. Which paths processes share, and who forces, are constants. The code compares no paths, and neither does the model: a
command's public path may be a private path, of another command or its own. A public key that is written while another command
writes a private key there leaves the longer text's end behind it (`Spoilt`). `Kept` and `Paired` say under which paths a key is
safe, and the properties are about those.

### SqliteIndex

`append_event` stores an event and then indexes it; a rebuild reads the log, deletes all rows, and adds each event in a transaction
of its own. A transaction is one step. `disturbed` (history) marks rebuilds since whose
start somebody else changed the log or the table, `dropped` (history) the events of which a rebuild deleted the row without
having them to add, or that were still to be added when a call died. `query` and `filter_events` are two operators,
the one selects, orders and cuts as SQL does, the other is a loop over the events in the order in which `sorted` puts them. The columns of
times hold texts, and SQL compares these (`TextLess` of `isoformat`, which writes no fraction if there is none, so that "+" of the zone meets
"." of a fraction), while the loop compares datetimes (`Earlier`); that these orders are one is a lemma (`OneOrder`). A sort
is stated as what it promises: the list of the set in the order of the columns, and the rearrangement that goes by the keys
and leaves equal keys as they were. The loop is a recursive function of the number of events it has gone through.

### JsonValues, Privacy, Codec, EventPipeline

A value is a function from the positions in it to what stands there: a dict, a list or a leaf. A position is the sequence of
keys and list steps that lead to it. A leaf has the kind of its Python type: a JSON scalar, `Decimal`, `datetime` (with or without a fraction of a second, in UTC or not), `date`,
`bytes`, or one that cannot be canonicalised. A decimal is a number with the count of its digits up to the last that is not 0, the zeros after them, and an
exponent, which is what decides between `1E+3`, `1000` and `1000.0`; `Precision` is that of the decimal context (28 in Python, 2 in the run),
and exponents are assumed to be within its range. Bytes are a sequence of octets that is UTF-8 or not; the log rejects those that are not.

`redact_value` calls itself for the items of dicts and lists. `Privacy` says the same of each position by itself: `Treatment` is what the
code does with an item (the rules in their order, with the path they look at), and the recursion comes to an item if it
descends into everything above it (`Reached`) or copies something above it whole (`Copied`). So nothing here is recursive
and theorems can be proved about values of any depth. `NestedValues` has the recursion as the code has it, on values one inside the other, and
its assumption `RecursionAgrees`, which TLC evaluates at the start of the run, is that both give the same for every payload and profile
of the instance, in the builder and in the export. An error in the one that is not in the other stops the run.

The code's path begins where the filter begins: at the event in an export, below `data` in the builder. That is `base`, the number of steps to leave
out. Of the patterns of `fnmatch` there are bare names, `*.name` and dotted
paths, which are those of the built-in and example profiles. Hashes, masks and excerpts are opaque texts of what they were made of.
Classification values are never empty strings. `Codec` has what the digest sees
(`normalize_node`) and what the log stores (`dump_node`), which differ. `EventPipeline` takes one payload through
`EventBuilder.create`, `append_integrity`, the log and `redact`.

The properties state their exceptions, each of which a step of the code makes. `NothingNamedIsShown`: the rules come before the content keys, so a content
key that is named is withheld like any other; below one that is not named, a mode that gives content (`GivesContent`: balanced, or full content if that is
allowed) gives everything, named or not (`Permitted`). `UnnamedIsKept`: where a profile withholds classified payloads, as the default and all built-in profiles do, it is about
leaves below no classified dict that is withheld, which in the builder are those under a key `data` of the caller's. Further, a classified dict keeps its `classification`
whatever rule names it (`NothingNamedIsShown`); a dotted path means one thing below `data` and another from the event, a rule for the classification
itself changes what an export withholds, and an item that the builder omitted cannot be replaced by an export (`ExportAgrees`); a builder with a rule for
the classification takes away what an export would withhold for (`ClassifiedWithheld`).

### EventDocuments, LogCommands

A document is a function from field names to values, and a value has what the validators tell apart: a version its
JSON type and text, an id whether it is a UUID and in which form, a time its zone, an event type its parts. `Accepts`
is `AuditEvent.model_validate`, `AuditEvent` what that normalises, `model_dump` what is written of it. `migrate` works
in place, which `--output` allows.

An exporting command reads the log and then writes one, two or three files, each in two steps, `OpenFile` (truncates) and
`WriteFile`. A file knows which command wrote it, and a copy what it is a copy of. CSV and Markdown are written of the
events and not of the redacted documents, as in the code.

## 3. Runs

| Run | Instance | Shows |
|---|---|---|
| `chain_verifier` | streams above | `FirstIssueExact` (the verdict and the first blame are right), `TamperEvident`, `TerminalDigestAnchors` (also for recomputed digests), `EditsBlamedExactly` |
| `store_chained` | 2 `append_chained` writers, 2 calls each, 2 faults of every kind, manual unlock, fsync, long lines, fairness | `MutualExclusion`, `LogVerifies`, `AckedInPlace`, `StaleLockFreezesLog`, `TornLineFreezesLog`, `EveryCallEnds`, `ImplementsStream` |
| `log_readers` | 1 `append_chained` writer and 1 recorder with `use_lock`, 2 calls each, long lines, 1 crash or disk error, manual unlock; 1 reader, 2 reads | `AckedSurvive` (chains fork, but no event is destroyed), `ReadsAreSnapshots` |
| `store_fork` | 2 recorders with `use_lock`, 1 call | finding: `LogVerifies` violated |
| `recorder_rotation` | 1 recorder, 6 calls, 2 cut short, max_events 2, max_bytes, index, 3 suffixes | `IndexAgrees`, `SegmentBound`, `SegmentsInOrder`, `DigestsLinked` |
| `recorder_and_rotate` | 2 recorders and one `rotate`, 2 calls each, 1 cut short, index | `AckedStoredOnce` over renames at any moment, `RotatedPathsStay` |
| `rotation_sequence` | 1 recorder, max_events 2 | finding: `SequencesIncrease` violated |
| `checkpoint` | 2 processes, 2 commands each, 2 keys under 2 ids of which the policy allows one, 2 signatures required, 2 edits of every kind, 1 crash; a log of a stream with a name and one without | `PinsTheLog`, `SignaturesFit`, `SignaturesKept`, `TrustedLog` |
| `key_files` | 2 processes on the same paths, 1 that forces, 1 whose public path is that one's private path, 2 calls each, 2 crashes | `PairsMatch`, `OneWins`, `PrivateKeysKept` |
| `index` | 1 recorder, 2 rebuilds, 2 calls each, 1 rotation, 1 crash; 4 events, two of them with different times in one second, 81 queries | `TypeOK` (with the primary key), `RebuildRepairs`, `MissingOnlyIfDropped`, `QueryAgrees` |
| `event_pipeline` | payloads of up to 3 levels and leaves of every kind, 12 profiles | `RecursionAgrees`, `NothingNamedIsShown`, `UnnamedIsKept`, `ExportAgrees`, `ClassifiedWithheld`, `PlainVerifies` |
| `log_commands` | 8323 documents: 7 versions or none, each renamed field under either name, both or none, each other field changed; 2 events; 2 processes, 2 exporting commands of 8 kinds, 1 crash | `NothingLostOnTheWayIn`, `MigrationDecides`, `AcceptedReadsBack`, `FilesFit` |

Deadlock is not checked: calls are bounded by `MaxCalls` (`MaxKeys` in `KeyFiles`), and a verifier or a pipeline ends. Progress is checked
as liveness instead.

**Bounds.** Two writers are what every race in this code needs: it is between one process that has
read and another that writes. Two calls let a writer meet the log, lock and tail that its own
and another's earlier call left. Two faults let the second hit what the first left behind. Six calls with `max_events`
2 and three suffixes rotate until no suffix is free, which happens at 9999 in the code. Two commands of each of two processes
make, sign, sign again and make anew a checkpoint in every overlap, and two edits rebuild a log and forge the
checkpoint to it. Two rebuilds are one that dies or overlaps and one that repairs. Three levels of nesting are a key with a rule below a list below a
key without; the classification marks, content keys and named keys occur at each level.

A reader that reads twice meets a log before and after a fault. Two exporting commands are one that overlaps
another or finds what it left; a third would meet no file that the second does not.

**Symmetry.** The processes of `Checkpoint` and the exporting ones of `LogCommands` are interchangeable; those runs check
no liveness.

**Types.** A run checks `TypeOK` where it says more than types: the primary key of the table. That of `JsonlStore` is a theorem
(`Typing` of `JsonlStoreProofs`), and the invariants of the other proofs state the types they need.

**Fairness.** `FairSpec` assumes weak fairness of each process's next step and of its clock: a
running process keeps running, and time passes. Nothing is assumed of callers, faults or operators.

## 4. Findings

Shown by a run:

* `store_fork`: with `JsonlStore(use_lock=True)`, `AuditRecorder.append_event` is not protected by the lock from read to write, as the
  comment in `storage.py:24-25` has it for cooperating writers. Only `append_chained` is.
* `rotation_sequence`: the event that triggers a rotation is chained to the log that is rotated away. With
  `max_events = 2` the stream is numbered 1, 2 | 3, 2, against `docs/event-envelope.md:16`.

Met while modelling, and drawn as the exact boundary of a property that holds:

* A checkpoint of an empty log is written without `terminal_digest` and cannot be loaded by any
  command (`checkpoint.py:24`): the exception in `PinsTheLog`.
* Some data is digested in one form (`canonical.py:20-38`) and stored in another: a `Decimal` that `str` writes with an exponent (`1E+3`, `1E-7`), that has
  zeros at the end of its fraction, or more digits than the decimal context; `bytes` that are not empty; times without a fraction or outside UTC. Such an event fails
  verification as soon as it is read back. `PlainVerifies` says exactly which data does verify.
* Signatures of events can be changed, added or removed without notice, since no digest covers them (`digest.py:19`): `TamperEvident`,
  `TerminalDigestAnchors` and `PinsTheLog` hold up to them.
* A checkpoint of a log whose stream is named "" names the stream "default" (`checkpoint.py:54`), and `checkpoint verify` rejects the log it was made of: the other
  exception in `PinsTheLog`.
* A `key generate` whose `--public-key` is the path of a private key that appears after the command has looked, or its own `--private-key`, overwrites that
  private key without `--force` (`cli.py:282-288`, `signatures.py:74`), against `docs/security.md:31`: `PrivateKeysKept` is about the private paths that are nobody's public path (`Kept`).
* `EventBuilder.create` filters the data of an event under an empty path, and classified payloads are
  redacted only below a path that ends in `data` (`builder.py:37`, `privacy.py:143`): the log has them in
  full, an export does not (`ClassifiedWithheld`).
* Two rotations at the same time can pick the same path, and the second rename replaces the first's log
  (`rotation.py:53-69`): `RotatedPathsStay` is checked with one `rotate` beside recorders that do not rotate.
* Two `key generate` commands that share only the public path replace each other's public key
  without `--force` (`signatures.py:74`): `PairsMatch` and `OneWins` are about commands that share both.
* An overlap of two `sign` commands loses a signature (`cli.py:299-302`): `SignaturesKept` is about commands
  one at a time, `SignaturesFit` and `TrustedLog` hold for every overlap. (Of a checkpoint that somebody rewrote, signed and
  rewrote back, the signature made in between fits no more, as it should; `SignaturesFit` is about those nobody rewrote.)
* `minimum_signatures` counts signatures: one key that signs twice is counted twice.
* A profile given to `export_events` redacts JSON and JSONL only; CSV and Markdown are written from the events
  (`exports.py:48,59`), and the manifest states the redaction all the same. `FilesFit` claims redaction for the first two.
* No command removes a `.gz` copy or a manifest that an earlier one left (`exports.py:63-72`): a copy made before may be
  unredacted beside a redacted output. `FilesFit` is about the files the last command wrote.
* A document whose `schema_version` is the JSON number 1.0 passes for current in `migrate` (`migration.py:27`, `str`) and is
  not accepted by `append`; one with a field under both names keeps both and is not accepted either.
* A recorder that has read the log before a failed write continues the torn line (`storage.py:62`): its event is returned and its
  line does not decode. `AckedSurvive` says that at least its text is whole.
* Events that a recorder indexes while a rebuild runs, and those of rotated logs, lose their rows (`storage.py:203-208`):
  `MissingOnlyIfDropped` says that nothing else does.
* A call that is cut short between the rename and the first line of the new log restarts the chain of digests there
  (`recorder.py:44`): the exception in `DigestsLinked`.

## 5. Proofs

`tlapm` checks the following for every set of writers or processes and every value of the constants.

| Module | Theorem | States | Assumes |
|---|---|---|---|
| `JsonlStoreProofs` | `Exclusion` | `Spec => []MutualExclusion` | - |
| | `LogSafety` | `Spec => []LogVerifies` | all writers use `append_chained` |
| | `Durability` | `Spec => []AckedInPlace` | the same, and fsync if power can fail |
| | `StaleLock` | `Spec => StaleLockFreezesLog` | every writer locks |
| | `TornLine` | `Spec => TornLineFreezesLog` | all writers use `append_chained` |
| | `Implementation` | `Spec => ImplementsStream` (refines `AuditStream`) | the same, and fsync if power can fail |
| | `Survival` | `Spec => []AckedSurvive` | writers lock or write lines whole, and fsync if power can fail |
| | `ReadersInvisible` | `LogSpec => Spec` | - |
| | `Snapshots` | `LogSpec => []ReadsAreSnapshots` | writers lock or write lines whole, power does not fail |
| `ChainVerifierProofs` | `FirstIssue` | `Spec => []FirstIssueExact` | - |
| | `Tamper` | `Spec => []TamperEvident` | - |
| | `Anchors` | `Spec => []TerminalDigestAnchors` | - |
| | `Blamed` | `Spec => []EditsBlamedExactly` | - |
| `AuditRecorderProofs` | `Order` | `Spec => []SegmentsInOrder` | at most one process renames |
| | `PathsStay` | `Spec => RotatedPathsStay` | the same |
| | `StoredOnce` | `Spec => []AckedStoredOnce` | the same |
| | `IndexComplete` | `Spec => []IndexAgrees` | the same |
| | `Bound` | `Spec => []SegmentBound` | at most one recorder |
| | `Linkage` | `Spec => []DigestsLinked` | one recorder and no `rotate` |
| `SqliteIndexProofs` | `Typing` | `Spec => []TypeOK` | - |
| | `MissingRows` | `Spec => []MissingOnlyIfDropped` | - |
| | `Repair` | `Spec => []RebuildRepairs` | - |
| | `Queries` | `Spec => []QueryAgrees` | - |
| `CheckpointProofs` | `Trust` | `Spec => []TrustedLog` | - |
| | `Signatures` | `Spec => []SignaturesFit` | - |
| | `Keeping` | `Spec => []SignaturesKept` | - |
| | `Pinning` | `Spec => []PinsTheLog` | a digest is not `None` |
| | `Pairing` | `KeySpec => []PairsMatch` | - |
| | `KeyKeeping` | `KeySpec => PrivateKeysKept` | - |
| | `Winning` | `KeySpec => []OneWins` | - |
| `EventPipelineProofs` | `Withholding` | `Spec => []NothingNamedIsShown` | - |
| | `Keeping` | `Spec => []UnnamedIsKept` | - |
| | `Agreement` | `Spec => []ExportAgrees` | - |
| | `Classification` | `Spec => []ClassifiedWithheld` | - |
| | `Verification` | `Spec => PlainVerifies` | - |
| `LogCommandsProofs` | `Fitting` | `Spec => []FilesFit` | - |
| | `Deciding` | `Spec => []MigrationDecides` | - |
| | `Reading` | `Spec => []AcceptedReadsBack` | JSON null is no object |
| | `Keeping` | `Spec => NothingLostOnTheWayIn` | - |

All of them use the `ASSUME`s of the modules they are about, which TLC evaluates in each run. The hypotheses in the last
column are where the code itself draws the line, and section 4 or a run shows what happens beyond it: writers that are not
chained fork the log (`store_fork`), two that rename replace each other's rotated logs, two recorders fill a log past its bound
(each decides before it writes), `rotate` may leave a recorder's next event without a link to its last, and a loss
of power takes back what a reader has seen. "A digest is not `None`" and "JSON null is no object" say of opaque
values what holds of strings and of JSON.

*Exclusion.* `MutualExclusion` is not inductive: nothing in it says that a lock file exists while a
handle is open, which is what keeps a second `O_EXCL` from succeeding. `HolderInv` adds it.

*LogSafety.* What the log is (`LogVerifies`) depends on what the writer in the critical section
knows. `LogInv` says that the event in its hands is the next link of the log *as it is now*, and that
the tail is empty, or the piece it wrote itself. It is inductive because of mutual exclusion: no other writer can move the log
between its read and its write. `ChainNextWellFormed` (the next link continues a well-formed
stream) and `PrefixWellFormed` (for a loss of power) do the rest.

*Durability.* `AckInv` follows an event from its write to its return: in place once written, and
within what was synced once about to be returned.

*StaleLock, TornLine, Implementation.* Action properties, from the invariants above. For the refinement each step is mapped: the
last piece of a line commits an event, a return returns it, a loss of power drops what was not returned, and all
others stutter.

*Survival.* Here chains may fork, and a line may be continued by a writer that read before it was torn.
`SurviveInv` says what such a writer leaves: the text of a returned event ends a line, and the first piece of a line that is about to
get its second is the last thing in the file.

*ReadersInvisible, Snapshots.* No step of a reader changes a variable of `JsonlStore`, so its theorems carry over. `ReadInv` says that what a
reader has read so far is a prefix of the lines as they are, which needs that lines which end in a newline are never changed.

*FirstIssue, Tamper, Anchors, Blamed.* `LoopInv` says what the local variables of `verify` are after `index` events, as long as no
issue was found: the expected link is that of the last event, the seen sequence and stream are those of a well-formed prefix. From it the
iteration that reports first is that at which `WellFormed` stops. `Anchors` goes down the chain from the last event: equal digests
have equal projections, which contain the digests before and, for events that are verified, all but the signatures (`Unsigned`).

*Order, PathsStay, StoredOnce, IndexComplete.* `NamesInv`: who is about to rename still has the lowest free suffix, which needs that
nobody else renames. `CallsInv` numbers the events so that each is in one place of one file; `KeptInv` follows an event from its
write to its return. *Bound.* `RoomInv`: who is about to write has found room and nobody else takes it. *Linkage.* `LinkInv`: the
event in hand names the last digest of the file it will be written to, or, after the rename, that of the one before.

*MissingRows, Repair.* `StoredInv` (whoever is about to index an event has it from the log) and `RebuildInv` (a rebuild that is
undisturbed has done a prefix of the log, and the table is the index of that prefix).

*Queries.* `OneOrder`: the texts of two times are in the order of the times. Where ids do not repeat the key orders the events totally, so both sorts exist (`ListExists`, by induction: the first element, then the
others). `LoopKeeps` is the invariant of the loop: its result is in order and is what matches among the first `n` events, where `n` is
all so far unless the result is full. Such a result leaves out nothing that comes before its own events, and `BeginsTheList` says
that a sequence with these two properties is the beginning of the one ordered list of what matches, which is what SQLite cuts.

*Trust, Signatures, Keeping.* `SigInv`: every signature in the file or in a draft was made, and for what it says. `FitInv`: drafts fit
as the file does, until somebody forges the checkpoint they are of. `KeptInv` says that, while no commands
overlap, the file and the draft have every signature made of their checkpoint, which `TimeInv` lets be told by its `created_time`. *Pinning.* `CreatedInv` says that whatever describes
a log was made of a log, and with `RebuiltIsLog`, that a rebuilt chain exists for any change of it, the verdict of
`checkpoint verify` comes down to equality of last digests, as in `Anchors`, and to the name of the stream.

*Pairing, KeyKeeping, Winning.* `KeyInv` follows the private file of a path that nobody forces: whoever is about to write it
finds it empty and is alone (`Opened`), because `O_EXCL` let one in; whoever is about to write the public
key finds its own private key there (`Written`). `PairsMatch` alone does not say why the private key does not change while the
public one is written. For `OneWins`, `WinInv` divides the course of commands that share both paths into before, while and after one
of them writes (`Before`, `During`, `After`): whoever looked before finds a file when it opens, and leaves. `PublicOnly` says that a path nobody has for a private key
never holds one, so that the winner's public key is written whole.

*Fitting.* `FilesFit` speaks of quiet moments and says nothing of how they come about. `JobInv`: a command that
met no other is the only one running and the last that began. `AloneInv`: what it has written so far is there. `EndedInv`: what it left
is there until another command begins to write the output, and a copy that changes meanwhile is
in the hands of a command still running. `ManifestInv`: a manifest is never written before its output.

*Deciding, Reading, Keeping.* Lemmas about `migrate_event_document` for any function at all: it is `Today` of a document with one
name for each field, leaves an old name in any other, and says what the document said. For `Reading`, `LogInv` says that the log is made
of events of accepted documents, and `ReadsBack` that dumping and validating such an event is the identity.

*Withholding, Keeping, Verification, Classification.* `PipelineInv` says what the event is in every place: what the builder made of the data, or that as the log
gives it back. The rest is about `redact_value` of any value. What is shown was come to, and then every step to it was one of descent or copying (`StepsShown`) and no rule applies at its own position (`ShownTreatment`), or it is part of a copy, and copies are content in a mode that gives it (`GivenContent`) or
a classification, which is a leaf (`CopiedIsContent`). A statement about all positions above one takes the place of an induction over the
depth. `PlainNodes` settles the digest leaf by leaf, with `PlainDecimals` for the three texts of a decimal; by `BuiltWellFormed` the
builder's decimals are those of the payload, which `PayloadsAssumption` describes.

*Agreement.* Whatever the builder stops at, an export of the caller's data stops at (`StopsMore`: its rules match no less, since they see longer
paths). Going down, such an export descends all the way to a position or stops somewhere first (`FirstStop`, by the least number). As
long as it descends, so do the builder and the export of the event, and what stands there is the same (`ReachedAlike`); this needs
that the builder leaves a dict classified as it was (`SameClassification`). Where it stops,
the event has what makes its export put the same there and keep or drop the same below (`StopsAlike`). There are three cases: the builder has
withheld the dict, for its highest classification, which it then replaces too (`WithheldAlike`);
the exports withhold it (`ClassifiedAlike`); there is a rule for the item, where what the builder replaced or cut to an excerpt is
replaced, or kept since an excerpt of an excerpt is itself (`RuledAlike`).

Elements of the log have no type of their own (a digest contains the previous one), so the types
are carried by `IsSequence`, and the sequence lemmas of `AuditChainProofs` are about such sequences. Induction over the length of a log or of a loop is
done without the library's theorems, which take an operator as a parameter: `LeastNumber` and `InductionOverNat` of
`AuditChainProofs`, and of `SqliteIndexProofs` and `EventPipelineProofs`, which have no chain, say that a *set* of numbers that has 0 and the successor of each member is all of them, and that form the provers can use.

Only model-checked: liveness (`EveryCallEnds`), which is beyond the prover, and that the two forms of `redact_value` agree
(`RecursionAgrees`), which compares a recursive operator: the theorems are about the form without recursion.

## 6. Plan

Every safety and action property of the runs has a theorem. What could be added: the patterns of `fnmatch` in general, with the theorems of
`EventPipelineProofs` about any relation between patterns and positions that the builder's paths satisfy less often than the export's.

## 7. Not modelled

Listed with reasons in `PROJECT.json`. In short: reports, adapters, ecosystem
and OpenTelemetry mappings, schema export, the escaping of CSV cells and the payload models are pure functions without state or
order, some of them field by field; `write_all` and `gunzip_file` have no caller in the package; the truncating write of `migrate` is one step; `max_events` is at least 1 (with 0, which `RotationPolicy` accepts, every existing log is rotated and each event still gets a log of its own, past its bound); tuples in the data of an event, which `redact_value` does not look
into, are outside the payloads (events read from a log have none); SHA-256, Ed25519 and SQLite's own transactions are taken
as what they promise.
