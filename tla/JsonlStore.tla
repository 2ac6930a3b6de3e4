----------------------------- MODULE JsonlStore -----------------------------
(***************************************************************************)
(* Processes appending to one JSONL log (storage.py), through either of    *)
(* the two callers the code has:                                           *)
(*                                                                         *)
(*   chained writers   JsonlStore.append_chained: lock, read, chain,       *)
(*                     write, unlock (`append --lock` of the CLI)          *)
(*   recorder writers  AuditRecorder.append_event and the CLI's `append`   *)
(*                     without --lock: read and chain first, then          *)
(*                     JsonlStore.append, which locks only if use_lock     *)
(*                                                                         *)
(* The lock is a file that os.open(O_CREAT|O_EXCL) creates and unlink      *)
(* removes: it has no owner, survives its creator and is not removed by    *)
(* anyone else.  The log is what the file system holds: whole lines and    *)
(* what follows the last newline.  One action is one system call that      *)
(* other processes can see, with the code around it.                       *)
(***************************************************************************)
EXTENDS AuditChain, FiniteSets

CONSTANTS
    ChainedWriters,   \* processes calling append_chained
    RecorderWriters,  \* processes calling append_event
    Stream,           \* the stream_id they all use
    UseLock,          \* use_lock of the recorders' JsonlStore
    Fsync,            \* fsync of every JsonlStore
    LongLines,        \* may a line exceed Python's 8 KiB write buffer?
    Faults,           \* what may go wrong: "crash", "disk", "power"
    ManualUnlock,     \* does somebody remove a lock file nobody holds?
    MaxCalls,         \* bound: calls per process
    MaxFaults         \* bound: faults in a behaviour

Procs == ChainedWriters \cup RecorderWriters

ASSUME ConstantsAssumption ==
    /\ ChainedWriters \cap RecorderWriters = {}
    /\ Stream # None
    /\ UseLock \in BOOLEAN /\ Fsync \in BOOLEAN
    /\ LongLines \in BOOLEAN /\ ManualUnlock \in BOOLEAN
    /\ Faults \subseteq {"crash", "disk", "power"}
    /\ MaxCalls \in Nat /\ MaxFaults \in Nat

VARIABLES
    pc,       \* where each process is in its call
    lock,     \* does the lock file exist?
    held,     \* the processes whose file_lock has an open handle
    expired,  \* has the deadline of a waiting file_lock passed?
    lines,    \* the newline-terminated lines of the log, as written
    tail,     \* what was written after the last newline
    synced,   \* number of lines that fsync has made durable
    chained,  \* the event in the hands of each process
    calls,    \* calls each process has begun
    acked,    \* the events whose append returned to its caller
    faults    \* faults so far

vars == <<pc, lock, held, expired, lines, tail, synced, chained, calls,
          acked, faults>>

log == <<lines, tail, synced>>

-----------------------------------------------------------------------------
(* Lines and events *)

\* The text of an event's line: two pieces, for a short line written at once
\* and for a long one in two writes, the newline with the second.
Text(e) == <<[event |-> e, piece |-> 1], [event |-> e, piece |-> 2]>>

\* The event a line starts with; the line decodes if there is nothing else.
EventOf(line) == line[1].event
Decodes(line) == line = Text(EventOf(line))

\* (mutant) an incomplete last line is skipped
Readable_lines == \A i \in DOMAIN lines : Decodes(lines[i])

\* read_all returns only if no line is incomplete or undecodable.
Readable == tail = <<>> /\ \A i \in DOMAIN lines : Decodes(lines[i])
read_all == [i \in DOMAIN lines |-> EventOf(lines[i])]

\* What each caller does after reading the log.
LocksFirst_never(p) == FALSE                 \* (mutant) reads before locking
LocksLast_never(p)  == FALSE                 \* (mutant) use_lock is ignored
LocksFirst(p) == p \in ChainedWriters
LocksLast(p)  == p \in RecorderWriters /\ UseLock

-----------------------------------------------------------------------------
Init ==
    /\ pc = [p \in Procs |-> "idle"]
    /\ lock = FALSE
    /\ held = {}
    /\ expired = [p \in Procs |-> FALSE]
    /\ lines = <<>>
    /\ tail = <<>>
    /\ synced = 0
    /\ chained = [p \in Procs |-> None]
    /\ calls = [p \in Procs |-> 0]
    /\ acked = {}
    /\ faults = 0

Goto(p, place) == pc' = [pc EXCEPT ![p] = place]

\* The caller hands a new event to the store or the recorder.
Call(p) ==
    /\ pc[p] = "idle"
    /\ calls[p] < MaxCalls
    /\ calls' = [calls EXCEPT ![p] = @ + 1]
    /\ expired' = [expired EXCEPT ![p] = FALSE]
    /\ chained' = [chained EXCEPT ![p] = None]
    /\ Goto(p, IF LocksFirst(p) THEN "locking" ELSE "reading")
    /\ UNCHANGED <<lock, held, log, acked, faults>>

\* file_lock: time.monotonic() reaches the deadline of the call.
DeadlinePasses(p) ==
    /\ pc[p] = "locking"
    /\ ~expired[p]
    /\ expired' = [expired EXCEPT ![p] = TRUE]
    /\ UNCHANGED <<pc, lock, held, log, chained, calls, acked, faults>>

\* (mutant) O_EXCL is dropped
OpenExclusive_shared == lock' = TRUE

\* os.open with O_CREAT | O_EXCL: the file must not exist.
OpenExclusive == ~lock /\ lock' = TRUE

\* file_lock: the lock file is created.
CreateLock(p) ==
    /\ pc[p] = "locking"
    /\ OpenExclusive
    /\ held' = held \cup {p}
    /\ Goto(p, IF LocksFirst(p) THEN "reading" ELSE "writing")
    /\ UNCHANGED <<expired, log, chained, calls, acked, faults>>

\* (mutant) waits without a deadline
LockTimeout_never(p) == FALSE

\* (mutant) takes the lock it waited for to be stale and removes it
LockTimeout_breaking(p) ==
    /\ pc[p] = "locking"
    /\ lock
    /\ expired[p]
    /\ lock' = FALSE
    /\ Goto(p, "idle")
    /\ UNCHANGED <<held, expired, log, chained, calls, acked, faults>>

\* file_lock: FileExistsError after the deadline; TimeoutError reaches the
\* caller, who holds nothing.
LockTimeout(p) ==
    /\ pc[p] = "locking"
    /\ lock
    /\ expired[p]
    /\ Goto(p, "idle")
    /\ UNCHANGED <<lock, held, expired, log, chained, calls, acked, faults>>

\* read_all, then append_integrity on what it returned.
ReadAndChain(p) ==
    /\ pc[p] = "reading"
    /\ Readable
    /\ chained' = [chained EXCEPT ![p] = chain_next(read_all, <<p, calls[p]>>, Stream)]
    /\ Goto(p, IF LocksLast(p) THEN "locking" ELSE "writing")
    /\ UNCHANGED <<lock, held, expired, log, calls, acked, faults>>

\* read_all meets an incomplete or undecodable line, or _event_line finds the
\* chained event longer than max_line_bytes: ValueError, nothing written.
ReadOrEncodeFails(p) ==
    /\ pc[p] = "reading"
    /\ Goto(p, "raising")
    /\ UNCHANGED <<lock, held, expired, log, chained, calls, acked, faults>>

-----------------------------------------------------------------------------
(* _append_line: open("a"), write, write, flush.  O_APPEND puts every write *)
(* at the end of the file, whoever else is writing.                         *)

\* (mutant) fsync is skipped
AfterWrite_unsynced(p) == Goto(p, "returning")

AfterWrite(p) == Goto(p, IF Fsync THEN "syncing" ELSE "returning")

FinishLine(text) ==
    /\ lines' = Append(lines, tail \o text)
    /\ tail' = <<>>

\* The line and its newline fit the buffer: flush makes one write of both.
AppendShortLine(p) ==
    /\ pc[p] = "writing"
    /\ FinishLine(Text(chained[p]))
    /\ AfterWrite(p)
    /\ UNCHANGED <<lock, held, expired, synced, chained, calls, acked, faults>>

\* The line does not fit: its text is written before flush, ...
AppendLongLine(p) ==
    /\ LongLines
    /\ pc[p] = "writing"
    /\ tail' = Append(tail, Text(chained[p])[1])
    /\ Goto(p, "flushing")
    /\ UNCHANGED <<lock, held, expired, lines, synced, chained, calls, acked, faults>>

\* ... and flush writes what is left, with the newline.
FlushLongLine(p) ==
    /\ pc[p] = "flushing"
    /\ FinishLine(<<Text(chained[p])[2]>>)
    /\ AfterWrite(p)
    /\ UNCHANGED <<lock, held, expired, synced, chained, calls, acked, faults>>

\* os.fsync: everything in the file is durable.
SyncLine(p) ==
    /\ pc[p] = "syncing"
    /\ synced' = Len(lines)
    /\ Goto(p, "returning")
    /\ UNCHANGED <<lock, held, expired, lines, tail, chained, calls, acked, faults>>

\* The end of file_lock, if p is inside one: close the handle and unlink.
Unlock(p) ==
    /\ held' = held \ {p}
    /\ lock' = (lock /\ p \notin held)

\* The append returns its event to the caller.
Return(p) ==
    /\ pc[p] = "returning"
    /\ Unlock(p)
    /\ acked' = acked \cup {chained[p]}
    /\ Goto(p, "idle")
    /\ UNCHANGED <<expired, log, chained, calls, faults>>

\* (mutant) the exception is swallowed
Raise_swallowed(p) ==
    /\ pc[p] = "raising"
    /\ Unlock(p)
    /\ acked' = acked \cup {chained[p]}
    /\ Goto(p, "idle")
    /\ UNCHANGED <<expired, log, chained, calls, faults>>

\* An exception leaves the append through the same finally clause.
Raise(p) ==
    /\ pc[p] = "raising"
    /\ Unlock(p)
    /\ Goto(p, "idle")
    /\ UNCHANGED <<expired, log, chained, calls, acked, faults>>

-----------------------------------------------------------------------------
(* Faults *)

Fault(kind) ==
    /\ kind \in Faults
    /\ faults < MaxFaults
    /\ faults' = faults + 1

\* A write, flush or fsync fails (disk full, I/O error).  Nothing, a part or,
\* when close flushes again what flush could not, all of the line is written.
DiskError(p) ==
    /\ Fault("disk")
    /\ \/ /\ pc[p] \in {"writing", "flushing", "syncing"}
          /\ UNCHANGED <<lines, tail>>
       \/ /\ pc[p] = "writing"
          /\ tail' = Append(tail, Text(chained[p])[1])
          /\ UNCHANGED lines
       \/ pc[p] = "writing" /\ FinishLine(Text(chained[p]))
       \/ pc[p] = "flushing" /\ FinishLine(<<Text(chained[p])[2]>>)
    /\ Goto(p, "raising")
    /\ UNCHANGED <<lock, held, expired, synced, chained, calls, acked>>

\* The process dies in the middle of a call; a successor makes its next calls.
\* What Python had buffered is lost, and the lock file stays.
Crash(p) ==
    /\ Fault("crash")
    /\ pc[p] # "idle"
    /\ Goto(p, "idle")
    /\ held' = held \ {p}
    /\ UNCHANGED <<lock, expired, log, chained, calls, acked>>

\* The machine loses power.  Beyond what fsync made durable, any prefix of
\* the file may survive.  Nothing syncs the directory, so the lock file may
\* or may not be there afterwards.
PowerLoss ==
    /\ Fault("power")
    /\ \E n \in synced..Len(lines) :
         LET rest == IF n < Len(lines) THEN SubSeq(lines[n + 1], 1, Len(lines[n + 1]) - 1)
                                       ELSE tail
         IN  /\ lines' = SubSeq(lines, 1, n)
             /\ \E m \in 0..Len(rest) : tail' = SubSeq(rest, 1, m)
             /\ synced' = n
    /\ pc' = [p \in Procs |-> "idle"]
    /\ lock' \in BOOLEAN
    /\ held' = {}
    /\ UNCHANGED <<expired, chained, calls, acked>>

\* An operator who has made sure that no writer is alive in its critical
\* section removes the lock file by hand; the code never does.
RemoveLock ==
    /\ ManualUnlock
    /\ lock
    /\ held = {}
    /\ lock' = FALSE
    /\ UNCHANGED <<pc, held, expired, log, chained, calls, acked, faults>>

-----------------------------------------------------------------------------
FileLock(p) == DeadlinePasses(p) \/ CreateLock(p) \/ LockTimeout(p)

AppendLine(p) ==
    \/ AppendShortLine(p) \/ AppendLongLine(p) \/ FlushLongLine(p) \/ SyncLine(p)

Step(p) ==
    \/ FileLock(p)
    \/ ReadAndChain(p) \/ ReadOrEncodeFails(p)
    \/ AppendLine(p)
    \/ Return(p) \/ Raise(p)

Next ==
    \/ \E p \in Procs : Call(p) \/ Step(p) \/ DiskError(p) \/ Crash(p)
    \/ PowerLoss
    \/ RemoveLock

Spec == Init /\ [][Next]_vars

\* A call in progress keeps running, and clocks advance.  Nothing obliges a
\* caller to call, a fault to happen or an operator to act.
Fairness == \A p \in Procs : WF_vars(Step(p)) /\ WF_vars(DeadlinePasses(p))

FairSpec == Spec /\ Fairness

-----------------------------------------------------------------------------
(* Properties *)

Places == {"idle", "locking", "reading", "writing", "flushing", "syncing",
           "returning", "raising"}

TypeOK ==
    /\ pc \in [Procs -> Places]
    /\ lock \in BOOLEAN
    /\ held \subseteq Procs
    /\ expired \in [Procs -> BOOLEAN]
    /\ IsSequence(lines) /\ \A i \in DOMAIN lines : IsSequence(lines[i])
    /\ IsSequence(tail)
    /\ synced \in 0..Len(lines)
    /\ DOMAIN chained = Procs
    /\ calls \in [Procs -> 0..MaxCalls]
    /\ \A e \in acked : e.sequence \in Nat
    /\ faults \in 0..MaxFaults

\* The places at which a process is inside its critical section.
Critical(p) ==
    IF LocksFirst(p)
    THEN pc[p] \in {"reading", "writing", "flushing", "syncing", "returning", "raising"}
    ELSE LocksLast(p) /\ pc[p] \in {"writing", "flushing", "syncing", "returning"}

\* file_lock excludes: two processes are never both between its yield and its
\* unlink, and the lock file exists as long as one is, so that no unlink ever
\* removes the lock of another process.
MutualExclusion ==
    /\ \A p, q \in Procs : Critical(p) /\ Critical(q) => p = q
    /\ \A p \in Procs : Critical(p) => lock /\ held = {p}

\* Whatever the writers did and whatever failed, a log that can be read is a
\* stream that ChainVerifier accepts.
LogVerifies == Readable => WellFormed(read_all, Stream)

\* An event whose append returned is where it says it is: the line at its
\* sequence number is exactly its text.
AckedInPlace ==
    \A e \in acked : e.sequence \in DOMAIN lines /\ lines[e.sequence] = Text(e)

\* Recorders that lock their writes may fork the chain, but do not destroy
\* each other's events: the text of every event returned is whole at the end
\* of a line.  It is all of the line, unless a write failed before it or its
\* writer died and left the log torn: a recorder that had read the log by
\* then goes on behind what is there, and read_all rejects that line.
AckedSurvive ==
    \A e \in acked : \E i \in DOMAIN lines :
        LET before == Len(lines[i]) - Len(Text(e)) IN
        /\ before >= 0 /\ SubSeq(lines[i], before + 1, Len(lines[i])) = Text(e)
        /\ before > 0 => faults > 0

\* A lock file that a crash left behind freezes the log for good: nobody
\* writes or removes the lock, every call times out, and no call returns an
\* event, until somebody removes the file by hand or the machine goes down.
StaleLockFreezesLog ==
    [][lock /\ held = {} => \/ lock' /\ UNCHANGED <<lines, tail, acked>>
                            \/ RemoveLock \/ PowerLoss]_vars

\* So does an incomplete last line that no process is about to complete:
\* from then on every append raises and the log stays as it is.  Removing
\* the lock does not help; only a loss of power may cut the line off.
Torn == tail # <<>> /\ \A p \in Procs : pc[p] # "flushing"

TornLineFreezesLog == [][Torn => UNCHANGED <<lines, tail>> \/ PowerLoss]_vars

\* file_lock has a deadline, so that no call waits for ever, not even for the
\* lock of a process that died: every call returns or raises.
EveryCallEnds == \A p \in Procs : pc[p] # "idle" ~> pc[p] = "idle"

\* append_chained implements the abstract stream: the events on the lines of
\* the log are the committed ones, and what a writer does between reading the
\* log and writing its line is invisible.
Abstract == INSTANCE AuditStream
                WITH Bodies    <- Procs \X (1..MaxCalls),
                     committed <- read_all,
                     returned  <- acked

ImplementsStream == Abstract!Spec
=============================================================================
