---------------------------- MODULE AuditStream ----------------------------
(***************************************************************************)
(* What an append-only audit stream promises its callers, with no mention  *)
(* of locks, files, processes or faults: the committed events form one     *)
(* hash chain that grows at its end, an append returns only an event that  *)
(* is committed, and a failure of the machine can drop events from the     *)
(* end, but none that was returned.                                        *)
(***************************************************************************)
EXTENDS AuditChain

CONSTANTS Stream, Bodies

VARIABLES
    committed,  \* the events of the stream, in order
    returned    \* the events handed back to their callers

Init == committed = <<>> /\ returned = {}

\* An event becomes the next link of the chain.
Commit ==
    /\ \E body \in Bodies :
         committed' = Append(committed, chain_next(committed, body, Stream))
    /\ UNCHANGED returned

\* An append returns an event that is committed.
Acknowledge ==
    /\ \E i \in DOMAIN committed : returned' = returned \cup {committed[i]}
    /\ UNCHANGED committed

\* Events that no caller has seen returned are lost, from the end.
Lose ==
    /\ \E n \in 0..Len(committed) : committed' = SubSeq(committed, 1, n)
    /\ \A e \in returned : \E i \in DOMAIN committed' : committed'[i] = e
    /\ UNCHANGED returned

Next == Commit \/ Acknowledge \/ Lose

Spec == Init /\ [][Next]_<<committed, returned>>
=============================================================================
