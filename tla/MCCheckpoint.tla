---------------------------- MODULE MCCheckpoint ----------------------------
(***************************************************************************)
(* An instance of Checkpoint for TLC: two keys, of which the policy knows  *)
(* one under the id it allows and the other under an id it does not.       *)
(***************************************************************************)
EXTENDS Checkpoint, TLC

CONSTANTS p1, p2, k1, k2

TwoProcesses == {p1, p2}
TwoKeys      == {k1, k2}

TwoIds       == {"release", "test"}
OnlyRelease  == {"release"}
Anybody      == {}
BothKnown    == ("release" :> k1) @@ ("test" :> k2)

OneEvent(stream)  == <<chain_next(<<>>, 1, stream)>>
TwoEvents(stream) == Append(OneEvent(stream), chain_next(OneEvent(stream), 2, stream))

\* A stream with a name, and one whose name is empty.
NamedOrNot   == {TwoEvents("default"), OneEvent("")}
OneStream    == {"default"}

AllEdits     == {"append", "cut", "rewrite", "rotate", "damage", "sign_event", "forge"}

Processes    == Permutations(Procs)
=============================================================================
