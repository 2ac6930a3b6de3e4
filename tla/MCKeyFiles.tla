----------------------------- MODULE MCKeyFiles -----------------------------
(***************************************************************************)
(* An instance of KeyFiles for TLC: two processes that share both paths,   *)
(* a third that forces, and a fourth whose public path is the private path *)
(* of the third.                                                           *)
(***************************************************************************)
EXTENDS KeyFiles, TLC

CONSTANTS p1, p2, p3, p4, a, b, c, pub, pub2

FourProcesses == {p1, p2, p3, p4}
FivePaths     == {a, b, c, pub, pub2}
SharedPrivate == (p1 :> a) @@ (p2 :> a) @@ (p3 :> b) @@ (p4 :> c)
SharedPublic  == (p1 :> pub) @@ (p2 :> pub) @@ (p3 :> pub2) @@ (p4 :> b)
ThirdForces   == {p3}
=============================================================================
