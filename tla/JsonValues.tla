----------------------------- MODULE JsonValues -----------------------------
(***************************************************************************)
(* The data of an event, from the Python value a caller passes to the JSON *)
(* of a log.  A value is a function on the positions in it.  A position is *)
(* the sequence of steps that lead to it: a key for every dict, a member   *)
(* of Indices for every list.  At a position stands a branch, Dict or      *)
(* List, or one of the leaves                                              *)
(*   [kind |-> "json", text]              str, int, float, bool, None:     *)
(*                                        its form and what it says        *)
(*   [kind |-> "decimal", number, digits, zeros, exponent]                 *)
(*                                        the significant digits and their *)
(*                                        count (none for zero), the zeros *)
(*                                        at the end, the power of ten     *)
(*   [kind |-> "datetime", moment, micros, utc]                            *)
(*                                        has it a fraction of a second,   *)
(*                                        is its zone UTC?                 *)
(*   [kind |-> "bytes", octets, utf8]     a sequence; is it UTF-8 text?    *)
(*   [kind |-> "date", day]                                                *)
(*   [kind |-> "unsupported", text]       a set, UUID, NaN or naive time   *)
(***************************************************************************)
EXTENDS Integers, Sequences, FiniteSets

CONSTANTS
    Keys,     \* the keys of dicts
    Indices   \* the steps from a list to its items

Steps == Keys \cup Indices

Dict == [kind |-> "dict"]
List == [kind |-> "list"]
IsBranch(node) == node.kind \in {"dict", "list"}

Text(form) == [kind |-> "json", text |-> form]

\* The first n steps of a position; the position of the dict or list it is
\* in; its last step.
Upto(position, n) == SubSeq(position, 1, n)
Parent(position)  == Upto(position, Len(position) - 1)
Last(position)    == position[Len(position)]

\* Above every position there are branches, up to the whole.
IsValue(value) ==
    /\ DOMAIN value \subseteq Seq(Steps)
    /\ \A q \in DOMAIN value : \A n \in 0..(Len(q) - 1) :
          Upto(q, n) \in DOMAIN value /\ IsBranch(value[Upto(q, n)])

\* The part of a value at a position.
Item(value, position) ==
    [q \in {q \in DOMAIN value :
                Len(q) >= Len(position) /\ Upto(q, Len(position)) = position} |-> value[q]]
=============================================================================
