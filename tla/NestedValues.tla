---------------------------- MODULE NestedValues ----------------------------
(***************************************************************************)
(* Values as a program has them, one inside the other: [dict |-> f] with f *)
(* a function from keys to values, [list |-> <<values>>] and               *)
(* [leaf |-> node]; redact_value on them, which calls itself as the code   *)
(* does; and the function on positions that a nested value is in the other *)
(* modules.  That both ways of filtering agree is evaluated for the        *)
(* payloads of a model.                                                    *)
(***************************************************************************)
EXTENDS EventPipeline

CONSTANTS
    Nested,   \* payloads as nested values
    Index     \* the step to an item of a list: Nat -> Indices

\* The nodes of a nested value that stands at a position.
RECURSIVE NodesOf(_, _)
FlatFrom(value, position) ==
    [q \in {entry[1] : entry \in NodesOf(value, position)} |->
        (CHOOSE entry \in NodesOf(value, position) : entry[1] = q)[2]]
NodesOf(value, position) ==
    IF "dict" \in DOMAIN value
    THEN {<<position, Dict>>} \cup
         UNION {NodesOf(value.dict[k], Append(position, k)) : k \in DOMAIN value.dict}
    ELSE IF "list" \in DOMAIN value
    THEN {<<position, List>>} \cup
         UNION {NodesOf(value.list[i], Append(position, Index[i])) : i \in DOMAIN value.list}
    ELSE IF "of" \in DOMAIN value.leaf
    THEN {<<position, Text(<<value.leaf.text, FlatFrom(value.leaf.of, position)>>)>>}
    ELSE {<<position, value.leaf>>}

\* A text made of an item.
Made(text, item) == [leaf |-> [kind |-> "json", text |-> text, of |-> item]]

\* The event with a payload; the data of an event.
Event(payload) == [dict |-> [data |-> payload]]

RECURSIVE redact_nested(_, _, _, _)
redact_nested(value, p, position, base) ==
    LET At(key) == Append(position, key)
        Item_(key) == value.dict[key]
        Kept(key) == Rule(At(key), base, p) # "omit"
        Content(key) == content(FlatFrom(Item_(key), At(key))[At(key)], p)
        Redacted(key) ==
          CASE Rule(At(key), base, p) = "hash"    -> Made("hash", Item_(key))
            [] Rule(At(key), base, p) = "mask"    -> Made("mask", Item_(key))
            [] Rule(At(key), base, p) = "replace" -> [leaf |-> Replaced]
            [] Rule(At(key), base, p) = "descend" -> redact_nested(Item_(key), p, At(key), base)
            [] Rule(At(key), base, p) = "content" ->
                 CASE Content(key) = "keep"    -> Item_(key)
                   [] Content(key) = "excerpt" -> Made("excerpt", Item_(key))
                   [] Content(key) = "replace" -> [leaf |-> Replaced]
    IN  IF "dict" \in DOMAIN value
        THEN IF classified_payload(FlatFrom(value, position), position, base, p)
             THEN [dict |-> [key \in DOMAIN value.dict |->
                       IF key = "classification" THEN Item_(key) ELSE [leaf |-> Replaced]]]
             ELSE [dict |-> [key \in {k \in DOMAIN value.dict : Kept(k)} |-> Redacted(key)]]
        ELSE IF "list" \in DOMAIN value
        THEN [list |-> [i \in DOMAIN value.list |->
                  redact_nested(value.list[i], p, At(Index[i]), base)]]
        ELSE value

\* Filtering position by position is what the recursion does, in the builder
\* and in the export.
ASSUME RecursionAgrees ==
    \A payload \in Nested, p \in Profiles :
        /\ redact_value(FlatFrom(Event(payload), <<>>), 1, p) =
           FlatFrom(Event(redact_nested(payload, p, Data, 1)), <<>>)
        /\ redact_value(FlatFrom(Event(payload), <<>>), 0, p) =
           FlatFrom(redact_nested(Event(payload), p, <<>>, 0), <<>>)
=============================================================================
