------------------------------ MODULE Privacy ------------------------------
(***************************************************************************)
(* redact_value (privacy.py), position by position.  The code calls itself *)
(* for the items of dicts and lists; here every position has its           *)
(* treatment, and the treatments above it say whether the recursion comes  *)
(* to it.  (NestedValues has the recursion itself and compares the two.)   *)
(*                                                                         *)
(* The code's path begins where the filter begins: `base` steps below the  *)
(* event.  A pattern of fnmatch is a record of kind and name, of one of    *)
(* three kinds: "key", a bare name; "below", as in "*.name"; "path", a     *)
(* dotted path.                                                            *)
(***************************************************************************)
EXTENDS JsonValues

CONSTANT
    ContentKeys   \* prompt, response, content, full_content

ASSUME KeysAssumption ==
    /\ Keys \cap Indices = {}
    /\ ContentKeys \subseteq Keys
    /\ {"data", "classification", "highest_classification"} \subseteq Keys \ ContentKeys

\* The text that replaces an item, and texts made of an item.
Replaced      == Text(<<"replacement">>)
HashOf(item)  == Text(<<"hash", item>>)
MaskOf(item)  == Text(<<"mask", item>>)
Excerpt(item) == Text(<<"excerpt", item>>)

\* The path the code has at a position: a list is "[]" in it.
path(position, base) ==
    [n \in 1..(Len(position) - base) |->
        IF position[base + n] \in Indices THEN "[]" ELSE position[base + n]]

\* _matches.
matches(position, base, patterns) ==
    \E p \in patterns :
        \/ p.kind = "key" /\ p.name = Last(position)
        \/ p.kind = "below" /\ p.name = Last(position) /\ Len(position) > base + 1
        \/ p.kind = "path" /\ p.name = path(position, base)

\* The keys that classify a dict; their values are never empty here.
ClassifyingKeys(value, dict) ==
    IF Append(dict, "classification") \in DOMAIN value THEN {"classification"}
    ELSE {key \in {"highest_classification"} : Append(dict, key) \in DOMAIN value}

IsClassified(value, dict, p) ==
    \E key \in ClassifyingKeys(value, dict) :
        value[Append(dict, key)] \in p.classification_redact

\* (mutant) the path of the dict is not looked at
classified_payload_anywhere(value, dict, base, p) ==
    /\ value[dict] = Dict
    /\ p.redact_classified_payloads
    /\ Len(dict) > base
    /\ IsClassified(value, dict, p)

\* _classified_payload_should_redact; the key "data" stands for every key
\* that ends so.
classified_payload(value, dict, base, p) ==
    /\ value[dict] = Dict
    /\ p.redact_classified_payloads
    /\ Len(dict) > base /\ Last(dict) = "data"
    /\ IsClassified(value, dict, p)

\* (mutant) an excerpt ends with an ellipsis
content_ellipsis(node, p) ==
    IF p.mode = "full-content" /\ p.allow_full_content THEN "keep"
    ELSE IF p.mode = "balanced" THEN "excerpt"
    ELSE "replace"

\* Is the excerpt of an item the item itself?  The replacement is shorter
\* than safe_excerpt_chars.
IsShort(node) == node = Replaced \/ (node.kind = "json" /\ node.text[1] = "excerpt")

\* What becomes of a content key's item, given what stands at its position.
\* An excerpt is a prefix of its text, which shows what the item holds.
content(node, p) ==
    IF p.mode = "full-content" /\ p.allow_full_content THEN "keep"
    ELSE IF p.mode = "balanced" THEN IF IsShort(node) THEN "keep" ELSE "excerpt"
    ELSE "replace"

\* (mutant) content keys come before the secret ones
Rule_content_first(position, base, p) ==
    IF matches(position, base, p.omit) THEN "omit"
    ELSE IF Last(position) \in ContentKeys THEN "content"
    ELSE IF matches(position, base, p.hash) THEN "hash"
    ELSE IF matches(position, base, p.mask) THEN "mask"
    ELSE IF matches(position, base, p.redact) THEN "replace"
    ELSE "descend"

\* The first rule that applies to a dict's item.
Rule(position, base, p) ==
    IF matches(position, base, p.omit) THEN "omit"
    ELSE IF matches(position, base, p.hash) THEN "hash"
    ELSE IF matches(position, base, p.mask) THEN "mask"
    ELSE IF matches(position, base, p.redact) THEN "replace"
    ELSE IF Last(position) \in ContentKeys THEN "content"
    ELSE "descend"

\* What the recursion does with what it finds at a position; "keep" copies
\* all of an item, "descend" calls redact_value for it.
Treatment(value, position, base, p) ==
    IF Len(position) <= base THEN "descend"
    ELSE IF classified_payload(value, Parent(position), base, p)
    THEN IF Last(position) = "classification" THEN "keep" ELSE "replace"
    ELSE IF Last(position) \in Indices THEN "descend"
    ELSE IF Rule(position, base, p) = "content" THEN content(value[position], p)
    ELSE Rule(position, base, p)

\* The recursion comes to the position: it descends into all that is above.
Reached(value, position, base, p) ==
    \A n \in 0..(Len(position) - 1) : Treatment(value, Upto(position, n), base, p) = "descend"

\* The position is inside an item that is copied.
Copied(value, position, base, p) ==
    \E n \in 0..(Len(position) - 1) :
        /\ Reached(value, Upto(position, n), base, p)
        /\ Treatment(value, Upto(position, n), base, p) = "keep"

\* What is put where the recursion comes to.
Given(value, position, base, p) ==
    LET treatment == Treatment(value, position, base, p) IN
    IF treatment = "hash" THEN HashOf(Item(value, position))
    ELSE IF treatment = "mask" THEN MaskOf(Item(value, position))
    ELSE IF treatment = "excerpt" THEN Excerpt(Item(value, position))
    ELSE IF treatment = "replace" THEN Replaced
    ELSE value[position]

\* The positions of the result.
Left(value, base, p) ==
    {q \in DOMAIN value :
        \/ Reached(value, q, base, p) /\ Treatment(value, q, base, p) # "omit"
        \/ Copied(value, q, base, p)}

redact_value(value, base, p) ==
    [q \in Left(value, base, p) |->
        IF Reached(value, q, base, p) THEN Given(value, q, base, p) ELSE value[q]]
=============================================================================
