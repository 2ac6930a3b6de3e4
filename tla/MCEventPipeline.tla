-------------------------- MODULE MCEventPipeline --------------------------
(***************************************************************************)
(* EventPipeline on payloads of up to three levels with one key of every   *)
(* kind, and on payloads with leaves of every kind, under the built-in     *)
(* profiles, the one in examples/privacy and ones that omit, hash, mask    *)
(* and name a dotted path.                                                 *)
(***************************************************************************)
EXTENDS NestedValues

MCContentKeys == {"prompt"}
MCIndices == {"[1]", "[2]"}
MCIndex   == <<"[1]", "[2]">>
Marks == {"classification", "highest_classification"}

String(s) == [leaf |-> Text(<<"str", s>>)]
Scalar(key) == String(IF key \in Marks THEN "restricted" ELSE "s")

Dicts(keys) == {[dict |-> [key \in ks |-> Scalar(key)]] : ks \in
                  {ks \in SUBSET keys : Cardinality(ks) <= 2}}

MCKeys == {"api_key", "prompt", "data", "raw", "note"} \cup Marks
Inner  == MCKeys \ Marks

Flat    == Dicts(MCKeys)
Values  == Flat \cup {[list |-> <<d, String("s")>>] : d \in Flat}
Wrapped == {[dict |-> [key \in {k} |-> v]] : k \in Inner, v \in Values}
Deep    == {[dict |-> [key \in {k} |-> v]] : k \in Inner, v \in Wrapped}
Mixed   == {[dict |-> [key \in {k, l} |-> IF key = k THEN v ELSE Scalar(key)]] :
              k \in Inner, l \in MCKeys, v \in Flat}

Decimal(number, digits, zeros, exponent) ==
    [kind |-> "decimal", number |-> number, digits |-> digits, zeros |-> zeros,
     exponent |-> exponent]

\* 1.5, 1.50, 100, 1E+3, 1E-7, 0.000001, 0, 0.0 and one digit too many.
Leaves ==
    [kind : {"json"}, text : {<<"str", "1">>, <<"int", "1">>}] \cup
    {Decimal("15", 2, 0, -1), Decimal("15", 2, 1, -2), Decimal("1", 1, 2, 0),
     Decimal("1", 1, 0, 3), Decimal("1", 1, 0, -7), Decimal("1", 1, 0, -6),
     Decimal("0", 0, 0, 0), Decimal("0", 0, 0, -1), Decimal("123", 3, 0, 0)} \cup
    [kind : {"datetime"}, moment : {"noon"}, micros : BOOLEAN, utc : BOOLEAN] \cup
    {[kind |-> "bytes", octets |-> o, utf8 |-> o # <<"255">>] : o \in {<<>>, <<"97">>, <<"255">>}} \cup
    [kind : {"date"}, day : {"monday"}] \cup
    [kind : {"unsupported"}, text : {"set"}]

LeafValues == {[leaf |-> l] : l \in Leaves}
LeafDicts  == {[dict |-> [note |-> v, prompt |-> w]] : v, w \in LeafValues}
LeafLists  == {[dict |-> [data |-> [list |-> <<d>>]]] : d \in LeafDicts}

MCNested   == Flat \cup Wrapped \cup Deep \cup Mixed \cup LeafDicts \cup LeafLists
MCPayloads == {FlatFrom(Event(payload), <<>>) : payload \in MCNested}

Key(name)   == [kind |-> "key", name |-> name]
Below(name) == [kind |-> "below", name |-> name]

Minimal == [mode |-> "minimal", allow_full_content |-> FALSE,
            redact_classified_payloads |-> TRUE,
            classification_redact |-> {Text(<<"str", "restricted">>)},
            omit |-> {}, hash |-> {}, mask |-> {}, redact |-> {Key("api_key")}]

Balanced == [Minimal EXCEPT !.mode = "balanced",
                            !.redact = @ \cup {Below("raw")}, !.mask = {Below("note")}]
Excerpts == [Balanced EXCEPT !.mask = {}]
FullContent == [Minimal EXCEPT !.mode = "full-content", !.allow_full_content = TRUE]
NotAllowed  == [FullContent EXCEPT !.allow_full_content = FALSE]
Example     == [Minimal EXCEPT !.hash = {Below("note")}]
Omitting    == [Minimal EXCEPT !.omit = {Key("note")}, !.redact_classified_payloads = FALSE]
Masking     == [Minimal EXCEPT !.mask = {Key("note")}, !.redact_classified_payloads = FALSE]
Classifying == [Minimal EXCEPT !.redact = @ \cup {Key("classification"), Below("raw")}]
Dotted      == [Minimal EXCEPT !.redact = {[kind |-> "path", name |-> <<"data", "note">>]},
                                 !.redact_classified_payloads = FALSE]

\* Content keys that are named: the others of a mode are given.
NamedContent == [Balanced EXCEPT !.redact = @ \cup {Key("prompt")}]
MaskedContent == [FullContent EXCEPT !.mask = {Key("prompt")}]

MCProfiles == {Minimal, Balanced, Excerpts, FullContent, NotAllowed, Example, Omitting,
               Masking, Classifying, Dotted, NamedContent, MaskedContent}
=============================================================================
