--------------------------- MODULE EventPipeline ---------------------------
(***************************************************************************)
(* The data of one event on its way: EventBuilder.create filters it        *)
(* (builder.py), append_integrity digests it (chain.py), the log stores it *)
(* and gives it back (storage.py), `verify` digests it again and `redact`  *)
(* exports it (cli.py).  The rest of the event has the same form all the   *)
(* way and is left out.                                                    *)
(***************************************************************************)
EXTENDS Codec, Privacy

CONSTANTS
    Payloads,     \* events, each with the data a caller passes
    Profiles,     \* privacy profiles of builder and export
    None

\* Where the data of an event is.
Data == <<"data">>

ASSUME ProfilesAssumption ==
    \A p \in Profiles :
        /\ p.mode \in {"minimal", "balanced", "full-content"}
        /\ p.allow_full_content \in BOOLEAN
        /\ p.redact_classified_payloads \in BOOLEAN
        /\ \A text \in p.classification_redact : text.kind = "json"
        /\ \A pattern \in p.omit \cup p.hash \cup p.mask \cup p.redact :
              pattern.kind \in {"key", "below", "path"}

\* The value of an event: there is nothing beside its data.
IsEvent(value) ==
    /\ IsValue(value)
    /\ \A q \in DOMAIN value : q # <<>> => q[1] = "data"

ASSUME PayloadsAssumption ==
    /\ None \notin Payloads
    /\ \A payload \in Payloads :
          /\ IsEvent(payload)
          /\ {<<>>, Data} \subseteq DOMAIN payload
          /\ payload[Data] = Dict
          /\ \A q \in DOMAIN payload : payload[q].kind = "decimal" =>
                /\ {payload[q].digits, payload[q].zeros} \subseteq Nat
                /\ payload[q].exponent \in Int
                /\ payload[q].digits = 0 => payload[q].zeros = 0

VARIABLES
    data,      \* the event with what the caller passes to EventBuilder.create
    profile,   \* the profile in use
    pc,        \* where the event is
    event,     \* the event there, None before
    digest,    \* the canonical value under its event_digest, None before
    exported   \* the export, None before

vars == <<data, profile, pc, event, digest, exported>>

-----------------------------------------------------------------------------
Init ==
    /\ data \in Payloads
    /\ profile \in Profiles
    /\ pc = "new"
    /\ event = None
    /\ digest = None
    /\ exported = None

\* A payload that payload_for_event accepts is filtered by itself, with an
\* empty path: one step below the event.
create ==
    /\ pc = "new"
    /\ event' = redact_value(data, 1, profile)
    /\ pc' = "built"
    /\ UNCHANGED <<data, profile, digest, exported>>

\* append_integrity digests the values in memory, or raises.
append_integrity ==
    /\ pc = "built"
    /\ \/ /\ Supported(event)
          /\ digest' = normalize_for_json(event)
          /\ pc' = "chained"
       \/ /\ ~Supported(event)
          /\ pc' = "rejected"
          /\ UNCHANGED digest
    /\ UNCHANGED <<data, profile, event, exported>>

\* JsonlStore.append, which may raise, and read_all by a later command.
store_and_read ==
    /\ pc = "chained"
    /\ \/ /\ Writable(event)
          /\ event' = reloaded(event)
          /\ pc' = "read"
       \/ /\ ~Writable(event)
          /\ pc' = "rejected"
          /\ UNCHANGED event
    /\ UNCHANGED <<data, profile, digest, exported>>

\* (mutant) the export filters the data alone, as the builder does
ExportOf_data(value) == redact_value(value, 1, profile)

\* An export filters the whole event.
ExportOf(value) == redact_value(value, 0, profile)

redact ==
    /\ pc = "read"
    /\ exported = None
    /\ exported' = ExportOf(event)
    /\ UNCHANGED <<data, profile, pc, event, digest>>

Next == create \/ append_integrity \/ store_and_read \/ redact

Spec == Init /\ [][Next]_vars

-----------------------------------------------------------------------------
(* Properties *)

\* The positions whose leaves are still there, or in an excerpt.
Shown(value) ==
    {q \in DOMAIN value :
        /\ ~IsBranch(value[q])
        /\ ~(value[q].kind = "json" /\ value[q].text[1] \in {"replacement", "hash", "mask"})}

\* The keys on the way to a position in the data, its own included.
KeysAbove(q) == {q[n] : n \in 2..Len(q)} \ Indices

Patterns(p) == p.omit \cup p.hash \cup p.mask \cup p.redact

\* The names of a profile's patterns of a kind.  A classified dict keeps its
\* classification even if a rule names it.
NamesOf(p, kind) ==
    {q.name : q \in {pattern \in Patterns(p) : pattern.kind = kind}} \ {"classification"}

\* Does the profile name the n-th step to a position?  "*.name" names a key
\* below another key of the data.
Named(q, n, p) ==
    /\ q[n] \notin Indices
    /\ q[n] \in NamesOf(p, "key") \/ (n > 2 /\ q[n] \in NamesOf(p, "below"))

\* Does the mode give the text of a content key, or the beginning of it?
GivesContent(p) == p.mode = "balanced" \/ (p.mode = "full-content" /\ p.allow_full_content)

\* Every step to a position that is named or a content key is, or is below, a
\* content key that is not named itself, and the mode gives its content.
Permitted(q, p) ==
    \A n \in 2..Len(q) : Named(q, n, p) \/ q[n] \in ContentKeys =>
        /\ GivesContent(p)
        /\ \E m \in 2..n : q[m] \in ContentKeys /\ ~Named(q, m, p)

\* What stands below a key that the profile names is not in the event, its log
\* or its export, at any depth and through lists, even if it is a content key;
\* neither is what stands below a content key, unless the mode is balanced, or
\* full content and that is allowed.  Such a mode gives all that is below a
\* content key that is not named.
NothingNamedIsShown ==
    \A value \in {event, exported} \ {None} : \A q \in Shown(value) : Permitted(q, profile)

\* Nothing that no rule names is lost: a leaf of the caller's data with none of
\* a profile's keys and none of its dotted paths above it is in the event, at
\* the same position.  Where a profile withholds classified payloads, as all
\* built-in ones do, this is said of the leaves that no dict above is withheld
\* with: none under a key "data", below the event's own, has a classification
\* to withhold.
UnnamedIsKept ==
    pc = "built" =>
        \A q \in Shown(data) :
            /\ profile.redact_classified_payloads => \A n \in 2..(Len(q) - 1) :
                  q[n] = "data" => ~IsClassified(data, Upto(q, n), profile)
            /\ KeysAbove(q) \cap (ContentKeys \cup
                  {p.name : p \in {r \in Patterns(profile) : r.kind # "path"}}) = {}
            /\ \A r \in Patterns(profile) : r.kind = "path" =>
                  \A n \in 2..Len(q) : r.name # path(Upto(q, n), 1)
            => q \in DOMAIN event /\ event[q] = data[q]

\* An export says the same whether or not the event was filtered when it was
\* made: filtering twice loses nothing more and shows nothing more.  Excepted
\* are hashes and masks, which are taken of what is there; dotted paths, which
\* mean one thing in the builder and another in an export; rules for the
\* classification itself; and, where classified data is withheld, omission,
\* since what was omitted cannot be replaced.
ExportAgrees ==
    exported # None /\ data = reloaded(data)
    /\ profile.hash = {} /\ profile.mask = {}
    /\ (profile.redact_classified_payloads => profile.omit = {})
    /\ (\A p \in Patterns(profile) :
          p.kind # "path" /\ p.name \notin {"classification", "highest_classification"})
    => exported = ExportOf(data)

\* Of data with a classification in classification_redact an export gives
\* only the classification, unless the builder already had a rule for it.
\* (The builder, which filters below "data", gives all of it to the log.)
ClassifiedWithheld ==
    /\ exported # None
    /\ profile.redact_classified_payloads
    /\ IsClassified(data, Data, profile)
    /\ \A key \in ClassifyingKeys(data, Data) : Rule(Append(Data, key), 1, profile) = "descend"
    => \A q \in Shown(exported) : KeysAbove(q) \subseteq {"classification"}

\* A decimal of which there is one text: str writes no exponent, nothing is
\* rounded, and no digit after its point is a zero at the end.
PlainDecimal(v) ==
    /\ ~IsScientific(v)
    /\ v.digits <= Precision
    /\ v.exponent < 0 => v.digits > 0 /\ v.zeros = 0

\* Values that mean to Python what they mean to JSON.
Plain(value) ==
    \A q \in DOMAIN value :
        /\ value[q].kind = "bytes" => value[q].octets = <<>>
        /\ value[q].kind = "decimal" => PlainDecimal(value[q])
        /\ value[q].kind = "datetime" => value[q].micros /\ value[q].utc

\* event_digest(event) = integrity.event_digest, as `verify` checks it.
Verifies == normalize_for_json(event) = digest

\* An event read back from the log verifies exactly if its data was plain.
\* (An event with other data fails verification although nobody changed it.)
PlainVerifies == [][pc = "chained" /\ pc' = "read" => (Verifies' <=> Plain(event))]_vars
=============================================================================
