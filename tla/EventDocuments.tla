--------------------------- MODULE EventDocuments ---------------------------
(***************************************************************************)
(* JSON documents of events: the migration of early ones (migration.py),   *)
(* what AuditEvent accepts (models.py, ids.py) and what it becomes when it *)
(* is written again.  A document is a function from the names of its       *)
(* fields to their values:                                                 *)
(*   schema_version  [type, text], a JSON string or number                 *)
(*   id              [uuid, form], uuid None if the text is no UUID        *)
(*   times           [moment, zone], zone "naive" or "number" if no        *)
(*                   timestamp in a time zone                              *)
(*   event type, classification    the parts between its dots              *)
(* source, actor, correlation, ..., extensions are valid in themselves:    *)
(* "source", "actor" and "extensions" stand for them.                      *)
(***************************************************************************)
EXTENDS Integers, Sequences

CONSTANTS
    None,             \* JSON null
    CoreTypes,        \* CORE_EVENT_TYPES
    Reserved,         \* RESERVED_NAMESPACES
    Statuses,         \* OUTCOME_STATUSES
    Classifications   \* CLASSIFICATIONS

-----------------------------------------------------------------------------
(* migration.py *)

SCHEMA_VERSION == [type |-> "string", text |-> "1.0"]

aliases == [id |-> "event_id", type |-> "event_type", timestamp |-> "event_time",
            recorded_at |-> "recorded_time", payload |-> "data"]

\* str(document.get("schema_version", "0.1"))
source_version(d) == IF "schema_version" \in DOMAIN d THEN d.schema_version.text ELSE "0.1"

IsCurrent(d)    == source_version(d) = SCHEMA_VERSION.text
Migratable(d)   == IsCurrent(d) \/ source_version(d) \in {"0.1", "1", "1.0-alpha"}

\* (mutant) an old name gives way to the new one
renamed_always(d) == DOMAIN aliases \cap DOMAIN d

\* The old names that are replaced: those whose new name is not there.
renamed(d) == {old \in DOMAIN aliases \cap DOMAIN d : aliases[old] \notin DOMAIN d}

\* (mutant) a document without a version is stamped and its names are kept
migrate_event_document_stamping(d) ==
    IF IsCurrent(d) THEN d
    ELSE [n \in DOMAIN d \cup {"schema_version"} |->
             IF n = "schema_version" THEN SCHEMA_VERSION ELSE d[n]]

migrate_event_document(d) ==
    IF IsCurrent(d) THEN d
    ELSE [n \in (DOMAIN d \ renamed(d)) \cup {aliases[old] : old \in renamed(d)}
                \cup {"schema_version"} |->
             IF n = "schema_version" THEN SCHEMA_VERSION
             ELSE IF n \in DOMAIN d THEN d[n]
             ELSE d[CHOOSE old \in renamed(d) : aliases[old] = n]]

-----------------------------------------------------------------------------
(* models.py: AuditEvent *)

Required == {"event_id", "event_type", "event_time", "recorded_time", "source", "actor",
             "outcome"}
Optional == {"schema_version", "subject", "data", "integrity", "extensions"}

validate_event_id(id) == id.uuid # None
validate_event_type(t) == t \in CoreTypes \/ (Len(t) >= 3 /\ t[1] \notin Reserved)
parse_time(t) == t.zone \in {"utc", "offset"}
validate_sequence(integrity) == integrity.sequence # None => integrity.sequence >= 1
validate_classification(c) == c = None \/ c \in Classifications \/ Len(c) > 1

\* model_validate accepts the document: all required fields, no others, and
\* every validator content.  A failure of any kind leaves as an exception.
Accepts(d) ==
    /\ Required \subseteq DOMAIN d /\ DOMAIN d \subseteq Required \cup Optional
    /\ \A n \in DOMAIN d : d[n] = None => n = "subject"
    /\ "schema_version" \in DOMAIN d => d.schema_version = SCHEMA_VERSION
    /\ validate_event_id(d.event_id)
    /\ validate_event_type(d.event_type)
    /\ parse_time(d.event_time) /\ parse_time(d.recorded_time)
    /\ d.outcome \in Statuses
    /\ "subject" \in DOMAIN d /\ d.subject # None => validate_classification(d.subject.classification)
    /\ "integrity" \in DOMAIN d => validate_sequence(d.integrity)

\* str(UUID(value)), and a time in UTC.
canonical(id) == [id EXCEPT !.form = "canonical"]
require_aware_utc(t) == [t EXCEPT !.zone = "utc"]

\* What a field that is not there becomes; a required one always is there.
Default == [schema_version |-> SCHEMA_VERSION, subject |-> None, data |-> "empty",
            integrity |-> [sequence |-> None], extensions |-> "empty"]

\* The event of an accepted document: the canonical form of the UUID, times
\* in UTC, defaults for what is not there.
AuditEvent(d) ==
    [n \in Required \cup Optional |->
        IF n \notin DOMAIN d THEN Default[n]
        ELSE IF n = "event_id" THEN canonical(d[n])
        ELSE IF n \in {"event_time", "recorded_time"} THEN require_aware_utc(d[n])
        ELSE d[n]]

\* (mutant) the text has no zone
serialize_time_naive(t) == [t EXCEPT !.zone = "naive"]

serialize_time(t) == require_aware_utc(t)

\* model_dump and model_dump_json with exclude_none.
model_dump(e) ==
    [n \in {m \in DOMAIN e : e[m] # None} |->
        IF n \in {"event_time", "recorded_time"} THEN serialize_time(e[n]) ELSE e[n]]
=============================================================================
