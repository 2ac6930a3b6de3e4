------------------------------- MODULE Codec -------------------------------
(***************************************************************************)
(* Canonical values (canonical.py, time.py), and the line that pydantic    *)
(* writes of an event and reads back (storage.py): what the digest of an   *)
(* event is computed of, before it is stored and when it is verified.      *)
(* Both keep dicts and lists and convert every leaf by itself.             *)
(***************************************************************************)
EXTENDS JsonValues

CONSTANT
    Precision   \* digits of the decimal context

ASSUME PrecisionAssumption == Precision \in Nat \ {0}

\* The text of a decimal: its digits, the zeros appended to them (the point is
\* moved to the left if this is negative), the digits after the point.
Fixed(v, shift, places) == Text(<<"fixed", v.number, shift, places>>)
Scientific(v) == Text(<<"scientific", v.number, v.zeros, v.exponent>>)

\* Does str(Decimal) write an exponent?  The coefficient of zero has a digit.
IsScientific(v) ==
    \/ v.exponent > 0
    \/ v.exponent + v.digits + v.zeros + (IF v.digits = 0 THEN 1 ELSE 0) < -5

str(v) == IF IsScientific(v) THEN Scientific(v) ELSE Fixed(v, v.zeros + v.exponent, -v.exponent)

\* (mutant) str in place of format: numbers such as 100 get an exponent
format_f_str(v) ==
    str([v EXCEPT !.zeros = 0, !.exponent = IF v.digits = 0 THEN 0 ELSE v.zeros + v.exponent])

\* format(value.normalize(), "f"): rounded to the precision, without the zeros
\* after the last digit, without an exponent.
format_f(v) ==
    IF v.digits > Precision THEN Text(<<"rounded", v.number, v.zeros + v.exponent>>)
    ELSE IF v.digits = 0 THEN Fixed(v, 0, 0)
    ELSE Fixed(v, v.zeros + v.exponent, IF v.zeros + v.exponent < 0 THEN -(v.zeros + v.exponent) ELSE 0)

\* The text of bytes; there is one of no bytes.
Octets(form, v) == Text(IF v.octets = <<>> THEN <<"str", "">> ELSE <<form, v.octets>>)

\* format_rfc3339: in UTC, to the microsecond.
format_rfc3339(v) == <<"time", v.moment, "micros", "utc">>

\* normalize_for_json of a leaf that it does not reject, and of a branch.
normalize_node(v) ==
    IF v.kind = "decimal" THEN format_f(v)
    ELSE IF v.kind = "datetime" THEN Text(format_rfc3339(v))
    ELSE IF v.kind = "date" THEN Text(<<"day", v.day>>)
    ELSE IF v.kind = "bytes" THEN Octets("hex", v)
    ELSE v

\* model_dump_json: str(Decimal), the ISO text of a time, bytes as UTF-8.
dump_node(v) ==
    IF v.kind = "decimal" THEN str(v)
    ELSE IF v.kind = "datetime"
    THEN Text(<<"time", v.moment, IF v.micros THEN "micros" ELSE "seconds",
                                  IF v.utc THEN "utc" ELSE "offset">>)
    ELSE IF v.kind = "date" THEN Text(<<"day", v.day>>)
    ELSE IF v.kind = "bytes" THEN Octets("utf8", v)
    ELSE v

\* Every leaf is supported: no CanonicalizationError.  (normalize_for_json
\* rejects at any depth.)
Supported(value) == \A q \in DOMAIN value : value[q].kind # "unsupported"

\* A JSON line can be written: model_dump_json raises for bytes that are not
\* UTF-8.
Writable(value) == \A q \in DOMAIN value : value[q].kind = "bytes" => value[q].utf8

normalize_for_json(value) == [q \in DOMAIN value |-> normalize_node(value[q])]

\* What read_all gives for the line _event_line made: texts stay texts.
reloaded(value) == [q \in DOMAIN value |-> dump_node(value[q])]
=============================================================================
