--------------------------- MODULE UnleashEvaluation ---------------------------
(***************************************************************************)
(* How the Unleash provider turns what its client says of a flag into what *)
(* the caller asked for (unleash/flag_evaluation.py).  A payload's value   *)
(* is abstracted to what Python's conversions make of it.                  *)
(***************************************************************************)

VariantTypes == {"string", "integer", "float", "object"}
Types        == VariantTypes \cup {"boolean"}

\* The text of a payload: no number and no JSON, "42", "4.2", "true", "{...}".
\* "missing" is a payload without a value, "absent" a variant without payload.
Texts    == {"text", "integer", "float", "boolean", "object"}
Variants == [enabled : BOOLEAN, payload : Texts \cup {"missing", "absent"}]

\* What the client knows of a toggle.
Toggles == {"on", "off", "unknown"}

Outcome(value, reason) == [value |-> value, reason |-> reason]
Matched(value)         == Outcome(value, "TARGETING_MATCH")
Default                == Outcome("default", "DEFAULT")
Error(code)            == Outcome(code, "ERROR")

\* The texts that str, int, float or json.loads accepts.
Accepted(type) ==
    CASE type = "string"  -> Texts
      [] type = "integer" -> {"integer"}
      [] type = "float"   -> {"integer", "float"}
      [] type = "object"  -> Texts \ {"text"}

\* Mutant of Converted: a text that is rejected is returned as it is.
ConvertedOrRaw(type, text) ==
    IF text \in Accepted(type)
    THEN Matched(IF type = "object" THEN text ELSE type)
    ELSE Matched("string")

\* The type of what a converter returns (the JSON document may be a number or
\* a Boolean), or the error that its exception becomes.
Converted(type, text) ==
    IF text \in Accepted(type)
    THEN Matched(IF type = "object" THEN text ELSE type)
    ELSE Error(IF type = "object" THEN "ParseError" ELSE "TypeMismatchError")

\* _resolve_variant_flag
FromVariant(type, variant) ==
    CASE ~variant.enabled \/ variant.payload = "absent" -> Default
      [] variant.enabled /\ variant.payload = "missing" -> Matched("default")
      [] variant.enabled /\ variant.payload \in Texts   -> Converted(type, variant.payload)

\* resolve_boolean_details: an unknown toggle is what the caller's default says.
FromToggle(toggle, default) ==
    LET isEnabled == toggle = "on" \/ (toggle = "unknown" /\ default)
    IN Outcome("boolean", IF isEnabled THEN "TARGETING_MATCH" ELSE "DEFAULT")
================================================================================
