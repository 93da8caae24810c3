---------------------------- MODULE FlagEvaluation ----------------------------
(***************************************************************************)
(* How FlagdCore resolves one flag of its store (flagd_core.py _resolve,   *)
(* model/flag.py): the flag's state, its targeting, its variants and the   *)
(* type the caller asks for decide between a value, the caller's default   *)
(* and an error.                                                           *)
(*                                                                         *)
(* A variant's value is abstracted to its Python type, the result of the   *)
(* targeting rule to what _resolve distinguishes about it.                 *)
(***************************************************************************)
CONSTANTS
    Names,          \* names of variants a flag may have
    Configured      \* the flags of the configuration, see FlagRecords

ValueTypes == {"bool", "int", "float", "str", "object", "null"}
FlagTypes  == {"boolean", "string", "integer", "float", "object"}

\* What names a variant: <<Python type, name after str(...).lower()>>, where
\* the empty name stands for None and "".
VariantKeys == {<<"bool", "true">>, <<"bool", "false">>, <<"str", "">>, <<"num", "1">>}
               \cup {<<"str", n>> : n \in Names}
DefaultKeys == VariantKeys \ {<<"num", "1">>}
Targetings  == VariantKeys \cup {<<"absent", "">>, <<"null", "">>, <<"raises", "">>}

\* What Flag.from_dict accepts: at least one variant, a default that is a
\* string, a boolean or missing.
FlagRecords ==
    [state : {"ENABLED", "DISABLED"},
     variants : UNION {[S -> ValueTypes] : S \in (SUBSET (Names \cup {"true"})) \ {{}}},
     default : DefaultKeys,
     targeting : Targetings]

ASSUME EvaluationAssumption == Configured \subseteq FlagRecords /\ "" \notin Names

VARIABLES
    flag,       \* the flag in the store
    type,       \* what the caller of the last resolution asked for
    outcome,    \* what it got
    resolved    \* there was one

evaluationVars == <<flag, type, outcome, resolved>>

-----------------------------------------------------------------------------
Error(code)         == [kind |-> code]
CallersDefault      == [kind |-> "default"]
Value(variant, v)   == [kind |-> "value", variant |-> variant, value |-> v]

VariantName(key) == key[2]

\* Mutant of HasType: what the targeting rule chose is returned unchecked.
HasTypeAny(t, v) == TRUE

\* _check_type by isinstance: a bool is an int, which only "boolean" and
\* "integer" take care of.
HasType(t, v) ==
    CASE t = "boolean" -> v = "bool"
      [] t = "string"  -> v = "str"
      [] t = "integer" -> v = "int"
      [] t = "float"   -> v \in {"int", "float", "bool"}
      [] t = "object"  -> v = "object"

\* resolve_float_value turns an int, so also a bool, into a float.
Converted(t, v) == IF t = "float" THEN "float" ELSE v

Checked(f, name, t) ==
    LET v == f.variants[name]
    IN IF HasType(t, v) THEN Value(name, Converted(t, v)) ELSE Error("TypeMismatch")

\* _default_resolve
Default(f, t) ==
    LET name == VariantName(f.default)
    IN CASE name = ""                                      -> CallersDefault
         [] name # "" /\ name \notin DOMAIN f.variants -> Error("General")
         [] name # "" /\ name \in DOMAIN f.variants    -> Checked(f, name, t)

\* Mutant of Targeted: a variant that is not configured counts as none.
TargetedOrDefault(f, t) ==
    LET name == VariantName(f.targeting)
    IN IF name \notin DOMAIN f.variants THEN Default(f, t) ELSE Checked(f, name, t)

Targeted(f, t) ==
    LET name == VariantName(f.targeting)
    IN IF name \notin DOMAIN f.variants \/ f.variants[name] = "null"
       THEN Error("General")
       ELSE Checked(f, name, t)

\* _resolve
Evaluate(f, t) ==
    CASE f.state = "DISABLED" -> CallersDefault
      [] f.state = "ENABLED" /\ f.targeting[1] \in {"absent", "null"} -> Default(f, t)
      [] f.state = "ENABLED" /\ f.targeting[1] = "raises" -> Error("Targeting")
      [] f.state = "ENABLED" /\ f.targeting[1] \in {"str", "bool", "num"} -> Targeted(f, t)

-----------------------------------------------------------------------------
EvaluationInit ==
    /\ flag \in Configured
    /\ type \in FlagTypes
    /\ outcome = CallersDefault
    /\ resolved = FALSE

Resolve(t) ==
    /\ type' = t
    /\ outcome' = Evaluate(flag, t)
    /\ resolved' = TRUE
    /\ UNCHANGED flag

EvaluationNext == \E t \in FlagTypes : Resolve(t)

EvaluationSpec == EvaluationInit /\ [][EvaluationNext]_evaluationVars

-----------------------------------------------------------------------------
(* Properties.                                                              *)

\* The Python type of a flag value of a type.
PythonType(t) ==
    CASE t = "boolean" -> "bool" [] t = "string" -> "str" [] t = "integer" -> "int"
      [] t = "float" -> "float"  [] t = "object" -> "object"

\* No path through targeting, defaults and conversions returns a null or a
\* value of another type than the caller's, whatever is configured.
ValueTyped == outcome.kind = "value" => outcome.value = PythonType(type)

\* Targeting has the last word: once the rule of an enabled flag has named a
\* variant, the outcome is that variant or an error, never a default.
TargetingDecides ==
    flag.state = "ENABLED" /\ flag.targeting \in VariantKeys /\ resolved
        => IF outcome.kind = "value"
           THEN outcome.variant = VariantName(flag.targeting)
           ELSE outcome.kind # "default"

\* "Validate the resolved value type matches the expected flag type": what a
\* flag is configured to resolve to is a value of one flag type, a number
\* perhaps of two.
MatchesFlagType ==
    outcome.kind = "value" =>
        LET v == flag.variants[outcome.variant]
        IN v = PythonType(type) \/ (v = "int" /\ type = "float")
=============================================================================
