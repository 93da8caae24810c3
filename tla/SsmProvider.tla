------------------------------ MODULE SsmProvider ------------------------------
(***************************************************************************)
(* The AWS SSM provider (provider.py, ssm_service.py, parsers.py): threads *)
(* and asyncio tasks resolve flags through one cache, keyed by the flag    *)
(* key alone.  A parameter is abstracted to the parsers that accept its    *)
(* text, a parsed value to its Python type and its text.                   *)
(***************************************************************************)
EXTENDS Naturals, FiniteSets

CONSTANTS
    Keys,           \* flag keys that start with "/"
    BareKeys,       \* flag keys that do not
    Callers,        \* threads and tasks that resolve flags
    CacheSize,      \* cache_config.size
    Expiry,         \* cache_type = "ttl"
    Asked,          \* <<flag, type>>: the types the application asks a flag for
    Texts           \* the texts its parameters have

Flags == Keys \cup BareKeys
Types == {"boolean", "string", "integer", "float", "object"}

ASSUME SsmAssumption ==
    /\ Keys \cap BareKeys = {}
    /\ CacheSize \in Nat \ {0}
    /\ Expiry \in BOOLEAN
    /\ Asked \subseteq Flags \X Types
    /\ Texts \subseteq {"true", "42", "3.14", "{}", "word"}

VARIABLES
    param,      \* [parameter names -> text, or Missing]
    cache,      \* [flag keys -> value, or NotCached]
    caller,     \* [Callers -> what it is doing]
    outcome     \* [Callers -> how its last resolution ended]

vars == <<param, cache, caller, outcome>>

-----------------------------------------------------------------------------
\* Parameter Store keeps a parameter under the name it was given; "/k" and "k"
\* are different names.
Names == {<<"/", k>> : k \in Flags} \cup {<<"", k>> : k \in BareKeys}

Missing   == "missing"
NotCached == [type |-> "none", text |-> "none"]
Values    == [type : Types, text : Texts]

\* parse_boolean, parse_integer, parse_float, parse_object; a string flag is
\* not parsed.
Parses(type, text) ==
    CASE type = "boolean" -> text = "true"
      [] type = "string"  -> TRUE
      [] type = "integer" -> text = "42"
      [] type = "float"   -> text \in {"42", "3.14"}
      [] type = "object"  -> text = "{}"

\* get_parameter(Name=flag_key)
Name(k) == IF k \in BareKeys THEN <<"", k>> ELSE <<"/", k>>

Idle     == [at |-> "idle"]
Calls    == {Idle} \cup [at : {"hit", "fetch"}, flag : Flags, type : Types]
            \cup [at : {"parse"}, flag : Flags, type : Types, name : Names,
                text : Texts \cup {Missing}]
NoResult == [kind |-> "none"]
Results  == {NoResult}
            \cup [kind : {"FlagNotFound", "ParseFailed", "GeneralError", "KeyError"},
                  type : Types]
            \cup [kind : {"CACHED", "STATIC"}, type : Types, value : Values]

Cached == {k \in Flags : cache[k] # NotCached}

TypeOK ==
    /\ param \in [Names -> Texts \cup {Missing}]
    /\ cache \in [Flags -> Values \cup {NotCached}]
    /\ caller \in [Callers -> Calls]
    /\ outcome \in [Callers -> Results]

Init ==
    /\ param \in [Names -> Texts \cup {Missing}]
    /\ cache = [k \in Flags |-> NotCached]
    /\ caller = [c \in Callers |-> Idle]
    /\ outcome = [c \in Callers |-> NoResult]

-----------------------------------------------------------------------------
(* cachebox drops an entry when its time is over.                           *)

\* Mutant of Expire: the configuration asks for a TTLCache and gets an LRUCache.
ExpireNever(k) == FALSE /\ UNCHANGED vars

Expire(k) ==
    /\ Expiry /\ k \in Cached
    /\ cache' = [cache EXCEPT ![k] = NotCached]
    /\ UNCHANGED <<param, caller, outcome>>

-----------------------------------------------------------------------------
(* Resolutions, by caller c.                                                *)

Finish(c, kind) ==
    /\ caller' = [caller EXCEPT ![c] = Idle]
    /\ outcome' = [outcome EXCEPT ![c] =
                     [kind |-> kind, type |-> caller[c].type]]

Answer(c, kind, value) ==
    /\ caller' = [caller EXCEPT ![c] = Idle]
    /\ outcome' = [outcome EXCEPT ![c] =
                     [kind |-> kind, type |-> caller[c].type, value |-> value]]

\* resolve_*_details: _get_cached_value looks the key up ...
Resolve(c, k, type) ==
    /\ caller[c] = Idle
    /\ caller' = [caller EXCEPT ![c] =
                    [at |-> IF k \in Cached THEN "hit" ELSE "fetch", flag |-> k, type |-> type]]
    /\ UNCHANGED <<param, cache, outcome>>

\* ... and then reads it.
ReadCache(c) ==
    /\ caller[c].at = "hit"
    /\ IF caller[c].flag \in Cached
       THEN Answer(c, "CACHED", cache[caller[c].flag])
       ELSE Finish(c, "KeyError")
    /\ UNCHANGED <<param, cache>>

\* get_parameter_value, or its async twin, returns or raises.
Fetch(c) ==
    /\ caller[c].at = "fetch"
    /\ \/ /\ caller' = [caller EXCEPT ![c] =
                          [at |-> "parse", flag |-> @.flag, type |-> @.type,
                           name |-> Name(@.flag), text |-> param[Name(@.flag)]]]
          /\ UNCHANGED outcome
       \/ Finish(c, "GeneralError")
    /\ UNCHANGED <<param, cache>>

\* Mutant of Store: the raw value is cached before the parser has seen it.
StoreUnparsed(c) ==
    /\ caller[c].at = "parse"
    /\ LET text  == caller[c].text
           value == [type |-> caller[c].type, text |-> text]
       IN IF text = Missing
          THEN Finish(c, "FlagNotFound") /\ UNCHANGED cache
          ELSE /\ cache' = [k \in Flags |-> IF k = caller[c].flag THEN value ELSE NotCached]
               /\ IF Parses(caller[c].type, text)
                  THEN Answer(c, "STATIC", value)
                  ELSE Finish(c, "ParseFailed")
    /\ UNCHANGED param

\* Mutant of Store: a parameter that does not exist is cached like any other.
StoreMissing(c) ==
    /\ caller[c].at = "parse"
    /\ Finish(c, "FlagNotFound")
    /\ cache' = [cache EXCEPT ![caller[c].flag] =
                   [type |-> caller[c].type, text |-> caller[c].text]]
    /\ UNCHANGED param

\* The value is parsed, cached and returned.  A full cache evicts another one.
Store(c) ==
    /\ caller[c].at = "parse"
    /\ LET k     == caller[c].flag
           text  == caller[c].text
           value == [type |-> caller[c].type, text |-> text]
       IN \/ /\ text = Missing
             /\ Finish(c, "FlagNotFound")
             /\ UNCHANGED cache
          \/ /\ text # Missing /\ ~Parses(caller[c].type, text)
             /\ Finish(c, "ParseFailed")
             /\ UNCHANGED cache
          \/ /\ text # Missing /\ Parses(caller[c].type, text)
             /\ Answer(c, "STATIC", value)
             /\ IF k \in Cached \/ Cardinality(Cached) < CacheSize
                THEN cache' = [cache EXCEPT ![k] = value]
                ELSE \E e \in Cached :
                        cache' = [cache EXCEPT ![k] = value, ![e] = NotCached]
    /\ UNCHANGED param

\* Somebody writes or deletes a parameter.
PutParameter(n, text) ==
    /\ param[n] # text
    /\ param' = [param EXCEPT ![n] = text]
    /\ UNCHANGED <<cache, caller, outcome>>

-----------------------------------------------------------------------------
Next ==
    \/ \E c \in Callers :
          \/ \E a \in Asked : Resolve(c, a[1], a[2])
          \/ ReadCache(c) \/ Fetch(c) \/ Store(c)
    \/ \E k \in Flags : Expire(k)
    \/ \E n \in Names, text \in Texts \cup {Missing} : PutParameter(n, text)

Spec == Init /\ [][Next]_vars

\* A resolution that has begun is finished, and time passes.
Fairness ==
    /\ \A c \in Callers : WF_vars(ReadCache(c) \/ Fetch(c) \/ Store(c))
    /\ \A k \in Flags : WF_vars(Expire(k))

FairSpec == Spec /\ Fairness

-----------------------------------------------------------------------------
(* Properties.                                                              *)

Answered(c) == outcome[c].kind \in {"CACHED", "STATIC"}

\* What a flag resolves to has the type the caller asked for and is a text
\* that type's parser accepts, whoever put it into the cache.
ResultsTyped ==
    \A c \in Callers :
        Answered(c) => /\ outcome[c].value.type = outcome[c].type
                       /\ Parses(outcome[c].type, outcome[c].value.text)

\* With a "ttl" cache, once nobody writes parameters any more the cache ends
\* up with nothing but current values: a resolution that fetched before the
\* last write and stores after it is overtaken by the expiry of its entry.
Fresh == \A k \in Cached : cache[k].text = param[Name(k)]
StaleExpires == (<>[][UNCHANGED param]_param) => <>[]Fresh

\* A resolution ends with a value or with an OpenFeature error: the lookup
\* returns "the cached value or None if not cached".
NoKeyError == \A c \in Callers : outcome[c].kind # "KeyError"

\* "If the flag key starts with `/`, it's used as-is; otherwise, a leading `/`
\* is automatically prepended": what was fetched came from such a name.
LeadingSlash ==
    \A c \in Callers : caller[c].at = "parse" => caller[c].name[1] = "/"
=============================================================================
