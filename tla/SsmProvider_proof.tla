--------------------------- MODULE SsmProvider_proof ---------------------------
(***************************************************************************)
(* SsmProvider for any flags, callers, cache size and parameters: what a   *)
(* resolution through the shared cache returns.                            *)
(***************************************************************************)
EXTENDS SsmProvider, FiniteSetTheorems, TLAPS

-----------------------------------------------------------------------------
(* Types.                                                                   *)

\* What a caller that is under way is known to carry.
LEMMA CallFields ==
    ASSUME TypeOK, NEW c \in Callers
    PROVE  /\ caller[c] # Idle => caller[c].flag \in Flags /\ caller[c].type \in Types
           /\ caller[c].at \in {"hit", "fetch"} => caller[c] # Idle
           /\ caller[c].at = "parse" =>
                 /\ caller[c] # Idle
                 /\ caller[c].name \in Names
                 /\ caller[c].text \in Texts \cup {Missing}
<1>1. caller[c] \in Calls
  BY DEF TypeOK
<1> QED BY <1>1 DEF Calls, Idle

LEMMA FinishTypes ==
    ASSUME TypeOK, NEW c \in Callers, caller[c] # Idle,
           NEW kind \in {"FlagNotFound", "ParseFailed", "GeneralError", "KeyError"},
           Finish(c, kind)
    PROVE  caller' \in [Callers -> Calls] /\ outcome' \in [Callers -> Results]
<1>1. [kind |-> kind, type |-> caller[c].type] \in Results
  BY CallFields DEF Results
<1>2. Idle \in Calls
  BY DEF Calls
<1> QED BY <1>1, <1>2 DEF Finish, TypeOK

LEMMA AnswerTypes ==
    ASSUME TypeOK, NEW c \in Callers, caller[c] # Idle,
           NEW kind \in {"CACHED", "STATIC"}, NEW value \in Values,
           Answer(c, kind, value)
    PROVE  caller' \in [Callers -> Calls] /\ outcome' \in [Callers -> Results]
<1>1. [kind |-> kind, type |-> caller[c].type, value |-> value] \in Results
  BY CallFields DEF Results
<1>2. Idle \in Calls
  BY DEF Calls
<1> QED BY <1>1, <1>2 DEF Answer, TypeOK

LEMMA TypeInit == Init => TypeOK
  BY DEF Init, TypeOK, Calls, Results

LEMMA TypeStep == TypeOK /\ [Next]_vars => TypeOK'
<1> SUFFICES ASSUME TypeOK, [Next]_vars PROVE TypeOK'
  OBVIOUS
<1>1. ASSUME NEW c \in Callers, NEW a \in Asked, Resolve(c, a[1], a[2]) PROVE TypeOK'
  <2>1. a[1] \in Flags /\ a[2] \in Types
    BY SsmAssumption
  <2> DEFINE call == [at |-> IF a[1] \in Cached THEN "hit" ELSE "fetch",
                      flag |-> a[1], type |-> a[2]]
  <2>2. call \in Calls
    BY <2>1 DEF Calls
  <2>3. caller' = [caller EXCEPT ![c] = call] /\ UNCHANGED <<param, cache, outcome>>
    BY <1>1 DEF Resolve
  <2> HIDE DEF call
  <2> QED BY <2>2, <2>3 DEF TypeOK
<1>2. ASSUME NEW c \in Callers, ReadCache(c) PROVE TypeOK'
  <2>1. caller[c] # Idle /\ caller[c].flag \in Flags /\ UNCHANGED <<param, cache>>
    BY <1>2, CallFields DEF ReadCache
  <2>2. CASE caller[c].flag \in Cached
    <3>1. cache[caller[c].flag] \in Values
      BY <2>1, <2>2 DEF Cached, TypeOK
    <3>2. Answer(c, "CACHED", cache[caller[c].flag])
      BY <1>2, <2>2 DEF ReadCache
    <3> QED BY <2>1, <3>1, <3>2, AnswerTypes DEF TypeOK
  <2>3. CASE caller[c].flag \notin Cached
    <3>1. Finish(c, "KeyError")
      BY <1>2, <2>3 DEF ReadCache
    <3> QED BY <2>1, <3>1, FinishTypes DEF TypeOK
  <2> QED BY <2>2, <2>3
<1>3. ASSUME NEW c \in Callers, Fetch(c) PROVE TypeOK'
  <2>1. /\ caller[c] # Idle /\ caller[c].flag \in Flags /\ caller[c].type \in Types
        /\ UNCHANGED <<param, cache>>
    BY <1>3, CallFields DEF Fetch
  <2> DEFINE call == [at |-> "parse", flag |-> caller[c].flag, type |-> caller[c].type,
                      name |-> Name(caller[c].flag), text |-> param[Name(caller[c].flag)]]
  <2>2. CASE caller' = [caller EXCEPT ![c] = call] /\ UNCHANGED outcome
    <3>1. Name(caller[c].flag) \in Names
      BY <2>1 DEF Name, Names
    <3>2. call \in Calls
      BY <2>1, <3>1 DEF Calls, TypeOK
    <3> HIDE DEF call
    <3> QED BY <2>1, <2>2, <3>2 DEF TypeOK
  <2>3. CASE Finish(c, "GeneralError")
    BY <2>1, <2>3, FinishTypes DEF TypeOK
  <2> QED BY <1>3, <2>2, <2>3 DEF Fetch
<1>4. ASSUME NEW c \in Callers, Store(c) PROVE TypeOK'
  <2> DEFINE k     == caller[c].flag
             text  == caller[c].text
             value == [type |-> caller[c].type, text |-> text]
  <2>1. /\ caller[c] # Idle /\ k \in Flags /\ caller[c].type \in Types
        /\ text \in Texts \cup {Missing}
        /\ UNCHANGED param
    BY <1>4, CallFields DEF Store
  <2>2. CASE Finish(c, "FlagNotFound") /\ UNCHANGED cache
    BY <2>1, <2>2, FinishTypes DEF TypeOK
  <2>3. CASE Finish(c, "ParseFailed") /\ UNCHANGED cache
    BY <2>1, <2>3, FinishTypes DEF TypeOK
  <2>4. CASE /\ text # Missing
             /\ Answer(c, "STATIC", value)
             /\ \/ cache' = [cache EXCEPT ![k] = value]
                \/ \E e \in Cached : cache' = [cache EXCEPT ![k] = value, ![e] = NotCached]
    <3>1. value \in Values
      BY <2>1, <2>4 DEF Values
    <3> HIDE DEF value, k
    <3>2. cache' \in [Flags -> Values \cup {NotCached}]
      BY <2>1, <2>4, <3>1 DEF TypeOK
    <3> QED BY <2>1, <2>4, <3>1, <3>2, AnswerTypes DEF TypeOK
  <2> QED BY <1>4, <2>2, <2>3, <2>4 DEF Store
<1>5. ASSUME NEW k \in Flags, Expire(k) PROVE TypeOK'
  BY <1>5 DEF Expire, TypeOK
<1>6. ASSUME NEW n \in Names, NEW text \in Texts \cup {Missing}, PutParameter(n, text)
      PROVE  TypeOK'
  BY <1>6 DEF PutParameter, TypeOK
<1>7. CASE UNCHANGED vars
  BY <1>7 DEF vars, TypeOK
<1> QED BY <1>1, <1>2, <1>3, <1>4, <1>5, <1>6, <1>7 DEF Next

\* provider.py and ssm_service.py: the variables have their types; what is
\* cached or answered is a parsed text, never a missing one.
THEOREM TypeCorrect == Spec => []TypeOK
  BY TypeInit, TypeStep, PTL DEF Spec

-----------------------------------------------------------------------------
(* Answers.                                                                 *)

AskedFor(k, type) == \E a \in Asked : a[1] = k /\ a[2] = type

\* The application asks for each flag as one type.
OneType == \A a, b \in Asked : a[1] = b[1] => a[2] = b[2]

\* Whoever put an entry into the cache had asked for the flag, as everybody who
\* will read it does, and had parsed it.
Parsed(value) == Parses(value.type, value.text)
CacheTyped ==
    /\ \A k \in Flags : cache[k] # NotCached =>
          AskedFor(k, cache[k].type) /\ Parsed(cache[k])
    /\ \A c \in Callers : caller[c] # Idle => AskedFor(caller[c].flag, caller[c].type)

\* The step takes caller c to idle with an answer of its type, or without one.
EndsTyped(c) ==
    /\ caller' = [caller EXCEPT ![c] = Idle]
    /\ \E r : /\ outcome' = [outcome EXCEPT ![c] = r]
              /\ r.kind \in {"CACHED", "STATIC"} =>
                    r.value.type = r.type /\ Parses(r.type, r.value.text)

LEMMA EndKeepsTyped ==
    ASSUME TypeOK, ResultsTyped, NEW c \in Callers, EndsTyped(c)
    PROVE  ResultsTyped'
<1>1. PICK r : /\ outcome' = [outcome EXCEPT ![c] = r]
               /\ r.kind \in {"CACHED", "STATIC"} =>
                     r.value.type = r.type /\ Parses(r.type, r.value.text)
  BY DEF EndsTyped
<1>2. outcome'[c] = r /\ \A d \in Callers : d # c => outcome'[d] = outcome[d]
  BY <1>1 DEF TypeOK
<1> QED BY <1>1, <1>2 DEF ResultsTyped, Answered

LEMMA FinishTyped ==
    ASSUME NEW c, NEW kind, kind \notin {"CACHED", "STATIC"}, Finish(c, kind)
    PROVE  EndsTyped(c)
<1>1. [kind |-> kind, type |-> caller[c].type].kind \notin {"CACHED", "STATIC"}
  OBVIOUS
<1> QED BY <1>1 DEF Finish, EndsTyped

LEMMA AnswerTyped ==
    ASSUME NEW c, NEW kind, NEW value, Answer(c, kind, value),
           value.type = caller[c].type, Parsed(value)
    PROVE  EndsTyped(c)
<1> DEFINE r == [kind |-> kind, type |-> caller[c].type, value |-> value]
<1>1. r.value.type = r.type /\ Parses(r.type, r.value.text)
  BY DEF Parsed
<1>2. outcome' = [outcome EXCEPT ![c] = r] /\ caller' = [caller EXCEPT ![c] = Idle]
  BY DEF Answer
<1> HIDE DEF r
<1> QED BY <1>1, <1>2 DEF EndsTyped

\* Ending a resolution leaves nothing new to be typed in the callers.
LEMMA EndKeepsAsked ==
    ASSUME TypeOK, NEW c \in Callers, EndsTyped(c),
           \A d \in Callers : caller[d] # Idle => AskedFor(caller[d].flag, caller[d].type)
    PROVE  \A d \in Callers : caller'[d] # Idle => AskedFor(caller'[d].flag, caller'[d].type)
  BY DEF EndsTyped, TypeOK

\* provider.py _resolve_with_cache: as long as every flag is asked for as one
\* type, what the cache returns has the type of the request and passes its
\* parser, whichever caller stored it.  SsmProviderTwoTypes.cfg shows that the
\* hypothesis is needed.
THEOREM Typed == OneType => (Spec => []ResultsTyped)
<1> SUFFICES ASSUME OneType PROVE Spec => []ResultsTyped
  OBVIOUS
<1>1. Init => CacheTyped /\ ResultsTyped
  BY DEF Init, CacheTyped, ResultsTyped, Answered, NoResult
<1>2. TypeOK /\ CacheTyped /\ ResultsTyped /\ [Next]_vars => CacheTyped' /\ ResultsTyped'
  <2> SUFFICES ASSUME TypeOK, CacheTyped, ResultsTyped, [Next]_vars
               PROVE  CacheTyped' /\ ResultsTyped'
    OBVIOUS
  <2>a. ASSUME NEW c \in Callers, caller[c] # Idle, UNCHANGED cache, EndsTyped(c)
        PROVE  CacheTyped' /\ ResultsTyped'
    BY <2>a, EndKeepsTyped, EndKeepsAsked DEF CacheTyped
  <2>1. ASSUME NEW c \in Callers, NEW a \in Asked, Resolve(c, a[1], a[2])
        PROVE  CacheTyped' /\ ResultsTyped'
    <3> DEFINE call == [at |-> IF a[1] \in Cached THEN "hit" ELSE "fetch",
                        flag |-> a[1], type |-> a[2]]
    <3>1. caller' = [caller EXCEPT ![c] = call] /\ UNCHANGED <<cache, outcome>>
      BY <2>1 DEF Resolve
    <3>2. call.flag = a[1] /\ call.type = a[2]
      OBVIOUS
    <3>3. AskedFor(call.flag, call.type)
      BY <3>2 DEF AskedFor
    <3> HIDE DEF call
    <3>4. CacheTyped'
      BY <3>1, <3>3 DEF CacheTyped, TypeOK
    <3> QED BY <3>1, <3>4 DEF ResultsTyped, Answered
  <2>2. ASSUME NEW c \in Callers, ReadCache(c) PROVE CacheTyped' /\ ResultsTyped'
    <3>1. caller[c] # Idle /\ caller[c].flag \in Flags /\ UNCHANGED <<param, cache>>
      BY <2>2, CallFields DEF ReadCache
    <3>2. CASE caller[c].flag \in Cached
      <4> DEFINE value == cache[caller[c].flag]
      <4>1. AskedFor(caller[c].flag, value.type) /\ Parsed(value)
        BY <3>1, <3>2 DEF Cached, CacheTyped
      <4>2. value.type = caller[c].type
        BY <3>1, <4>1 DEF CacheTyped, AskedFor, OneType
      <4>3. EndsTyped(c)
        BY <2>2, <3>2, <4>1, <4>2, AnswerTyped DEF ReadCache
      <4> QED BY <2>a, <3>1, <4>3
    <3>3. CASE caller[c].flag \notin Cached
      <4>1. EndsTyped(c)
        BY <2>2, <3>3, FinishTyped DEF ReadCache
      <4> QED BY <2>a, <3>1, <4>1
    <3> QED BY <3>2, <3>3
  <2>3. ASSUME NEW c \in Callers, Fetch(c) PROVE CacheTyped' /\ ResultsTyped'
    <3>1. caller[c] # Idle /\ UNCHANGED <<param, cache>>
      BY <2>3, CallFields DEF Fetch
    <3> DEFINE call == [at |-> "parse", flag |-> caller[c].flag, type |-> caller[c].type,
                        name |-> Name(caller[c].flag),
                        text |-> param[Name(caller[c].flag)]]
    <3>2. CASE caller' = [caller EXCEPT ![c] = call] /\ UNCHANGED outcome
      <4>1. call.flag = caller[c].flag /\ call.type = caller[c].type
        OBVIOUS
      <4>2. AskedFor(call.flag, call.type)
        BY <3>1, <4>1 DEF CacheTyped
      <4> HIDE DEF call
      <4>3. CacheTyped'
        BY <3>1, <3>2, <4>2 DEF CacheTyped, TypeOK
      <4> QED BY <3>2, <4>3 DEF ResultsTyped, Answered
    <3>3. CASE Finish(c, "GeneralError")
      <4>1. EndsTyped(c)
        BY <3>3, FinishTyped
      <4> QED BY <2>a, <3>1, <4>1
    <3> QED BY <2>3, <3>2, <3>3 DEF Fetch
  <2>4. ASSUME NEW c \in Callers, Store(c) PROVE CacheTyped' /\ ResultsTyped'
    <3> DEFINE k     == caller[c].flag
               text  == caller[c].text
               value == [type |-> caller[c].type, text |-> text]
    <3>1. caller[c] # Idle /\ k \in Flags
      BY <2>4, CallFields DEF Store
    <3>2. CASE Finish(c, "FlagNotFound") /\ UNCHANGED cache
      BY <2>a, <3>1, <3>2, FinishTyped
    <3>3. CASE Finish(c, "ParseFailed") /\ UNCHANGED cache
      BY <2>a, <3>1, <3>3, FinishTyped
    <3>4. CASE /\ Parses(caller[c].type, text)
               /\ Answer(c, "STATIC", value)
               /\ \/ cache' = [cache EXCEPT ![k] = value]
                  \/ \E e \in Cached :
                        cache' = [cache EXCEPT ![k] = value, ![e] = NotCached]
      <4>1. value.type = caller[c].type /\ value.text = text
        OBVIOUS
      <4>2. Parsed(value) /\ AskedFor(k, value.type)
        BY <3>1, <3>4, <4>1 DEF Parsed, CacheTyped
      <4> HIDE DEF value, k, text
      <4>3. EndsTyped(c)
        BY <3>4, <4>1, <4>2, AnswerTyped
      <4>4. \A j \in Flags : cache'[j] \in {cache[j], NotCached} \/ (j = k /\ cache'[j] = value)
        BY <3>4 DEF TypeOK
      <4>5. \A j \in Flags : cache'[j] # NotCached =>
               AskedFor(j, cache'[j].type) /\ Parsed(cache'[j])
        BY <4>2, <4>4 DEF CacheTyped
      <4>6. CacheTyped'
        BY <4>3, <4>5, EndKeepsAsked DEF CacheTyped
      <4> QED BY <4>3, <4>6, EndKeepsTyped
    <3> QED BY <2>4, <3>2, <3>3, <3>4 DEF Store
  <2>5. ASSUME NEW k \in Flags, Expire(k) PROVE CacheTyped' /\ ResultsTyped'
    <3>1. cache' = [cache EXCEPT ![k] = NotCached] /\ UNCHANGED <<caller, outcome>>
      BY <2>5 DEF Expire
    <3>2. \A j \in Flags : cache'[j] \in {cache[j], NotCached}
      BY <3>1 DEF TypeOK
    <3>3. CacheTyped'
      BY <3>1, <3>2 DEF CacheTyped
    <3> QED BY <3>1, <3>3 DEF ResultsTyped, Answered
  <2>6. ASSUME NEW n \in Names, NEW text \in Texts \cup {Missing}, PutParameter(n, text)
        PROVE  CacheTyped' /\ ResultsTyped'
    BY <2>6 DEF PutParameter, CacheTyped, ResultsTyped, Answered
  <2>7. CASE UNCHANGED vars
    BY <2>7 DEF vars, CacheTyped, ResultsTyped, Answered
  <2> QED BY <2>1, <2>2, <2>3, <2>4, <2>5, <2>6, <2>7 DEF Next
<1> QED BY <1>1, <1>2, TypeCorrect, PTL DEF Spec

-----------------------------------------------------------------------------
(* Where the documented behaviour holds.                                    *)

\* A caller that has found its key cached still finds it.
Kept == \A c \in Callers : caller[c].at = "hit" => caller[c].flag \in Cached

\* Nothing leaves the cache between the two operations of a lookup: entries do not
\* expire, and either there is one caller or the cache has room for every flag.
OneCaller == \A c, d \in Callers : c = d
Roomy     == IsFiniteSet(Flags) /\ Cardinality(Flags) <= CacheSize
NoRace    == ~Expiry /\ (OneCaller \/ Roomy)

LEMMA RoomyKeeps ==
    ASSUME TypeOK, Roomy, NEW c \in Callers, Store(c)
    PROVE  Cached \subseteq Cached'
<1> DEFINE k     == caller[c].flag
           value == [type |-> caller[c].type, text |-> caller[c].text]
<1>1. k \in Flags /\ caller[c].type \in Types
  BY CallFields DEF Store
<1>2. value # NotCached
  <2>1. caller[c].type # "none"
    BY <1>1 DEF Types
  <2> QED BY <2>1 DEF NotCached
<1>3. k \in Cached \/ Cardinality(Cached) < CacheSize
  <2>1. SUFFICES ASSUME k \notin Cached PROVE Cardinality(Cached) < CacheSize
    OBVIOUS
  <2>2. Cached \cup {k} \subseteq Flags
    BY <1>1 DEF Cached
  <2>3. IsFiniteSet(Cached) /\ Cardinality(Cached) \in Nat
    BY FS_Subset, FS_CardinalityType DEF Cached, Roomy
  <2>4. Cardinality(Cached \cup {k}) = Cardinality(Cached) + 1
    BY <2>1, <2>3, FS_AddElement
  <2>5. Cardinality(Cached \cup {k}) <= Cardinality(Flags) /\ Cardinality(Flags) \in Nat
    BY <2>2, FS_Subset, FS_CardinalityType DEF Roomy
  <2>6. CacheSize \in Nat /\ Cardinality(Flags) <= CacheSize
    BY SsmAssumption DEF Roomy
  <2> QED BY <2>3, <2>4, <2>5, <2>6
<1>4. UNCHANGED cache \/ cache' = [cache EXCEPT ![k] = value]
  BY <1>3 DEF Store
<1> HIDE DEF k, value
<1>5. \A j \in Flags : cache'[j] = cache[j] \/ cache'[j] = value
  BY <1>1, <1>4 DEF TypeOK
<1> QED BY <1>2, <1>5 DEF Cached

\* provider.py _get_cached_value: the lookup of a key that has just been found
\* raises a KeyError only where an expiry, or an eviction by another caller, can
\* come between the two operations.
THEOREM KeyErrorNeedsRace == NoRace => (Spec => []NoKeyError)
<1> SUFFICES ASSUME NoRace PROVE Spec => []NoKeyError
  OBVIOUS
<1>1. Init => Kept /\ NoKeyError
  BY DEF Init, Kept, NoKeyError, Idle, NoResult
<1>2. TypeOK /\ Kept /\ NoKeyError /\ [Next]_vars => Kept' /\ NoKeyError'
  <2> SUFFICES ASSUME TypeOK, Kept, NoKeyError, [Next]_vars PROVE Kept' /\ NoKeyError'
    OBVIOUS
  \* A resolution ends, and takes nothing from the cache that another one has found.
  <2>a. ASSUME NEW c \in Callers, NEW r, OneCaller \/ Cached \subseteq Cached',
               caller' = [caller EXCEPT ![c] = Idle],
               outcome' = [outcome EXCEPT ![c] = r], r.kind # "KeyError"
        PROVE  Kept' /\ NoKeyError'
    <3>1. /\ caller'[c] = Idle /\ outcome'[c] = r
          /\ \A d \in Callers : d # c => caller'[d] = caller[d] /\ outcome'[d] = outcome[d]
      BY <2>a DEF TypeOK
    <3>2. caller'[c].at = "idle"
      BY <3>1 DEF Idle
    <3>3. CASE OneCaller
      BY <2>a, <3>1, <3>2, <3>3 DEF Kept, NoKeyError, OneCaller
    <3>4. CASE Cached \subseteq Cached'
      BY <2>a, <3>1, <3>2, <3>4 DEF Kept, NoKeyError
    <3> QED BY <2>a, <3>3, <3>4
  <2>1. ASSUME NEW c \in Callers, NEW a \in Asked, Resolve(c, a[1], a[2])
        PROVE  Kept' /\ NoKeyError'
    <3> DEFINE call == [at |-> IF a[1] \in Cached THEN "hit" ELSE "fetch",
                        flag |-> a[1], type |-> a[2]]
    <3>1. caller' = [caller EXCEPT ![c] = call] /\ UNCHANGED <<cache, outcome>>
      BY <2>1 DEF Resolve
    <3>2. call.flag = a[1] /\ (call.at = "hit" => a[1] \in Cached)
      OBVIOUS
    <3> HIDE DEF call
    <3>3. Cached' = Cached
      BY <3>1 DEF Cached
    <3> QED BY <3>1, <3>2, <3>3 DEF Kept, NoKeyError, TypeOK
  <2>2. ASSUME NEW c \in Callers, ReadCache(c) PROVE Kept' /\ NoKeyError'
    <3>1. caller[c].flag \in Cached
      BY <2>2 DEF ReadCache, Kept
    <3> DEFINE r == [kind |-> "CACHED", type |-> caller[c].type,
                     value |-> cache[caller[c].flag]]
    <3>2. caller' = [caller EXCEPT ![c] = Idle] /\ outcome' = [outcome EXCEPT ![c] = r]
          /\ r.kind # "KeyError" /\ Cached \subseteq Cached'
      BY <2>2, <3>1 DEF ReadCache, Answer, Cached
    <3> HIDE DEF r
    <3> QED BY <2>a, <3>2
  <2>3. ASSUME NEW c \in Callers, Fetch(c) PROVE Kept' /\ NoKeyError'
    <3> DEFINE call == [at |-> "parse", flag |-> caller[c].flag, type |-> caller[c].type,
                        name |-> Name(caller[c].flag),
                        text |-> param[Name(caller[c].flag)]]
               r    == [kind |-> "GeneralError", type |-> caller[c].type]
    <3>1. call.at # "hit" /\ r.kind # "KeyError"
      OBVIOUS
    <3>2. \/ caller' = [caller EXCEPT ![c] = call] /\ UNCHANGED <<cache, outcome>>
          \/ caller' = [caller EXCEPT ![c] = Idle] /\ outcome' = [outcome EXCEPT ![c] = r]
      BY <2>3 DEF Fetch, Finish
    <3> HIDE DEF call, r
    <3>3. CASE caller' = [caller EXCEPT ![c] = call] /\ UNCHANGED <<cache, outcome>>
      BY <3>1, <3>3 DEF Kept, NoKeyError, Cached, TypeOK
    <3>4. Cached \subseteq Cached'
      BY <2>3 DEF Fetch, Cached
    <3> QED BY <2>a, <3>1, <3>2, <3>3, <3>4
  <2>4. ASSUME NEW c \in Callers, Store(c) PROVE Kept' /\ NoKeyError'
    <3> DEFINE value   == [type |-> caller[c].type, text |-> caller[c].text]
               r(kind) == [kind |-> kind, type |-> caller[c].type]
               s       == [kind |-> "STATIC", type |-> caller[c].type, value |-> value]
    <3>1. s.kind # "KeyError" /\ \A kind : r(kind).kind = kind
      OBVIOUS
    <3>2. /\ caller' = [caller EXCEPT ![c] = Idle]
          /\ \/ outcome' = [outcome EXCEPT ![c] = r("FlagNotFound")]
             \/ outcome' = [outcome EXCEPT ![c] = r("ParseFailed")]
             \/ outcome' = [outcome EXCEPT ![c] = s]
      BY <2>4 DEF Store, Finish, Answer
    <3>3. r("FlagNotFound").kind # "KeyError" /\ r("ParseFailed").kind # "KeyError"
      BY <3>1
    <3>4. OneCaller \/ Cached \subseteq Cached'
      BY <2>4, RoomyKeeps DEF NoRace
    <3> HIDE DEF r, s
    <3> QED BY <2>a, <3>1, <3>2, <3>3, <3>4
  <2>5. ASSUME NEW n \in Names, NEW text \in Texts \cup {Missing}, PutParameter(n, text)
        PROVE  Kept' /\ NoKeyError'
    BY <2>5 DEF PutParameter, Kept, NoKeyError, Cached
  <2>6. CASE UNCHANGED vars
    BY <2>6 DEF vars, Kept, NoKeyError, Cached
  <2> QED BY <2>1, <2>2, <2>3, <2>4, <2>5, <2>6 DEF Next, Expire, NoRace
<1> QED BY <1>1, <1>2, TypeCorrect, PTL DEF Spec
=============================================================================
