--------------------------- MODULE FlagdCore_proof ---------------------------
(***************************************************************************)
(* The flagd-core package.  FlagdCore, for any flags, metadata, readers    *)
(* and updaters: the store implements AtomicStore, and an application that *)
(* follows the events does not miss a change.  FlagEvaluation, for any     *)
(* configured flags: what a resolution may return.  Fractional, for any    *)
(* hash space, weights and number of fractions: which variant is selected. *)
(***************************************************************************)
EXTENDS FlagdCore, FlagEvaluation, Fractional, TLAPS

\* Whoever is between acquiring and releasing the lock owns it, and what it has
\* derived from the store is still true of it.
Locked == {"parse", "flags", "metadata"}
Discipline ==
    /\ \A u \in Updaters : pc[u] \in Locked => lock = u
    /\ \A u \in Updaters : pc[u] \in {"flags", "metadata"} => payload[u] # Rejected
    /\ \A u \in Updaters : pc[u] = "flags" =>
          \A k \in Keys : payload[u].flags[k] # flags[k] => k \in changed[u]
    /\ \A r \in Readers : reader[r] # NoFlag =>
          /\ lock = r
          /\ \E k \in Keys : flags[k] = reader[r]

CoreInv == TypeOK /\ Discipline

LEMMA InitInv == Init => CoreInv
<1> SUFFICES ASSUME Init PROVE CoreInv
  OBVIOUS
<1>1. overlapped \in BOOLEAN
  BY Zenon DEF Init
<1>2. TypeOK
  BY <1>1, CoreAssumption DEF Init, TypeOK, Empty, NotFound, Configs
<1>3. Discipline
  BY DEF Init, Discipline, Locked
<1> QED BY <1>2, <1>3 DEF CoreInv

LEMMA StepInv == CoreInv /\ [Next]_vars => CoreInv'
<1> SUFFICES ASSUME CoreInv, [Next]_vars PROVE CoreInv'
  OBVIOUS
<1> USE CoreAssumption DEF CoreInv, TypeOK, Goto, resolve, app, store, update
<1>1. ASSUME NEW u \in Updaters, NEW p \in Configs \cup {Rejected}, SetFlags(u, p)
      PROVE  CoreInv'
  <2>1. TypeOK'
    <3>1. overlapped' \in BOOLEAN
      BY <1>1, Zenon DEF SetFlags
    <3> QED BY <1>1, <3>1 DEF SetFlags
  <2>2. Discipline' BY <1>1 DEF SetFlags, Discipline, Locked
  <2> QED BY <2>1, <2>2
<1>2. ASSUME NEW u \in Updaters, Parse(u) PROVE CoreInv'
  <2>1. TypeOK'
    <3>1. ChangedKeys(payload[u].flags) \subseteq Keys
      BY DEF ChangedKeys
    <3> QED BY <1>2, <3>1 DEF Parse
  <2>2. Discipline'
    <3>1. CASE payload[u] = Rejected
      BY <1>2, <3>1 DEF Parse, Discipline, Locked
    <3>2. CASE payload[u] # Rejected
      <4>1. payload[u] \in Configs
        BY <3>2
      <4>2. \A k \in Keys : payload[u].flags[k] # flags[k]
                                => k \in ChangedKeys(payload[u].flags)
        BY <4>1 DEF ChangedKeys, Configs
      <4>3. ChangedKeys(payload[u].flags) \subseteq Keys
        BY DEF ChangedKeys
      <4> QED BY <1>2, <3>2, <4>2, <4>3 DEF Parse, Discipline, Locked
    <3> QED BY <3>1, <3>2
  <2> QED BY <2>1, <2>2
<1>3. ASSUME NEW u \in Updaters, StoreFlags(u) PROVE CoreInv'
  <2>1. payload[u] \in Configs /\ lock = u
    BY <1>3 DEF StoreFlags, Discipline, Locked
  <2>2. TypeOK' BY <1>3, <2>1 DEF StoreFlags, Configs
  <2>3. Discipline' BY <1>3, <2>1 DEF StoreFlags, Discipline, Locked
  <2> QED BY <2>2, <2>3
<1>4. ASSUME NEW u \in Updaters, StoreMetadata(u) PROVE CoreInv'
  <2>1. payload[u] \in Configs /\ lock = u
    BY <1>4 DEF StoreMetadata, Discipline, Locked
  <2>2. TypeOK' BY <1>4, <2>1 DEF StoreMetadata, Configs
  <2>3. Discipline' BY <1>4, <2>1 DEF StoreMetadata, Discipline, Locked
  <2> QED BY <2>2, <2>3
<1>5. ASSUME NEW u \in Updaters, GetMetadata(u) PROVE CoreInv'
  <2>1. TypeOK' BY <1>5 DEF GetMetadata
  <2>2. Discipline' BY <1>5 DEF GetMetadata, Discipline, Locked
  <2> QED BY <2>1, <2>2
<1>6. ASSUME NEW u \in Updaters, EmitChanged(u) PROVE CoreInv'
  <2>1. TypeOK' BY <1>6 DEF EmitChanged
  <2>2. Discipline' BY <1>6 DEF EmitChanged, Discipline, Locked
  <2> QED BY <2>1, <2>2
<1>7. ASSUME NEW r \in Readers, NEW k \in Keys, FindFlag(r, k) PROVE CoreInv'
  <2>1. TypeOK'
    <3>1. CASE flags[k] = NoFlag
      <4>1. answer' \in [Readers -> [flag : Contents \cup {NoFlag}, meta : Metas]]
        BY <1>7, <3>1 DEF FindFlag, NotFound
      <4> QED BY <1>7, <3>1, <4>1 DEF FindFlag
    <3>2. CASE flags[k] # NoFlag
      BY <1>7, <3>2 DEF FindFlag
    <3> QED BY <3>1, <3>2
  <2>2. Discipline' BY <1>7 DEF FindFlag, Discipline, Locked
  <2> QED BY <2>1, <2>2
<1>8. ASSUME NEW r \in Readers, MergeMetadata(r) PROVE CoreInv'
  <2>1. TypeOK' BY <1>8 DEF MergeMetadata
  <2>2. lock = r BY <1>8 DEF MergeMetadata, Discipline
  <2>3. Discipline' BY <1>8, <2>2 DEF MergeMetadata, Discipline, Locked
  <2> QED BY <2>1, <2>3
<1>9. ASSUME NEW k \in Keys, Refresh(k) PROVE CoreInv'
  <2>1. TypeOK' BY <1>9 DEF Refresh
  <2>2. Discipline' BY <1>9 DEF Refresh, Discipline, Locked
  <2> QED BY <2>1, <2>2
<1>10. CASE UNCHANGED vars
  <2>1. TypeOK' BY <1>10 DEF vars
  <2>2. Discipline' BY <1>10 DEF vars, Discipline, Locked
  <2> QED BY <2>1, <2>2
<1> QED
  BY <1>1, <1>2, <1>3, <1>4, <1>5, <1>6, <1>7, <1>8, <1>9, <1>10 DEF Next, Update

LEMMA Invariance == Spec => []CoreInv
  BY InitInv, StepInv, PTL DEF Spec

\* flagd_core.py and in_process.py: the variables have their types.
THEOREM TypeCorrect == Spec => []TypeOK
  BY Invariance, PTL DEF CoreInv

-----------------------------------------------------------------------------
\* set_flags and _resolve: every behaviour of the two-assignment store under
\* its lock is one of the store that is replaced as a whole.
THEOREM Implements == Spec => AtomicSpec
<1>1. Init => Atomic!Init
  BY CoreAssumption
  DEF Init, Atomic!Init, AtomicMeta, Empty, NotFound, Atomic!NotFound
<1>2. CoreInv /\ CoreInv' /\ [Next]_vars
        => [Atomic!Next]_<<[flags |-> flags, meta |-> AtomicMeta], answer>>
  <2> SUFFICES ASSUME CoreInv, [Next]_vars
               PROVE  [Atomic!Next]_<<[flags |-> flags, meta |-> AtomicMeta], answer>>
    OBVIOUS
  <2> DEFINE Same == flags' = flags /\ AtomicMeta' = AtomicMeta /\ answer' = answer
  <2> SUFFICES Same \/ Atomic!Next
    OBVIOUS
  <2> USE CoreAssumption DEF CoreInv, Discipline, Locked, Goto, resolve, app, store, update,
            AtomicMeta
  <2>1. ASSUME NEW u \in Updaters, NEW p \in Configs \cup {Rejected}, SetFlags(u, p)
        PROVE  Same
    BY <2>1 DEF SetFlags, TypeOK
  <2>2. ASSUME NEW u \in Updaters, Parse(u) PROVE Same
    BY <2>2 DEF Parse, TypeOK
  <2>3. ASSUME NEW u \in Updaters, StoreFlags(u) PROVE Atomic!Next
    <3>1. payload[u] \in Configs /\ lock = u
      BY <2>3 DEF StoreFlags, TypeOK
    <3>2. flags' = payload[u].flags /\ AtomicMeta' = payload[u].meta /\ answer' = answer
      BY <2>3, <3>1 DEF StoreFlags, TypeOK
    <3>3. [flags |-> flags, meta |-> AtomicMeta]' = payload[u]
      BY <3>1, <3>2 DEF Configs
    <3>4. Atomic!Load(payload[u])
      BY <3>2, <3>3 DEF Atomic!Load
    <3> QED BY <3>1, <3>4 DEF Atomic!Next, Atomic!Configs, Configs
  <2>4. ASSUME NEW u \in Updaters, StoreMetadata(u) PROVE Same
    BY <2>4 DEF StoreMetadata, TypeOK
  <2>5. ASSUME NEW u \in Updaters, GetMetadata(u) PROVE Same
    BY <2>5 DEF GetMetadata, TypeOK
  <2>6. ASSUME NEW u \in Updaters, EmitChanged(u) PROVE Same
    BY <2>6 DEF EmitChanged, TypeOK
  <2>7. ASSUME NEW r \in Readers, NEW k \in Keys, FindFlag(r, k)
        PROVE  Same \/ Atomic!Next
    <3>1. CASE flags[k] = NoFlag
      <4>1. flags' = flags /\ AtomicMeta' = AtomicMeta
            /\ answer' = [answer EXCEPT ![r] = NotFound]
        BY <2>7, <3>1 DEF FindFlag
      <4>2. Atomic!Resolve(r, k)
        BY <4>1, <3>1 DEF Atomic!Resolve, Atomic!NotFound, NotFound
      <4> QED BY <4>2 DEF Atomic!Next
    <3>2. CASE flags[k] # NoFlag
      BY <2>7, <3>2 DEF FindFlag
    <3> QED BY <3>1, <3>2
  <2>8. ASSUME NEW r \in Readers, MergeMetadata(r) PROVE Atomic!Next
    <3>1. lock = r /\ reader[r] # NoFlag
      BY <2>8 DEF MergeMetadata
    <3>2. PICK k \in Keys : flags[k] = reader[r]
      BY <3>1
    <3>3. AtomicMeta = flagSetMetadata
      BY <3>1
    <3>4. flags' = flags /\ AtomicMeta' = AtomicMeta
      BY <2>8, <3>1 DEF MergeMetadata
    <3>5. answer' = [answer EXCEPT ![r] = [flag |-> flags[k], meta |-> AtomicMeta]]
      BY <2>8, <3>2, <3>3 DEF MergeMetadata
    <3>6. Atomic!Resolve(r, k)
      BY <3>1, <3>2, <3>4, <3>5 DEF Atomic!Resolve
    <3> QED BY <3>6 DEF Atomic!Next
  <2>9. ASSUME NEW k \in Keys, Refresh(k) PROVE Same
    BY <2>9 DEF Refresh
  <2>10. CASE UNCHANGED vars
    BY <2>10 DEF vars
  <2> QED
    BY <2>1, <2>2, <2>3, <2>4, <2>5, <2>6, <2>7, <2>8, <2>9, <2>10 DEF Next, Update
<1> QED BY <1>1, <1>2, Invariance, PTL DEF Spec, AtomicSpec, Atomic!Spec

-----------------------------------------------------------------------------
\* changed_keys and the adapter's event: the application's copy is exact but
\* for the flags whose event is still to come or to be acted on.
THEOREM Followed == Spec => []MirrorFollows
<1>1. Init => MirrorFollows
  BY DEF Init, MirrorFollows
<1>2. CoreInv /\ MirrorFollows /\ [Next]_vars => MirrorFollows'
  <2> SUFFICES ASSUME CoreInv, MirrorFollows, [Next]_vars, NEW k \in Keys
               PROVE  (mirror[k] = flags[k] \/ k \in dirty \/ Coming(k))'
    BY DEF MirrorFollows
  <2>0. mirror[k] = flags[k] \/ k \in dirty \/ Coming(k)
    BY DEF MirrorFollows
  <2> USE DEF CoreInv, TypeOK, Discipline, Goto, Coming, resolve, app, store, update
  <2>1. ASSUME NEW u \in Updaters, NEW p \in Configs \cup {Rejected}, SetFlags(u, p)
        PROVE  (mirror[k] = flags[k] \/ k \in dirty \/ Coming(k))'
    BY <2>0, <2>1 DEF SetFlags
  <2>2. ASSUME NEW u \in Updaters, Parse(u)
        PROVE  (mirror[k] = flags[k] \/ k \in dirty \/ Coming(k))'
    BY <2>0, <2>2 DEF Parse
  <2>3. ASSUME NEW u \in Updaters, StoreFlags(u)
        PROVE  (mirror[k] = flags[k] \/ k \in dirty \/ Coming(k))'
    <3>1. CASE payload[u].flags[k] = flags[k]
      BY <2>0, <2>3, <3>1 DEF StoreFlags
    <3>2. CASE payload[u].flags[k] # flags[k]
      <4>1. k \in changed[u]
        BY <2>3, <3>2 DEF StoreFlags
      <4> QED BY <2>3, <4>1 DEF StoreFlags
    <3> QED BY <3>1, <3>2
  <2>4. ASSUME NEW u \in Updaters, StoreMetadata(u)
        PROVE  (mirror[k] = flags[k] \/ k \in dirty \/ Coming(k))'
    BY <2>0, <2>4 DEF StoreMetadata
  <2>5. ASSUME NEW u \in Updaters, GetMetadata(u)
        PROVE  (mirror[k] = flags[k] \/ k \in dirty \/ Coming(k))'
    BY <2>0, <2>5 DEF GetMetadata
  <2>6. ASSUME NEW u \in Updaters, EmitChanged(u)
        PROVE  (mirror[k] = flags[k] \/ k \in dirty \/ Coming(k))'
    BY <2>0, <2>6 DEF EmitChanged
  <2>7. ASSUME NEW r \in Readers, NEW j \in Keys, FindFlag(r, j)
        PROVE  (mirror[k] = flags[k] \/ k \in dirty \/ Coming(k))'
    BY <2>0, <2>7 DEF FindFlag
  <2>8. ASSUME NEW r \in Readers, MergeMetadata(r)
        PROVE  (mirror[k] = flags[k] \/ k \in dirty \/ Coming(k))'
    BY <2>0, <2>8 DEF MergeMetadata
  <2>9. ASSUME NEW j \in Keys, Refresh(j)
        PROVE  (mirror[k] = flags[k] \/ k \in dirty \/ Coming(k))'
    BY <2>0, <2>9 DEF Refresh
  <2>10. CASE UNCHANGED vars
    BY <2>0, <2>10 DEF vars
  <2> QED
    BY <2>1, <2>2, <2>3, <2>4, <2>5, <2>6, <2>7, <2>8, <2>9, <2>10 DEF Next, Update
<1> QED BY <1>1, <1>2, Invariance, PTL DEF Spec

-----------------------------------------------------------------------------
\* As long as updates do not overlap, the metadata of the updater's event are
\* those of the store.
Sequential ==
    ~overlapped =>
        /\ \A u, v \in Updaters : pc[u] # "idle" /\ pc[v] # "idle" => u = v
        /\ \A u \in Updaters : pc[u] = "emit" => told[u] = flagSetMetadata
        /\ (\A u \in Updaters : pc[u] \notin {"get", "emit"})
              => mirrorMeta = flagSetMetadata

\* The adapter's event: an application that keeps the metadata of the last event
\* has those of the store, however many updates follow one another.
THEOREM MetadataFollowed == Spec => []MetadataFollows
<1>1. Init => Sequential
  BY DEF Init, Sequential
<1>2. CoreInv /\ Sequential /\ [Next]_vars => Sequential'
  <2> SUFFICES ASSUME CoreInv, Sequential, [Next]_vars PROVE Sequential'
    OBVIOUS
  <2> USE DEF CoreInv, TypeOK, Sequential, Goto, resolve, app, store, update
  <2>1. ASSUME NEW u \in Updaters, NEW p \in Configs \cup {Rejected}, SetFlags(u, p)
        PROVE  Sequential'
    BY <2>1 DEF SetFlags
  <2>2. ASSUME NEW u \in Updaters, Parse(u) PROVE Sequential'
    BY <2>2 DEF Parse
  <2>3. ASSUME NEW u \in Updaters, StoreFlags(u) PROVE Sequential'
    BY <2>3 DEF StoreFlags
  <2>4. ASSUME NEW u \in Updaters, StoreMetadata(u) PROVE Sequential'
    BY <2>4 DEF StoreMetadata
  <2>5. ASSUME NEW u \in Updaters, GetMetadata(u) PROVE Sequential'
    BY <2>5 DEF GetMetadata
  <2>6. ASSUME NEW u \in Updaters, EmitChanged(u) PROVE Sequential'
    BY <2>6 DEF EmitChanged
  <2>7. ASSUME NEW r \in Readers, NEW k \in Keys, FindFlag(r, k) PROVE Sequential'
    BY <2>7 DEF FindFlag
  <2>8. ASSUME NEW r \in Readers, MergeMetadata(r) PROVE Sequential'
    BY <2>8 DEF MergeMetadata
  <2>9. ASSUME NEW k \in Keys, Refresh(k) PROVE Sequential'
    BY <2>9 DEF Refresh
  <2>10. CASE UNCHANGED vars
    BY <2>10 DEF vars
  <2> QED
    BY <2>1, <2>2, <2>3, <2>4, <2>5, <2>6, <2>7, <2>8, <2>9, <2>10 DEF Next, Update
<1>3. Sequential => MetadataFollows
  BY DEF Sequential, MetadataFollows
<1> QED BY <1>1, <1>2, <1>3, Invariance, PTL DEF Spec

-----------------------------------------------------------------------------
(* Evaluation of a flag.                                                    *)

\* What a targeting rule can yield, by its Python type.
LEMMA KeyTypes ==
    /\ \A key \in VariantKeys : key[1] \in {"str", "bool", "num"}
    /\ \A key \in Targetings :
          key[1] \in {"str", "bool", "num", "absent", "null", "raises"}
<1>1. ASSUME NEW key \in VariantKeys PROVE key[1] \in {"str", "bool", "num"}
  <2>1. CASE key = <<"bool", "true">> BY <2>1
  <2>2. CASE key = <<"bool", "false">> BY <2>2
  <2>3. CASE key = <<"str", "">> BY <2>3
  <2>4. CASE key = <<"num", "1">> BY <2>4
  <2>5. ASSUME NEW n \in Names, key = <<"str", n>> PROVE key[1] = "str" BY <2>5
  <2> QED BY <2>1, <2>2, <2>3, <2>4, <2>5 DEF VariantKeys
<1>2. ASSUME NEW key \in Targetings
      PROVE  key[1] \in {"str", "bool", "num", "absent", "null", "raises"}
  <2>1. CASE key = <<"absent", "">> BY <2>1
  <2>2. CASE key = <<"null", "">> BY <2>2
  <2>3. CASE key = <<"raises", "">> BY <2>3
  <2> QED BY <1>1, <2>1, <2>2, <2>3 DEF Targetings
<1> QED BY <1>1, <1>2

\* The store keeps its flag, and the last caller got what it evaluates to.
EvaluationInv ==
    /\ flag \in FlagRecords /\ type \in FlagTypes
    /\ resolved \in BOOLEAN
    /\ outcome = IF resolved THEN Evaluate(flag, type) ELSE CallersDefault

LEMMA EvaluationInvariance == EvaluationSpec => []EvaluationInv
<1> USE EvaluationAssumption DEF EvaluationInv
<1>1. EvaluationInit => EvaluationInv
  BY DEF EvaluationInit
<1>2. EvaluationInv /\ [EvaluationNext]_evaluationVars => EvaluationInv'
  <2> SUFFICES ASSUME EvaluationInv, [EvaluationNext]_evaluationVars
               PROVE  EvaluationInv'
    OBVIOUS
  <2>1. ASSUME NEW t \in FlagTypes, Resolve(t) PROVE EvaluationInv'
    BY <2>1 DEF Resolve
  <2>2. CASE UNCHANGED evaluationVars
    BY <2>2 DEF evaluationVars
  <2> QED BY <2>1, <2>2 DEF EvaluationNext
<1> QED BY <1>1, <1>2, PTL DEF EvaluationSpec

\* What any path returns has passed the type check under the name it carries.
LEMMA CheckedOnly ==
    ASSUME NEW f \in FlagRecords, NEW t \in FlagTypes,
           Evaluate(f, t).kind = "value"
    PROVE  \E name \in DOMAIN f.variants :
              /\ HasType(t, f.variants[name])
              /\ Evaluate(f, t) = Value(name, Converted(t, f.variants[name]))
<1>1. ASSUME NEW name \in DOMAIN f.variants, Checked(f, name, t).kind = "value"
      PROVE  /\ HasType(t, f.variants[name])
             /\ Checked(f, name, t) = Value(name, Converted(t, f.variants[name]))
  BY <1>1 DEF Checked, Error
<1>2. ASSUME Evaluate(f, t) = Default(f, t)
      PROVE  \E name \in DOMAIN f.variants : Evaluate(f, t) = Checked(f, name, t)
  <2> DEFINE name == VariantName(f.default)
  <2>1. Default(f, t).kind = "value"
    BY <1>2
  <2>2. Default(f, t) # CallersDefault
    BY <2>1 DEF CallersDefault
  <2>3. Default(f, t) # Error("General")
    BY <2>1 DEF Error
  <2>4. name # "" /\ name \in DOMAIN f.variants
    BY <2>2, <2>3 DEF Default
  <2> QED BY <1>2, <2>4 DEF Default
<1>3. ASSUME Evaluate(f, t) = Targeted(f, t)
      PROVE  \E name \in DOMAIN f.variants : Evaluate(f, t) = Checked(f, name, t)
  <2> DEFINE name == VariantName(f.targeting)
  <2>1. Targeted(f, t).kind = "value"
    BY <1>3
  <2>2. name \in DOMAIN f.variants /\ Targeted(f, t) = Checked(f, name, t)
    BY <2>1 DEF Targeted, Error
  <2> QED BY <1>3, <2>2
<1>4. f.state \in {"ENABLED", "DISABLED"}
      /\ f.targeting[1] \in {"absent", "null", "raises", "str", "bool", "num"}
  BY KeyTypes DEF FlagRecords
<1>5. Evaluate(f, t) = Default(f, t) \/ Evaluate(f, t) = Targeted(f, t)
  <2>1. CASE f.state = "DISABLED"
    <3>1. Evaluate(f, t) = CallersDefault
      BY <2>1 DEF Evaluate
    <3> QED BY <3>1 DEF CallersDefault
  <2>2. CASE f.state = "ENABLED" /\ f.targeting[1] = "raises"
    <3>1. Evaluate(f, t) = Error("Targeting")
      BY <2>2 DEF Evaluate
    <3> QED BY <3>1 DEF Error
  <2>3. CASE f.state = "ENABLED" /\ f.targeting[1] # "raises"
    BY <1>4, <2>3 DEF Evaluate
  <2> QED BY <1>4, <2>1, <2>2, <2>3
<1> QED BY <1>1, <1>2, <1>3, <1>5

\* What passes the type check, and what it is converted to.
LEMMA ConvertedType ==
    ASSUME NEW t \in FlagTypes, NEW v, HasType(t, v)
    PROVE  /\ Converted(t, v) = PythonType(t)
           /\ v = PythonType(t) \/ (t = "float" /\ v \in {"int", "bool"})
  BY DEF FlagTypes, HasType, Converted, PythonType

\* flagd_core.py _resolve and _check_type: whatever is configured, a resolution
\* returns no null and no value of another type than the caller asked for.
THEOREM EvaluationTyped == EvaluationSpec => []ValueTyped
<1>1. EvaluationInv => ValueTyped
  <2> SUFFICES ASSUME EvaluationInv, outcome.kind = "value"
               PROVE  outcome.value = PythonType(type)
    BY DEF ValueTyped
  <2>1. outcome = Evaluate(flag, type)
    BY DEF EvaluationInv, CallersDefault
  <2>2. PICK name \in DOMAIN flag.variants :
           /\ HasType(type, flag.variants[name])
           /\ outcome = Value(name, Converted(type, flag.variants[name]))
    BY <2>1, CheckedOnly DEF EvaluationInv
  <2> QED BY <2>2, ConvertedType DEF EvaluationInv, Value
<1> QED BY <1>1, EvaluationInvariance, PTL

\* flagd_core.py _check_type: the one value that passes the check without being
\* of the flag's type, or an int for a float, is a boolean for a float flag.
THEOREM OnlyBooleanAsFloat ==
    EvaluationSpec =>
        [](~MatchesFlagType =>
              type = "float" /\ flag.variants[outcome.variant] = "bool")
<1>1. EvaluationInv => (~MatchesFlagType =>
                          type = "float" /\ flag.variants[outcome.variant] = "bool")
  <2> SUFFICES ASSUME EvaluationInv, ~MatchesFlagType
               PROVE  type = "float" /\ flag.variants[outcome.variant] = "bool"
    OBVIOUS
  <2>1. outcome.kind = "value" /\ outcome = Evaluate(flag, type)
    BY DEF MatchesFlagType, EvaluationInv, CallersDefault
  <2>2. PICK name \in DOMAIN flag.variants :
           /\ HasType(type, flag.variants[name])
           /\ outcome = Value(name, Converted(type, flag.variants[name]))
    BY <2>1, CheckedOnly DEF EvaluationInv
  <2>3. outcome.variant = name
    BY <2>2 DEF Value
  <2> QED BY <2>1, <2>2, <2>3, ConvertedType DEF EvaluationInv, MatchesFlagType
<1> QED BY <1>1, EvaluationInvariance, PTL

\* flagd_core.py _resolve: the variant the targeting rule of an enabled flag
\* names is the one returned, or the resolution is an error.
THEOREM TargetingFinal == EvaluationSpec => []TargetingDecides
<1>1. EvaluationInv => TargetingDecides
  <2> SUFFICES ASSUME EvaluationInv, flag.state = "ENABLED",
                      flag.targeting \in VariantKeys, resolved
               PROVE  IF outcome.kind = "value"
                      THEN outcome.variant = VariantName(flag.targeting)
                      ELSE outcome.kind # "default"
    BY DEF TargetingDecides
  <2>1. flag.targeting[1] \in {"str", "bool", "num"}
    BY KeyTypes
  <2>2. outcome = Targeted(flag, type)
    BY <2>1 DEF EvaluationInv, Evaluate
  <2>3. CASE outcome = Error("General")
    BY <2>3 DEF Error
  <2>4. CASE outcome = Checked(flag, VariantName(flag.targeting), type)
    BY <2>4 DEF Checked, Error, Value
  <2> QED BY <2>2, <2>3, <2>4 DEF Targeted
<1> QED BY <1>1, EvaluationInvariance, PTL

-----------------------------------------------------------------------------
(* The fractional operator.                                                 *)

\* The end of the range of the first n fractions.
End(n) == IF n = 0 THEN 0 ELSE ends[n]

FractionalInv ==
    /\ FractionalTypeOK
    /\ args \in Seq({Malformed} \cup {<<w>> : w \in Weights})
    /\ Len(ends) = Len(fractions)
    /\ \A i \in 1..Len(fractions) : ends[i] = End(i - 1) + fractions[i]
    /\ totalWeight = End(Len(fractions))
    /\ pos <= Len(fractions)
    /\ phase = "parse" => pos = 0 /\ rangeEnd = 0 /\ result = None
    /\ phase = "select" => /\ rangeEnd = End(pos)
                           /\ bucket >= rangeEnd
                           /\ totalWeight > 0 => bucket < totalWeight
                           /\ result = None
    /\ result # None => result \in 1..Len(fractions) /\ fractions[result] > 0

LEMMA ScaleBound ==
    ASSUME NEW h \in 0..(HashSpace - 1), NEW t \in Nat
    PROVE  /\ (h * t) \div HashSpace \in Nat
           /\ t > 0 => (h * t) \div HashSpace < t
<1> DEFINE q == (h * t) \div HashSpace
<1>1. HashSpace \in Nat /\ HashSpace > 0
  BY FractionalAssumption
<1>2. h * t \in Nat
  OBVIOUS
<1>3. q \in Int /\ HashSpace * q <= h * t /\ h * t < HashSpace * q + HashSpace
  BY <1>1, <1>2
<1>4. q >= 0
  <2>1. SUFFICES ASSUME q <= -1 PROVE FALSE
    BY <1>3
  <2>2. HashSpace * q <= -HashSpace
    BY <1>1, <1>3, <2>1
  <2> QED BY <1>1, <1>2, <1>3, <2>2
<1>5. ASSUME t > 0 PROVE q < t
  <2>1. h * t < HashSpace * t
    BY <1>1, <1>5
  <2>2. SUFFICES ASSUME q >= t PROVE FALSE
    BY <1>3
  <2>3. HashSpace * q >= HashSpace * t
    BY <1>1, <1>3, <2>2
  <2> QED BY <1>1, <1>2, <1>3, <2>1, <2>3
<1> QED BY <1>3, <1>4, <1>5

LEMMA FractionalStart == FractionalInit => FractionalInv
<1> SUFFICES ASSUME FractionalInit PROVE FractionalInv
  OBVIOUS
<1>1. args \in Seq({Malformed} \cup {<<w>> : w \in Weights})
  BY FractionalAssumption DEF FractionalInit, ArgLists
<1>2. FractionalTypeOK
  BY FractionalAssumption DEF FractionalInit, FractionalTypeOK, None
<1>3. \A i \in 1..Len(fractions) : ends[i] = End(i - 1) + fractions[i]
  BY DEF FractionalInit
<1> QED BY <1>1, <1>2, <1>3 DEF FractionalInit, FractionalInv, End, None

LEMMA FractionalStep == FractionalInv /\ [FractionalNext]_fractionalVars => FractionalInv'
<1> SUFFICES ASSUME FractionalInv, [FractionalNext]_fractionalVars PROVE FractionalInv'
  OBVIOUS
<1> USE FractionalAssumption DEF FractionalInv, FractionalTypeOK, None
<1>1. CASE ParseFraction
  <2> DEFINE arg  == args[Len(fractions) + 1]
             Args == {Malformed} \cup {<<w>> : w \in Weights}
  <2>0. args \in Seq(Args) /\ Len(fractions) \in Nat /\ Len(fractions) < Len(args)
    BY <1>1 DEF ParseFraction
  <2>1. arg \in Args
    <3> HIDE DEF Args
    <3> QED BY <2>0
  <2>2. CASE arg = Malformed
    <3>1. phase' = "done" /\ UNCHANGED <<args, hash, fractions, totalWeight, bucket, rangeEnd,
                                      pos, result, ends>>
      BY <1>1, <2>2 DEF ParseFraction
    <3> QED BY <3>1 DEF End
  <2>3. CASE arg # Malformed
    <3>1. Clamp(arg[1]) \in Nat
      BY <2>1, <2>3 DEF Clamp
    <3>2. /\ fractions' = Append(fractions, Clamp(arg[1]))
          /\ totalWeight' = totalWeight + Clamp(arg[1])
          /\ ends' = Append(ends, totalWeight + Clamp(arg[1]))
          /\ UNCHANGED <<phase, args, hash, bucket, rangeEnd, pos, result>>
          /\ phase = "parse"
      BY <1>1, <2>3 DEF ParseFraction
    <3>3. \A i \in 1..Len(fractions') : ends'[i] = End(i - 1)' + fractions'[i]
      <4> SUFFICES ASSUME NEW i \in 1..Len(fractions')
                   PROVE  ends'[i] = End(i - 1)' + fractions'[i]
        OBVIOUS
      <4>1. CASE i = Len(fractions) + 1
        BY <3>1, <3>2, <4>1 DEF End
      <4>2. CASE i \in 1..Len(fractions)
        BY <3>1, <3>2, <4>2 DEF End
      <4> QED BY <3>1, <3>2, <4>1, <4>2
    <3>4. totalWeight' = End(Len(fractions))'
      BY <3>1, <3>2 DEF End
    <3> QED BY <3>1, <3>2, <3>3, <3>4
  <2> QED BY <2>2, <2>3
<1>2. CASE ComputeBucket
  <2>1. (hash * totalWeight) \div HashSpace \in Nat
        /\ (totalWeight > 0 => (hash * totalWeight) \div HashSpace < totalWeight)
    BY ScaleBound
  <2>2. UNCHANGED <<args, hash, fractions, totalWeight, rangeEnd, pos, result, ends>>
        /\ phase = "parse"
    BY <1>2 DEF ComputeBucket
  <2>3. \A n : End(n)' = End(n)
    BY <2>2 DEF End
  <2>4. CASE totalWeight > MaxWeightSum
    BY <1>2, <2>2, <2>3, <2>4 DEF ComputeBucket
  <2>5. CASE ~(totalWeight > MaxWeightSum)
    <3>1. phase' = "select" /\ bucket' = (hash * totalWeight) \div HashSpace
      BY <1>2, <2>5 DEF ComputeBucket
    <3>2. End(pos)' = 0
      BY <2>2 DEF End
    <3> QED BY <2>1, <2>2, <2>3, <3>1, <3>2
  <2> QED BY <2>4, <2>5
<1>3. CASE Select
  <2>1. UNCHANGED <<args, hash, fractions, totalWeight, bucket, ends>> /\ phase = "select"
    BY <1>3 DEF Select
  <2>2. \A n : End(n)' = IF n = 0 THEN 0 ELSE ends[n]
    BY <2>1 DEF End
  <2> DEFINE Frame == /\ \A i \in 1..Len(fractions) : ends[i] = End(i - 1) + fractions[i]
                      /\ totalWeight = End(Len(fractions))
                      /\ Len(ends) = Len(fractions)
                      /\ args \in Seq({Malformed} \cup {<<w>> : w \in Weights})
  <2>f. Frame'
    BY <2>1, <2>2 DEF End
  <2>t. hash' \in 0..(HashSpace - 1) /\ fractions' \in Seq(Nat) /\ ends' \in Seq(Nat)
        /\ totalWeight' \in Nat /\ bucket' \in Nat
    BY <2>1
  <2>3. CASE pos = Len(fractions)
    BY <1>3, <2>1, <2>2, <2>3 DEF Select, End
  <2>4. CASE pos # Len(fractions)
    <3>1. pos + 1 \in 1..Len(fractions) /\ fractions[pos + 1] \in Nat
      BY <2>4
    <3>2. pos' = pos + 1 /\ rangeEnd' = rangeEnd + fractions[pos + 1]
      BY <1>3, <2>4 DEF Select
    <3>t. pos' \in Nat /\ rangeEnd' \in Nat
      BY <3>1, <3>2
    <3>3. ends[pos + 1] = rangeEnd + fractions[pos + 1]
      BY <2>1, <3>1 DEF End
    <3>4. End(pos)' = rangeEnd'
      BY <2>2, <3>1, <3>2, <3>3
    <3>5. CASE bucket < rangeEnd'
      <4>1. phase' = "done" /\ result' = pos + 1
        BY <1>3, <2>4, <3>5 DEF Select
      <4>2. fractions[pos + 1] > 0
        BY <2>1, <3>1, <3>2, <3>5
      <4>3. FractionalTypeOK'
        <5> HIDE DEF FractionalInv
        <5> QED BY <2>t, <3>t, <3>1, <4>1
      <4>4. result' \in 1..Len(fractions') /\ fractions'[result'] > 0 /\ pos' <= Len(fractions')
        BY <2>1, <3>1, <3>2, <4>1, <4>2
      <4> HIDE DEF FractionalTypeOK, End
      <4> QED BY <2>f, <4>1, <4>3, <4>4
    <3>6. CASE ~(bucket < rangeEnd')
      <4>1. phase' = "select" /\ result' = result
        BY <1>3, <2>1, <2>4, <3>6 DEF Select
      <4>2. FractionalTypeOK'
        <5>1. result' \in Nat
          BY <4>1
        <5> HIDE DEF FractionalInv
        <5> QED BY <2>t, <3>t, <4>1, <5>1
      <4>3. rangeEnd' = End(pos)' /\ bucket' >= rangeEnd' /\ result' = None
            /\ (totalWeight' > 0 => bucket' < totalWeight') /\ pos' <= Len(fractions')
        BY <2>1, <3>1, <3>2, <3>4, <3>6, <4>1
      <4> HIDE DEF FractionalTypeOK, End
      <4> QED BY <2>f, <4>1, <4>2, <4>3
    <3> QED BY <3>5, <3>6
  <2> QED BY <2>3, <2>4
<1>4. CASE UNCHANGED fractionalVars
  BY <1>4 DEF fractionalVars, End
<1> QED BY <1>1, <1>2, <1>3, <1>4 DEF FractionalNext

LEMMA FractionalInvariance == FractionalSpec => []FractionalInv
  BY FractionalStart, FractionalStep, PTL DEF FractionalSpec

-----------------------------------------------------------------------------
\* custom_ops.py fractional: the variables have their types; clamping keeps the
\* weights, their sums and the bucket natural numbers.
THEOREM FractionalTypeCorrect == FractionalSpec => []FractionalTypeOK
  BY FractionalInvariance, PTL DEF FractionalInv

\* custom_ops.py fractional: "return None" after the loop is reached only by a
\* list whose weights are all 0, and a weight of 0 is never selected.
THEOREM AlwaysSelects == FractionalSpec => []Selects
<1>1. FractionalInv => Selects
  BY DEF FractionalInv, FractionalTypeOK, Selects, End, None
<1> QED BY <1>1, FractionalInvariance, PTL

-----------------------------------------------------------------------------
\* The hash scaled to the sum of the weights, and what the selection knows of it:
\* a selected variant is the one whose range it lies in.
Scaled == (hash * totalWeight) \div HashSpace

Selected ==
    /\ \A i \in 1..Len(fractions) : ends[i] <= totalWeight
    /\ phase = "select" => bucket = Scaled
    /\ result # None => bucket = Scaled /\ End(result - 1) <= bucket /\ bucket < ends[result]

LEMMA SelectedInvariance == FractionalSpec => []Selected
<1>1. FractionalInit => Selected
  BY DEF FractionalInit, Selected, None
<1>2. FractionalInv /\ Selected /\ [FractionalNext]_fractionalVars => Selected'
  <2> SUFFICES ASSUME FractionalInv, Selected, [FractionalNext]_fractionalVars
               PROVE  Selected'
    OBVIOUS
  <2> USE DEF FractionalInv, FractionalTypeOK, None
  <2>1. CASE ParseFraction
    <3>1. phase = "parse" /\ result = None /\ phase' # "select" /\ result' = None
      BY <2>1 DEF ParseFraction
    <3> DEFINE arg  == args[Len(fractions) + 1]
               Args == {Malformed} \cup {<<w>> : w \in Weights}
    <3>2. arg \in Args
      <4>1. args \in Seq(Args) /\ Len(fractions) < Len(args)
        BY <2>1 DEF ParseFraction
      <4> HIDE DEF Args
      <4> QED BY <4>1
    <3>3. CASE arg = Malformed
      <4>1. UNCHANGED <<fractions, totalWeight, ends>>
        BY <2>1, <3>3 DEF ParseFraction
      <4> QED BY <3>1, <4>1 DEF Selected
    <3>4. CASE arg # Malformed
      <4>1. Clamp(arg[1]) \in Nat
        <5>1. PICK w \in Weights : arg = <<w>>
          BY <3>2, <3>4
        <5>2. arg[1] \in Int
          BY <5>1, FractionalAssumption
        <5> QED BY <5>2 DEF Clamp
      <4>2. /\ fractions' = Append(fractions, Clamp(arg[1]))
            /\ totalWeight' = totalWeight + Clamp(arg[1])
            /\ ends' = Append(ends, totalWeight + Clamp(arg[1]))
        BY <2>1, <3>4 DEF ParseFraction
      <4>3. \A i \in 1..Len(fractions') : ends'[i] <= totalWeight'
        <5> SUFFICES ASSUME NEW i \in 1..Len(fractions')
                     PROVE  ends'[i] <= totalWeight'
          OBVIOUS
        <5>0. /\ ends \in Seq(Nat) /\ fractions \in Seq(Nat) /\ totalWeight \in Nat
              /\ Len(ends) = Len(fractions)
              /\ \A j \in 1..Len(fractions) : ends[j] <= totalWeight
          BY DEF Selected
        <5> HIDE DEF arg, FractionalInv, FractionalTypeOK
        <5>1. CASE i = Len(fractions) + 1
          BY <4>1, <4>2, <5>0, <5>1
        <5>2. CASE i \in 1..Len(fractions)
          BY <4>1, <4>2, <5>0, <5>2
        <5> QED BY <4>1, <4>2, <5>0, <5>1, <5>2
      <4> QED BY <3>1, <4>3 DEF Selected
    <3> QED BY <3>3, <3>4
  <2>2. CASE ComputeBucket
    <3>1. UNCHANGED <<hash, fractions, totalWeight, result, ends>> /\ result = None
      BY <2>2 DEF ComputeBucket
    <3>2. phase' = "select" => bucket' = Scaled
      BY <2>2 DEF ComputeBucket, Scaled
    <3>3. Scaled' = Scaled
      BY <3>1 DEF Scaled
    <3> QED BY <3>1, <3>2, <3>3 DEF Selected
  <2>3. CASE Select
    <3>1. UNCHANGED <<hash, fractions, totalWeight, bucket, ends>>
          /\ phase = "select" /\ result = None
      BY <2>3 DEF Select
    <3>2. Scaled' = Scaled
      BY <3>1 DEF Scaled
    <3>3. bucket = Scaled /\ \A i \in 1..Len(fractions) : ends[i] <= totalWeight
      BY <3>1 DEF Selected
    <3>4. ASSUME result' # None
          PROVE  End(result - 1)' <= bucket' /\ bucket' < ends'[result']
      <4>1. pos # Len(fractions)
        BY <2>3, <3>1, <3>4 DEF Select
      <4>2. pos + 1 \in 1..Len(fractions) /\ fractions[pos + 1] \in Nat
        BY <4>1
      <4>3. rangeEnd' = rangeEnd + fractions[pos + 1] /\ bucket < rangeEnd'
            /\ result' = pos + 1
        BY <2>3, <3>1, <3>4, <4>1 DEF Select
      <4>4. ends[pos + 1] = rangeEnd' /\ End(pos) <= bucket
        BY <3>1, <4>2, <4>3
      <4>5. End(result - 1)' = End(pos)
        BY <3>1, <4>2, <4>3 DEF End
      <4> QED BY <3>1, <4>3, <4>4, <4>5
    <3> QED BY <3>1, <3>2, <3>3, <3>4 DEF Selected
  <2>4. CASE UNCHANGED fractionalVars
    BY <2>4 DEF fractionalVars, Selected, Scaled, End
  <2> QED BY <2>1, <2>2, <2>3, <2>4 DEF FractionalNext
<1> QED BY <1>1, <1>2, FractionalInvariance, PTL DEF FractionalSpec

LEMMA CeilBounds ==
    ASSUME NEW a \in Nat, NEW b \in Nat \ {0}
    PROVE  Ceil(a, b) \in Int /\ a <= b * Ceil(a, b) /\ b * Ceil(a, b) < a + b
<1> DEFINE n == a + b - 1
           q == n \div b
<1>1. n \in Nat
  OBVIOUS
<1> HIDE DEF n
<1>2. q \in Int /\ b * q <= n /\ n < b * q + b
  BY <1>1
<1>3. b * q \in Int
  BY <1>2
<1>4. a <= b * q /\ b * q < a + b
  BY <1>2, <1>3 DEF n
<1> QED BY <1>2, <1>4 DEF Ceil, n

LEMMA FloorBounds ==
    ASSUME NEW a \in Nat, NEW b \in Nat \ {0}
    PROVE  a \div b \in Int /\ b * (a \div b) <= a /\ a < b * (a \div b) + b
  OBVIOUS

\* A hash whose scaled value lies between the whole numbers s and e lies between
\* what s and e are scaled from.
LEMMA ScaledBack ==
    ASSUME NEW h \in Nat, NEW t \in Nat \ {0}, NEW s \in Nat, NEW e \in Nat,
           s <= (h * t) \div HashSpace, (h * t) \div HashSpace < e
    PROVE  /\ Ceil(s * HashSpace, t) <= h
           /\ h < Ceil(e * HashSpace, t)
<1> DEFINE q  == (h * t) \div HashSpace
           lo == Ceil(s * HashSpace, t)
           hi == Ceil(e * HashSpace, t)
<1>1. HashSpace \in Nat \ {0}
  BY FractionalAssumption
<1>2. h * t \in Nat /\ s * HashSpace \in Nat /\ e * HashSpace \in Nat
  BY <1>1
<1>3. q \in Int /\ HashSpace * q <= h * t /\ h * t < HashSpace * q + HashSpace
  BY <1>1, <1>2, FloorBounds
<1>4. lo \in Int /\ t * lo < s * HashSpace + t
  BY <1>2, CeilBounds
<1>5. hi \in Int /\ e * HashSpace <= t * hi
  BY <1>2, CeilBounds
<1> HIDE DEF q, lo, hi
<1>6. lo <= h
  <2>1. SUFFICES ASSUME lo >= h + 1 PROVE FALSE
    BY <1>4
  <2>2. t * lo >= t * (h + 1)
    BY <1>4, <2>1
  <2>3. t * (h + 1) = h * t + t
    OBVIOUS
  <2>4. s * HashSpace <= HashSpace * q
    BY <1>1, <1>3 DEF q
  <2> QED BY <1>1, <1>2, <1>3, <1>4, <2>2, <2>3, <2>4
<1>7. h < hi
  <2>1. SUFFICES ASSUME hi <= h PROVE FALSE
    BY <1>5
  <2>2. t * hi <= h * t
    BY <1>5, <2>1
  <2>3. HashSpace * (q + 1) <= e * HashSpace
    BY <1>1, <1>3 DEF q
  <2>4. HashSpace * (q + 1) = HashSpace * q + HashSpace
    BY <1>1, <1>3
  <2> QED BY <1>1, <1>2, <1>3, <1>5, <2>2, <2>3, <2>4
<1> QED BY <1>6, <1>7 DEF lo, hi

\* How many hashes that are.
LEMMA CountBounds ==
    ASSUME NEW t \in Nat \ {0}, NEW s \in Nat, NEW w \in Nat
    PROVE  LET count == Ceil((s + w) * HashSpace, t) - Ceil(s * HashSpace, t)
           IN /\ t * count < w * HashSpace + t
              /\ t * count > w * HashSpace - t
<1> DEFINE lo == Ceil(s * HashSpace, t)
           hi == Ceil((s + w) * HashSpace, t)
<1>1. HashSpace \in Nat \ {0}
  BY FractionalAssumption
<1>2. s * HashSpace \in Nat /\ w * HashSpace \in Nat
      /\ (s + w) * HashSpace = s * HashSpace + w * HashSpace
  BY <1>1
<1>3. lo \in Int /\ s * HashSpace <= t * lo /\ t * lo < s * HashSpace + t
  BY <1>2, CeilBounds
<1>4. hi \in Int /\ (s + w) * HashSpace <= t * hi /\ t * hi < (s + w) * HashSpace + t
  BY <1>2, CeilBounds
<1> HIDE DEF lo, hi
<1>5. t * (hi - lo) = t * hi - t * lo
  BY <1>3, <1>4
<1>6. t * lo \in Int /\ t * hi \in Int
  BY <1>3, <1>4
<1>7. t * (hi - lo) < w * HashSpace + t /\ t * (hi - lo) > w * HashSpace - t
  BY <1>2, <1>3, <1>4, <1>5, <1>6
<1> QED BY <1>7 DEF lo, hi

\* custom_ops.py fractional: a variant is selected for its share of the hashes,
\* whatever the weights and however many fractions there are; rounding gives or
\* takes less than one hash.
THEOREM SharesHold == FractionalSpec => []Share
<1>1. FractionalInv /\ Selected => Share
  <2> SUFFICES ASSUME FractionalInv, Selected, result # None PROVE Share
    BY DEF Share
  <2> DEFINE w == fractions[result]
             s == ends[result] - w
  <2>1. result \in 1..Len(fractions) /\ w \in Nat /\ ends[result] \in Nat
        /\ hash \in Nat /\ totalWeight \in Nat /\ hash \in 0..(HashSpace - 1)
    BY FractionalAssumption DEF FractionalInv, FractionalTypeOK
  <2>2. End(result - 1) \in Nat
    BY <2>1 DEF FractionalInv, FractionalTypeOK, End
  <2>3. s = End(result - 1) /\ s \in Nat /\ ends[result] = s + w
    BY <2>1, <2>2 DEF FractionalInv
  <2>4. bucket \in Nat /\ bucket = Scaled /\ s <= bucket /\ bucket < ends[result]
        /\ ends[result] <= totalWeight
    BY <2>1, <2>3 DEF Selected, FractionalInv, FractionalTypeOK
  <2>5. totalWeight \in Nat \ {0}
    BY <2>1, <2>4
  <2> HIDE DEF s, w
  <2>6. Ceil(s * HashSpace, totalWeight) <= hash
        /\ hash < Ceil(ends[result] * HashSpace, totalWeight)
    BY <2>1, <2>3, <2>4, <2>5, ScaledBack DEF Scaled
  <2>7. LET count == Ceil(ends[result] * HashSpace, totalWeight)
                       - Ceil(s * HashSpace, totalWeight)
        IN /\ totalWeight * count < w * HashSpace + totalWeight
           /\ totalWeight * count > w * HashSpace - totalWeight
    BY <2>1, <2>3, <2>5, CountBounds
  <2>8. Ceil(s * HashSpace, totalWeight) \in Int
        /\ Ceil(ends[result] * HashSpace, totalWeight) \in Int
    <3>1. HashSpace \in Nat
      BY FractionalAssumption
    <3>2. s * HashSpace \in Nat /\ ends[result] * HashSpace \in Nat
      BY <2>1, <2>3, <3>1
    <3> QED BY <2>5, <3>2, CeilBounds
  <2>9. hash \in Ceil(s * HashSpace, totalWeight)
                   .. (Ceil(ends[result] * HashSpace, totalWeight) - 1)
    BY <2>1, <2>6, <2>8
  <2> QED BY <2>7, <2>9 DEF Share, s, w
<1> QED BY <1>1, FractionalInvariance, SelectedInvariance, PTL
=============================================================================
