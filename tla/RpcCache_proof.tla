---------------------------- MODULE RpcCache_proof ----------------------------
(***************************************************************************)
(* Proofs about the RPC resolver's cache, for any number of flags, client  *)
(* threads, versions and any cache size.                                   *)
(*                                                                         *)
(* The inductive invariant says of an answer on its way to a client what   *)
(* StaleOnlyIfExcused says of a cached entry: Insert turns one into the    *)
(* other.                                                                  *)
(***************************************************************************)
EXTENDS RpcCache, TLAPS

Accounted(k, v) == v = ver[k] \/ Announced(k) \/ k \in excused

AnswersAccounted ==
    \A c \in Clients :
        client[c].at = "answered" => Accounted(client[c].flag, client[c].version)

\* The last conjunct: when the listener handles no message it has nothing to drop.
CacheInv ==
    /\ TypeOK
    /\ StaleOnlyIfExcused
    /\ AnswersAccounted
    /\ pops \subseteq changed

-----------------------------------------------------------------------------
(* Types.                                                                   *)

\* NotCached is not a version.
LEMMA NotCachedFresh == NotCached \notin Versions
  BY CacheAssumption DEF NotCached, Versions

\* Every kind of call is well-typed.
LEMMA CallTypes ==
    /\ Idle \in Calls
    /\ \A k \in Flags : /\ [at |-> "hit", flag |-> k] \in Calls
                        /\ [at |-> "ask", flag |-> k] \in Calls
    /\ \A k \in Flags, v \in Versions, s \in BOOLEAN :
          [at |-> "answered", flag |-> k, version |-> v, static |-> s] \in Calls
  BY DEF Calls, Idle

\* What a call in a given phase carries.
LEMMA CallFields ==
    ASSUME NEW r \in Calls
    PROVE  /\ r.at \in {"hit", "ask", "answered"} => r.flag \in Flags
           /\ r.at = "answered" => r.version \in Versions /\ r.static \in BOOLEAN
  BY DEF Calls, Idle

\* Each kind of step keeps the types.
LEMMA TypeStep == TypeOK /\ [Next]_vars => TypeOK'
<1> SUFFICES ASSUME TypeOK, [Next]_vars PROVE TypeOK'
  OBVIOUS
<1> USE CacheAssumption DEF TypeOK, vars, listener
<1>1. ASSUME NEW S \in SUBSET Flags, ServerChange(S) PROVE TypeOK'
  <2>1. ver' \in [Flags -> Versions]
    <3>1. \A k \in S : ver[k] + 1 \in Versions
      BY <1>1 DEF ServerChange, Versions
    <3>. QED
      BY <1>1, <3>1 DEF ServerChange
  <2>3. events' \in Seq(SUBSET Flags) /\ excused' \subseteq Flags
    <3>1. CASE stream = "up"
      BY <1>1, <3>1 DEF ServerChange
    <3>2. CASE stream # "up"
      BY <1>1, <3>2 DEF ServerChange
    <3>. QED
      BY <3>1, <3>2
  <2>. QED
    BY <1>1, <2>1, <2>3 DEF ServerChange
<1>2. CASE StreamOpens
  BY <1>2 DEF StreamOpens
<1>3. CASE StreamBreaks
  <2>1. \A i \in 1..Len(events) : events[i] \subseteq Flags
    OBVIOUS
  <2>2. excused' \subseteq Flags
    BY <1>3, <2>1 DEF StreamBreaks
  <2>. QED
    BY <1>3, <2>2 DEF StreamBreaks
<1>11. CASE GraceChanges
  BY <1>11 DEF GraceChanges
<1>4. CASE TakeEvent
  <2>1. Head(events) \subseteq Flags /\ Tail(events) \in Seq(SUBSET Flags)
    BY <1>4 DEF TakeEvent
  <2>2. pops' \subseteq changed' /\ excused' \subseteq Flags
    BY <1>4, <2>1 DEF TakeEvent
  <2>. QED
    BY <1>4, <2>1, <2>2 DEF TakeEvent
<1>5. ASSUME NEW k \in Flags, Pop(k) PROVE TypeOK'
  BY <1>5 DEF Pop
<1>6. CASE EmitChanged
  BY <1>6 DEF EmitChanged
<1>7. CASE EmitError
  BY <1>7 DEF EmitError, Clear
<1>8. CASE Shutdown
  <2>1. \A i \in 1..Len(events) : events[i] \subseteq Flags
    OBVIOUS
  <2>2. excused' \subseteq Flags
    BY <1>8, <2>1 DEF Shutdown
  <2>. QED
    BY <1>8, <2>2 DEF Shutdown, Closed
<1>12. CASE ShutdownClears
  BY <1>12 DEF ShutdownClears, Clear, Closed
<1>9. ASSUME NEW c \in Clients, Client(c) PROVE TypeOK'
  <2>1. ASSUME NEW k \in Flags, Resolve(c, k) PROVE TypeOK'
    BY <2>1, CallTypes DEF Resolve, Step
  <2>2. CASE ReadCache(c)
    BY <2>2, CallTypes DEF ReadCache, Step
  <2>3. CASE ServerAnswers(c)
    <3>1. client[c].flag \in Flags
      BY <2>3, CallFields DEF ServerAnswers
    <3>2. ver[client[c].flag] \in Versions
      BY <3>1
    <3>3. client' \in [Clients -> Calls]
      BY <2>3, <3>1, <3>2, CallTypes DEF ServerAnswers, Step
    <3>. QED
      BY <2>3, <3>3 DEF ServerAnswers
  <2>4. CASE CallFails(c)
    BY <2>4, CallTypes DEF CallFails, Step
  <2>5. CASE Insert(c)
    <3>1. client[c].flag \in Flags /\ client[c].version \in Versions
      BY <2>5, CallFields DEF Insert
    <3>2. cache' \in [Flags -> Versions \cup {NotCached}]
      BY <2>5, <3>1 DEF Insert, Cached
    <3>3. client' \in [Clients -> Calls]
      BY <2>5, CallTypes DEF Insert, Step
    <3>. QED
      BY <2>5, <3>2, <3>3 DEF Insert
  <2>. QED
    BY <1>9, <2>1, <2>2, <2>3, <2>4, <2>5 DEF Client
<1>10. CASE UNCHANGED vars
  BY <1>10
<1>. QED
  BY <1>1, <1>2, <1>3, <1>4, <1>5, <1>6, <1>7, <1>8, <1>9, <1>10, <1>11, <1>12
     DEF Next, HandleChangedFlags

\* The initial state is well-typed.
LEMMA TypeInit == Init => TypeOK
<1> SUFFICES ASSUME Init PROVE TypeOK
  OBVIOUS
<1>1. grace \in BOOLEAN
  BY Zenon DEF Init
<1>. QED
  BY <1>1, CacheAssumption, CallTypes DEF Init, TypeOK, Versions

\* Every variable keeps its type.
THEOREM TypeCorrect == Spec => []TypeOK
  BY TypeInit, TypeStep, PTL DEF Spec

-----------------------------------------------------------------------------
(* Outdated entries.                                                        *)

\* Appending a message announces its flags and loses none.
LEMMA AnnounceOnAppend ==
    ASSUME TypeOK, NEW S \in SUBSET Flags, events' = Append(events, S), pops' = pops,
           NEW k
    PROVE  Announced(k)' <=> Announced(k) \/ k \in S
<1>1. /\ Len(events') = Len(events) + 1
      /\ \A i \in 1..Len(events) : events'[i] = events[i]
      /\ events'[Len(events) + 1] = S
  BY DEF TypeOK
<1>2. Len(events) \in Nat
  BY DEF TypeOK
<1>. QED
  BY <1>1, <1>2 DEF Announced

\* The listener takes the first message; the others stay announced.
LEMMA AnnounceOnTake ==
    ASSUME TypeOK, events # <<>>, events' = Tail(events), pops = {}, NEW k, Announced(k)
    PROVE  k \in Head(events) \/ Announced(k)'
<1>1. PICK i \in 1..Len(events) : k \in events[i]
  BY DEF Announced
<1>2. Len(events) \in Nat /\ Len(events') = Len(events) - 1
  BY DEF TypeOK
<1>3. CASE i = 1
  BY <1>1, <1>3 DEF TypeOK
<1>4. CASE i # 1
  <2>1. i - 1 \in 1..Len(events') /\ events'[i - 1] = events[i]
    BY <1>1, <1>2, <1>4 DEF TypeOK
  <2>. QED
    BY <2>1, <1>1 DEF Announced
<1>. QED
  BY <1>3, <1>4

\* What is neither cached nor held in an answer needs no account, and clearing
\* the cache excuses exactly the answers that race.
LEMMA ClearStep ==
    ASSUME CacheInv, TypeOK', Clear, UNCHANGED <<ver, client>>
    PROVE  StaleOnlyIfExcused' /\ AnswersAccounted'
<1> USE DEF CacheInv
<1>1. StaleOnlyIfExcused'
  BY DEF Clear, StaleOnlyIfExcused, Cached
<1>2. ASSUME NEW c \in Clients, client[c].at = "answered"
      PROVE  client[c].version = ver[client[c].flag] \/ client[c].flag \in excused'
  <2>1. client[c].flag \in Flags
    BY <1>2, CallFields DEF TypeOK
  <2>. QED
    BY <1>2, <2>1 DEF Clear, Racing
<1>. QED
  BY <1>1, <1>2 DEF AnswersAccounted, Accounted

\* CacheInv is preserved by every step.
LEMMA CacheStep == CacheInv /\ [Next]_vars => CacheInv'
<1> SUFFICES ASSUME CacheInv, [Next]_vars PROVE CacheInv'
  OBVIOUS
<1>t. TypeOK /\ TypeOK'
  BY TypeStep DEF CacheInv
<1>p. pops' \subseteq changed'
  BY <1>t DEF CacheInv, Next, HandleChangedFlags, ServerChange, StreamOpens, StreamBreaks,
              TakeEvent, Pop, EmitChanged, EmitError, GraceChanges, Shutdown, ShutdownClears, Client, Resolve, ReadCache,
              ServerAnswers, CallFails, Insert, vars, listener
<1>s. ASSUME NEW k \in Flags, cache[k] # NotCached PROVE Accounted(k, cache[k])
  BY <1>s DEF CacheInv, StaleOnlyIfExcused, Cached, Accounted
<1>a. ASSUME NEW c \in Clients, client[c].at = "answered"
      PROVE  /\ client[c].flag \in Flags
             /\ Accounted(client[c].flag, client[c].version)
  BY <1>a, <1>t, CallFields DEF CacheInv, TypeOK, AnswersAccounted
\* Most steps leave entries and answers alone and keep every account.
<1>k. ASSUME UNCHANGED <<cache, client>>,
             \A k \in Flags : \A v : Accounted(k, v) => Accounted(k, v)'
      PROVE  CacheInv'
  <2>1. StaleOnlyIfExcused'
    BY <1>k, <1>s DEF StaleOnlyIfExcused, Cached, Accounted
  <2>2. AnswersAccounted'
    BY <1>k, <1>a DEF AnswersAccounted
  <2>. QED
    BY <1>t, <1>p, <2>1, <2>2 DEF CacheInv
<1>1. ASSUME NEW S \in SUBSET Flags, ServerChange(S) PROVE CacheInv'
  <2> SUFFICES ASSUME NEW k \in Flags, NEW v, Accounted(k, v) PROVE Accounted(k, v)'
    BY <1>1, <1>k DEF ServerChange
  <2>1. CASE stream = "up"
    <3>1. Announced(k)' <=> Announced(k) \/ k \in S
      BY <1>1, <2>1, <1>t, AnnounceOnAppend DEF ServerChange, listener
    <3>2. k \notin S => ver'[k] = ver[k]
      BY <1>1 DEF ServerChange
    <3>. QED
      BY <1>1, <2>1, <3>1, <3>2 DEF ServerChange, Accounted
  <2>2. CASE stream # "up"
    BY <1>1, <2>2 DEF ServerChange, Accounted, Announced, listener
  <2>. QED
    BY <2>1, <2>2
<1>2. CASE StreamOpens
  BY <1>2, <1>k DEF StreamOpens, Accounted, Announced, listener
<1>3. CASE StreamBreaks
  <2>1. \A k : Announced(k) => k \in pops \/ k \in excused'
    BY <1>3 DEF StreamBreaks, Announced
  <2>. QED
    BY <1>3, <1>k, <2>1 DEF StreamBreaks, Accounted, Announced, listener
<1>4. CASE TakeEvent
  <2>1. events # <<>> /\ pops = {} /\ events' = Tail(events)
    BY <1>4 DEF TakeEvent, CacheInv
  <2>2. \A k : Announced(k) => k \in Head(events) \/ Announced(k)'
    BY <2>1, <1>t, AnnounceOnTake
  <2>3. CASE Cached # {}
    BY <1>4, <1>k, <2>2, <2>3 DEF TakeEvent, Accounted, Announced
  <2>4. CASE Cached = {}
    <3>1. StaleOnlyIfExcused'
      BY <1>4, <2>4 DEF TakeEvent, StaleOnlyIfExcused, Cached
    <3>2. ASSUME NEW c \in Clients, client[c].at = "answered"
          PROVE  Accounted(client[c].flag, client[c].version)'
      BY <3>2, <1>4, <1>a, <2>2, <2>4 DEF TakeEvent, Accounted, Racing
    <3>3. AnswersAccounted'
      BY <1>4, <3>2 DEF TakeEvent, AnswersAccounted
    <3>. QED
      BY <1>t, <1>p, <3>1, <3>3 DEF CacheInv
  <2>. QED
    BY <2>3, <2>4
<1>5. ASSUME NEW f \in Flags, Pop(f) PROVE CacheInv'
  <2>1. \A k : k # f /\ Announced(k) => Announced(k)'
    BY <1>5 DEF Pop, Announced
  <2>2. \A k, v : k # f /\ Accounted(k, v) => Accounted(k, v)'
    BY <1>5, <2>1 DEF Pop, Accounted
  <2>3. cache'[f] = NotCached /\ \A k \in Flags : k # f => cache'[k] = cache[k]
    BY <1>5, <1>t DEF Pop, TypeOK
  <2>4. StaleOnlyIfExcused'
    BY <1>s, <2>2, <2>3 DEF StaleOnlyIfExcused, Cached, Accounted
  <2>5. ASSUME NEW c \in Clients, client[c].at = "answered", client[c].flag = f
        PROVE  Accounted(client[c].flag, client[c].version)'
    BY <1>5, <2>5 DEF Pop, Accounted, Racing
  <2>6. AnswersAccounted'
    BY <1>5, <1>a, <2>2, <2>5 DEF Pop, AnswersAccounted
  <2>. QED
    BY <1>t, <1>p, <2>4, <2>6 DEF CacheInv
<1>6. CASE EmitChanged
  BY <1>6, <1>k DEF EmitChanged, Accounted, Announced
<1>7. CASE EmitError
  BY <1>7, <1>t, <1>p, ClearStep DEF EmitError, CacheInv
<1>8. CASE Shutdown
  <2>1. \A k : Announced(k) => k \in pops \/ k \in excused'
    BY <1>8 DEF Shutdown, Announced
  <2>. QED
    BY <1>8, <1>k, <2>1 DEF Shutdown, Accounted, Announced, listener
<1>11. CASE GraceChanges
  BY <1>11, <1>k DEF GraceChanges, Accounted, Announced, listener
<1>12. CASE ShutdownClears
  BY <1>12, <1>t, <1>p, ClearStep DEF ShutdownClears, CacheInv
<1>9. ASSUME NEW c \in Clients, Client(c) PROVE CacheInv'
  <2>1. UNCHANGED <<ver, events, pops, excused>>
    BY <1>9 DEF Client, Resolve, ReadCache, ServerAnswers, CallFails, Insert,
                listener
  <2>2. \A k, v : Accounted(k, v)' <=> Accounted(k, v)
    BY <2>1 DEF Accounted, Announced
  <2>3. \A d \in Clients \ {c} : client'[d] = client[d]
    BY <1>9, <1>t DEF Client, Resolve, ReadCache, ServerAnswers, CallFails, Insert,
                      Step, TypeOK
  <2>4. client'[c].at = "answered"
          => Accounted(client'[c].flag, client'[c].version)
    <3>1. CASE ServerAnswers(c)
      BY <3>1, <1>t DEF ServerAnswers, Step, TypeOK, Accounted
    <3>2. CASE ~ServerAnswers(c)
      BY <1>9, <3>2, <1>t DEF Client, Resolve, ReadCache, CallFails, Insert,
                              Step, TypeOK, Idle
    <3>. QED
      BY <3>1, <3>2
  <2>5. AnswersAccounted'
    BY <1>a, <2>2, <2>3, <2>4 DEF AnswersAccounted
  <2>6. StaleOnlyIfExcused'
    <3>1. ASSUME NEW k \in Flags, cache'[k] # NotCached
          PROVE  Accounted(k, cache'[k])
      <4>1. CASE Insert(c)
        <5>1. client[c].at = "answered"
          BY <4>1 DEF Insert
        <5>2. \/ cache'[k] = cache[k]
              \/ k = client[c].flag /\ cache'[k] = client[c].version
          BY <4>1, <3>1, <1>t DEF Insert, TypeOK, Cached
        <5>. QED
          BY <5>1, <5>2, <3>1, <1>a, <1>s
      <4>2. CASE ~Insert(c)
        BY <1>9, <4>2, <3>1, <1>s DEF Client, Resolve, ReadCache, ServerAnswers,
                                      CallFails
      <4>. QED
        BY <4>1, <4>2
    <3>. QED
      BY <2>2, <3>1 DEF StaleOnlyIfExcused, Cached, Accounted
  <2>. QED
    BY <1>t, <1>p, <2>5, <2>6 DEF CacheInv
<1>10. CASE UNCHANGED vars
  BY <1>10, <1>k DEF Accounted, Announced, vars, listener
<1>. QED
  BY <1>1, <1>2, <1>3, <1>4, <1>5, <1>6, <1>7, <1>8, <1>9, <1>10, <1>11, <1>12
     DEF Next, HandleChangedFlags

\* The invariant holds throughout.
LEMMA CacheInvariant == Spec => []CacheInv
<1>1. ASSUME Init PROVE CacheInv
  <2>1. StaleOnlyIfExcused /\ AnswersAccounted
    BY <1>1 DEF Init, StaleOnlyIfExcused, Cached, AnswersAccounted, Idle
  <2>. QED
    BY <1>1, <2>1, TypeInit DEF CacheInv, Init
<1>. QED
  BY <1>1, CacheStep, PTL DEF Spec

\* A cached result older than the server's flag has its invalidation under
\* way, or was changed while no stream reported it, or was inserted late.
THEOREM StaleExcused == Spec => []StaleOnlyIfExcused
<1>1. CacheInv => StaleOnlyIfExcused
  BY DEF CacheInv
<1>. QED
  BY <1>1, CacheInvariant, PTL

\* PROVIDER_CONFIGURATION_CHANGED is emitted only when the entries of the
\* changed flags are current, announced as changed again, or excused.
THEOREM ChangedSound == Spec => ChangedMeansInvalidated
<1> DEFINE Ok(k) == \/ cache[k] \in {NotCached, ver[k]}
                    \/ \E i \in 1..Len(events) : k \in events[i]
                    \/ k \in excused
<1>1. ASSUME CacheInv, [Next]_vars PROVE [\A k \in changed \ changed' : Ok(k)]_vars
  <2> SUFFICES ASSUME NEW k \in changed \ changed' PROVE Ok(k)
    OBVIOUS
  <2>1. EmitChanged
    BY <1>1 DEF Next, HandleChangedFlags, ServerChange, StreamOpens, StreamBreaks,
                TakeEvent, Pop, EmitError, GraceChanges, Shutdown, ShutdownClears, Client, Resolve, ReadCache,
                ServerAnswers, CallFails, Insert, vars, listener
  <2>2. k \in Flags /\ pops = {}
    BY <1>1, <2>1 DEF CacheInv, TypeOK, EmitChanged
  <2>. QED
    BY <1>1, <2>2 DEF CacheInv, StaleOnlyIfExcused, Cached, Announced
<1>. QED
  BY <1>1, CacheInvariant, PTL DEF Spec, ChangedMeansInvalidated
=============================================================================
