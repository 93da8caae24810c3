------------------------- MODULE UnleashProvider_proof -------------------------
(***************************************************************************)
(* Proofs about the Unleash provider, for any handlers, and any number of  *)
(* initializations, shutdowns and callbacks.                               *)
(***************************************************************************)
EXTENDS UnleashProvider, SequenceTheorems, TLAPS

\* A handler that is due has been called or is still ahead of the loop.
Ahead(h) == \E i \in pos + 1 .. Len(handlers) : handlers[i] = h
Calls    == \A h \in due : h \in called \/ (emitting /\ Ahead(h))

\* Only a client that is initialized, or being so, calls back; after a shutdown
\* that met no initialize(), only one that is about to be destroyed.
Ending ==
    /\ callback # "none" => initialized \/ init = "client"
    /\ clean => /\ init = "idle"
                /\ initialized => down = "destroying"
                /\ down = "idle" => status = "NOT_READY"

-----------------------------------------------------------------------------
\* Taking one element out of a list leaves a shorter list of its other elements.
LEMMA RemoveAtType ==
    ASSUME NEW S, NEW s \in Seq(S), NEW i \in 1..Len(s)
    PROVE  /\ RemoveAt(s, i) \in Seq(S)
           /\ Len(RemoveAt(s, i)) = Len(s) - 1
<1>1. SubSeq(s, 1, i - 1) \in Seq(S) /\ Len(SubSeq(s, 1, i - 1)) = i - 1
  BY SubSeqProperties
<1>2. SubSeq(s, i + 1, Len(s)) \in Seq(S) /\ Len(SubSeq(s, i + 1, Len(s))) = Len(s) - i
  BY SubSeqProperties
<1>3. RemoveAt(s, i) = SubSeq(s, 1, i - 1) \o SubSeq(s, i + 1, Len(s))
  BY DEF RemoveAt
<1>4. ASSUME NEW a \in Seq(S), NEW b \in Seq(S)
      PROVE  a \o b \in Seq(S) /\ Len(a \o b) = Len(a) + Len(b)
  BY ConcatProperties
<1>5. /\ RemoveAt(s, i) \in Seq(S)
      /\ Len(RemoveAt(s, i)) = Len(SubSeq(s, 1, i - 1)) + Len(SubSeq(s, i + 1, Len(s)))
  BY <1>1, <1>2, <1>3, <1>4, Zenon
<1>6. Len(s) \in Nat /\ (i - 1) + (Len(s) - i) = Len(s) - 1
  BY LenProperties
<1>. QED
  BY <1>1, <1>2, <1>5, <1>6, Zenon

\* Removing a handler keeps the type of the list.
LEMMA ListRemoveType ==
    ASSUME EventTypes, NEW h \in Handlers, ListRemove(h)
    PROVE  handlers' \in Seq(Handlers) /\ Len(handlers') <= MaxRegistered
<1>1. PICK i \in 1..Len(handlers) : handlers' = RemoveAt(handlers, i)
  BY DEF ListRemove
<1>. QED
  BY <1>1, RemoveAtType, EventsAssumption DEF EventTypes

\* Every action of the event manager keeps its types.
LEMMA EventStep ==
    ASSUME EventTypes,
           \/ \E h \in Handlers : AddHandler(h) \/ RemoveHandler(h)
           \/ EmitEvent \/ Call \/ Done \/ UNCHANGED eventVars
    PROVE  EventTypes'
<1> USE EventsAssumption DEF EventTypes
<1>1. ASSUME NEW h \in Handlers, AddHandler(h) PROVE EventTypes'
  BY <1>1, AppendProperties DEF AddHandler
<1>2. ASSUME NEW h \in Handlers, RemoveHandler(h) PROVE EventTypes'
  BY <1>2, ListRemoveType DEF RemoveHandler
<1>3. CASE EmitEvent
  BY <1>3 DEF EmitEvent, ToSet
<1>4. CASE Call
  <2>1. handlers[pos + 1] \in Handlers
    BY <1>4 DEF Call
  <2>2. handlers' \in Seq(Handlers) /\ Len(handlers') <= MaxRegistered
    BY <1>4, <2>1, ListRemoveType DEF Call, AfterCall
  <2>. QED
    BY <1>4, <2>1, <2>2 DEF Call
<1>5. CASE Done
  BY <1>5 DEF Done
<1>6. CASE UNCHANGED eventVars
  BY <1>6 DEF eventVars
<1>. QED
  BY <1>1, <1>2, <1>3, <1>4, <1>5, <1>6

-----------------------------------------------------------------------------
\* A step of the provider is one of the event manager or leaves it alone.
LEMMA EventActions ==
    ASSUME [Next]_vars
    PROVE  \/ \E h \in Handlers : AddHandler(h) \/ RemoveHandler(h)
           \/ EmitEvent \/ Call \/ Done \/ UNCHANGED eventVars
  BY DEF Next, vars, Initialize, ClientInitialized, ClientFails, InitializeFails,
         ClientCalls, CallbackReady, EmitReady, CallHandler, EmitReturns,
         CallbackFetched, Shutdown, Destroy, ResetStatus, ResolveBoolean,
         ResolveVariant, ChangeHandlers

\* Every step keeps the types of the provider.
LEMMA TypeStep == TypeOK /\ [Next]_vars => TypeOK'
<1> SUFFICES ASSUME TypeOK, [Next]_vars PROVE TypeOK'
  OBVIOUS
<1>1. EventTypes'
  BY EventActions, EventStep DEF TypeOK
<1>2. clean' \in BOOLEAN /\ overlapped' \in BOOLEAN
  BY Zenon DEF TypeOK, history, Next, vars, providerVars, Initialize, ClientInitialized,
           ClientFails, InitializeFails, ClientCalls, CallbackReady, EmitReady,
           CallHandler, EmitReturns, CallbackFetched, Shutdown, Destroy, ResetStatus,
           ResolveBoolean, ResolveVariant, ChangeHandlers
<1>3. emitting' = (callback' = "emitting")
  BY DEF TypeOK, history, Next, vars, providerVars, eventVars, Initialize, ClientInitialized,
           ClientFails, InitializeFails, ClientCalls, CallbackReady, EmitReady,
           CallHandler, EmitReturns, CallbackFetched, Shutdown, Destroy, ResetStatus,
           ResolveBoolean, ResolveVariant, ChangeHandlers, EmitEvent, Call, Done,
           AddHandler, RemoveHandler
<1>. QED
  BY <1>1, <1>2, <1>3
     DEF TypeOK, history, Next, vars, providerVars, Initialize, ClientInitialized, ClientFails,
         InitializeFails, ClientCalls, CallbackReady, EmitReady, CallHandler, EmitReturns,
         CallbackFetched, Shutdown, Destroy, ResetStatus, ResolveBoolean, ResolveVariant,
         ChangeHandlers

\* TypeOK holds in every reachable state, whatever the handlers do to the list.
THEOREM TypeCorrect == Spec => []TypeOK
<1>1. Init => TypeOK
  <2> SUFFICES ASSUME Init PROVE TypeOK
    OBVIOUS
  <2>1. EventTypes
    <3>1. <<>> \in Seq(Handlers) /\ Len(<<>>) = 0
      BY EmptySeq
    <3>2. handlers = <<>> /\ emitting = FALSE /\ pos = 0 /\ called = {} /\ due = {}
      BY DEF Init, EventInit
    <3>3. /\ handlers \in Seq(Handlers) /\ Len(handlers) = 0
          /\ called \subseteq Handlers /\ due \subseteq Handlers
      BY <3>1, <3>2, Zenon
    <3>4. emitting \in BOOLEAN
      BY <3>2
    <3>5. pos = 0 /\ MaxRegistered \in Nat
      BY <3>2, EventsAssumption, Zenon DEF EventsAssumption
    <3>. QED
      BY <3>3, <3>4, <3>5 DEF EventTypes
  <2>2. initialized \in BOOLEAN /\ clean \in BOOLEAN /\ overlapped \in BOOLEAN
       /\ emitting = (callback = "emitting")
    BY DEF Init, EventInit
  <2>. QED
    BY <2>1, <2>2 DEF Init, EventInit, TypeOK
<1>. QED
  BY <1>1, TypeStep, PTL DEF Spec

\* However callbacks and initializations interleave with it, a shutdown() that
\* meets no initialize() leaves the provider NOT_READY until the next one.
THEOREM ShutdownFinal == Spec => []DownStaysDown
<1>1. Init => Ending
  BY DEF Init, Ending, DownStaysDown
<1>2. TypeOK /\ Ending /\ [Next]_vars => Ending'
  BY DEF TypeOK, history, Ending, DownStaysDown, Next, vars, providerVars, Initialize,
         ClientInitialized, ClientFails, InitializeFails, ClientCalls, CallbackReady,
         EmitReady, CallHandler, EmitReturns, CallbackFetched, Shutdown, Destroy,
         ResetStatus, ResolveBoolean, ResolveVariant, ChangeHandlers
<1>3. Ending /\ TypeOK => DownStaysDown
  BY DEF Ending, DownStaysDown
<1>. QED
  BY <1>1, <1>2, <1>3, TypeCorrect, PTL DEF Spec

\* A resolution that does not raise returns the type it was asked for or the
\* caller's default, whatever the client answers.
THEOREM ResolutionsTyped == Spec => []ResolvesTyped
<1>1. Init => ResolvesTyped
  BY DEF Init, ResolvesTyped, Default, Outcome
<1>2. ResolvesTyped /\ [Next]_vars => ResolvesTyped'
  <2> SUFFICES ASSUME ResolvesTyped, [Next]_vars PROVE ResolvesTyped'
    OBVIOUS
  <2>1. CASE ResolveBoolean
    BY <2>1 DEF ResolveBoolean, ResolvesTyped, FromToggle, Outcome
  <2>2. CASE ResolveVariant
    <3>1. PICK type \in VariantTypes, variant \in Variants :
             resolution' = [type |-> type, outcome |-> FromVariant(type, variant)]
      BY <2>2 DEF ResolveVariant
    <3> DEFINE outcome == FromVariant(type, variant)
    <3>2. /\ outcome.reason # "ERROR" /\ type # "object" => outcome.value \in {type, "default"}
          /\ outcome.reason = "DEFAULT" => outcome.value = "default"
          /\ outcome.reason = "ERROR" => type \notin {"string", "boolean"}
      BY DEF FromVariant, Converted, Accepted, Matched, Default, Error, Outcome,
             VariantTypes, Variants, Texts
    <3>. QED
      BY <3>1, <3>2 DEF ResolvesTyped
  <2>3. CASE UNCHANGED resolution
    BY <2>3 DEF ResolvesTyped
  <2>. QED
    BY <2>1, <2>2, <2>3
       DEF Next, vars, providerVars, Initialize, ClientInitialized, ClientFails,
           InitializeFails, ClientCalls, CallbackReady, EmitReady, CallHandler,
           EmitReturns, CallbackFetched, Shutdown, Destroy, ResetStatus, ChangeHandlers
<1>. QED
  BY <1>1, <1>2, PTL DEF Spec

\* Without an overlap, the client calls back while it is initialized or being so,
\* and the status that it sets stays until the handlers have returned.
Reporting ==
    ~overlapped =>
        /\ init # "idle" => down = "idle" /\ ~initialized
        /\ callback # "none" => init = "client" \/ (initialized /\ down # "resetting")
        /\ down = "resetting" => ~initialized
        /\ callback \in {"emit", "emitting"} => status = "READY"

\* A handler of PROVIDER_READY sees that status, unless initialize() and
\* shutdown() have overlapped.
THEOREM ReadySeen == Spec => []HandlersSeeReady
<1>1. Init => Reporting
  BY DEF Init, Reporting
<1>2. TypeOK /\ Reporting /\ [Next]_vars => Reporting'
  BY DEF TypeOK, Reporting, history, Next, vars, providerVars, Initialize,
         ClientInitialized, ClientFails, InitializeFails, ClientCalls, CallbackReady,
         EmitReady, CallHandler, EmitReturns, CallbackFetched, Shutdown, Destroy,
         ResetStatus, ResolveBoolean, ResolveVariant, ChangeHandlers
<1>3. TypeOK /\ Reporting => HandlersSeeReady
  BY DEF TypeOK, Reporting, HandlersSeeReady
<1>. QED
  BY <1>1, <1>2, <1>3, TypeCorrect, PTL DEF Spec

\* When the client's event has been emitted, every handler has been called, if
\* no handler is removed meanwhile.
THEOREM AllHandlersCalled ==
    ASSUME ~RemovesDuringEmit, OneShot = {}
    PROVE  Spec => []AllCalled
<1>1. Init => Calls
  BY DEF Init, EventInit, Calls
<1>2. ASSUME TypeOK, Calls, [Next]_vars PROVE Calls'
  <2> USE <1>2 DEF TypeOK, EventTypes, Calls, Ahead
  <2>1. ASSUME NEW h \in Handlers, AddHandler(h) PROVE Calls'
    <3>1. \A i \in 1..Len(handlers) : handlers'[i] = handlers[i]
      BY <2>1, AppendProperties DEF AddHandler
    <3>2. Len(handlers') = Len(handlers) + 1
      BY <2>1, AppendProperties DEF AddHandler
    <3>. QED
      BY <2>1, <3>1, <3>2 DEF AddHandler
  <2>2. ASSUME NEW h \in Handlers, RemoveHandler(h) PROVE Calls'
    BY <2>2 DEF RemoveHandler
  <2>3. CASE EmitEvent
    BY <2>3 DEF EmitEvent, ToSet
  <2>4. CASE Call
    <3>1. handlers' = handlers
      BY <2>4 DEF Call, AfterCall
    <3>2. \A h \in due : Ahead(h) => h = handlers[pos + 1] \/ Ahead(h)'
      BY <2>4, <3>1 DEF Call
    <3>. QED
      BY <2>4, <3>2 DEF Call
  <2>5. CASE Done
    BY <2>5 DEF Done
  <2>6. CASE UNCHANGED eventVars
    BY <2>6 DEF eventVars
  <2>. QED
    BY <2>1, <2>2, <2>3, <2>4, <2>5, <2>6, EventActions
<1>3. Calls => AllCalled
  BY DEF Calls, AllCalled
<1>. QED
  BY <1>1, <1>2, <1>3, TypeCorrect, PTL DEF Spec
===============================================================================
