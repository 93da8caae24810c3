-------------------------- MODULE GrpcResolver_proof --------------------------
(***************************************************************************)
(* The RPC resolver implements the specification of its cache, for any     *)
(* flags, clients, timers and numbers of initializations; what is proved   *)
(* of RpcCache therefore holds of the resolver.                            *)
(*                                                                         *)
(* A step that does not touch the cache maps to a change of the timers at  *)
(* most.  The one fact this needs of the connection: the listener starts a *)
(* new EventStream call only when the old one cannot deliver any more.     *)
(***************************************************************************)
EXTENDS GrpcResolver, TLAPS

Cached == INSTANCE RpcCache_proof WITH stream <- Stream, grace <- Grace

OffStream == {"none", "loop", "fatal", "retry"}

\* Off its stream the listener has no call that could deliver, and a listener
\* on a stream sees active turn False only when the channel has been closed.
CallInv ==
    /\ listener \in ListenerPC
    /\ active \in BOOLEAN
    /\ (listener \in OffStream /\ chan # "SHUTDOWN") => rpc \in {"none", "broken"}
    /\ (~active /\ chan # "SHUTDOWN") => listener \in OffStream

-----------------------------------------------------------------------------
(* The connection.                                                          *)

\* CallInv is preserved by every step.
LEMMA CallStep == CallInv /\ [Next]_vars => CallInv'
<1> SUFFICES ASSUME CallInv, [Next]_vars PROVE CallInv'
  OBVIOUS
<1> USE DEF CallInv, OffStream, ListenerPC
<1>1. CASE Connect \/ Monitor \/ PollEnds \/ InitOutcome
  BY <1>1 DEF Connect, Monitor, PollEnds, InitOutcome, channel, attrs
<1>2. CASE Shutdown \/ ShutdownCancels \/ ShutdownClears
  BY <1>2 DEF Shutdown, ShutdownCancels, ShutdownClears, channel, attrs
<1>3. CASE ChannelMove
  BY <1>3 DEF ChannelMove, ChannelMoves, BreakRpc, attrs
<1>4. CASE ServerAccepts \/ StreamEnds
  BY <1>4 DEF ServerAccepts, StreamEnds, BreakRpc, channel, attrs
<1>5. CASE Callback
  BY <1>5 DEF Callback, Deliver, ReviveListener, CancelTimer, EmitStale, ArmTimer,
              MarkDisconnected, channel, attrs
<1>6. ASSUME NEW t \in Timers, Timer(t) PROVE CallInv'
  BY <1>6 DEF Timer, GraceEnds, ClearCache, EmitError, channel, attrs
<1>7. CASE LoopHead
  BY <1>7 DEF LoopHead, channel, attrs
<1>8. CASE ReceiveGreeting \/ EmitReady \/ MarkConnected \/ ReceiveChange
           \/ InvalidateFlag \/ EmitChanged
  BY <1>8 DEF ReceiveGreeting, EmitReady, MarkConnected, ReceiveChange, InvalidateFlag,
              EmitChanged, channel, attrs, lifetime
<1>9. CASE CheckActive
  BY <1>9 DEF CheckActive, channel, attrs
<1>10. CASE RpcFails
  BY <1>10 DEF RpcFails, channel
<1>11. CASE EmitFatal \/ Retry
  BY <1>11 DEF EmitFatal, Retry, channel, attrs
<1>12. CASE ServerChange
  BY <1>12 DEF ServerChange, lifetime, channel, attrs
<1>13. ASSUME NEW c \in Clients, Resolve(c) PROVE CallInv'
  BY <1>13 DEF Resolve, lifetime, channel, attrs
<1>14. CASE UNCHANGED vars
  BY <1>14 DEF vars, lifetime, channel, attrs
<1>. QED
  BY <1>1, <1>2, <1>3, <1>4, <1>5, <1>6, <1>7, <1>8, <1>9, <1>10, <1>11, <1>12, <1>13,
     <1>14 DEF Next, Listen

\* Only a live connection has a call the listener could be served by.
LEMMA CallInvariant == Spec => []CallInv
<1>1. Init => CallInv
  BY DEF Init, CallInv, OffStream, ListenerPC
<1>. QED
  BY <1>1, CallStep, PTL DEF Spec

-----------------------------------------------------------------------------
(* Refinement.                                                              *)

\* A step that keeps the stream and leaves the cache alone.
LEMMA TimersOnly ==
    ASSUME Stream' = Stream, UNCHANGED caching
    PROVE  Cache!GraceChanges
<1>1. Grace' \in BOOLEAN
  BY DEF Grace
<1>. QED
  BY <1>1 DEF Cache!GraceChanges, Cache!listener, caching

\* Every step of the resolver is a step of its cache or leaves it alone.
LEMMA StepRefines == CallInv /\ [Next]_vars => [Cache!Next]_(Cache!vars)
<1> SUFFICES ASSUME CallInv, [Next]_vars PROVE Cache!Next \/ UNCHANGED Cache!vars
  OBVIOUS
<1>0. Cache!GraceChanges => Cache!Next
  BY DEF Cache!Next
<1>1. CASE Connect \/ Monitor \/ PollEnds \/ InitOutcome
  <2>1. Stream' = Stream /\ UNCHANGED caching
    BY <1>1 DEF Connect, Monitor, PollEnds, InitOutcome, Stream, channel, sdk
  <2>. QED
    BY <1>0, <2>1, TimersOnly
<1>2. CASE Shutdown
  BY <1>2 DEF Shutdown, Cache!Next
<1>3. CASE ShutdownCancels
  <2>1. Stream' = Stream /\ UNCHANGED caching
    BY <1>3 DEF ShutdownCancels, Stream, channel
  <2>. QED
    BY <1>0, <2>1, TimersOnly
<1>4. CASE ShutdownClears
  BY <1>4 DEF ShutdownClears, Cache!Next
<1>5. CASE ChannelMove
  <2>1. CASE Stream = "up"
    BY <1>5, <2>1 DEF ChannelMove, Cache!Next
  <2>2. CASE Stream # "up"
    <3>1. Stream' = Stream /\ UNCHANGED caching
      BY <1>5, <2>2 DEF ChannelMove, ChannelMoves, Stream, sdk
    <3>. QED
      BY <1>0, <3>1, TimersOnly
  <2>. QED
    BY <2>1, <2>2
<1>6. CASE ServerAccepts
  BY <1>6 DEF ServerAccepts, Cache!Next
<1>7. CASE StreamEnds
  <2>1. CASE Stream = "up"
    BY <1>7, <2>1 DEF StreamEnds, Cache!Next
  <2>2. CASE Stream # "up"
    <3>1. Stream' = Stream /\ UNCHANGED caching
      BY <1>7, <2>2 DEF StreamEnds, BreakRpc, Stream, channel
    <3>. QED
      BY <1>0, <3>1, TimersOnly
  <2>. QED
    BY <2>1, <2>2
<1>8. CASE Callback
  <2>1. Stream' = Stream /\ UNCHANGED caching
    BY <1>8 DEF Callback, Deliver, ReviveListener, CancelTimer, EmitStale, ArmTimer,
                MarkDisconnected, Stream, channel, sdk
  <2>. QED
    BY <1>0, <2>1, TimersOnly
<1>9. ASSUME NEW t \in Timers, Timer(t) PROVE Cache!Next
  <2>1. CASE GraceEnds(t) \/ EmitError(t)
    <3>1. Stream' = Stream /\ UNCHANGED caching
      BY <2>1 DEF GraceEnds, EmitError, Stream, channel, sdk
    <3>. QED
      BY <1>0, <3>1, TimersOnly
  <2>2. CASE ClearCache(t)
    BY <2>2 DEF ClearCache, Cache!Next
  <2>. QED
    BY <1>9, <2>1, <2>2 DEF Timer
<1>10. CASE LoopHead \/ ReceiveGreeting \/ RpcFails
  <2>1. Stream' = Stream /\ UNCHANGED caching
    BY <1>10 DEF LoopHead, ReceiveGreeting, RpcFails, Stream, CallInv, OffStream,
                 channel, sdk
  <2>. QED
    BY <1>0, <2>1, TimersOnly
<1>11. CASE EmitReady \/ MarkConnected \/ CheckActive \/ EmitFatal \/ Retry
  <2>1. Stream' = Stream /\ UNCHANGED caching
    BY <1>11 DEF EmitReady, MarkConnected, CheckActive, EmitFatal, Retry, Stream,
                 channel, sdk
  <2>. QED
    BY <1>0, <2>1, TimersOnly
<1>12. CASE ReceiveChange \/ InvalidateFlag \/ EmitChanged
  BY <1>12 DEF ReceiveChange, InvalidateFlag, EmitChanged, Cache!Next,
               Cache!HandleChangedFlags
<1>13. CASE ServerChange
  BY <1>13 DEF ServerChange, Cache!Next
<1>14. ASSUME NEW c \in Clients, Resolve(c) PROVE Cache!Next
  BY <1>14 DEF Resolve, Cache!Next, Cache!Client
<1>15. CASE UNCHANGED vars
  <2>1. Stream' = Stream /\ Grace' = Grace
    BY <1>15 DEF vars, lifetime, channel, sdk, timing, Stream, Grace
  <2>. QED
    BY <1>15, <2>1 DEF vars, caching, Cache!vars, Cache!listener
<1>. QED
  BY <1>1, <1>2, <1>3, <1>4, <1>5, <1>6, <1>7, <1>8, <1>9, <1>10, <1>11, <1>12, <1>13,
     <1>14, <1>15 DEF Next, Listen

\* The resolver's connection gives the cache what its specification assumes.
THEOREM Implements == Spec => ImplementsCache
<1>1. Init => Cache!Init
  BY DEF Init
<1>. QED
  BY <1>1, StepRefines, CallInvariant, PTL DEF Spec, ImplementsCache, Cache!Spec

\* Both instances of RpcCache are the same specification.
LEMMA SameSteps == [Cache!Next]_(Cache!vars) => [Cached!Next]_(Cached!vars)
<1>n. Cache!NotCached = Cached!NotCached /\ Cache!Cached = Cached!Cached
  BY DEF Cache!NotCached, Cached!NotCached, Cache!Cached, Cached!Cached
<1>r. \A k : Cache!Racing(k) <=> Cached!Racing(k)
  BY DEF Cache!Racing, Cached!Racing
<1>1. Cache!StreamOpens => Cached!StreamOpens
  BY DEF Cache!StreamOpens, Cached!StreamOpens, Cache!listener, Cached!listener
<1>2. Cache!StreamBreaks => Cached!StreamBreaks
  BY DEF Cache!StreamBreaks, Cached!StreamBreaks, Cache!listener, Cached!listener
<1>3. Cache!GraceChanges => Cached!GraceChanges
  BY DEF Cache!GraceChanges, Cached!GraceChanges, Cache!listener, Cached!listener
<1>4. Cache!TakeEvent => Cached!TakeEvent
  <2>1. ASSUME NEW S PROVE {k \in S : Cache!Racing(k)} = {k \in S : Cached!Racing(k)}
    BY <1>r
  <2>. QED
    BY <1>n, <2>1 DEF Cache!TakeEvent, Cached!TakeEvent, Cache!listener, Cached!listener
<1>5. Cache!EmitChanged => Cached!EmitChanged
  BY DEF Cache!EmitChanged, Cached!EmitChanged, Cache!listener, Cached!listener
<1>6. Cache!EmitError => Cached!EmitError
  BY DEF Cache!EmitError, Cached!EmitError, Cache!listener, Cached!listener, Cache!Clear, Cached!Clear, Cache!Racing, Cached!Racing, Cache!NotCached, Cached!NotCached
<1>7. Cache!Shutdown => Cached!Shutdown
  BY DEF Cache!Shutdown, Cached!Shutdown, Cache!listener, Cached!listener
<1>8. Cache!ShutdownClears => Cached!ShutdownClears
  BY DEF Cache!ShutdownClears, Cached!ShutdownClears, Cache!listener, Cached!listener, Cache!Clear, Cached!Clear, Cache!Racing, Cached!Racing, Cache!NotCached, Cached!NotCached
<1>9. \A S : Cache!ServerChange(S) => Cached!ServerChange(S)
  BY DEF Cache!ServerChange, Cached!ServerChange, Cache!listener, Cached!listener
<1>10. \A k : Cache!Pop(k) => Cached!Pop(k)
  BY DEF Cache!Pop, Cached!Pop, Cache!Racing, Cached!Racing, Cache!NotCached, Cached!NotCached
<1>11. ASSUME NEW c \in Clients, Cache!Client(c) PROVE Cached!Client(c)
  <2>1. Cache!ReadCache(c) => Cached!ReadCache(c)
    BY DEF Cache!ReadCache, Cached!ReadCache, Cache!Step, Cached!Step, Cache!Idle, Cached!Idle, Cache!listener, Cached!listener
  <2>2. Cache!ServerAnswers(c) => Cached!ServerAnswers(c)
    BY DEF Cache!ServerAnswers, Cached!ServerAnswers, Cache!Step, Cached!Step, Cache!Idle, Cached!Idle, Cache!listener, Cached!listener, Cache!Closed, Cached!Closed
  <2>3. Cache!CallFails(c) => Cached!CallFails(c)
    BY DEF Cache!CallFails, Cached!CallFails, Cache!Step, Cached!Step, Cache!Idle, Cached!Idle, Cache!listener, Cached!listener
  <2>4. Cache!Insert(c) => Cached!Insert(c)
    <3> SUFFICES ASSUME Cache!Insert(c) PROVE Cached!Insert(c)
      OBVIOUS
    <3>1. /\ client[c].at = "answered" /\ Cached!Step(c, Cached!Idle)
          /\ UNCHANGED <<ver, Stream, events, Grace, Cached!listener, excused>>
      BY DEF Cache!Insert, Cache!Step, Cached!Step, Cache!Idle, Cached!Idle,
             Cache!listener, Cached!listener
    <3>2. CASE ~client[c].static
      BY <3>1, <3>2 DEF Cache!Insert, Cached!Insert
    <3>3. CASE client[c].static
      BY <3>1, <3>3, <1>n DEF Cache!Insert, Cached!Insert,
                              Cache!Cardinality, Cached!Cardinality
    <3>. QED
      BY <3>2, <3>3
  <2>5. \A k : Cache!Resolve(c, k) => Cached!Resolve(c, k)
    BY DEF Cache!Resolve, Cached!Resolve, Cache!Step, Cached!Step, Cache!Idle, Cached!Idle, Cache!listener, Cached!listener, Cache!Cached, Cached!Cached, Cache!NotCached, Cached!NotCached
  <2>. QED
    BY <1>11, <2>1, <2>2, <2>3, <2>4, <2>5 DEF Cache!Client, Cached!Client
<1>12. Cache!vars = Cached!vars
  BY DEF Cache!vars, Cached!vars, Cache!listener, Cached!listener
<1>13. Cache!vars' = Cached!vars'
  BY DEF Cache!vars, Cached!vars, Cache!listener, Cached!listener
<1>. QED
  BY <1>1, <1>2, <1>3, <1>4, <1>5, <1>6, <1>7, <1>8, <1>9, <1>10, <1>11, <1>12, <1>13
     DEF Cache!Next, Cached!Next, Cache!HandleChangedFlags, Cached!HandleChangedFlags

\* What is proved of RpcCache applies to the resolver.
LEMMA RefinesCached == Spec => Cached!Spec
<1>1. Cache!Init => Cached!Init
  BY DEF Cache!Init, Cached!Init, Cache!Idle, Cached!Idle, Cache!NotCached, Cached!NotCached
<1>2. Cache!Spec => Cached!Spec
  BY <1>1, SameSteps, PTL DEF Cache!Spec, Cached!Spec
<1>3. Spec => Cache!Spec
  BY Implements DEF ImplementsCache
<1>. QED
  BY <1>2, <1>3

\* What the cache holds in the resolver is current, about to be invalidated, or
\* excused by a loss.
THEOREM StaleExcused == Spec => []Cache!StaleOnlyIfExcused
<1>1. Cached!Spec => []Cached!StaleOnlyIfExcused
  BY ResolverAssumption, Cached!StaleExcused
<1>2. Cached!StaleOnlyIfExcused => Cache!StaleOnlyIfExcused
  BY DEF Cache!StaleOnlyIfExcused, Cached!StaleOnlyIfExcused, Cache!Cached, Cached!Cached, Cache!NotCached, Cached!NotCached, Cache!Announced, Cached!Announced
<1>. QED
  BY RefinesCached, <1>1, <1>2, PTL

\* When the resolver reports a configuration change, what is cached for the
\* changed flags is current, has been changed again since, or is excused.
THEOREM ChangedSound == Spec => Cache!ChangedMeansInvalidated
<1> DEFINE Ok(none) == \A k \in changed \ changed' :
                          \/ cache[k] \in {none, ver[k]}
                          \/ \E i \in 1..Len(events) : k \in events[i]
                          \/ k \in excused
<1>1. Cached!Spec => [][Ok(Cached!NotCached)]_(Cached!vars)
  BY ResolverAssumption, Cached!ChangedSound DEF Cached!ChangedMeansInvalidated
<1>2. [Ok(Cached!NotCached)]_(Cached!vars) => [Ok(Cache!NotCached)]_(Cache!vars)
  BY DEF Cache!vars, Cached!vars, Cache!listener, Cached!listener,
         Cache!NotCached, Cached!NotCached
<1>. QED
  BY RefinesCached, <1>1, <1>2, PTL DEF Cache!ChangedMeansInvalidated

-----------------------------------------------------------------------------
(* Types.                                                                   *)

\* The connection keeps its types.
LEMMA ConnectionTypeStep == ConnectionTypes /\ [Next]_vars => ConnectionTypes'
<1> SUFFICES ASSUME ConnectionTypes, [Next]_vars PROVE ConnectionTypes'
  OBVIOUS
<1> USE ResolverAssumption DEF ConnectionTypes, ChanStates, ListenerPC, channel, sdk,
        attrs, timing, lifetime
<1>1. CASE Connect
  BY <1>1 DEF Connect
<1>2. CASE Monitor
  BY <1>2 DEF Monitor
<1>3. CASE PollEnds
  BY <1>3 DEF PollEnds
<1>4. CASE InitOutcome
  BY <1>4 DEF InitOutcome
<1>5. CASE Shutdown
  <2>1. active' \in BOOLEAN /\ connected' \in BOOLEAN /\ isFatal' \in BOOLEAN
    BY <1>5, Zenon DEF Shutdown
  <2>. QED
    BY <1>5, <2>1 DEF Shutdown, BreakRpc
<1>6. CASE ShutdownCancels
  BY <1>6 DEF ShutdownCancels, Cancel
<1>7. CASE ShutdownClears
  BY <1>7 DEF ShutdownClears
<1>8. CASE ChannelMove
  BY <1>8 DEF ChannelMove, BreakRpc
<1>9. CASE ServerAccepts
  BY <1>9 DEF ServerAccepts
<1>10. CASE StreamEnds
  BY <1>10 DEF StreamEnds, BreakRpc
<1>11. CASE Deliver
  BY <1>11 DEF Deliver
<1>12. CASE ReviveListener
  BY <1>12 DEF ReviveListener
<1>13. CASE CancelTimer
  BY <1>13 DEF CancelTimer, Cancel
<1>14. CASE EmitStale
  BY <1>14 DEF EmitStale, Emit
<1>15. CASE ArmTimer
  BY <1>15 DEF ArmTimer
<1>16. CASE MarkDisconnected
  <2>1. active' \in BOOLEAN /\ connected' \in BOOLEAN /\ isFatal' \in BOOLEAN
    BY <1>16, Zenon DEF MarkDisconnected
  <2>. QED
    BY <1>16, <2>1 DEF MarkDisconnected
<1>17. ASSUME NEW t \in Timers, Timer(t) PROVE ConnectionTypes'
  BY <1>17 DEF Timer, GraceEnds, ClearCache, EmitError, Goto, Emit
<1>18. CASE LoopHead
  BY <1>18 DEF LoopHead
<1>19. CASE ReceiveGreeting
  BY <1>19 DEF ReceiveGreeting
<1>20. CASE EmitReady
  BY <1>20 DEF EmitReady, Emit
<1>21. CASE MarkConnected
  <2>1. active' \in BOOLEAN /\ connected' \in BOOLEAN /\ isFatal' \in BOOLEAN
    BY <1>21, Zenon DEF MarkConnected
  <2>. QED
    BY <1>21, <2>1 DEF MarkConnected
<1>22. CASE ReceiveChange \/ InvalidateFlag \/ EmitChanged
  BY <1>22 DEF ReceiveChange, InvalidateFlag, EmitChanged
<1>23. CASE CheckActive
  BY <1>23 DEF CheckActive
<1>24. CASE RpcFails
  <2>1. active' \in BOOLEAN /\ connected' \in BOOLEAN /\ isFatal' \in BOOLEAN
    BY <1>24, Zenon DEF RpcFails
  <2>. QED
    BY <1>24, <2>1 DEF RpcFails
<1>25. CASE EmitFatal
  BY <1>25 DEF EmitFatal, Emit
<1>26. CASE Retry
  BY <1>26 DEF Retry
<1>27. CASE ServerChange
  BY <1>27 DEF ServerChange
<1>28. ASSUME NEW c \in Clients, Resolve(c) PROVE ConnectionTypes'
  BY <1>28 DEF Resolve
<1>29. CASE UNCHANGED vars
  BY <1>29 DEF vars
<1>. QED
  BY <1>1, <1>2, <1>3, <1>4, <1>5, <1>6, <1>7, <1>8, <1>9, <1>10, <1>11, <1>12, <1>13, <1>14, <1>15, <1>16, <1>17, <1>18, <1>19, <1>20, <1>21, <1>22, <1>23, <1>24, <1>25, <1>26, <1>27, <1>28, <1>29 DEF Next, Callback, Listen

\* Every variable keeps its type.
THEOREM TypeCorrect == Spec => []TypeOK
<1>1. ASSUME Init PROVE ConnectionTypes
  <2>1. active \in BOOLEAN /\ connected \in BOOLEAN /\ isFatal \in BOOLEAN
    BY <1>1, Zenon DEF Init
  <2>. QED
    BY <1>1, <2>1, ResolverAssumption DEF Init, ConnectionTypes, ChanStates, ListenerPC
<1>2. Cached!Spec => []Cached!TypeOK
  BY ResolverAssumption, Cached!TypeCorrect
<1>3. Cached!TypeOK => Cache!TypeOK
  BY DEF Cache!TypeOK, Cached!TypeOK, Cache!Versions, Cached!Versions, Cache!NotCached, Cached!NotCached, Cache!Calls, Cached!Calls, Cache!Idle, Cached!Idle, Cache!Closed, Cached!Closed
<1>4. ConnectionTypes /\ Cached!TypeOK => TypeOK
  BY <1>3 DEF TypeOK
<1>. QED
  BY RefinesCached, ConnectionTypeStep, <1>1, <1>2, <1>4, PTL DEF Spec
-----------------------------------------------------------------------------
(* The worker thread, which fairness alone does not keep going.             *)

OnStream == {"stream", "greet", "greeted", "handle", "check"}

\* A listener on its stream when shutdown() has closed the channel has lost its
\* call: it cannot wait for a message for ever.
ClosedBreaks == chan = "SHUTDOWN" /\ listener \in OnStream => rpc = "broken"

\* After a fatal status code there is never a call again.
NoCallAfterFatal == isFatal => listener \in {"none", "fatal", "loop"} /\ rpc = "none"

\* An active resolver whose callback has dealt with READY or IDLE has a worker
\* thread.
WorkerKept ==
    (active /\ sub = "yes" /\ seen \in {"READY", "IDLE"} /\ cb \in {"cancel", "idle"})
        => listener # "none"

\* The listener waits on a call that is there; only a closed channel or a fatal
\* code ends its thread, and an active resolver with a fatal code is closed: it
\* was initialized again after shutdown().
WorkerInv ==
    /\ ClosedBreaks /\ NoCallAfterFatal /\ WorkerKept
    /\ listener \in OnStream => rpc # "none"
    /\ listener = "fatal" => isFatal
    /\ sub = "yes" => chan # "SHUTDOWN"
    /\ cb \in {"stale", "arm", "disconnect"} => seen \notin {"READY", "IDLE"}
    /\ isFatal => ~active \/ chan = "SHUTDOWN"
    /\ main \in {"closing", "clearing"} => chan = "SHUTDOWN"
    /\ main = "down" =>
         chan = "SHUTDOWN" \/ (sub = "no" /\ cb = "idle" /\ listener = "none" /\ ~isFatal)

\* WorkerInv is preserved by every step.
LEMMA WorkerStep == CallInv /\ WorkerInv /\ [Next]_vars => WorkerInv'
<1> SUFFICES ASSUME CallInv, WorkerInv, [Next]_vars PROVE WorkerInv'
  OBVIOUS
<1> USE DEF CallInv, OffStream, OnStream, ListenerPC, WorkerInv, ClosedBreaks, NoCallAfterFatal,
        WorkerKept, channel, sdk, attrs, timing, lifetime
<1>1. CASE Connect
  BY <1>1 DEF Connect
<1>2. CASE Monitor
  BY <1>2 DEF Monitor
<1>3. CASE PollEnds
  BY <1>3 DEF PollEnds
<1>4. CASE InitOutcome
  BY <1>4 DEF InitOutcome
<1>5. CASE Shutdown
  BY <1>5 DEF Shutdown, BreakRpc
<1>6. CASE ShutdownCancels
  BY <1>6 DEF ShutdownCancels, Cancel
<1>7. CASE ShutdownClears
  BY <1>7 DEF ShutdownClears
<1>8. CASE ChannelMove
  BY <1>8 DEF ChannelMove, ChannelMoves, BreakRpc
<1>9. CASE ServerAccepts
  BY <1>9 DEF ServerAccepts
<1>10. CASE StreamEnds
  BY <1>10 DEF StreamEnds, BreakRpc
<1>11. CASE Deliver
  BY <1>11 DEF Deliver
<1>12. CASE ReviveListener
  BY <1>12 DEF ReviveListener
<1>13. CASE CancelTimer
  BY <1>13 DEF CancelTimer, Cancel
<1>14. CASE EmitStale
  BY <1>14 DEF EmitStale, Emit
<1>15. CASE ArmTimer
  BY <1>15 DEF ArmTimer
<1>16. CASE MarkDisconnected
  BY <1>16 DEF MarkDisconnected
<1>17. ASSUME NEW t \in Timers, Timer(t) PROVE WorkerInv'
  BY <1>17 DEF Timer, GraceEnds, ClearCache, EmitError, Goto, Emit
<1>18. CASE LoopHead
  BY <1>18 DEF LoopHead
<1>19. CASE ReceiveGreeting
  BY <1>19 DEF ReceiveGreeting
<1>20. CASE EmitReady
  BY <1>20 DEF EmitReady, Emit
<1>21. CASE MarkConnected
  BY <1>21 DEF MarkConnected
<1>22. CASE ReceiveChange \/ InvalidateFlag \/ EmitChanged
  BY <1>22 DEF ReceiveChange, InvalidateFlag, EmitChanged
<1>23. CASE CheckActive
  BY <1>23 DEF CheckActive
<1>24. CASE RpcFails
  BY <1>24 DEF RpcFails
<1>25. CASE EmitFatal
  BY <1>25 DEF EmitFatal, Emit
<1>26. CASE Retry
  BY <1>26 DEF Retry
<1>27. CASE ServerChange
  BY <1>27 DEF ServerChange
<1>28. ASSUME NEW c \in Clients, Resolve(c) PROVE WorkerInv'
  BY <1>28 DEF Resolve
<1>29. CASE UNCHANGED vars
  BY <1>29 DEF vars
<1>. QED
  BY <1>1, <1>2, <1>3, <1>4, <1>5, <1>6, <1>7, <1>8, <1>9, <1>10,
     <1>11, <1>12, <1>13, <1>14, <1>15, <1>16, <1>17, <1>18, <1>19, <1>20,
     <1>21, <1>22, <1>23, <1>24, <1>25, <1>26, <1>27, <1>28, <1>29
     DEF Next, Callback, Listen

\* WorkerInv holds throughout.
LEMMA WorkerInvariant == Spec => []WorkerInv
<1>1. Init => WorkerInv
  BY DEF Init, WorkerInv, ClosedBreaks, NoCallAfterFatal, WorkerKept, OnStream
<1>. QED
  BY <1>1, WorkerStep, CallInvariant, PTL DEF Spec

\* shutdown() reaches a listener wherever it is on its stream.
THEOREM ShutdownReachesListener == Spec => []ClosedBreaks
<1>1. WorkerInv => ClosedBreaks
  BY DEF WorkerInv
<1>. QED
  BY <1>1, WorkerInvariant, PTL

\* A fatal code is final, also for a resolver that is initialized again.
THEOREM FatalIsFinal == Spec => []NoCallAfterFatal
<1>1. WorkerInv => NoCallAfterFatal
  BY DEF WorkerInv
<1>. QED
  BY <1>1, WorkerInvariant, PTL

\* A delivered READY or IDLE leaves an active resolver with a worker thread.
THEOREM WorkerAlive == Spec => []WorkerKept
<1>1. WorkerInv => WorkerKept
  BY DEF WorkerInv
<1>. QED
  BY <1>1, WorkerInvariant, PTL

-----------------------------------------------------------------------------
(* Escalation.                                                              *)

\* While the callback's last word is TRANSIENT_FAILURE and the application sees
\* STALE, a timer is pending that will turn STALE into ERROR, unless shutdown()
\* has just cancelled it.
StaleEscalates ==
    (/\ status = "STALE" /\ seen = "TRANSIENT_FAILURE" /\ ~isFatal
     /\ cb \in {"idle", "disconnect"} /\ main # "clearing")
        => \E t \in Timers : timer[t] # "idle"

StaleInv ==
    /\ StaleEscalates
    /\ cb \in {"revive", "cancel"} => seen # "TRANSIENT_FAILURE"
    /\ main = "down" => status = "NOT_READY"

\* StaleInv is preserved by every step of a well-typed state.
LEMMA StaleStep == ConnectionTypes /\ StaleInv /\ [Next]_vars => StaleInv'
<1> SUFFICES ASSUME ConnectionTypes, StaleInv, [Next]_vars PROVE StaleInv'
  OBVIOUS
<1>t. timer \in [Timers -> {"idle", "armed", "firing", "cleared"}]
  BY DEF ConnectionTypes
<1> USE <1>t DEF StaleInv, StaleEscalates, channel, sdk, attrs, timing, lifetime
<1>1. CASE Connect
  BY <1>1 DEF Connect
<1>2. CASE Monitor
  BY <1>2 DEF Monitor
<1>3. CASE PollEnds
  BY <1>3 DEF PollEnds
<1>4. CASE InitOutcome
  BY <1>4 DEF InitOutcome
<1>5. CASE Shutdown
  BY <1>5 DEF Shutdown, BreakRpc
<1>6. CASE ShutdownCancels
  BY <1>6 DEF ShutdownCancels, Cancel
<1>7. CASE ShutdownClears
  BY <1>7 DEF ShutdownClears
<1>8. CASE ChannelMove
  BY <1>8 DEF ChannelMove, ChannelMoves, BreakRpc
<1>9. CASE ServerAccepts
  BY <1>9 DEF ServerAccepts
<1>10. CASE StreamEnds
  BY <1>10 DEF StreamEnds, BreakRpc
<1>11. CASE Deliver
  BY <1>11 DEF Deliver
<1>12. CASE ReviveListener
  BY <1>12 DEF ReviveListener
<1>13. CASE CancelTimer
  BY <1>13 DEF CancelTimer, Cancel
<1>14. CASE EmitStale
  BY <1>14 DEF EmitStale, Emit
<1>15. CASE ArmTimer
  BY <1>15 DEF ArmTimer
<1>16. CASE MarkDisconnected
  BY <1>16 DEF MarkDisconnected
<1>17. ASSUME NEW t \in Timers, Timer(t) PROVE StaleInv'
  BY <1>17 DEF Timer, GraceEnds, ClearCache, EmitError, Goto, Emit
<1>18. CASE LoopHead
  BY <1>18 DEF LoopHead
<1>19. CASE ReceiveGreeting
  BY <1>19 DEF ReceiveGreeting
<1>20. CASE EmitReady
  BY <1>20 DEF EmitReady, Emit
<1>21. CASE MarkConnected
  BY <1>21 DEF MarkConnected
<1>22. CASE ReceiveChange \/ InvalidateFlag \/ EmitChanged
  BY <1>22 DEF ReceiveChange, InvalidateFlag, EmitChanged
<1>23. CASE CheckActive
  BY <1>23 DEF CheckActive
<1>24. CASE RpcFails
  BY <1>24 DEF RpcFails
<1>25. CASE EmitFatal
  BY <1>25 DEF EmitFatal, Emit
<1>26. CASE Retry
  BY <1>26 DEF Retry
<1>27. CASE ServerChange
  BY <1>27 DEF ServerChange
<1>28. ASSUME NEW c \in Clients, Resolve(c) PROVE StaleInv'
  BY <1>28 DEF Resolve
<1>29. CASE UNCHANGED vars
  BY <1>29 DEF vars
<1>. QED
  BY <1>1, <1>2, <1>3, <1>4, <1>5, <1>6, <1>7, <1>8, <1>9, <1>10,
     <1>11, <1>12, <1>13, <1>14, <1>15, <1>16, <1>17, <1>18, <1>19, <1>20,
     <1>21, <1>22, <1>23, <1>24, <1>25, <1>26, <1>27, <1>28, <1>29
     DEF Next, Callback, Listen

\* An outage the callback has reported as STALE has a timer pending.
THEOREM StaleHasTimer == Spec => []StaleEscalates
<1>1. Init => StaleInv
  BY DEF Init, StaleInv, StaleEscalates
<1>2. StaleInv => StaleEscalates
  BY DEF StaleInv
<1>3. TypeOK => ConnectionTypes
  BY DEF TypeOK
<1>. QED
  BY <1>1, <1>2, <1>3, StaleStep, TypeCorrect, PTL DEF Spec
=============================================================================
