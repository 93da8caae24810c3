-------------------------- MODULE GrpcWatcher_proof --------------------------
(***************************************************************************)
(* Proofs about the in-process connector, for every set of timers, number  *)
(* of initializations and set of responses.  Each safety property is       *)
(* strengthened to an inductive invariant below.                           *)
(***************************************************************************)
EXTENDS GrpcWatcher, TLAPS

-----------------------------------------------------------------------------
(* Types.  SMT has little to say of Boolean variables, so the steps that    *)
(* assign one show Flags' apart from the rest.                              *)

Flags ==
    /\ active \in BOOLEAN /\ connected \in BOOLEAN /\ isFatal \in BOOLEAN
    /\ broken \in BOOLEAN /\ metaEmpty \in BOOLEAN /\ loaded \in BOOLEAN

\* A step from a well-typed state leads to a well-typed state.
LEMMA TypeStep == TypeOK /\ [Next]_vars => TypeOK'
<1> SUFFICES ASSUME TypeOK, [Next]_vars PROVE TypeOK'
  OBVIOUS
<1> USE WatcherAssumption DEF TypeOK, ChanStates, Statuses, InRpc, Handling, ListenerPC, CallbackPC, MainPC,
           Payloads, vars, external, attrs, timing, rpc
<1>1. CASE Connect
  BY <1>1 DEF Connect
<1>2. CASE Monitor
  BY <1>2 DEF Monitor
<1>3. CASE PollEnds
  BY <1>3 DEF PollEnds
<1>4. CASE InitOutcome
  BY <1>4 DEF InitOutcome
<1>5. CASE Shutdown
  <2>1. Flags'
    BY <1>5, Zenon DEF Shutdown, Flags
  <2>. QED
    BY <1>5, <2>1 DEF Shutdown, Flags
<1>6. CASE Detach
  BY <1>6 DEF Detach
<1>7. CASE ChannelMove
  BY <1>7 DEF ChannelMove, ChannelMoves
<1>8. CASE Deliver
  <2>1. Flags'
    BY <1>8, Zenon DEF Deliver, Flags
  <2>. QED
    BY <1>8, <2>1 DEF Deliver, Flags
<1>9. CASE ReviveListener
  BY <1>9 DEF ReviveListener
<1>10. CASE CancelTimer
  BY <1>10 DEF CancelTimer
<1>11. CASE EmitStale
  BY <1>11 DEF EmitStale, Emit
<1>12. CASE ArmTimer
  BY <1>12 DEF ArmTimer
<1>13. CASE MarkDisconnected
  <2>1. Flags'
    BY <1>13, Zenon DEF MarkDisconnected, Flags
  <2>. QED
    BY <1>13, <2>1 DEF MarkDisconnected, Flags
<1>14. ASSUME NEW t \in Timers, GraceEnds(t) PROVE TypeOK'
  BY <1>14 DEF GraceEnds
<1>15. ASSUME NEW t \in Timers, EmitError(t) PROVE TypeOK'
  BY <1>15 DEF EmitError, Emit
<1>16. CASE LoopHead
  <2>1. Flags'
    BY <1>16, Zenon DEF LoopHead, Goto, Flags
  <2>. QED
    BY <1>16, <2>1 DEF LoopHead, Goto, Flags
<1>17. CASE UpdateStore
  <2>1. Flags'
    BY <1>17, Zenon DEF UpdateStore, Goto, Flags
  <2>. QED
    BY <1>17, <2>1 DEF UpdateStore, Goto, Flags
<1>18. CASE AnnounceReady
  BY <1>18 DEF AnnounceReady, Emit, Goto
<1>19. CASE MarkConnected
  BY <1>19 DEF MarkConnected, Goto
<1>20. CASE CheckActive
  BY <1>20 DEF CheckActive, Goto
<1>21. CASE EmitFatal
  BY <1>21 DEF EmitFatal, Emit, Goto
<1>22. CASE Retry
  BY <1>22 DEF Retry, Goto
<1>24. CASE FetchMetadata
  BY <1>24 DEF FetchMetadata, Goto
<1>25. CASE StreamEnds
  BY <1>25 DEF StreamEnds, Goto
<1>26. CASE RpcFails
  <2>1. Flags'
    BY <1>26, Zenon DEF RpcFails, Goto, Flags
  <2>. QED
    BY <1>26, <2>1 DEF RpcFails, Goto, Flags
<1>27. ASSUME NEW m \in Responses, Receive(m) PROVE TypeOK'
  BY <1>27 DEF Receive, Goto
<1>28. CASE UNCHANGED vars
  BY <1>28
<1>. QED
  BY <1>1, <1>2, <1>3, <1>4, <1>5, <1>6, <1>7, <1>8, <1>9, <1>10,
     <1>11, <1>12, <1>13, <1>14, <1>15, <1>16, <1>17, <1>18, <1>19, <1>20,
     <1>21, <1>22, <1>24, <1>25, <1>26, <1>27, <1>28
     DEF Next, Sdk, Callback, ListenerStep

\* Every attribute of the watcher keeps its type.
THEOREM TypeCorrect == Spec => []TypeOK
<1>1. ASSUME Init PROVE TypeOK
  <2>1. Flags
    BY <1>1, Zenon DEF Init, Flags
  <2>. QED
    BY <1>1, <2>1, WatcherAssumption DEF Init, Flags, TypeOK, ChanStates, Statuses, InRpc, Handling, ListenerPC, CallbackPC, MainPC, Payloads
<1>. QED
  BY <1>1, TypeStep, PTL DEF Spec

-----------------------------------------------------------------------------
(* READY is backed by a configuration.  READY comes from AnnounceReady,     *)
(* after the store was updated, or from initialize(), which trusts the      *)
(* connected flag; so the flag itself must imply a stored configuration.    *)

LoadedInv ==
    /\ connected => loaded
    /\ listener \in {"synced", "announced", "check"} => loaded
    /\ main = "ok" => loaded
    /\ ReadyMeansLoaded

\* LoadedInv is preserved by every step.
LEMMA LoadedStep == LoadedInv /\ [Next]_vars => LoadedInv'
<1> SUFFICES ASSUME LoadedInv, [Next]_vars PROVE LoadedInv'
  OBVIOUS
<1> USE DEF LoadedInv, ReadyMeansLoaded, vars, external, attrs, timing, rpc
<1>1. CASE Connect
  BY <1>1 DEF Connect
<1>2. CASE Monitor
  BY <1>2 DEF Monitor
<1>3. CASE PollEnds
  BY <1>3 DEF PollEnds
<1>4. CASE InitOutcome
  BY <1>4 DEF InitOutcome
<1>5. CASE Shutdown
  BY <1>5 DEF Shutdown
<1>6. CASE Detach
  BY <1>6 DEF Detach
<1>7. CASE ChannelMove
  BY <1>7 DEF ChannelMove, ChannelMoves
<1>8. CASE Deliver
  BY <1>8 DEF Deliver
<1>9. CASE ReviveListener
  BY <1>9 DEF ReviveListener
<1>10. CASE CancelTimer
  BY <1>10 DEF CancelTimer
<1>11. CASE EmitStale
  BY <1>11 DEF EmitStale, Emit
<1>12. CASE ArmTimer
  BY <1>12 DEF ArmTimer
<1>13. CASE MarkDisconnected
  BY <1>13 DEF MarkDisconnected
<1>14. ASSUME NEW t \in Timers, GraceEnds(t) PROVE LoadedInv'
  BY <1>14 DEF GraceEnds
<1>15. ASSUME NEW t \in Timers, EmitError(t) PROVE LoadedInv'
  BY <1>15 DEF EmitError, Emit
<1>16. CASE LoopHead
  BY <1>16 DEF LoopHead, Goto
<1>17. CASE UpdateStore
  BY <1>17 DEF UpdateStore, Goto
<1>18. CASE AnnounceReady
  BY <1>18 DEF AnnounceReady, Emit, Goto
<1>19. CASE MarkConnected
  BY <1>19 DEF MarkConnected, Goto
<1>20. CASE CheckActive
  BY <1>20 DEF CheckActive, Goto
<1>21. CASE EmitFatal
  BY <1>21 DEF EmitFatal, Emit, Goto
<1>22. CASE Retry
  BY <1>22 DEF Retry, Goto
<1>24. CASE FetchMetadata
  BY <1>24 DEF FetchMetadata, Goto
<1>25. CASE StreamEnds
  BY <1>25 DEF StreamEnds, Goto
<1>26. CASE RpcFails
  BY <1>26 DEF RpcFails, Goto
<1>27. ASSUME NEW m \in Responses, Receive(m) PROVE LoadedInv'
  BY <1>27 DEF Receive, Goto
<1>28. CASE UNCHANGED vars
  BY <1>28
<1>. QED
  BY <1>1, <1>2, <1>3, <1>4, <1>5, <1>6, <1>7, <1>8, <1>9, <1>10,
     <1>11, <1>12, <1>13, <1>14, <1>15, <1>16, <1>17, <1>18, <1>19, <1>20,
     <1>21, <1>22, <1>24, <1>25, <1>26, <1>27, <1>28
     DEF Next, Sdk, Callback, ListenerStep

\* The application never sees READY before a flag configuration was stored.
THEOREM ReadyLoaded == Spec => []ReadyMeansLoaded
<1>1. Init => LoadedInv
  BY DEF Init, LoadedInv, ReadyMeansLoaded
<1>2. LoadedInv => ReadyMeansLoaded
  BY DEF LoadedInv
<1>. QED
  BY <1>1, <1>2, LoadedStep, PTL DEF Spec

-----------------------------------------------------------------------------
(* A fatal code is final.  The listener itself clears active, which only    *)
(* initialize() sets again, and by then shutdown() has closed the channel;  *)
(* before the first initialize() nothing has run at all.                    *)

Untouched == sub = "no" /\ cb = "idle" /\ listener = "none" /\ ~isFatal

FatalInv ==
    /\ NoRpcAfterFatal
    /\ isFatal => ~active \/ chan = "SHUTDOWN"
    /\ main = "closing" => chan = "SHUTDOWN"
    /\ main = "down" => chan = "SHUTDOWN" \/ Untouched

\* FatalInv is preserved by every step.
LEMMA FatalStep == FatalInv /\ [Next]_vars => FatalInv'
<1> SUFFICES ASSUME FatalInv, [Next]_vars PROVE FatalInv'
  OBVIOUS
<1> USE DEF FatalInv, NoRpcAfterFatal, Untouched, InRpc,
           vars, external, attrs, timing, rpc
<1>1. CASE Connect
  BY <1>1 DEF Connect
<1>2. CASE Monitor
  BY <1>2 DEF Monitor
<1>3. CASE PollEnds
  BY <1>3 DEF PollEnds
<1>4. CASE InitOutcome
  BY <1>4 DEF InitOutcome
<1>5. CASE Shutdown
  BY <1>5 DEF Shutdown
<1>6. CASE Detach
  BY <1>6 DEF Detach
<1>7. CASE ChannelMove
  BY <1>7 DEF ChannelMove, ChannelMoves
<1>8. CASE Deliver
  BY <1>8 DEF Deliver
<1>9. CASE ReviveListener
  BY <1>9 DEF ReviveListener
<1>10. CASE CancelTimer
  BY <1>10 DEF CancelTimer
<1>11. CASE EmitStale
  BY <1>11 DEF EmitStale, Emit
<1>12. CASE ArmTimer
  BY <1>12 DEF ArmTimer
<1>13. CASE MarkDisconnected
  BY <1>13 DEF MarkDisconnected
<1>14. ASSUME NEW t \in Timers, GraceEnds(t) PROVE FatalInv'
  BY <1>14 DEF GraceEnds
<1>15. ASSUME NEW t \in Timers, EmitError(t) PROVE FatalInv'
  BY <1>15 DEF EmitError, Emit
<1>16. CASE LoopHead
  BY <1>16 DEF LoopHead, Goto
<1>17. CASE UpdateStore
  BY <1>17 DEF UpdateStore, Goto
<1>18. CASE AnnounceReady
  BY <1>18 DEF AnnounceReady, Emit, Goto
<1>19. CASE MarkConnected
  BY <1>19 DEF MarkConnected, Goto
<1>20. CASE CheckActive
  BY <1>20 DEF CheckActive, Goto
<1>21. CASE EmitFatal
  BY <1>21 DEF EmitFatal, Emit, Goto
<1>22. CASE Retry
  BY <1>22 DEF Retry, Goto
<1>24. CASE FetchMetadata
  BY <1>24 DEF FetchMetadata, Goto
<1>25. CASE StreamEnds
  BY <1>25 DEF StreamEnds, Goto
<1>26. CASE RpcFails
  BY <1>26 DEF RpcFails, Goto
<1>27. ASSUME NEW m \in Responses, Receive(m) PROVE FatalInv'
  BY <1>27 DEF Receive, Goto
<1>28. CASE UNCHANGED vars
  BY <1>28
<1>. QED
  BY <1>1, <1>2, <1>3, <1>4, <1>5, <1>6, <1>7, <1>8, <1>9, <1>10,
     <1>11, <1>12, <1>13, <1>14, <1>15, <1>16, <1>17, <1>18, <1>19, <1>20,
     <1>21, <1>22, <1>24, <1>25, <1>26, <1>27, <1>28
     DEF Next, Sdk, Callback, ListenerStep

\* After a fatal status code the listener is never in an RPC again.
THEOREM FatalIsFinal == Spec => []NoRpcAfterFatal
<1>1. Init => FatalInv
  BY DEF Init, FatalInv, NoRpcAfterFatal, Untouched
<1>2. FatalInv => NoRpcAfterFatal
  BY DEF FatalInv
<1>. QED
  BY <1>1, <1>2, FatalStep, PTL DEF Spec

-----------------------------------------------------------------------------
(* STALE is pending escalation.  The callback says STALE before it arms the *)
(* timer, so the claim holds from MarkDisconnected on; a timer that has run *)
(* out has replaced STALE by ERROR, unless the provider is detached, when   *)
(* the status is NOT_READY.                                                 *)

StaleInv ==
    /\ (status = "STALE" /\ seen = "TRANSIENT_FAILURE" /\ ~isFatal
          /\ cb \in {"idle", "disconnect"})
         => \E t \in Timers : timer[t] # "idle"
    /\ cb \in {"revive", "cancel"} => seen # "TRANSIENT_FAILURE"
    /\ main = "down" => status = "NOT_READY"

\* StaleInv is preserved by every step of a well-typed state.
LEMMA StaleStep == TypeOK /\ StaleInv /\ [Next]_vars => StaleInv'
<1> SUFFICES ASSUME TypeOK, StaleInv, [Next]_vars PROVE StaleInv'
  OBVIOUS
<1>t. timer \in [Timers -> {"idle", "armed", "firing"}]
  BY DEF TypeOK
<1> USE <1>t DEF StaleInv, vars, external, attrs, timing, rpc
<1>1. CASE Connect
  BY <1>1 DEF Connect
<1>2. CASE Monitor
  BY <1>2 DEF Monitor
<1>3. CASE PollEnds
  BY <1>3 DEF PollEnds
<1>4. CASE InitOutcome
  BY <1>4 DEF InitOutcome
<1>5. CASE Shutdown
  BY <1>5 DEF Shutdown
<1>6. CASE Detach
  BY <1>6 DEF Detach
<1>7. CASE ChannelMove
  BY <1>7 DEF ChannelMove, ChannelMoves
<1>8. CASE Deliver
  BY <1>8 DEF Deliver
<1>9. CASE ReviveListener
  BY <1>9 DEF ReviveListener
<1>10. CASE CancelTimer
  BY <1>10 DEF CancelTimer
<1>11. CASE EmitStale
  BY <1>11 DEF EmitStale, Emit
<1>12. CASE ArmTimer
  BY <1>12 DEF ArmTimer
<1>13. CASE MarkDisconnected
  BY <1>13 DEF MarkDisconnected
<1>14. ASSUME NEW t \in Timers, GraceEnds(t) PROVE StaleInv'
  BY <1>14 DEF GraceEnds
<1>15. ASSUME NEW t \in Timers, EmitError(t) PROVE StaleInv'
  BY <1>15 DEF EmitError, Emit
<1>16. CASE LoopHead
  BY <1>16 DEF LoopHead, Goto
<1>17. CASE UpdateStore
  BY <1>17 DEF UpdateStore, Goto
<1>18. CASE AnnounceReady
  BY <1>18 DEF AnnounceReady, Emit, Goto
<1>19. CASE MarkConnected
  BY <1>19 DEF MarkConnected, Goto
<1>20. CASE CheckActive
  BY <1>20 DEF CheckActive, Goto
<1>21. CASE EmitFatal
  BY <1>21 DEF EmitFatal, Emit, Goto
<1>22. CASE Retry
  BY <1>22 DEF Retry, Goto
<1>24. CASE FetchMetadata
  BY <1>24 DEF FetchMetadata, Goto
<1>25. CASE StreamEnds
  BY <1>25 DEF StreamEnds, Goto
<1>26. CASE RpcFails
  BY <1>26 DEF RpcFails, Goto
<1>27. ASSUME NEW m \in Responses, Receive(m) PROVE StaleInv'
  BY <1>27 DEF Receive, Goto
<1>28. CASE UNCHANGED vars
  BY <1>28
<1>. QED
  BY <1>1, <1>2, <1>3, <1>4, <1>5, <1>6, <1>7, <1>8, <1>9, <1>10,
     <1>11, <1>12, <1>13, <1>14, <1>15, <1>16, <1>17, <1>18, <1>19, <1>20,
     <1>21, <1>22, <1>24, <1>25, <1>26, <1>27, <1>28
     DEF Next, Sdk, Callback, ListenerStep

\* An outage the callback has reported as STALE always has a timer pending.
THEOREM StaleHasTimer == Spec => []StaleEscalates
<1>1. Init => StaleInv
  BY DEF Init, StaleInv
<1>2. StaleInv => StaleEscalates
  BY DEF StaleInv, StaleEscalates
<1>. QED
  BY <1>1, <1>2, TypeCorrect, StaleStep, PTL DEF Spec
-----------------------------------------------------------------------------
(* The worker thread.  Two facts carry the temporal properties the runs     *)
(* check, ShutdownStopsListener and KeepsListening; fairness only adds that *)
(* a broken RPC ends and that the callback and the listener keep running.   *)

\* A listener that is still talking to the server when shutdown() has closed the
\* channel has lost its RPC: it cannot wait for an answer for ever.
ClosedBreaks == chan = "SHUTDOWN" /\ listener \in Calling => broken

\* An active watcher whose callback has dealt with READY or IDLE has a worker
\* thread, unless the thread died of an answer that listen() does not catch.
WorkerKept ==
    (active /\ sub = "yes" /\ seen \in {"READY", "IDLE"} /\ cb \in {"cancel", "idle"})
        => listener # "none" \/ msg \in {"plain", "malformed"}

WorkerInv ==
    /\ ClosedBreaks
    /\ WorkerKept
    /\ sub = "yes" => chan # "SHUTDOWN"
    /\ cb \in {"stale", "arm", "disconnect"} => seen \notin {"READY", "IDLE"}
    /\ listener = "fatal" => isFatal

\* WorkerInv is preserved by every step: a thread that ends of itself found the
\* watcher inactive or the channel closed, and the callback, which FatalInv shows
\* to act for an active watcher, has started the next one before it goes on.
LEMMA WorkerStep == FatalInv /\ WorkerInv /\ [Next]_vars => WorkerInv'
<1> SUFFICES ASSUME FatalInv, WorkerInv, [Next]_vars PROVE WorkerInv'
  OBVIOUS
<1> USE DEF FatalInv, WorkerInv, ClosedBreaks, WorkerKept, Untouched, Calling, InRpc, Handling,
           vars, external, attrs, timing, rpc
<1>1. CASE Connect
  BY <1>1 DEF Connect
<1>2. CASE Monitor
  BY <1>2 DEF Monitor
<1>3. CASE PollEnds
  BY <1>3 DEF PollEnds
<1>4. CASE InitOutcome
  BY <1>4 DEF InitOutcome
<1>5. CASE Shutdown
  BY <1>5 DEF Shutdown
<1>6. CASE Detach
  BY <1>6 DEF Detach
<1>7. CASE ChannelMove
  BY <1>7 DEF ChannelMove, ChannelMoves
<1>8. CASE Deliver
  BY <1>8 DEF Deliver
<1>9. CASE ReviveListener
  BY <1>9 DEF ReviveListener
<1>10. CASE CancelTimer
  BY <1>10 DEF CancelTimer
<1>11. CASE EmitStale
  BY <1>11 DEF EmitStale, Emit
<1>12. CASE ArmTimer
  BY <1>12 DEF ArmTimer
<1>13. CASE MarkDisconnected
  BY <1>13 DEF MarkDisconnected
<1>14. ASSUME NEW t \in Timers, GraceEnds(t) PROVE WorkerInv'
  BY <1>14 DEF GraceEnds
<1>15. ASSUME NEW t \in Timers, EmitError(t) PROVE WorkerInv'
  BY <1>15 DEF EmitError, Emit
<1>16. CASE LoopHead
  BY <1>16 DEF LoopHead, Goto
<1>17. CASE UpdateStore
  BY <1>17 DEF UpdateStore, Goto
<1>18. CASE AnnounceReady
  BY <1>18 DEF AnnounceReady, Emit, Goto
<1>19. CASE MarkConnected
  BY <1>19 DEF MarkConnected, Goto
<1>20. CASE CheckActive
  BY <1>20 DEF CheckActive, Goto
<1>21. CASE EmitFatal
  BY <1>21 DEF EmitFatal, Emit, Goto
<1>22. CASE Retry
  BY <1>22 DEF Retry, Goto
<1>24. CASE FetchMetadata
  BY <1>24 DEF FetchMetadata, Goto
<1>25. CASE StreamEnds
  BY <1>25 DEF StreamEnds, Goto
<1>26. CASE RpcFails
  BY <1>26 DEF RpcFails, Goto
<1>27. ASSUME NEW m \in Responses, Receive(m) PROVE WorkerInv'
  BY <1>27 DEF Receive, Goto
<1>28. CASE UNCHANGED vars
  BY <1>28
<1>. QED
  BY <1>1, <1>2, <1>3, <1>4, <1>5, <1>6, <1>7, <1>8, <1>9, <1>10,
     <1>11, <1>12, <1>13, <1>14, <1>15, <1>16, <1>17, <1>18, <1>19, <1>20,
     <1>21, <1>22, <1>24, <1>25, <1>26, <1>27, <1>28
     DEF Next, Sdk, Callback, ListenerStep

\* shutdown() reaches a listener wherever it talks to the server.
THEOREM ShutdownReachesListener == Spec => []ClosedBreaks
<1>1. Init => FatalInv /\ WorkerInv
  BY DEF Init, FatalInv, NoRpcAfterFatal, Untouched, WorkerInv, ClosedBreaks, WorkerKept,
         Calling, InRpc, Handling
<1>2. WorkerInv => ClosedBreaks
  BY DEF WorkerInv
<1>. QED
  BY <1>1, <1>2, FatalStep, WorkerStep, PTL DEF Spec

\* A delivered READY or IDLE leaves an active watcher with a worker thread.
THEOREM WorkerAlive == Spec => []WorkerKept
<1>1. Init => FatalInv /\ WorkerInv
  BY DEF Init, FatalInv, NoRpcAfterFatal, Untouched, WorkerInv, ClosedBreaks, WorkerKept,
         Calling, InRpc, Handling
<1>2. WorkerInv => WorkerKept
  BY DEF WorkerInv
<1>. QED
  BY <1>1, <1>2, FatalStep, WorkerStep, PTL DEF Spec
=============================================================================
