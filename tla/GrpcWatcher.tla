----------------------------- MODULE GrpcWatcher -----------------------------
(***************************************************************************)
(* The in-process connector of the flagd provider (grpc_watcher.py): the   *)
(* SyncFlags stream that fills the flag store, the channel-state callback  *)
(* that declares outages, the grace timer that escalates them, and the     *)
(* initialize / shutdown calls of the application.                         *)
(*                                                                         *)
(* Five kinds of threads share the watcher's attributes without a lock:    *)
(*   main      the SDK thread in initialize() or shutdown()                *)
(*   cb        gRPC's delivery thread inside _state_change_callback        *)
(*   listener  the worker thread inside listen()                           *)
(*   timers    one threading.Timer thread per outage, inside emit_error    *)
(*   the channel itself, which changes state behind all of them            *)
(* An action is the code one thread runs between two points where another  *)
(* thread can observe or change what it uses.  Time is not modelled:       *)
(* a deadline, grace period or back-off may end at any moment.             *)
(***************************************************************************)
EXTENDS Naturals

CONSTANTS
    Timers,             \* identities of Timer objects; bounds how many run at once
    NoTimer,            \* self.timer = None
    Responses,          \* the kinds of SyncFlags responses the server sends
    MaxInits,           \* how often the application initializes the provider
    MetadataDisabled,   \* config.sync_metadata_disabled
    FatalConfigured     \* config.fatal_status_codes lists some status code

\* "ctx" and "plain": a valid configuration with / without sync_context;
\* "unparsable": raises JSONDecodeError or ParseError; "malformed": JSON of the
\* wrong shape (a list, a flag that is not an object), which raises neither.
Payloads == {"ctx", "plain", "unparsable", "malformed"}

ASSUME WatcherAssumption ==
    /\ NoTimer \notin Timers
    /\ Responses \subseteq Payloads
    /\ MaxInits \in Nat
    /\ MetadataDisabled \in BOOLEAN
    /\ FatalConfigured \in BOOLEAN

VARIABLES
    \* gRPC and the SDK
    chan,       \* connectivity of the channel, "SHUTDOWN" once closed
    sub,        \* subscription of the callback: "no", "pending" (monitor thread), "yes"
    seen,       \* the state last delivered to the callback
    status,     \* the provider status the SDK shows to the application
    main,       \* where the SDK thread is
    inits,      \* how many initialize() calls were made
    \* attributes of the watcher
    active, connected, isFatal,
    timer,      \* [Timers -> "idle" | "armed" | "firing"]
    current,    \* self.timer
    \* threads
    cb,         \* program counter of the callback
    listener,   \* program counter of self.thread, "none" when it is not alive
    broken,     \* the listener's RPC was lost with its connection
    msg,        \* the response the listener is handling, or has died of
    metaEmpty,  \* GetMetadata answered without its metadata field
    \* the flag store behind the adapter
    loaded      \* a flag configuration has been stored

external == <<chan, sub, seen, status, main, inits>>
attrs    == <<active, connected, isFatal>>
timing   == <<timer, current>>
rpc      == <<broken, msg, metaEmpty>>
vars     == <<external, attrs, timing, cb, listener, rpc, loaded>>

-----------------------------------------------------------------------------
ChanStates == {"IDLE", "CONNECTING", "READY", "TRANSIENT_FAILURE", "SHUTDOWN"}
Statuses   == {"NOT_READY", "READY", "STALE", "ERROR", "FATAL"}
InRpc      == {"meta", "stream"}
Handling   == {"got", "synced", "announced", "check"}
Calling    == InRpc \cup Handling
ListenerPC == {"none", "loop", "fatal", "retry"} \cup InRpc \cup Handling
CallbackPC == {"idle", "revive", "cancel", "stale", "arm", "disconnect"}
MainPC     == {"down", "polling", "ok", "notReady", "fatal", "running", "closing"}

TypeOK ==
    /\ chan \in ChanStates
    /\ sub \in {"no", "pending", "yes"}
    /\ seen \in ChanStates \cup {"NONE"}
    /\ status \in Statuses
    /\ main \in MainPC
    /\ inits \in 0..MaxInits
    /\ active \in BOOLEAN /\ connected \in BOOLEAN /\ isFatal \in BOOLEAN
    /\ timer \in [Timers -> {"idle", "armed", "firing"}]
    /\ current \in Timers \cup {NoTimer}
    /\ cb \in CallbackPC
    /\ listener \in ListenerPC
    /\ broken \in BOOLEAN /\ metaEmpty \in BOOLEAN
    /\ msg \in Payloads \cup {"none"}
    /\ loaded \in BOOLEAN

Init ==
    /\ chan = "IDLE" /\ sub = "no" /\ seen = "NONE"
    /\ status = "NOT_READY" /\ main = "down" /\ inits = 0
    /\ active = FALSE /\ connected = FALSE /\ isFatal = FALSE
    /\ timer = [t \in Timers |-> "idle"] /\ current = NoTimer
    /\ cb = "idle" /\ listener = "none"
    /\ broken = FALSE /\ msg = "none" /\ metaEmpty = FALSE
    /\ loaded = FALSE

-----------------------------------------------------------------------------
(* The SDK: it records the status an event stands for while the provider is *)
(* attached, that is from initialize until shutdown has returned.           *)

Emit(s) == status' = IF main = "down" THEN status ELSE s

\* connect(): the monitor thread is started, then the caller polls.
Connect ==
    /\ main = "down" /\ inits < MaxInits
    /\ main' = "polling" /\ inits' = inits + 1
    /\ active' = TRUE
    /\ sub' = "pending"
    /\ UNCHANGED <<chan, seen, status, connected, isFatal, timing, cb, listener, rpc, loaded>>

\* monitor(): subscribing on a closed channel only kills gRPC's polling thread.
Monitor ==
    /\ sub = "pending"
    /\ sub' = IF chan = "SHUTDOWN" THEN "no" ELSE "yes"
    /\ seen' = "NONE"
    /\ UNCHANGED <<chan, status, main, inits, attrs, timing, cb, listener, rpc, loaded>>

\* The polling loop ends because of a fatal code, a connection or the deadline.
PollEnds ==
    /\ main = "polling"
    /\ main' = CASE isFatal   -> "fatal"
                 [] ~isFatal /\ connected  -> "ok"
                 [] ~isFatal /\ ~connected -> "notReady"
    /\ UNCHANGED <<chan, sub, seen, status, inits, attrs, timing, cb, listener, rpc, loaded>>

\* The SDK turns the outcome of initialize() into an event of its own.
InitOutcome ==
    /\ main \in {"ok", "notReady", "fatal"}
    /\ status' = CASE main = "ok"       -> "READY"
                   [] main = "notReady" -> "ERROR"
                   [] main = "fatal"    -> "FATAL"
    /\ main' = "running"
    /\ UNCHANGED <<chan, sub, seen, inits, attrs, timing, cb, listener, rpc, loaded>>

\* Mutant of Shutdown: the channel stays open.
ShutdownKeepsChannel ==
    /\ main = "running"
    /\ main' = "closing"
    /\ active' = FALSE
    /\ UNCHANGED <<chan, sub, seen, status, inits, connected, isFatal, timing, cb,
                   listener, rpc, loaded>>

\* shutdown(): closing the channel drops its subscriptions and cancels its RPCs.
Shutdown ==
    /\ main = "running"
    /\ main' = "closing"
    /\ active' = FALSE
    /\ chan' = "SHUTDOWN"
    /\ sub' = IF sub = "yes" THEN "no" ELSE sub
    /\ broken' = (broken \/ listener \in Calling)
    /\ UNCHANGED <<seen, status, inits, connected, isFatal, timing, cb, listener,
                   msg, metaEmpty, loaded>>

Detach ==
    /\ main = "closing"
    /\ main' = "down" /\ status' = "NOT_READY"
    /\ UNCHANGED <<chan, sub, seen, inits, attrs, timing, cb, listener, rpc, loaded>>

-----------------------------------------------------------------------------
(* The channel.  Losing the READY connection breaks the RPC that uses it,   *)
(* also while the listener handles one of its responses; an RPC started     *)
(* with wait_for_ready outlives the other moves.  An idle channel connects  *)
(* because the subscription or an RPC asks it to.                           *)

ChannelMoves ==
    {<<"IDLE", "CONNECTING">>, <<"CONNECTING", "READY">>,
     <<"CONNECTING", "TRANSIENT_FAILURE">>, <<"TRANSIENT_FAILURE", "CONNECTING">>,
     <<"READY", "IDLE">>, <<"READY", "TRANSIENT_FAILURE">>}

ChannelMove ==
    /\ chan = "IDLE" => sub = "yes"
    /\ \E to \in ChanStates :
          /\ <<chan, to>> \in ChannelMoves
          /\ chan' = to
    /\ broken' = (broken \/ (chan = "READY" /\ listener \in Calling))
    /\ UNCHANGED <<sub, seen, status, main, inits, attrs, timing, cb, listener,
                   msg, metaEmpty, loaded>>

-----------------------------------------------------------------------------
(* _state_change_callback, one delivery at a time.  gRPC delivers the state *)
(* the channel has when the previous call returned: states may be skipped.  *)

Deliver ==
    /\ sub = "yes" /\ cb = "idle"
    /\ chan # seen
    /\ chan = "TRANSIENT_FAILURE" => \E t \in Timers : timer[t] = "idle"
    /\ seen' = chan
    /\ cb' = CASE isFatal \/ chan \in {"CONNECTING", "SHUTDOWN"} -> "idle"
               [] ~isFatal /\ chan \in {"READY", "IDLE"}     -> "revive"
               [] ~isFatal /\ chan = "TRANSIENT_FAILURE"     -> "stale"
    /\ UNCHANGED <<chan, sub, status, main, inits, attrs, timing, listener, rpc, loaded>>

ReviveListener ==
    /\ cb = "revive"
    /\ cb' = "cancel"
    /\ listener' = IF listener = "none" THEN "loop" ELSE listener
    /\ UNCHANGED <<external, attrs, timing, rpc, loaded>>

\* Mutant of CancelTimer: the cancelled timer is never released.
CancelTimerLeaks ==
    /\ cb = "cancel"
    /\ cb' = "idle"
    /\ timer' = [t \in Timers |-> IF t = current /\ timer[t] = "armed"
                                  THEN "cancelled" ELSE timer[t]]
    /\ UNCHANGED <<external, attrs, current, listener, rpc, loaded>>

\* Timer.cancel() stops a timer that still waits; only self.timer is reached.
CancelTimer ==
    /\ cb = "cancel"
    /\ cb' = "idle"
    /\ timer' = [t \in Timers |-> IF t = current /\ timer[t] = "armed"
                                  THEN "idle" ELSE timer[t]]
    /\ UNCHANGED <<external, attrs, current, listener, rpc, loaded>>

EmitStale ==
    /\ cb = "stale"
    /\ cb' = "arm"
    /\ Emit("STALE")
    /\ UNCHANGED <<chan, sub, seen, main, inits, attrs, timing, listener, rpc, loaded>>

\* Mutant of ArmTimer: the timer is created but not started.
ArmTimerUnstarted ==
    /\ cb = "arm"
    /\ cb' = "disconnect"
    /\ \E t \in Timers : current' = t
    /\ UNCHANGED <<external, attrs, timer, listener, rpc, loaded>>

ArmTimer ==
    /\ cb = "arm"
    /\ cb' = "disconnect"
    /\ \E t \in Timers :
          /\ timer[t] = "idle"
          /\ timer' = [timer EXCEPT ![t] = "armed"]
          /\ current' = t
    /\ UNCHANGED <<external, attrs, listener, rpc, loaded>>

MarkDisconnected ==
    /\ cb = "disconnect"
    /\ cb' = "idle"
    /\ connected' = FALSE
    /\ UNCHANGED <<external, active, isFatal, timing, listener, rpc, loaded>>

Callback == Deliver \/ ReviveListener \/ CancelTimer \/ EmitStale \/ ArmTimer
            \/ MarkDisconnected

(* A timer thread: the grace period ends, then emit_error runs.             *)

GraceEnds(t) ==
    /\ timer[t] = "armed"
    /\ timer' = [timer EXCEPT ![t] = "firing"]
    /\ UNCHANGED <<external, attrs, current, cb, listener, rpc, loaded>>

EmitError(t) ==
    /\ timer[t] = "firing"
    /\ timer' = [timer EXCEPT ![t] = "idle"]
    /\ Emit("ERROR")
    /\ UNCHANGED <<chan, sub, seen, main, inits, attrs, current, cb, listener, rpc, loaded>>

-----------------------------------------------------------------------------
(* listen().                                                                *)

Goto(pc) == listener' = pc

\* The head of the loop, up to the first RPC.  On a closed channel the stub
\* raises ValueError, which nothing catches.
LoopHead ==
    /\ listener = "loop"
    /\ Goto(IF ~active \/ chan = "SHUTDOWN" THEN "none"
            ELSE IF MetadataDisabled THEN "stream" ELSE "meta")
    /\ broken' = FALSE
    /\ metaEmpty' = FALSE
    /\ UNCHANGED <<external, attrs, timing, cb, msg, loaded>>

\* _fetch_metadata returned, with an answer or with None for UNIMPLEMENTED,
\* and SyncFlags was called.
FetchMetadata ==
    /\ listener = "meta" /\ chan = "READY" /\ ~broken
    /\ Goto("stream")
    /\ metaEmpty' \in BOOLEAN
    /\ UNCHANGED <<external, attrs, timing, cb, broken, msg, loaded>>

Receive(m) ==
    /\ listener = "stream" /\ chan = "READY" /\ ~broken
    /\ Goto("got")
    /\ msg' = m
    /\ UNCHANGED <<external, attrs, timing, cb, broken, metaEmpty, loaded>>

\* Mutant of UpdateStore: a configuration that does not parse is swallowed.
UpdateStoreSwallows ==
    /\ listener = "got"
    /\ loaded' = (loaded \/ msg \in {"ctx", "plain"})
    /\ Goto("synced")
    /\ UNCHANGED <<external, attrs, timing, cb, rpc>>

\* Mutant of UpdateStore: parse errors are not caught by listen().
UpdateStoreUncaught ==
    /\ listener = "got"
    /\ loaded' = (loaded \/ msg \in {"ctx", "plain"})
    /\ Goto(IF msg \in {"ctx", "plain"} THEN "synced" ELSE "none")
    /\ UNCHANGED <<external, attrs, timing, cb, rpc>>

\* flag_store.update: it stores the whole configuration or raises.
UpdateStore ==
    /\ listener = "got"
    /\ \/ /\ msg \in {"ctx", "plain"}
          /\ loaded' = TRUE
          /\ Goto("synced")
          /\ UNCHANGED msg
       \/ /\ msg = "unparsable"
          /\ Goto("retry") /\ msg' = "none"
          /\ UNCHANGED loaded
       \/ /\ msg = "malformed"
          /\ Goto("none")
          /\ UNCHANGED <<msg, loaded>>
    /\ UNCHANGED <<external, attrs, timing, cb, broken, metaEmpty>>

\* The first configuration of a connection is announced.  Without a
\* sync_context, MessageToDict(...)["metadata"] of an empty answer raises.
AnnounceReady ==
    /\ listener = "synced"
    /\ \/ /\ connected
          /\ Goto("check")
          /\ UNCHANGED status
       \/ /\ ~connected
          /\ msg = "plain" /\ metaEmpty
          /\ Goto("none")
          /\ UNCHANGED status
       \/ /\ ~connected
          /\ msg = "ctx" \/ ~metaEmpty
          /\ Emit("READY")
          /\ Goto("announced")
    /\ UNCHANGED <<chan, sub, seen, main, inits, attrs, timing, cb, rpc, loaded>>

MarkConnected ==
    /\ listener = "announced"
    /\ connected' = TRUE
    /\ Goto("check")
    /\ UNCHANGED <<external, active, isFatal, timing, cb, rpc, loaded>>

CheckActive ==
    /\ listener = "check"
    /\ Goto(IF active THEN "stream" ELSE "none")
    /\ msg' = "none"
    /\ UNCHANGED <<external, attrs, timing, cb, broken, metaEmpty, loaded>>

\* The server completes the stream.
StreamEnds ==
    /\ listener = "stream"
    /\ Goto("retry")
    /\ UNCHANGED <<external, attrs, timing, cb, rpc, loaded>>

\* Mutant of RpcFails: a fatal code leaves the watcher active.
RpcFailsStaysActive ==
    /\ listener \in InRpc
    /\ \/ /\ Goto("retry")
          /\ UNCHANGED isFatal
       \/ /\ FatalConfigured
          /\ isFatal' = TRUE
          /\ Goto("fatal")
    /\ UNCHANGED <<external, active, connected, timing, cb, rpc, loaded>>

\* An RPC ends with a status code: a lost connection, the stream deadline,
\* a refusal, or the cancellation by channel.close().
RpcFails ==
    /\ listener \in InRpc
    /\ \/ /\ Goto("retry")
          /\ UNCHANGED <<isFatal, active>>
       \/ /\ FatalConfigured
          /\ isFatal' = TRUE /\ active' = FALSE
          /\ Goto("fatal")
    /\ UNCHANGED <<external, connected, timing, cb, rpc, loaded>>

EmitFatal ==
    /\ listener = "fatal"
    /\ Emit("FATAL")
    /\ Goto("none")
    /\ UNCHANGED <<chan, sub, seen, main, inits, attrs, timing, cb, rpc, loaded>>

\* While active, it waits for the back-off or the shutdown event.
Retry ==
    /\ listener = "retry"
    /\ Goto("loop")
    /\ UNCHANGED <<external, attrs, timing, cb, rpc, loaded>>

\* The steps the listener can take without the server.
ListenerStep ==
    \/ LoopHead \/ UpdateStore \/ AnnounceReady \/ MarkConnected
    \/ CheckActive \/ EmitFatal \/ Retry

Sdk == Connect \/ Monitor \/ PollEnds \/ InitOutcome \/ Shutdown \/ Detach

Next ==
    \/ Sdk
    \/ ChannelMove
    \/ Callback
    \/ \E t \in Timers : GraceEnds(t) \/ EmitError(t)
    \/ ListenerStep
    \/ FetchMetadata
    \/ \E m \in Responses : Receive(m)
    \/ StreamEnds
    \/ RpcFails

Spec == Init /\ [][Next]_vars

\* Threads keep running, timers expire, gRPC delivers states and ends an RPC
\* whose connection is gone.  Nothing is assumed of the server or the network.
Fairness ==
    /\ WF_vars(Callback)
    /\ \A t \in Timers : WF_vars(GraceEnds(t) \/ EmitError(t))
    /\ WF_vars(ListenerStep)
    /\ WF_vars(broken /\ RpcFails)
    /\ WF_vars(Monitor \/ PollEnds \/ InitOutcome \/ Detach)

FairSpec == Spec /\ Fairness

-----------------------------------------------------------------------------
(* Properties.                                                              *)

\* The application is told READY, by the stream or by a returning
\* initialize(), only when a flag configuration has been stored.
ReadyMeansLoaded == status = "READY" => loaded

\* While the callback's last word is TRANSIENT_FAILURE and the application
\* sees STALE, a grace timer is pending that will turn STALE into ERROR.
StaleEscalates ==
    (status = "STALE" /\ seen = "TRANSIENT_FAILURE" /\ cb = "idle" /\ ~isFatal)
        => \E t \in Timers : timer[t] # "idle"

\* A fatal status code ends the talk with the server for good: whatever the
\* callback was doing, and also after a later initialize(), the listener is
\* never again in an RPC or handling a response.
NoRpcAfterFatal == isFatal => listener \in {"none", "fatal", "loop"}

\* A lasting outage never leaves the application with STALE: "real loss
\* surfaces as a STALE, and eventually, ERROR event".
LossSurfaces == <>[](chan = "TRANSIENT_FAILURE") => []<>(status # "STALE")

\* After the last shutdown() the worker thread ends, wherever it was blocked.
ShutdownStopsListener == <>[](main = "down") => <>[](listener = "none")

\* While the provider is in use and the connection lasts, a worker thread
\* keeps listening ("it will attempt to reconnect indefinitely"), unless it died
\* of an answer that listen() does not catch.
KeepsListening ==
    <>[](/\ chan = "READY" /\ main = "running" /\ active
         /\ listener = "none" => msg \notin {"plain", "malformed"})
        => <>[](listener # "none")

-----------------------------------------------------------------------------
(* What comments say and the code does not keep.                            *)

\* The same without that exception: an empty answer to GetMetadata, when the
\* configuration has no sync_context, ends the only worker thread.
KeepsListeningAlways ==
    <>[](chan = "READY" /\ main = "running" /\ active) => <>[](listener # "none")

\* A grace timer runs out only in an outage: never when the callback has dealt
\* with READY and the stream is synced again.
GraceEndsOnlyInLoss ==
    [][\A t \in Timers :
          timer[t] = "armed" /\ timer'[t] = "firing"
             => ~(chan = "READY" /\ seen = "READY" /\ cb = "idle" /\ connected)]_vars

\* initialize() fails because the data were not synced before its deadline:
\* its failure never overwrites the READY the stream has announced.
NotReadyMeansUnsynced ==
    [][main = "notReady" /\ main' = "running" => status # "READY"]_vars

\* initialize() blocks until the provider is ready or its deadline passed: it
\* never succeeds on a channel that is closed.
InitNeedsOpenChannel == main = "ok" => chan # "SHUTDOWN"
=============================================================================
