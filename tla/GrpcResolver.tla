---------------------------- MODULE GrpcResolver ----------------------------
(***************************************************************************)
(* The RPC resolver of the flagd provider (grpc.py): the connection that   *)
(* carries its event stream, composed with the evaluation cache of         *)
(* RpcCache.  The threads are those of GrpcWatcher: the SDK's in           *)
(* initialize() and shutdown(), gRPC's in the connectivity callback, the   *)
(* listener in listen(), one per Timer in emit_error, and the              *)
(* application's in _resolve.                                              *)
(*                                                                         *)
(* A step that touches the cache or the messages of the stream is one of   *)
(* RpcCache; the others leave both alone.  What RpcCache calls stream and  *)
(* grace are functions of the connection here.                             *)
(***************************************************************************)
EXTENDS Naturals, Sequences, FiniteSets

CONSTANTS
    Flags, Clients, MaxCacheSize, MaxVersion,   \* as in RpcCache
    Timers,             \* identities of Timer objects; bounds how many run at once
    NoTimer,            \* self.timer = None
    MaxInits,           \* how often the application initializes the provider
    FatalConfigured     \* config.fatal_status_codes lists some status code

ASSUME ResolverAssumption ==
    /\ MaxCacheSize \in Nat \ {0}
    /\ MaxVersion \in Nat
    /\ NoTimer \notin Timers
    /\ MaxInits \in Nat
    /\ FatalConfigured \in BOOLEAN

VARIABLES
    \* gRPC and the SDK
    chan,       \* connectivity of the channel, "SHUTDOWN" once closed
    sub,        \* subscription of the callback: "no", "pending" (monitor thread), "yes"
    seen,       \* the state last delivered to the callback
    rpc,        \* the EventStream call: "waiting" for a server, "greeting" (the
                \* server has opened it with a provider_ready), "open", "broken"
    status,     \* the provider status the SDK shows to the application
    main,       \* where the SDK thread is
    inits,      \* how many initialize() calls were made
    \* attributes of the resolver
    active, connected, isFatal,
    timer,      \* [Timers -> "idle" | "armed" | "firing" | "cleared"]
    current,    \* self.timer
    \* threads
    cb,         \* program counter of the callback
    listener,   \* program counter of self.thread, "none" when it is not alive
    \* the server's flags, the messages of the stream and the cache
    ver, events, changed, pops, cache, client, excused

sdk      == <<status, main, inits>>
channel  == <<chan, sub, seen>>
attrs    == <<active, connected, isFatal>>
timing   == <<timer, current>>
caching  == <<ver, events, changed, pops, cache, client, excused>>
lifetime == <<channel, rpc, sdk, attrs, timing, cb, listener>>
vars     == <<lifetime, caching>>

-----------------------------------------------------------------------------
Stream == IF chan = "SHUTDOWN"
          THEN IF main \in {"closing", "clearing"} THEN "closing" ELSE "closed"
          ELSE IF rpc \in {"greeting", "open"} THEN "up" ELSE "down"

Grace == \E t \in Timers : timer[t] \in {"armed", "firing"}

Cache == INSTANCE RpcCache WITH stream <- Stream, grace <- Grace

ChanStates == {"IDLE", "CONNECTING", "READY", "TRANSIENT_FAILURE", "SHUTDOWN"}
ListenerPC == {"none", "loop", "stream", "greet", "greeted", "handle", "check",
               "fatal", "retry"}

ConnectionTypes ==
    /\ chan \in ChanStates
    /\ sub \in {"no", "pending", "yes"}
    /\ seen \in ChanStates \cup {"NONE"}
    /\ rpc \in {"none", "waiting", "greeting", "open", "broken"}
    /\ status \in {"NOT_READY", "READY", "STALE", "ERROR", "FATAL"}
    /\ main \in {"down", "polling", "ok", "notReady", "fatal", "running", "closing",
                 "clearing"}
    /\ inits \in 0..MaxInits
    /\ active \in BOOLEAN /\ connected \in BOOLEAN /\ isFatal \in BOOLEAN
    /\ timer \in [Timers -> {"idle", "armed", "firing", "cleared"}]
    /\ current \in Timers \cup {NoTimer}
    /\ cb \in {"idle", "revive", "cancel", "stale", "arm", "disconnect"}
    /\ listener \in ListenerPC

TypeOK == ConnectionTypes /\ Cache!TypeOK

Init ==
    /\ chan = "IDLE" /\ sub = "no" /\ seen = "NONE" /\ rpc = "none"
    /\ status = "NOT_READY" /\ main = "down" /\ inits = 0
    /\ active = FALSE /\ connected = FALSE /\ isFatal = FALSE
    /\ timer = [t \in Timers |-> "idle"] /\ current = NoTimer
    /\ cb = "idle" /\ listener = "none"
    /\ Cache!Init

-----------------------------------------------------------------------------
(* The SDK.                                                                 *)

Emit(s) == status' = IF main = "down" THEN status ELSE s

Connect ==
    /\ main = "down" /\ inits < MaxInits
    /\ main' = "polling" /\ inits' = inits + 1
    /\ active' = TRUE
    /\ sub' = "pending"
    /\ UNCHANGED <<chan, seen, rpc, status, connected, isFatal, timing, cb, listener, caching>>

\* Subscribing on a closed channel only kills gRPC's polling thread.
Monitor ==
    /\ sub = "pending"
    /\ sub' = IF chan = "SHUTDOWN" THEN "no" ELSE "yes"
    /\ seen' = "NONE"
    /\ UNCHANGED <<chan, rpc, sdk, attrs, timing, cb, listener, caching>>

\* The polling loop ends by a fatal code, a provider_ready or the deadline.
PollEnds ==
    /\ main = "polling"
    /\ main' = IF isFatal THEN "fatal" ELSE IF connected THEN "ok" ELSE "notReady"
    /\ UNCHANGED <<channel, rpc, status, inits, attrs, timing, cb, listener, caching>>

\* The SDK turns the outcome of initialize() into an event of its own.
InitOutcome ==
    /\ main \in {"ok", "notReady", "fatal"}
    /\ status' = CASE main = "ok"       -> "READY"
                   [] main = "notReady" -> "ERROR"
                   [] main = "fatal"    -> "FATAL"
    /\ main' = "running"
    /\ UNCHANGED <<channel, rpc, inits, attrs, timing, cb, listener, caching>>

BreakRpc == rpc' = IF rpc = "none" THEN "none" ELSE "broken"

\* shutdown(): closing the channel drops its subscription and cancels its calls;
\* then the timer and the cache.
Shutdown ==
    /\ main = "running"
    /\ main' = "closing"
    /\ active' = FALSE
    /\ chan' = "SHUTDOWN"
    /\ sub' = IF sub = "yes" THEN "no" ELSE sub
    /\ BreakRpc
    /\ UNCHANGED <<seen, status, inits, connected, isFatal, timing, cb, listener>>
    /\ Cache!Shutdown

\* Mutant of Cancel: the cancelled timer is never released.
CancelLeaks == timer' = [t \in Timers |-> IF t = current /\ timer[t] = "armed"
                                          THEN "cancelled" ELSE timer[t]]

\* Timer.cancel() stops a timer that still waits; only self.timer is reached.
Cancel == timer' = [t \in Timers |-> IF t = current /\ timer[t] = "armed"
                                     THEN "idle" ELSE timer[t]]

ShutdownCancels ==
    /\ main = "closing"
    /\ main' = "clearing"
    /\ Cancel
    /\ UNCHANGED <<channel, rpc, status, inits, attrs, current, cb, listener, caching>>

\* The SDK detaches the provider when shutdown() returns.
ShutdownClears ==
    /\ main = "clearing"
    /\ main' = "down" /\ status' = "NOT_READY"
    /\ UNCHANGED <<channel, rpc, inits, attrs, timing, cb, listener>>
    /\ Cache!ShutdownClears

-----------------------------------------------------------------------------
(* The channel and the EventStream call.                                    *)

ChannelMoves ==
    {<<"IDLE", "CONNECTING">>, <<"CONNECTING", "READY">>,
     <<"CONNECTING", "TRANSIENT_FAILURE">>, <<"TRANSIENT_FAILURE", "CONNECTING">>,
     <<"READY", "IDLE">>, <<"READY", "TRANSIENT_FAILURE">>}

\* A call that was waiting for a server outlives every move; a lost connection
\* takes the open stream with it.
ChannelMove ==
    /\ chan = "IDLE" => sub = "yes"
    /\ \E to \in ChanStates : <<chan, to>> \in ChannelMoves /\ chan' = to
    /\ UNCHANGED <<sub, seen, sdk, attrs, timing, cb, listener>>
    /\ IF Stream = "up"
       THEN BreakRpc /\ Cache!StreamBreaks
       ELSE UNCHANGED <<rpc, caching>>

\* flagd opens every event stream with provider_ready.
ServerAccepts ==
    /\ rpc = "waiting" /\ chan = "READY"
    /\ rpc' = "greeting"
    /\ UNCHANGED <<channel, sdk, attrs, timing, cb, listener>>
    /\ Cache!StreamOpens

\* The stream ends on a live connection: its deadline, the server, a refusal.
StreamEnds ==
    /\ rpc \in {"waiting", "greeting", "open"} /\ chan # "SHUTDOWN"
    /\ BreakRpc
    /\ UNCHANGED <<channel, sdk, attrs, timing, cb, listener>>
    /\ IF Stream = "up" THEN Cache!StreamBreaks ELSE UNCHANGED caching

-----------------------------------------------------------------------------
(* _state_change_callback, one delivery at a time; states may be skipped.   *)

Deliver ==
    /\ sub = "yes" /\ cb = "idle"
    /\ chan # seen
    /\ chan = "TRANSIENT_FAILURE" => \E t \in Timers : timer[t] = "idle"
    /\ seen' = chan
    /\ cb' = CASE isFatal \/ chan \in {"CONNECTING", "SHUTDOWN"} -> "idle"
               [] ~isFatal /\ chan \in {"READY", "IDLE"}     -> "revive"
               [] ~isFatal /\ chan = "TRANSIENT_FAILURE"     -> "stale"
    /\ UNCHANGED <<chan, sub, rpc, sdk, attrs, timing, listener, caching>>

ReviveListener ==
    /\ cb = "revive"
    /\ cb' = "cancel"
    /\ listener' = IF listener = "none" THEN "loop" ELSE listener
    /\ UNCHANGED <<channel, rpc, sdk, attrs, timing, caching>>

CancelTimer ==
    /\ cb = "cancel"
    /\ cb' = "idle"
    /\ Cancel
    /\ UNCHANGED <<channel, rpc, sdk, attrs, current, listener, caching>>

EmitStale ==
    /\ cb = "stale"
    /\ cb' = "arm"
    /\ Emit("STALE")
    /\ UNCHANGED <<channel, rpc, main, inits, attrs, timing, listener, caching>>

ArmTimer ==
    /\ cb = "arm"
    /\ cb' = "disconnect"
    /\ \E t \in Timers :
          /\ timer[t] = "idle"
          /\ timer' = [timer EXCEPT ![t] = "armed"]
          /\ current' = t
    /\ UNCHANGED <<channel, rpc, sdk, attrs, listener, caching>>

MarkDisconnected ==
    /\ cb = "disconnect"
    /\ cb' = "idle"
    /\ connected' = FALSE
    /\ UNCHANGED <<channel, rpc, sdk, active, isFatal, timing, listener, caching>>

Callback == Deliver \/ ReviveListener \/ CancelTimer \/ EmitStale \/ ArmTimer
            \/ MarkDisconnected

(* emit_error, on the thread of timer t.                                    *)

Goto(t, pc) == timer' = [timer EXCEPT ![t] = pc]

GraceEnds(t) ==
    /\ timer[t] = "armed"
    /\ Goto(t, "firing")
    /\ UNCHANGED <<channel, rpc, sdk, attrs, current, cb, listener, caching>>

ClearCache(t) ==
    /\ timer[t] = "firing"
    /\ Goto(t, "cleared")
    /\ UNCHANGED <<channel, rpc, sdk, attrs, current, cb, listener>>
    /\ Cache!EmitError

EmitError(t) ==
    /\ timer[t] = "cleared"
    /\ Goto(t, "idle")
    /\ Emit("ERROR")
    /\ UNCHANGED <<channel, rpc, main, inits, attrs, current, cb, listener, caching>>

Timer(t) == GraceEnds(t) \/ ClearCache(t) \/ EmitError(t)

-----------------------------------------------------------------------------
(* listen().                                                                *)

\* On a closed channel the stub raises ValueError, which nothing catches.
LoopHead ==
    /\ listener = "loop"
    /\ IF active /\ chan # "SHUTDOWN"
       THEN listener' = "stream" /\ rpc' = "waiting"
       ELSE listener' = "none" /\ UNCHANGED rpc
    /\ UNCHANGED <<channel, sdk, attrs, timing, cb, caching>>

ReceiveGreeting ==
    /\ listener = "stream" /\ rpc = "greeting" /\ chan # "SHUTDOWN"
    /\ listener' = "greet" /\ rpc' = "open"
    /\ UNCHANGED <<channel, sdk, attrs, timing, cb, caching>>

\* Mutant of EmitReady: READY is announced once per outage, as GrpcWatcher does.
EmitReadyOnce ==
    /\ listener = "greet"
    /\ listener' = "greeted"
    /\ IF connected THEN UNCHANGED status ELSE Emit("READY")
    /\ UNCHANGED <<channel, rpc, main, inits, attrs, timing, cb, caching>>

\* Every provider_ready is announced.
EmitReady ==
    /\ listener = "greet"
    /\ listener' = "greeted"
    /\ Emit("READY")
    /\ UNCHANGED <<channel, rpc, main, inits, attrs, timing, cb, caching>>

MarkConnected ==
    /\ listener = "greeted"
    /\ listener' = "check"
    /\ connected' = TRUE
    /\ UNCHANGED <<channel, rpc, sdk, active, isFatal, timing, cb, caching>>

ReceiveChange ==
    /\ listener = "stream" /\ rpc = "open"
    /\ listener' = "handle"
    /\ UNCHANGED <<channel, rpc, sdk, attrs, timing, cb>>
    /\ Cache!TakeEvent

InvalidateFlag ==
    /\ listener = "handle"
    /\ UNCHANGED lifetime
    /\ \E k \in Flags : Cache!Pop(k)

EmitChanged ==
    /\ listener = "handle"
    /\ listener' = "check"
    /\ UNCHANGED <<channel, rpc, sdk, attrs, timing, cb>>
    /\ Cache!EmitChanged

\* Mutant of CheckActive: the stream is abandoned after each message.
CheckActiveBreaks ==
    /\ listener = "check"
    /\ listener' = "loop"
    /\ UNCHANGED <<channel, rpc, sdk, attrs, timing, cb, caching>>

CheckActive ==
    /\ listener = "check"
    /\ listener' = IF active THEN "stream" ELSE "none"
    /\ UNCHANGED <<channel, rpc, sdk, attrs, timing, cb, caching>>

\* The call has ended, with a status code that may be a fatal one.
RpcFails ==
    /\ listener = "stream" /\ rpc = "broken"
    /\ rpc' = "none"
    /\ \/ /\ listener' = "retry"
          /\ UNCHANGED <<isFatal, active>>
       \/ /\ FatalConfigured
          /\ isFatal' = TRUE /\ active' = FALSE
          /\ listener' = "fatal"
    /\ UNCHANGED <<channel, sdk, connected, timing, cb, caching>>

EmitFatal ==
    /\ listener = "fatal"
    /\ listener' = "none"
    /\ Emit("FATAL")
    /\ UNCHANGED <<channel, rpc, main, inits, attrs, timing, cb, caching>>

\* While active, it waits for the back-off or the shutdown event.
Retry ==
    /\ listener = "retry"
    /\ listener' = "loop"
    /\ UNCHANGED <<channel, rpc, sdk, attrs, timing, cb, caching>>

Listen ==
    \/ LoopHead \/ ReceiveGreeting \/ EmitReady \/ MarkConnected
    \/ ReceiveChange \/ InvalidateFlag \/ EmitChanged
    \/ CheckActive \/ RpcFails \/ EmitFatal \/ Retry

-----------------------------------------------------------------------------
\* The server's flags change; an application thread evaluates one.
Resolve(c) ==
    /\ UNCHANGED lifetime
    /\ \/ \E k \in Flags : Cache!Resolve(c, k)
       \/ Cache!ReadCache(c) \/ Cache!CallFails(c) \/ Cache!Insert(c)
       \/ chan = "READY" /\ Cache!ServerAnswers(c)

ServerChange ==
    /\ UNCHANGED lifetime
    /\ \E S \in (SUBSET Flags) \ {{}} : Cache!ServerChange(S)

Next ==
    \/ Connect \/ Monitor \/ PollEnds \/ InitOutcome
    \/ Shutdown \/ ShutdownCancels \/ ShutdownClears
    \/ ChannelMove \/ ServerAccepts \/ StreamEnds
    \/ Callback
    \/ \E t \in Timers : Timer(t)
    \/ Listen
    \/ ServerChange
    \/ \E c \in Clients : Resolve(c)

Spec == Init /\ [][Next]_vars

\* Threads keep running, timers expire, gRPC delivers states.
FairSpec ==
    /\ Spec
    /\ WF_vars(Callback)
    /\ \A t \in Timers : WF_vars(Timer(t))
    /\ WF_vars(Listen)
    /\ WF_vars(Monitor \/ PollEnds \/ InitOutcome)

-----------------------------------------------------------------------------
(* Properties.                                                              *)

\* The connection gives the cache what RpcCache assumes of it: streams open and
\* break, what they lose and when the cache is cleared.
ImplementsCache == Cache!Spec

\* While the provider is in use and its connection lasts, each provider_ready
\* of a renewed stream repairs the status: in the end it stays READY, whatever
\* an earlier outage, timer or initialize() still emits.
RecoverySticks ==
    (/\ <>[](chan = "READY" /\ main = "running" /\ active)
     /\ []<>(listener = "greeted")) => <>[](status = "READY")
=============================================================================
