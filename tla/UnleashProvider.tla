---------------------------- MODULE UnleashProvider ----------------------------
(***************************************************************************)
(* The Unleash provider (unleash/__init__.py): its status, written by      *)
(* initialize(), by shutdown() and by the callback of the UnleashClient,   *)
(* which run in three threads, and its resolutions.                        *)
(*                                                                         *)
(* The client is external.  It calls back from initialize_client and, once *)
(* it is initialized, from its polling job, one event at a time; destroy   *)
(* waits for the job that is running, and a client whose initialization    *)
(* raised calls back no more.  The handlers of UnleashEvents are those of  *)
(* PROVIDER_READY; the events of the other types walk lists of their own.  *)
(***************************************************************************)
EXTENDS UnleashEvents, UnleashEvaluation

VARIABLES
    status,         \* self._status
    init,           \* initialize(): "idle", "client" (in initialize_client), "failed"
    initialized,    \* external: client.is_initialized; its polling job runs
    callback,       \* _unleash_event_callback: the event it handles, where it stands
    down,           \* shutdown(): "idle", "destroying", "resetting"
    clean,          \* history: the last shutdown() met no initialize(), none began since
    overlapped,     \* history: a shutdown() and an initialize() have overlapped
    resolution      \* the last resolution: its type and outcome

providerVars == <<status, init, initialized, callback, down, clean, overlapped,
                  resolution>>
history == <<clean, overlapped>>
vars == <<eventVars, providerVars>>

-----------------------------------------------------------------------------
TypeOK ==
    /\ EventTypes
    /\ status \in {"NOT_READY", "READY", "ERROR"}
    /\ init \in {"idle", "client", "failed"}
    /\ initialized \in BOOLEAN
    /\ callback \in {"none", "READY", "FETCHED", "emit", "emitting"}
    /\ emitting = (callback = "emitting")
    /\ down \in {"idle", "destroying", "resetting"}
    /\ clean \in BOOLEAN /\ overlapped \in BOOLEAN

Init ==
    /\ EventInit
    /\ status = "NOT_READY" /\ init = "idle" /\ initialized = FALSE
    /\ callback = "none" /\ down = "idle" /\ clean = TRUE /\ overlapped = FALSE
    /\ resolution = [type |-> "boolean", outcome |-> Default]

-----------------------------------------------------------------------------
(* initialize().                                                            *)

\* A client that is initialized already returns at once.
Initialize ==
    /\ init = "idle" /\ ~initialized
    /\ init' = "client"
    /\ clean' = FALSE /\ overlapped' = (overlapped \/ down # "idle")
    /\ UNCHANGED <<eventVars, status, initialized, callback, down, resolution>>

\* initialize_client returns (external); the status is the callback's matter.
ClientInitialized ==
    /\ init = "client" /\ callback = "none"
    /\ init' = "idle" /\ initialized' = TRUE
    /\ UNCHANGED <<eventVars, status, callback, down, history, resolution>>

\* initialize_client raises (external).
ClientFails ==
    /\ init = "client" /\ callback = "none"
    /\ init' = "failed"
    /\ UNCHANGED <<eventVars, status, initialized, callback, down, history, resolution>>

\* The exception becomes the status and a PROVIDER_ERROR.
InitializeFails ==
    /\ init = "failed"
    /\ status' = "ERROR" /\ init' = "idle"
    /\ UNCHANGED <<eventVars, initialized, callback, down, history, resolution>>

-----------------------------------------------------------------------------
(* The client's callback.                                                   *)

ClientCalls ==
    /\ callback = "none"
    /\ initialized \/ init = "client"
    /\ callback' \in {"READY", "FETCHED"}
    /\ UNCHANGED <<eventVars, status, init, initialized, down, history, resolution>>

\* Mutant of CallbackReady: the handlers are called before the status is set.
CallbackReadyFirst ==
    /\ callback = "READY"
    /\ callback' = "emit"
    /\ UNCHANGED <<eventVars, status, init, initialized, down, history, resolution>>

CallbackReady ==
    /\ callback = "READY"
    /\ status' = "READY" /\ callback' = "emit"
    /\ UNCHANGED <<eventVars, init, initialized, down, history, resolution>>

\* handle_unleash_event: READY
EmitReady ==
    /\ callback = "emit"
    /\ EmitEvent
    /\ callback' = "emitting"
    /\ UNCHANGED <<status, init, initialized, down, history, resolution>>

CallHandler == Call /\ UNCHANGED providerVars

EmitReturns ==
    /\ Done
    /\ callback' = "none"
    /\ UNCHANGED <<status, init, initialized, down, history, resolution>>

\* handle_unleash_event: FETCHED becomes PROVIDER_CONFIGURATION_CHANGED.
CallbackFetched ==
    /\ callback = "FETCHED"
    /\ callback' = "none"
    /\ UNCHANGED <<eventVars, status, init, initialized, down, history, resolution>>

-----------------------------------------------------------------------------
(* shutdown().                                                              *)

\* Mutant of Shutdown: the client is left alone.
ShutdownKeepsClient ==
    /\ down = "idle"
    /\ down' = "resetting"
    /\ clean' = (init = "idle") /\ overlapped' = (overlapped \/ init # "idle")
    /\ UNCHANGED <<eventVars, status, init, initialized, callback, resolution>>

\* A client that is still initializing is not destroyed.
Shutdown ==
    /\ down = "idle"
    /\ down' = IF initialized THEN "destroying" ELSE "resetting"
    /\ clean' = (init = "idle") /\ overlapped' = (overlapped \/ init # "idle")
    /\ UNCHANGED <<eventVars, status, init, initialized, callback, resolution>>

\* destroy() waits for the client's job (external).
Destroy ==
    /\ down = "destroying" /\ callback = "none"
    /\ initialized' = FALSE /\ down' = "resetting"
    /\ UNCHANGED <<eventVars, status, init, callback, history, resolution>>

ResetStatus ==
    /\ down = "resetting"
    /\ status' = "NOT_READY" /\ down' = "idle"
    /\ UNCHANGED <<eventVars, init, initialized, callback, history, resolution>>

-----------------------------------------------------------------------------
(* Resolutions: whatever the client answers; one that is not initialized    *)
(* answers as for an unknown flag.                                          *)

ResolveBoolean ==
    /\ \E toggle \in Toggles, default \in BOOLEAN :
        /\ ~initialized => toggle = "unknown"
        /\ resolution' = [type |-> "boolean", outcome |-> FromToggle(toggle, default)]
    /\ UNCHANGED <<eventVars, status, init, initialized, callback, down, history>>

ResolveVariant ==
    /\ \E type \in VariantTypes, variant \in Variants :
        /\ ~initialized => ~variant.enabled
        /\ resolution' = [type |-> type, outcome |-> FromVariant(type, variant)]
    /\ UNCHANGED <<eventVars, status, init, initialized, callback, down, history>>

-----------------------------------------------------------------------------
ChangeHandlers ==
    /\ \E h \in Handlers : AddHandler(h) \/ RemoveHandler(h)
    /\ UNCHANGED providerVars

Next ==
    \/ Initialize \/ ClientInitialized \/ ClientFails \/ InitializeFails
    \/ ClientCalls \/ CallbackReady \/ EmitReady \/ CallHandler \/ EmitReturns
    \/ CallbackFetched
    \/ Shutdown \/ Destroy \/ ResetStatus
    \/ ResolveBoolean \/ ResolveVariant
    \/ ChangeHandlers

Spec == Init /\ [][Next]_vars

-----------------------------------------------------------------------------
(* Properties.                                                              *)

\* shutdown() is final: however the client's callbacks interleave with it, once
\* it has returned the status stays NOT_READY until the next initialize().  A
\* shutdown() that overlaps with an initialize() promises nothing: it finds
\* is_initialized still False and leaves the client alone.
DownStaysDown == clean /\ down = "idle" => status = "NOT_READY"

\* A handler of PROVIDER_READY that asks for the status finds it READY: the
\* callback sets it first, a failed initialize() has no callback under way, and
\* shutdown() takes it back only after the client's job has ended.
HandlersSeeReady == emitting /\ ~overlapped => status = "READY"

\* The converters of flag_evaluation.py: a resolution that does not raise
\* returns the type that was asked for (of an object, any JSON document) or the
\* caller's default; what is called the default is it; and a string never fails.
ResolvesTyped ==
    LET type == resolution.type
        outcome == resolution.outcome
    IN /\ outcome.reason # "ERROR" /\ type # "object" => outcome.value \in {type, "default"}
       /\ outcome.reason = "DEFAULT" /\ type # "boolean" => outcome.value = "default"
       /\ outcome.reason = "ERROR" => type \notin {"string", "boolean"}
=============================================================================
