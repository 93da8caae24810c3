------------------------------ MODULE FileWatcher ------------------------------
(***************************************************************************)
(* The file connector of the flagd provider (file_watcher.py): initialize  *)
(* loads the flag file on the SDK's thread while a polling thread compares *)
(* modification times and reloads.  Both run _load_data, without a lock,   *)
(* and share last_modified and should_emit_ready_on_success.               *)
(*                                                                         *)
(* Every write gives the file a later modification time, so a version of   *)
(* the file stands for its contents and for its time.                      *)
(***************************************************************************)
EXTENDS Naturals

CONSTANTS
    Pollers,        \* identities of polling threads; bounds how many run at once
    Main,           \* the SDK's thread inside initialize()
    MaxInits,       \* how often the application initializes the provider
    MaxVersion      \* bounds how often the file is written

ASSUME FileAssumption ==
    /\ Main \notin Pollers
    /\ MaxInits \in Nat
    /\ MaxVersion \in Nat \ {0}

VARIABLES
    \* the file
    present, version,
    valid,      \* this version parses
    \* the SDK
    status,     \* the provider status the application sees
    main,       \* where the SDK is with initialize() and shutdown()
    inits,
    \* attributes of the watcher
    active, shouldEmitReady, lastModified,
    \* the threads inside refresh_file, safe_load_data and _load_data
    pc,         \* [Threads -> program counter]
    stamp,      \* [Threads -> modified_time, Unset for None and after the call]
    data,       \* [Threads -> the version it has read and is about to store]
    \* the flag store
    store,      \* the version it holds, Unset before the first
    \* history: the file was touched during initialize(), or two polling threads
    \* have been alive at once
    raced,
    restored    \* history: a missing file came back with its old time

file  == <<present, version, valid>>
sdk   == <<status, main, inits>>
local == <<stamp, data>>
history == <<raced, restored>>
attrs == <<active, shouldEmitReady, lastModified>>
vars  == <<file, sdk, attrs, pc, local, store, history>>

-----------------------------------------------------------------------------
Threads  == Pollers \cup {Main}
Unset    == 0
Versions == 1..MaxVersion
Loading  == {"read", "update", "announce", "reset", "stamp"}
PC       == Loading \cup {"none", "arm", "sleep", "check", "fail", "error"}

TypeOK ==
    /\ present \in BOOLEAN /\ valid \in BOOLEAN
    /\ version \in Versions
    /\ status \in {"NOT_READY", "READY", "ERROR"}
    /\ main \in {"down", "starting", "failed", "loaded", "up"}
    /\ inits \in 0..MaxInits
    /\ active \in BOOLEAN /\ shouldEmitReady \in BOOLEAN
    /\ lastModified \in Versions \cup {Unset}
    /\ pc \in [Threads -> PC]
    /\ stamp \in [Threads -> Versions \cup {Unset}]
    /\ data \in [Threads -> Versions \cup {Unset}]
    /\ store \in Versions \cup {Unset}
    /\ raced \in BOOLEAN /\ restored \in BOOLEAN

Init ==
    /\ present = TRUE /\ version = 1 /\ valid \in BOOLEAN
    /\ status = "NOT_READY" /\ main = "down" /\ inits = 0
    /\ active = FALSE /\ shouldEmitReady = FALSE /\ lastModified = Unset
    /\ pc = [t \in Threads |-> "none"]
    /\ stamp = [t \in Threads |-> Unset] /\ data = [t \in Threads |-> Unset]
    /\ store = Unset
    /\ raced = FALSE /\ restored = FALSE

Goto(t, where) == pc' = [pc EXCEPT ![t] = where]

\* The SDK records the status of an event while the provider is attached.
Emit(s) == status' = IF main = "down" THEN status ELSE s

-----------------------------------------------------------------------------
(* Whoever edits the file.                                                  *)

Touch == raced' = (raced \/ main \notin {"down", "up"})

Write ==
    /\ version < MaxVersion
    /\ present' = TRUE /\ version' = version + 1 /\ valid' \in BOOLEAN
    /\ Touch
    /\ UNCHANGED <<sdk, attrs, pc, local, store, restored>>

\* Moving the file away and back keeps its modification time.
Move ==
    /\ present' = ~present
    /\ Touch
    /\ restored' = (restored \/ ~present)
    /\ UNCHANGED <<version, valid, sdk, attrs, pc, local, store>>

-----------------------------------------------------------------------------
(* initialize() and shutdown().                                             *)

Initialize(p) ==
    /\ main = "down" /\ inits < MaxInits
    /\ pc[p] = "none"
    /\ main' = "starting" /\ inits' = inits + 1
    /\ active' = TRUE
    /\ pc' = [pc EXCEPT ![p] = "sleep", ![Main] = "arm"]
    /\ raced' = (raced \/ \E q \in Pollers : pc[q] # "none")
    /\ UNCHANGED <<file, status, shouldEmitReady, lastModified, local, store, restored>>

ArmReady ==
    /\ pc[Main] = "arm"
    /\ shouldEmitReady' = TRUE
    /\ Goto(Main, "read")
    /\ stamp' = [stamp EXCEPT ![Main] = Unset]
    /\ UNCHANGED <<file, sdk, active, lastModified, data, store, history>>

\* The SDK turns the outcome of initialize() into a status.
InitOutcome ==
    /\ main \in {"loaded", "failed"}
    /\ status' = IF main = "loaded" THEN "READY" ELSE "ERROR"
    /\ main' = "up"
    /\ UNCHANGED <<file, inits, attrs, pc, local, store, history>>

\* Mutant of Shutdown: active is left set.
ShutdownKeepsActive ==
    /\ main = "up"
    /\ main' = "down" /\ status' = "NOT_READY"
    /\ UNCHANGED <<file, inits, attrs, pc, local, store, history>>

Shutdown ==
    /\ main = "up"
    /\ main' = "down" /\ status' = "NOT_READY"
    /\ active' = FALSE
    /\ UNCHANGED <<file, inits, shouldEmitReady, lastModified, pc, local, store, history>>

-----------------------------------------------------------------------------
(* refresh_file and safe_load_data, by polling thread p.                    *)

\* active is read before the sleep: a thread may miss that it was FALSE.
Wake(p) ==
    /\ pc[p] = "sleep"
    /\ Goto(p, "check")
    /\ UNCHANGED <<file, sdk, attrs, local, store, history>>

\* The loop of refresh_file: once more, or the thread ends.
Again(p) == IF active THEN "sleep" ELSE "none"

\* os.path.getmtime, and the comparison.
Check(p) ==
    /\ pc[p] = "check"
    /\ \/ /\ present /\ version > lastModified
          /\ stamp' = [stamp EXCEPT ![p] = version]
          /\ Goto(p, "read")
       \/ /\ present /\ version <= lastModified
          /\ Goto(p, Again(p))
          /\ UNCHANGED stamp
       \/ /\ ~present
          /\ Goto(p, "fail")
          /\ UNCHANGED stamp
    /\ UNCHANGED <<file, sdk, attrs, data, store, history>>

\* Mutant of HandleError: nothing will announce the recovery.
HandleErrorForgets(p) ==
    /\ pc[p] = "fail"
    /\ Goto(p, "error")
    /\ UNCHANGED <<file, sdk, attrs, local, store, history>>

\* handle_error: first the flag, then the event.
HandleError(p) ==
    /\ pc[p] = "fail"
    /\ shouldEmitReady' = TRUE
    /\ Goto(p, "error")
    /\ UNCHANGED <<file, sdk, active, lastModified, local, store, history>>

EmitError(p) ==
    /\ pc[p] = "error"
    /\ Emit("ERROR")
    /\ Goto(p, Again(p))
    /\ UNCHANGED <<file, main, inits, attrs, local, store, history>>

-----------------------------------------------------------------------------
(* _load_data, by any thread.                                               *)

\* An exception reaches safe_load_data, or initialize() and then the SDK.
Fail(t) ==
    IF t = Main
    THEN Goto(t, "none") /\ main' = "failed"
    ELSE Goto(t, "fail") /\ UNCHANGED main

\* Mutant of Read: initialize() swallows the exception of _load_data.
ReadSwallows(t) ==
    /\ pc[t] = "read"
    /\ \/ /\ present /\ valid
          /\ data' = [data EXCEPT ![t] = version]
          /\ Goto(t, "update")
          /\ UNCHANGED main
       \/ /\ ~(present /\ valid)
          /\ Goto(t, "none")
          /\ main' = IF t = Main THEN "loaded" ELSE main
          /\ UNCHANGED data
    /\ UNCHANGED <<file, status, inits, attrs, stamp, store, history>>

\* The file is opened, read and parsed; flag_store.update rejects what is not
\* a flag configuration before it changes anything.
Read(t) ==
    /\ pc[t] = "read"
    /\ \/ /\ present /\ valid
          /\ data' = [data EXCEPT ![t] = version]
          /\ Goto(t, "update")
          /\ UNCHANGED main
       \/ /\ ~(present /\ valid)
          /\ Fail(t)
          /\ UNCHANGED data
    /\ UNCHANGED <<file, status, inits, attrs, stamp, store, history>>

UpdateStore(t) ==
    /\ pc[t] = "update"
    /\ store' = data[t]
    /\ data' = [data EXCEPT ![t] = Unset]
    /\ Goto(t, "announce")
    /\ UNCHANGED <<file, sdk, attrs, stamp, history>>

AnnounceReady(t) ==
    /\ pc[t] = "announce"
    /\ IF shouldEmitReady
       THEN Emit("READY") /\ Goto(t, "reset")
       ELSE UNCHANGED status /\ Goto(t, "stamp")
    /\ UNCHANGED <<file, main, inits, attrs, local, store, history>>

ResetReady(t) ==
    /\ pc[t] = "reset"
    /\ shouldEmitReady' = FALSE
    /\ Goto(t, "stamp")
    /\ UNCHANGED <<file, sdk, active, lastModified, local, store, history>>

\* Mutant of SetModified: the polling thread, too, asks for the time afterwards.
SetModifiedLate(t) ==
    /\ pc[t] = "stamp" /\ present
    /\ lastModified' = version
    /\ IF t = Main THEN Goto(t, "none") /\ main' = "loaded"
                   ELSE Goto(t, Again(t)) /\ UNCHANGED main
    /\ stamp' = [stamp EXCEPT ![t] = Unset]
    /\ UNCHANGED <<file, status, inits, active, shouldEmitReady, data, store, history>>

\* Mutant of SetModified: the time is rounded up.
SetModifiedRounded(t) ==
    /\ pc[t] = "stamp" /\ present
    /\ lastModified' = version + 1
    /\ IF t = Main THEN Goto(t, "none") /\ main' = "loaded"
                   ELSE Goto(t, Again(t)) /\ UNCHANGED main
    /\ stamp' = [stamp EXCEPT ![t] = Unset]
    /\ UNCHANGED <<file, status, inits, active, shouldEmitReady, data, store, history>>

\* initialize() has no modified_time: it asks for the time it finds now.
SetModified(t) ==
    /\ pc[t] = "stamp"
    /\ \/ /\ stamp[t] # Unset
          /\ lastModified' = stamp[t]
          /\ Goto(t, Again(t))
          /\ UNCHANGED main
       \/ /\ stamp[t] = Unset /\ present
          /\ lastModified' = version
          /\ Goto(t, "none") /\ main' = "loaded"
       \/ /\ stamp[t] = Unset /\ ~present
          /\ UNCHANGED lastModified
          /\ Fail(t)
    /\ stamp' = [stamp EXCEPT ![t] = Unset]
    /\ UNCHANGED <<file, status, inits, active, shouldEmitReady, data, store, history>>

LoadData(t) ==
    Read(t) \/ UpdateStore(t) \/ AnnounceReady(t) \/ ResetReady(t) \/ SetModified(t)

-----------------------------------------------------------------------------
Poll(p) == Wake(p) \/ Check(p) \/ HandleError(p) \/ EmitError(p) \/ LoadData(p)

InitThread == ArmReady \/ LoadData(Main) \/ InitOutcome

Next ==
    \/ Write \/ Move
    \/ \E p \in Pollers : Initialize(p) \/ Poll(p)
    \/ InitThread
    \/ Shutdown

Spec == Init /\ [][Next]_vars

\* Threads keep running and sleeps end.
FairSpec == Spec /\ WF_vars(InitThread) /\ \A p \in Pollers : WF_vars(Poll(p))

-----------------------------------------------------------------------------
(* Properties.                                                              *)

\* The application sees READY only over a store that was loaded.
ReadyMeansLoaded == status = "READY" => store # Unset

\* Unless a race is on record, last_modified is never later than the version in
\* the store, not even while two threads load: a later version is still noticed.
StampCovered == ~raced => lastModified <= store

\* Once the file is settled the store comes to hold it, provided that nobody
\* touches the file during initialize() and polling threads never overlap.
Settled(v) == <>[](version = v /\ present /\ valid /\ main = "up")
DetectsChanges ==
    []~raced => \A v \in Versions : Settled(v) => <>[](store = v)

\* Under the same proviso the application comes to see READY again after any
\* error, also of a file that was missing, unless that file is put back with the
\* modification time it had.
RecoversFromError ==
    [](~raced /\ ~restored) =>
        (<>[](present /\ valid /\ main = "up") => <>[](status = "READY"))

\* After the last shutdown() every polling thread ends.
PollersStop == <>[](main = "down") => <>[](\A p \in Pollers : pc[p] = "none")

-----------------------------------------------------------------------------
(* What the documentation says and the code does not keep.                  *)

\* "Provider will attempt to detect file changes using polling" (README.md of
\* the flagd provider): once the file is settled, the store comes to hold it.
DetectsEveryChange == \A v \in Versions : Settled(v) => <>[](store = v)
=============================================================================
