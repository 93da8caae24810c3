------------------------------ MODULE FlagdCore ------------------------------
(***************************************************************************)
(* The in-process evaluator (flagd_core.py, model/flag_store.py) and the   *)
(* adapter through which the connectors feed it (in_process.py): updates   *)
(* and resolutions take turns under one lock, an update assigns the flags  *)
(* and then the flag-set metadata, and the adapter fetches the metadata    *)
(* under a lock of its own before it tells the application which flags     *)
(* changed.                                                                *)
(***************************************************************************)
EXTENDS FiniteSets

CONSTANTS
    Keys, Contents, NoFlag, Metas, NoMeta,
    Readers,        \* threads that resolve flags
    Updaters,       \* connector threads: a listener, or polling threads
    Rejected,       \* a configuration that update() raises an exception for
    NoOne           \* nobody holds the lock

Configs == [flags : [Keys -> Contents \cup {NoFlag}], meta : Metas]

ASSUME CoreAssumption ==
    /\ NoFlag \notin Contents
    /\ NoMeta \in Metas
    /\ Readers \cap Updaters = {}
    /\ NoOne \notin Readers \cup Updaters
    /\ Rejected \notin Configs

VARIABLES
    lock,               \* owner of self._lock
    flags,              \* _flag_store.flags
    flagSetMetadata,    \* _flag_store.flag_set_metadata
    \* the updaters inside _FlagStoreAdapter.update
    pc, payload,        \* the configuration being stored
    changed,            \* changed_keys
    told,               \* the metadata the event will carry
    \* the readers inside _resolve
    reader,             \* [Readers -> the flag it has found, or NoFlag]
    answer,             \* [Readers -> flag and metadata of its last result]
    \* an application that follows the configuration_changed events
    dirty,              \* flags reported as changed and not resolved again
    mirror,             \* its copy of the flags
    mirrorMeta,         \* its copy of the metadata
    \* history: an update has begun while another one was under way
    overlapped

store   == <<lock, flags, flagSetMetadata>>
update  == <<pc, payload, changed, told>>
resolve == <<reader, answer>>
app     == <<dirty, mirror, mirrorMeta>>
vars    == <<store, update, resolve, app, overlapped>>

-----------------------------------------------------------------------------
NotFound == [flag |-> NoFlag, meta |-> NoMeta]
Empty    == [k \in Keys |-> NoFlag]

TypeOK ==
    /\ lock \in Readers \cup Updaters \cup {NoOne}
    /\ flags \in [Keys -> Contents \cup {NoFlag}]
    /\ flagSetMetadata \in Metas
    /\ pc \in [Updaters -> {"idle", "parse", "flags", "metadata", "get", "emit"}]
    /\ payload \in [Updaters -> Configs \cup {Rejected}]
    /\ changed \in [Updaters -> SUBSET Keys]
    /\ told \in [Updaters -> Metas]
    /\ reader \in [Readers -> Contents \cup {NoFlag}]
    /\ answer \in [Readers -> [flag : Contents \cup {NoFlag}, meta : Metas]]
    /\ dirty \subseteq Keys
    /\ mirror \in [Keys -> Contents \cup {NoFlag}]
    /\ mirrorMeta \in Metas
    /\ overlapped \in BOOLEAN

Init ==
    /\ lock = NoOne /\ flags = Empty /\ flagSetMetadata = NoMeta
    /\ pc = [u \in Updaters |-> "idle"]
    /\ payload = [u \in Updaters |-> Rejected]
    /\ changed = [u \in Updaters |-> {}]
    /\ told = [u \in Updaters |-> NoMeta]
    /\ reader = [r \in Readers |-> NoFlag]
    /\ answer = [r \in Readers |-> NotFound]
    /\ dirty = {} /\ mirror = Empty /\ mirrorMeta = NoMeta
    /\ overlapped = FALSE

Goto(u, where) == pc' = [pc EXCEPT ![u] = where]

-----------------------------------------------------------------------------
(* _FlagStoreAdapter.update and FlagStore.update, by updater u.             *)

\* set_flags_and_get_changed_keys enters with the configuration p.
SetFlags(u, p) ==
    /\ pc[u] = "idle" /\ lock = NoOne
    /\ lock' = u
    /\ payload' = [payload EXCEPT ![u] = p]
    /\ Goto(u, "parse")
    /\ overlapped' = (overlapped \/ \E v \in Updaters : pc[v] # "idle")
    /\ UNCHANGED <<flags, flagSetMetadata, changed, told, resolve, app>>

\* Mutant of ChangedKeys: flags that disappear are not reported.
ChangedKeysKept(new) ==
    {k \in Keys : new[k] # NoFlag /\ new[k] # flags[k]}

\* The keys on one side only, and those on both sides with different contents.
ChangedKeys(new) ==
    LET oldKeys == {k \in Keys : flags[k] # NoFlag}
        newKeys == {k \in Keys : new[k] # NoFlag}
    IN ((oldKeys \ newKeys) \cup (newKeys \ oldKeys))
          \cup {k \in newKeys \cap oldKeys : new[k] # flags[k]}

\* Every flag and the metadata are parsed before anything is assigned; an
\* exception leaves the lock and the adapter.
Parse(u) ==
    /\ pc[u] = "parse"
    /\ \/ /\ payload[u] = Rejected
          /\ lock' = NoOne
          /\ Goto(u, "idle")
          /\ UNCHANGED changed
       \/ /\ payload[u] # Rejected
          /\ changed' = [changed EXCEPT ![u] = ChangedKeys(payload[u].flags)]
          /\ Goto(u, "flags")
          /\ UNCHANGED lock
    /\ UNCHANGED <<flags, flagSetMetadata, payload, told, resolve, app, overlapped>>

StoreFlags(u) ==
    /\ pc[u] = "flags"
    /\ flags' = payload[u].flags
    /\ Goto(u, "metadata")
    /\ UNCHANGED <<lock, flagSetMetadata, payload, changed, told, resolve, app,
                   overlapped>>

\* Mutant of StoreMetadata: the whole configuration is kept.
StoreMetadataWhole(u) ==
    /\ pc[u] = "metadata"
    /\ flagSetMetadata' = payload[u]
    /\ lock' = NoOne
    /\ Goto(u, "get")
    /\ UNCHANGED <<flags, payload, changed, told, resolve, app, overlapped>>

\* Mutant of StoreMetadata: the event's metadata are fetched first.
StoreMetadataLast(u) ==
    /\ pc[u] = "metadata"
    /\ told' = [told EXCEPT ![u] = flagSetMetadata]
    /\ flagSetMetadata' = payload[u].meta
    /\ lock' = NoOne
    /\ Goto(u, "emit")
    /\ UNCHANGED <<flags, payload, changed, resolve, app, overlapped>>

StoreMetadata(u) ==
    /\ pc[u] = "metadata"
    /\ flagSetMetadata' = payload[u].meta
    /\ lock' = NoOne
    /\ Goto(u, "get")
    /\ UNCHANGED <<flags, payload, changed, told, resolve, app, overlapped>>

\* get_flag_set_metadata takes the lock again.
GetMetadata(u) ==
    /\ pc[u] = "get" /\ lock = NoOne
    /\ told' = [told EXCEPT ![u] = flagSetMetadata]
    /\ Goto(u, "emit")
    /\ UNCHANGED <<store, payload, changed, resolve, app, overlapped>>

EmitChanged(u) ==
    /\ pc[u] = "emit"
    /\ dirty' = dirty \cup changed[u]
    /\ mirrorMeta' = told[u]
    /\ Goto(u, "idle")
    /\ UNCHANGED <<store, payload, changed, told, resolve, mirror, overlapped>>

-----------------------------------------------------------------------------
(* _resolve, by reader r.                                                   *)

\* Mutant of FindFlag: the flag is looked up before the lock is taken.
FindFlagUnlocked(r, k) ==
    /\ reader[r] = NoFlag
    /\ reader' = [reader EXCEPT ![r] = flags[k]]
    /\ lock' = IF flags[k] = NoFlag THEN lock ELSE r
    /\ UNCHANGED <<flags, flagSetMetadata, update, answer, app, overlapped>>

\* get_flag, or FlagNotFoundError.
FindFlag(r, k) ==
    /\ reader[r] = NoFlag /\ lock = NoOne
    /\ \/ /\ flags[k] = NoFlag
          /\ answer' = [answer EXCEPT ![r] = NotFound]
          /\ UNCHANGED <<lock, reader>>
       \/ /\ flags[k] # NoFlag
          /\ lock' = r
          /\ reader' = [reader EXCEPT ![r] = flags[k]]
          /\ UNCHANGED answer
    /\ UNCHANGED <<flags, flagSetMetadata, update, app, overlapped>>

\* _merge_metadata, and the evaluation of the flag.
MergeMetadata(r) ==
    /\ reader[r] # NoFlag
    /\ answer' = [answer EXCEPT ![r] = [flag |-> reader[r], meta |-> flagSetMetadata]]
    /\ reader' = [reader EXCEPT ![r] = NoFlag]
    /\ lock' = NoOne
    /\ UNCHANGED <<flags, flagSetMetadata, update, app, overlapped>>

-----------------------------------------------------------------------------
\* The application resolves a reported flag again.
Refresh(k) ==
    /\ k \in dirty /\ lock = NoOne
    /\ mirror' = [mirror EXCEPT ![k] = flags[k]]
    /\ dirty' = dirty \ {k}
    /\ UNCHANGED <<store, update, resolve, mirrorMeta, overlapped>>

Update(u) ==
    \/ \E p \in Configs \cup {Rejected} : SetFlags(u, p)
    \/ Parse(u) \/ StoreFlags(u) \/ StoreMetadata(u) \/ GetMetadata(u) \/ EmitChanged(u)

Next ==
    \/ \E u \in Updaters : Update(u)
    \/ \E r \in Readers : MergeMetadata(r) \/ \E k \in Keys : FindFlag(r, k)
    \/ \E k \in Keys : Refresh(k)

Spec == Init /\ [][Next]_vars

-----------------------------------------------------------------------------
(* Properties.                                                              *)

\* Resolutions cannot tell update() from an atomic assignment of the whole
\* configuration: between its two assignments the metadata still to come
\* already count as those of the store.
AtomicMeta ==
    IF lock \in Updaters /\ pc[lock] = "metadata"
    THEN payload[lock].meta
    ELSE flagSetMetadata

Atomic == INSTANCE AtomicStore
            WITH config <- [flags |-> flags, meta |-> AtomicMeta]

AtomicSpec == Atomic!Spec

\* An application that resolves again just the flags the events report has an
\* exact copy, also of flags that were removed, but for those whose event is
\* still to come.
Coming(k) == \E u \in Updaters : pc[u] \in {"metadata", "get", "emit"} /\ k \in changed[u]
MirrorFollows ==
    \A k \in Keys : mirror[k] = flags[k] \/ k \in dirty \/ Coming(k)

\* FlagStore.update and the adapter: when no update is under way the metadata
\* of the last event are those of the store, as long as no two updates have
\* overlapped. get_flag_set_metadata and the event come after the lock is
\* released, and the events of overlapping updates may overtake each other.
MetadataFollows ==
    (~overlapped /\ \A u \in Updaters : pc[u] = "idle")
        => mirrorMeta = flagSetMetadata
=============================================================================
