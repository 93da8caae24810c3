----------------------------- MODULE AtomicStore -----------------------------
(***************************************************************************)
(* What FlagdCore promises its callers: a store that holds one flag        *)
(* configuration at a time, replaced as a whole, so that whatever a        *)
(* resolution uses (the flag, and the flag-set metadata merged into its    *)
(* result) comes from the same configuration.                              *)
(***************************************************************************)
CONSTANTS
    Keys,           \* flag keys
    Contents,       \* what can be configured for a flag
    NoFlag,         \* the flag is not in the configuration
    Metas,          \* flag-set metadata
    NoMeta,         \* ... the empty one
    Readers         \* threads that resolve flags

VARIABLES
    config,         \* the configuration
    answer          \* [Readers -> what its last resolution was computed from]

Configs  == [flags : [Keys -> Contents \cup {NoFlag}], meta : Metas]
NotFound == [flag |-> NoFlag, meta |-> NoMeta]

Init ==
    /\ config = [flags |-> [k \in Keys |-> NoFlag], meta |-> NoMeta]
    /\ answer = [r \in Readers |-> NotFound]

Load(c) ==
    /\ config' = c
    /\ UNCHANGED answer

Resolve(r, k) ==
    /\ answer' = [answer EXCEPT ![r] =
                    IF config.flags[k] = NoFlag
                    THEN NotFound
                    ELSE [flag |-> config.flags[k], meta |-> config.meta]]
    /\ UNCHANGED config

Next ==
    \/ \E c \in Configs : Load(c)
    \/ \E r \in Readers, k \in Keys : Resolve(r, k)

Spec == Init /\ [][Next]_<<config, answer>>
=============================================================================
