------------------------------- MODULE RpcCache -------------------------------
(***************************************************************************)
(* The evaluation cache of the flagd provider's RPC resolver (grpc.py):    *)
(* application threads inside _resolve fill it from the server's answers,  *)
(* the listener thread empties it flag by flag when the event stream       *)
(* reports a change, and the grace timer and shutdown() clear it.          *)
(*                                                                         *)
(* No lock spans the check, the read, the call and the insertion of        *)
(* _resolve; each operation of the cache itself is atomic (cachebox).  A   *)
(* cached result is abstracted to the version of the flag it was computed  *)
(* from.                                                                   *)
(*                                                                         *)
(* Of the connection this module keeps whether an event stream is open and *)
(* whether a grace timer runs; GrpcResolver models the connection itself   *)
(* and implements this specification.                                      *)
(***************************************************************************)
EXTENDS Naturals, Sequences, FiniteSets

CONSTANTS
    Flags,
    Clients,        \* application threads that evaluate flags
    MaxCacheSize,   \* config.max_cache_size
    MaxVersion      \* bounds how often the server changes a flag

ASSUME CacheAssumption ==
    /\ MaxCacheSize \in Nat \ {0}
    /\ MaxVersion \in Nat

VARIABLES
    \* the server
    ver,        \* [Flags -> version it evaluates now]
    \* the event stream
    stream,     \* "down", "up"; from shutdown() on "closing", then "closed"
    events,     \* configuration_change messages not yet handled, in order
    grace,      \* some timer will clear the cache in emit_error
    \* the listener inside handle_changed_flags
    changed,    \* the flags of the message, {} when it handles none
    pops,       \* those it still has to drop from the cache
    \* the resolver and its callers
    cache,      \* [Flags -> version, or NotCached]
    client,     \* [Clients -> what the thread is doing in _resolve]
    \* history: flags whose entry may be outdated although no invalidation is
    \* under way: changed while no stream reported it, or answered before and
    \* inserted after the invalidation
    excused

listener == <<changed, pops>>
vars     == <<ver, stream, events, grace, listener, cache, client, excused>>

-----------------------------------------------------------------------------
NotCached == MaxVersion + 1
Versions  == 0..MaxVersion
Idle      == [at |-> "idle"]
Calls     == {Idle}
             \cup [at : {"hit", "ask"}, flag : Flags]
             \cup [at : {"answered"}, flag : Flags, version : Versions, static : BOOLEAN]

Closed == {"closing", "closed"}

Cached == {k \in Flags : cache[k] # NotCached}

\* A client holds an answer about k that the server would no longer give.
Racing(k) ==
    \E c \in Clients :
        /\ client[c].at = "answered"
        /\ client[c].flag = k
        /\ client[c].version # ver[k]

\* An invalidation of k is under way.
Announced(k) == k \in pops \/ \E i \in 1..Len(events) : k \in events[i]

TypeOK ==
    /\ ver \in [Flags -> Versions]
    /\ stream \in {"down", "up"} \cup Closed
    /\ events \in Seq(SUBSET Flags)
    /\ grace \in BOOLEAN
    /\ changed \subseteq Flags /\ pops \subseteq Flags
    /\ cache \in [Flags -> Versions \cup {NotCached}]
    /\ client \in [Clients -> Calls]
    /\ excused \subseteq Flags

Init ==
    /\ ver = [k \in Flags |-> 0]
    /\ stream = "down" /\ events = <<>> /\ grace = FALSE
    /\ changed = {} /\ pops = {}
    /\ cache = [k \in Flags |-> NotCached]
    /\ client = [c \in Clients |-> Idle]
    /\ excused = {}

-----------------------------------------------------------------------------
(* The server and the event stream.                                         *)

\* A new configuration changes the flags S.
ServerChange(S) ==
    /\ \A k \in S : ver[k] < MaxVersion
    /\ ver' = [k \in Flags |-> IF k \in S THEN ver[k] + 1 ELSE ver[k]]
    /\ IF stream = "up"
       THEN events' = Append(events, S) /\ UNCHANGED excused
       ELSE excused' = excused \cup S /\ UNCHANGED events
    /\ UNCHANGED <<stream, grace, listener, cache, client>>

\* listen() has opened a stream.  Nothing is replayed.
StreamOpens ==
    /\ stream = "down"
    /\ stream' = "up"
    /\ UNCHANGED <<ver, events, grace, listener, cache, client, excused>>

\* The stream ends, by its deadline or with the connection; what it had not
\* delivered is lost.
StreamBreaks ==
    /\ stream = "up"
    /\ stream' = "down"
    /\ events' = <<>>
    /\ excused' = excused \cup UNION {events[i] : i \in 1..Len(events)}
    /\ UNCHANGED <<ver, grace, listener, cache, client>>

\* The connectivity callback starts a grace timer, or cancels the one that
\* self.timer names; so does shutdown().  Others may go on.
GraceChanges ==
    /\ grace' \in BOOLEAN
    /\ UNCHANGED <<ver, stream, events, listener, cache, client, excused>>

-----------------------------------------------------------------------------
(* handle_changed_flags.                                                    *)

\* Mutant of TakeEvent: the test on the cache is inverted.
TakeEventInverted ==
    /\ changed = {} /\ events # <<>>
    /\ changed' = Head(events)
    /\ events' = Tail(events)
    /\ pops' = IF Cached = {} THEN Head(events) ELSE {}
    /\ UNCHANGED <<ver, stream, grace, cache, client, excused>>

\* "if self.cache" is false of an empty cache.
TakeEvent ==
    /\ changed = {} /\ events # <<>>
    /\ changed' = Head(events)
    /\ events' = Tail(events)
    /\ IF Cached # {}
       THEN pops' = Head(events) /\ UNCHANGED excused
       ELSE pops' = {} /\ excused' = excused \cup {k \in Head(events) : Racing(k)}
    /\ UNCHANGED <<ver, stream, grace, cache, client>>

Pop(k) ==
    /\ k \in pops
    /\ pops' = pops \ {k}
    /\ cache' = [cache EXCEPT ![k] = NotCached]
    /\ excused' = (excused \ {k}) \cup {f \in {k} : Racing(f)}
    /\ UNCHANGED <<ver, stream, events, grace, changed, client>>

\* Mutant of EmitChanged: the event goes out before the entries are dropped.
EmitChangedEarly ==
    /\ changed # {}
    /\ changed' = {}
    /\ UNCHANGED <<ver, stream, events, grace, pops, cache, client, excused>>

\* PROVIDER_CONFIGURATION_CHANGED is emitted.
EmitChanged ==
    /\ changed # {} /\ pops = {}
    /\ changed' = {}
    /\ UNCHANGED <<ver, stream, events, grace, pops, cache, client, excused>>

-----------------------------------------------------------------------------
(* Clearing the cache.                                                      *)

Clear ==
    /\ cache' = [k \in Flags |-> NotCached]
    /\ excused' = {k \in Flags : Racing(k)}

\* emit_error, on the thread of a timer; another may run.
EmitError ==
    /\ grace
    /\ grace' \in BOOLEAN
    /\ Clear
    /\ UNCHANGED <<ver, stream, events, listener, client>>

\* shutdown() closes the channel first, and no stream opens again.
Shutdown ==
    /\ stream # "closing"
    /\ stream' = "closing" /\ events' = <<>>
    /\ excused' = excused \cup UNION {events[i] : i \in 1..Len(events)}
    /\ UNCHANGED <<ver, grace, listener, cache, client>>

\* It clears the cache last.
ShutdownClears ==
    /\ stream = "closing"
    /\ stream' = "closed"
    /\ Clear
    /\ UNCHANGED <<ver, events, grace, listener, client>>

-----------------------------------------------------------------------------
(* _resolve, by client c.                                                   *)

Step(c, call) == client' = [client EXCEPT ![c] = call]

\* Mutant of Resolve: the request does not carry the flag.
ResolveNoKey(c, k) ==
    /\ client[c] = Idle
    /\ Step(c, [at |-> IF k \in Cached THEN "hit" ELSE "ask"])
    /\ UNCHANGED <<ver, stream, events, grace, listener, cache, excused>>

Resolve(c, k) ==
    /\ client[c] = Idle
    /\ Step(c, [at |-> IF k \in Cached THEN "hit" ELSE "ask", flag |-> k])
    /\ UNCHANGED <<ver, stream, events, grace, listener, cache, excused>>

\* self.cache[flag_key]: the cached result, or KeyError when it is gone.
ReadCache(c) ==
    /\ client[c].at = "hit"
    /\ Step(c, Idle)
    /\ UNCHANGED <<ver, stream, events, grace, listener, cache, excused>>

\* The server evaluates the flag; its answer, with reason STATIC or another
\* one, travels back.
ServerAnswers(c) ==
    /\ client[c].at = "ask" /\ stream \notin Closed
    /\ LET k == client[c].flag IN
       \E static \in BOOLEAN :
          Step(c, [at |-> "answered", flag |-> k, version |-> ver[k], static |-> static])
    /\ UNCHANGED <<ver, stream, events, grace, listener, cache, excused>>

\* An RpcError or the deadline, before or after the server evaluated.
CallFails(c) ==
    /\ client[c].at \in {"ask", "answered"}
    /\ Step(c, Idle)
    /\ UNCHANGED <<ver, stream, events, grace, listener, cache, excused>>

\* The rest of _resolve: a STATIC result is cached.  A full cache evicts another entry.
Insert(c) ==
    /\ client[c].at = "answered"
    /\ Step(c, Idle)
    /\ IF ~client[c].static
       THEN UNCHANGED cache
       ELSE LET k == client[c].flag IN
            IF k \in Cached \/ Cardinality(Cached) < MaxCacheSize
            THEN cache' = [cache EXCEPT ![k] = client[c].version]
            ELSE \E e \in Cached :
                    cache' = [cache EXCEPT ![k] = client[c].version, ![e] = NotCached]
    /\ UNCHANGED <<ver, stream, events, grace, listener, excused>>

-----------------------------------------------------------------------------
HandleChangedFlags == TakeEvent \/ (\E k \in Flags : Pop(k)) \/ EmitChanged

Client(c) ==
    \/ \E k \in Flags : Resolve(c, k)
    \/ ReadCache(c) \/ ServerAnswers(c) \/ CallFails(c) \/ Insert(c)

Next ==
    \/ \E S \in (SUBSET Flags) \ {{}} : ServerChange(S)
    \/ StreamOpens \/ StreamBreaks \/ GraceChanges
    \/ HandleChangedFlags
    \/ EmitError \/ Shutdown \/ ShutdownClears
    \/ \E c \in Clients : Client(c)

Spec == Init /\ [][Next]_vars

\* The listener thread keeps running.
FairSpec == Spec /\ WF_vars(HandleChangedFlags)

-----------------------------------------------------------------------------
(* Properties.                                                              *)

\* An entry older than the server's flag is about to be invalidated, or it is
\* one of the two kinds the resolver cannot know about.
StaleOnlyIfExcused ==
    \A k \in Cached : cache[k] = ver[k] \/ Announced(k) \/ k \in excused

\* When the application is told that flags have changed, their older entries
\* are gone: what is cached for them is current, has been changed again since,
\* or is excused.
ChangedMeansInvalidated ==
    [][\A k \in changed \ changed' :
          \/ cache[k] \in {NotCached, ver[k]}
          \/ \E i \in 1..Len(events) : k \in events[i]
          \/ k \in excused]_vars

\* While the stream stays up an outdated entry does not last.
StaleIsTransient ==
    <>[](stream = "up") =>
        []<>(\A k \in Cached : cache[k] = ver[k] \/ k \in excused)
=============================================================================
