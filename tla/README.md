# A TLA+ verification of python-sdk-contrib

This directory models the parts of the repository that keep state: the flagd
provider (its two connectors, its RPC resolver, its flag store and the
evaluation of a flag), the AWS SSM provider, the OFREP provider and the Unleash
provider. TLC checks the models on small instances; TLAPS proves, for every value
of the constants, every invariant and every refinement that TLC checks, and what
the code contributes to most of the liveness properties.

`P` below stands for `src/providers/openfeature-provider-`, `flagd/` for
`Pflagd/src/openfeature/contrib/provider/flagd/`, and `core/` for
`src/tools/openfeature-flagd-core/src/openfeature/contrib/tools/flagd/core/`.

## 1. Inventory

| component | state | operations | interacts with |
|---|---|---|---|
| `GrpcWatcher` (`flagd/resolvers/process/connector/grpc_watcher.py`) | `active`, `connected`, `_is_fatal`, `timer`, `thread`, the channel | initialize, shutdown, connectivity callback, grace timer, `listen` | SDK (events, outcome of initialize), gRPC, flag store |
| `FileWatcher` (`.../file_watcher.py`) | `active`, `last_modified`, `should_emit_ready_on_success` | initialize, shutdown, polling, `_load_data`, `handle_error` | SDK, the file, flag store |
| `GrpcResolver` (`flagd/resolvers/grpc.py`) | the cache, and the connection state of `GrpcWatcher` | `_resolve`, `handle_changed_flags`, `emit_error`, shutdown, connection lifecycle | SDK, gRPC, flagd's evaluation and event stream |
| `FlagdCore`, `FlagStore`, `_FlagStoreAdapter` (`core/flagd_core.py`, `core/model/flag_store.py`, `flagd/resolvers/in_process.py`) | `_lock`, `flags`, `flag_set_metadata` | update, resolve | connectors call update, application threads resolve |
| evaluation (`core/flagd_core.py`, `core/model/flag.py`, `core/targeting/`) | none | `_resolve`, `_check_type`, `fractional`, string and semver operators | json-logic |
| facade (`flagd/provider.py`, `sync_metadata_hook.py`) | `enriched_context` | forwards | resolvers |
| AWS SSM (`Paws-ssm/.../awsssm/`) | the cache | resolve, sync and async | Parameter Store |
| OFREP (`Pofrep/.../ofrep/__init__.py`) | `retry_after` | resolve | an OFREP server |
| Unleash (`Punleash/.../unleash/`) | `_event_handlers`, `_status` | add, remove, emit; initialize, shutdown; resolve | UnleashClient: initialization, polling thread, destroy |
| env-var, Flipt, OpenTelemetry hook, flagd-api, testkit, configuration | none that changes | | |

What is hard: five kinds of threads share the watcher's attributes without a
lock; a timer is cancelled through an attribute that another outage overwrites;
`initialize` polls an attribute that the listener sets after its event; cached
answers are inserted after the message that should have invalidated them; a
modification time is read before or after the contents; a lock is released
between an update and its event; a shared deadline is read three times and
reset; a client calls back while its provider is initialized or shut down.
`PROJECT.json` lists each such hazard with its line and the properties that
would catch it.

## 2. Modules

| module | models | refines |
|---|---|---|
| `GrpcWatcher` | `grpc_watcher.py` | |
| `RpcCache` | the cache of `grpc.py`, over an abstract stream | |
| `GrpcResolver` | all of `grpc.py`: the connection composed with `RpcCache` | `RpcCache` |
| `FileWatcher` | `file_watcher.py` | |
| `FlagdCore` | `flagd_core.py`, `flag_store.py`, the adapter of `in_process.py` | `AtomicStore` |
| `AtomicStore` | abstract: a configuration replaced as a whole | |
| `FlagEvaluation` | `_resolve`, `_default_resolve`, `_check_type` | |
| `Fractional` | `fractional`, `_parse_fraction` of `custom_ops.py` | |
| `SsmProvider` | `awsssm/provider.py`, `ssm_service.py`, `parsers.py` | |
| `Ofrep` | `retry_after` in `ofrep/__init__.py` | |
| `UnleashEvents` | the handler lists of `unleash/events.py` | |
| `UnleashEvaluation` | `unleash/flag_evaluation.py` | |
| `UnleashProvider` | `unleash/__init__.py`, composed of the two | |

`MC*` modules add the symmetry sets and the constant values that need a
definition (the other modules are checked as they are); `*_proof` modules hold
the theorems. `FlagdCore_proof` covers the package `core/`: the store, the
evaluation of a flag and the fractional operator, whose specifications have
names of their own (`EvaluationSpec`, `FractionalSpec`) for that purpose.
Definitions whose comment says "Mutant of X" are faulty variants of X: they are
used by no specification, and each shows that some property can fail.

**Atomicity.** An action is the code one thread runs between two points where
another thread can observe or change what it uses. So the callback of
`GrpcWatcher` is six actions (deliver, revive, cancel or stale, arm,
disconnect), and so is that of `GrpcResolver`; `connected = True` is apart from
the READY event before it, `_load_data` is five actions, `FlagStore.update` has
its two assignments apart inside the lock, a lookup `k in cache` is apart from
`cache[k]`, `_resolve` of OFREP reads `retry_after` three times, and Unleash's
callback sets the status before it walks the handlers, one call per step.
Operations of cachebox, of a Python list and of a single attribute are atomic
under the interpreter's lock.

**Environment.** The OpenFeature SDK is not in the repository; it is modelled
from how its events are used: it shows the status of the last event while the
provider is attached, and turns the outcome of `initialize()` into READY, ERROR
or FATAL. gRPC delivers the state the channel has when the previous callback
returned, so states may be skipped; closing a channel drops subscriptions and
ends RPCs; a lost connection ends the RPC that used it. flagd opens every event stream
with `provider_ready`. The UnleashClient calls back one event at a time, from
`initialize_client` and, once initialized, from its polling job; `destroy` waits
for the job that is running; a client whose initialization raised calls back no
more. `cachebox` caches evict
an arbitrary entry (the order is not modelled) and drop an entry when its time
is over. Parameter Store keeps `/k` and `k` apart.

**Data.** A configuration that the server sends is one of four kinds: with
or without `sync_context`, unparsable (an exception `listen` catches) or
malformed (one it does not). A file is its version, which also stands for its
modification time. A cached result is the version of the flag. A parameter is a
text that some parsers accept. Time is not modelled, except in `Ofrep`: a
deadline, grace period or back-off may end at any moment.

### Correspondence

* `GrpcWatcher`: `main` is the SDK's thread in `connect` or `shutdown`, `cb` the
  program counter of `_state_change_callback`, `listener` that of `listen`
  ("none": `thread.is_alive()` is false), `timer[t]` a `threading.Timer` object,
  `current` the attribute `self.timer`. `broken` says that the RPC the listener
  is in, or whose response it handles (`Calling`), has lost its connection: the
  listener gets nothing more of it, and waits until `RpcFails`.
* `RpcCache`: `client[c]` is a thread in `_resolve`: after the membership test
  ("hit"), in the RPC ("ask"), with its answer ("answered"). `events` are the
  messages of the stream, `changed` and `pops` the loop of
  `handle_changed_flags`. `excused` is a history variable: the flags whose
  change no invalidation reports any more.
* `GrpcResolver`: the attributes and threads are named as in `GrpcWatcher`. `rpc`
  is the EventStream call: "waiting" (for a server, `wait_for_ready`), "greeting"
  (the server's `provider_ready` is on its way), "open", "broken". `Stream` and
  `Grace` are what `RpcCache` calls `stream` and `grace`, as functions of the
  connection; every action that touches the cache or the messages takes a step
  of `RpcCache`, by name.
* `FileWatcher`: `pc[t]` is a thread in `_load_data` and around it, `stamp[t]`
  its argument `modified_time`, `data[t]` what it has read. `raced` and
  `restored` are history variables.
* `FlagdCore`: `lock` is the owner of `_lock`; `pc[u]` an updater in
  `_FlagStoreAdapter.update`; `reader[r]` the flag a resolution has found. The
  application that follows the events (`dirty`, `mirror`) is part of the
  environment and makes the changed keys observable.
* `FlagEvaluation`: a flag is its state, the types of its variants, its default
  and what its targeting rule evaluates to; the machine resolves a flag again
  and again with any type.
* `Fractional`: the two loops of `fractional`, one fraction per step.
* `SsmProvider`, `Ofrep`, `UnleashEvents`: one action per access to the shared
  attribute. In `Ofrep`, `announced[c]` is the pause in force when the caller
  began, and `raced` says that it was asked for while another request was under
  way (both history variables).
* `UnleashProvider`: `init` is the thread in `initialize`, `down` the one in
  `shutdown`, `callback` the client's in `_unleash_event_callback`; `clean` and
  `overlapped` record whether a shutdown and an initialization have met.
  `resolution` is the last one: `UnleashEvaluation` says what each conversion
  makes of the client's answer.

## 3. Runs

| run | bounds | checks | result |
|---|---|---|---|
| `GrpcWatcher` | 2 timers, 1 initialization, all kinds of responses, fatal codes | `TypeOK`, `ReadyMeansLoaded`, `StaleEscalates`, `NoRpcAfterFatal`, `LossSurfaces`, `ShutdownStopsListener`, `KeepsListening` | hold |
| `GrpcResolver` | 1 timer, 1 initialization, 1 flag that changes once, 1 client, fatal codes | `TypeOK`, `ImplementsCache`, `RecoverySticks` | hold |
| `RpcCache` | 2 flags, 2 clients, a cache for one, 1 change per flag | `TypeOK`, `StaleOnlyIfExcused`, `ChangedMeansInvalidated`, `StaleIsTransient` | hold |
| `FileWatcher` | 2 pollers, 2 initializations, 2 versions, removals | `TypeOK`, `ReadyMeansLoaded`, `StampCovered`, `DetectsChanges`, `RecoversFromError`, `PollersStop` | hold |
| `FileWatcherLostChange` | 1 poller, 1 initialization, 2 versions | `DetectsEveryChange` | violated |
| `FlagdCore` | 1 key with 2 contents, 1 reader, 2 updaters | `TypeOK`, `MirrorFollows`, `MetadataFollows`, `AtomicSpec` | hold |
| `FlagEvaluation` | every flag of the bounded shape | `ValueTyped`, `TargetingDecides` | hold |
| `Fractional` | up to 3 fractions, weights around 0, hash space 16 | `FractionalTypeOK`, `Selects`, `Share` | hold |
| `SsmProvider` | 2 flags, 2 callers, a cache for one that expires | `TypeOK`, `ResultsTyped`, `StaleExpires` | hold |
| `SsmProviderTwoTypes` | a flag asked for as two types | `ResultsTyped` | violated |
| `Ofrep` | 2 callers, 5 seconds, delays 0 to 2 | `TypeOK`, `PauseHonoured`, `PauseEnds` | hold |
| `UnleashProvider` | 2 handlers, one of which raises, lists of up to 3, any number of initializations and shutdowns | `TypeOK`, `AllCalled`, `DownStaysDown`, `ResolvesTyped`, `HandlersSeeReady` | hold |

What each pass shows, beyond the types:

* `GrpcWatcher`: however outages, responses, fatal codes and a shutdown
  interleave, READY is shown only over a loaded store, a STALE during an outage
  has a grace timer behind it, and a fatal code silences the worker for good. A
  lasting outage leaves STALE, shutdown ends the worker wherever it is blocked,
  and a worker that did not die of an answer `listen` does not catch keeps
  listening.
* `GrpcResolver`: the connection gives the cache exactly what `RpcCache` assumes,
  also while a timer fires, `shutdown` clears and the listener drops entries; so
  the safety that is shown of the cache holds of the resolver. While the
  connection lasts and streams are renewed, the status ends as READY, whatever
  STALE or ERROR an earlier outage, timer or `initialize` still emits: this
  resolver announces every `provider_ready`, unlike `GrpcWatcher`.
* `RpcCache`: an outdated entry is always about to be invalidated, or of one of
  two kinds the resolver cannot know about: its change fell into a gap of the
  stream, or its answer was computed before the change and inserted after the
  invalidation. CONFIGURATION_CHANGED never precedes the invalidation, and an
  entry that is not excused does not last.
* `FileWatcher`: READY is shown only over a loaded store in every interleaving.
  `StampCovered` and `DetectsChanges` say that no version is stamped without
  being loaded, `RecoversFromError` that ERROR is left. They hold as long as
  nobody touches the file during `initialize()` and no two polling threads
  overlap; the history variable `raced` records that this happened, and
  `restored` that a missing file came back with the modification time it had
  (which only `RecoversFromError` excludes).
* `FlagdCore`: resolutions cannot tell the two assignments under the lock from an
  atomic one, and an application that resolves the reported keys again has an
  exact copy. The metadata of the last event are those of the store as long as
  no two updates have overlapped (`overlapped`).
* `FlagEvaluation`: no path returns a null or a value of another type than the
  caller's, and a rule that has named a variant is never overruled by a default.
* `Fractional`: a positive total always selects a variant of positive weight, and
  over the whole hash space each variant gets its share.
* `SsmProvider`: flags asked for one type each resolve to that type through
  evictions, expiry and races of two callers, and outdated values are gone
  eventually.
* `Ofrep`: two threads share `retry_after`: a resolution that begins during a pause
  sends nothing before it is over, while others begin, are refused or reset
  the attribute, provided that no other request was under way when the server
  asked for the pause; and nobody is refused after the latest pause.
* `UnleashProvider`: raising handlers, handlers added during an event, and
  duplicates keep no registered handler from being called. After a `shutdown`
  that met no `initialize` the status stays NOT_READY until the next one; handlers of
  PROVIDER_READY see READY; a resolution is of the type asked for, the caller's
  default, or an error.

**Why the bounds suffice.** Two timers are what one attribute cannot hold;
two initializations of `FileWatcher` make a re-initialization and an overlap of
polling threads (the theorems cover any number of them for `GrpcWatcher` and
`GrpcResolver`, where a shutdown closes the channel for good);
a cache smaller than the set of flags forces evictions; one change of each flag
lets an answer be outdated and two flags let their events queue (in
`GrpcResolver` one flag is enough to reach every step of the cache; more are a
matter of `RpcCache`, which it implements); two callers of OFREP let one reset
what the other has read, and five seconds with delays up to two let a second
pause follow the first; two handlers, one of which raises, in a list of three
have a handler behind the raising one and a duplicate; two updaters
let events overtake each other and one reader races with both of them; a hash
space of 16 with totals up to 6 divides with and without a remainder. Symmetry
is used in `FlagdCore` on threads, which the specification treats alike; it checks
no liveness.

**Fairness.** `GrpcWatcher!FairSpec` assumes that threads keep running, timers
expire, gRPC delivers states and ends an RPC whose connection is gone; nothing
is assumed of the server or of the network. `GrpcResolver!FairSpec` assumes the
same of its threads and timers. `FileWatcher!FairSpec` and
`RpcCache!FairSpec` assume that the polling and the listener thread keep
running. `SsmProvider!FairSpec` assumes that a resolution ends (the AWS client
has timeouts) and that entries of a ttl cache expire. Liveness properties
carry their environment in the premise (`<>[](chan = "READY" /\ ...)`; that
streams are renewed is `[]<>(listener = "greeted")` in `RecoverySticks`).

**Deadlock** is checked where the system can always go on (`FlagdCore`,
`SsmProvider`, `Ofrep`, `UnleashProvider`, `FlagEvaluation`); the watchers, the
RPC resolver, its cache and the fractional operator really stop, after the last shutdown or
with a result.

### What the violations show

Two runs show a disagreement of the code with its documentation:

1. *Lost change* (`FileWatcherLostChange`). A write during `initialize` is
   stamped but not loaded (`file_watcher.py:109`).
2. *Two types, one cache entry* (`SsmProviderTwoTypes`). A hit is returned
   unparsed, whatever type is asked for (`awsssm/provider.py:92`).

Further configurations beside the runs produce one counterexample each, of a
property its module states and the code does not keep (in the
last row: when a handler removes itself):

| configuration | module | property | what the counterexample shows |
|---|---|---|---|
| `GrpcWatcherOrphanTimer` | `GrpcWatcher` | `GraceEndsOnlyInLoss` | two TRANSIENT_FAILUREs in a row arm two timers; only the second one can be cancelled, and the first emits ERROR after the recovery (`grpc_watcher.py:186`; `grpc.py:210` has the same code) |
| `GrpcWatcherInitRace` | `GrpcWatcher` | `NotReadyMeansUnsynced` | `initialize` fails with "finished before data synced" after READY was announced (`:150`) |
| `GrpcWatcherReinit` | `GrpcWatcher` | `InitNeedsOpenChannel` | after `shutdown`, `initialize` succeeds at once over the closed channel (`:141`) |
| `GrpcWatcherListenerDies` | `GrpcWatcher` | `KeepsListeningAlways` | an empty metadata answer raises KeyError in the worker thread (`:261`) |
| `FlagEvaluationBoolFloat` | `MCFlagEvaluation` | `MatchesFlagType` | a boolean variant passes for a float (`flagd_core.py:228`) |
| `SsmProviderExpiry` | `MCSsmProvider` | `NoKeyError` | an entry expires between the test and the lookup (`awsssm/provider.py:61`) |
| `SsmProviderBareKey` | `MCSsmProvider` | `LeadingSlash` | a key is fetched without the leading slash its README promises (`ssm_service.py:100`) |
| `OfrepRace` | `Ofrep` | `PauseAlwaysHonoured` | a late reset or a late answer wipes out a pause (`ofrep/__init__.py:129-134`, `205`) |
| `UnleashProviderOneShot` | `UnleashProvider` | `AllCalled` | a handler that removes itself makes the loop skip the next (`unleash/events.py:72`) |

A tenth needs no configuration of its own: a file that comes back with the
modification time it had leaves the provider in ERROR (`file_watcher.py:71`);
this is what the premise `~restored` of `RecoversFromError` excludes.
`GrpcResolverOverlap` finds no error: it checks `RecoverySticks` with two timers
and two initializations, without the cache.

## 4. Proofs

The theorems have the form `Spec => []Inv`, `Spec => [][A]_vars` or
`Spec => AbstractSpec`, from the assumptions named in the modules; the few that
need more state it as a premise. All are proved by an invariant that is
inductive; TLC checked each strengthening before it was proved.

* `GrpcWatcher_proof`. `TypeCorrect`. `ReadyLoaded`: READY means a loaded store;
  the strengthening says that a listener past `UpdateStore`, the attribute
  `connected` and an `initialize` that is about to succeed each imply `loaded`.
  `FatalIsFinal`: once fatal, the listener is in no RPC. The listener itself clears
  `active`, which only `initialize` sets again, and by then `shutdown` has closed
  the channel. `StaleHasTimer`: STALE with the callback at rest over
  TRANSIENT_FAILURE implies a timer; the invariant follows the callback from
  the event to the arming. `ShutdownReachesListener` and `WorkerAlive` are the
  safety parts of `ShutdownStopsListener` and `KeepsListening`: a listener that
  is talking to the server over a closed channel has lost its RPC, also when it
  was handling a response at that moment; and an active watcher whose callback has
  dealt with READY or IDLE has a worker thread, unless an answer killed it.
* `RpcCache_proof`. `TypeCorrect`; `StaleExcused`: the invariant accounts for
  every cached version and every answer in flight: it is current, or its
  invalidation is in `events` or `pops`, or the flag is excused. `ChangedSound`:
  the event follows the last `Pop`.
* `GrpcResolver_proof`. `Implements`: each step is a step of `RpcCache`, a change
  of the timers, or leaves the cache alone. It needs one fact of the connection,
  `CallInv`: off its stream the listener has no call that could still deliver,
  so that opening a new one loses no message. From it follow `TypeCorrect`,
  `StaleExcused` and `ChangedSound`, which instantiate the theorems of
  `RpcCache_proof` under the refinement mapping instead of proving them again. Of
  the connection it proves what is proved of the watcher: `StaleHasTimer`,
  `FatalIsFinal`, `ShutdownReachesListener` and `WorkerAlive`, here without
  exception, since nothing `listen` does with a message ends its thread.
* `FileWatcher_proof`. `TypeCorrect`; `ReadyLoaded`, with the same
  strengthening over the program counters of all threads. `StampsCovered`: as long
  as nothing has raced there is one polling thread, the file stands still during
  `initialize`, and whoever is about to stamp a version has read or stored it.
  `ErrorsOutstanding`, the safety part of `RecoversFromError`: while the
  application sees ERROR, the announcement of the recovery is armed and a file
  that is present is newer than `last_modified`. The invariant rests on
  `FindAlike`: during `initialize` either all threads can load the file or none
  can, so that no thread resets what another's failure needs. `AlwaysPolled`: no
  exception ends the polling thread of a provider in use.
* `FlagdCore_proof`, the store. `CoreInv` is type correctness and the discipline of
  the lock: whoever is between two of its steps owns it, and a parsed payload
  is a configuration. From it, `Implements` (each step maps to a load, a
  resolution or a stutter of `AtomicStore`, where the load is `StoreFlags`: the
  metadata still to come already count, since nobody resolves meanwhile),
  `Followed` (every key is equal in the mirror, reported, or about to be) and
  `MetadataFollowed`.
* `FlagdCore_proof`, the evaluation. `EvaluationTyped` and `TargetingFinal` follow
  the paths of `_resolve` for any flag. `OnlyBooleanAsFloat` bounds what
  `FlagEvaluationBoolFloat` shows: a value that is not of the flag's own type is a
  boolean for a float flag, and nothing else.
* `FlagdCore_proof`, the fractional operator. `FractionalTypeCorrect`.
  `AlwaysSelects`: for every hash space, number of fractions and weights, the
  bucket is below the total weight, and `range_end` reaches the total at the end
  of the list, so that a positive total selects. `SharesHold`: the hashes that
  select a variant are those from the scaled start of its range to the scaled end
  (`Selected`, an invariant of the loop, with `ScaledBack` for the floor division),
  and their number is `weight * HashSpace / totalWeight`, off by less than one.
* `SsmProvider_proof`. `TypeCorrect`. `Typed`: when each flag is asked for with
  one type, whatever is cached was parsed as that type, and so is every answer;
  the premise is what `SsmProviderTwoTypes` violates. `KeyErrorNeedsRace` bounds
  what `SsmProviderExpiry` shows: a lookup raises KeyError only if entries expire,
  or if there are several callers and too little room for all flags.
* `Ofrep_proof`. `PauseKept`: while a pause that met no other request is in force,
  `retry_after` is that pause and nobody is past the comparison, so nobody can
  reset it or be about to send. `PauseOver`: `retry_after` is never later than
  what a server asked for. `TypeCorrect`.
* `UnleashProvider_proof`. `TypeCorrect`, with facts on lists from which one
  element is removed; `ShutdownFinal` (after a clean shutdown only a client about
  to be destroyed calls back, and `destroy` waits for it); `ReadySeen`;
  `ResolutionsTyped` (by cases of the conversion); `AllHandlersCalled` (a handler
  that is due has been called or is still ahead of the iterator; no handler is
  removed during an event).

Only model-checked: the liveness properties, since fairness and ENABLED are beyond
the prover (`LossSurfaces`, `ShutdownStopsListener`, `KeepsListening`,
`RecoverySticks`, `StaleIsTransient`, `DetectsChanges`, `RecoversFromError`,
`PollersStop`, `StaleExpires`). Of those of `GrpcWatcher` and `FileWatcher` and
of `StaleIsTransient`, the part that depends on the code rather than on
scheduling is proved: `StaleHasTimer`, `ShutdownReachesListener`, `WorkerAlive`,
`StampsCovered`, `ErrorsOutstanding`, `AlwaysPolled` and, since an entry that is
not excused has its invalidation in a queue that the listener works off,
`StaleExcused`.

## 5. Not modelled

* The facade's `enriched_context`: each READY replaces it, the hook reads it, and no
  decision depends on it. A stream renewed without an outage emits no READY and
  leaves the metadata of the earlier one in place (`grpc_watcher.py:256`).
* String and semver operators: stateless; the order of versions is the `semver`
  library's.
* The identity of cached result objects (`grpc.py:404` overwrites the reason of a
  shared one); caches that are switched off, where each resolution is on its own.
* Unleash's `_last_context`, which is written and never read.
* The flagd configuration, which is read once; the environment variable and
  Flipt providers and the OpenTelemetry hook, which keep no state; the testkit
  and the interface declarations of flagd-api.

## 6. Plan

Done: the connectors (`GrpcWatcher`, `FileWatcher`), the RPC resolver
(`RpcCache`, `GrpcResolver`), the store and the evaluation (`FlagdCore`,
`FlagEvaluation`, `Fractional`), the other providers (`SsmProvider`, `Ofrep`,
`UnleashProvider`), and proofs of the invariants and refinements of each.

Next:
1. an abstract specification of what a connector promises the SDK (a status
   that is READY only over data), and `GrpcWatcher` and `FileWatcher` shown to
   implement it;
2. `FileWatcher` composed with `FlagdCore`: two loaders, one store, the order of
   events;
3. version normalisation of `sem_ver` as an operator.
