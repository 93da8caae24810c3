-------------------------- MODULE FileWatcher_proof --------------------------
(***************************************************************************)
(* Proofs about the file connector, for any number of polling threads, of  *)
(* initializations and of versions of the file, whoever edits it when.     *)
(***************************************************************************)
EXTENDS FileWatcher, TLAPS

Flags ==
    /\ present \in BOOLEAN /\ valid \in BOOLEAN
    /\ active \in BOOLEAN /\ shouldEmitReady \in BOOLEAN
    /\ raced \in BOOLEAN /\ restored \in BOOLEAN

\* What a thread is about to store is a version it has read, and the store is
\* filled from UpdateStore on.
Loaded(t) ==
    /\ pc[t] = "update" => data[t] # Unset
    /\ pc[t] \in {"announce", "reset", "stamp"} => store # Unset

\* READY comes from a thread past UpdateStore, or from initialize() returning.
LoadedInv ==
    /\ ReadyMeansLoaded
    /\ main = "loaded" => store # Unset
    /\ \A t \in Threads : Loaded(t)

Inv == TypeOK /\ LoadedInv

-----------------------------------------------------------------------------
\* The initial state satisfies the invariant.
LEMMA InvInit == Init => Inv
<1> SUFFICES ASSUME Init PROVE Inv
  OBVIOUS
<1>1. Flags
  BY Zenon DEF Init, Flags
<1>2. TypeOK
  BY <1>1, FileAssumption DEF Init, Flags, TypeOK, Threads, PC, Loading, Versions, Unset
<1>3. LoadedInv
  BY DEF Init, LoadedInv, Loaded, ReadyMeansLoaded
<1>. QED
  BY <1>2, <1>3 DEF Inv

\* A step of _load_data keeps the invariant.
LEMMA LoadStep ==
    ASSUME Inv, NEW t \in Threads, LoadData(t)
    PROVE  Inv'
<1> USE FileAssumption DEF Inv, LoadedInv, Loaded, ReadyMeansLoaded, TypeOK, Threads,
           PC, Loading, Versions, Unset, Goto, file, sdk, attrs, local, history
<1>1. CASE Read(t)
  <2>1. Flags'
    BY <1>1, Zenon DEF Read, Flags
  <2>. QED
    BY <1>1, <2>1 DEF Read, Fail, Flags
<1>2. CASE UpdateStore(t)
  BY <1>2 DEF UpdateStore
<1>3. CASE AnnounceReady(t)
  BY <1>3 DEF AnnounceReady, Emit
<1>4. CASE ResetReady(t)
  <2>1. Flags'
    BY <1>4, Zenon DEF ResetReady, Flags
  <2>. QED
    BY <1>4, <2>1 DEF ResetReady, Flags
<1>5. CASE SetModified(t)
  BY <1>5 DEF SetModified, Fail, Again
<1>. QED
  BY <1>1, <1>2, <1>3, <1>4, <1>5 DEF LoadData

\* Every step keeps the invariant.
LEMMA InvStep == Inv /\ [Next]_vars => Inv'
<1> SUFFICES ASSUME Inv, [Next]_vars PROVE Inv'
  OBVIOUS
<1> USE FileAssumption DEF Inv, LoadedInv, Loaded, ReadyMeansLoaded, TypeOK, Threads,
           PC, Loading, Versions, Unset, Goto, file, sdk, attrs, local, history, vars
<1>1. CASE Write
  <2>1. Flags'
    BY <1>1, Zenon DEF Write, Touch, Flags
  <2>. QED
    BY <1>1, <2>1 DEF Write, Flags
<1>2. CASE Move
  <2>1. Flags'
    BY <1>2, Zenon DEF Move, Touch, Flags
  <2>. QED
    BY <1>2, <2>1 DEF Move, Flags
<1>3. ASSUME NEW p \in Pollers, Initialize(p) PROVE Inv'
  <2>1. Flags'
    BY <1>3, Zenon DEF Initialize, Flags
  <2>. QED
    BY <1>3, <2>1 DEF Initialize, Flags
<1>4. ASSUME NEW p \in Pollers, Poll(p) PROVE Inv'
  <2>1. CASE Wake(p)
    BY <2>1 DEF Wake
  <2>2. CASE Check(p)
    BY <2>2 DEF Check, Again
  <2>3. CASE HandleError(p)
    <3>1. Flags'
      BY <2>3, Zenon DEF HandleError, Flags
    <3>. QED
      BY <2>3, <3>1 DEF HandleError, Flags
  <2>4. CASE EmitError(p)
    BY <2>4 DEF EmitError, Emit, Again
  <2>5. CASE LoadData(p)
    BY <2>5, LoadStep
  <2>. QED
    BY <1>4, <2>1, <2>2, <2>3, <2>4, <2>5 DEF Poll
<1>5. CASE InitThread
  <2>1. CASE ArmReady
    <3>1. Flags'
      BY <2>1, Zenon DEF ArmReady, Flags
    <3>. QED
      BY <2>1, <3>1 DEF ArmReady, Flags
  <2>2. CASE LoadData(Main)
    BY <2>2, LoadStep
  <2>3. CASE InitOutcome
    BY <2>3 DEF InitOutcome
  <2>. QED
    BY <1>5, <2>1, <2>2, <2>3 DEF InitThread
<1>6. CASE Shutdown
  <2>1. Flags'
    BY <1>6, Zenon DEF Shutdown, Flags
  <2>. QED
    BY <1>6, <2>1 DEF Shutdown, Flags
<1>7. CASE UNCHANGED vars
  BY <1>7
<1>. QED
  BY <1>1, <1>2, <1>3, <1>4, <1>5, <1>6, <1>7 DEF Next

-----------------------------------------------------------------------------
\* Every variable keeps its type.
THEOREM TypeCorrect == Spec => []TypeOK
<1>1. Inv => TypeOK
  BY DEF Inv
<1>. QED
  BY <1>1, InvInit, InvStep, PTL DEF Spec

\* READY, from a recovering thread or from initialize(), is shown only over a
\* store that a thread has filled, however the threads interleave.
THEOREM ReadyLoaded == Spec => []ReadyMeansLoaded
<1>1. Inv => ReadyMeansLoaded
  BY DEF Inv, LoadedInv
<1>. QED
  BY <1>1, InvInit, InvStep, PTL DEF Spec

-----------------------------------------------------------------------------
(* Without a race, last_modified never gets ahead of the store.             *)

\* The thread of initialize() runs only while the SDK waits for it, and has no
\* modification time; a polling thread has asked for one.
MainInv ==
    /\ pc[Main] # "none" => main = "starting"
    /\ pc[Main] \in Loading => stamp[Main] = Unset
    /\ \A p \in Pollers : pc[p] \in Loading => stamp[p] # Unset

\* Nothing is later than the file.
NotAhead ==
    /\ lastModified <= version /\ store <= version
    /\ \A t \in Threads : stamp[t] <= version /\ data[t] <= version

\* There is one polling thread.
Alone == \A p, q \in Pollers : pc[p] # "none" /\ pc[q] # "none" => p = q

\* During initialize() the file stands still, so that whatever is read is it.
Still ==
    main \notin {"down", "up"} => \A t \in Threads :
        /\ pc[t] = "update" => data[t] = version
        /\ pc[t] \in {"announce", "reset", "stamp"} => store = version

\* A polling thread reads after it has asked for the time.
Covered ==
    /\ lastModified <= store
    /\ \A p \in Pollers :
        /\ pc[p] = "update" => lastModified <= data[p] /\ stamp[p] <= data[p]
        /\ pc[p] \in {"announce", "reset", "stamp"} => stamp[p] <= store

StampInv == MainInv /\ NotAhead /\ (~raced => Alone /\ Still /\ Covered)

\* A step of _load_data keeps it.
LEMMA StampLoad ==
    ASSUME TypeOK, StampInv, NEW t \in Threads, LoadData(t)
    PROVE  StampInv'
<1> USE FileAssumption DEF StampInv, MainInv, NotAhead, Alone, Still, Covered, TypeOK,
           Threads, PC, Loading, Versions, Unset, Goto, file, sdk, attrs, local, history
<1>1. CASE Read(t)
  BY <1>1 DEF Read, Fail
<1>2. CASE UpdateStore(t)
  BY <1>2 DEF UpdateStore
<1>3. CASE AnnounceReady(t)
  BY <1>3 DEF AnnounceReady
<1>4. CASE ResetReady(t)
  BY <1>4 DEF ResetReady
<1>5. CASE SetModified(t)
  <2>1. stamp' = [stamp EXCEPT ![t] = Unset] /\ data' = data /\ store' = store
        /\ version' = version /\ raced' = raced /\ pc[t] = "stamp"
    BY <1>5 DEF SetModified
  <2>2. CASE stamp[t] # Unset
    <3>1. lastModified' = stamp[t] /\ main' = main /\ pc' = [pc EXCEPT ![t] = Again(t)]
      BY <1>5, <2>2 DEF SetModified
    <3>2. MainInv' /\ NotAhead'
      BY <2>1, <2>2, <3>1 DEF Again
    <3>3. t # Main /\ (~raced => stamp[t] <= store)
      BY <2>1, <2>2
    <3>4. ~raced => Alone' /\ Still' /\ Covered'
      BY <2>1, <3>1, <3>3 DEF Again
    <3>. QED
      BY <2>1, <3>2, <3>4
  <2>3. CASE stamp[t] = Unset
    <3>1. \/ lastModified' = version /\ main' = "loaded" /\ pc' = [pc EXCEPT ![t] = "none"]
          \/ lastModified' = lastModified /\ Fail(t)
      BY <1>5, <2>3 DEF SetModified
    <3>2. t = Main
      BY <2>1, <2>3
    <3>3. /\ main = "starting" /\ main' \in {"loaded", "failed"}
          /\ pc' = [pc EXCEPT ![t] = "none"]
      BY <2>1, <3>1, <3>2 DEF Fail
    <3>4. MainInv' /\ NotAhead'
      BY <2>1, <2>3, <3>1, <3>2, <3>3
    <3>5. ~raced => store = version /\ lastModified' <= version
      BY <2>1, <3>1, <3>2, <3>3
    <3>6. ~raced => Alone' /\ Still' /\ Covered'
      BY <2>1, <3>2, <3>3, <3>5
    <3>. QED
      BY <2>1, <3>4, <3>6
  <2>. QED
    BY <2>2, <2>3
<1>. QED
  BY <1>1, <1>2, <1>3, <1>4, <1>5 DEF LoadData

\* Every step keeps it.
LEMMA StampStep == TypeOK /\ StampInv /\ [Next]_vars => StampInv'
<1> SUFFICES ASSUME TypeOK, StampInv, [Next]_vars PROVE StampInv'
  OBVIOUS
<1> USE FileAssumption DEF StampInv, MainInv, NotAhead, Alone, Still, Covered, TypeOK,
           Threads, PC, Loading, Versions, Unset, Goto, file, sdk, attrs, local, history,
           vars
<1>1. CASE Write
  <2>1. version' = version + 1 /\ raced' = (raced \/ main \notin {"down", "up"})
        /\ UNCHANGED <<lastModified, store, stamp, data, pc, main>>
    BY <1>1 DEF Write, Touch
  <2>2. MainInv' /\ NotAhead'
    BY <2>1
  <2>3. ~raced' => Alone' /\ Still' /\ Covered'
    BY <2>1
  <2>. QED
    BY <2>2, <2>3
<1>2. CASE Move
  BY <1>2 DEF Move, Touch
<1>3. ASSUME NEW p \in Pollers, Initialize(p) PROVE StampInv'
  BY <1>3 DEF Initialize
<1>4. ASSUME NEW p \in Pollers, Poll(p) PROVE StampInv'
  <2>1. CASE Wake(p)
    BY <2>1 DEF Wake
  <2>2. CASE Check(p)
    BY <2>2 DEF Check, Again
  <2>3. CASE HandleError(p)
    BY <2>3 DEF HandleError
  <2>4. CASE EmitError(p)
    BY <2>4 DEF EmitError, Again
  <2>5. CASE LoadData(p)
    BY <2>5, StampLoad
  <2>. QED
    BY <1>4, <2>1, <2>2, <2>3, <2>4, <2>5 DEF Poll
<1>5. CASE InitThread
  <2>1. CASE ArmReady
    BY <2>1 DEF ArmReady
  <2>2. CASE LoadData(Main)
    BY <2>2, StampLoad
  <2>3. CASE InitOutcome
    BY <2>3 DEF InitOutcome
  <2>. QED
    BY <1>5, <2>1, <2>2, <2>3 DEF InitThread
<1>6. CASE Shutdown
  BY <1>6 DEF Shutdown
<1>7. CASE UNCHANGED vars
  BY <1>7
<1>. QED
  BY <1>1, <1>2, <1>3, <1>4, <1>5, <1>6, <1>7 DEF Next

\* It holds throughout.
LEMMA StampInvariant == Spec => []StampInv
<1>1. Init => StampInv
  BY FileAssumption DEF Init, StampInv, MainInv, NotAhead, Alone, Still, Covered,
     Threads, Loading, Unset
<1>. QED
  BY <1>1, StampStep, TypeCorrect, PTL DEF Spec

\* As long as nobody touches the file during initialize() and polling threads do
\* not overlap, no version is stamped as seen before it is in the store.
THEOREM StampsCovered == Spec => []StampCovered
<1>1. StampInv => StampCovered
  BY DEF StampInv, Covered, StampCovered
<1>. QED
  BY <1>1, StampInvariant, PTL

-----------------------------------------------------------------------------
(* Recovery.  An error the application sees is outstanding: the announcement*)
(* of the recovery is armed, and the file as it is now will be read again.  *)
(* The exceptions are those of RecoversFromError, whose fairness adds that  *)
(* the polling thread keeps running.                                        *)

\* While the application of an initialized provider sees ERROR, the next file
\* that loads will be noticed and announced as READY, unless the file was touched
\* during initialize(), polling threads overlapped, or a file came back with its
\* old modification time.
RecoveryPending ==
    (~raced /\ ~restored /\ main = "up" /\ status = "ERROR")
        => shouldEmitReady /\ (present => lastModified < version)

Loadable     == present /\ valid
Initializing == main \notin {"down", "up"}
Stored       == {"update", "announce", "reset", "stamp"}

\* A version that is stamped as seen, or about to be, could be parsed.
StampsLoadable ==
    /\ lastModified = version => valid
    /\ \A p \in Pollers : pc[p] \in Stored /\ stamp[p] = version => valid

\* During initialize() all threads find the file alike: either all can load it,
\* or initialize() fails with the announcement armed.
FindAlike ==
    Initializing =>
        /\ \A t \in Threads : pc[t] \in Stored => Loadable
        /\ \A p \in Pollers : pc[p] \in {"fail", "error"} => ~Loadable
        /\ pc[Main] = "read" /\ ~Loadable => shouldEmitReady
        /\ main = "failed" => ~Loadable /\ shouldEmitReady

\* A polling thread that is about to report an error leaves it outstanding.
ErrorArmed ==
    \A p \in Pollers :
        /\ pc[p] = "error" => shouldEmitReady
        /\ pc[p] \in {"fail", "error"} /\ present => lastModified < version

\* A thread that has stored the file has replaced ERROR by READY.
Announced ==
    main = "up" /\ status = "ERROR" => \A p \in Pollers : pc[p] \notin {"reset", "stamp"}

RecoveryInv ==
    /\ RecoveryPending
    /\ ~raced /\ ~restored => StampsLoadable /\ FindAlike /\ ErrorArmed /\ Announced

\* A step of _load_data keeps it.
LEMMA RecoveryLoad ==
    ASSUME TypeOK, StampInv, RecoveryInv, NEW t \in Threads, LoadData(t)
    PROVE  RecoveryInv'
<1> USE FileAssumption DEF RecoveryInv, RecoveryPending, StampsLoadable, FindAlike, ErrorArmed,
           Announced, Loadable, Initializing, Stored, StampInv, MainInv, NotAhead, Alone, TypeOK,
           Threads, PC, Loading, Versions, Unset, Goto, file, sdk, attrs, local, history
<1>1. CASE Read(t)
  BY <1>1 DEF Read, Fail
<1>2. CASE UpdateStore(t)
  BY <1>2 DEF UpdateStore
<1>3. CASE AnnounceReady(t)
  BY <1>3 DEF AnnounceReady, Emit
<1>4. CASE ResetReady(t)
  BY <1>4 DEF ResetReady
<1>5. CASE SetModified(t)
  BY <1>5 DEF SetModified, Fail, Again
<1>. QED
  BY <1>1, <1>2, <1>3, <1>4, <1>5 DEF LoadData

\* Every step keeps it.
LEMMA RecoveryStep == TypeOK /\ StampInv /\ RecoveryInv /\ [Next]_vars => RecoveryInv'
<1> SUFFICES ASSUME TypeOK, StampInv, RecoveryInv, [Next]_vars PROVE RecoveryInv'
  OBVIOUS
<1> USE FileAssumption DEF RecoveryInv, RecoveryPending, StampsLoadable, FindAlike, ErrorArmed,
           Announced, Loadable, Initializing, Stored, StampInv, MainInv, NotAhead, Alone, TypeOK,
           Threads, PC, Loading, Versions, Unset, Goto, file, sdk, attrs, local, history, vars
<1>1. CASE Write
  BY <1>1 DEF Write, Touch
<1>2. CASE Move
  BY <1>2 DEF Move, Touch
<1>3. ASSUME NEW p \in Pollers, Initialize(p) PROVE RecoveryInv'
  BY <1>3 DEF Initialize
<1>4. ASSUME NEW p \in Pollers, Poll(p) PROVE RecoveryInv'
  <2>1. CASE Wake(p)
    BY <2>1 DEF Wake
  <2>2. CASE Check(p)
    BY <2>2 DEF Check, Again
  <2>3. CASE HandleError(p)
    BY <2>3 DEF HandleError
  <2>4. CASE EmitError(p)
    BY <2>4 DEF EmitError, Emit, Again
  <2>5. CASE LoadData(p)
    BY <2>5, RecoveryLoad
  <2>. QED
    BY <1>4, <2>1, <2>2, <2>3, <2>4, <2>5 DEF Poll
<1>5. CASE InitThread
  <2>1. CASE ArmReady
    BY <2>1 DEF ArmReady
  <2>2. CASE LoadData(Main)
    BY <2>2, RecoveryLoad
  <2>3. CASE InitOutcome
    BY <2>3 DEF InitOutcome
  <2>. QED
    BY <1>5, <2>1, <2>2, <2>3 DEF InitThread
<1>6. CASE Shutdown
  BY <1>6 DEF Shutdown
<1>7. CASE UNCHANGED vars
  BY <1>7
<1>. QED
  BY <1>1, <1>2, <1>3, <1>4, <1>5, <1>6, <1>7 DEF Next

\* While the application sees ERROR, a recovered file will be read and announced.
THEOREM ErrorsOutstanding == Spec => []RecoveryPending
<1>1. Init => RecoveryInv
  BY FileAssumption DEF Init, RecoveryInv, RecoveryPending, StampsLoadable, FindAlike, ErrorArmed,
     Announced, Initializing, Stored, Threads, Unset
<1>2. RecoveryInv => RecoveryPending
  BY DEF RecoveryInv
<1>. QED
  BY <1>1, <1>2, StampInvariant, RecoveryStep, TypeCorrect, PTL DEF Spec
-----------------------------------------------------------------------------
(* Polling.  What DetectsChanges and PollersStop owe to the code rather than *)
(* to fairness: the loop of refresh_file is left by shutdown() only.        *)

\* A provider in use has a polling thread, whatever exceptions the file causes;
\* a provider that is shut down has told its threads to end.
Polled == IF main = "down" THEN ~active ELSE \E p \in Pollers : pc[p] # "none"

PollInv ==
    /\ Polled
    /\ main # "down" => active

\* Every step of a well-typed state keeps it.
LEMMA PollStep == TypeOK /\ MainInv /\ PollInv /\ [Next]_vars => PollInv'
<1> SUFFICES ASSUME TypeOK, MainInv, PollInv, [Next]_vars PROVE PollInv'
  OBVIOUS
<1> USE FileAssumption DEF PollInv, Polled, MainInv, TypeOK, Threads, PC, Loading, Unset, Goto,
           file, sdk, attrs, local, history, vars
<1>1. CASE Write \/ Move
  BY <1>1 DEF Write, Move
<1>2. ASSUME NEW p \in Pollers, Initialize(p) PROVE PollInv'
  BY <1>2 DEF Initialize
<1>3. ASSUME NEW p \in Pollers, Wake(p) \/ Check(p) \/ HandleError(p) \/ EmitError(p)
      PROVE PollInv'
  BY <1>3 DEF Wake, Check, HandleError, EmitError, Again
<1>4. ASSUME NEW t \in Threads, LoadData(t) PROVE PollInv'
  <2>1. CASE Read(t)
    BY <2>1 DEF Read, Fail
  <2>2. CASE UpdateStore(t) \/ AnnounceReady(t) \/ ResetReady(t)
    BY <2>2 DEF UpdateStore, AnnounceReady, ResetReady
  <2>3. CASE SetModified(t)
    BY <2>3 DEF SetModified, Fail, Again
  <2>. QED
    BY <1>4, <2>1, <2>2, <2>3 DEF LoadData
<1>5. CASE ArmReady \/ InitOutcome
  BY <1>5 DEF ArmReady, InitOutcome
<1>6. CASE Shutdown
  BY <1>6 DEF Shutdown
<1>7. CASE UNCHANGED vars
  BY <1>7
<1>. QED
  BY <1>1, <1>2, <1>3, <1>4, <1>5, <1>6, <1>7 DEF Next, Poll, InitThread

\* The polling thread outlives every error, and ends only after shutdown().
THEOREM AlwaysPolled == Spec => []Polled
<1>1. Init => PollInv
  BY DEF Init, PollInv, Polled, Threads
<1>2. PollInv => Polled
  BY DEF PollInv
<1>3. StampInv => MainInv
  BY DEF StampInv
<1>. QED
  BY <1>1, <1>2, <1>3, PollStep, StampInvariant, TypeCorrect, PTL DEF Spec
=============================================================================
