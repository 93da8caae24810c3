------------------------------ MODULE Ofrep_proof ------------------------------
(***************************************************************************)
(* Proofs about the OFREP provider's pause, for any number of threads and  *)
(* any delays.                                                             *)
(***************************************************************************)
EXTENDS Ofrep, TLAPS

\* The pause is in force and was asked for when nobody else was under way.
InForce == ~raced /\ pause # Never /\ clock <= pause

\* While it is in force, retry_after is that pause and nobody gets past the
\* comparison.
Refused ==
    InForce => /\ retryAfter = pause
               /\ \A c \in Callers : pc[c] \in {"idle", "check", "compare"}

\* A resolution that began during such a pause is still in it until it is over.
Began ==
    \A c \in Callers :
        pc[c] # "idle" /\ announced[c] # Never /\ clock <= announced[c]
            => ~raced /\ pause = announced[c]

\* retry_after is never later than what a server asked for; nobody is ahead of
\* the clock.
Bounded ==
    /\ retryAfter # Never => pause # Never /\ retryAfter <= pause
    /\ \A c \in Callers : now[c] <= clock

Inv == TypeOK /\ Refused /\ Began /\ Bounded

-----------------------------------------------------------------------------
\* Deadlines are natural numbers, and Never is none.
LEMMA DeadlineTypes ==
    /\ Deadlines \subseteq Nat /\ Never \notin Nat
    /\ \A t \in 0..MaxTime, d \in Delays : t + d \in Deadlines
  BY OfrepAssumption DEF Deadlines

\* The initial state satisfies the invariant.
LEMMA InvInit == Init => Inv
<1> SUFFICES ASSUME Init PROVE Inv
  OBVIOUS
<1>0. raced \in BOOLEAN
  BY Zenon DEF Init
<1>1. TypeOK
  BY <1>0, OfrepAssumption DEF Init, TypeOK, Outcomes
<1>. QED
  BY <1>1, OfrepAssumption DEF Init, Inv, TypeOK, Refused, InForce, Began, Bounded

\* A step of a resolution keeps the types.
LEMMA TypeStep == ASSUME TypeOK, NEW c \in Callers, Resolve(c) PROVE TypeOK'
<1> USE DeadlineTypes, OfrepAssumption DEF TypeOK, Goto, End, Outcomes, history
<1>1. CASE Begin(c)
  BY <1>1 DEF Begin
<1>2. CASE Check(c)
  BY <1>2 DEF Check
<1>3. CASE Compare(c)
  BY <1>3 DEF Compare
<1>4. CASE Elif(c)
  BY <1>4 DEF Elif
<1>5. CASE Clear(c)
  BY <1>5 DEF Clear
<1>6. CASE Post(c)
  BY <1>6 DEF Post
<1>7. CASE Answered(c)
  BY <1>7 DEF Answered
<1>8. CASE TooManyRequests(c)
  <2>1. raced' \in BOOLEAN
    BY <1>8, Zenon DEF TooManyRequests, Announce
  <2>2. /\ retryAfter' \in Deadlines \cup {Never}
        /\ pause' \in Deadlines \cup {Never} /\ announced' = announced
    <3>1. ASSUME NEW d \in Delays, Announce(c, clock + d)
          PROVE  pause' \in Deadlines \cup {Never} /\ announced' = announced
      <4>1. pause' \in {pause, clock + d} /\ announced' = announced
        BY <3>1, Zenon DEF Announce
      <4>. QED
        BY <4>1
    <3>2. retryAfter' \in Deadlines \cup {Never}
      BY <1>8 DEF TooManyRequests
    <3>. QED
      BY <1>8, <3>1, <3>2 DEF TooManyRequests
  <2>. QED
    BY <1>8, <2>1, <2>2 DEF TooManyRequests
<1>. QED
  BY <1>1, <1>2, <1>3, <1>4, <1>5, <1>6, <1>7, <1>8 DEF Resolve

\* A step of a resolution keeps the rest of the invariant.
LEMMA PauseStep == ASSUME Inv, NEW c \in Callers, Resolve(c) PROVE Inv'
<1> USE DeadlineTypes, OfrepAssumption
    DEF Inv, TypeOK, Refused, InForce, Began, Bounded, Goto, End, history
<1>0. TypeOK'
  BY TypeStep
<1>1. CASE Begin(c)
  BY <1>0, <1>1 DEF Begin
<1>2. CASE Check(c)
  BY <1>0, <1>2 DEF Check
<1>3. CASE Compare(c)
  BY <1>0, <1>3 DEF Compare
<1>4. CASE Elif(c)
  BY <1>0, <1>4 DEF Elif
<1>5. CASE Clear(c)
  BY <1>0, <1>5 DEF Clear
<1>6. CASE Post(c)
  BY <1>0, <1>6 DEF Post
<1>7. CASE Answered(c)
  BY <1>0, <1>7 DEF Answered
<1>8. CASE TooManyRequests(c)
  <2>1. ~InForce
    BY <1>8 DEF TooManyRequests
  <2>2. CASE retryAfter' = Never /\ UNCHANGED history
    BY <1>0, <1>8, <2>1, <2>2 DEF TooManyRequests
  <2>3. ASSUME NEW d \in Delays, retryAfter' = clock + d, Announce(c, clock + d)
        PROVE  Inv'
    <3>1. ASSUME InForce'
          PROVE  /\ \A b \in Callers : pc'[b] = "idle"
                 /\ pause' = retryAfter'
      BY <1>8, <2>1, <2>3, <3>1 DEF TooManyRequests, Announce
    <3>2. Began'
      BY <1>8, <2>1, <2>3 DEF TooManyRequests, Announce
    <3>. QED
      BY <1>0, <1>8, <2>3, <3>1, <3>2 DEF TooManyRequests, Announce
  <2>. QED
    BY <1>8, <2>2, <2>3 DEF TooManyRequests
<1>. QED
  BY <1>1, <1>2, <1>3, <1>4, <1>5, <1>6, <1>7, <1>8 DEF Resolve

\* Every step keeps the invariant.
LEMMA InvStep == Inv /\ [Next]_vars => Inv'
<1> SUFFICES ASSUME Inv, [Next]_vars PROVE Inv'
  OBVIOUS
<1> USE DEF Inv, TypeOK, Refused, InForce, Began, Bounded
<1>1. CASE Tick
  <2> USE <1>1, OfrepAssumption, DeadlineTypes DEF Tick, history
  <2>1. clock' \in 0..MaxTime /\ clock' = clock + 1
    OBVIOUS
  <2>2. TypeOK'
    BY <2>1
  <2>3. Refused' /\ Bounded'
    BY <2>1
  <2>4. Began'
    <3> SUFFICES ASSUME NEW c \in Callers, pc[c] # "idle", announced[c] # Never,
                        clock + 1 <= announced[c]
                 PROVE  ~raced /\ pause = announced[c]
      BY <2>1
    <3>1. announced[c] \in Deadlines
      OBVIOUS
    <3>2. announced[c] \in Nat
      BY ONLY <3>1, DeadlineTypes, Zenon
    <3>. QED
      BY <3>2
  <2>. QED
    BY <2>2, <2>3, <2>4
<1>2. CASE UNCHANGED vars
  BY <1>2 DEF vars, history
<1>. QED
  BY <1>1, <1>2, PauseStep DEF Next

-----------------------------------------------------------------------------
\* TypeOK holds in every reachable state, for any threads and delays.
THEOREM TypeCorrect == Spec => []TypeOK
<1>1. Inv => TypeOK
  BY DEF Inv
<1>. QED
  BY <1>1, InvInit, InvStep, PTL DEF Spec

\* No request leaves during a pause that a server asked for while no other was
\* under way, however many threads resolve flags.
THEOREM PauseKept == Spec => []PauseHonoured
<1>1. Inv => PauseHonoured
  <2> SUFFICES ASSUME Inv, NEW c \in Callers, pc[c] \in {"post", "wait"},
                      announced[c] # Never
               PROVE  clock > announced[c]
    BY DEF PauseHonoured
  <2>1. clock \in Nat /\ announced[c] \in Nat
    <3>1. announced[c] \in Deadlines
      BY DEF Inv, TypeOK
    <3>2. announced[c] \in Nat
      BY <3>1, DeadlineTypes, Zenon
    <3>. QED
      BY <3>2, OfrepAssumption DEF Inv, TypeOK
  <2>2. ~(clock <= announced[c])
    BY <2>1 DEF Inv, Refused, InForce, Began
  <2>. QED
    BY <2>1, <2>2
<1>. QED
  BY <1>1, InvInit, InvStep, PTL DEF Spec

\* Nobody is refused after the latest time a server asked to wait for.
THEOREM PauseOver == Spec => PauseEnds
<1>1. Inv /\ [Next]_vars =>
        [\A c \in Callers :
            pc[c] = "compare" /\ pc'[c] = "idle" /\ outcome'[c] = "paused"
               => pause # Never /\ now[c] <= pause]_vars
  <2> SUFFICES ASSUME Inv, Next, NEW c \in Callers,
                      pc[c] = "compare", pc'[c] = "idle", outcome'[c] = "paused"
               PROVE  pause # Never /\ now[c] <= pause
    OBVIOUS
  <2>1. Compare(c)
    BY DEF Next, Tick, Resolve, Begin, Check, Compare, Elif, Clear, Post, Answered,
           TooManyRequests, Goto, End, Inv, TypeOK
  <2>2. outcome'[c] = "paused" => ~End(c, "TypeError")
    BY DEF End, Inv, TypeOK
  <2>3. retryAfter # Never /\ now[c] <= retryAfter
    BY <2>1, <2>2 DEF Compare, Goto, Inv, TypeOK
  <2>4. retryAfter \in Nat /\ now[c] \in Nat /\ (pause # Never => pause \in Nat)
    BY <2>3, DeadlineTypes DEF Inv, TypeOK
  <2>. QED
    BY <2>3, <2>4 DEF Inv, Bounded
<1>. QED
  BY <1>1, InvInit, InvStep, PTL DEF Spec, PauseEnds
================================================================================
