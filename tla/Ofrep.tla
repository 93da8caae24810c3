-------------------------------- MODULE Ofrep --------------------------------
(***************************************************************************)
(* The OFREP provider (ofrep/__init__.py): a 429 answer makes it pause     *)
(* until retry_after.  Threads that resolve flags share that attribute     *)
(* without a lock and read it up to three times before they send.          *)
(***************************************************************************)
EXTENDS Naturals

CONSTANTS
    Callers,        \* threads that resolve flags
    MaxTime,        \* bounds the clock
    Delays,         \* the seconds a Retry-After header asks for
    Never           \* retry_after is None

ASSUME OfrepAssumption ==
    /\ MaxTime \in Nat
    /\ Delays \subseteq Nat
    /\ Never \notin Nat

VARIABLES
    clock,
    retryAfter,     \* self.retry_after
    pc,             \* [Callers -> where it is in _resolve]
    now,            \* [Callers -> the time it read when it began]
    outcome,        \* [Callers -> how its last resolution ended]
    pause,          \* history: the latest time a server asked to wait for
    raced,          \* history: it did so while another resolution was under way
    announced       \* history: [Callers -> the pause when it began, Never if raced]

history == <<pause, raced, announced>>
vars == <<clock, retryAfter, pc, now, outcome, history>>

-----------------------------------------------------------------------------
Deadlines == {t + d : t \in 0..MaxTime, d \in Delays}
Outcomes  == {"none", "value", "error", "paused", "rateLimited", "TypeError"}

TypeOK ==
    /\ clock \in 0..MaxTime
    /\ retryAfter \in Deadlines \cup {Never}
    /\ pc \in [Callers -> {"idle", "check", "compare", "elif", "clear", "post", "wait"}]
    /\ now \in [Callers -> 0..MaxTime]
    /\ outcome \in [Callers -> Outcomes]
    /\ pause \in Deadlines \cup {Never}
    /\ raced \in BOOLEAN
    /\ announced \in [Callers -> Deadlines \cup {Never}]

Init ==
    /\ clock = 0 /\ retryAfter = Never /\ pause = Never /\ raced = FALSE
    /\ pc = [c \in Callers |-> "idle"]
    /\ now = [c \in Callers |-> 0]
    /\ announced = [c \in Callers |-> Never]
    /\ outcome = [c \in Callers |-> "none"]

Goto(c, where) == pc' = [pc EXCEPT ![c] = where]

End(c, how) ==
    /\ Goto(c, "idle")
    /\ outcome' = [outcome EXCEPT ![c] = how]

Tick ==
    /\ clock < MaxTime
    /\ clock' = clock + 1
    /\ UNCHANGED <<retryAfter, pc, now, outcome, history>>

-----------------------------------------------------------------------------
(* _resolve, by caller c.                                                   *)

Begin(c) ==
    /\ pc[c] = "idle"
    /\ now' = [now EXCEPT ![c] = clock]
    /\ announced' = [announced EXCEPT ![c] = IF raced THEN Never ELSE pause]
    /\ Goto(c, "check")
    /\ UNCHANGED <<clock, retryAfter, outcome, pause, raced>>

\* "if self.retry_after"
Check(c) ==
    /\ pc[c] = "check"
    /\ Goto(c, IF retryAfter = Never THEN "elif" ELSE "compare")
    /\ UNCHANGED <<clock, retryAfter, now, outcome, history>>

\* Mutant of Compare: the last moment of the pause does not count.
CompareStrict(c) ==
    /\ pc[c] = "compare"
    /\ IF retryAfter = Never THEN End(c, "TypeError")
       ELSE IF now[c] < retryAfter THEN End(c, "paused")
       ELSE Goto(c, "elif") /\ UNCHANGED outcome
    /\ UNCHANGED <<clock, retryAfter, now, history>>

\* Mutant of Compare: the comparison is the wrong way round.
CompareInverted(c) ==
    /\ pc[c] = "compare"
    /\ IF retryAfter = Never THEN End(c, "TypeError")
       ELSE IF now[c] >= retryAfter THEN End(c, "paused")
       ELSE Goto(c, "elif") /\ UNCHANGED outcome
    /\ UNCHANGED <<clock, retryAfter, now, history>>

\* "and now <= self.retry_after": comparing with None raises TypeError.
Compare(c) ==
    /\ pc[c] = "compare"
    /\ \/ /\ retryAfter = Never
          /\ End(c, "TypeError")
       \/ /\ retryAfter # Never /\ now[c] <= retryAfter
          /\ End(c, "paused")
       \/ /\ retryAfter # Never /\ now[c] > retryAfter
          /\ Goto(c, "elif")
          /\ UNCHANGED outcome
    /\ UNCHANGED <<clock, retryAfter, now, history>>

\* "elif self.retry_after" reads it once more.
Elif(c) ==
    /\ pc[c] = "elif"
    /\ Goto(c, IF retryAfter = Never THEN "post" ELSE "clear")
    /\ UNCHANGED <<clock, retryAfter, now, outcome, history>>

Clear(c) ==
    /\ pc[c] = "clear"
    /\ retryAfter' = Never
    /\ Goto(c, "post")
    /\ UNCHANGED <<clock, now, outcome, history>>

\* The request leaves.
Post(c) ==
    /\ pc[c] = "post"
    /\ Goto(c, "wait")
    /\ UNCHANGED <<clock, retryAfter, now, outcome, history>>

\* A value, or any failure but 429.
Answered(c) ==
    /\ pc[c] = "wait"
    /\ \E how \in {"value", "error"} : End(c, how)
    /\ UNCHANGED <<clock, retryAfter, now, history>>

\* A pause until t is asked for; an earlier one that is still in force and that
\* another resolution raced with stays raced.
Announce(c, t) ==
    /\ pause' = IF pause # Never /\ pause > t THEN pause ELSE t
    /\ raced' = \/ \E d \in Callers \ {c} : pc[d] # "idle"
                \/ raced /\ pause # Never /\ clock <= pause
    /\ UNCHANGED announced

\* Mutant of TooManyRequests: the header's seconds are taken for milliseconds.
TooManyRequestsMillis(c) ==
    /\ pc[c] = "wait"
    /\ End(c, "rateLimited")
    /\ \E d \in Delays : retryAfter' = clock + 1000 * d /\ Announce(c, clock + d)
    /\ UNCHANGED <<clock, now>>

\* 429: retry_after is set to what the header says, None without one.
TooManyRequests(c) ==
    /\ pc[c] = "wait"
    /\ End(c, "rateLimited")
    /\ \/ \E d \in Delays : retryAfter' = clock + d /\ Announce(c, clock + d)
       \/ retryAfter' = Never /\ UNCHANGED history
    /\ UNCHANGED <<clock, now>>

-----------------------------------------------------------------------------
Resolve(c) ==
    \/ Begin(c) \/ Check(c) \/ Compare(c) \/ Elif(c) \/ Clear(c)
    \/ Post(c) \/ Answered(c) \/ TooManyRequests(c)

Next == Tick \/ \E c \in Callers : Resolve(c)

Spec == Init /\ [][Next]_vars

-----------------------------------------------------------------------------
(* Properties.                                                              *)

\* "OFREP evaluation paused due to TooManyRequests until {self.retry_after}": a
\* resolution that begins during a pause sends nothing before it is over, also
\* while others begin, are refused or reset retry_after; all that is needed is
\* that no other request was under way when the server asked for the pause.
PauseHonoured ==
    \A c \in Callers :
        pc[c] \in {"post", "wait"} /\ announced[c] # Never => clock > announced[c]

\* The same without that condition, which the code violates: a resolution under
\* way resets the pause, or its own answer shortens it.
PauseAlwaysHonoured ==
    \A c \in Callers :
        pc[c] = "post" /\ pause # Never => now[c] > pause \/ clock > pause

\* A pause is over when its time has come: a resolution that is refused began
\* no later than the last time a server asked to wait for.
PauseEnds ==
    [][\A c \in Callers :
          pc[c] = "compare" /\ pc'[c] = "idle" /\ outcome'[c] = "paused"
             => pause # Never /\ now[c] <= pause]_vars
=============================================================================
