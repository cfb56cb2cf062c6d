---------------------------- MODULE Termination ----------------------------
(* The life of one TerminationRecord of internal/termination.ts, with the    *)
(* closures of each of its attempts. An attempt that timed out leaves its    *)
(* promise behind, so the answers of several attempts, their timers and the  *)
(* retry timer overlap. Two calls leave the controller: the terminator and   *)
(* the failure observer; user code in them may settle a thenable of an       *)
(* earlier attempt there and then.                                           *)
(* X_Y is X with the slip Y in it, used only to see the properties fail.     *)
EXTENDS Naturals, FiniteSets

CONSTANTS
  RetryAttempts,    \* options.retryAttempts
  AttemptTimeout,   \* options.attemptTimeoutMs
  MaxTimerDelay,    \* MAX_TIMER_DELAY_MS of internal/lifecycle.ts
  SyncThenables     \* whether user code may settle thenables in callbacks

ASSUME TerminationAssumption ==
  /\ RetryAttempts \in Nat /\ SyncThenables \in BOOLEAN
  /\ AttemptTimeout \in Nat \ {0} /\ MaxTimerDelay \in Nat \ {0}

Attempts == 1..(RetryAttempts + 1)

VARIABLES
  record,        \* "absent", "tracked" (in the map) or "deleted"
  attempts, exhausted, retryTimer,  \* fields of the record
  attemptTimers, \* attempts whose timer is armed
  finished,      \* attempts with attemptFinished
  timedOut,      \* attempts with timedOut
  remaining,     \* time to the deadline of each attempt begun
  delay,         \* time to the firing of each attempt timer
  waiting,       \* attempts whose promise has not settled
  calling,       \* the terminator is running
  reporting,     \* onFailure is running: "no", "failure" or "then-confirm"
  succeeded      \* history: some attempt has terminated the worker

recordVars == <<record, attempts, exhausted, retryTimer>>
clockVars == <<remaining, delay>>
attemptVars == <<attemptTimers, finished, timedOut, clockVars, waiting>>
vars == <<recordVars, attemptVars, calling, reporting, succeeded>>

(* The fields of the record; an attempt times out only by finishing, and     *)
(* attempts never outnumber the one try and its retries.                     *)
TypeOK ==
  /\ record \in {"absent", "tracked", "deleted"}
  /\ attempts \in 0..(RetryAttempts + 1)
  /\ exhausted \in BOOLEAN /\ retryTimer \in BOOLEAN
  /\ attemptTimers \subseteq Attempts /\ finished \subseteq Attempts
  /\ timedOut \subseteq finished
  /\ remaining \in [Attempts -> 0..AttemptTimeout]
  /\ delay \in [Attempts -> 0..MaxTimerDelay]
  /\ waiting \subseteq Attempts
  /\ calling \in BOOLEAN /\ succeeded \in BOOLEAN
  /\ reporting \in {"no", "failure", "then-confirm"}

Init ==
  /\ record = "absent" /\ attempts = 0
  /\ exhausted = FALSE /\ retryTimer = FALSE
  /\ attemptTimers = {} /\ finished = {} /\ timedOut = {}
  /\ remaining = [i \in Attempts |-> 0] /\ delay = [i \in Attempts |-> 0]
  /\ waiting = {}
  /\ calling = FALSE /\ reporting = "no" /\ succeeded = FALSE

AtRest == ~calling /\ reporting = "no"   \* the event loop
Overdue(i) == remaining[i] = 0             \* monotonicNow() >= deadline

(* setTimeout in attempt i for the time that is left, cut to what a timer    *)
(* can hold.                                                                 *)
Arm(i) ==
  delay' = [delay EXCEPT ![i] = IF remaining[i] < MaxTimerDelay
                                THEN remaining[i] ELSE MaxTimerDelay]

-----------------------------------------------------------------------------
(* confirm and recordFailure; "timers" are the attempt timers still armed.   *)

Confirm(timers) ==
  IF record = "tracked"
  THEN /\ record' = "deleted"
       /\ retryTimer' = FALSE /\ attemptTimers' = {}
  ELSE UNCHANGED <<record, retryTimer>> /\ attemptTimers' = timers

(* The first half of recordFailure, up to its callback.                      *)
RecordFailure_OneMore(after) ==
  IF record = "tracked"
  THEN exhausted' = (attempts > RetryAttempts + 1) /\ reporting' = after
  ELSE UNCHANGED <<exhausted, reporting>>

RecordFailure(after) ==
  IF record = "tracked"
  THEN exhausted' = (attempts > RetryAttempts) /\ reporting' = after
  ELSE UNCHANGED <<exhausted, reporting>>

-----------------------------------------------------------------------------
(* The steps.                                                                *)

Quarantine ==
  /\ record = "absent" /\ record' = "tracked"
  /\ UNCHANGED <<attempts, exhausted, retryTimer, attemptVars, calling,
                 reporting, succeeded>>

(* attempt(), up to the call of the terminator: the first time by the pool,  *)
(* later by the retry timer, which may find the record gone.                 *)
Begin ==
  /\ retryTimer' = FALSE /\ exhausted' = FALSE
  /\ attempts' = attempts + 1 /\ calling' = TRUE
  /\ remaining' = [remaining EXCEPT ![attempts + 1] = AttemptTimeout]
  /\ UNCHANGED <<record, attemptTimers, finished, timedOut, delay, waiting,
                 reporting, succeeded>>

Attempt_Anyway ==
  AtRest /\ ((record = "tracked" /\ attempts = 0) \/ retryTimer) /\ Begin

Attempt ==
  AtRest /\ record = "tracked" /\ (attempts = 0 \/ retryTimer) /\ Begin

StaleRetry ==
  /\ AtRest /\ record = "deleted" /\ retryTimer
  /\ retryTimer' = FALSE
  /\ UNCHANGED <<record, attempts, exhausted, attemptVars, calling, reporting,
                 succeeded>>

TerminatorReturns ==
  /\ calling /\ calling' = FALSE /\ succeeded' = TRUE
  /\ Confirm(attemptTimers)
  /\ UNCHANGED <<attempts, exhausted, finished, timedOut, clockVars, waiting,
                 reporting>>

TerminatorThrows ==
  /\ calling /\ calling' = FALSE
  /\ RecordFailure("failure")
  /\ UNCHANGED <<record, attempts, retryTimer, attemptVars, succeeded>>

TerminatorPromises ==
  /\ calling /\ calling' = FALSE
  /\ attemptTimers' = attemptTimers \cup {attempts}
  /\ waiting' = waiting \cup {attempts}
  /\ Arm(attempts)
  /\ UNCHANGED <<recordVars, finished, timedOut, remaining, reporting,
                 succeeded>>

(* The rest of recordFailure, and of confirm when it reported a timeout.     *)
FailureReported_RetriesAnyway ==
  /\ reporting # "no" /\ reporting' = "no"
  /\ IF reporting = "then-confirm" /\ record = "tracked"
     THEN Confirm(attemptTimers)
     ELSE retryTimer' = TRUE /\ UNCHANGED <<record, attemptTimers>>
  /\ UNCHANGED <<attempts, exhausted, finished, timedOut, clockVars, waiting,
                 calling, succeeded>>

FailureReported ==
  /\ reporting # "no" /\ reporting' = "no"
  /\ IF reporting = "then-confirm" /\ record = "tracked"
     THEN Confirm(attemptTimers)
     ELSE /\ retryTimer' = (retryTimer \/ ~exhausted)
          /\ UNCHANGED <<record, attemptTimers>>
  /\ UNCHANGED <<attempts, exhausted, finished, timedOut, clockVars, waiting,
                 calling, succeeded>>

(* The closures of attempt i: its promise resolves or rejects, its timer     *)
(* fires.                                                                    *)
MaySettle(i) == i \in waiting /\ (AtRest \/ SyncThenables)

ResolvesLate_Ignored(i) ==
  /\ MaySettle(i) /\ i \in finished
  /\ waiting' = waiting \ {i} /\ succeeded' = TRUE
  /\ UNCHANGED <<recordVars, attemptTimers, finished, timedOut, clockVars,
                 calling, reporting>>

ResolvesLate(i) ==
  /\ MaySettle(i) /\ i \in finished
  /\ waiting' = waiting \ {i} /\ succeeded' = TRUE
  /\ IF i \in timedOut THEN Confirm(attemptTimers)
     ELSE UNCHANGED <<record, retryTimer, attemptTimers>>
  /\ UNCHANGED <<attempts, exhausted, finished, timedOut, clockVars, calling,
                 reporting>>

ResolvesOverdue(i) ==
  /\ MaySettle(i) /\ i \notin finished /\ Overdue(i)
  /\ waiting' = waiting \ {i} /\ succeeded' = TRUE
  /\ finished' = finished \cup {i} /\ timedOut' = timedOut \cup {i}
  /\ attemptTimers' = attemptTimers \ {i}
  /\ RecordFailure("then-confirm")
  /\ UNCHANGED <<record, attempts, retryTimer, clockVars, calling>>

Resolves(i) ==
  /\ MaySettle(i) /\ i \notin finished /\ ~Overdue(i)
  /\ waiting' = waiting \ {i} /\ succeeded' = TRUE
  /\ finished' = finished \cup {i}
  /\ Confirm(attemptTimers \ {i})
  /\ UNCHANGED <<attempts, exhausted, timedOut, clockVars, calling, reporting>>

Rejects_OverdueLost(i) ==
  /\ MaySettle(i)
  /\ waiting' = waiting \ {i}
  /\ IF i \in finished
     THEN UNCHANGED <<attemptTimers, finished, timedOut, exhausted, reporting>>
     ELSE /\ attemptTimers' = attemptTimers \ {i}
          /\ finished' = finished \cup {i} /\ UNCHANGED timedOut
          /\ IF Overdue(i) THEN UNCHANGED <<exhausted, reporting>>
             ELSE RecordFailure("failure")
  /\ UNCHANGED <<record, attempts, retryTimer, clockVars, calling, succeeded>>

Rejects(i) ==
  /\ MaySettle(i)
  /\ waiting' = waiting \ {i}
  /\ IF i \in finished
     THEN UNCHANGED <<attemptTimers, finished, timedOut, exhausted, reporting>>
     ELSE /\ attemptTimers' = attemptTimers \ {i}
          /\ finished' = finished \cup {i}
          /\ timedOut' = IF Overdue(i) THEN timedOut \cup {i} ELSE timedOut
          /\ RecordFailure("failure")
  /\ UNCHANGED <<record, attempts, retryTimer, clockVars, calling, succeeded>>

(* handleTimeout: a timer that was cut is armed again until the deadline.    *)
TimeoutFires_CutIsDeadline(i) ==
  /\ AtRest /\ i \in attemptTimers /\ delay[i] = 0
  /\ attemptTimers' = attemptTimers \ {i}
  /\ finished' = finished \cup {i} /\ timedOut' = timedOut \cup {i}
  /\ RecordFailure("failure")
  /\ UNCHANGED <<record, attempts, retryTimer, clockVars, waiting, calling,
                 succeeded>>

TimeoutFires(i) ==
  /\ AtRest /\ i \in attemptTimers /\ delay[i] = 0
  /\ IF Overdue(i)
     THEN /\ attemptTimers' = attemptTimers \ {i}
          /\ finished' = finished \cup {i} /\ timedOut' = timedOut \cup {i}
          /\ RecordFailure("failure") /\ UNCHANGED delay
     ELSE Arm(i) /\ UNCHANGED <<attemptTimers, finished, timedOut, exhausted,
                               reporting>>
  /\ UNCHANGED <<record, attempts, retryTimer, remaining, waiting, calling,
                 succeeded>>

(* Time passes, in user code too, and as long as something waits for it.     *)
Tick ==
  LET earlier(t) == [i \in Attempts |-> IF t[i] = 0 THEN 0 ELSE t[i] - 1]
  IN /\ \E i \in Attempts : remaining[i] > 0 /\ (calling \/ i \in waiting)
     /\ remaining' = earlier(remaining) /\ delay' = earlier(delay)
     /\ UNCHANGED <<recordVars, attemptTimers, finished, timedOut, waiting,
                    calling, reporting, succeeded>>

TerminatorEnds == TerminatorReturns \/ TerminatorThrows \/ TerminatorPromises

Next ==
  \/ Quarantine \/ Attempt \/ StaleRetry \/ TerminatorEnds \/ FailureReported
  \/ Tick
  \/ \E i \in Attempts :
       \/ ResolvesLate(i) \/ ResolvesOverdue(i) \/ Resolves(i) \/ Rejects(i)
       \/ TimeoutFires(i)

(* Timers fire, time passes, and calls of user code return; whether a        *)
(* terminator's promise ever settles is left open.                           *)
Fairness ==
  /\ WF_vars(Attempt) /\ WF_vars(TerminatorEnds) /\ WF_vars(FailureReported)
  /\ WF_vars(Tick) /\ \A i \in Attempts : WF_vars(TimeoutFires(i))

Spec == Init /\ [][Next]_vars /\ Fairness

-----------------------------------------------------------------------------
(* Properties.                                                               *)

(* A worker leaves the quarantine exactly when some attempt has terminated   *)
(* it, whichever attempt it was and however late: its slot is given back     *)
(* neither too early, with a live thread behind it, nor never.               *)
SuccessFrees == AtRest => (record = "deleted" <=> succeeded)

(* A worker in quarantine is exhausted or something is still to happen to    *)
(* it: the first attempt, an answer guarded by a timer, or a retry; and only *)
(* one of these, so retries never run beside an attempt that is not over.    *)
OneThingToCome ==
  AtRest /\ record = "tracked" =>
    LET open == {i \in 1..attempts : i \notin finished /\ i \in attemptTimers}
    IN IF exhausted THEN ~retryTimer /\ attemptTimers = {}
       ELSE \/ attempts = 0 /\ ~retryTimer
            \/ retryTimer /\ attemptTimers = {}
            \/ ~retryTimer /\ open = {attempts} /\ attemptTimers = open

(* No attempt is given up before its whole timeout is over, however often    *)
(* the timer that waits for it had to be cut, and an answer that came before *)
(* was never taken for a late one.                                           *)
NotEarly == \A i \in timedOut : Overdue(i)

(* Every quarantine ends in a confirmation or in exhaustion.                 *)
QuarantineEnds == record = "tracked" ~> record = "deleted" \/ exhausted

(* The record in the terms of Quarantine.                                    *)
QuarantineState ==
  CASE record = "absent" -> "none"
    [] record = "deleted" -> "gone"
    [] record = "tracked" /\ calling -> "attempting"
    [] record = "tracked" /\ ~calling /\ exhausted -> "exhausted"
    [] record = "tracked" /\ ~calling /\ ~exhausted /\ attempts = 0 ->
         "entered"
    [] record = "tracked" /\ ~calling /\ ~exhausted /\ attempts # 0
         /\ (retryTimer \/ reporting # "no") -> "retry"
    [] OTHER -> "pending"

LateSuccess ==
  /\ record = "tracked"
  /\ reporting = "then-confirm" \/ timedOut \cap waiting # {}

Promise == INSTANCE Quarantine WITH
  state <- QuarantineState, tries <- attempts, late <- LateSuccess

(* The controller keeps its promise to the pool: a worker in quarantine is   *)
(* tried a bounded number of times and leaves only when it is gone.          *)
ImplementsQuarantine == Promise!QuarantineSpec
=============================================================================
