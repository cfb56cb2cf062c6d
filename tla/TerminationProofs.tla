------------------------- MODULE TerminationProofs -------------------------
(* Proofs about the termination controller for every number of retries,      *)
(* every timeout and every limit of the timers: a slot is given back exactly *)
(* when the worker is gone, a quarantined worker always has something to     *)
(* come, and the controller implements the Quarantine the pool relies on.    *)
EXTENDS Termination, TLAPS

-----------------------------------------------------------------------------
(* The inductive invariant.                                                  *)

(* Where the closures of the attempts stand. Only the latest attempt can be  *)
(* timed, and one that is finished but not settled has timed out.            *)
AttemptsInOrder ==
  /\ record = "absent" =>
       attempts = 0 /\ ~calling /\ reporting = "no" /\ ~succeeded
  /\ attempts = 0 => ~exhausted /\ ~retryTimer /\ reporting = "no"
  /\ waiting \subseteq 1..attempts /\ finished \subseteq 1..attempts
  /\ attemptTimers \subseteq waiting /\ attemptTimers \cap finished = {}
  /\ attemptTimers \subseteq {attempts}
  /\ waiting \cap finished \subseteq timedOut
  /\ calling => /\ attempts # 0 /\ reporting = "no"
                /\ attempts \notin waiting /\ attempts \notin finished

(* A record in the map is in exactly one of its phases: the first attempt is *)
(* due, the terminator is running, an attempt is waited for, its failure is  *)
(* reported, a retry is due, or nothing is.                                  *)
OnePhase ==
  record = "tracked" =>
    /\ waiting \subseteq finished \cup attemptTimers
    /\ calling \/ reporting # "no" => attemptTimers = {} /\ ~retryTimer
    /\ calling => ~exhausted
    /\ reporting # "no" => (exhausted <=> attempts > RetryAttempts)
    /\ AtRest =>
         \/ exhausted /\ ~retryTimer /\ attemptTimers = {}
         \/ ~exhausted /\ attempts = 0
         \/ /\ ~exhausted /\ attempts # 0 /\ attempts <= RetryAttempts
            /\ retryTimer /\ attemptTimers = {}
         \/ ~exhausted /\ attempts # 0 /\ ~retryTimer /\ attemptTimers = {attempts}

(* A success that is not yet acted upon waits for its timeout to be reported.*)
SuccessPending ==
  /\ record = "deleted" => succeeded
  /\ succeeded =>
       record = "deleted" \/ (record = "tracked" /\ reporting = "then-confirm")
  /\ reporting = "then-confirm" => succeeded

IInv == TypeOK /\ AttemptsInOrder /\ OnePhase /\ SuccessPending /\ NotEarly

-----------------------------------------------------------------------------
(* The operators that several steps share.                                   *)

(* recordFailure() leaves its flag a Boolean.                                *)
LEMMA RecordFailureType ==
  ASSUME TypeOK, NEW after \in {"failure", "then-confirm"},
         RecordFailure(after)
  PROVE  /\ exhausted' \in BOOLEAN
         /\ reporting' \in {"no", "failure", "then-confirm"}
<1>1. CASE record = "tracked"
  <2>1. exhausted' = (attempts > RetryAttempts) /\ reporting' = after
    BY <1>1 DEF RecordFailure
  <2> QED  BY <2>1
<1>2. CASE record # "tracked"
  BY <1>2 DEF RecordFailure, TypeOK
<1> QED  BY <1>1, <1>2

(* Setting one of the clocks keeps it one.                                   *)
LEMMA ClockType ==
  ASSUME NEW limit \in Nat, NEW clock \in [Attempts -> 0..limit],
         NEW i, NEW time \in 0..limit
  PROVE  [clock EXCEPT ![i] = time] \in [Attempts -> 0..limit]
OBVIOUS

(* So does the time that a timer is given.                                   *)
LEMMA ArmType ==
  ASSUME TypeOK, NEW i \in Attempts, Arm(i)
  PROVE  delay' \in [Attempts -> 0..MaxTimerDelay]
<1> DEFINE time == IF remaining[i] < MaxTimerDelay
                   THEN remaining[i] ELSE MaxTimerDelay
<1>1. remaining[i] \in Nat /\ MaxTimerDelay \in Nat
  BY TerminationAssumption DEF TypeOK
<1>2. time \in 0..MaxTimerDelay
  BY <1>1
<1> QED  BY <1>1, <1>2, ClockType DEF Arm, TypeOK

-----------------------------------------------------------------------------
(* Each step keeps the invariant.                                            *)

LEMMA QuarantineKeeps == ASSUME IInv, Quarantine PROVE IInv'
<1> USE TerminationAssumption DEF IInv, Quarantine, recordVars, attemptVars, clockVars
<1>1. TypeOK'  BY DEF TypeOK
<1>2. AttemptsInOrder'  BY DEF TypeOK, AttemptsInOrder
<1>3. OnePhase'  BY DEF TypeOK, AttemptsInOrder, OnePhase, AtRest
<1>4. SuccessPending'  BY DEF AttemptsInOrder, SuccessPending
<1>5. NotEarly'  BY DEF NotEarly, Overdue
<1> QED  BY <1>1, <1>2, <1>3, <1>4, <1>5

LEMMA AttemptKeeps == ASSUME IInv, Attempt PROVE IInv'
<1>1. attempts \in 0..RetryAttempts /\ record = "tracked" /\ AtRest
  BY TerminationAssumption DEF IInv, TypeOK, OnePhase, AttemptsInOrder, Attempt
<1>2. /\ ~retryTimer' /\ ~exhausted' /\ attempts' = attempts + 1 /\ calling'
      /\ remaining' = [remaining EXCEPT ![attempts + 1] = AttemptTimeout]
      /\ UNCHANGED <<record, attemptTimers, finished, timedOut, delay, waiting,
                     reporting, succeeded>>
  BY DEF Attempt, Begin
<1>3. TypeOK'
  <2>1. remaining' \in [Attempts -> 0..AttemptTimeout]
    <3>1. remaining \in [Attempts -> 0..AttemptTimeout]
      BY DEF IInv, TypeOK
    <3>2. AttemptTimeout \in Nat /\ AttemptTimeout \in 0..AttemptTimeout
      BY TerminationAssumption
    <3> QED  BY <1>2, <3>1, <3>2, ClockType
  <2>2. /\ retryTimer' = FALSE /\ exhausted' = FALSE /\ calling' = TRUE
        /\ attempts' \in 0..(RetryAttempts + 1)
    BY <1>1, <1>2, TerminationAssumption DEF Attempt, Begin
  <2> QED  BY <1>2, <2>1, <2>2 DEF IInv, TypeOK
<1>4. attemptTimers = {}
  BY <1>1 DEF IInv, OnePhase, AttemptsInOrder, TypeOK, Attempt
<1>5. AttemptsInOrder'
  BY <1>1, <1>2, <1>4 DEF IInv, TypeOK, AttemptsInOrder, AtRest
<1>6. OnePhase'
  BY <1>1, <1>2, <1>4 DEF IInv, OnePhase, AtRest
<1>7. SuccessPending'
  BY <1>2 DEF IInv, SuccessPending
<1>8. NotEarly'
  <2>1. attempts + 1 \notin timedOut
    BY <1>1 DEF IInv, TypeOK, AttemptsInOrder
  <2> QED  BY <1>2, <2>1 DEF IInv, NotEarly, Overdue, TypeOK
<1> QED  BY <1>3, <1>5, <1>6, <1>7, <1>8 DEF IInv

LEMMA StaleRetryKeeps == ASSUME IInv, StaleRetry PROVE IInv'
<1> USE TerminationAssumption DEF IInv, StaleRetry, attemptVars, clockVars
<1>1. TypeOK'  BY DEF TypeOK
<1>2. AttemptsInOrder'  BY DEF AttemptsInOrder
<1>3. OnePhase'  BY DEF OnePhase
<1>4. SuccessPending'  BY DEF SuccessPending
<1>5. NotEarly'  BY DEF NotEarly, Overdue
<1> QED  BY <1>1, <1>2, <1>3, <1>4, <1>5

LEMMA TerminatorEndsKeeps == ASSUME IInv, TerminatorEnds PROVE IInv'
<1> USE TerminationAssumption DEF IInv, recordVars, attemptVars, clockVars
<1>1. CASE TerminatorReturns
  <2> USE <1>1 DEF TerminatorReturns, Confirm
  <2>1. TypeOK'  BY DEF TypeOK
  <2>2. AttemptsInOrder'  BY DEF TypeOK, AttemptsInOrder
  <2>3. OnePhase'  BY DEF TypeOK, OnePhase
  <2>4. SuccessPending'  BY DEF TypeOK, AttemptsInOrder, SuccessPending
  <2>5. NotEarly'  BY DEF NotEarly, Overdue
  <2> QED  BY <2>1, <2>2, <2>3, <2>4, <2>5
<1>2. CASE TerminatorThrows
  <2> USE <1>2 DEF TerminatorThrows, RecordFailure
  <2>1. TypeOK'
    <3>1. exhausted' \in BOOLEAN  BY RecordFailureType
    <3> QED  BY <3>1 DEF TypeOK
  <2>2. AttemptsInOrder'  BY DEF TypeOK, AttemptsInOrder
  <2>3. OnePhase'  BY DEF TypeOK, AttemptsInOrder, OnePhase, AtRest
  <2>4. SuccessPending'  BY DEF TypeOK, AttemptsInOrder, SuccessPending
  <2>5. NotEarly'  BY DEF NotEarly, Overdue
  <2> QED  BY <2>1, <2>2, <2>3, <2>4, <2>5
<1>3. CASE TerminatorPromises
  <2> USE <1>3 DEF TerminatorPromises, Arm
  <2>1. attempts \in Attempts
    BY DEF TypeOK, AttemptsInOrder, Attempts
  <2>2. TypeOK'
    <3>1. delay' \in [Attempts -> 0..MaxTimerDelay]
      BY <2>1, ArmType
    <3> QED  BY <2>1, <3>1 DEF TypeOK
  <2>3. AttemptsInOrder'  BY <2>1 DEF TypeOK, AttemptsInOrder, OnePhase
  <2>4. OnePhase'  BY <2>1 DEF TypeOK, AttemptsInOrder, OnePhase, AtRest
  <2>5. SuccessPending'  BY DEF SuccessPending
  <2>6. NotEarly'  BY DEF NotEarly, Overdue
  <2> QED  BY <2>2, <2>3, <2>4, <2>5, <2>6
<1> QED  BY <1>1, <1>2, <1>3 DEF TerminatorEnds

LEMMA FailureReportedKeeps == ASSUME IInv, FailureReported PROVE IInv'
<1> USE TerminationAssumption DEF IInv, FailureReported, Confirm, clockVars
<1>1. TypeOK'  BY DEF TypeOK
<1>2. AttemptsInOrder'  BY DEF TypeOK, AttemptsInOrder
<1>3. OnePhase'
  <2>1. CASE record' # "tracked"
    BY <2>1 DEF OnePhase
  <2>2. CASE record' = "tracked"
    <3>1. /\ record = "tracked" /\ retryTimer' = ~exhausted
          /\ attemptTimers = {} /\ attemptTimers' = {} /\ ~calling
          /\ exhausted <=> attempts > RetryAttempts
          /\ UNCHANGED <<exhausted, attempts, waiting, finished>>
      BY <2>2 DEF TypeOK, AttemptsInOrder, OnePhase
    <3>2. attempts \in Nat /\ exhausted \in BOOLEAN /\ attempts # 0
      BY DEF TypeOK, AttemptsInOrder
    <3>3. ~exhausted => attempts <= RetryAttempts
      BY <3>1, <3>2
    <3>4. CASE exhausted
      BY <3>1, <3>2, <3>4 DEF OnePhase, AtRest
    <3>5. CASE ~exhausted
      <4>1. ~exhausted' /\ attempts' <= RetryAttempts
            /\ attempts' # 0 /\ ~calling' /\ reporting' = "no"
        BY <3>1, <3>2, <3>3, <3>5
      <4>3. retryTimer'
        BY <3>1, <3>5
      <4>2. waiting' \subseteq finished' \cup attemptTimers'
        BY <3>1 DEF OnePhase
      <4> QED  BY <3>1, <4>1, <4>2, <4>3 DEF OnePhase, AtRest
    <3> QED  BY <3>4, <3>5
  <2> QED  BY <2>1, <2>2
<1>4. SuccessPending'  BY DEF TypeOK, AttemptsInOrder, SuccessPending
<1>5. NotEarly'  BY DEF NotEarly, Overdue
<1> QED  BY <1>1, <1>2, <1>3, <1>4, <1>5

(* The answer of an attempt that is not finished: its record, if it is still *)
(* in the map, waits for that attempt and nothing else.                      *)
LEMMA WaitsForLatest ==
  ASSUME IInv, record = "tracked", NEW i \in waiting, i \notin finished
  PROVE  /\ AtRest /\ attemptTimers = {i} /\ i = attempts /\ attempts # 0
         /\ ~retryTimer /\ ~exhausted
BY DEF IInv, TypeOK, AttemptsInOrder, OnePhase, AtRest

LEMMA TickKeeps == ASSUME IInv, Tick PROVE IInv'
<1> USE TerminationAssumption DEF IInv, Tick, recordVars
<1>1. TypeOK'  BY DEF TypeOK
<1>2. AttemptsInOrder'  BY DEF AttemptsInOrder
<1>3. OnePhase'  BY DEF OnePhase, AtRest
<1>4. SuccessPending'  BY DEF SuccessPending
<1>5. NotEarly'  BY DEF TypeOK, NotEarly, Overdue
<1> QED  BY <1>1, <1>2, <1>3, <1>4, <1>5

LEMMA ResolvesKeeps ==
  ASSUME IInv, NEW i \in Attempts,
         ResolvesLate(i) \/ ResolvesOverdue(i) \/ Resolves(i)
  PROVE  IInv'
<1> USE TerminationAssumption DEF IInv, MaySettle, recordVars, attemptVars, clockVars
<1>0. record # "absent"
  BY DEF AttemptsInOrder, TypeOK, ResolvesLate, ResolvesOverdue, Resolves
<1>1. CASE ResolvesLate(i)
  <2> USE <1>1 DEF ResolvesLate, Confirm
  <2>1. TypeOK'  BY DEF TypeOK
  <2>2. AttemptsInOrder'
    <3>1. /\ attemptTimers' \subseteq attemptTimers \ {i}
          /\ retryTimer' => retryTimer
          /\ record' = "absent" => record = "absent"
      BY DEF AttemptsInOrder
    <3> QED  BY <1>0, <3>1 DEF TypeOK, AttemptsInOrder
  <2>3. OnePhase'  BY DEF TypeOK, AttemptsInOrder, OnePhase, AtRest
  <2>4. SuccessPending'  BY <1>0 DEF TypeOK, AttemptsInOrder, SuccessPending
  <2>5. NotEarly'  BY DEF NotEarly, Overdue
  <2> QED  BY <2>1, <2>2, <2>3, <2>4, <2>5
<1>2. CASE ResolvesOverdue(i)
  <2> USE <1>2 DEF ResolvesOverdue, RecordFailure
  <2>1. TypeOK'
    <3>1. exhausted' \in BOOLEAN /\ reporting' \in {"no", "failure", "then-confirm"}
      BY RecordFailureType
    <3> QED  BY <3>1 DEF TypeOK
  <2>2. AttemptsInOrder'
    BY WaitsForLatest DEF TypeOK, AttemptsInOrder, OnePhase, AtRest
  <2>3. OnePhase'
    BY WaitsForLatest DEF TypeOK, AttemptsInOrder, OnePhase, AtRest
  <2>4. SuccessPending'  BY <1>0 DEF TypeOK, AttemptsInOrder, SuccessPending
  <2>5. NotEarly'  BY DEF NotEarly, Overdue
  <2> QED  BY <2>1, <2>2, <2>3, <2>4, <2>5
<1>3. CASE Resolves(i)
  <2> USE <1>3 DEF Resolves, Confirm
  <2>1. TypeOK'  BY DEF TypeOK
  <2>2. AttemptsInOrder'
    <3>1. /\ attemptTimers' \subseteq attemptTimers \ {i}
          /\ retryTimer' => retryTimer
          /\ record' = "absent" => record = "absent"
      BY DEF AttemptsInOrder
    <3> QED  BY <1>0, <3>1 DEF TypeOK, AttemptsInOrder
  <2>3. OnePhase'  BY <1>0 DEF TypeOK, OnePhase
  <2>4. SuccessPending'  BY <1>0 DEF TypeOK, AttemptsInOrder, SuccessPending
  <2>5. NotEarly'  BY DEF NotEarly, Overdue
  <2> QED  BY <2>1, <2>2, <2>3, <2>4, <2>5
<1> QED  BY <1>1, <1>2, <1>3

LEMMA RejectsKeeps ==
  ASSUME IInv, NEW i \in Attempts, Rejects(i)
  PROVE  IInv'
<1> USE TerminationAssumption
    DEF IInv, Rejects, RecordFailure, MaySettle, recordVars, attemptVars, clockVars
<1>1. TypeOK'
  <2>1. exhausted' \in BOOLEAN /\ reporting' \in {"no", "failure", "then-confirm"}
    BY RecordFailureType DEF TypeOK
  <2> QED  BY <2>1 DEF TypeOK
<1>2. AttemptsInOrder'
  BY WaitsForLatest DEF TypeOK, AttemptsInOrder, OnePhase, AtRest
<1>3. OnePhase'
  BY WaitsForLatest DEF TypeOK, AttemptsInOrder, OnePhase, AtRest
<1>4. SuccessPending'
  BY WaitsForLatest DEF TypeOK, AttemptsInOrder, SuccessPending, AtRest
<1>5. NotEarly'  BY DEF NotEarly, Overdue
<1> QED  BY <1>1, <1>2, <1>3, <1>4, <1>5

LEMMA TimeoutFiresKeeps ==
  ASSUME IInv, NEW i \in Attempts, TimeoutFires(i)
  PROVE  IInv'
<1> USE TerminationAssumption
    DEF IInv, TimeoutFires, RecordFailure, Arm, recordVars, attemptVars, clockVars
<1>1. TypeOK'
  <2>1. exhausted' \in BOOLEAN /\ reporting' \in {"no", "failure", "then-confirm"}
    BY RecordFailureType DEF TypeOK
  <2>2. delay' \in [Attempts -> 0..MaxTimerDelay]
    BY ArmType DEF TypeOK
  <2> QED  BY <2>1, <2>2 DEF TypeOK
<1>2. AttemptsInOrder'
  BY WaitsForLatest DEF TypeOK, AttemptsInOrder, OnePhase, AtRest
<1>3. OnePhase'
  BY WaitsForLatest DEF TypeOK, AttemptsInOrder, OnePhase, AtRest
<1>4. SuccessPending'
  BY WaitsForLatest DEF TypeOK, AttemptsInOrder, SuccessPending, AtRest
<1>5. NotEarly'  BY DEF NotEarly, Overdue
<1> QED  BY <1>1, <1>2, <1>3, <1>4, <1>5

-----------------------------------------------------------------------------

LEMMA InitKeeps == ASSUME Init PROVE IInv
<1> USE TerminationAssumption DEF Init
<1>1. TypeOK
  <2>1. /\ remaining \in [Attempts -> 0..AttemptTimeout]
        /\ delay \in [Attempts -> 0..MaxTimerDelay]
        /\ attempts \in 0..(RetryAttempts + 1)
    OBVIOUS
  <2> QED  BY <2>1 DEF TypeOK
<1>2. AttemptsInOrder /\ OnePhase /\ SuccessPending /\ NotEarly
  BY DEF AttemptsInOrder, OnePhase, SuccessPending, NotEarly
<1> QED  BY <1>1, <1>2 DEF IInv

LEMMA NextKeeps == ASSUME IInv, [Next]_vars PROVE IInv'
<1>1. CASE UNCHANGED vars
  <2> USE <1>1 DEF IInv, vars, recordVars, attemptVars, clockVars
  <2>1. TypeOK'  BY DEF TypeOK
  <2>2. AttemptsInOrder' /\ SuccessPending'
    BY DEF AttemptsInOrder, SuccessPending
  <2>3. OnePhase' /\ NotEarly'  BY DEF OnePhase, AtRest, NotEarly, Overdue
  <2> QED  BY <2>1, <2>2, <2>3
<1>2. CASE Next
  BY <1>2, QuarantineKeeps, AttemptKeeps, StaleRetryKeeps, TerminatorEndsKeeps,
     FailureReportedKeeps, TickKeeps, ResolvesKeeps, RejectsKeeps,
     TimeoutFiresKeeps DEF Next
<1> QED  BY <1>1, <1>2

-----------------------------------------------------------------------------
(* Each step is a step of the Quarantine the pool is given.                  *)

Step == [Promise!QuarantineNext]_(Promise!quarantineVars)

(* The state in the terms of the invariant.                                  *)
LEMMA States ==
  ASSUME IInv
  PROVE  /\ record = "absent" => QuarantineState = "none"
         /\ record = "deleted" => QuarantineState = "gone"
         /\ record = "tracked" =>
              /\ calling => QuarantineState = "attempting"
              /\ ~calling /\ exhausted => QuarantineState = "exhausted"
              /\ ~calling /\ ~exhausted /\ attempts = 0 => QuarantineState = "entered"
              /\ ~calling /\ ~exhausted /\ attempts # 0
                   /\ (retryTimer \/ reporting # "no") => QuarantineState = "retry"
              /\ ~calling /\ ~exhausted /\ attempts # 0
                   /\ ~retryTimer /\ reporting = "no" => QuarantineState = "pending"
BY DEF IInv, TypeOK, QuarantineState

(* A step that leaves all three of its variables alone is a stutter.         *)
LEMMA Stutter ==
  ASSUME QuarantineState' = QuarantineState, attempts' = attempts,
         LateSuccess' = LateSuccess
  PROVE  Step
BY DEF Step, Promise!quarantineVars

LEMMA QuarantineSteps == ASSUME IInv, IInv', Quarantine PROVE Step
<1>1. /\ record = "absent" /\ record' = "tracked" /\ ~calling' /\ ~exhausted'
      /\ attempts = 0 /\ attempts' = 0 /\ reporting' = "no" /\ waiting = {}
      /\ waiting' = {}
  BY DEF IInv, AttemptsInOrder, Quarantine, attemptVars
<1>2. QuarantineState = "none" /\ QuarantineState' = "entered"
  BY <1>1 DEF QuarantineState
<1>3. LateSuccess = FALSE /\ LateSuccess' = FALSE
  BY <1>1 DEF LateSuccess
<1>4. Promise!Enter
  BY <1>1, <1>2, <1>3 DEF Promise!Enter
<1> QED  BY <1>4 DEF Step, Promise!QuarantineNext

LEMMA AttemptSteps == ASSUME IInv, IInv', Attempt PROVE Step
<1>1. /\ record = "tracked" /\ record' = "tracked" /\ calling' /\ ~calling
      /\ attempts' = attempts + 1
      /\ UNCHANGED <<timedOut, waiting, reporting>>
  BY DEF Attempt, Begin, AtRest
<1>2. QuarantineState \in {"entered", "retry"}
  BY States DEF Attempt, AtRest, IInv, OnePhase, AttemptsInOrder, TypeOK
<1>3. QuarantineState' = "attempting"
  BY <1>1 DEF QuarantineState
<1>4. LateSuccess' = LateSuccess
  BY <1>1 DEF LateSuccess
<1>5. Promise!Try
  BY <1>1, <1>2, <1>3, <1>4 DEF Promise!Try
<1> QED  BY <1>5 DEF Step, Promise!QuarantineNext

(* A record that is no longer in the map, or not yet, does not move in the   *)
(* promise's terms.                                                          *)
LEMMA OutOfMap ==
  ASSUME record # "tracked", record' = record, attempts' = attempts
  PROVE  Step
<1>1. LateSuccess = FALSE /\ LateSuccess' = FALSE
  BY DEF LateSuccess
<1>2. CASE record = "absent"
  BY <1>1, <1>2, Stutter DEF QuarantineState
<1>3. CASE record # "absent"
  <2>1. QuarantineState' = QuarantineState
    BY <1>3 DEF QuarantineState
  <2> QED  BY <1>1, <2>1, Stutter
<1> QED  BY <1>2, <1>3

(* A confirmation may come from the attempt in progress or a late one.       *)
LEMMA ConfirmSteps ==
  ASSUME QuarantineState \in {"attempting", "pending"} \/ LateSuccess,
         record' = "deleted", attempts' = attempts
  PROVE  Step
<1>1. QuarantineState' = "gone" /\ LateSuccess' = FALSE
  BY DEF QuarantineState, LateSuccess
<1>2. Promise!ConfirmGone
  BY <1>1 DEF Promise!ConfirmGone
<1> QED  BY <1>2 DEF Step, Promise!QuarantineNext

(* So may a failure, after which the record is exhausted or due for a retry. *)
LEMMA FailSteps ==
  ASSUME IInv, QuarantineState \in {"attempting", "pending"},
         record = "tracked", record' = "tracked", attempts # 0,
         attempts' = attempts, ~calling', reporting' # "no",
         exhausted' = (attempts > RetryAttempts),
         LateSuccess' \in {LateSuccess, TRUE}
  PROVE  Step
<1>1. QuarantineState' = IF attempts > RetryAttempts THEN "exhausted" ELSE "retry"
  BY DEF QuarantineState
<1>2. Promise!Fail
  BY <1>1 DEF Promise!Fail
<1> QED  BY <1>2 DEF Step, Promise!QuarantineNext

LEMMA TerminatorEndsSteps == ASSUME IInv, IInv', TerminatorEnds PROVE Step
<1>0. /\ calling /\ ~calling' /\ attempts' = attempts /\ attempts # 0
      /\ reporting = "no"
  BY DEF IInv, AttemptsInOrder, TypeOK, TerminatorEnds, TerminatorReturns,
         TerminatorThrows, TerminatorPromises, recordVars
<1>1. CASE record # "tracked"
  <2>1. record' = record
    BY <1>1 DEF TerminatorEnds, TerminatorReturns, TerminatorThrows,
                TerminatorPromises, Confirm, recordVars
  <2> QED  BY <1>0, <1>1, <2>1, OutOfMap
<1>2. CASE record = "tracked" /\ TerminatorReturns
  BY <1>0, <1>2, States, ConfirmSteps DEF TerminatorReturns, Confirm
<1>3. CASE record = "tracked" /\ TerminatorThrows
  <2>1. /\ reporting' = "failure" /\ record' = "tracked"
        /\ exhausted' = (attempts > RetryAttempts)
        /\ UNCHANGED <<timedOut, waiting>>
    BY <1>3 DEF TerminatorThrows, RecordFailure, attemptVars
  <2>2. LateSuccess' = LateSuccess
    BY <1>0, <1>3, <2>1 DEF LateSuccess
  <2> QED  BY <1>0, <1>3, <2>1, <2>2, States, FailSteps
<1>4. CASE record = "tracked" /\ TerminatorPromises
  <2>1. /\ UNCHANGED <<recordVars, timedOut, reporting>>
        /\ waiting' = waiting \cup {attempts} /\ attempts \notin timedOut
        /\ ~exhausted /\ ~retryTimer
    BY <1>0, <1>4 DEF IInv, TypeOK, AttemptsInOrder, OnePhase,
                      TerminatorPromises
  <2>2. QuarantineState = "attempting" /\ QuarantineState' = "pending"
    BY <1>0, <1>4, <2>1 DEF QuarantineState, recordVars
  <2>3. LateSuccess' = LateSuccess
    BY <2>1 DEF LateSuccess, recordVars
  <2>4. Promise!Wait
    BY <1>0, <2>2, <2>3 DEF Promise!Wait
  <2> QED  BY <2>4 DEF Step, Promise!QuarantineNext
<1> QED  BY <1>1, <1>2, <1>3, <1>4 DEF TerminatorEnds

LEMMA FailureReportedSteps == ASSUME IInv, IInv', FailureReported PROVE Step
<1>0. /\ reporting # "no" /\ reporting' = "no" /\ attempts' = attempts
      /\ UNCHANGED <<exhausted, timedOut, waiting, calling>>
  BY DEF FailureReported
<1>1. CASE record # "tracked"
  BY <1>0, <1>1, OutOfMap DEF FailureReported
<1>2. CASE record = "tracked" /\ reporting = "then-confirm"
  BY <1>0, <1>2, ConfirmSteps DEF FailureReported, Confirm, LateSuccess
<1>3. CASE record = "tracked" /\ reporting # "then-confirm"
  <2>0. record' = record /\ retryTimer' = (retryTimer \/ ~exhausted)
    BY <1>3 DEF FailureReported
  <2>1. /\ record' = "tracked" /\ ~calling
        /\ ~exhausted' => retryTimer'
        /\ attempts # 0
    <3>1. ~calling /\ attempts # 0
      BY <1>0 DEF IInv, AttemptsInOrder
    <3>2. exhausted' = exhausted
      BY <1>0
    <3> QED  BY <1>3, <2>0, <3>1, <3>2
  <2>2. LateSuccess' = LateSuccess
    BY <1>0, <1>3, <2>1 DEF LateSuccess
  <2>3. QuarantineState' = QuarantineState
    BY <1>0, <1>3, <2>1 DEF QuarantineState
  <2> QED  BY <1>0, <2>2, <2>3, Stutter
<1> QED  BY <1>1, <1>2, <1>3

(* What is known of the record that waits for attempt i.                     *)
LEMMA Pending ==
  ASSUME IInv, record = "tracked", NEW i \in waiting, i \notin finished
  PROVE  /\ QuarantineState = "pending" /\ attempts # 0
         /\ ~calling /\ reporting = "no"
BY WaitsForLatest, States DEF AtRest

LEMMA ResolvesSteps ==
  ASSUME IInv, IInv', NEW i \in Attempts,
         ResolvesLate(i) \/ ResolvesOverdue(i) \/ Resolves(i)
  PROVE  Step
<1>0. /\ i \in waiting /\ attempts' = attempts /\ calling' = calling
  BY DEF ResolvesLate, ResolvesOverdue, Resolves, MaySettle, recordVars
<1>1. CASE record # "tracked"
  <2>1. record' = record
    BY <1>1 DEF ResolvesLate, ResolvesOverdue, Resolves, Confirm
  <2> QED  BY <1>0, <1>1, <2>1, OutOfMap
<1>2. CASE record = "tracked" /\ ResolvesLate(i)
  <2>1. i \in timedOut
    BY <1>0, <1>2 DEF IInv, AttemptsInOrder, ResolvesLate
  <2>2. LateSuccess /\ record' = "deleted"
    BY <1>0, <1>2, <2>1 DEF LateSuccess, ResolvesLate, Confirm
  <2> QED  BY <1>0, <2>2, ConfirmSteps
<1>3. CASE record = "tracked" /\ ResolvesOverdue(i)
  <2>1. /\ record' = "tracked" /\ exhausted' = (attempts > RetryAttempts)
        /\ reporting' = "then-confirm" /\ i \notin finished
    BY <1>3 DEF ResolvesOverdue, RecordFailure
  <2>2. LateSuccess'
    BY <2>1 DEF LateSuccess
  <2>3. LateSuccess' \in {LateSuccess, TRUE}
    BY <2>2 DEF LateSuccess
  <2> QED  BY <1>0, <1>3, <2>1, <2>3, Pending, FailSteps
<1>4. CASE record = "tracked" /\ Resolves(i)
  <2>1. i \notin finished /\ record' = "deleted"
    BY <1>4 DEF Resolves, Confirm
  <2> QED  BY <1>0, <1>4, <2>1, Pending, ConfirmSteps
<1> QED  BY <1>1, <1>2, <1>3, <1>4

LEMMA RejectsSteps ==
  ASSUME IInv, IInv', NEW i \in Attempts, Rejects(i)
  PROVE  Step
<1>0. /\ i \in waiting /\ attempts' = attempts /\ record' = record
      /\ waiting' = waiting \ {i}
      /\ UNCHANGED <<retryTimer, calling>>
  BY DEF Rejects, MaySettle
<1>1. CASE record # "tracked"
  BY <1>0, <1>1, OutOfMap
<1>2. CASE record = "tracked" /\ i \in finished
  <2>1. UNCHANGED <<timedOut, exhausted, reporting>>
    BY <1>2 DEF Rejects
  <2>2. QuarantineState' = QuarantineState
    BY <1>0, <2>1 DEF QuarantineState
  <2>3. i \in timedOut
    BY <1>0, <1>2 DEF IInv, AttemptsInOrder
  <2>4. LateSuccess = TRUE
    BY <1>0, <1>2, <2>3 DEF LateSuccess
  <2>5. CASE LateSuccess'
    <3>1. LateSuccess' = LateSuccess
      BY <2>4, <2>5 DEF LateSuccess
    <3> QED  BY <1>0, <2>2, <3>1, Stutter
  <2>6. CASE ~LateSuccess'
    <3>1. LateSuccess' = FALSE
      BY <2>6 DEF LateSuccess
    <3>2. Promise!LateFails
      BY <1>0, <2>2, <2>4, <3>1 DEF Promise!LateFails
    <3> QED  BY <3>2 DEF Step, Promise!QuarantineNext
  <2> QED  BY <2>5, <2>6
<1>3. CASE record = "tracked" /\ i \notin finished
  <2>1. /\ exhausted' = (attempts > RetryAttempts) /\ reporting' = "failure"
        /\ timedOut' \subseteq timedOut \cup {i} /\ timedOut \subseteq timedOut'
    BY <1>3 DEF Rejects, RecordFailure
  <2>2. i \notin timedOut
    BY <1>3 DEF IInv, TypeOK
  <2>3. timedOut' \cap waiting' = timedOut \cap waiting
    BY <1>0, <2>1, <2>2
  <2>4. LateSuccess' = LateSuccess
    BY <1>0, <1>3, <2>1, <2>3, Pending DEF LateSuccess
  <2> QED  BY <1>0, <1>3, <2>1, <2>4, Pending, FailSteps
<1> QED  BY <1>1, <1>2, <1>3

LEMMA TimeoutFiresSteps ==
  ASSUME IInv, IInv', NEW i \in Attempts, TimeoutFires(i)
  PROVE  Step
<1>0. /\ i \in attemptTimers /\ i \in waiting /\ i \notin finished
      /\ attempts' = attempts /\ record' = record
      /\ UNCHANGED <<retryTimer, calling, waiting>>
  BY DEF TimeoutFires, IInv, AttemptsInOrder
<1>1. CASE record # "tracked"
  BY <1>0, <1>1, OutOfMap
<1>2. CASE record = "tracked" /\ Overdue(i)
  <2>1. /\ exhausted' = (attempts > RetryAttempts) /\ reporting' = "failure"
        /\ i \in timedOut'
    BY <1>2 DEF TimeoutFires, RecordFailure
  <2>2. LateSuccess'
    BY <1>0, <1>2, <2>1 DEF LateSuccess
  <2>3. LateSuccess' \in {LateSuccess, TRUE}
    BY <2>2 DEF LateSuccess
  <2> QED  BY <1>0, <1>2, <2>1, <2>3, Pending, FailSteps
<1>3. CASE record = "tracked" /\ ~Overdue(i)
  <2>1. UNCHANGED <<timedOut, exhausted, reporting>>
    BY <1>3 DEF TimeoutFires
  <2> QED  BY <1>0, <2>1, Stutter DEF QuarantineState, LateSuccess
<1> QED  BY <1>1, <1>2, <1>3

LEMMA NextSteps == ASSUME IInv, IInv', [Next]_vars PROVE Step
<1>1. CASE UNCHANGED vars \/ Tick \/ StaleRetry
  <2>1. CASE StaleRetry
    BY <2>1, OutOfMap DEF StaleRetry
  <2>2. CASE UNCHANGED vars \/ Tick
    <3>1. UNCHANGED <<record, attempts, exhausted, retryTimer, timedOut,
                      waiting, calling, reporting>>
      BY <2>2 DEF vars, Tick, recordVars, attemptVars
    <3> QED  BY <3>1, Stutter DEF QuarantineState, LateSuccess
  <2> QED  BY <1>1, <2>1, <2>2
<1>2. CASE Next
  BY <1>1, <1>2, QuarantineSteps, AttemptSteps, TerminatorEndsSteps,
     FailureReportedSteps, ResolvesSteps, RejectsSteps, TimeoutFiresSteps
     DEF Next
<1> QED  BY <1>1, <1>2

LEMMA InitSteps == ASSUME Init PROVE Promise!QuarantineInit
BY DEF Init, Promise!QuarantineInit, QuarantineState, LateSuccess

-----------------------------------------------------------------------------
(* The results.                                                              *)

(* A record of internal/termination.ts and the closures of its attempts are  *)
(* always in the order of AttemptsInOrder and in one phase of OnePhase.      *)
THEOREM RecordInvariance == Spec => []IInv
<1>1. Init => IInv
  BY InitKeeps
<1>2. IInv /\ [Next]_vars => IInv'
  BY NextKeeps
<1> QED  BY <1>1, <1>2, PTL DEF Spec

(* The fields of the record keep their types, and the attempts made of one   *)
(* worker never outnumber the one try and its retries.                       *)
THEOREM RecordType == Spec => []TypeOK
<1>1. IInv => TypeOK
  BY DEF IInv
<1> QED  BY <1>1, RecordInvariance, PTL

(* The slot of a worker is given back exactly when an attempt, be it late,   *)
(* has terminated it, for every number of retries.                           *)
THEOREM SlotFreedBySuccess == Spec => []SuccessFrees
<1>1. IInv => SuccessFrees
  BY DEF IInv, TypeOK, SuccessPending, SuccessFrees, AtRest
<1> QED  BY <1>1, RecordInvariance, PTL

(* A worker in quarantine is exhausted or exactly one thing is still to come *)
(* for it: no record is forgotten and no retry runs beside an attempt.       *)
THEOREM OneThingAhead == Spec => []OneThingToCome
<1>1. IInv => OneThingToCome
  BY TerminationAssumption
     DEF IInv, TypeOK, AttemptsInOrder, OnePhase, OneThingToCome, AtRest
<1> QED  BY <1>1, RecordInvariance, PTL

(* An attempt is given up only when its whole timeout is over, whatever the  *)
(* limit that its timers were cut to.                                        *)
THEOREM GivenUpAtDeadline == Spec => []NotEarly
<1>1. IInv => NotEarly
  BY DEF IInv
<1> QED  BY <1>1, RecordInvariance, PTL

(* The controller implements the quarantine that the pool is given.          *)
THEOREM QuarantineKept == Spec => ImplementsQuarantine
<1>1. Init => Promise!QuarantineInit
  BY InitSteps
<1>2. IInv /\ IInv' /\ [Next]_vars
        => [Promise!QuarantineNext]_(Promise!quarantineVars)
  BY NextSteps DEF Step
<1> QED  BY <1>1, <1>2, RecordInvariance, PTL
         DEF Spec, ImplementsQuarantine, Promise!QuarantineSpec
=============================================================================
