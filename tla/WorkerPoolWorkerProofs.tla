----------------------- MODULE WorkerPoolWorkerProofs -----------------------
(* Proofs about the workers of the pool: how often the termination of one is *)
(* attempted, how many tasks one is given, and which ones are idle. The      *)
(* properties compare counters and sets that the pool keeps, but between the *)
(* statement that reads one and the statement that writes it the pool may    *)
(* call a factory, a terminator or a lifecycle observer, which call the pool *)
(* again. So each invariant says, beside the property, what every frame on   *)
(* the stack may still assume when the calls above it return: AttemptInv of  *)
(* the frames of a termination attempt, BoundsInv of the frames that hold a  *)
(* chosen worker, IdleInv of the frames that are about to make, use or       *)
(* retire one.                                                               *)
EXTENDS WorkerPoolTaskProofs

-----------------------------------------------------------------------------
(* Which steps concern the workers at all.                                   *)

(* The frames of code that chooses, makes or terminates a worker, or fails   *)
(* its task.                                                                 *)
WorkLabels == {"got", "finally", "created", "construct", "discard",
               "uncreated", "attempt", "attempted", "confirmed", "fail"}

(* The frames of code that is about to deal with a worker that has no task.  *)
ExcuseLabels == {"termworkers", "failing", "remove", "created", "completed",
                 "termtasks"}

(* The running method is the failure or the removal of a worker, and no user *)
(* code it calls is running.                                                 *)
Departing ==
  stack # <<>> /\ Top.at \in {"failing", "remove"} /\ Top.cb = "none"

(* A step that leaves the workers and the frames that deal with them alone.  *)
WorkerQuiet ==
  /\ UNCHANGED <<workers, idleWorkers, marked, activeTasks, taskCount, used,
                 attempts, tstate>>
  /\ Keeps(ExcuseLabels) /\ Avoids(WorkLabels)
  /\ stack' = stack \/ ~Departing

(* The steps of a submission, of its signal and its timer: those listed      *)
(* concern no worker.                                                        *)
LEMMA SubmissionStill ==
  ASSUME TypeOK
  PROVE  /\ SettleNext => WorkerQuiet
         /\ SettleDone => WorkerQuiet
         /\ \A p, timed : Run(p, timed) => WorkerQuiet
         /\ Insert => WorkerQuiet
         /\ SignalThrows => WorkerQuiet
         /\ Arm => WorkerQuiet
         /\ ArmLate => WorkerQuiet
         /\ EnforceQueueLimit => WorkerQuiet
         /\ \A t \in Tasks : Abort(t) => WorkerQuiet
         /\ \A t \in Tasks : QueueTimer(t) => WorkerQuiet
<1> USE DEF poolVars, taskVars, settleVars, workerVars, schedVars, termVars,
     data, WorkerQuiet, Departing, Moves, Keeps, Avoids, ExcuseLabels,
     WorkLabels, Running, UserCall, InCallback, EventLoop, Callbacks
<1>1. SettleNext => WorkerQuiet
  BY SubmissionMoves, PoolAssumption DEF SettleNext
<1>2. SettleDone => WorkerQuiet
  BY SubmissionMoves, PoolAssumption DEF SettleDone
<1>3. \A p, timed : Run(p, timed) => WorkerQuiet
  BY SubmissionMoves, PoolAssumption DEF Run
<1>4. Insert => WorkerQuiet
  BY SubmissionMoves, PoolAssumption DEF Insert
<1>5. SignalThrows => WorkerQuiet
  BY SubmissionMoves, PoolAssumption DEF SignalThrows
<1>6. Arm => WorkerQuiet
  BY SubmissionMoves, PoolAssumption DEF Arm
<1>7. ArmLate => WorkerQuiet
  BY SubmissionMoves, PoolAssumption DEF ArmLate
<1>8. EnforceQueueLimit => WorkerQuiet
  BY SubmissionMoves, PoolAssumption DEF EnforceQueueLimit
<1>9. \A t \in Tasks : Abort(t) => WorkerQuiet
  BY SubmissionMoves, PoolAssumption DEF Abort
<1>10. \A t \in Tasks : QueueTimer(t) => WorkerQuiet
  BY SubmissionMoves, PoolAssumption DEF QueueTimer
<1> QED  BY <1>1, <1>2, <1>3, <1>4, <1>5, <1>6, <1>7, <1>8, <1>9, <1>10

(* The steps of the scheduling pass: those listed concern no worker.         *)
LEMMA SchedulingStill ==
  ASSUME TypeOK
  PROVE  /\ NextSkipped => WorkerQuiet
         /\ NextStarts => WorkerQuiet
         /\ Loop => WorkerQuiet
         /\ EndPass => WorkerQuiet
         /\ RejectQueue => WorkerQuiet
         /\ NextPass => WorkerQuiet
         /\ NextReturns => WorkerQuiet
         /\ RejectBacklog => WorkerQuiet
<1> USE DEF poolVars, taskVars, settleVars, workerVars, schedVars, termVars,
     data, WorkerQuiet, Departing, Moves, Keeps, Avoids, ExcuseLabels,
     WorkLabels, Running, UserCall, InCallback, EventLoop, Callbacks
<1>1. NextSkipped => WorkerQuiet
  BY SchedulingMoves, PoolAssumption DEF NextSkipped
<1>2. NextStarts => WorkerQuiet
  BY SchedulingMoves, PoolAssumption DEF NextStarts
<1>3. Loop => WorkerQuiet
  BY SchedulingMoves, PoolAssumption DEF Loop
<1>4. EndPass => WorkerQuiet
  BY SchedulingMoves, PoolAssumption DEF EndPass
<1>5. RejectQueue => WorkerQuiet
  BY SchedulingMoves, PoolAssumption DEF RejectQueue
<1>6. NextPass => WorkerQuiet
  BY SchedulingMoves, PoolAssumption DEF NextPass
<1>7. NextReturns => WorkerQuiet
  BY SchedulingMoves, PoolAssumption DEF NextReturns
<1>8. RejectBacklog => WorkerQuiet
  BY SchedulingMoves, PoolAssumption DEF RejectBacklog
<1> QED  BY <1>1, <1>2, <1>3, <1>4, <1>5, <1>6, <1>7, <1>8

(* The steps that find or make a worker: those listed concern no worker.     *)
LEMMA CreationStill ==
  ASSUME TypeOK
  PROVE  /\ GotNothing => WorkerQuiet
         /\ GotExpired => WorkerQuiet
<1> USE DEF poolVars, taskVars, settleVars, workerVars, schedVars, termVars,
     data, WorkerQuiet, Departing, Moves, Keeps, Avoids, ExcuseLabels,
     WorkLabels, Running, UserCall, InCallback, EventLoop, Callbacks
<1>1. GotNothing => WorkerQuiet
  BY CreationMoves, PoolAssumption DEF GotNothing
<1>2. GotExpired => WorkerQuiet
  BY CreationMoves, PoolAssumption DEF GotExpired
<1> QED  BY <1>1, <1>2

(* The steps of a task that runs on its worker: those listed concern no      *)
(* worker.                                                                   *)
LEMMA CallsStill ==
  ASSUME TypeOK
  PROVE  /\ MethodThrows => WorkerQuiet
         /\ \A t \in Tasks : \A why : Answer(t, why) => WorkerQuiet
<1> USE DEF poolVars, taskVars, settleVars, workerVars, schedVars, termVars,
     data, WorkerQuiet, Departing, Moves, Keeps, Avoids, ExcuseLabels,
     WorkLabels, Running, UserCall, InCallback, EventLoop, Callbacks
<1>1. MethodThrows => WorkerQuiet
  BY CallsMoves, PoolAssumption DEF MethodThrows
<1>2. ASSUME NEW t \in Tasks, NEW why, Answer(t, why)
      PROVE  WorkerQuiet
  <2>1. Moves({}, {"complete"})
    BY <1>2, CallsMoves
  <2> QED  BY <1>2, <2>1 DEF Answer
<1> QED  BY <1>1, <1>2

(* The steps of the shutdown, of user code and of the clock: those listed    *)
(* concern no worker.                                                        *)
LEMMA ShutdownStill ==
  ASSUME TypeOK
  PROVE  /\ Close => WorkerQuiet
         /\ Drain => WorkerQuiet
         /\ Drained => WorkerQuiet
         /\ TerminateAll => WorkerQuiet
         /\ StatsFinishDrain => WorkerQuiet
         /\ UpdateStats => WorkerQuiet
         /\ Return => WorkerQuiet
         /\ Time => WorkerQuiet
<1> USE DEF poolVars, taskVars, settleVars, workerVars, schedVars, termVars,
     data, WorkerQuiet, Departing, Moves, Keeps, Avoids, ExcuseLabels,
     WorkLabels, Running, UserCall, InCallback, EventLoop, Callbacks
<1>1. Close => WorkerQuiet
  BY ShutdownMoves, PoolAssumption DEF Close
<1>2. Drain => WorkerQuiet
  BY ShutdownMoves, PoolAssumption DEF Drain
<1>3. Drained => WorkerQuiet
  BY ShutdownMoves, PoolAssumption DEF Drained
<1>4. TerminateAll => WorkerQuiet
  BY ShutdownMoves, PoolAssumption DEF TerminateAll
<1>5. StatsFinishDrain => WorkerQuiet
  BY ShutdownMoves, PoolAssumption DEF StatsFinishDrain
<1>6. UpdateStats => WorkerQuiet
  BY ShutdownMoves, PoolAssumption DEF UpdateStats
<1>7. Return => WorkerQuiet
  BY ShutdownMoves, PoolAssumption DEF Return
<1>8. Time => WorkerQuiet
  BY ShutdownMoves, PoolAssumption DEF Time, QueueDeadline, TaskDeadline,
     LifetimePasses, ClockMoves
<1> QED  BY <1>1, <1>2, <1>3, <1>4, <1>5, <1>6, <1>7, <1>8

(* The steps that concern the workers.                                       *)
WorkerStep ==
  \/ PickNew \/ PickLoaded \/ ConstructThrows \/ Discard \/ Uncreated
  \/ CreatedReady \/ CreatedExpired \/ CreatedTooLate \/ Finally
  \/ CallMethod \/ MethodCalled \/ CompleteIgnored \/ CompleteTask \/ Completed
  \/ FailureStarts \/ FailureEnds \/ RemoveWorker \/ RemoveSkipped
  \/ Attempt \/ TerminatorReturns \/ TerminatorThrows \/ TerminatorPromises
  \/ ConfirmedPastDeadline \/ TerminateWorkers \/ TerminateWorker
  \/ \E late \in BOOLEAN : Dispatch(late)
  \/ \E t \in Tasks : \/ Microtask(t) \/ TaskTimer(t)
                      \/ FailTask(t) \/ TerminateTask(t)
  \/ \E w \in Workers :
       \/ PickIdle(w) \/ PickExpired(w) \/ ConstructOk(w)
       \/ ConstructPartial(w) \/ WorkerError(w)
       \/ PromiseConfirms(w) \/ PromiseConfirmsPastDeadline(w)
       \/ PromiseRejects(w) \/ AttemptTimer(w) \/ LateConfirm(w)
       \/ RetryTimer(w) \/ LifetimeTimer(w) \/ IdleTimer(w)

(* Every other step leaves the workers alone.                                *)
LEMMA WorkerSteps ==
  ASSUME TypeOK, [Next]_vars
  PROVE  WorkerStep \/ WorkerQuiet
<1>1. UNCHANGED vars => WorkerQuiet
  BY DEF vars, data, poolVars, taskVars, settleVars, workerVars, schedVars,
         termVars, WorkerQuiet, Keeps, Avoids
<1>2. ASSUME Code
      PROVE  WorkerStep \/ WorkerQuiet
  BY <1>2, SubmissionStill, SchedulingStill, CreationStill, ShutdownStill
     DEF Code, WorkerStep
<1>3. ASSUME Faults \/ User
      PROVE  WorkerStep \/ WorkerQuiet
  BY <1>3, SubmissionStill, CallsStill, ShutdownStill
     DEF Faults, User, WorkerStep
<1>4. ASSUME World
      PROVE  WorkerStep \/ WorkerQuiet
  BY <1>4, CallsStill DEF World, WorkerStep
<1>5. ASSUME NEW t \in Tasks, TaskTimers(t)
      PROVE  WorkerStep \/ WorkerQuiet
  BY <1>5, SubmissionStill DEF TaskTimers, WorkerStep
<1>6. ASSUME NEW w \in Workers, WorkerTimers(w)
      PROVE  WorkerStep \/ WorkerQuiet
  BY <1>6 DEF WorkerTimers, WorkerStep
<1> QED
  BY <1>1, <1>2, <1>3, <1>4, <1>5, <1>6, ShutdownStill DEF Next, Finished

-----------------------------------------------------------------------------
(* The attempts to terminate a worker are bounded.                           *)

(* The frames of a termination attempt.                                      *)
AttemptLabels == {"attempt", "attempted", "confirmed"}
(* Attempts are counted: a retry is due only while one is left, and a worker *)
(* that was never removed has had none.                                      *)
AttemptsCounted ==
  \A w \in Workers :
    /\ attempts[w] <= RetryAttempts + 1
    /\ tstate[w] = "retry" => attempts[w] <= RetryAttempts
    /\ w \notin used \/ w \in workers => attempts[w] = 0
(* The code of an attempt finds the record in the state it left it in, and   *)
(* an attempt is counted only when one is left.                              *)
AttemptFrames ==
  \A i \in 1..Len(stack) :
    /\ stack[i].at = "discard" => attempts[stack[i].w] = 0
    /\ stack[i].at = "attempt" => /\ tstate[stack[i].w] = "attempting"
                                  /\ attempts[stack[i].w] <= RetryAttempts
    /\ stack[i].at = "attempted" => tstate[stack[i].w] = "attempting"
    /\ stack[i].at = "confirmed" => tstate[stack[i].w] # "none"
(* At most one attempt of a worker is on the stack.                          *)
AttemptAlone ==
  \A i, j \in 1..Len(stack) :
    ( /\ stack[i].at \in AttemptLabels /\ stack[j].at \in AttemptLabels
      /\ stack[i].w = stack[j].w ) => i = j
(* The inductive invariant of the attempts.                                  *)
AttemptInv == AttemptsCounted /\ AttemptFrames /\ AttemptAlone

(* Most steps make no attempt.                                               *)
AttemptsQuiet ==
  /\ UNCHANGED <<attempts, tstate, used>> /\ workers' \subseteq workers
  /\ Avoids({"discard"} \cup AttemptLabels)

(* The steps of the scheduling pass: those listed make no attempt to         *)
(* terminate a worker.                                                       *)
LEMMA SchedulingNoAttempt ==
  ASSUME TypeOK
  PROVE  /\ \A w \in Workers : PickIdle(w) => AttemptsQuiet
         /\ \A w \in Workers : PickExpired(w) => AttemptsQuiet
         /\ PickNew => AttemptsQuiet
         /\ PickLoaded => AttemptsQuiet
<1> USE DEF poolVars, taskVars, settleVars, workerVars, schedVars, termVars,
     data, AttemptsQuiet, AttemptLabels, Moves, Avoids
<1>1. \A w \in Workers : PickIdle(w) => AttemptsQuiet
  BY SchedulingMoves DEF PickIdle
<1>2. \A w \in Workers : PickExpired(w) => AttemptsQuiet
  BY SchedulingMoves DEF PickExpired
<1>3. PickNew => AttemptsQuiet
  BY SchedulingMoves DEF PickNew
<1>4. PickLoaded => AttemptsQuiet
  BY SchedulingMoves DEF PickLoaded
<1> QED  BY <1>1, <1>2, <1>3, <1>4

(* The steps that find or make a worker: those listed make no attempt to     *)
(* terminate a worker.                                                       *)
LEMMA CreationNoAttempt ==
  ASSUME TypeOK
  PROVE  /\ ConstructThrows => AttemptsQuiet
         /\ Uncreated => AttemptsQuiet
         /\ CreatedReady => AttemptsQuiet
         /\ CreatedExpired => AttemptsQuiet
         /\ CreatedTooLate => AttemptsQuiet
         /\ Finally => AttemptsQuiet
         /\ \A late : Dispatch(late) => AttemptsQuiet
<1> USE DEF poolVars, taskVars, settleVars, workerVars, schedVars, termVars,
     data, AttemptsQuiet, AttemptLabels, Moves, Avoids
<1>1. ConstructThrows => AttemptsQuiet
  BY CreationMoves DEF ConstructThrows
<1>2. Uncreated => AttemptsQuiet
  BY CreationMoves DEF Uncreated
<1>3. CreatedReady => AttemptsQuiet
  BY CreationMoves DEF CreatedReady
<1>4. CreatedExpired => AttemptsQuiet
  BY CreationMoves DEF CreatedExpired
<1>5. CreatedTooLate => AttemptsQuiet
  BY CreationMoves DEF CreatedTooLate
<1>6. Finally => AttemptsQuiet
  BY CreationMoves DEF Finally
<1>7. \A late : Dispatch(late) => AttemptsQuiet
  BY CreationMoves DEF Dispatch
<1> QED  BY <1>1, <1>2, <1>3, <1>4, <1>5, <1>6, <1>7

(* The steps of a task that runs on its worker: those listed make no attempt *)
(* to terminate a worker.                                                    *)
LEMMA CallsNoAttempt ==
  ASSUME TypeOK
  PROVE  /\ \A t \in Tasks : Microtask(t) => AttemptsQuiet
         /\ CallMethod => AttemptsQuiet
         /\ MethodCalled => AttemptsQuiet
         /\ CompleteIgnored => AttemptsQuiet
         /\ CompleteTask => AttemptsQuiet
         /\ Completed => AttemptsQuiet
         /\ \A t \in Tasks : TaskTimer(t) => AttemptsQuiet
         /\ \A w \in Workers : WorkerError(w) => AttemptsQuiet
         /\ FailureStarts => AttemptsQuiet
         /\ \A t \in Tasks : FailTask(t) => AttemptsQuiet
         /\ FailureEnds => AttemptsQuiet
<1> USE DEF poolVars, taskVars, settleVars, workerVars, schedVars, termVars,
     data, AttemptsQuiet, AttemptLabels, Moves, Avoids
<1>1. \A t \in Tasks : Microtask(t) => AttemptsQuiet
  BY CallsMoves DEF Microtask
<1>2. CallMethod => AttemptsQuiet
  BY CallsMoves DEF CallMethod
<1>3. MethodCalled => AttemptsQuiet
  BY CallsMoves DEF MethodCalled
<1>4. CompleteIgnored => AttemptsQuiet
  BY CallsMoves DEF CompleteIgnored
<1>5. CompleteTask => AttemptsQuiet
  BY CallsMoves DEF CompleteTask
<1>6. Completed => AttemptsQuiet
  BY CallsMoves DEF Completed
<1>7. \A t \in Tasks : TaskTimer(t) => AttemptsQuiet
  BY CallsMoves DEF TaskTimer
<1>8. \A w \in Workers : WorkerError(w) => AttemptsQuiet
  BY CallsMoves DEF WorkerError
<1>9. FailureStarts => AttemptsQuiet
  BY CallsMoves DEF FailureStarts
<1>10. \A t \in Tasks : FailTask(t) => AttemptsQuiet
  BY CallsMoves DEF FailTask
<1>11. FailureEnds => AttemptsQuiet
  BY CallsMoves DEF FailureEnds
<1> QED  BY <1>1, <1>2, <1>3, <1>4, <1>5, <1>6, <1>7, <1>8, <1>9, <1>10, <1>11

(* The steps that terminate a worker: those listed make no attempt to        *)
(* terminate a worker.                                                       *)
LEMMA TerminationNoAttempt ==
  ASSUME TypeOK
  PROVE  /\ RemoveSkipped => AttemptsQuiet
         /\ \A w \in Workers : LifetimeTimer(w) => AttemptsQuiet
         /\ \A w \in Workers : IdleTimer(w) => AttemptsQuiet
<1> USE DEF poolVars, taskVars, settleVars, workerVars, schedVars, termVars,
     data, AttemptsQuiet, AttemptLabels, Moves, Avoids
<1>1. RemoveSkipped => AttemptsQuiet
  BY TerminationMoves DEF RemoveSkipped
<1>2. \A w \in Workers : LifetimeTimer(w) => AttemptsQuiet
  BY TerminationMoves DEF LifetimeTimer
<1>3. \A w \in Workers : IdleTimer(w) => AttemptsQuiet
  BY TerminationMoves DEF IdleTimer
<1> QED  BY <1>1, <1>2, <1>3

(* The steps of the shutdown, of user code and of the clock: those listed    *)
(* make no attempt to terminate a worker.                                    *)
LEMMA ShutdownNoAttempt ==
  ASSUME TypeOK
  PROVE  /\ TerminateWorkers => AttemptsQuiet
         /\ \A t \in Tasks : TerminateTask(t) => AttemptsQuiet
         /\ TerminateWorker => AttemptsQuiet
<1> USE DEF poolVars, taskVars, settleVars, workerVars, schedVars, termVars,
     data, AttemptsQuiet, AttemptLabels, Moves, Avoids
<1>1. TerminateWorkers => AttemptsQuiet
  BY ShutdownMoves DEF TerminateWorkers
<1>2. \A t \in Tasks : TerminateTask(t) => AttemptsQuiet
  BY ShutdownMoves DEF TerminateTask
<1>3. TerminateWorker => AttemptsQuiet
  BY ShutdownMoves DEF TerminateWorker
<1> QED  BY <1>1, <1>2, <1>3

(* A step that opens no frame of an attempt leaves them alone.               *)
LEMMA SameAlone ==
  ASSUME AttemptAlone,
         \A i \in 1..Len(stack') :
           stack'[i].at \in {"discard"} \cup AttemptLabels =>
             i \in 1..Len(stack) /\ stack'[i] = stack[i]
  PROVE  AttemptAlone'
<1> SUFFICES ASSUME NEW i \in 1..Len(stack'), NEW j \in 1..Len(stack'),
                    stack'[i].at \in AttemptLabels,
                    stack'[j].at \in AttemptLabels,
                    stack'[i].w = stack'[j].w
             PROVE  i = j
  BY DEF AttemptAlone
<1>1. /\ i \in 1..Len(stack) /\ stack'[i] = stack[i]
      /\ j \in 1..Len(stack) /\ stack'[j] = stack[j]
  OBVIOUS
<1> QED  BY <1>1 DEF AttemptAlone

(* Such a step keeps the invariant.                                          *)
LEMMA QuietAttempts ==
  ASSUME AttemptInv, AttemptsQuiet
  PROVE  AttemptInv'
<1>1. AttemptsCounted'
  BY DEF AttemptInv, AttemptsQuiet, AttemptsCounted
<1>2. \A i \in 1..Len(stack') :
        stack'[i].at \in {"discard"} \cup AttemptLabels =>
          i \in 1..Len(stack) /\ stack'[i] = stack[i]
  BY DEF AttemptsQuiet, Avoids
<1>3. AttemptFrames'
  BY <1>2 DEF AttemptInv, AttemptsQuiet, AttemptFrames, AttemptLabels
<1>4. AttemptAlone'
  BY <1>2, SameAlone DEF AttemptInv
<1> QED  BY <1>1, <1>3, <1>4 DEF AttemptInv

(* The worker of a frame.                                                    *)
LEMMA FrameWorker ==
  ASSUME TypeOK, NEW i \in 1..Len(stack), stack[i].at \in WorkerLabels
  PROVE  stack[i].w \in Workers
BY ElementOfSeq DEF TypeOK, Frames

(* The record of w changes, and what is left of its attempt leaves the       *)
(* stack.                                                                    *)
LEMMA RecordAttempt ==
  ASSUME TypeOK, AttemptInv, NEW w \in Workers, NEW s,
         tstate' = [tstate EXCEPT ![w] = s],
         s = "retry" => attempts[w] <= RetryAttempts,
         UNCHANGED <<attempts, workers, used>>,
         \A i \in 1..Len(stack') :
           stack'[i].at \in {"discard"} \cup AttemptLabels =>
             /\ i \in 1..Len(stack) /\ stack'[i] = stack[i]
             /\ stack[i].at \in AttemptLabels => stack[i].w # w
  PROVE  AttemptInv'
<1>1. AttemptsCounted'
  BY DEF AttemptInv, AttemptsCounted, TypeOK
<1>2. AttemptFrames'
  <2> SUFFICES ASSUME NEW i \in 1..Len(stack'),
                      stack'[i].at \in {"discard"} \cup AttemptLabels
               PROVE  AttemptFrames!(i)'
    BY DEF AttemptFrames, AttemptLabels
  <2>1. /\ i \in 1..Len(stack) /\ stack'[i] = stack[i]
        /\ stack[i].at \in AttemptLabels => stack[i].w # w
    OBVIOUS
  <2>2. stack[i].at \in AttemptLabels => stack[i].w \in Workers
    BY <2>1, FrameWorker DEF AttemptLabels, WorkerLabels
  <2>3. stack[i].at \in AttemptLabels =>
          tstate'[stack[i].w] = tstate[stack[i].w]
    BY <2>1, <2>2 DEF TypeOK
  <2> QED  BY <2>1, <2>3 DEF AttemptInv, AttemptFrames, AttemptLabels
<1>3. AttemptAlone'
  BY SameAlone DEF AttemptInv
<1> QED  BY <1>1, <1>2, <1>3 DEF AttemptInv

(* A new attempt of w begins.                                                *)
LEMMA NewAttempt ==
  ASSUME TypeOK, AttemptInv, NEW w \in Workers, NEW k \in 1..Len(stack'),
         tstate' = [tstate EXCEPT ![w] = "attempting"],
         attempts[w] <= RetryAttempts,
         UNCHANGED <<attempts, used>>, workers' \subseteq workers,
         stack'[k].at = "attempt" /\ stack'[k].w = w,
         \A i \in 1..Len(stack') :
           stack'[i].at \in {"discard"} \cup AttemptLabels =>
             \/ i = k
             \/ /\ i \in 1..Len(stack) /\ stack'[i] = stack[i]
                /\ stack[i].at \in AttemptLabels => stack[i].w # w
  PROVE  AttemptInv'
<1>1. AttemptsCounted'
  BY DEF AttemptInv, AttemptsCounted, TypeOK
<1>2. AttemptFrames'
  <2> SUFFICES ASSUME NEW i \in 1..Len(stack'),
                      stack'[i].at \in {"discard"} \cup AttemptLabels
               PROVE  AttemptFrames!(i)'
    BY DEF AttemptFrames, AttemptLabels
  <2>1. CASE i = k
    BY <2>1 DEF TypeOK
  <2>2. CASE i # k
    <3>1. /\ i \in 1..Len(stack) /\ stack'[i] = stack[i]
          /\ stack[i].at \in AttemptLabels => stack[i].w # w
      BY <2>2
    <3>2. stack[i].at \in AttemptLabels => stack[i].w \in Workers
      BY <3>1, FrameWorker DEF AttemptLabels, WorkerLabels
    <3>3. stack[i].at \in AttemptLabels =>
            tstate'[stack[i].w] = tstate[stack[i].w]
      BY <3>1, <3>2 DEF TypeOK
    <3> QED  BY <3>1, <3>3 DEF AttemptInv, AttemptFrames, AttemptLabels
  <2> QED  BY <2>1, <2>2
<1>3. AttemptAlone'
  <2> SUFFICES ASSUME NEW i \in 1..Len(stack'), NEW j \in 1..Len(stack'),
                      stack'[i].at \in AttemptLabels,
                      stack'[j].at \in AttemptLabels,
                      stack'[i].w = stack'[j].w
               PROVE  i = j
    BY DEF AttemptAlone
  <2>1. /\ \/ i = k
           \/ /\ i \in 1..Len(stack) /\ stack'[i] = stack[i]
              /\ stack[i].at \in AttemptLabels => stack[i].w # w
        /\ \/ j = k
           \/ /\ j \in 1..Len(stack) /\ stack'[j] = stack[j]
              /\ stack[j].at \in AttemptLabels => stack[j].w # w
    OBVIOUS
  <2> QED  BY <2>1 DEF AttemptInv, AttemptAlone
<1> QED  BY <1>1, <1>2, <1>3 DEF AttemptInv

(* A worker that is not in quarantine has no attempt on the stack.           *)
LEMMA NoAttemptOf ==
  ASSUME AttemptInv, NEW w, tstate[w] = "none",
         NEW i \in 1..Len(stack), stack[i].at \in AttemptLabels
  PROVE  stack[i].w # w
BY DEF AttemptInv, AttemptFrames, AttemptLabels

(* Below the running frame of an attempt there is none of the same worker.   *)
LEMMA AloneBelow ==
  ASSUME TypeOK, AttemptInv, NEW l \in AttemptLabels, Running(l),
         NEW i \in 1..(Len(stack) - 1), stack[i].at \in AttemptLabels
  PROVE  stack[i].w # Top.w
<1>1. /\ Len(stack) \in 1..Len(stack) /\ Top = stack[Len(stack)]
      /\ Top.at = l
  BY TopIsFrame, RunningFrame
<1>2. i \in 1..Len(stack) /\ i # Len(stack)
  BY <1>1
<1> QED  BY <1>1, <1>2 DEF AttemptInv, AttemptAlone

(* What recordFailure and the other changes of a record leave in it: a       *)
(* record that is gone does not come back.                                   *)
LEMMA RecordSets ==
  ASSUME NEW w, NEW state, Record(w, state)
  PROVE  \E s \in {"none", state} : tstate' = [tstate EXCEPT ![w] = s]
<1>1. CASE tstate[w] = "none"
  <2>1. tstate' = [tstate EXCEPT ![w] = "none"]
    BY <1>1 DEF Record
  <2> QED  BY <2>1
<1>2. CASE tstate[w] # "none"
  <2>1. tstate' = [tstate EXCEPT ![w] = state]
    BY <1>2 DEF Record
  <2> QED  BY <2>1
<1> QED  BY <1>1, <1>2

(* After a failure a retry is due only while an attempt is left.             *)
LEMMA FailureSets ==
  ASSUME TypeOK, NEW w \in Workers, RecordFailure(w)
  PROVE  \E s : /\ tstate' = [tstate EXCEPT ![w] = s]
                /\ s = "retry" => attempts[w] <= RetryAttempts
<1> DEFINE state == IF attempts[w] > RetryAttempts THEN "exhausted"
                    ELSE "retry"
<1>1. attempts[w] \in Nat /\ RetryAttempts \in Nat
  BY PoolAssumption DEF TypeOK
<1>2. Record(w, state)
  BY DEF RecordFailure
<1>3. state = "retry" => attempts[w] <= RetryAttempts
  BY <1>1
<1> HIDE DEF state
<1>4. PICK s \in {"none", state} : tstate' = [tstate EXCEPT ![w] = s]
  BY <1>2, RecordSets
<1> QED  BY <1>3, <1>4

(* The end of an attempt: the terminator returned, threw or gave a promise,  *)
(* or a promise resolved past its deadline.                                  *)
LEMMA AttemptEnds ==
  ASSUME TypeOK, AttemptInv,
         \/ TerminatorReturns \/ TerminatorThrows \/ TerminatorPromises
         \/ ConfirmedPastDeadline
  PROVE  AttemptInv'
<1> DEFINE w == Top.w
           n == Len(stack)
<1> USE DEF workerVars
<1>1. PICK l \in {"attempted", "confirmed"} : Running(l)
  BY DEF TerminatorReturns, TerminatorThrows, TerminatorPromises,
         ConfirmedPastDeadline
<1>2. w \in Workers /\ stack # <<>> /\ stack \in Seq(Frames)
  BY <1>1, RunningFrame DEF WorkerLabels
<1>3. \A i \in 1..(n - 1) : stack[i].at \in AttemptLabels => stack[i].w # w
  BY <1>1, AloneBelow DEF AttemptLabels
<1>4. /\ UNCHANGED <<attempts, workers, used>>
      /\ \E s : /\ tstate' = [tstate EXCEPT ![w] = s]
                /\ s = "retry" => attempts[w] <= RetryAttempts
  <2>1. attempts[w] \in Nat /\ RetryAttempts \in Nat
    BY <1>2, PoolAssumption DEF TypeOK
  <2>2. CASE TerminatorReturns \/ ConfirmedPastDeadline
    BY <2>2 DEF TerminatorReturns, ConfirmedPastDeadline, Confirm
  <2>3. CASE TerminatorThrows
    <3>1. RecordFailure(w) /\ UNCHANGED <<attempts, workers, used>>
      BY <2>3 DEF TerminatorThrows
    <3> HIDE DEF w
    <3> QED  BY <1>2, <3>1, FailureSets
  <2>4. CASE TerminatorPromises
    <3>1. Record(w, "pending")
      BY <2>4 DEF TerminatorPromises
    <3>2. UNCHANGED <<attempts, workers, used>>
      BY <2>4 DEF TerminatorPromises
    <3> HIDE DEF w
    <3>3. PICK s \in {"none", "pending"} : tstate' = [tstate EXCEPT ![w] = s]
      BY <3>1, RecordSets
    <3> QED  BY <3>2, <3>3
  <2> QED  BY <2>2, <2>3, <2>4
<1>5. \A i \in 1..Len(stack') :
        stack'[i].at \in {"discard"} \cup AttemptLabels =>
          /\ i \in 1..n /\ stack'[i] = stack[i]
          /\ stack[i].at \in AttemptLabels => stack[i].w # w
  <2>1. n \in Nat \ {0}
    BY <1>2
  <2>2. CASE TerminatorPromises
    <3>1. /\ Len(stack') = n - 1
          /\ \A i \in 1..(n - 1) : stack'[i] = stack[i]
      BY <1>2, <2>2, Goes0 DEF TerminatorPromises
    <3> QED  BY <1>3, <2>1, <3>1
  <2>3. CASE ~TerminatorPromises
    <3>1. PICK f, g : /\ Proceed(<<f, g>>)
                      /\ f.at = "stats" /\ g.at = "next"
      <4>1. CASE TerminatorThrows
        <5> DEFINE f == At("stats")
                   g == Yield("event", At("next"))
        <5>1. f.at = "stats" /\ g.at = "next"
          BY LabelsOf
        <5>2. Proceed(<<f, g>>)
          BY <4>1 DEF TerminatorThrows, FailureReported
        <5> HIDE DEF f, g
        <5> QED  BY <5>1, <5>2
      <4>2. CASE TerminatorReturns \/ ConfirmedPastDeadline
        <5> DEFINE f == At("stats")
                   g == At("next")
        <5>1. f.at = "stats" /\ g.at = "next"
          BY LabelsOf
        <5>2. Proceed(<<f, g>>)
          BY <4>2 DEF TerminatorReturns, ConfirmedPastDeadline, StateChange
        <5> HIDE DEF f, g
        <5> QED  BY <5>1, <5>2
      <4> QED  BY <2>3, <4>1, <4>2
    <3>2. /\ Len(stack') = n + 1
          /\ \A i \in 1..(n - 1) : stack'[i] = stack[i]
          /\ stack'[n] = f /\ stack'[n + 1] = g
      BY <1>2, <3>1, Goes2
    <3>3. \A i \in 1..Len(stack') : i \in 1..(n - 1) \/ i = n \/ i = n + 1
      BY <2>1, <3>2
    <3>4. \A i \in 1..(n - 1) : i \in 1..n
      BY <2>1
    <3> QED  BY <1>3, <3>1, <3>2, <3>3, <3>4 DEF AttemptLabels
  <2> QED  BY <2>2, <2>3
<1> HIDE DEF w, n
<1> QED  BY <1>2, <1>4, <1>5, RecordAttempt DEF n

(* The same for an attempt whose promise settles or that times out in the    *)
(* event loop.                                                               *)
LEMMA AttemptAnswered ==
  ASSUME TypeOK, AttemptInv, NEW w \in Workers,
         \/ PromiseConfirms(w) \/ PromiseRejects(w) \/ AttemptTimer(w)
         \/ LateConfirm(w)
  PROVE  AttemptInv'
<1> USE DEF workerVars
<1>1. Moves({}, {"stats", "next"})
  BY TerminationMoves
<1>2. stack = <<>> /\ Len(stack) = 0
  BY DEF PromiseConfirms, PromiseRejects, AttemptTimer, LateConfirm, EventLoop
<1>3. \A i \in 1..Len(stack') :
        stack'[i].at \notin {"discard"} \cup AttemptLabels
  BY <1>1, <1>2 DEF Moves, AttemptLabels
<1>4. UNCHANGED <<attempts, workers, used>>
  BY DEF PromiseConfirms, PromiseRejects, AttemptTimer, LateConfirm
<1>5. Confirm(w) \/ RecordFailure(w)
  BY DEF PromiseConfirms, PromiseRejects, AttemptTimer, LateConfirm
<1>6. \E s : /\ tstate' = [tstate EXCEPT ![w] = s]
             /\ s = "retry" => attempts[w] <= RetryAttempts
  BY <1>5, FailureSets DEF Confirm
<1> QED  BY <1>3, <1>4, <1>6, RecordAttempt

(* A promise that resolves past its deadline, ahead of the timer, leaves the *)
(* report of its success on the stack.                                       *)
LEMMA AttemptPastDeadline ==
  ASSUME TypeOK, AttemptInv, NEW w \in Workers,
         PromiseConfirmsPastDeadline(w)
  PROVE  AttemptInv'
<1> USE DEF workerVars
<1> DEFINE f == On("confirmed", w)
           g == At("stats")
           h == Yield("event", At("next"))
<1>1. f.at = "confirmed" /\ f.w = w /\ g.at = "stats" /\ h.at = "next"
  <2>1. f.at = "confirmed" /\ g.at = "stats" /\ h.at = "next"
    BY LabelsOf
  <2>2. f.w = w
    BY DEF On, At
  <2> QED  BY <2>1, <2>2
<1>2. stack' = <<f, g, h>>
  BY Joins DEF PromiseConfirmsPastDeadline, FailureReported, EventLoop
<1> HIDE DEF f, g, h
<1>3. Len(stack') = 3 /\ stack'[1] = f /\ stack'[2] = g /\ stack'[3] = h
  BY <1>2
<1>4. \A i \in 1..Len(stack') : i = 1 \/ i = 2 \/ i = 3
  BY <1>3
<1>5. /\ tstate[w] = "pending" /\ RecordFailure(w)
      /\ UNCHANGED <<attempts, workers, used>>
  BY DEF PromiseConfirmsPastDeadline
<1>6. /\ tstate'[w] \in {"retry", "exhausted"}
      /\ \A v \in Workers \ {w} : tstate'[v] = tstate[v]
      /\ tstate'[w] = "retry" => attempts[w] <= RetryAttempts
  <2>1. attempts[w] \in Nat /\ RetryAttempts \in Nat
    BY PoolAssumption DEF TypeOK
  <2> QED  BY <1>5, <2>1 DEF RecordFailure, Record, TypeOK
<1>7. AttemptsCounted'
  BY <1>5, <1>6 DEF AttemptInv, AttemptsCounted
<1>8. AttemptFrames'
  BY <1>1, <1>3, <1>4, <1>6 DEF AttemptFrames
<1>9. AttemptAlone'
  BY <1>1, <1>3, <1>4 DEF AttemptAlone, AttemptLabels
<1> QED  BY <1>7, <1>8, <1>9 DEF AttemptInv

(* The call of the terminator counts the attempt.                            *)
LEMMA AttemptStarts ==
  ASSUME TypeOK, Capacity, AttemptInv, Attempt
  PROVE  AttemptInv'
<1> USE DEF workerVars
<1> DEFINE w == Top.w
           n == Len(stack)
           f == Yield("terminator", On("attempted", w))
<1>1. f.at = "attempted" /\ f.w = w
  BY LabelsOf, FieldsOf
<1>2. Running("attempt") /\ Proceed(<<f>>)
  BY DEF Attempt
<1>3. /\ tstate' = tstate /\ UNCHANGED <<workers, used>>
      /\ attempts' = [attempts EXCEPT ![w] = @ + 1]
  BY DEF Attempt
<1> HIDE DEF f
<1>4. /\ w \in Workers /\ stack # <<>> /\ stack \in Seq(Frames)
      /\ Top.at = "attempt" /\ n \in 1..n /\ Top = stack[n]
  BY <1>2, RunningFrame, TopIsFrame DEF WorkerLabels
<1>5. \A i \in 1..(n - 1) : stack[i].at \in AttemptLabels => stack[i].w # w
  BY <1>2, AloneBelow DEF AttemptLabels
<1>6. /\ n \in Nat \ {0} /\ Len(stack') = n
      /\ \A i \in 1..(n - 1) : stack'[i] = stack[i]
      /\ stack'[n] = f
  BY <1>2, <1>4, Goes1
<1>7. tstate[w] = "attempting" /\ attempts[w] <= RetryAttempts
  BY <1>4 DEF AttemptInv, AttemptFrames
<1> HIDE DEF w
<1>8. /\ attempts[w] \in Nat /\ RetryAttempts \in Nat
      /\ attempts'[w] = attempts[w] + 1
      /\ \A v \in Workers \ {w} : attempts'[v] = attempts[v]
  BY <1>3, <1>4, PoolAssumption DEF TypeOK
<1>9. /\ w \in used /\ w \notin workers
      /\ \A i \in 1..n : stack[i].at = "discard" => stack[i].w # w
  BY <1>4, <1>7 DEF Capacity, Quarantined
<1>10. AttemptsCounted'
  BY <1>3, <1>7, <1>8, <1>9 DEF AttemptInv, AttemptsCounted
<1>11. \A i \in 1..Len(stack') :
         stack'[i].at \in {"discard"} \cup AttemptLabels =>
           \/ i = n /\ stack'[i] = f
           \/ /\ i \in 1..(n - 1) /\ i \in 1..n /\ stack'[i] = stack[i]
              /\ stack[i].w \in Workers \ {w}
  <2> SUFFICES ASSUME NEW i \in 1..Len(stack'), i # n,
                      stack'[i].at \in {"discard"} \cup AttemptLabels
               PROVE  /\ i \in 1..(n - 1) /\ i \in 1..n /\ stack'[i] = stack[i]
                      /\ stack[i].w \in Workers \ {w}
    BY <1>6
  <2>1. i \in 1..(n - 1) /\ i \in 1..n /\ stack'[i] = stack[i]
    BY <1>6
  <2>2. stack[i].w \in Workers
    BY <2>1, FrameWorker DEF AttemptLabels, WorkerLabels
  <2> QED  BY <1>5, <1>9, <2>1, <2>2
<1>12. AttemptFrames'
  <2> SUFFICES ASSUME NEW i \in 1..Len(stack'),
                      stack'[i].at \in {"discard"} \cup AttemptLabels
               PROVE  AttemptFrames!(i)'
    BY DEF AttemptFrames, AttemptLabels
  <2>1. CASE i = n /\ stack'[i] = f
    BY <1>1, <1>3, <1>7, <2>1
  <2>2. CASE /\ i \in 1..n /\ stack'[i] = stack[i]
             /\ stack[i].w \in Workers \ {w}
    BY <1>3, <1>8, <2>2 DEF AttemptInv, AttemptFrames
  <2> QED  BY <1>11, <2>1, <2>2
<1>13. AttemptAlone'
  <2> SUFFICES ASSUME NEW i \in 1..Len(stack'), NEW j \in 1..Len(stack'),
                      stack'[i].at \in AttemptLabels,
                      stack'[j].at \in AttemptLabels,
                      stack'[i].w = stack'[j].w
               PROVE  i = j
    BY DEF AttemptAlone
  <2>1. /\ \/ i = n /\ stack'[i] = f
           \/ i \in 1..n /\ stack'[i] = stack[i] /\ stack[i].w # w
        /\ \/ j = n /\ stack'[j] = f
           \/ j \in 1..n /\ stack'[j] = stack[j] /\ stack[j].w # w
    BY <1>11
  <2> QED  BY <1>1, <2>1 DEF AttemptInv, AttemptAlone
<1> QED  BY <1>10, <1>12, <1>13 DEF AttemptInv

(* A worker that is removed, a partially made one that is thrown away, or    *)
(* the retry timer begins an attempt.                                        *)
LEMMA AttemptBegins ==
  ASSUME TypeOK, Capacity, AttemptInv,
         Discard \/ RemoveWorker \/ \E w \in Workers : RetryTimer(w)
  PROVE  AttemptInv'
<1> USE DEF workerVars
<1>1. ASSUME Discard
      PROVE  AttemptInv'
  <2> DEFINE w == Top.w
             n == Len(stack)
             f == At("uncreated")
             g == On("attempt", w)
  <2>1. f.at = "uncreated" /\ g.at = "attempt" /\ g.w = w
    BY DEF At, On
  <2>2. Running("discard") /\ Proceed(<<f, g>>)
    BY <1>1 DEF Discard
  <2>3. /\ tstate' = [tstate EXCEPT ![w] = "attempting"]
        /\ UNCHANGED <<attempts, used, workers>>
    BY <1>1 DEF Discard
  <2> HIDE DEF f, g
  <2>4. /\ w \in Workers /\ stack # <<>> /\ stack \in Seq(Frames)
        /\ Top.at = "discard" /\ n \in 1..n /\ Top = stack[n]
    BY <2>2, RunningFrame, TopIsFrame DEF WorkerLabels
  <2>5. /\ n \in Nat \ {0} /\ Len(stack') = n + 1
        /\ \A i \in 1..(n - 1) : stack'[i] = stack[i]
        /\ stack'[n] = f /\ stack'[n + 1] = g
    BY <2>2, <2>4, Goes2
  <2>6. tstate[w] = "none" /\ attempts[w] = 0
    BY <2>4 DEF Capacity, Quarantined, AttemptInv, AttemptFrames
  <2> HIDE DEF w
  <2>7. attempts[w] <= RetryAttempts
    BY <2>6, PoolAssumption
  <2>8. \A i \in 1..n : stack[i].at \in AttemptLabels => stack[i].w # w
    BY <2>6, NoAttemptOf
  <2>9. \A i \in 1..Len(stack') :
          stack'[i].at \in {"discard"} \cup AttemptLabels =>
            \/ i = n + 1
            \/ /\ i \in 1..n /\ stack'[i] = stack[i]
               /\ stack[i].at \in AttemptLabels => stack[i].w # w
    BY <2>1, <2>5, <2>8 DEF AttemptLabels
  <2>10. n + 1 \in 1..Len(stack')
    BY <2>5
  <2> HIDE DEF n
  <2> QED  BY <2>1, <2>3, <2>4, <2>5, <2>7, <2>9, <2>10, NewAttempt DEF n
<1>2. ASSUME RemoveWorker
      PROVE  AttemptInv'
  <2> DEFINE w == Top.w
             n == Len(stack)
             g == Yield("event", On("attempt", w))
  <2>1. g.at = "attempt" /\ g.w = w
    BY LabelsOf, FieldsOf
  <2>2. Running("remove") /\ Proceed(<<g>>) /\ w \in workers
    BY <1>2 DEF RemoveWorker, MayRemove
  <2>3. /\ tstate' = [tstate EXCEPT ![w] = "attempting"]
        /\ UNCHANGED <<attempts, used>> /\ workers' \subseteq workers
    BY <1>2 DEF RemoveWorker
  <2> HIDE DEF g
  <2>4. w \in Workers /\ stack # <<>> /\ stack \in Seq(Frames)
    BY <2>2, RunningFrame DEF WorkerLabels
  <2>5. /\ n \in Nat \ {0} /\ Len(stack') = n
        /\ \A i \in 1..(n - 1) : stack'[i] = stack[i]
        /\ stack'[n] = g
    BY <2>2, <2>4, Goes1
  <2>6. tstate[w] = "none" /\ attempts[w] = 0
    BY <2>2, <2>4 DEF Capacity, Quarantined, AttemptInv, AttemptsCounted
  <2> HIDE DEF w
  <2>7. attempts[w] <= RetryAttempts
    BY <2>6, PoolAssumption
  <2>8. \A i \in 1..n : stack[i].at \in AttemptLabels => stack[i].w # w
    BY <2>6, NoAttemptOf
  <2>9. \A i \in 1..Len(stack') :
          stack'[i].at \in {"discard"} \cup AttemptLabels =>
            \/ i = n
            \/ /\ i \in 1..n /\ stack'[i] = stack[i]
               /\ stack[i].at \in AttemptLabels => stack[i].w # w
    BY <2>5, <2>8
  <2>10. n \in 1..Len(stack')
    BY <2>5
  <2> HIDE DEF n
  <2> QED  BY <2>1, <2>3, <2>4, <2>5, <2>7, <2>9, <2>10, NewAttempt DEF n
<1>3. ASSUME NEW w \in Workers, RetryTimer(w)
      PROVE  AttemptInv'
  <2> DEFINE g == On("attempt", w)
  <2>1. g.at = "attempt" /\ g.w = w
    BY LabelsOf, FieldsOf
  <2>2. EventLoop(<<g>>)
    BY <1>3 DEF RetryTimer
  <2> HIDE DEF g
  <2>3. /\ tstate' = [tstate EXCEPT ![w] = "attempting"]
        /\ UNCHANGED <<attempts, used, workers>> /\ tstate[w] = "retry"
    BY <1>3 DEF RetryTimer
  <2>4. Len(stack') = 1 /\ stack'[1] = g
    BY <2>2 DEF EventLoop
  <2>5. attempts[w] <= RetryAttempts
    BY <2>3 DEF AttemptInv, AttemptsCounted
  <2>6. 1 \in 1..Len(stack') /\ \A i \in 1..Len(stack') : i = 1
    BY <2>4
  <2> QED  BY <2>1, <2>3, <2>4, <2>5, <2>6, NewAttempt
<1> QED  BY <1>1, <1>2, <1>3

(* A factory gives a Worker object that the pool has not seen before.        *)
LEMMA AttemptsOfNew ==
  ASSUME TypeOK, AttemptInv, NEW w \in Workers,
         ConstructOk(w) \/ ConstructPartial(w)
  PROVE  AttemptInv'
<1> DEFINE n == Len(stack)
           l == IF ConstructOk(w) THEN "created" ELSE "discard"
<1> USE DEF termVars
<1>1. /\ w \notin used /\ used' = used \cup {w}
      /\ workers' \subseteq workers \cup {w}
      /\ UNCHANGED <<attempts, tstate>> /\ Running("construct")
  BY DEF ConstructOk, ConstructPartial
<1>2. attempts[w] = 0
  BY <1>1 DEF AttemptInv, AttemptsCounted
<1>3. PICK f : Proceed(<<f>>) /\ f.at \in {"created", "discard"} /\ f.w = w
  <2>1. CASE ConstructOk(w)
    <3> DEFINE f == Yield("event", On("created", w))
    <3>1. f.at = "created" /\ f.w = w
      BY LabelsOf, FieldsOf
    <3>2. Proceed(<<f>>)
      BY <2>1 DEF ConstructOk
    <3> HIDE DEF f
    <3> QED  BY <3>1, <3>2
  <2>2. CASE ConstructPartial(w)
    <3> DEFINE f == Yield("cleanup", On("discard", w))
    <3>1. f.at = "discard" /\ f.w = w
      BY LabelsOf, FieldsOf
    <3>2. Proceed(<<f>>)
      BY <2>2 DEF ConstructPartial
    <3> HIDE DEF f
    <3> QED  BY <3>1, <3>2
  <2> QED  BY <2>1, <2>2
<1>4. stack # <<>> /\ stack \in Seq(Frames)
  BY <1>1, RunningFrame
<1>5. /\ n \in Nat \ {0} /\ Len(stack') = n
      /\ \A i \in 1..(n - 1) : stack'[i] = stack[i]
      /\ stack'[n] = f
  BY <1>3, <1>4, Goes1
<1>6. \A i \in 1..Len(stack') :
        \/ i = n /\ stack'[i] = f
        \/ i \in 1..n /\ stack'[i] = stack[i]
  BY <1>5
<1>7. AttemptsCounted'
  BY <1>1, <1>2 DEF AttemptInv, AttemptsCounted
<1>8. AttemptFrames'
  BY <1>1, <1>2, <1>3, <1>6 DEF AttemptInv, AttemptFrames
<1>9. AttemptAlone'
  BY <1>3, <1>6 DEF AttemptInv, AttemptAlone, AttemptLabels
<1> QED  BY <1>7, <1>8, <1>9 DEF AttemptInv

(* Every step keeps the invariant of the attempts.                           *)
LEMMA NextAttempts ==
  ASSUME IInv, AttemptInv, [Next]_vars
  PROVE  AttemptInv'
<1> USE DEF IInv
<1>1. ASSUME WorkerQuiet
      PROVE  AttemptInv'
  BY <1>1, QuietAttempts
     DEF WorkerQuiet, AttemptsQuiet, Avoids, WorkLabels, AttemptLabels
<1>2. ASSUME WorkerStep
      PROVE  AttemptInv'
  BY <1>2, QuietAttempts, SchedulingNoAttempt, CreationNoAttempt,
     CallsNoAttempt, TerminationNoAttempt, ShutdownNoAttempt, AttemptEnds,
     AttemptAnswered, AttemptPastDeadline, AttemptStarts, AttemptBegins,
     AttemptsOfNew
     DEF WorkerStep
<1> QED  BY <1>1, <1>2, WorkerSteps

(* The invariant of the attempts holds, beside that of the bookkeeping: a    *)
(* worker that is being terminated is not managed any more.                  *)
LEMMA AttemptsHold == Spec => [](IInv /\ AttemptInv)
<1>1. Init => AttemptInv
  BY PoolAssumption
     DEF Init, AttemptInv, AttemptsCounted, AttemptFrames, AttemptAlone
<1>2. IInv /\ AttemptInv /\ [Next]_vars => AttemptInv'
  BY NextAttempts
<1> QED  BY <1>1, <1>2, Invariance, PTL DEF Spec

(* The terminator is called at most RetryAttempts + 1 times for a worker:    *)
(* however its retry timer, its attempt timer, its promise, shutdown and     *)
(* user code interleave, _attemptTermination counts each call and            *)
(* _terminationFailed schedules a retry only while one is left. No worker is *)
(* both managed and being terminated.                                        *)
THEOREM TerminationIsBounded == Spec => []TerminationBounded
<1>1. IInv /\ AttemptInv => TerminationBounded
  BY DEF IInv, Capacity, AttemptInv, AttemptsCounted, TerminationBounded
<1> QED  BY <1>1, AttemptsHold, PTL

-----------------------------------------------------------------------------
(* No worker gets more tasks than its two limits allow.                      *)

(* The frames that have chosen the worker of the next dispatch.              *)
ChoiceLabels == {"got", "finally", "created"}
(* What the two limits mean for a worker, and for one that does not exist    *)
(* yet.                                                                      *)
WorkersWithin ==
  \A w \in Workers :
    /\ Cardinality(activeTasks[w]) <= MaxConcurrent
    /\ taskCount[w] <= MaxTasksPerWorker
    /\ w \notin marked => taskCount[w] < MaxTasksPerWorker
    /\ w \notin used => /\ taskCount[w] = 0 /\ activeTasks[w] = {}
                        /\ w \notin marked
(* A chosen worker has room for one task more.                               *)
HasRoom(w) ==
  /\ w \in used /\ taskCount[w] < MaxTasksPerWorker
  /\ Cardinality(activeTasks[w]) < MaxConcurrent
Fits(f) ==
  /\ f.at \in {"got", "finally"} /\ f.w # NoWorker => HasRoom(f.w)
  /\ f.at = "created" =>
       f.w \in used /\ taskCount[f.w] = 0 /\ activeTasks[f.w] = {}
ChoiceFits == \A i \in 1..Len(stack) : Fits(stack[i])
(* The inductive invariant of the limits.                                    *)
BoundsInv == WorkersWithin /\ ChoiceFits

(* A step that takes no slot.                                                *)
NoDispatch ==
  /\ taskCount' = taskCount /\ used \subseteq used'
  /\ marked \subseteq marked' /\ marked' \subseteq marked \cup workers
  /\ \A w \in Workers : activeTasks'[w] \subseteq activeTasks[w]
(* ... and chooses no worker.                                                *)
BoundsQuiet == NoDispatch /\ Avoids(ChoiceLabels)

(* The slots of the workers.                                                 *)
LEMMA ActiveType ==
  ASSUME TypeOK
  PROVE  activeTasks \in [Workers -> SUBSET Tasks]
BY DEF TypeOK

(* The steps of the scheduling pass: those listed take no slot of a worker   *)
(* and choose no worker.                                                     *)
LEMMA SchedulingNoDispatch ==
  ASSUME TypeOK
  PROVE  /\ \A w \in Workers : PickExpired(w) => BoundsQuiet
         /\ PickNew => BoundsQuiet
<1> USE DEF poolVars, taskVars, settleVars, workerVars, schedVars, termVars,
     data, BoundsQuiet, NoDispatch, ChoiceLabels, Moves, Avoids, Usable
<1>1. \A w \in Workers : PickExpired(w) => BoundsQuiet
  BY SchedulingMoves DEF PickExpired
<1>2. PickNew => BoundsQuiet
  BY SchedulingMoves DEF PickNew
<1> QED  BY <1>1, <1>2

(* The steps that find or make a worker: those listed take no slot of a      *)
(* worker and choose no worker.                                              *)
LEMMA CreationNoDispatch ==
  ASSUME TypeOK
  PROVE  /\ \A w \in Workers : ConstructPartial(w) => BoundsQuiet
         /\ ConstructThrows => BoundsQuiet
         /\ Discard => BoundsQuiet
<1> USE DEF poolVars, taskVars, settleVars, workerVars, schedVars, termVars,
     data, BoundsQuiet, NoDispatch, ChoiceLabels, Moves, Avoids, Usable
<1>1. \A w \in Workers : ConstructPartial(w) => BoundsQuiet
  BY CreationMoves DEF ConstructPartial
<1>2. ConstructThrows => BoundsQuiet
  BY CreationMoves DEF ConstructThrows
<1>3. Discard => BoundsQuiet
  BY CreationMoves DEF Discard
<1> QED  BY <1>1, <1>2, <1>3

(* The steps of a task that runs on its worker: those listed take no slot of *)
(* a worker and choose no worker.                                            *)
LEMMA CallsNoDispatch ==
  ASSUME TypeOK
  PROVE  /\ \A t \in Tasks : Microtask(t) => BoundsQuiet
         /\ CallMethod => BoundsQuiet
         /\ MethodCalled => BoundsQuiet
         /\ CompleteIgnored => BoundsQuiet
         /\ CompleteTask => BoundsQuiet
         /\ Completed => BoundsQuiet
         /\ \A t \in Tasks : TaskTimer(t) => BoundsQuiet
         /\ \A w \in Workers : WorkerError(w) => BoundsQuiet
         /\ FailureStarts => BoundsQuiet
         /\ FailureEnds => BoundsQuiet
<1> USE DEF poolVars, taskVars, settleVars, workerVars, schedVars, termVars,
     data, BoundsQuiet, NoDispatch, ChoiceLabels, Moves, Avoids, Usable
<1>1. \A t \in Tasks : Microtask(t) => BoundsQuiet
  BY CallsMoves DEF Microtask
<1>2. CallMethod => BoundsQuiet
  BY CallsMoves DEF CallMethod
<1>3. MethodCalled => BoundsQuiet
  BY CallsMoves DEF MethodCalled
<1>4. CompleteIgnored => BoundsQuiet
  BY CallsMoves DEF CompleteIgnored
<1>5. CompleteTask => BoundsQuiet
  BY CallsMoves, ActiveType DEF CompleteTask
<1>6. Completed => BoundsQuiet
  BY CallsMoves DEF Completed
<1>7. \A t \in Tasks : TaskTimer(t) => BoundsQuiet
  BY CallsMoves DEF TaskTimer
<1>8. \A w \in Workers : WorkerError(w) => BoundsQuiet
  BY CallsMoves DEF WorkerError
<1>9. FailureStarts => BoundsQuiet
  BY CallsMoves DEF FailureStarts
<1>10. FailureEnds => BoundsQuiet
  BY CallsMoves DEF FailureEnds
<1> QED  BY <1>1, <1>2, <1>3, <1>4, <1>5, <1>6, <1>7, <1>8, <1>9, <1>10

(* The steps that terminate a worker: those listed take no slot of a worker  *)
(* and choose no worker.                                                     *)
LEMMA TerminationNoDispatch ==
  ASSUME TypeOK
  PROVE  /\ RemoveWorker => BoundsQuiet
         /\ RemoveSkipped => BoundsQuiet
         /\ Attempt => BoundsQuiet
         /\ TerminatorReturns => BoundsQuiet
         /\ TerminatorThrows => BoundsQuiet
         /\ TerminatorPromises => BoundsQuiet
         /\ \A w \in Workers : PromiseConfirms(w) => BoundsQuiet
         /\ \A w \in Workers : PromiseConfirmsPastDeadline(w) => BoundsQuiet
         /\ ConfirmedPastDeadline => BoundsQuiet
         /\ \A w \in Workers : PromiseRejects(w) => BoundsQuiet
         /\ \A w \in Workers : AttemptTimer(w) => BoundsQuiet
         /\ \A w \in Workers : LateConfirm(w) => BoundsQuiet
         /\ \A w \in Workers : RetryTimer(w) => BoundsQuiet
         /\ \A w \in Workers : LifetimeTimer(w) => BoundsQuiet
         /\ \A w \in Workers : IdleTimer(w) => BoundsQuiet
<1> USE DEF poolVars, taskVars, settleVars, workerVars, schedVars, termVars,
     data, BoundsQuiet, NoDispatch, ChoiceLabels, Moves, Avoids, Usable
<1>1. RemoveWorker => BoundsQuiet
  BY TerminationMoves DEF RemoveWorker
<1>2. RemoveSkipped => BoundsQuiet
  BY TerminationMoves DEF RemoveSkipped
<1>3. Attempt => BoundsQuiet
  BY TerminationMoves DEF Attempt
<1>4. TerminatorReturns => BoundsQuiet
  BY TerminationMoves DEF TerminatorReturns
<1>5. TerminatorThrows => BoundsQuiet
  BY TerminationMoves DEF TerminatorThrows
<1>6. TerminatorPromises => BoundsQuiet
  BY TerminationMoves DEF TerminatorPromises
<1>7. \A w \in Workers : PromiseConfirms(w) => BoundsQuiet
  BY TerminationMoves DEF PromiseConfirms
<1>8. \A w \in Workers : PromiseConfirmsPastDeadline(w) => BoundsQuiet
  BY TerminationMoves DEF PromiseConfirmsPastDeadline
<1>9. ConfirmedPastDeadline => BoundsQuiet
  BY TerminationMoves DEF ConfirmedPastDeadline
<1>10. \A w \in Workers : PromiseRejects(w) => BoundsQuiet
  BY TerminationMoves DEF PromiseRejects
<1>11. \A w \in Workers : AttemptTimer(w) => BoundsQuiet
  BY TerminationMoves DEF AttemptTimer
<1>12. \A w \in Workers : LateConfirm(w) => BoundsQuiet
  BY TerminationMoves DEF LateConfirm
<1>13. \A w \in Workers : RetryTimer(w) => BoundsQuiet
  BY TerminationMoves DEF RetryTimer
<1>14. \A w \in Workers : LifetimeTimer(w) => BoundsQuiet
  BY TerminationMoves DEF LifetimeTimer
<1>15. \A w \in Workers : IdleTimer(w) => BoundsQuiet
  BY TerminationMoves DEF IdleTimer
<1> QED  BY <1>1, <1>2, <1>3, <1>4, <1>5, <1>6, <1>7, <1>8, <1>9, <1>10,
     <1>11, <1>12, <1>13, <1>14, <1>15

(* The steps of the shutdown, of user code and of the clock: those listed    *)
(* take no slot of a worker and choose no worker.                            *)
LEMMA ShutdownNoDispatch ==
  ASSUME TypeOK
  PROVE  /\ TerminateWorkers => BoundsQuiet
         /\ TerminateWorker => BoundsQuiet
<1> USE DEF poolVars, taskVars, settleVars, workerVars, schedVars, termVars,
     data, BoundsQuiet, NoDispatch, ChoiceLabels, Moves, Avoids, Usable
<1>1. TerminateWorkers => BoundsQuiet
  BY ShutdownMoves DEF TerminateWorkers
<1>2. TerminateWorker => BoundsQuiet
  BY ShutdownMoves DEF TerminateWorker
<1> QED  BY <1>1, <1>2

(* A task that fails with its worker leaves its slot.                        *)
LEMMA FailuresNoDispatch ==
  ASSUME TypeOK, NEW t \in Tasks, FailTask(t) \/ TerminateTask(t)
  PROVE  BoundsQuiet
<1> USE DEF workerVars
<1>1. activeTasks' = [activeTasks EXCEPT ![Top.w] = @ \ {t}]
  BY DEF FailTask, TerminateTask
<1> DEFINE v == Top.w
<1>2. activeTasks' = [activeTasks EXCEPT ![v] = @ \ {t}]
  BY <1>1
<1> HIDE DEF v
<1>3. \A w \in Workers : activeTasks'[w] \subseteq activeTasks[w]
  BY <1>2, ActiveType
<1>4. UNCHANGED <<taskCount, used, marked>>
  BY DEF FailTask, TerminateTask
<1>5. \/ Moves({"failing"}, {"failing"})
      \/ Moves({"termtasks"}, {"termtasks"})
  BY CallsMoves, ShutdownMoves
<1>6. Avoids(ChoiceLabels)
  BY <1>5 DEF Moves, Avoids, ChoiceLabels
<1> QED  BY <1>3, <1>4, <1>6 DEF BoundsQuiet, NoDispatch

(* Fewer tasks take fewer slots.                                             *)
LEMMA ActiveCount ==
  ASSUME TypeOK, NEW w \in Workers
  PROVE  /\ IsFiniteSet(activeTasks[w]) /\ Cardinality(activeTasks[w]) \in Nat
         /\ \A S : S \subseteq activeTasks[w] =>
              /\ Cardinality(S) \in Nat
              /\ Cardinality(S) <= Cardinality(activeTasks[w])
<1>1. IsFiniteSet(Tasks)
  BY PoolAssumption, FS_Interval DEF Tasks
<1>2. activeTasks[w] \in SUBSET Tasks
  BY ActiveType
<1>3. IsFiniteSet(activeTasks[w])
  BY <1>1, <1>2, FS_Subset
<1> QED  BY <1>3, FS_Subset, FS_CardinalityType

(* The types of the numbers compared.                                        *)
LEMMA LimitTypes ==
  ASSUME TypeOK
  PROVE  /\ MaxConcurrent \in Nat \ {0} /\ MaxTasksPerWorker \in Nat \ {0}
         /\ \A w \in Workers : taskCount[w] \in Nat
BY PoolAssumption DEF TypeOK

(* Without a dispatch no worker gets fuller.                                 *)
LEMMA SameWorkers ==
  ASSUME TypeOK, Capacity, WorkersWithin, NoDispatch
  PROVE  /\ WorkersWithin'
         /\ \A w \in Workers : HasRoom(w) => HasRoom(w)'
<1>1. \A w \in Workers : w \in workers => w \in used
  BY DEF Capacity
<1>2. ASSUME NEW w \in Workers
      PROVE  /\ Cardinality(activeTasks'[w]) \in Nat
             /\ Cardinality(activeTasks[w]) \in Nat
             /\ Cardinality(activeTasks'[w]) <= Cardinality(activeTasks[w])
             /\ activeTasks[w] = {} => activeTasks'[w] = {}
  BY ActiveCount DEF NoDispatch
<1>3. WorkersWithin'
  <2> SUFFICES ASSUME NEW w \in Workers
               PROVE  WorkersWithin!(w)'
    BY DEF WorkersWithin
  <2>1. Cardinality(activeTasks'[w]) <= MaxConcurrent
    BY <1>2, LimitTypes DEF WorkersWithin
  <2>2. /\ taskCount'[w] <= MaxTasksPerWorker
        /\ w \notin marked' => taskCount'[w] < MaxTasksPerWorker
    BY DEF WorkersWithin, NoDispatch
  <2>3. w \notin used' => /\ taskCount'[w] = 0 /\ activeTasks'[w] = {}
                          /\ w \notin marked'
    BY <1>1, <1>2 DEF WorkersWithin, NoDispatch
  <2> QED  BY <2>1, <2>2, <2>3
<1>4. ASSUME NEW w \in Workers, HasRoom(w)
      PROVE  HasRoom(w)'
  BY <1>2, <1>4, LimitTypes DEF HasRoom, NoDispatch
<1> QED  BY <1>3, <1>4

(* A step that dispatches nothing keeps the invariant if the worker it       *)
(* chooses, if any, has room.                                                *)
LEMMA KeepsBounds ==
  ASSUME TypeOK, Capacity, BoundsInv, NoDispatch,
         \A i \in 1..Len(stack') :
           \/ i \in 1..Len(stack) /\ stack'[i] = stack[i]
           \/ stack'[i].at \notin ChoiceLabels
           \/ Fits(stack[i])'
  PROVE  BoundsInv'
<1>1. WorkersWithin' /\ \A w \in Workers : HasRoom(w) => HasRoom(w)'
  BY SameWorkers DEF BoundsInv
<1>2. ASSUME NEW i \in 1..Len(stack')
      PROVE  Fits(stack[i])'
  <2>1. CASE i \in 1..Len(stack) /\ stack'[i] = stack[i]
    <3>1. /\ stack[i] \in Frames /\ Fits(stack[i])
          /\ stack[i].w \in Workers \cup {NoWorker}
          /\ stack[i].at = "created" => stack[i].w \in Workers
      BY <2>1, ElementOfSeq
         DEF TypeOK, Frames, BoundsInv, ChoiceFits, WorkerLabels
    <3> QED  BY <1>1, <2>1, <3>1 DEF Fits, NoDispatch
  <2>2. CASE stack'[i].at \notin ChoiceLabels
    BY <2>2 DEF Fits, ChoiceLabels
  <2> QED  BY <1>2, <2>1, <2>2
<1> QED  BY <1>1, <1>2 DEF BoundsInv, ChoiceFits

(* The running method goes on with a choice.                                 *)
LEMMA ChoiceKeepsBounds ==
  ASSUME TypeOK, Capacity, BoundsInv, NoDispatch, stack # <<>>, NEW f,
         \/ Proceed(<<f>>)
         \/ \E g : Proceed(<<f, g>>) /\ g.at \notin ChoiceLabels
         \/ \E g, h, k : /\ Proceed(<<f, g, h, k>>)
                         /\ g.at \notin ChoiceLabels
                         /\ h.at \notin ChoiceLabels
                         /\ k.at \notin ChoiceLabels,
         Fits(f)'
  PROVE  BoundsInv'
<1>0. PICK n : n = Len(stack)
  OBVIOUS
<1>1. stack \in Seq(Frames)
  BY DEF TypeOK
<1>2. /\ n \in Nat \ {0} /\ stack'[n] = f
      /\ \A i \in 1..(n - 1) : stack'[i] = stack[i]
      /\ \A i \in 1..Len(stack') : i > n => stack'[i].at \notin ChoiceLabels
  <2>1. CASE Proceed(<<f>>)
    BY <1>0, <1>1, <2>1, Goes1
  <2>2. CASE \E g : Proceed(<<f, g>>) /\ g.at \notin ChoiceLabels
    <3>1. PICK g : Proceed(<<f, g>>) /\ g.at \notin ChoiceLabels
      BY <2>2
    <3>2. /\ n \in Nat \ {0} /\ Len(stack') = n + 1 /\ stack'[n] = f
          /\ stack'[n + 1] = g
          /\ \A i \in 1..(n - 1) : stack'[i] = stack[i]
      BY <1>0, <1>1, <3>1, Goes2
    <3>3. \A i \in 1..Len(stack') : i > n => i = n + 1
      BY <3>2
    <3> QED  BY <3>1, <3>2, <3>3
  <2>3. CASE \E g, h, k : /\ Proceed(<<f, g, h, k>>)
                          /\ g.at \notin ChoiceLabels
                          /\ h.at \notin ChoiceLabels
                          /\ k.at \notin ChoiceLabels
    <3>1. PICK g, h, k : /\ Proceed(<<f, g, h, k>>)
                         /\ g.at \notin ChoiceLabels
                         /\ h.at \notin ChoiceLabels
                         /\ k.at \notin ChoiceLabels
      BY <2>3
    <3>2. /\ n \in Nat \ {0} /\ Len(stack') = n + 3 /\ stack'[n] = f
          /\ stack'[n + 1] = g /\ stack'[n + 2] = h /\ stack'[n + 3] = k
          /\ \A i \in 1..(n - 1) : stack'[i] = stack[i]
      BY <1>0, <1>1, <3>1, Goes4
    <3>3. \A i \in 1..Len(stack') :
            i > n => i = n + 1 \/ i = n + 2 \/ i = n + 3
      BY <3>2
    <3> QED  BY <3>1, <3>2, <3>3
  <2> QED  BY <2>1, <2>2, <2>3
<1>3. \A i \in 1..Len(stack') :
        \/ i \in 1..n /\ stack'[i] = stack[i]
        \/ stack'[i].at \notin ChoiceLabels
        \/ i = n
  BY <1>0, <1>1, <1>2
<1>4. Fits(stack[n])'
  BY <1>2 DEF Fits, HasRoom
<1> QED  BY <1>0, <1>3, <1>4, KeepsBounds

(* A managed worker that is idle or has a free slot has room.                *)
LEMMA UsableHasRoom ==
  ASSUME TypeOK, Capacity, BoundsInv, NEW w, Usable(w) \/ HasSlot(w)
  PROVE  HasRoom(w)
<1>1. w \in Workers /\ w \in workers /\ w \notin marked /\ w \in used
  BY DEF Usable, HasSlot, Capacity, TypeOK
<1>2. Cardinality(activeTasks[w]) < MaxConcurrent
  BY <1>1, FS_EmptySet, LimitTypes DEF Usable, HasSlot, Busy
<1> QED  BY <1>1, <1>2 DEF HasRoom, BoundsInv, WorkersWithin

(* The scheduler chooses a worker with room.                                 *)
LEMMA ChoicesKeepBounds ==
  ASSUME TypeOK, Capacity, BoundsInv,
         PickLoaded \/ Uncreated \/ \E w \in Workers : PickIdle(w)
  PROVE  BoundsInv'
<1> USE DEF workerVars
<1>1. PICK f : Proceed(<<f>>) /\ (f.w = NoWorker \/ HasRoom(f.w))
               /\ f.at # "created" /\ (f.w # NoWorker => f.w \in Workers)
  <2>1. ASSUME NEW w \in Workers, HasRoom(w), NEW l \in {"got", "finally"},
               Proceed(<<On(l, w)>>)
        PROVE  \E f : Proceed(<<f>>) /\ (f.w = NoWorker \/ HasRoom(f.w))
                      /\ f.at # "created"
                      /\ (f.w # NoWorker => f.w \in Workers)
    <3> DEFINE f == On(l, w)
    <3>1. f.w = w
      BY DEF On, At
    <3>2. f.at = l
      BY LabelsOf
    <3>3. Proceed(<<f>>)
      BY <2>1
    <3> HIDE DEF f
    <3> QED  BY <2>1, <3>1, <3>2, <3>3
  <2>2. LeastLoaded \subseteq Workers /\ \A w \in LeastLoaded : HasRoom(w)
    BY UsableHasRoom DEF LeastLoaded, TypeOK
  <2>3. CASE PickLoaded
    <3>1. CASE Proceed(<<At("endpass")>>)
      <4> DEFINE f == At("endpass")
      <4>1. f.w = NoWorker
        BY FieldsOf
      <4>2. f.at = "endpass"
        BY LabelsOf
      <4>3. Proceed(<<f>>)
        BY <3>1
      <4> HIDE DEF f
      <4> QED  BY <4>1, <4>2, <4>3
    <3>2. CASE \E w \in LeastLoaded : Proceed(<<On("got", w)>>)
      BY <2>1, <2>2, <3>2
    <3> QED  BY <2>3, <3>1, <3>2 DEF PickLoaded
  <2>4. CASE Uncreated
    <3> DEFINE f == [At("finally") EXCEPT !.why = "broken"]
    <3>1. f.w = NoWorker /\ f.at = "finally"
      BY DEF At
    <3>2. \/ Proceed(<<f>>)
          \/ \E w \in LeastLoaded : Proceed(<<On("finally", w)>>)
      BY <2>4 DEF Uncreated
    <3> HIDE DEF f
    <3> QED  BY <2>1, <2>2, <3>1, <3>2
  <2>5. CASE \E w \in Workers : PickIdle(w)
    <3>1. PICK w \in Workers : PickIdle(w)
      BY <2>5
    <3>2. Usable(w) /\ Proceed(<<On("got", w)>>)
      BY <3>1 DEF PickIdle
    <3> QED  BY <2>1, <3>2, UsableHasRoom
  <2> QED  BY <2>3, <2>4, <2>5
<1>2. NoDispatch /\ stack # <<>>
  BY DEF PickLoaded, Uncreated, PickIdle, MarkExpired, NoDispatch, Running
<1>3. Fits(f)'
  <2>1. \A w \in Workers : HasRoom(w) => HasRoom(w)'
    BY <1>2, SameWorkers DEF BoundsInv
  <2> QED  BY <1>1, <2>1 DEF Fits
<1> QED  BY <1>1, <1>2, <1>3, ChoiceKeepsBounds

(* A new worker has no task.                                                 *)
LEMMA CreationKeepsBounds ==
  ASSUME TypeOK, Capacity, BoundsInv, NEW w \in Workers, ConstructOk(w)
  PROVE  BoundsInv'
<1> USE DEF workerVars
<1> DEFINE f == Yield("event", On("created", w))
<1>1. f.at = "created" /\ f.w = w
  BY LabelsOf, FieldsOf
<1>2. Proceed(<<f>>) /\ stack # <<>> /\ NoDispatch
  BY DEF ConstructOk, NoDispatch, Running
<1> HIDE DEF f
<1>3. /\ w \in used' /\ taskCount'[w] = 0 /\ activeTasks'[w] = {}
  BY DEF ConstructOk, BoundsInv, WorkersWithin
<1>4. Fits(f)'
  BY <1>1, <1>3 DEF Fits
<1> QED  BY <1>2, <1>4, ChoiceKeepsBounds

(* The worker chosen stays chosen when the event handlers return, and an     *)
(* expired or terminated one is not chosen.                                  *)
LEMMA HandoverKeepsBounds ==
  ASSUME TypeOK, Capacity, BoundsInv,
         CreatedReady \/ CreatedExpired \/ CreatedTooLate \/ Finally
  PROVE  BoundsInv'
<1> USE DEF workerVars
<1>1. ASSUME CreatedReady
      PROVE  BoundsInv'
  <2>0. PICK w : w = Top.w
    OBVIOUS
  <2> DEFINE f == On("finally", w)
  <2>1. f.at = "finally" /\ f.w = w
    BY DEF On, At
  <2>2. Proceed(<<f>>) /\ Running("created") /\ NoDispatch
    BY <1>1, <2>0 DEF CreatedReady, NoDispatch
  <2> HIDE DEF f
  <2>3. /\ stack # <<>> /\ Top = stack[Len(stack)]
        /\ Len(stack) \in 1..Len(stack)
        /\ w \in Workers /\ Top.at = "created"
    BY <2>0, <2>2, RunningFrame, TopIsFrame DEF WorkerLabels
  <2>4. w \in used /\ taskCount[w] = 0 /\ activeTasks[w] = {}
    BY <2>0, <2>3 DEF BoundsInv, ChoiceFits, Fits
  <2>5. HasRoom(w)'
    <3>1. HasRoom(w)
      BY <2>4, FS_EmptySet, LimitTypes DEF HasRoom
    <3> QED  BY <2>2, <2>3, <3>1, SameWorkers DEF BoundsInv
  <2>6. Fits(f)'
    BY <2>1, <2>5 DEF Fits
  <2> QED  BY <2>2, <2>3, <2>6, ChoiceKeepsBounds
<1>2. ASSUME CreatedExpired
      PROVE  BoundsInv'
  <2> DEFINE f == At("finally")
             g == At("stats")
             h == At("next")
             k == Remove(Top.w, "soft")
  <2>1. f.at = "finally" /\ g.at = "stats" /\ h.at = "next" /\ k.at = "remove"
    BY LabelsOf
  <2>2. f.w = NoWorker
    BY FieldsOf
  <2>3. Proceed(<<f, g, h, k>>) /\ stack # <<>>
    BY <1>2 DEF CreatedExpired, Running
  <2> HIDE DEF f, g, h, k
  <2>4. NoDispatch
    BY <1>2 DEF CreatedExpired, NoDispatch
  <2>5. Fits(f)'
    BY <2>1, <2>2 DEF Fits
  <2> QED  BY <2>1, <2>3, <2>4, <2>5, ChoiceKeepsBounds DEF ChoiceLabels
<1>3. ASSUME CreatedTooLate
      PROVE  BoundsInv'
  <2> DEFINE f == At("finally")
             g == Remove(Top.w, "force")
  <2>1. f.at = "finally" /\ g.at = "remove"
    BY LabelsOf
  <2>2. f.w = NoWorker
    BY FieldsOf
  <2>3. Proceed(<<f, g>>) /\ stack # <<>>
    BY <1>3 DEF CreatedTooLate, Running
  <2> HIDE DEF f, g
  <2>4. NoDispatch
    BY <1>3 DEF CreatedTooLate, NoDispatch, data
  <2>5. Fits(f)'
    BY <2>1, <2>2 DEF Fits
  <2> QED  BY <2>1, <2>3, <2>4, <2>5, ChoiceKeepsBounds DEF ChoiceLabels
<1>4. ASSUME Finally
      PROVE  BoundsInv'
  <2>0. PICK w, why : w = Top.w /\ why = Top.why
    OBVIOUS
  <2> DEFINE f == IF w # NoWorker THEN On("got", w)
                  ELSE At(IF why = "broken" THEN "broken" ELSE "endpass")
             g == At("stats")
  <2>1. /\ g.at = "stats"
        /\ f.at \in {"got", "broken", "endpass"}
        /\ f.at = "got" => f.w = w
    BY DEF At, On
  <2>2. /\ Proceed(<<f, g>>) \/ Proceed(<<f>>)
        /\ Running("finally") /\ NoDispatch
    BY <1>4, <2>0 DEF Finally, NoDispatch
  <2> HIDE DEF f, g
  <2>3. /\ stack # <<>> /\ Top = stack[Len(stack)]
        /\ Len(stack) \in 1..Len(stack)
        /\ w \in Workers \cup {NoWorker} /\ Top.at = "finally"
    BY <2>0, <2>2, RunningFrame, TopIsFrame
  <2>4. w # NoWorker => HasRoom(w)
    BY <2>0, <2>3 DEF BoundsInv, ChoiceFits, Fits
  <2>5. w # NoWorker => HasRoom(w)'
    BY <2>2, <2>3, <2>4, SameWorkers DEF BoundsInv
  <2>6. Fits(f)'
    BY <2>1, <2>5 DEF Fits
  <2>7. g.at \notin ChoiceLabels
    BY <2>1 DEF ChoiceLabels
  <2> QED  BY <2>2, <2>3, <2>6, <2>7, ChoiceKeepsBounds
<1> QED  BY <1>1, <1>2, <1>3, <1>4

(* The dispatched task takes the slot and the turn that were left; no other  *)
(* method has chosen a worker.                                               *)
LEMMA DispatchKeepsBounds ==
  ASSUME TypeOK, SchedulerExclusive, BoundsInv, NEW late, Dispatch(late)
  PROVE  BoundsInv'
<1> DEFINE w == Top.w
           n == Len(stack)
           f == Yield("event", At("loop"))
<1> USE DEF workerVars
<1>1. f.at = "loop"
  BY LabelsOf
<1>2. PICK t \in Tasks :
        /\ activeTasks' = [activeTasks EXCEPT ![w] = @ \cup {t}]
        /\ taskCount' = [taskCount EXCEPT ![w] = @ + 1]
        /\ marked' = IF taskCount[w] + 1 >= MaxTasksPerWorker
                     THEN marked \cup {w} ELSE marked
        /\ used' = used
        /\ Proceed(<<f, Fail(w, <<t>>)>>) \/ Proceed(<<f>>)
  <2>1. \A t \in Firsts(queue, priority) : t \in Tasks
    BY QueueTasks DEF Firsts
  <2> QED  BY <2>1 DEF Dispatch
<1> DEFINE g == Fail(w, <<t>>)
<1>3. g.at = "fail" /\ (Proceed(<<f, g>>) \/ Proceed(<<f>>))
  BY <1>2, LabelsOf
<1> HIDE DEF f, g
<1>4. stack # <<>> /\ stack \in Seq(Frames)
  BY RunningFrame DEF Dispatch
<1>5. /\ n \in Nat \ {0} /\ stack'[n] = f
      /\ \A i \in 1..Len(stack') :
           \/ i = n
           \/ i \in 1..n /\ stack'[i] = stack[i]
           \/ stack'[i].at = "fail"
  <2>1. CASE Proceed(<<f>>)
    <3>1. /\ n \in Nat \ {0} /\ Len(stack') = n
          /\ \A i \in 1..(n - 1) : stack'[i] = stack[i]
          /\ stack'[n] = f
      BY <1>4, <2>1, Goes1
    <3> QED  BY <3>1
  <2>2. CASE Proceed(<<f, g>>)
    <3>1. /\ n \in Nat \ {0} /\ Len(stack') = n + 1
          /\ \A i \in 1..(n - 1) : stack'[i] = stack[i]
          /\ stack'[n] = f /\ stack'[n + 1] = g
      BY <1>4, <2>2, Goes2
    <3> QED  BY <1>3, <3>1
  <2> QED  BY <1>3, <2>1, <2>2
<1>6. /\ Running("got") /\ Top = stack[n] /\ n \in 1..n /\ Top.at = "got"
      /\ w \in Workers /\ NoWorker \notin Workers
  BY RunningFrame, TopIsFrame, PoolAssumption DEF Dispatch, WorkerLabels
<1>7. HasRoom(w)
  BY <1>6 DEF BoundsInv, ChoiceFits, Fits
<1>8. \A i \in 1..n : stack[i].at \in SchedLabels => i = n
  BY <1>6 DEF SchedulerExclusive, SchedLabels
<1>9. ChoiceFits'
  BY <1>1, <1>5, <1>8 DEF ChoiceFits, Fits, SchedLabels, CreateLabels
<1> HIDE DEF w, n
<1>10. /\ \A v \in Workers \ {w} : /\ activeTasks'[v] = activeTasks[v]
                                   /\ taskCount'[v] = taskCount[v]
                                   /\ v \in marked' <=> v \in marked
       /\ activeTasks'[w] = activeTasks[w] \cup {t}
       /\ taskCount'[w] = taskCount[w] + 1
  BY <1>2, <1>6, ActiveType DEF TypeOK
<1>11. Cardinality(activeTasks'[w]) <= MaxConcurrent
  <2>1. /\ Cardinality(activeTasks[w] \cup {t}) \in
             {Cardinality(activeTasks[w]), Cardinality(activeTasks[w]) + 1}
        /\ Cardinality(activeTasks[w]) \in Nat
    BY <1>6, ActiveCount, FS_AddElement
  <2> QED  BY <1>7, <1>10, <2>1, LimitTypes DEF HasRoom
<1>12. /\ taskCount'[w] <= MaxTasksPerWorker
       /\ w \notin marked' => taskCount'[w] < MaxTasksPerWorker
       /\ w \in used'
  BY <1>2, <1>6, <1>7, <1>10, LimitTypes DEF HasRoom
<1>13. WorkersWithin'
  BY <1>2, <1>10, <1>11, <1>12 DEF BoundsInv, WorkersWithin
<1> QED  BY <1>9, <1>13 DEF BoundsInv

(* Every step keeps the invariant of the limits.                             *)
LEMMA NextBounds ==
  ASSUME IInv, BoundsInv, [Next]_vars
  PROVE  BoundsInv'
<1> USE DEF IInv
<1>1. ASSUME BoundsQuiet
      PROVE  BoundsInv'
  BY <1>1, KeepsBounds DEF BoundsQuiet, Avoids
<1>2. ASSUME WorkerQuiet
      PROVE  BoundsInv'
  BY <1>1, <1>2
     DEF WorkerQuiet, BoundsQuiet, NoDispatch, Avoids, WorkLabels, ChoiceLabels
<1>3. ASSUME WorkerStep
      PROVE  BoundsInv'
  BY <1>1, <1>3, SchedulingNoDispatch, CreationNoDispatch, CallsNoDispatch,
     TerminationNoDispatch, ShutdownNoDispatch, FailuresNoDispatch,
     ChoicesKeepBounds, CreationKeepsBounds, HandoverKeepsBounds,
     DispatchKeepsBounds
     DEF WorkerStep
<1> QED  BY <1>2, <1>3, WorkerSteps

(* The limits hold with their invariant.                                     *)
LEMMA BoundsHold == Spec => [](IInv /\ BoundsInv)
<1>1. ASSUME Init
      PROVE  BoundsInv
  <2>1. WorkersWithin
    BY <1>1, FS_EmptySet, PoolAssumption DEF Init, WorkersWithin
  <2>2. ChoiceFits
    BY <1>1 DEF Init, ChoiceFits
  <2> QED  BY <2>1, <2>2 DEF BoundsInv
<1>2. IInv /\ BoundsInv /\ [Next]_vars => BoundsInv'
  BY NextBounds
<1> QED  BY <1>1, <1>2, Invariance, PTL DEF Spec

(* No worker ever runs more than maxConcurrentTasksPerWorker tasks or is     *)
(* given more than maxTasksPerWorker in its life: nothing between the choice *)
(* of a worker in _getAvailableWorker and the count in _dispatch, the        *)
(* callback of a new worker included, takes the slot that was seen free.     *)
THEOREM WorkersAreBounded == Spec => []WorkerBounds
<1>1. BoundsInv => WorkerBounds
  BY DEF BoundsInv, WorkersWithin, WorkerBounds
<1> QED  BY <1>1, BoundsHold, PTL

-----------------------------------------------------------------------------
(* The idle set is exact.                                                    *)

(* The frames of code that retires a worker, or settles what it does next.   *)
OwnLabels == {"failing", "remove", "created", "completed", "termtasks"}
Excuse(f, w) == f.at = "termworkers" \/ (f.at \in OwnLabels /\ f.w = w)
Excused(w) == \E i \in 1..Len(stack) : Excuse(stack[i], w)
(* The failure or the removal of w runs, and user code cannot interrupt it.  *)
Leaving(w) == Departing /\ Top.w = w
(* A worker that may be idle: one marked for termination is on its way out.  *)
Ready(w) == w \in workers /\ ~Busy(w) /\ (w \in marked => Leaving(w))

(* A failure starts without a callback in between.                           *)
PlainFails ==
  \A i \in 1..Len(stack) : stack[i].at = "fail" => stack[i].cb = "none"
(* Idle workers are ready ...                                                *)
IdleReady == \A w \in idleWorkers : Ready(w)
(* ... and so is a new one that is still managed when its event returns.     *)
NewReady ==
  \A i \in 1..Len(stack) :
    stack[i].at = "created" /\ stack[i].w \in workers => Ready(stack[i].w)
(* While a worker is being made no other one is idle.                        *)
MakeLabels == {"construct", "discard", "uncreated"}
NoneIdle ==
  \A i \in 1..Len(stack) : stack[i].at \in MakeLabels => idleWorkers = {}
(* A managed worker without a task is idle, or some code is about to deal    *)
(* with it.                                                                  *)
NoneForgotten ==
  \A w \in workers : Busy(w) \/ w \in idleWorkers \/ Excused(w)
(* The inductive invariant of the idle set.                                  *)
IdleInv == PlainFails /\ IdleReady /\ NewReady /\ NoneIdle /\ NoneForgotten

(* A step that leaves the workers, and what happens to them, alone.          *)
IdleQuiet ==
  /\ UNCHANGED <<workers, idleWorkers, marked, activeTasks>>
  /\ Keeps(ExcuseLabels) /\ Avoids({"created"} \cup MakeLabels)
  /\ stack' = stack \/ ~Departing

(* The steps that find or make a worker: those listed leave the idle set as  *)
(* it is.                                                                    *)
LEMMA CreationSameIdle ==
  ASSUME TypeOK
  PROVE  /\ Finally => IdleQuiet
<1> USE DEF poolVars, taskVars, settleVars, workerVars, schedVars, termVars,
     data, IdleQuiet, Departing, MakeLabels, ExcuseLabels, Moves, Avoids,
     Keeps, Running, UserCall, InCallback, EventLoop, Callbacks
<1>1. Finally => IdleQuiet
  BY CreationMoves, PoolAssumption DEF Finally
<1> QED  BY <1>1

(* The steps of a task that runs on its worker: those listed leave the idle  *)
(* set as it is.                                                             *)
LEMMA CallsSameIdle ==
  ASSUME TypeOK
  PROVE  /\ \A t \in Tasks : Microtask(t) => IdleQuiet
         /\ CallMethod => IdleQuiet
         /\ MethodCalled => IdleQuiet
         /\ CompleteIgnored => IdleQuiet
         /\ \A t \in Tasks : TaskTimer(t) => IdleQuiet
         /\ \A w \in Workers : WorkerError(w) => IdleQuiet
<1> USE DEF poolVars, taskVars, settleVars, workerVars, schedVars, termVars,
     data, IdleQuiet, Departing, MakeLabels, ExcuseLabels, Moves, Avoids,
     Keeps, Running, UserCall, InCallback, EventLoop, Callbacks
<1>1. \A t \in Tasks : Microtask(t) => IdleQuiet
  BY ZenonT(40), CallsMoves, PoolAssumption DEF Microtask
<1>2. CallMethod => IdleQuiet
  BY ZenonT(40), CallsMoves, PoolAssumption DEF CallMethod
<1>3. MethodCalled => IdleQuiet
  BY ZenonT(40), CallsMoves, PoolAssumption DEF MethodCalled
<1>4. CompleteIgnored => IdleQuiet
  BY ZenonT(40), CallsMoves, PoolAssumption DEF CompleteIgnored
<1>5. \A t \in Tasks : TaskTimer(t) => IdleQuiet
  BY ZenonT(40), CallsMoves, PoolAssumption DEF TaskTimer
<1>6. \A w \in Workers : WorkerError(w) => IdleQuiet
  BY ZenonT(40), CallsMoves, PoolAssumption DEF WorkerError
<1> QED  BY <1>1, <1>2, <1>3, <1>4, <1>5, <1>6

(* The steps that terminate a worker: those listed leave the idle set as it  *)
(* is.                                                                       *)
LEMMA TerminationSameIdle ==
  ASSUME TypeOK
  PROVE  /\ Attempt => IdleQuiet
         /\ TerminatorReturns => IdleQuiet
         /\ TerminatorThrows => IdleQuiet
         /\ TerminatorPromises => IdleQuiet
         /\ \A w \in Workers : PromiseConfirms(w) => IdleQuiet
         /\ \A w \in Workers : PromiseConfirmsPastDeadline(w) => IdleQuiet
         /\ ConfirmedPastDeadline => IdleQuiet
         /\ \A w \in Workers : PromiseRejects(w) => IdleQuiet
         /\ \A w \in Workers : AttemptTimer(w) => IdleQuiet
         /\ \A w \in Workers : LateConfirm(w) => IdleQuiet
         /\ \A w \in Workers : RetryTimer(w) => IdleQuiet
         /\ \A w \in Workers : IdleTimer(w) => IdleQuiet
<1> USE DEF poolVars, taskVars, settleVars, workerVars, schedVars, termVars,
     data, IdleQuiet, Departing, MakeLabels, ExcuseLabels, Moves, Avoids,
     Keeps, Running, UserCall, InCallback, EventLoop, Callbacks
<1>1. Attempt => IdleQuiet
  BY ZenonT(40), TerminationMoves, PoolAssumption DEF Attempt
<1>2. TerminatorReturns => IdleQuiet
  BY ZenonT(40), TerminationMoves, PoolAssumption DEF TerminatorReturns
<1>3. TerminatorThrows => IdleQuiet
  BY ZenonT(40), TerminationMoves, PoolAssumption DEF TerminatorThrows
<1>4. TerminatorPromises => IdleQuiet
  BY ZenonT(40), TerminationMoves, PoolAssumption DEF TerminatorPromises
<1>5. \A w \in Workers : PromiseConfirms(w) => IdleQuiet
  BY ZenonT(40), TerminationMoves, PoolAssumption DEF PromiseConfirms
<1>6. \A w \in Workers : PromiseConfirmsPastDeadline(w) => IdleQuiet
  BY ZenonT(40), TerminationMoves, PoolAssumption DEF PromiseConfirmsPastDeadline
<1>7. ConfirmedPastDeadline => IdleQuiet
  BY ZenonT(40), TerminationMoves, PoolAssumption DEF ConfirmedPastDeadline
<1>8. \A w \in Workers : PromiseRejects(w) => IdleQuiet
  BY ZenonT(40), TerminationMoves, PoolAssumption DEF PromiseRejects
<1>9. \A w \in Workers : AttemptTimer(w) => IdleQuiet
  BY ZenonT(40), TerminationMoves, PoolAssumption DEF AttemptTimer
<1>10. \A w \in Workers : LateConfirm(w) => IdleQuiet
  BY ZenonT(40), TerminationMoves, PoolAssumption DEF LateConfirm
<1>11. \A w \in Workers : RetryTimer(w) => IdleQuiet
  BY ZenonT(40), TerminationMoves, PoolAssumption DEF RetryTimer
<1>12. \A w \in Workers : IdleTimer(w) => IdleQuiet
  BY ZenonT(40), TerminationMoves, PoolAssumption DEF IdleTimer
<1> QED  BY <1>1, <1>2, <1>3, <1>4, <1>5, <1>6, <1>7, <1>8, <1>9, <1>10,
     <1>11, <1>12
(* The steps of the scheduling pass: those listed start no failure.          *)
LEMMA SchedulingOpensNoFail ==
  ASSUME TypeOK
  PROVE  /\ \A w \in Workers : PickIdle(w) => Avoids({"fail"})
         /\ \A w \in Workers : PickExpired(w) => Avoids({"fail"})
         /\ PickNew => Avoids({"fail"})
         /\ PickLoaded => Avoids({"fail"})
<1> USE DEF Moves, Avoids
<1>1. \A w \in Workers : PickIdle(w) => Avoids({"fail"})
  BY SchedulingMoves
<1>2. \A w \in Workers : PickExpired(w) => Avoids({"fail"})
  BY SchedulingMoves
<1>3. PickNew => Avoids({"fail"})
  BY SchedulingMoves
<1>4. PickLoaded => Avoids({"fail"})
  BY SchedulingMoves
<1> QED  BY <1>1, <1>2, <1>3, <1>4

(* The steps that find or make a worker: those listed start no failure.      *)
LEMMA CreationOpensNoFail ==
  ASSUME TypeOK
  PROVE  /\ \A w \in Workers : ConstructOk(w) => Avoids({"fail"})
         /\ \A w \in Workers : ConstructPartial(w) => Avoids({"fail"})
         /\ ConstructThrows => Avoids({"fail"})
         /\ Discard => Avoids({"fail"})
         /\ Uncreated => Avoids({"fail"})
         /\ CreatedReady => Avoids({"fail"})
         /\ CreatedExpired => Avoids({"fail"})
         /\ CreatedTooLate => Avoids({"fail"})
         /\ Finally => Avoids({"fail"})
<1> USE DEF Moves, Avoids
<1>1. \A w \in Workers : ConstructOk(w) => Avoids({"fail"})
  BY CreationMoves
<1>2. \A w \in Workers : ConstructPartial(w) => Avoids({"fail"})
  BY CreationMoves
<1>3. ConstructThrows => Avoids({"fail"})
  BY CreationMoves
<1>4. Discard => Avoids({"fail"})
  BY CreationMoves
<1>5. Uncreated => Avoids({"fail"})
  BY CreationMoves
<1>6. CreatedReady => Avoids({"fail"})
  BY CreationMoves
<1>7. CreatedExpired => Avoids({"fail"})
  BY CreationMoves
<1>8. CreatedTooLate => Avoids({"fail"})
  BY CreationMoves
<1>9. Finally => Avoids({"fail"})
  BY CreationMoves
<1> QED  BY <1>1, <1>2, <1>3, <1>4, <1>5, <1>6, <1>7, <1>8, <1>9

(* The steps of a task that runs on its worker: those listed start no        *)
(* failure.                                                                  *)
LEMMA CallsOpensNoFail ==
  ASSUME TypeOK
  PROVE  /\ CompleteTask => Avoids({"fail"})
         /\ Completed => Avoids({"fail"})
         /\ FailureStarts => Avoids({"fail"})
         /\ \A t \in Tasks : FailTask(t) => Avoids({"fail"})
         /\ FailureEnds => Avoids({"fail"})
<1> USE DEF Moves, Avoids
<1>1. CompleteTask => Avoids({"fail"})
  BY CallsMoves
<1>2. Completed => Avoids({"fail"})
  BY CallsMoves
<1>3. FailureStarts => Avoids({"fail"})
  BY CallsMoves
<1>4. \A t \in Tasks : FailTask(t) => Avoids({"fail"})
  BY CallsMoves
<1>5. FailureEnds => Avoids({"fail"})
  BY CallsMoves
<1> QED  BY <1>1, <1>2, <1>3, <1>4, <1>5

(* The steps that terminate a worker: those listed start no failure.         *)
LEMMA TerminationOpensNoFail ==
  ASSUME TypeOK
  PROVE  /\ RemoveWorker => Avoids({"fail"})
         /\ RemoveSkipped => Avoids({"fail"})
         /\ Attempt => Avoids({"fail"})
         /\ TerminatorReturns => Avoids({"fail"})
         /\ TerminatorThrows => Avoids({"fail"})
         /\ TerminatorPromises => Avoids({"fail"})
         /\ \A w \in Workers : PromiseConfirms(w) => Avoids({"fail"})
         /\ \A w \in Workers : PromiseConfirmsPastDeadline(w) =>
              Avoids({"fail"})
         /\ ConfirmedPastDeadline => Avoids({"fail"})
         /\ \A w \in Workers : PromiseRejects(w) => Avoids({"fail"})
         /\ \A w \in Workers : AttemptTimer(w) => Avoids({"fail"})
         /\ \A w \in Workers : LateConfirm(w) => Avoids({"fail"})
         /\ \A w \in Workers : RetryTimer(w) => Avoids({"fail"})
         /\ \A w \in Workers : LifetimeTimer(w) => Avoids({"fail"})
         /\ \A w \in Workers : IdleTimer(w) => Avoids({"fail"})
<1> USE DEF Moves, Avoids
<1>1. RemoveWorker => Avoids({"fail"})
  BY TerminationMoves
<1>2. RemoveSkipped => Avoids({"fail"})
  BY TerminationMoves
<1>3. Attempt => Avoids({"fail"})
  BY TerminationMoves
<1>4. TerminatorReturns => Avoids({"fail"})
  BY TerminationMoves
<1>5. TerminatorThrows => Avoids({"fail"})
  BY TerminationMoves
<1>6. TerminatorPromises => Avoids({"fail"})
  BY TerminationMoves
<1>7. \A w \in Workers : PromiseConfirms(w) => Avoids({"fail"})
  BY TerminationMoves
<1>8. \A w \in Workers : PromiseConfirmsPastDeadline(w) => Avoids({"fail"})
  BY TerminationMoves
<1>9. ConfirmedPastDeadline => Avoids({"fail"})
  BY TerminationMoves
<1>10. \A w \in Workers : PromiseRejects(w) => Avoids({"fail"})
  BY TerminationMoves
<1>11. \A w \in Workers : AttemptTimer(w) => Avoids({"fail"})
  BY TerminationMoves
<1>12. \A w \in Workers : LateConfirm(w) => Avoids({"fail"})
  BY TerminationMoves
<1>13. \A w \in Workers : RetryTimer(w) => Avoids({"fail"})
  BY TerminationMoves
<1>14. \A w \in Workers : LifetimeTimer(w) => Avoids({"fail"})
  BY TerminationMoves
<1>15. \A w \in Workers : IdleTimer(w) => Avoids({"fail"})
  BY TerminationMoves
<1> QED  BY <1>1, <1>2, <1>3, <1>4, <1>5, <1>6, <1>7, <1>8, <1>9, <1>10,
     <1>11, <1>12, <1>13, <1>14, <1>15

(* The steps of the shutdown, of user code and of the clock: those listed    *)
(* start no failure.                                                         *)
LEMMA ShutdownOpensNoFail ==
  ASSUME TypeOK
  PROVE  /\ TerminateWorkers => Avoids({"fail"})
         /\ \A t \in Tasks : TerminateTask(t) => Avoids({"fail"})
         /\ TerminateWorker => Avoids({"fail"})
<1> USE DEF Moves, Avoids
<1>1. TerminateWorkers => Avoids({"fail"})
  BY ShutdownMoves
<1>2. \A t \in Tasks : TerminateTask(t) => Avoids({"fail"})
  BY ShutdownMoves
<1>3. TerminateWorker => Avoids({"fail"})
  BY ShutdownMoves
<1> QED  BY <1>1, <1>2, <1>3

(* A step that opens plain failures only.                                    *)
FailsPlainly ==
  \A i \in 1..Len(stack') :
    \/ i \in 1..Len(stack) /\ stack'[i] = stack[i]
    \/ stack'[i].at # "fail"
    \/ stack'[i].cb = "none"

(* What a method that runs and goes on with up to four frames leaves.        *)
LEMMA GoesOn ==
  ASSUME TypeOK, stack # <<>>, NEW f, NEW g, NEW h, NEW k
  PROVE  /\ Len(stack) \in Nat \ {0} /\ Len(stack) \in 1..Len(stack)
         /\ Top = stack[Len(stack)]
         /\ Proceed(<<>>) => Len(stack') = Len(stack) - 1
         /\ Proceed(<<f>>) =>
              Len(stack') = Len(stack) /\ stack'[Len(stack)] = f
         /\ Proceed(<<f, g>>) =>
              /\ Len(stack') = Len(stack) + 1
              /\ stack'[Len(stack)] = f /\ stack'[Len(stack) + 1] = g
         /\ Proceed(<<f, g, h>>) =>
              /\ Len(stack') = Len(stack) + 2
              /\ stack'[Len(stack)] = f /\ stack'[Len(stack) + 1] = g
              /\ stack'[Len(stack) + 2] = h
         /\ Proceed(<<f, g, h, k>>) =>
              /\ Len(stack') = Len(stack) + 3
              /\ stack'[Len(stack)] = f /\ stack'[Len(stack) + 1] = g
              /\ stack'[Len(stack) + 2] = h /\ stack'[Len(stack) + 3] = k
         /\ \/ Proceed(<<>>) \/ Proceed(<<f>>) \/ Proceed(<<f, g>>)
            \/ Proceed(<<f, g, h>>) \/ Proceed(<<f, g, h, k>>)
            => LowerStay
<1>1. /\ stack \in Seq(Frames) /\ Len(stack) \in Nat \ {0}
      /\ Len(stack) \in 1..Len(stack) /\ Top = stack[Len(stack)]
  BY TopIsFrame DEF TypeOK
<1>2. Proceed(<<>>) => Len(stack') = Len(stack) - 1 /\ LowerStay
  BY <1>1, Goes0 DEF LowerStay
<1>3. Proceed(<<f>>) => /\ Len(stack') = Len(stack) /\ stack'[Len(stack)] = f
                        /\ LowerStay
  BY <1>1, Goes1 DEF LowerStay
<1>4. Proceed(<<f, g>>) =>
        /\ Len(stack') = Len(stack) + 1
        /\ stack'[Len(stack)] = f /\ stack'[Len(stack) + 1] = g
        /\ LowerStay
  BY <1>1, Goes2 DEF LowerStay
<1>5. Proceed(<<f, g, h>>) =>
        /\ Len(stack') = Len(stack) + 2
        /\ stack'[Len(stack)] = f /\ stack'[Len(stack) + 1] = g
        /\ stack'[Len(stack) + 2] = h /\ LowerStay
  BY <1>1, Goes3 DEF LowerStay
<1>6. Proceed(<<f, g, h, k>>) =>
        /\ Len(stack') = Len(stack) + 3
        /\ stack'[Len(stack)] = f /\ stack'[Len(stack) + 1] = g
        /\ stack'[Len(stack) + 2] = h /\ stack'[Len(stack) + 3] = k
        /\ LowerStay
  BY <1>1, Goes4 DEF LowerStay
<1> QED  BY <1>1, <1>2, <1>3, <1>4, <1>5, <1>6

(* The place of the method that goes on, and the frame that now runs.        *)
LEMMA GoesOnWith ==
  ASSUME TypeOK, stack # <<>>, NEW f, NEW g, NEW h, NEW k,
         \/ Proceed(<<f>>) \/ Proceed(<<f, g>>) \/ Proceed(<<f, g, h>>)
         \/ Proceed(<<f, g, h, k>>)
  PROVE  /\ LowerStay
         /\ Len(stack) \in 1..Len(stack') /\ stack'[Len(stack)] = f
         /\ Len(stack') \in 1..Len(stack')
         /\ Proceed(<<f>>) => Top' = f
         /\ Proceed(<<f, g>>) => Top' = g
         /\ Proceed(<<f, g, h>>) => Top' = h
         /\ Proceed(<<f, g, h, k>>) => Top' = k
<1>1. LowerStay /\ Len(stack) \in Nat \ {0}
  BY GoesOn
<1>2. Proceed(<<f>>) => Len(stack') = Len(stack) /\ stack'[Len(stack)] = f
  BY GoesOn
<1>3. Proceed(<<f, g>>) =>
        /\ Len(stack') = Len(stack) + 1
        /\ stack'[Len(stack)] = f /\ stack'[Len(stack) + 1] = g
  BY GoesOn
<1>4. Proceed(<<f, g, h>>) =>
        /\ Len(stack') = Len(stack) + 2
        /\ stack'[Len(stack)] = f /\ stack'[Len(stack) + 2] = h
  BY GoesOn
<1>5. Proceed(<<f, g, h, k>>) =>
        /\ Len(stack') = Len(stack) + 3
        /\ stack'[Len(stack)] = f /\ stack'[Len(stack) + 3] = k
  BY GoesOn
<1> QED  BY <1>1, <1>2, <1>3, <1>4, <1>5 DEF Top

(* The failures that the deadline of a task starts.                          *)
LEMMA ExpiresPlainly ==
  ASSUME TypeOK, stack # <<>>, NEW t, Proceed(ExpireTask(t))
  PROVE  FailsPlainly
<1>1. PICK f : /\ Proceed(<<>>) \/ Proceed(<<f>>)
               /\ f.cb = "none"
  <2>1. CASE ExpireTask(t) = <<>>
    <3> DEFINE f == At("stats")
    <3>1. f.cb = "none"
      BY FieldsOf
    <3>2. Proceed(<<>>)
      BY <2>1
    <3> HIDE DEF f
    <3> QED  BY <3>1, <3>2
  <2>2. ASSUME NEW w, ExpireTask(t) = <<Fail(w, <<t>>)>>
        PROVE  \E f : (Proceed(<<>>) \/ Proceed(<<f>>)) /\ f.cb = "none"
    <3> DEFINE f == Fail(w, <<t>>)
    <3>1. f.cb = "none"
      BY DEF Fail, On, At
    <3>2. Proceed(<<f>>)
      BY <2>2
    <3> HIDE DEF f
    <3> QED  BY <3>1, <3>2
  <2> QED  BY <2>1, <2>2, ExpireOpens
<1>2. /\ Len(stack) \in Nat \ {0} /\ LowerStay
      /\ \/ Len(stack') = Len(stack) - 1
         \/ Len(stack') = Len(stack) /\ stack'[Len(stack)] = f
  BY <1>1, GoesOn
<1> QED  BY <1>1, <1>2 DEF FailsPlainly, LowerStay

(* A failure that starts is about a task or reported by the worker.          *)
LEMMA FailuresPlain ==
  ASSUME TypeOK
  PROVE  /\ \A t \in Tasks : Microtask(t) \/ TaskTimer(t) => FailsPlainly
         /\ CallMethod \/ MethodCalled \/ CompleteIgnored => FailsPlainly
         /\ \A w \in Workers : WorkerError(w) => FailsPlainly
         /\ \A late : Dispatch(late) => FailsPlainly
<1>1. ASSUME NEW t \in Tasks, Microtask(t) \/ TaskTimer(t)
      PROVE  FailsPlainly
  <2>1. CASE EventLoop(ExpireTask(t))
    <3>1. CASE ExpireTask(t) = <<>>
      BY <2>1, <3>1 DEF EventLoop, FailsPlainly
    <3>2. ASSUME NEW w, ExpireTask(t) = <<Fail(w, <<t>>)>>
          PROVE  FailsPlainly
      <4> DEFINE f == Fail(w, <<t>>)
      <4>1. f.cb = "none"
        BY DEF Fail, On, At
      <4>2. stack' = <<f>>
        BY <2>1, <3>2 DEF EventLoop
      <4> HIDE DEF f
      <4>3. Len(stack') = 1 /\ stack'[1] = f
        BY <4>2
      <4> QED  BY <4>1, <4>3 DEF FailsPlainly
    <3> QED  BY <3>1, <3>2, ExpireOpens
  <2>2. CASE EventLoop(<<Yield("proxy", For("lookup", t))>>)
    <3> DEFINE f == Yield("proxy", For("lookup", t))
    <3>1. f.at = "lookup"
      BY LabelsOf
    <3>2. stack' = <<f>>
      BY <2>2 DEF EventLoop
    <3> HIDE DEF f
    <3>3. Len(stack') = 1 /\ stack'[1] = f
      BY <3>2
    <3> QED  BY <3>1, <3>3 DEF FailsPlainly
  <2> QED  BY <1>1, <2>1, <2>2 DEF Microtask, TaskTimer
<1>2. ASSUME CallMethod \/ MethodCalled \/ CompleteIgnored
      PROVE  FailsPlainly
  <2> DEFINE f == Yield("proxy", For("applied", Top.ts[1]))
  <2>1. f.at = "applied"
    BY LabelsOf
  <2>2. /\ stack # <<>>
        /\ Proceed(<<f>>) \/ Proceed(ExpireTask(Top.ts[1]))
    BY <1>2 DEF CallMethod, MethodCalled, CompleteIgnored, Running
  <2> HIDE DEF f
  <2>3. CASE Proceed(<<f>>)
    <3>1. /\ Len(stack) \in Nat \ {0} /\ LowerStay
          /\ Len(stack') = Len(stack) /\ stack'[Len(stack)] = f
      BY <2>2, <2>3, GoesOn
    <3> QED  BY <2>1, <3>1 DEF FailsPlainly, LowerStay
  <2> QED  BY <2>2, <2>3, ExpiresPlainly
<1>3. ASSUME NEW w \in Workers, WorkerError(w)
      PROVE  FailsPlainly
  <2> DEFINE f == Fail(w, <<>>)
  <2>1. f.cb = "none"
    BY DEF Fail, On, At
  <2>2. UserCall(<<f>>)
    BY <1>3 DEF WorkerError
  <2> HIDE DEF f
  <2>3. /\ Len(stack) \in Nat /\ Len(stack') = Len(stack) + 1
        /\ \A i \in 1..Len(stack) : stack'[i] = stack[i]
        /\ stack'[Len(stack) + 1] = f
    BY <2>2, TypeStack, Calls1
  <2> QED  BY <2>1, <2>3 DEF FailsPlainly
<1>4. ASSUME NEW late, Dispatch(late)
      PROVE  FailsPlainly
  <2>1. PICK t : LET f == Yield("event", At("loop"))
                     g == Fail(Top.w, <<t>>)
                 IN  Proceed(<<f, g>>) \/ Proceed(<<f>>)
    BY <1>4 DEF Dispatch
  <2> DEFINE f == Yield("event", At("loop"))
             g == Fail(Top.w, <<t>>)
  <2>2. f.at = "loop"
    BY LabelsOf
  <2>3. g.cb = "none"
    BY DEF Fail, On, At
  <2>4. (Proceed(<<f, g>>) \/ Proceed(<<f>>)) /\ stack # <<>>
    BY <1>4, <2>1 DEF Dispatch, Running
  <2> HIDE DEF f, g
  <2>5. /\ Len(stack) \in Nat \ {0} /\ LowerStay /\ stack'[Len(stack)] = f
        /\ \/ Len(stack') = Len(stack)
           \/ Len(stack') = Len(stack) + 1 /\ stack'[Len(stack) + 1] = g
    BY <2>4, GoesOn
  <2> QED  BY <2>2, <2>3, <2>5 DEF FailsPlainly, LowerStay
<1> QED  BY <1>1, <1>2, <1>3, <1>4

(* Failures start without a callback in between.                             *)
LEMMA NextPlainFails ==
  ASSUME TypeOK, PlainFails, [Next]_vars
  PROVE  PlainFails'
<1>1. Avoids({"fail"}) => FailsPlainly
  BY DEF Avoids, FailsPlainly
<1>2. ASSUME FailsPlainly
      PROVE  PlainFails'
  BY <1>2 DEF FailsPlainly, PlainFails
<1>3. WorkerQuiet => Avoids({"fail"})
  BY DEF WorkerQuiet, Avoids, WorkLabels
<1>4. ASSUME WorkerStep
      PROVE  FailsPlainly
  BY <1>1, <1>4, SchedulingOpensNoFail, CreationOpensNoFail, CallsOpensNoFail,
     TerminationOpensNoFail, ShutdownOpensNoFail, FailuresPlain
     DEF WorkerStep
<1> QED  BY <1>1, <1>2, <1>3, <1>4, WorkerSteps

(* A quiet step keeps the rest.                                              *)
LEMMA QuietIdle ==
  ASSUME IdleInv, IdleQuiet
  PROVE  IdleReady' /\ NewReady' /\ NoneIdle' /\ NoneForgotten'
<1>1. \A i \in 1..Len(stack') : stack'[i].at \in {"created"} \cup MakeLabels =>
        i \in 1..Len(stack) /\ stack'[i] = stack[i]
  BY DEF IdleQuiet, Avoids
<1>2. ASSUME NEW w
      PROVE  Ready(w) => Ready(w)'
  BY DEF IdleQuiet, Ready, Busy, Leaving, Departing, Top
<1>3. IdleReady'
  BY <1>2 DEF IdleInv, IdleReady, IdleQuiet
<1>4. NewReady'
  <2> SUFFICES ASSUME NEW i \in 1..Len(stack'), stack'[i].at = "created",
                      stack'[i].w \in workers'
               PROVE  Ready(stack[i].w)'
    BY DEF NewReady
  <2>1. i \in 1..Len(stack) /\ stack'[i] = stack[i]
    BY <1>1
  <2>2. PICK w : w = stack[i].w
    OBVIOUS
  <2>3. Ready(w)
    BY <2>1, <2>2 DEF IdleInv, NewReady, IdleQuiet
  <2>4. Ready(w)' /\ stack'[i].w = w
    BY <1>2, <2>1, <2>2, <2>3
  <2> QED  BY <2>4
<1>5. NoneIdle'
  BY <1>1 DEF IdleInv, NoneIdle, IdleQuiet
<1>6. ASSUME NEW w, Excused(w)
      PROVE  Excused(w)'
  <2>1. PICK i \in 1..Len(stack) : Excuse(stack[i], w)
    BY <1>6 DEF Excused
  <2>2. i \in 1..Len(stack') /\ stack'[i] = stack[i]
    BY <2>1 DEF Excuse, OwnLabels, IdleQuiet, Keeps, ExcuseLabels
  <2> QED  BY <2>1, <2>2 DEF Excused, Excuse
<1>7. NoneForgotten'
  BY <1>6 DEF IdleInv, NoneForgotten, IdleQuiet, Busy
<1> QED  BY <1>3, <1>4, <1>5, <1>7

(* Where no removal runs, ready workers are not marked.                      *)
LEMMA ReadyIsUsable ==
  ASSUME NEW w, Ready(w), ~Departing \/ Top.w # w
  PROVE  Usable(w)
BY DEF Ready, Usable, Leaving

(* ... and usable workers are ready.                                         *)
LEMMA UsableIsReady ==
  ASSUME NEW w, Usable(w)'
  PROVE  Ready(w)'
BY DEF Ready, Usable, Busy

(* Scheduling code moves on: no other frame makes a worker.                  *)
LEMMA SchedIdle ==
  ASSUME SchedulerExclusive', NEW n \in 1..Len(stack'),
         stack'[n].at \in SchedLabels,
         stack'[n].at = "created" => Ready(stack[n].w)',
         stack'[n].at \in MakeLabels => idleWorkers' = {}
  PROVE  NewReady' /\ NoneIdle'
<1>1. \A i \in 1..Len(stack') : stack'[i].at \in SchedLabels => i = n
  BY DEF SchedulerExclusive
<1>2. \A i \in 1..Len(stack') :
        stack'[i].at \in {"created"} \cup MakeLabels => i = n
  BY <1>1 DEF MakeLabels, SchedLabels, CreateLabels
<1>3. NewReady'
  <2> SUFFICES ASSUME NEW i \in 1..Len(stack'), stack'[i].at = "created",
                      stack'[i].w \in workers'
               PROVE  Ready(stack[i].w)'
    BY DEF NewReady
  <2>1. i = n
    BY <1>2
  <2> QED  BY <2>1
<1>4. NoneIdle'
  BY <1>2 DEF NoneIdle
<1> QED  BY <1>3, <1>4

(* Other code moves on and takes nothing from the workers that are ready.    *)
LEMMA LowerIdle ==
  ASSUME TypeOK, IdleInv, stack # <<>>, LowerStay,
         \A i \in 1..Len(stack') :
           \/ i \in 1..(Len(stack) - 1)
           \/ stack'[i].at \notin {"created"} \cup MakeLabels,
         idleWorkers' \subseteq idleWorkers, workers' \subseteq workers,
         idleWorkers' \subseteq workers',
         \A w \in workers' : Ready(w) => Ready(w)'
  PROVE  IdleReady' /\ NewReady' /\ NoneIdle'
<1>1. \A i \in 1..Len(stack') : stack'[i].at \in {"created"} \cup MakeLabels =>
        i \in 1..Len(stack) /\ stack'[i] = stack[i]
  BY GoesOn DEF LowerStay
<1>2. IdleReady'
  BY DEF IdleInv, IdleReady
<1>3. NewReady'
  <2> SUFFICES ASSUME NEW i \in 1..Len(stack'), stack'[i].at = "created",
                      stack'[i].w \in workers'
               PROVE  Ready(stack[i].w)'
    BY DEF NewReady
  <2>1. i \in 1..Len(stack) /\ stack'[i] = stack[i]
    BY <1>1
  <2>2. PICK w : w = stack[i].w
    OBVIOUS
  <2>3. Ready(w) /\ w \in workers'
    BY <2>1, <2>2 DEF IdleInv, NewReady
  <2>4. Ready(w)' /\ stack'[i].w = w
    BY <2>1, <2>2, <2>3
  <2> QED  BY <2>4
<1>4. NoneIdle'
  BY <1>1 DEF IdleInv, NoneIdle
<1> QED  BY <1>2, <1>3, <1>4

(* A worker is forgotten by neither the idle set nor the code that runs.     *)
LEMMA LowerForgets ==
  ASSUME TypeOK, IdleInv, stack # <<>>, LowerStay,
         \A w \in workers' :
           \/ Busy(w)' \/ w \in idleWorkers' \/ Excused(w)'
           \/ /\ w \in workers /\ ~Excuse(Top, w) /\ ~Busy(w)
              /\ w \notin idleWorkers
  PROVE  NoneForgotten'
<1> SUFFICES ASSUME NEW w \in workers', w \in workers, ~Excuse(Top, w),
                    ~Busy(w), w \notin idleWorkers
             PROVE  Excused(w)'
  BY DEF NoneForgotten
<1>1. PICK i \in 1..Len(stack) : Excuse(stack[i], w)
  BY DEF IdleInv, NoneForgotten, Excused
<1>2. i \in 1..(Len(stack) - 1)
  <2>1. Len(stack) \in Nat /\ Top = stack[Len(stack)]
    BY TopIsFrame DEF TypeOK
  <2> QED  BY <1>1, <2>1
<1>3. i \in 1..Len(stack') /\ stack'[i] = stack[i]
  BY <1>2 DEF LowerStay
<1> QED  BY <1>1, <1>3 DEF Excused, Excuse

(* What is not an excuse.                                                    *)
LEMMA NoExcuse ==
  ASSUME TypeOK, NEW l, Running(l), l \notin OwnLabels, l # "termworkers"
  PROVE  /\ ~Departing
         /\ \A w : ~Excuse(Top, w)
BY RunningFrame DEF Excuse, OwnLabels, Departing

-----------------------------------------------------------------------------
(* The scheduling code.                                                      *)

(* _getAvailableWorker takes an idle worker, or drops none.                  *)
LEMMA PicksKeepIdle ==
  ASSUME TypeOK, IdleInv, SchedulerExclusive',
         PickNew \/ PickLoaded \/ \E w \in Workers : PickIdle(w)
  PROVE  IdleReady' /\ NewReady' /\ NoneIdle' /\ NoneForgotten'
<1> USE DEF workerVars
<1>1. Running("pick") /\ stack # <<>>
  BY DEF PickNew, PickLoaded, PickIdle, Running
<1>2. ~Departing /\ \A w : ~Excuse(Top, w)
  BY <1>1, NoExcuse DEF OwnLabels
<1>3. \A w \in idleWorkers : Usable(w)
  BY <1>2, ReadyIsUsable DEF IdleInv, IdleReady
<1>4. /\ workers' = workers /\ activeTasks' = activeTasks
      /\ idleWorkers' = idleWorkers
  BY <1>3 DEF PickNew, PickLoaded, PickIdle, NoUsableIdle
<1>5. PICK f : /\ Proceed(<<f>>)
               /\ f.at \in {"got", "construct", "endpass"}
               /\ f.at = "construct" => idleWorkers = {}
  <2>1. ASSUME NEW w, Proceed(<<On("got", w)>>)
        PROVE  \E f : Proceed(<<f>>) /\ f.at = "got"
    <3> DEFINE f == On("got", w)
    <3>1. f.at = "got"
      BY DEF On, At
    <3> HIDE DEF f
    <3> QED  BY <2>1, <3>1 DEF f
  <2>2. CASE PickNew
    <3> DEFINE f == Yield("factory", At("construct"))
    <3>1. f.at = "construct"
      BY LabelsOf
    <3>2. Proceed(<<f>>) /\ idleWorkers = {}
      BY <1>3, <2>2 DEF PickNew, NoUsableIdle
    <3> HIDE DEF f
    <3> QED  BY <3>1, <3>2
  <2>3. CASE Proceed(<<At("endpass")>>)
    <3> DEFINE f == At("endpass")
    <3>1. f.at = "endpass"
      BY DEF At
    <3>2. Proceed(<<f>>)
      BY <2>3
    <3> HIDE DEF f
    <3> QED  BY <3>1, <3>2
  <2> QED  BY <2>1, <2>2, <2>3 DEF PickLoaded, PickIdle
<1>6. PICK n : n = Len(stack)
  OBVIOUS
<1>7. /\ LowerStay /\ n \in 1..Len(stack') /\ stack'[n] = f
  BY <1>1, <1>5, <1>6, GoesOn
<1>8. NewReady' /\ NoneIdle'
  BY <1>4, <1>5, <1>7, SchedIdle DEF SchedLabels, CreateLabels, MakeLabels
<1>9. IdleReady'
  <2> SUFFICES ASSUME NEW w \in idleWorkers'
               PROVE  Ready(w)'
    BY DEF IdleReady
  <2>1. Usable(w) /\ w \in idleWorkers
    BY <1>3, <1>4
  <2>2. Usable(w)'
    BY <1>4, <2>1 DEF PickNew, PickLoaded, PickIdle, Usable, Busy
  <2> QED  BY <2>2, UsableIsReady
<1>10. NoneForgotten'
  BY <1>1, <1>2, <1>4, <1>7, LowerForgets DEF Busy
<1> QED  BY <1>8, <1>9, <1>10

(* SchedIdle for code that goes on with one, two or four frames.             *)
LEMMA SchedGoesOn ==
  ASSUME TypeOK, IdleInv, SchedulerExclusive', stack # <<>>,
         NEW f, NEW g, NEW h, NEW k,
         \/ Proceed(<<f>>) \/ Proceed(<<f, g>>) \/ Proceed(<<f, g, h, k>>),
         f.at \in SchedLabels, f.at = "created" => Ready(f.w)',
         f.at \in MakeLabels => idleWorkers' = {}
  PROVE  NewReady' /\ NoneIdle' /\ LowerStay
<1>1. PICK n : n = Len(stack)
  OBVIOUS
<1>2. LowerStay /\ n \in 1..Len(stack') /\ stack'[n] = f
  BY <1>1, GoesOnWith
<1>3. stack'[n].at = "created" => Ready(stack[n].w)'
  BY <1>2
<1> QED  BY <1>2, <1>3, SchedIdle

(* The frames that are opened by the creation of a worker.                   *)
LEMMA MakingKeepsIdle ==
  ASSUME TypeOK, IdleInv, BoundsInv, SchedulerExclusive',
         \/ ConstructThrows \/ Discard \/ Uncreated
         \/ \E w \in Workers : ConstructOk(w) \/ ConstructPartial(w)
  PROVE  IdleReady' /\ NewReady' /\ NoneIdle' /\ NoneForgotten'
<1> USE DEF workerVars, data
<1>1. PICK l \in MakeLabels : Running(l)
  BY DEF ConstructThrows, Discard, Uncreated, ConstructOk, ConstructPartial,
         MakeLabels
<1>2. ~Departing /\ (\A w : ~Excuse(Top, w)) /\ stack # <<>>
  BY <1>1, NoExcuse DEF OwnLabels, MakeLabels, Running
<1>3. idleWorkers = {}
  <2>1. Len(stack) \in 1..Len(stack) /\ Top = stack[Len(stack)] /\ Top.at = l
    BY <1>1, RunningFrame, TopIsFrame
  <2> QED  BY <2>1 DEF IdleInv, NoneIdle
<1>4. idleWorkers' = {} /\ activeTasks' = activeTasks
  BY <1>3 DEF ConstructThrows, Discard, Uncreated, ConstructOk,
              ConstructPartial
<1>5. IdleReady'
  BY <1>4 DEF IdleReady
<1>6. CASE \E w \in Workers : ConstructOk(w)
  <2>1. PICK w \in Workers : ConstructOk(w)
    BY <1>6
  <2> DEFINE f == Yield("event", On("created", w))
  <2>2. f.at = "created" /\ f.w = w
    BY LabelsOf, FieldsOf
  <2>3. Proceed(<<f>>)
    BY <2>1 DEF ConstructOk
  <2>4. w \notin used /\ workers' = workers \cup {w} /\ marked' = marked
    BY <2>1 DEF ConstructOk
  <2> HIDE DEF f
  <2>5. Usable(w)'
    BY <1>4, <2>4 DEF Usable, Busy, BoundsInv, WorkersWithin
  <2>6. NewReady' /\ NoneIdle' /\ LowerStay
    BY <1>2, <1>4, <2>2, <2>3, <2>5, UsableIsReady, SchedGoesOn
       DEF SchedLabels, CreateLabels
  <2>7. Excused(w)'
    <3>1. PICK n : n = Len(stack)
      OBVIOUS
    <3>2. n \in 1..Len(stack') /\ stack'[n] = f
      BY <1>2, <2>3, <3>1, GoesOnWith
    <3> QED  BY <2>2, <3>2 DEF Excused, Excuse, OwnLabels
  <2>8. NoneForgotten'
    BY <1>2, <1>3, <1>4, <2>4, <2>6, <2>7, LowerForgets DEF Busy
  <2> QED  BY <1>5, <2>6, <2>8
<1>7. CASE ~\E w \in Workers : ConstructOk(w)
  <2>1. workers' = workers
    BY <1>7 DEF ConstructThrows, Discard, Uncreated, ConstructPartial
  <2>2. PICK f, g : /\ Proceed(<<f>>) \/ Proceed(<<f, g>>)
                    /\ f.at \in {"uncreated", "discard", "finally"}
    <3>1. CASE ConstructThrows
      <4> DEFINE f == At("uncreated")
      <4>1. f.at = "uncreated" /\ Proceed(<<f>>)
        BY <3>1 DEF ConstructThrows, At
      <4> HIDE DEF f
      <4> QED  BY <4>1
    <3>2. CASE Discard
      <4> DEFINE f == At("uncreated")
                 g == On("attempt", Top.w)
      <4>1. f.at = "uncreated" /\ Proceed(<<f, g>>)
        BY <3>2 DEF Discard, At
      <4> HIDE DEF f, g
      <4> QED  BY <4>1
    <3>3. CASE Uncreated
      <4> DEFINE e == [At("finally") EXCEPT !.why = "broken"]
      <4>1. e.at = "finally"
        BY DEF At
      <4>2. \/ Proceed(<<e>>)
            \/ \E w \in LeastLoaded : Proceed(<<On("finally", w)>>)
        BY <3>3 DEF Uncreated
      <4> HIDE DEF e
      <4>3. ASSUME NEW w, Proceed(<<On("finally", w)>>)
            PROVE  \E f : Proceed(<<f>>) /\ f.at = "finally"
        <5> DEFINE f == On("finally", w)
        <5>1. f.at = "finally" /\ Proceed(<<f>>)
          BY <4>3 DEF On, At
        <5> HIDE DEF f
        <5> QED  BY <5>1
      <4> QED  BY <4>1, <4>2, <4>3
    <3>4. ASSUME NEW w, ConstructPartial(w)
          PROVE  \E f : Proceed(<<f>>) /\ f.at = "discard"
      <4> DEFINE f == Yield("cleanup", On("discard", w))
      <4>1. f.at = "discard"
        BY LabelsOf
      <4>2. Proceed(<<f>>)
        BY <3>4 DEF ConstructPartial
      <4> HIDE DEF f
      <4> QED  BY <4>1, <4>2
    <3> QED  BY <1>7, <3>1, <3>2, <3>3, <3>4
  <2>3. NewReady' /\ NoneIdle' /\ LowerStay
    BY <1>2, <1>4, <2>2, SchedGoesOn DEF SchedLabels, CreateLabels
  <2>4. NoneForgotten'
    BY <1>2, <1>3, <1>4, <2>1, <2>3, LowerForgets DEF Busy
  <2> QED  BY <1>5, <2>3, <2>4
<1> QED  BY <1>6, <1>7

(* A worker whose lifetime is over is marked and removed at once.            *)
LEMMA ExpiryKeepsIdle ==
  ASSUME TypeOK, IdleInv, SchedulerExclusive',
         NEW w, NEW f, NEW g, NEW h,
         Running("pick") \/ Running("created"),
         \/ Proceed(<<f, Remove(w, "soft")>>)
         \/ Proceed(<<f, g, h, Remove(w, "soft")>>),
         f.at \in {"pick", "finally"},
         UNCHANGED <<workers, idleWorkers, activeTasks>>,
         marked' = marked \cup {w},
         Running("created") => w = Top.w
  PROVE  IdleReady' /\ NewReady' /\ NoneIdle' /\ NoneForgotten'
<1> DEFINE k == Remove(w, "soft")
<1>1. k.at = "remove" /\ k.w = w /\ k.cb = "none"
  BY DEF Remove, On, At
<1>2. Proceed(<<f, k>>) \/ Proceed(<<f, g, h, k>>)
  OBVIOUS
<1> HIDE DEF k
<1>3. /\ stack # <<>> /\ ~Departing
      /\ \A v : Excuse(Top, v) => v = w
  BY DEF Departing, Excuse, OwnLabels, Running
<1>4. NewReady' /\ NoneIdle' /\ LowerStay
  BY <1>2, <1>3, SchedGoesOn DEF SchedLabels, CreateLabels, MakeLabels
<1>5. PICK m : m = Len(stack')
  OBVIOUS
<1>6. m \in 1..Len(stack') /\ stack'[m] = k
  <2>1. Len(stack') \in 1..Len(stack') /\ Top' = k
    BY <1>2, <1>3, GoesOnWith
  <2> QED  BY <1>5, <2>1 DEF Top
<1>7. Excused(w)'
  BY <1>1, <1>6 DEF Excused, Excuse, OwnLabels
<1>8. (Departing /\ Top.w = w)'
  BY <1>1, <1>5, <1>6 DEF Departing, Top
<1>9. IdleReady'
  <2> SUFFICES ASSUME NEW v \in idleWorkers'
               PROVE  Ready(v)'
    BY DEF IdleReady
  <2>1. v \in workers /\ v \notin marked /\ ~Busy(v)
    BY <1>3, ReadyIsUsable DEF IdleInv, IdleReady, Usable
  <2> QED  BY <1>8, <2>1 DEF Ready, Busy, Leaving
<1>10. NoneForgotten'
  BY <1>3, <1>4, <1>7, LowerForgets DEF Busy
<1> QED  BY <1>4, <1>9, <1>10

(* A lifetime that is over is noticed when the worker is picked, or when it  *)
(* has just been created.                                                    *)
LEMMA ExpiredKeepIdle ==
  ASSUME TypeOK, IdleInv, SchedulerExclusive',
         CreatedExpired \/ \E w \in Workers : PickExpired(w)
  PROVE  IdleReady' /\ NewReady' /\ NoneIdle' /\ NoneForgotten'
<1> USE DEF workerVars
<1>1. ASSUME NEW w \in Workers, PickExpired(w)
      PROVE  IdleReady' /\ NewReady' /\ NoneIdle' /\ NoneForgotten'
  <2> DEFINE f == At("pick")
  <2>1. f.at = "pick"
    BY DEF At
  <2>2. /\ Running("pick") /\ Proceed(<<f, Remove(w, "soft")>>)
        /\ UNCHANGED <<workers, activeTasks>> /\ marked' = marked \cup {w}
        /\ idleWorkers' = {v \in idleWorkers : Usable(v)}
    BY <1>1 DEF PickExpired
  <2> HIDE DEF f
  <2>3. ~Departing /\ ~Running("created")
    BY <2>2, NoExcuse DEF OwnLabels, Running
  <2>4. idleWorkers' = idleWorkers
    BY <2>2, <2>3, ReadyIsUsable DEF IdleInv, IdleReady
  <2> QED  BY <2>1, <2>2, <2>3, <2>4, ExpiryKeepsIdle
<1>2. ASSUME CreatedExpired
      PROVE  IdleReady' /\ NewReady' /\ NoneIdle' /\ NoneForgotten'
  <2>1. PICK w : w = Top.w
    OBVIOUS
  <2> DEFINE f == At("finally")
             g == At("stats")
             h == At("next")
  <2>2. f.at = "finally"
    BY DEF At
  <2>3. /\ Running("created") /\ Proceed(<<f, g, h, Remove(w, "soft")>>)
        /\ UNCHANGED <<workers, idleWorkers, activeTasks>>
        /\ marked' = marked \cup {w}
    BY <1>2, <2>1 DEF CreatedExpired
  <2> HIDE DEF f, g, h
  <2> QED  BY <2>1, <2>2, <2>3, ExpiryKeepsIdle
<1> QED  BY <1>1, <1>2

(* A new worker is idle until _dispatch takes it, unless it is gone.         *)
LEMMA ReadinessKeepsIdle ==
  ASSUME TypeOK, IdleInv, SchedulerExclusive', CreatedReady \/ CreatedTooLate
  PROVE  IdleReady' /\ NewReady' /\ NoneIdle' /\ NoneForgotten'
<1> USE DEF workerVars, data
<1>1. PICK w, n : w = Top.w /\ n = Len(stack)
  OBVIOUS
<1>2. /\ Running("created") /\ stack # <<>> /\ ~Departing
      /\ UNCHANGED <<workers, activeTasks, marked>>
      /\ \A v : Excuse(Top, v) => v = w
  BY <1>1 DEF CreatedReady, CreatedTooLate, Running, Departing, Excuse,
              OwnLabels
<1>3. n \in 1..Len(stack) /\ Top = stack[n] /\ Top.at = "created"
  BY <1>1, <1>2, RunningFrame, TopIsFrame
<1>4. w \in workers => Usable(w)
  BY <1>1, <1>2, <1>3, ReadyIsUsable DEF IdleInv, NewReady
<1>5. \A v \in idleWorkers : Usable(v)
  BY <1>2, ReadyIsUsable DEF IdleInv, IdleReady
<1>6. CASE CreatedReady
  <2> DEFINE f == On("finally", w)
  <2>1. f.at = "finally"
    BY DEF On, At
  <2>2. /\ Proceed(<<f>>) /\ w \in workers
        /\ idleWorkers' = idleWorkers \cup {w}
    BY <1>1, <1>6 DEF CreatedReady
  <2> HIDE DEF f
  <2>3. NewReady' /\ NoneIdle' /\ LowerStay
    BY <1>2, <2>1, <2>2, SchedGoesOn DEF SchedLabels, CreateLabels, MakeLabels
  <2>4. IdleReady'
    BY <1>2, <1>4, <1>5, <2>2 DEF IdleReady, Ready, Usable, Busy
  <2>5. NoneForgotten'
    BY <1>2, <2>2, <2>3, LowerForgets DEF Busy
  <2> QED  BY <2>3, <2>4, <2>5
<1>7. CASE CreatedTooLate
  <2> DEFINE f == At("finally")
             g == Remove(w, "force")
  <2>1. f.at = "finally" /\ g.at = "remove" /\ g.w = w
    BY DEF Remove, On, At
  <2>2. /\ Proceed(<<f, g>>) /\ idleWorkers' = idleWorkers
    BY <1>1, <1>7 DEF CreatedTooLate
  <2> HIDE DEF f, g
  <2>3. NewReady' /\ NoneIdle' /\ LowerStay
    BY <1>2, <2>1, <2>2, SchedGoesOn DEF SchedLabels, CreateLabels, MakeLabels
  <2>4. IdleReady'
    BY <1>2, <1>5, <2>2 DEF IdleReady, Ready, Usable, Busy
  <2>5. Excused(w)'
    <3>1. PICK m : m = Len(stack')
      OBVIOUS
    <3>2. m \in 1..Len(stack') /\ stack'[m] = g
      <4>1. Len(stack') \in 1..Len(stack') /\ Top' = g
        BY <1>2, <2>2, GoesOnWith
      <4> QED  BY <3>1, <4>1 DEF Top
    <3> QED  BY <2>1, <3>2 DEF Excused, Excuse, OwnLabels
  <2>6. NoneForgotten'
    BY <1>2, <2>2, <2>3, <2>5, LowerForgets DEF Busy
  <2> QED  BY <2>3, <2>4, <2>6
<1> QED  BY <1>6, <1>7

(* _dispatch gives the worker a task and takes it from the idle set.         *)
LEMMA DispatchKeepsIdle ==
  ASSUME TypeOK, IdleInv, SchedulerExclusive', NEW late, Dispatch(late)
  PROVE  IdleReady' /\ NewReady' /\ NoneIdle' /\ NoneForgotten'
<1> USE DEF workerVars
<1>1. PICK w : w = Top.w
  OBVIOUS
<1>2. PICK t :
        /\ activeTasks' = [activeTasks EXCEPT ![w] = @ \cup {t}]
        /\ marked' \subseteq marked \cup {w}
        /\ idleWorkers' = idleWorkers \ {w}
        /\ workers' = workers
        /\ \/ Proceed(<<Yield("event", At("loop")), Fail(w, <<t>>)>>)
           \/ Proceed(<<Yield("event", At("loop"))>>)
  BY <1>1 DEF Dispatch, ClearIdle
<1> DEFINE f == Yield("event", At("loop"))
           g == Fail(w, <<t>>)
<1>3. f.at = "loop"
  BY LabelsOf
<1>4. Proceed(<<f, g>>) \/ Proceed(<<f>>)
  BY <1>2
<1> HIDE DEF f, g
<1>5. Running("got") /\ stack # <<>>
  BY DEF Dispatch, Running
<1>6. ~Departing /\ (\A v : ~Excuse(Top, v)) /\ w \in Workers
  BY <1>1, <1>5, NoExcuse, RunningFrame DEF OwnLabels, WorkerLabels
<1>7. NewReady' /\ NoneIdle' /\ LowerStay
  BY <1>3, <1>4, <1>5, SchedGoesOn DEF SchedLabels, CreateLabels, MakeLabels
<1>8. /\ \A v \in Workers \ {w} : activeTasks'[v] = activeTasks[v]
      /\ activeTasks'[w] # {}
  BY <1>2, <1>6, ActiveType
<1>9. idleWorkers \subseteq Workers /\ workers \subseteq Workers
  BY DEF TypeOK
<1>10. IdleReady'
  <2> SUFFICES ASSUME NEW v \in idleWorkers'
               PROVE  Ready(v)'
    BY DEF IdleReady
  <2>1. v \in idleWorkers /\ v # w
    BY <1>2
  <2>2. Usable(v)
    BY <1>6, <2>1, ReadyIsUsable DEF IdleInv, IdleReady
  <2> QED  BY <1>2, <1>8, <1>9, <2>1, <2>2 DEF Ready, Usable, Busy
<1>11. NoneForgotten'
  <2>1. \A v \in workers' :
          \/ Busy(v)' \/ v \in idleWorkers'
          \/ v \in workers /\ ~Busy(v) /\ v \notin idleWorkers
    BY <1>2, <1>8, <1>9 DEF Busy
  <2> QED  BY <1>5, <1>6, <1>7, <2>1, LowerForgets
<1> QED  BY <1>7, <1>10, <1>11

-----------------------------------------------------------------------------
(* Completions, failures, removals and shutdown.                             *)

(* The running code goes on with one frame that deals with a worker.         *)
LEMMA OwnGoesOn ==
  ASSUME TypeOK, stack # <<>>, NEW f, Proceed(<<f>>), f.at \in OwnLabels,
         f.at # "created"
  PROVE  /\ LowerStay /\ Top' = f /\ stack' # <<>>
         /\ Excused(f.w)'
         /\ \A i \in 1..Len(stack') :
              \/ i \in 1..(Len(stack) - 1)
              \/ stack'[i].at \notin {"created"} \cup MakeLabels
<1>1. PICK n : n = Len(stack)
  OBVIOUS
<1>2. n \in Nat \ {0}
  BY <1>1, TypeStack, EmptySeq
<1>3. /\ Len(stack') = n /\ stack'[n] = f /\ LowerStay
  BY <1>1, GoesOn
<1>4. Top' = f /\ n \in 1..Len(stack')
  BY <1>2, <1>3 DEF Top
<1>5. PICK w : w = f.w
  OBVIOUS
<1>6. Excused(w)'
  BY <1>3, <1>4, <1>5 DEF Excused, Excuse
<1>7. stack' # <<>>
  BY <1>2, <1>3
<1>8. \A i \in 1..Len(stack') : i \in 1..(n - 1) \/ i = n
  BY <1>2, <1>3
<1> QED  BY <1>1, <1>3, <1>4, <1>5, <1>6, <1>7, <1>8 DEF OwnLabels, MakeLabels

(* A task that ends with its worker, one at a time.                          *)
LEMMA TasksLeaveIdle ==
  ASSUME TypeOK, IdleInv, NEW t \in Tasks, FailTask(t) \/ TerminateTask(t)
  PROVE  IdleReady' /\ NewReady' /\ NoneIdle' /\ NoneForgotten'
<1> USE DEF workerVars
<1>1. PICK w, top : w = Top.w /\ top = Top
  OBVIOUS
<1>2. PICK c : Proceed(<<Yield(c, top)>>)
  BY <1>1 DEF FailTask, TerminateTask
<1> DEFINE f == Yield(c, top)
<1>3. PICK l \in {"failing", "termtasks"} : Running(l)
  BY DEF FailTask, TerminateTask
<1>4. /\ stack # <<>> /\ top.at = l /\ top \in Frames /\ top.w = w
      /\ w \in Workers
  BY <1>1, <1>3, RunningFrame DEF WorkerLabels
<1>5. f.at = l /\ f.w = w
  BY <1>4 DEF Yield, Frames
<1>6. Proceed(<<f>>)
  BY <1>2
<1> HIDE DEF f
<1>7. /\ activeTasks' = [activeTasks EXCEPT ![w] = @ \ {t}] /\ Busy(w)
      /\ UNCHANGED <<workers, idleWorkers, marked>>
  BY <1>1 DEF FailTask, TerminateTask, Busy
<1>8. /\ LowerStay /\ Excused(w)'
      /\ \A i \in 1..Len(stack') :
           \/ i \in 1..(Len(stack) - 1)
           \/ stack'[i].at \notin {"created"} \cup MakeLabels
  BY <1>4, <1>5, <1>6, OwnGoesOn DEF OwnLabels
<1>9. /\ \A v \in Workers \ {w} : activeTasks'[v] = activeTasks[v]
      /\ workers \subseteq Workers
  BY <1>7, ActiveType DEF TypeOK
<1>10. ASSUME NEW v \in workers, Ready(v)
       PROVE  Ready(v)'
  <2>1. v # w
    BY <1>7, <1>10 DEF Ready
  <2>2. Usable(v)
    BY <1>1, <1>10, <2>1, ReadyIsUsable
  <2> QED  BY <1>7, <1>9, <2>1, <2>2 DEF Ready, Usable, Busy
<1>11. idleWorkers' \subseteq workers'
  BY <1>7 DEF IdleInv, IdleReady, Ready
<1>12. IdleReady' /\ NewReady' /\ NoneIdle'
  BY <1>4, <1>7, <1>8, <1>10, <1>11, LowerIdle
<1>13. \A v \in workers' :
         \/ Busy(v)' \/ v \in idleWorkers' \/ Excused(v)'
         \/ /\ v \in workers /\ ~Excuse(Top, v) /\ ~Busy(v)
            /\ v \notin idleWorkers
  <2> SUFFICES ASSUME NEW v \in workers', v # w
               PROVE  \/ Busy(v)' \/ v \in idleWorkers' \/ Excused(v)'
                      \/ /\ v \in workers /\ ~Excuse(Top, v) /\ ~Busy(v)
                         /\ v \notin idleWorkers
    BY <1>8
  <2>1. ~Excuse(Top, v)
    BY <1>1, <1>4 DEF Excuse
  <2> QED  BY <1>7, <1>9, <2>1 DEF Busy
<1> QED  BY <1>4, <1>8, <1>12, <1>13, LowerForgets

(* The answer of a task frees its slot.                                      *)
LEMMA CompletionKeepsIdle ==
  ASSUME TypeOK, TaskInv, IdleInv, CompleteTask
  PROVE  IdleReady' /\ NewReady' /\ NoneIdle' /\ NoneForgotten'
<1> USE DEF workerVars
<1>0. PICK t, c : t = Top.ts[1] /\ c = Announce(t)
  OBVIOUS
<1>1. PICK w \in Workers :
        /\ t \in activeTasks[w]
        /\ activeTasks' = [activeTasks EXCEPT ![w] = @ \ {t}]
        /\ Proceed(<<Yield(c, On("completed", w))>>)
  <2>1. Hosts(t) \subseteq Workers /\ \A w \in Hosts(t) : t \in activeTasks[w]
    BY DEF Hosts, TypeOK
  <2> QED  BY <1>0, <2>1 DEF CompleteTask
<1> DEFINE f == Yield(c, On("completed", w))
<1>2. f.at = "completed" /\ f.w = w
  BY DEF Yield, On, At
<1>3. Proceed(<<f>>)
  BY <1>1
<1> HIDE DEF f
<1>4. Running("complete") /\ UNCHANGED <<workers, idleWorkers, marked>>
  BY DEF CompleteTask
<1>5. stack # <<>> /\ ~Departing /\ \A v : ~Excuse(Top, v)
  BY <1>4, NoExcuse DEF OwnLabels, Running
<1>6. /\ LowerStay /\ Excused(w)'
      /\ \A i \in 1..Len(stack') :
           \/ i \in 1..(Len(stack) - 1)
           \/ stack'[i].at \notin {"created"} \cup MakeLabels
  BY <1>2, <1>3, <1>5, OwnGoesOn DEF OwnLabels
<1>7. /\ \A v \in Workers \ {w} : activeTasks'[v] = activeTasks[v]
      /\ workers \subseteq Workers
  BY <1>1, ActiveType DEF TypeOK
<1>8. ASSUME NEW v \in workers, Ready(v)
      PROVE  Ready(v)'
  <2>1. v # w
    BY <1>1, <1>8 DEF Ready, Busy
  <2>2. Usable(v)
    BY <1>5, <1>8, ReadyIsUsable
  <2> QED  BY <1>4, <1>7, <2>1, <2>2 DEF Ready, Usable, Busy
<1>9. idleWorkers' \subseteq workers'
  BY <1>4 DEF IdleInv, IdleReady, Ready
<1>10. IdleReady' /\ NewReady' /\ NoneIdle'
  BY <1>4, <1>5, <1>6, <1>8, <1>9, LowerIdle
<1>11. \A v \in workers' :
         \/ Excused(v)'
         \/ /\ v \in workers /\ (Busy(v) => Busy(v)')
            /\ v \in idleWorkers => v \in idleWorkers'
  BY <1>4, <1>6, <1>7 DEF Busy
<1> QED  BY <1>5, <1>6, <1>10, <1>11, LowerForgets

(* The worker of a completed task is busy, idle or removed.                  *)
LEMMA CompletedKeepsIdle ==
  ASSUME TypeOK, TaskInv, Closing, IdleInv, Completed
  PROVE  IdleReady' /\ NewReady' /\ NoneIdle' /\ NoneForgotten'
<1> USE DEF workerVars
<1>1. PICK w : w = Top.w
  OBVIOUS
<1> DEFINE gone == w \notin workers \/ terminationStarted
           a == At("stats")
           b == At("next")
           c == Remove(w, "soft")
<1>2. /\ Running("completed") /\ UNCHANGED <<workers, marked, activeTasks>>
      /\ idleWorkers' = IF ~gone /\ ~Busy(w) /\ ~Retires(w)
                        THEN idleWorkers \cup {w} ELSE idleWorkers
      /\ Proceed(IF gone THEN <<>>
                 ELSE <<a, b>> \o IF Retires(w) THEN <<c>> ELSE <<>>)
  BY <1>1 DEF Completed
<1>3. a.at = "stats" /\ b.at = "next" /\ c.at = "remove" /\ c.w = w
  BY DEF Remove, On, At
<1>4. /\ gone => Proceed(<<>>)
      /\ ~gone /\ ~Retires(w) => Proceed(<<a, b>>)
      /\ ~gone /\ Retires(w) => Proceed(<<a, b, c>>)
  <2> HIDE DEF a, b, c
  <2> QED  BY <1>2, Joins
<1> HIDE DEF a, b, c
<1>5. Len(stack) = 1 /\ Top = stack[1] /\ stack # <<>> /\ Top.at = "completed"
  BY <1>2, CallAlone, RunningFrame DEF CallLabels
<1>6. ~Departing
  BY <1>5 DEF Departing
<1>7. /\ gone => Len(stack') = 0
      /\ ~gone /\ ~Retires(w) =>
           Len(stack') = 2 /\ stack'[1] = a /\ stack'[2] = b
      /\ ~gone /\ Retires(w) =>
           /\ Len(stack') = 3
           /\ stack'[1] = a /\ stack'[2] = b /\ stack'[3] = c
  <2>1. gone => Len(stack') = Len(stack) - 1
    BY <1>4, <1>5, GoesOn
  <2>2. ~gone /\ ~Retires(w) =>
          /\ Len(stack') = Len(stack) + 1
          /\ stack'[Len(stack)] = a /\ stack'[Len(stack) + 1] = b
    BY <1>4, <1>5, GoesOn
  <2>3. ~gone /\ Retires(w) =>
          /\ Len(stack') = Len(stack) + 2
          /\ stack'[Len(stack)] = a /\ stack'[Len(stack) + 1] = b
          /\ stack'[Len(stack) + 2] = c
    BY <1>4, <1>5, GoesOn
  <2> HIDE DEF gone
  <2> QED  BY <1>5, <2>1, <2>2, <2>3
<1>8. \A i \in 1..Len(stack') : stack'[i].at \in {"stats", "next", "remove"}
  <2> HIDE DEF gone
  <2>1. CASE gone
    BY <1>7, <2>1
  <2>2. CASE ~gone /\ ~Retires(w)
    <3>1. Len(stack') = 2 /\ stack'[1] = a /\ stack'[2] = b
      BY <1>7, <2>2
    <3>2. \A i \in 1..Len(stack') : i = 1 \/ i = 2
      BY <3>1
    <3> QED  BY <1>3, <3>1, <3>2
  <2>3. CASE ~gone /\ Retires(w)
    <3>1. /\ Len(stack') = 3
          /\ stack'[1] = a /\ stack'[2] = b /\ stack'[3] = c
      BY <1>7, <2>3
    <3>2. \A i \in 1..Len(stack') : i = 1 \/ i = 2 \/ i = 3
      BY <3>1
    <3> QED  BY <1>3, <3>1, <3>2
  <2> QED  BY <2>1, <2>2, <2>3
<1>9. NewReady' /\ NoneIdle'
  BY <1>8 DEF NewReady, NoneIdle, MakeLabels
<1>10. IdleReady'
  <2> SUFFICES ASSUME NEW v \in idleWorkers'
               PROVE  Ready(v)'
    BY DEF IdleReady
  <2>1. Usable(v)
    BY <1>2, <1>6, ReadyIsUsable DEF IdleInv, IdleReady, Usable, Retires
  <2> QED  BY <1>2, <2>1 DEF Ready, Usable, Busy
<1>11. ASSUME gone, w \in workers
       PROVE  FALSE
  <2>1. terminationStarted
    BY <1>11
  <2>2. PICK i \in 1..Len(stack) :
          stack[i].at \in {"termworkers", "created", "remove"}
    BY <1>11, <2>1 DEF Closing
  <2> QED  BY <1>5, <2>2
<1>12. NoneForgotten'
  <2> SUFFICES ASSUME NEW v \in workers', ~Busy(v)', v \notin idleWorkers'
               PROVE  Excused(v)'
    BY DEF NoneForgotten
  <2>1. v \in workers /\ ~Busy(v) /\ v \notin idleWorkers
    BY <1>2 DEF Busy
  <2>2. PICK i \in 1..Len(stack) : Excuse(stack[i], v)
    BY <2>1 DEF IdleInv, NoneForgotten, Excused
  <2>3. v = w
    BY <1>1, <1>5, <2>2 DEF Excuse
  <2>4. ~gone /\ Retires(w)
    BY <1>2, <1>11, <2>1, <2>3
  <2>5. 3 \in 1..Len(stack') /\ stack'[3] = c
    BY <1>7, <2>4
  <2> QED  BY <1>3, <2>3, <2>5 DEF Excused, Excuse, OwnLabels
<1> QED  BY <1>9, <1>10, <1>12

(* A failing worker is marked and leaves without a callback.                 *)
LEMMA FailureKeepsIdle ==
  ASSUME TypeOK, IdleInv, FailureStarts
  PROVE  IdleReady' /\ NewReady' /\ NoneIdle' /\ NoneForgotten'
<1> USE DEF workerVars
<1>1. PICK w, top : w = Top.w /\ top = Top
  OBVIOUS
<1> DEFINE f == [top EXCEPT !.at = "failing"]
<1>2. Running("fail") /\ UNCHANGED <<workers, idleWorkers, activeTasks>>
  BY DEF FailureStarts
<1>3. /\ stack # <<>> /\ top \in Frames /\ top.at = "fail" /\ top.w = w
      /\ top.cb = "none"
  <2>1. /\ Len(stack) \in 1..Len(stack) /\ Top = stack[Len(stack)]
        /\ stack # <<>> /\ Top \in Frames /\ Top.at = "fail"
    BY <1>2, RunningFrame, TopIsFrame
  <2> QED  BY <1>1, <2>1 DEF IdleInv, PlainFails
<1>4. f.at = "failing" /\ f.w = w /\ f.cb = "none"
  BY <1>3 DEF Frames
<1>5. /\ w \in workers => Proceed(<<f>>) /\ marked' = marked \cup {w}
      /\ w \notin workers => Proceed(<<>>) /\ marked' = marked
  BY <1>1 DEF FailureStarts
<1> HIDE DEF f
<1>6. ~Departing /\ \A v : ~Excuse(Top, v)
  BY <1>2, NoExcuse DEF OwnLabels
<1>7. /\ LowerStay
      /\ \A i \in 1..Len(stack') :
           \/ i \in 1..(Len(stack) - 1)
           \/ stack'[i].at \notin {"created"} \cup MakeLabels
      /\ w \in workers => (Departing /\ Top.w = w)'
  <2>1. CASE w \in workers
    <3>1. /\ LowerStay /\ Top' = f /\ stack' # <<>>
          /\ \A i \in 1..Len(stack') :
               \/ i \in 1..(Len(stack) - 1)
               \/ stack'[i].at \notin {"created"} \cup MakeLabels
      BY <1>3, <1>4, <1>5, <2>1, OwnGoesOn DEF OwnLabels
    <3> QED  BY <1>4, <3>1 DEF Departing
  <2>2. CASE w \notin workers
    BY <1>3, <1>5, <2>2, GoesOn
  <2> QED  BY <2>1, <2>2
<1>8. ASSUME NEW v \in workers, Ready(v)
      PROVE  Ready(v)'
  <2>1. Usable(v)
    BY <1>6, <1>8, ReadyIsUsable
  <2>2. CASE v = w
    BY <1>2, <1>7, <2>1, <2>2 DEF Ready, Usable, Busy, Leaving
  <2>3. CASE v # w
    BY <1>2, <1>5, <2>1, <2>3 DEF Ready, Usable, Busy
  <2> QED  BY <2>2, <2>3
<1>9. idleWorkers' \subseteq workers'
  BY <1>2 DEF IdleInv, IdleReady, Ready
<1>10. IdleReady' /\ NewReady' /\ NoneIdle'
  BY <1>2, <1>3, <1>7, <1>8, <1>9, LowerIdle
<1>11. \A v \in workers' : /\ v \in workers /\ (Busy(v) => Busy(v)')
                           /\ v \in idleWorkers => v \in idleWorkers'
  BY <1>2 DEF Busy
<1> QED  BY <1>3, <1>6, <1>7, <1>10, <1>11, LowerForgets

(* A removal follows: of the failed worker, or of one that terminateAll()    *)
(* has stopped.                                                              *)
LEMMA ToRemovalKeepsIdle ==
  ASSUME TypeOK, IdleInv, FailureEnds \/ TerminateWorker
  PROVE  IdleReady' /\ NewReady' /\ NoneIdle' /\ NoneForgotten'
<1> USE DEF workerVars, data
<1>1. PICK w : w = Top.w
  OBVIOUS
<1> DEFINE a == At("stats")
           b == At("next")
           c == Remove(w, "force")
<1>2. /\ a.at = "stats" /\ b.at = "next" /\ c.at = "remove" /\ c.w = w
      /\ c.cb = "none"
  BY DEF Remove, On, At
<1>3. /\ Proceed(<<a, b, c>>) \/ Proceed(<<c>>)
      /\ UNCHANGED <<workers, idleWorkers, marked, activeTasks>>
  BY <1>1 DEF FailureEnds, TerminateWorker
<1> HIDE DEF a, b, c
<1>4. stack # <<>> /\ \A v : Excuse(Top, v) => v = w
  BY <1>1 DEF FailureEnds, TerminateWorker, Running, Excuse
<1>5. LowerStay /\ Top' = c /\ Len(stack') \in 1..Len(stack')
  BY <1>3, <1>4, GoesOnWith
<1>6. \A i \in 1..Len(stack') :
        \/ i \in 1..(Len(stack) - 1)
        \/ stack'[i].at \notin {"created"} \cup MakeLabels
  <2>1. CASE Proceed(<<c>>)
    <3>1. /\ Len(stack) \in Nat \ {0} /\ Len(stack') = Len(stack)
          /\ stack'[Len(stack)] = c
      BY <1>4, <2>1, GoesOn
    <3> QED  BY <1>2, <3>1 DEF MakeLabels
  <2>2. CASE Proceed(<<a, b, c>>)
    <3>1. /\ Len(stack) \in Nat \ {0} /\ Len(stack') = Len(stack) + 2
          /\ stack'[Len(stack)] = a /\ stack'[Len(stack) + 1] = b
          /\ stack'[Len(stack) + 2] = c
      BY <1>4, <2>2, GoesOn
    <3>2. \A i \in 1..Len(stack') :
            \/ i \in 1..(Len(stack) - 1)
            \/ i = Len(stack) \/ i = Len(stack) + 1 \/ i = Len(stack) + 2
      BY <3>1
    <3> QED  BY <1>2, <3>1, <3>2 DEF MakeLabels
  <2> QED  BY <1>3, <2>1, <2>2
<1>7. (Departing /\ Top.w = w)'
  <2>1. stack' # <<>>
    BY <1>5, EmptySeq
  <2> QED  BY <1>2, <1>5, <2>1 DEF Departing
<1>8. ASSUME NEW v \in workers, Ready(v)
      PROVE  Ready(v)'
  <2>1. v \in workers /\ ~Busy(v) /\ (v \in marked => v = w)
    BY <1>1, <1>8 DEF Ready, Leaving
  <2> QED  BY <1>3, <1>7, <2>1 DEF Ready, Busy, Leaving
<1>9. idleWorkers' \subseteq workers'
  BY <1>3 DEF IdleInv, IdleReady, Ready
<1>10. IdleReady' /\ NewReady' /\ NoneIdle'
  BY <1>3, <1>4, <1>5, <1>6, <1>8, <1>9, LowerIdle
<1>11. Excused(w)'
  <2>1. PICK n : n = Len(stack')
    OBVIOUS
  <2>2. n \in 1..Len(stack') /\ stack'[n] = c
    BY <1>5, <2>1 DEF Top
  <2> QED  BY <1>2, <2>2 DEF Excused, Excuse, OwnLabels
<1>12. \A v \in workers' :
         \/ Busy(v)' \/ v \in idleWorkers' \/ Excused(v)'
         \/ /\ v \in workers /\ ~Excuse(Top, v) /\ ~Busy(v)
            /\ v \notin idleWorkers
  BY <1>3, <1>4, <1>11 DEF Busy
<1> QED  BY <1>4, <1>5, <1>10, <1>12, LowerForgets

(* The removal itself, or its refusal while the worker has a task.           *)
LEMMA RemovalKeepsIdle ==
  ASSUME TypeOK, IdleInv, RemoveWorker \/ RemoveSkipped
  PROVE  IdleReady' /\ NewReady' /\ NoneIdle' /\ NoneForgotten'
<1> USE DEF workerVars, data
<1>1. PICK w, how : w = Top.w /\ how = Top.why
  OBVIOUS
<1> DEFINE f == Yield("event", On("attempt", w))
<1>2. f.at = "attempt"
  BY LabelsOf
<1>3. Running("remove") /\ stack # <<>> /\ \A v : Excuse(Top, v) => v = w
  BY <1>1 DEF RemoveWorker, RemoveSkipped, Running, Excuse
<1>4. RemoveWorker => Proceed(<<f>>)
  BY <1>1 DEF RemoveWorker
<1>5. RemoveSkipped => Proceed(<<>>)
  BY DEF RemoveSkipped
<1> HIDE DEF f
<1>6. /\ LowerStay
      /\ \A i \in 1..Len(stack') :
           \/ i \in 1..(Len(stack) - 1)
           \/ stack'[i].at \notin {"created"} \cup MakeLabels
  <2>1. CASE Proceed(<<f>>)
    <3>1. /\ Len(stack) \in Nat \ {0} /\ Len(stack') = Len(stack)
          /\ stack'[Len(stack)] = f /\ LowerStay
      BY <1>3, <2>1, GoesOn
    <3> QED  BY <1>2, <3>1 DEF MakeLabels
  <2>2. CASE Proceed(<<>>)
    BY <1>3, <2>2, GoesOn
  <2> QED  BY <1>4, <1>5, <2>1, <2>2
<1>7. /\ UNCHANGED <<marked, activeTasks>>
      /\ RemoveWorker => /\ workers' = workers \ {w}
                         /\ idleWorkers' = idleWorkers \ {w}
      /\ RemoveSkipped => /\ UNCHANGED <<workers, idleWorkers>>
                          /\ ~MayRemove(w, how)
  BY <1>1 DEF RemoveWorker, RemoveSkipped, ClearIdle
<1>8. workers' \subseteq workers /\ idleWorkers' \subseteq idleWorkers
  BY <1>7
<1>9. idleWorkers' \subseteq workers'
  BY <1>7 DEF IdleInv, IdleReady, Ready
<1>10. ASSUME NEW v \in workers', Ready(v)
       PROVE  Ready(v)'
  <2>1. v # w
    BY <1>7, <1>10 DEF Ready, MayRemove
  <2>2. Usable(v)
    BY <1>1, <1>10, <2>1, ReadyIsUsable
  <2> QED  BY <1>7, <1>10, <2>2 DEF Ready, Usable, Busy
<1>11. IdleReady' /\ NewReady' /\ NoneIdle'
  BY <1>3, <1>6, <1>8, <1>9, <1>10, LowerIdle
<1>12. ASSUME NEW v \in workers'
       PROVE  \/ Busy(v)' \/ v \in idleWorkers' \/ Excused(v)'
              \/ /\ v \in workers /\ ~Excuse(Top, v) /\ ~Busy(v)
                 /\ v \notin idleWorkers
  <2>1. CASE v = w
    BY <1>7, <1>12, <2>1 DEF MayRemove, Busy
  <2>2. CASE v # w
    BY <1>3, <1>7, <1>12, <2>2 DEF Busy
  <2> QED  BY <2>1, <2>2
<1> QED  BY <1>3, <1>6, <1>11, <1>12, LowerForgets

(* terminateAll() goes over the workers until none is left.                  *)
LEMMA TerminationKeepsIdle ==
  ASSUME TypeOK, IdleInv, TerminateWorkers
  PROVE  IdleReady' /\ NewReady' /\ NoneIdle' /\ NoneForgotten'
<1> USE DEF workerVars, data
<1>1. /\ Running("termworkers") /\ stack # <<>> /\ ~Departing
      /\ UNCHANGED <<workers, idleWorkers, marked, activeTasks>>
  BY DEF TerminateWorkers, Running, Departing
<1>2. PICK f, g : /\ f.at \in {"stats", "termworkers"} /\ g.at = "termtasks"
                  /\ \/ Proceed(<<f, g>>) /\ f.at = "termworkers"
                     \/ Proceed(<<f>>) /\ workers = {}
  <2>1. ASSUME NEW w, Proceed(<<At("termworkers"), On("termtasks", w)>>)
        PROVE  \E f, g : /\ f.at = "termworkers" /\ g.at = "termtasks"
                         /\ Proceed(<<f, g>>)
    <3> DEFINE f == At("termworkers")
               g == On("termtasks", w)
    <3>1. f.at = "termworkers" /\ g.at = "termtasks" /\ Proceed(<<f, g>>)
      BY <2>1 DEF On, At
    <3> HIDE DEF f, g
    <3> QED  BY <3>1
  <2>2. ASSUME workers = {}, Proceed(<<At("stats")>>)
        PROVE  \E f, g : /\ f.at = "stats" /\ g.at = "termtasks"
                         /\ Proceed(<<f>>)
    <3> DEFINE f == At("stats")
               g == At("termtasks")
    <3>1. f.at = "stats" /\ g.at = "termtasks" /\ Proceed(<<f>>)
      BY <2>2 DEF At
    <3> HIDE DEF f, g
    <3> QED  BY <3>1
  <2> QED  BY <2>1, <2>2 DEF TerminateWorkers
<1>3. PICK n : n = Len(stack)
  OBVIOUS
<1>4. /\ LowerStay /\ n \in 1..Len(stack') /\ stack'[n] = f
      /\ \/ Len(stack') = n
         \/ Len(stack') = n + 1 /\ stack'[n + 1] = g
  <2>1. LowerStay /\ n \in 1..Len(stack') /\ stack'[n] = f
    BY <1>1, <1>2, <1>3, GoesOnWith
  <2>2. \/ Len(stack') = n
        \/ Len(stack') = n + 1 /\ stack'[n + 1] = g
    BY <1>1, <1>2, <1>3, GoesOn
  <2> QED  BY <2>1, <2>2
<1>5. \A i \in 1..Len(stack') :
        \/ i \in 1..(n - 1)
        \/ stack'[i].at \notin {"created"} \cup MakeLabels
  BY <1>2, <1>4 DEF MakeLabels
<1>6. ASSUME NEW v \in workers, Ready(v)
      PROVE  Ready(v)'
  <2>1. Usable(v)
    BY <1>1, <1>6, ReadyIsUsable
  <2> QED  BY <1>1, <2>1 DEF Ready, Usable, Busy
<1>7. idleWorkers' \subseteq workers'
  BY <1>1 DEF IdleInv, IdleReady, Ready
<1>8. IdleReady' /\ NewReady' /\ NoneIdle'
  BY <1>1, <1>3, <1>4, <1>5, <1>6, <1>7, LowerIdle
<1>9. ASSUME NEW v \in workers'
      PROVE  Excused(v)'
  <2>1. f.at = "termworkers"
    BY <1>1, <1>2, <1>9
  <2> QED  BY <1>4, <2>1 DEF Excused, Excuse
<1> QED  BY <1>8, <1>9 DEF NoneForgotten

(* The lifetime timer marks its worker, and removes it unless it is busy.    *)
LEMMA LifetimeKeepsIdle ==
  ASSUME TypeOK, IdleInv, NEW w \in Workers, LifetimeTimer(w)
  PROVE  IdleReady' /\ NewReady' /\ NoneIdle' /\ NoneForgotten'
<1> USE DEF workerVars
<1> DEFINE a == At("stats")
           b == At("next")
           c == Remove(w, "soft")
<1>1. /\ a.at = "stats" /\ b.at = "next" /\ c.at = "remove" /\ c.w = w
      /\ c.cb = "none"
  BY DEF Remove, On, At
<1>2. /\ stack' = <<a, b>> \o IF Busy(w) THEN <<>> ELSE <<c>>
      /\ stack = <<>> /\ marked' = marked \cup {w}
      /\ UNCHANGED <<workers, idleWorkers, activeTasks>>
  BY DEF LifetimeTimer, EventLoop, TimersMayFire, StateChange
<1> HIDE DEF a, b, c
<1>3. /\ Busy(w) => stack' = <<a, b>>
      /\ ~Busy(w) => stack' = <<a, b, c>>
  BY <1>2, Joins
<1>4. /\ Busy(w) => Len(stack') = 2 /\ stack'[1] = a /\ stack'[2] = b
      /\ ~Busy(w) => /\ Len(stack') = 3
                     /\ stack'[1] = a /\ stack'[2] = b /\ stack'[3] = c
  BY <1>3
<1>5. \A i \in 1..Len(stack') : stack'[i].at \notin {"created"} \cup MakeLabels
  <2>1. CASE Busy(w)
    <3>1. Len(stack') = 2 /\ stack'[1] = a /\ stack'[2] = b
      BY <1>4, <2>1
    <3>2. \A i \in 1..Len(stack') : i = 1 \/ i = 2
      BY <3>1
    <3> QED  BY <1>1, <3>1, <3>2 DEF MakeLabels
  <2>2. CASE ~Busy(w)
    <3>1. /\ Len(stack') = 3
          /\ stack'[1] = a /\ stack'[2] = b /\ stack'[3] = c
      BY <1>4, <2>2
    <3>2. \A i \in 1..Len(stack') : i = 1 \/ i = 2 \/ i = 3
      BY <3>1
    <3> QED  BY <1>1, <3>1, <3>2 DEF MakeLabels
  <2> QED  BY <2>1, <2>2
<1>6. NewReady' /\ NoneIdle'
  BY <1>5 DEF NewReady, NoneIdle
<1>7. ~Busy(w) => (Departing /\ Top.w = w)'
  <2> SUFFICES ASSUME ~Busy(w)
               PROVE  (Departing /\ Top.w = w)'
    OBVIOUS
  <2>1. Len(stack') = 3 /\ stack'[3] = c
    BY <1>4
  <2>2. stack' # <<>>
    BY <2>1, EmptySeq
  <2>3. Top' = c
    BY <2>1 DEF Top
  <2> QED  BY <1>1, <2>2, <2>3 DEF Departing
<1>8. IdleReady'
  <2> SUFFICES ASSUME NEW v \in idleWorkers'
               PROVE  Ready(v)'
    BY DEF IdleReady
  <2>1. Usable(v)
    BY <1>2, ReadyIsUsable DEF IdleInv, IdleReady, Departing
  <2>2. CASE v = w
    BY <1>2, <1>7, <2>1, <2>2 DEF Ready, Usable, Busy, Leaving
  <2>3. CASE v # w
    BY <1>2, <2>1, <2>3 DEF Ready, Usable, Busy
  <2> QED  BY <2>2, <2>3
<1>9. \A v : ~Excused(v)
  BY <1>2, EmptySeq DEF Excused
<1>10. NoneForgotten'
  BY <1>2, <1>9 DEF IdleInv, NoneForgotten, Busy
<1> QED  BY <1>6, <1>8, <1>10

(* Every step keeps the invariant of the idle set.                           *)
LEMMA NextIdle ==
  ASSUME IInv, IInv', TaskInv, Closing, BoundsInv, IdleInv, [Next]_vars
  PROVE  IdleInv'
<1> USE DEF IInv
<1>1. PlainFails'
  BY NextPlainFails DEF IdleInv
<1>2. WorkerQuiet => IdleQuiet
  BY DEF WorkerQuiet, IdleQuiet, Avoids, WorkLabels, MakeLabels
<1>3. IdleQuiet => IdleReady' /\ NewReady' /\ NoneIdle' /\ NoneForgotten'
  BY QuietIdle
<1>4. ASSUME WorkerStep
      PROVE  IdleReady' /\ NewReady' /\ NoneIdle' /\ NoneForgotten'
  BY <1>3, <1>4, CreationSameIdle, CallsSameIdle, TerminationSameIdle,
     PicksKeepIdle, MakingKeepsIdle, ExpiredKeepIdle, ReadinessKeepsIdle,
     DispatchKeepsIdle, TasksLeaveIdle, CompletionKeepsIdle,
     CompletedKeepsIdle, FailureKeepsIdle, ToRemovalKeepsIdle,
     RemovalKeepsIdle, TerminationKeepsIdle, LifetimeKeepsIdle
     DEF WorkerStep
<1> QED  BY <1>1, <1>2, <1>3, <1>4, WorkerSteps DEF IdleInv

(* The idle set has its invariant.                                           *)
LEMMA IdleHolds == Spec => []IdleInv
<1>1. Init => IdleInv
  <2>1. ASSUME Init
        PROVE  Len(stack) = 0 /\ workers = {} /\ idleWorkers = {}
    BY <2>1 DEF Init
  <2> QED  BY <2>1 DEF IdleInv, PlainFails, IdleReady, NewReady, NoneIdle,
                       NoneForgotten
<1>2. ASSUME IInv, IInv', TaskInv, Closing, BoundsInv, IdleInv,
             [Next]_vars
      PROVE  IdleInv'
  BY <1>2, NextIdle
<1> QED
  BY <1>1, <1>2, TasksTracked, ClosedPoolSheds, BoundsHold, PTL DEF Spec

(* In the event loop idleWorkers holds exactly the managed workers without a *)
(* task; while user code runs inside the pool, it holds only workers that    *)
(* can be used. No callback leaves a worker forgotten or a removed one       *)
(* available.                                                                *)
THEOREM IdleSetIsExact == Spec => []IdleExact
<1>1. ASSUME TypeOK, IdleInv
      PROVE  IdleExact
  <2>1. ASSUME AtRest
        PROVE  idleWorkers = {w \in workers : ~Busy(w)}
    <3>1. \A w : ~Excused(w)
      BY <2>1, EmptySeq DEF Excused, AtRest
    <3> QED  BY <1>1, <3>1 DEF IdleInv, IdleReady, Ready, NoneForgotten
  <2>2. ASSUME Observable
        PROVE  \A w \in idleWorkers : Usable(w)
    <3>1. ~Departing
      BY <2>2 DEF Observable, AtRest, Departing
    <3> QED  BY <1>1, <3>1, ReadyIsUsable DEF IdleInv, IdleReady
  <2> QED  BY <2>1, <2>2 DEF IdleExact
<1> QED  BY <1>1, IdleHolds, TypeCorrect, PTL

=============================================================================
