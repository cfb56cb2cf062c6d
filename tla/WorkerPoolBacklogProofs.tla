---------------------- MODULE WorkerPoolBacklogProofs -----------------------
(* Proofs about the tasks of the pool that wait: the queue keeps its limit,  *)
(* no accepted task is lost, a retired worker is given none, a reported      *)
(* shutdown has left nothing, and no free slot is left unused. LimitInv says *)
(* which frame of run() is still to shorten an overfull queue. SealInv says  *)
(* of the statements that the code means to run at once (the choice of a     *)
(* worker and its use, the insertion of a submitted task, a forced removal)  *)
(* that nothing runs between them, or only calls that change nothing they    *)
(* rely on. HandsInv says where each task is, and ReportInv what a resolved  *)
(* shutdown promise stands for. ServeInv says that, while a free slot waits  *)
(* for a queued task, the code that will use it is on the stack.             *)
EXTENDS WorkerPoolWorkerProofs

-----------------------------------------------------------------------------
(* The queue is bounded.                                                     *)

(* The frames of run() that are still to apply the queue limit.              *)
BoundLabels == {"arm", "enforce"}

(* The inductive invariant of the queue limit.                               *)
LimitInv ==
  \/ Len(queue) <= MaxQueueSize
  \/ \E i \in 1..Len(stack) : stack[i].at \in BoundLabels

(* A step that leaves the queue and those frames alone.                      *)
BacklogQuiet == queue' = queue /\ Keeps(BoundLabels)

(* ... or takes tasks from the queue.                                        *)
BacklogShrinks == Len(queue') <= Len(queue) /\ Keeps(BoundLabels)

(* The steps of a submission, of its signal and its timer: those listed keep *)
(* the queue and the submissions that are to apply its limit.                *)
LEMMA SubmissionSameBacklog ==
  ASSUME TypeOK
  PROVE  /\ SettleNext => BacklogQuiet
         /\ SettleDone => BacklogQuiet
         /\ \A p, timed : Run(p, timed) => BacklogQuiet
         /\ SignalThrows => BacklogQuiet
<1> USE DEF poolVars, taskVars, settleVars, workerVars, schedVars, termVars,
     data, BacklogQuiet, Moves, Keeps, BoundLabels, Running, UserCall,
     InCallback, EventLoop
<1>1. SettleNext => BacklogQuiet
  BY SubmissionMoves DEF SettleNext
<1>2. SettleDone => BacklogQuiet
  BY SubmissionMoves DEF SettleDone
<1>3. \A p, timed : Run(p, timed) => BacklogQuiet
  BY SubmissionMoves DEF Run
<1>4. SignalThrows => BacklogQuiet
  BY SubmissionMoves DEF SignalThrows
<1> QED  BY <1>1, <1>2, <1>3, <1>4

(* The steps of the scheduling pass: those listed keep the queue and the     *)
(* submissions that are to apply its limit.                                  *)
LEMMA SchedulingSameBacklog ==
  ASSUME TypeOK
  PROVE  /\ NextSkipped => BacklogQuiet
         /\ NextStarts => BacklogQuiet
         /\ Loop => BacklogQuiet
         /\ EndPass => BacklogQuiet
         /\ NextPass => BacklogQuiet
         /\ NextReturns => BacklogQuiet
         /\ \A w \in Workers : PickIdle(w) => BacklogQuiet
         /\ \A w \in Workers : PickExpired(w) => BacklogQuiet
         /\ PickNew => BacklogQuiet
         /\ PickLoaded => BacklogQuiet
<1> USE DEF poolVars, taskVars, settleVars, workerVars, schedVars, termVars,
     data, BacklogQuiet, Moves, Keeps, BoundLabels, Running, UserCall,
     InCallback, EventLoop
<1>1. NextSkipped => BacklogQuiet
  BY SchedulingMoves DEF NextSkipped
<1>2. NextStarts => BacklogQuiet
  BY SchedulingMoves DEF NextStarts
<1>3. Loop => BacklogQuiet
  BY SchedulingMoves DEF Loop
<1>4. EndPass => BacklogQuiet
  BY SchedulingMoves DEF EndPass
<1>5. NextPass => BacklogQuiet
  BY SchedulingMoves DEF NextPass
<1>6. NextReturns => BacklogQuiet
  BY SchedulingMoves DEF NextReturns
<1>7. \A w \in Workers : PickIdle(w) => BacklogQuiet
  BY SchedulingMoves DEF PickIdle
<1>8. \A w \in Workers : PickExpired(w) => BacklogQuiet
  BY SchedulingMoves DEF PickExpired
<1>9. PickNew => BacklogQuiet
  BY SchedulingMoves DEF PickNew
<1>10. PickLoaded => BacklogQuiet
  BY SchedulingMoves DEF PickLoaded
<1> QED  BY <1>1, <1>2, <1>3, <1>4, <1>5, <1>6, <1>7, <1>8, <1>9, <1>10

(* The steps that find or make a worker: those listed keep the queue and the *)
(* submissions that are to apply its limit.                                  *)
LEMMA CreationSameBacklog ==
  ASSUME TypeOK
  PROVE  /\ \A w \in Workers : ConstructOk(w) => BacklogQuiet
         /\ \A w \in Workers : ConstructPartial(w) => BacklogQuiet
         /\ ConstructThrows => BacklogQuiet
         /\ Discard => BacklogQuiet
         /\ Uncreated => BacklogQuiet
         /\ CreatedReady => BacklogQuiet
         /\ CreatedExpired => BacklogQuiet
         /\ CreatedTooLate => BacklogQuiet
         /\ Finally => BacklogQuiet
         /\ GotNothing => BacklogQuiet
<1> USE DEF poolVars, taskVars, settleVars, workerVars, schedVars, termVars,
     data, BacklogQuiet, Moves, Keeps, BoundLabels, Running, UserCall,
     InCallback, EventLoop
<1>1. \A w \in Workers : ConstructOk(w) => BacklogQuiet
  BY CreationMoves DEF ConstructOk
<1>2. \A w \in Workers : ConstructPartial(w) => BacklogQuiet
  BY CreationMoves DEF ConstructPartial
<1>3. ConstructThrows => BacklogQuiet
  BY CreationMoves DEF ConstructThrows
<1>4. Discard => BacklogQuiet
  BY CreationMoves DEF Discard
<1>5. Uncreated => BacklogQuiet
  BY CreationMoves DEF Uncreated
<1>6. CreatedReady => BacklogQuiet
  BY CreationMoves DEF CreatedReady
<1>7. CreatedExpired => BacklogQuiet
  BY CreationMoves DEF CreatedExpired
<1>8. CreatedTooLate => BacklogQuiet
  BY CreationMoves DEF CreatedTooLate
<1>9. Finally => BacklogQuiet
  BY CreationMoves DEF Finally
<1>10. GotNothing => BacklogQuiet
  BY CreationMoves DEF GotNothing
<1> QED  BY <1>1, <1>2, <1>3, <1>4, <1>5, <1>6, <1>7, <1>8, <1>9, <1>10

(* The steps of a task that runs on its worker: those listed keep the queue  *)
(* and the submissions that are to apply its limit.                          *)
LEMMA CallsSameBacklog ==
  ASSUME TypeOK
  PROVE  /\ \A t \in Tasks : Microtask(t) => BacklogQuiet
         /\ CallMethod => BacklogQuiet
         /\ MethodCalled => BacklogQuiet
         /\ MethodThrows => BacklogQuiet
         /\ \A t \in Tasks : \A why : Answer(t, why) => BacklogQuiet
         /\ CompleteIgnored => BacklogQuiet
         /\ CompleteTask => BacklogQuiet
         /\ Completed => BacklogQuiet
         /\ \A t \in Tasks : TaskTimer(t) => BacklogQuiet
         /\ \A w \in Workers : WorkerError(w) => BacklogQuiet
         /\ FailureStarts => BacklogQuiet
         /\ \A t \in Tasks : FailTask(t) => BacklogQuiet
         /\ FailureEnds => BacklogQuiet
<1> USE DEF poolVars, taskVars, settleVars, workerVars, schedVars, termVars,
     data, BacklogQuiet, Moves, Keeps, BoundLabels, Running, UserCall,
     InCallback, EventLoop
<1>1. \A t \in Tasks : Microtask(t) => BacklogQuiet
  BY CallsMoves DEF Microtask
<1>2. CallMethod => BacklogQuiet
  BY CallsMoves DEF CallMethod
<1>3. MethodCalled => BacklogQuiet
  BY CallsMoves DEF MethodCalled
<1>4. MethodThrows => BacklogQuiet
  BY CallsMoves DEF MethodThrows
<1>5. ASSUME NEW t \in Tasks, NEW why, Answer(t, why)
      PROVE  BacklogQuiet
  <2>1. Moves({}, {"complete"})
    BY <1>5, CallsMoves
  <2> QED  BY <1>5, <2>1 DEF Answer
<1>6. CompleteIgnored => BacklogQuiet
  BY CallsMoves DEF CompleteIgnored
<1>7. CompleteTask => BacklogQuiet
  BY CallsMoves DEF CompleteTask
<1>8. Completed => BacklogQuiet
  BY CallsMoves DEF Completed
<1>9. \A t \in Tasks : TaskTimer(t) => BacklogQuiet
  BY CallsMoves DEF TaskTimer
<1>10. \A w \in Workers : WorkerError(w) => BacklogQuiet
  BY CallsMoves DEF WorkerError
<1>11. FailureStarts => BacklogQuiet
  BY CallsMoves DEF FailureStarts
<1>12. \A t \in Tasks : FailTask(t) => BacklogQuiet
  BY CallsMoves DEF FailTask
<1>13. FailureEnds => BacklogQuiet
  BY CallsMoves DEF FailureEnds
<1> QED  BY <1>1, <1>2, <1>3, <1>4, <1>5, <1>6, <1>7, <1>8, <1>9, <1>10,
     <1>11, <1>12, <1>13

(* The steps that terminate a worker: those listed keep the queue and the    *)
(* submissions that are to apply its limit.                                  *)
LEMMA TerminationSameBacklog ==
  ASSUME TypeOK
  PROVE  /\ RemoveWorker => BacklogQuiet
         /\ RemoveSkipped => BacklogQuiet
         /\ Attempt => BacklogQuiet
         /\ TerminatorReturns => BacklogQuiet
         /\ TerminatorThrows => BacklogQuiet
         /\ TerminatorPromises => BacklogQuiet
         /\ \A w \in Workers : PromiseConfirms(w) => BacklogQuiet
         /\ \A w \in Workers : PromiseConfirmsPastDeadline(w) => BacklogQuiet
         /\ ConfirmedPastDeadline => BacklogQuiet
         /\ \A w \in Workers : PromiseRejects(w) => BacklogQuiet
         /\ \A w \in Workers : AttemptTimer(w) => BacklogQuiet
         /\ \A w \in Workers : LateConfirm(w) => BacklogQuiet
         /\ \A w \in Workers : RetryTimer(w) => BacklogQuiet
         /\ \A w \in Workers : LifetimeTimer(w) => BacklogQuiet
         /\ \A w \in Workers : IdleTimer(w) => BacklogQuiet
<1> USE DEF poolVars, taskVars, settleVars, workerVars, schedVars, termVars,
     data, BacklogQuiet, Moves, Keeps, BoundLabels, Running, UserCall,
     InCallback, EventLoop
<1>1. RemoveWorker => BacklogQuiet
  BY TerminationMoves DEF RemoveWorker
<1>2. RemoveSkipped => BacklogQuiet
  BY TerminationMoves DEF RemoveSkipped
<1>3. Attempt => BacklogQuiet
  BY TerminationMoves DEF Attempt
<1>4. TerminatorReturns => BacklogQuiet
  BY TerminationMoves DEF TerminatorReturns
<1>5. TerminatorThrows => BacklogQuiet
  BY TerminationMoves DEF TerminatorThrows
<1>6. TerminatorPromises => BacklogQuiet
  BY TerminationMoves DEF TerminatorPromises
<1>7. \A w \in Workers : PromiseConfirms(w) => BacklogQuiet
  BY TerminationMoves DEF PromiseConfirms
<1>8. \A w \in Workers : PromiseConfirmsPastDeadline(w) => BacklogQuiet
  BY TerminationMoves DEF PromiseConfirmsPastDeadline
<1>9. ConfirmedPastDeadline => BacklogQuiet
  BY TerminationMoves DEF ConfirmedPastDeadline
<1>10. \A w \in Workers : PromiseRejects(w) => BacklogQuiet
  BY TerminationMoves DEF PromiseRejects
<1>11. \A w \in Workers : AttemptTimer(w) => BacklogQuiet
  BY TerminationMoves DEF AttemptTimer
<1>12. \A w \in Workers : LateConfirm(w) => BacklogQuiet
  BY TerminationMoves DEF LateConfirm
<1>13. \A w \in Workers : RetryTimer(w) => BacklogQuiet
  BY TerminationMoves DEF RetryTimer
<1>14. \A w \in Workers : LifetimeTimer(w) => BacklogQuiet
  BY TerminationMoves DEF LifetimeTimer
<1>15. \A w \in Workers : IdleTimer(w) => BacklogQuiet
  BY TerminationMoves DEF IdleTimer
<1> QED  BY <1>1, <1>2, <1>3, <1>4, <1>5, <1>6, <1>7, <1>8, <1>9, <1>10,
     <1>11, <1>12, <1>13, <1>14, <1>15

(* The steps of the shutdown, of user code and of the clock: those listed    *)
(* keep the queue and the submissions that are to apply its limit.           *)
LEMMA ShutdownSameBacklog ==
  ASSUME TypeOK
  PROVE  /\ Close => BacklogQuiet
         /\ Drain => BacklogQuiet
         /\ Drained => BacklogQuiet
         /\ TerminateWorkers => BacklogQuiet
         /\ \A t \in Tasks : TerminateTask(t) => BacklogQuiet
         /\ TerminateWorker => BacklogQuiet
         /\ StatsFinishDrain => BacklogQuiet
         /\ UpdateStats => BacklogQuiet
         /\ Return => BacklogQuiet
         /\ Time => BacklogQuiet
<1> USE DEF poolVars, taskVars, settleVars, workerVars, schedVars, termVars,
     data, BacklogQuiet, Moves, Keeps, BoundLabels, Running, UserCall,
     InCallback, EventLoop
<1>1. Close => BacklogQuiet
  BY ShutdownMoves DEF Close
<1>2. Drain => BacklogQuiet
  BY ShutdownMoves DEF Drain
<1>3. Drained => BacklogQuiet
  BY ShutdownMoves DEF Drained
<1>4. TerminateWorkers => BacklogQuiet
  BY ShutdownMoves DEF TerminateWorkers
<1>5. \A t \in Tasks : TerminateTask(t) => BacklogQuiet
  BY ShutdownMoves DEF TerminateTask
<1>6. TerminateWorker => BacklogQuiet
  BY ShutdownMoves DEF TerminateWorker
<1>7. StatsFinishDrain => BacklogQuiet
  BY ShutdownMoves DEF StatsFinishDrain
<1>8. UpdateStats => BacklogQuiet
  BY ShutdownMoves DEF UpdateStats
<1>9. Return => BacklogQuiet
  BY ShutdownMoves DEF Return
<1>10. Time => BacklogQuiet
  BY ShutdownMoves DEF Time, QueueDeadline, TaskDeadline, LifetimePasses,
     ClockMoves
<1> QED  BY <1>1, <1>2, <1>3, <1>4, <1>5, <1>6, <1>7, <1>8, <1>9, <1>10

(* The steps that concern the queue limit.                            *)
BacklogStep ==
  \/ Insert \/ Arm \/ ArmLate \/ EnforceQueueLimit
  \/ GotExpired \/ RejectQueue \/ RejectBacklog \/ TerminateAll
  \/ \E late \in BOOLEAN : Dispatch(late)
  \/ \E t \in Tasks : Abort(t) \/ QueueTimer(t)

(* No other step does.                                                       *)
LEMMA BacklogSteps ==
  ASSUME TypeOK, [Next]_vars
  PROVE  BacklogStep \/ BacklogQuiet
<1>1. UNCHANGED vars => BacklogQuiet
  BY DEF vars, data, BacklogQuiet, Keeps
<1>2. ASSUME Code
      PROVE  BacklogStep \/ BacklogQuiet
  BY <1>2, SubmissionSameBacklog, SchedulingSameBacklog, CreationSameBacklog,
     CallsSameBacklog, TerminationSameBacklog, ShutdownSameBacklog
     DEF Code, BacklogStep
<1>3. ASSUME Faults \/ User
      PROVE  BacklogStep \/ BacklogQuiet
  BY <1>3, SubmissionSameBacklog, CallsSameBacklog, ShutdownSameBacklog
     DEF Faults, User, BacklogStep
<1>4. ASSUME World
      PROVE  BacklogStep \/ BacklogQuiet
  BY <1>4, CallsSameBacklog, TerminationSameBacklog DEF World
<1>5. ASSUME NEW t \in Tasks, TaskTimers(t)
      PROVE  BacklogStep \/ BacklogQuiet
  BY <1>5, CallsSameBacklog DEF TaskTimers, BacklogStep
<1>6. ASSUME NEW w \in Workers, WorkerTimers(w)
      PROVE  BacklogStep \/ BacklogQuiet
  BY <1>6, TerminationSameBacklog DEF WorkerTimers
<1> QED
  BY <1>1, <1>2, <1>3, <1>4, <1>5, <1>6, ShutdownSameBacklog DEF Next, Finished

(* Taking a task from the queue does not make it longer.                     *)
LEMMA WithoutShrinks ==
  ASSUME NEW q \in Seq(Tasks), NEW t
  PROVE  Len(Without(q, t)) <= Len(q)
<1>0. Len(q) \in Nat
  OBVIOUS
<1>1. CASE t \notin Elems(q)
  <2>1. Without(q, t) = q
    BY <1>1 DEF Without
  <2> QED  BY <1>0, <2>1
<1>2. CASE t \in Elems(q)
  <2>1. Len(Without(q, t)) = Len(q) - 1
    BY <1>2, WithoutLength
  <2> QED  BY <1>0, <2>1
<1> QED  BY <1>1, <1>2

(* The queue limit is met when it has been applied.                          *)
LEMMA KeptLength ==
  ASSUME NEW q \in Seq(Tasks), NEW t \in Tasks
  PROVE  Len(Kept(q, t, MaxQueueSize, OverflowPolicy)) <= MaxQueueSize
<1> DEFINE n == Len(q) - MaxQueueSize
<1>0. MaxQueueSize \in Nat /\ Len(q) \in Nat
  BY PoolAssumption
<1>1. CASE Len(q) <= MaxQueueSize
  BY <1>0, <1>1 DEF Kept
<1>2. CASE ~(Len(q) <= MaxQueueSize)
           /\ OverflowPolicy = "reject" /\ t \in Elems(q)
  <2>0. t \in Elems(q)
    BY <1>2
  <2>1. Without(q, t) \in Seq(Tasks) /\ Len(Without(q, t)) = Len(q) - 1
    BY <1>2, WithoutType, WithoutLength
  <2>2. n \in 1..Len(q) /\ Len(q) - 1 \in Int
    BY <1>0, <1>2
  <2>3. Len(SubSeq(Without(q, t), n, Len(q) - 1)) <= MaxQueueSize
    <3> DEFINE p == Without(q, t)
    <3> HIDE DEF p
    <3>1. p \in Seq(Tasks) /\ Len(p) = Len(q) - 1
      BY <2>1 DEF p
    <3>2. Len(SubSeq(p, n, Len(q) - 1))
            = IF n <= Len(q) - 1 THEN Len(q) - 1 - n + 1 ELSE 0
      BY <1>0, <2>2, <3>1, SubSeqProperties
    <3>3. Len(SubSeq(p, n, Len(q) - 1)) <= MaxQueueSize
      BY <1>0, <3>2
    <3> QED  BY <3>3 DEF p
  <2> QED  BY <1>0, <1>2, <2>3 DEF Kept
<1>3. CASE ~(Len(q) <= MaxQueueSize)
           /\ ~(OverflowPolicy = "reject" /\ t \in Elems(q))
  <2>1. n + 1 \in 1..(Len(q) + 1)
    BY <1>0, <1>3
  <2>2. Len(SubSeq(q, n + 1, Len(q)))
          = IF n + 1 <= Len(q) THEN Len(q) - (n + 1) + 1 ELSE 0
    BY <1>0, <2>1, SubSeqProperties
  <2>3. Len(SubSeq(q, n + 1, Len(q))) <= MaxQueueSize
    BY <1>0, <2>2
  <2> QED  BY <1>0, <1>3, <2>3 DEF Kept
<1> QED  BY <1>1, <1>2, <1>3

(* The steps that take tasks from the queue.                                 *)
LEMMA BacklogShrinking ==
  ASSUME TypeOK
  PROVE  /\ GotExpired => BacklogShrinks
         /\ RejectQueue => BacklogShrinks
         /\ RejectBacklog => BacklogShrinks
         /\ TerminateAll => BacklogShrinks
         /\ \A late \in BOOLEAN : Dispatch(late) => BacklogShrinks
         /\ \A t \in Tasks : Abort(t) => BacklogShrinks
         /\ \A t \in Tasks : QueueTimer(t) => BacklogShrinks
<1>1. queue \in Seq(Tasks) /\ Len(queue) \in Nat /\ Len(<<>>) <= Len(queue)
  BY DEF TypeOK
<1>2. /\ \A t : queue' = Without(queue, t) => Len(queue') <= Len(queue)
      /\ queue' = <<>> => Len(queue') <= Len(queue)
  BY <1>1, WithoutShrinks
<1>3. /\ GotExpired => Len(queue') <= Len(queue)
      /\ RejectQueue => Len(queue') <= Len(queue)
      /\ RejectBacklog => Len(queue') <= Len(queue)
      /\ TerminateAll => Len(queue') <= Len(queue)
      /\ \A late \in BOOLEAN : Dispatch(late) => Len(queue') <= Len(queue)
      /\ \A t \in Tasks : Abort(t) => Len(queue') <= Len(queue)
      /\ \A t \in Tasks : QueueTimer(t) => Len(queue') <= Len(queue)
  BY <1>2 DEF GotExpired, RejectQueue, RejectBacklog, TerminateAll, Dispatch,
              Abort, QueueTimer
<1>4. /\ GotExpired => Keeps(BoundLabels)
      /\ RejectQueue => Keeps(BoundLabels)
      /\ RejectBacklog => Keeps(BoundLabels)
      /\ TerminateAll => Keeps(BoundLabels)
      /\ \A late \in BOOLEAN : Dispatch(late) => Keeps(BoundLabels)
      /\ \A t \in Tasks : Abort(t) => Keeps(BoundLabels)
      /\ \A t \in Tasks : QueueTimer(t) => Keeps(BoundLabels)
  BY SubmissionMoves, SchedulingMoves, CreationMoves, ShutdownMoves
     DEF Moves, Keeps, BoundLabels
<1> QED  BY <1>3, <1>4 DEF BacklogShrinks

(* run() goes on to the point where it applies the limit.                    *)
LEMMA BoundAhead ==
  ASSUME TypeOK, stack # <<>>, NEW f, f.at \in BoundLabels,
         \/ Proceed(<<f>>) \/ \E g : Proceed(<<f, g>>)
         \/ \E g, h : Proceed(<<f, g, h>>)
  PROVE  LimitInv'
<1>1. stack \in Seq(Frames)
  BY DEF TypeOK
<1>2. ASSUME Proceed(<<f>>)
      PROVE  /\ Len(stack) \in Nat \ {0} /\ stack'[Len(stack)] = f
             /\ Len(stack') = Len(stack)
  BY <1>1, <1>2, Goes1
<1>3. ASSUME NEW g, Proceed(<<f, g>>)
      PROVE  /\ Len(stack) \in Nat \ {0} /\ stack'[Len(stack)] = f
             /\ Len(stack') = Len(stack) + 1
  BY <1>1, <1>3, Goes2
<1>4. ASSUME NEW g, NEW h, Proceed(<<f, g, h>>)
      PROVE  /\ Len(stack) \in Nat \ {0} /\ stack'[Len(stack)] = f
             /\ Len(stack') = Len(stack) + 2
  BY <1>1, <1>4, Goes3
<1>5. /\ Len(stack) \in Nat \ {0} /\ stack'[Len(stack)] = f
      /\ \/ Len(stack') = Len(stack) \/ Len(stack') = Len(stack) + 1
         \/ Len(stack') = Len(stack) + 2
  BY <1>2, <1>3, <1>4
<1>6. Len(stack) \in 1..Len(stack')
  BY <1>5
<1> QED  BY <1>5, <1>6 DEF LimitInv

(* run(), from the insertion to the last thing it does.                      *)
LEMMA SubmissionLimit ==
  ASSUME TypeOK, Insert \/ Arm \/ ArmLate
  PROVE  LimitInv' \/ BacklogShrinks
<1>0. Len(queue) \in Nat
  BY DEF TypeOK
<1>1. ASSUME Insert
      PROVE  LimitInv' \/ BacklogShrinks
  <2> DEFINE f == Yield("event", For("arm", Top.ts[1]))
  <2>1. f.at \in BoundLabels
    BY LabelsOf DEF BoundLabels
  <2>2. Insert => stack # <<>> /\ (Proceed(<<f>>) \/ queue' = queue)
    BY DEF Insert, Running
  <2> HIDE DEF f
  <2>3. CASE Proceed(<<f>>)
    BY <1>1, <2>1, <2>2, <2>3, BoundAhead
  <2>4. CASE queue' = queue
    BY <1>0, <1>1, <2>4, SubmissionMoves
       DEF BacklogShrinks, Moves, Keeps, BoundLabels
  <2> QED  BY <1>1, <2>2, <2>3, <2>4
<1>2. ASSUME Arm \/ ArmLate
      PROVE  LimitInv'
  <2> DEFINE f == For("enforce", Top.ts[1])
             g == At("next")
             h == Yield("event", At("stats"))
  <2>1. f.at \in BoundLabels
    BY LabelsOf DEF BoundLabels
  <2>2. Arm => stack # <<>> /\ Proceed(<<f, g>>)
    BY DEF Arm, Running, ScheduleThenEnforce
  <2>3. ArmLate => stack # <<>> /\ Proceed(<<f, g>> \o <<h>>)
    BY DEF ArmLate, Running, ScheduleThenEnforce
  <2> HIDE DEF f, g, h
  <2>4. <<f, g>> \o <<h>> = <<f, g, h>>
    BY Joins
  <2> QED  BY <1>2, <2>1, <2>2, <2>3, <2>4, BoundAhead
<1> QED  BY <1>1, <1>2

(* Every step keeps the invariant of the queue limit.                        *)
LEMMA NextLimit ==
  ASSUME TypeOK, TypeOK', LimitInv, [Next]_vars
  PROVE  LimitInv'
<1>0. MaxQueueSize \in Nat /\ Len(queue) \in Nat /\ Len(queue') \in Nat
  BY PoolAssumption DEF TypeOK
<1>1. BacklogQuiet => BacklogShrinks
  BY <1>0 DEF BacklogQuiet, BacklogShrinks
<1>2. ASSUME BacklogShrinks
      PROVE  LimitInv'
  BY <1>0, <1>2 DEF BacklogShrinks, LimitInv, Keeps
<1>3. ASSUME EnforceQueueLimit
      PROVE  LimitInv'
  <2>1. Top.ts[1] \in Tasks
    BY <1>3, RunningFrame DEF EnforceQueueLimit, TaskLabels
  <2> QED  BY <1>3, <2>1, KeptLength DEF EnforceQueueLimit, LimitInv, TypeOK
<1> QED
  BY <1>1, <1>2, <1>3, BacklogSteps, BacklogShrinking,
     SubmissionLimit
     DEF BacklogStep, LimitInv

(* The queue limit holds in the event loop: however many submissions are     *)
(* nested in the callbacks of others, each still ends with                   *)
(* _enforceQueueLimit, and the last one to do so leaves at most maxQueueSize *)
(* tasks; no step in between it and the event loop fills the queue again.    *)
THEOREM QueueIsBounded == Spec => []QueueBound
<1>1. Init => LimitInv
  BY PoolAssumption DEF Init, LimitInv
<1>2. ASSUME TypeOK, TypeOK', LimitInv, [Next]_vars
      PROVE  LimitInv'
  BY <1>2, NextLimit
<1>3. LimitInv => QueueBound
  <2>1. AtRest => ~\E i \in 1..Len(stack) : TRUE
    BY EmptySeq DEF AtRest
  <2> QED  BY <2>1 DEF LimitInv, QueueBound
<1> QED  BY <1>1, <1>2, <1>3, TypeCorrect, PTL DEF Spec

-----------------------------------------------------------------------------
(* What no user code interrupts.                                             *)

(* The frames that no user code interrupts.                                  *)
SealLabels == {"insert", "remove", "pick", "got", "finally"}

(* The frames that may run on top of a chosen worker.                        *)
TopLabels == {"stats", "return", "terminate"}

(* The observers that would interrupt them do not call the pool, nor is it   *)
(* while they run that a deadline passes.                                    *)
QuietObservers == "stats" \notin Reenters /\ "signal" \notin Reenters

(* The frame holds a worker that _getAvailableWorker has chosen.             *)
Chosen(f) == f.at \in {"got", "finally"} /\ f.w # NoWorker

(* A frame that runs at once. The choice of a worker is one, unless workers  *)
(* may have outlived their time, and are removed in the midst of it.         *)
Alone(f) ==
  f.at \in {"insert", "remove"} \/ (f.at = "pick" /\ ~Lifetime)

(* Frame f can be the running one: a task is inserted in an open pool, a     *)
(* worker is chosen in one, a worker that has to go has no task, and a       *)
(* chosen worker can be used.                                                *)
TopFits(f) ==
  /\ f.at = "insert" => f.cb = "signal" /\ ~terminationStarted
  /\ f.at = "pick" /\ ~Lifetime => f.cb = "none" /\ ~terminationStarted
  /\ f.at = "remove" => /\ f.cb = "none"
                        /\ f.why = "force" => ~Busy(f.w)
  /\ Chosen(f) => \/ terminationStarted
                  \/ /\ f.cb = "none"
                     /\ f.w \in workers \ marked /\ ~Expired(f.w)

(* ... and where it can be.                                                  *)
Sealed(i) ==
  /\ TopFits(stack[i])
  /\ Alone(stack[i]) => i = Len(stack)
  /\ Chosen(stack[i]) => \/ terminationStarted
                         \/ i = Len(stack)
                         \/ /\ i = Len(stack) - 1 /\ Top.at \in TopLabels
                            /\ Top.cb \notin Reenters

(* The inductive invariant of the frames that no user code interrupts.       *)
SealInv == \A i \in 1..Len(stack) : Sealed(i)

(* Frames that none of this is about.                                        *)
Plain(f) == ~Alone(f) /\ ~Chosen(f)

(* User code, a handler of its own, or code that is not sealed takes a step. *)
Loose ==
  stack = <<>> \/ InCallback \/ Top.at \notin SealLabels \cup TopLabels

(* Most steps open no sealed frame and cannot run on one.                    *)
SealQuiet ==
  /\ Avoids(SealLabels) /\ Loose
  /\ UNCHANGED <<terminationStarted, shutdownResolved>>
  /\ Lifetime \/ life' = life

(* The steps of a submission, of its signal and its timer: those listed open *)
(* no sealed frame and run on none.                                          *)
LEMMA SubmissionUnsealed ==
  ASSUME TypeOK
  PROVE  /\ SettleNext => SealQuiet
         /\ SettleDone => SealQuiet
         /\ Arm => SealQuiet
         /\ ArmLate => SealQuiet
         /\ EnforceQueueLimit => SealQuiet
         /\ \A t \in Tasks : Abort(t) => SealQuiet
         /\ \A t \in Tasks : QueueTimer(t) => SealQuiet
<1> USE DEF poolVars, taskVars, settleVars, workerVars, schedVars, termVars,
     data, SealQuiet, Loose, Moves, Avoids, SealLabels, TopLabels, Running,
     UserCall, InCallback, EventLoop, TimersMayFire
<1>1. SettleNext => SealQuiet
  BY SubmissionMoves DEF SettleNext
<1>2. SettleDone => SealQuiet
  BY SubmissionMoves DEF SettleDone
<1>3. Arm => SealQuiet
  BY SubmissionMoves DEF Arm
<1>4. ArmLate => SealQuiet
  BY SubmissionMoves DEF ArmLate
<1>5. EnforceQueueLimit => SealQuiet
  BY SubmissionMoves DEF EnforceQueueLimit
<1>6. \A t \in Tasks : Abort(t) => SealQuiet
  BY SubmissionMoves DEF Abort
<1>7. \A t \in Tasks : QueueTimer(t) => SealQuiet
  BY SubmissionMoves DEF QueueTimer
<1> QED  BY <1>1, <1>2, <1>3, <1>4, <1>5, <1>6, <1>7

(* The steps of the scheduling pass: those listed open no sealed frame and   *)
(* run on none.                                                              *)
LEMMA SchedulingUnsealed ==
  ASSUME TypeOK
  PROVE  /\ NextSkipped => SealQuiet
         /\ NextStarts => SealQuiet
         /\ EndPass => SealQuiet
         /\ RejectQueue => SealQuiet
         /\ NextPass => SealQuiet
         /\ NextReturns => SealQuiet
         /\ RejectBacklog => SealQuiet
<1> USE DEF poolVars, taskVars, settleVars, workerVars, schedVars, termVars,
     data, SealQuiet, Loose, Moves, Avoids, SealLabels, TopLabels, Running,
     UserCall, InCallback, EventLoop, TimersMayFire
<1>1. NextSkipped => SealQuiet
  BY SchedulingMoves DEF NextSkipped
<1>2. NextStarts => SealQuiet
  BY SchedulingMoves DEF NextStarts
<1>3. EndPass => SealQuiet
  BY SchedulingMoves DEF EndPass
<1>4. RejectQueue => SealQuiet
  BY SchedulingMoves DEF RejectQueue
<1>5. NextPass => SealQuiet
  BY SchedulingMoves DEF NextPass
<1>6. NextReturns => SealQuiet
  BY SchedulingMoves DEF NextReturns
<1>7. RejectBacklog => SealQuiet
  BY SchedulingMoves DEF RejectBacklog
<1> QED  BY <1>1, <1>2, <1>3, <1>4, <1>5, <1>6, <1>7

(* The steps that find or make a worker: those listed open no sealed frame   *)
(* and run on none.                                                          *)
LEMMA CreationUnsealed ==
  ASSUME TypeOK
  PROVE  /\ \A w \in Workers : ConstructOk(w) => SealQuiet
         /\ \A w \in Workers : ConstructPartial(w) => SealQuiet
         /\ ConstructThrows => SealQuiet
         /\ Discard => SealQuiet
<1> USE DEF poolVars, taskVars, settleVars, workerVars, schedVars, termVars,
     data, SealQuiet, Loose, Moves, Avoids, SealLabels, TopLabels, Running,
     UserCall, InCallback, EventLoop, TimersMayFire
<1>1. \A w \in Workers : ConstructOk(w) => SealQuiet
  BY CreationMoves DEF ConstructOk
<1>2. \A w \in Workers : ConstructPartial(w) => SealQuiet
  BY CreationMoves DEF ConstructPartial
<1>3. ConstructThrows => SealQuiet
  BY CreationMoves DEF ConstructThrows
<1>4. Discard => SealQuiet
  BY CreationMoves DEF Discard
<1> QED  BY <1>1, <1>2, <1>3, <1>4

(* The steps of a task that runs on its worker: those listed open no sealed  *)
(* frame and run on none.                                                    *)
LEMMA CallsUnsealed ==
  ASSUME TypeOK
  PROVE  /\ \A t \in Tasks : Microtask(t) => SealQuiet
         /\ CallMethod => SealQuiet
         /\ MethodCalled => SealQuiet
         /\ MethodThrows => SealQuiet
         /\ \A t \in Tasks : \A why : Answer(t, why) => SealQuiet
         /\ CompleteIgnored => SealQuiet
         /\ CompleteTask => SealQuiet
         /\ \A t \in Tasks : TaskTimer(t) => SealQuiet
         /\ \A w \in Workers : WorkerError(w) => SealQuiet
         /\ FailureStarts => SealQuiet
         /\ \A t \in Tasks : FailTask(t) => SealQuiet
<1> USE DEF poolVars, taskVars, settleVars, workerVars, schedVars, termVars,
     data, SealQuiet, Loose, Moves, Avoids, SealLabels, TopLabels, Running,
     UserCall, InCallback, EventLoop, TimersMayFire
<1>1. \A t \in Tasks : Microtask(t) => SealQuiet
  BY CallsMoves DEF Microtask
<1>2. CallMethod => SealQuiet
  BY CallsMoves DEF CallMethod
<1>3. MethodCalled => SealQuiet
  BY CallsMoves DEF MethodCalled
<1>4. MethodThrows => SealQuiet
  BY CallsMoves DEF MethodThrows
<1>5. ASSUME NEW t \in Tasks, NEW why, Answer(t, why)
      PROVE  SealQuiet
  <2>1. Moves({}, {"complete"})
    BY <1>5, CallsMoves
  <2> QED  BY <1>5, <2>1 DEF Answer
<1>6. CompleteIgnored => SealQuiet
  BY CallsMoves DEF CompleteIgnored
<1>7. CompleteTask => SealQuiet
  BY CallsMoves DEF CompleteTask
<1>8. \A t \in Tasks : TaskTimer(t) => SealQuiet
  BY CallsMoves DEF TaskTimer
<1>9. \A w \in Workers : WorkerError(w) => SealQuiet
  BY CallsMoves DEF WorkerError
<1>10. FailureStarts => SealQuiet
  BY CallsMoves DEF FailureStarts
<1>11. \A t \in Tasks : FailTask(t) => SealQuiet
  BY CallsMoves DEF FailTask
<1> QED  BY <1>1, <1>2, <1>3, <1>4, <1>5, <1>6, <1>7, <1>8, <1>9, <1>10, <1>11

(* The steps that terminate a worker: those listed open no sealed frame and  *)
(* run on none.                                                              *)
LEMMA TerminationUnsealed ==
  ASSUME TypeOK
  PROVE  /\ Attempt => SealQuiet
         /\ TerminatorReturns => SealQuiet
         /\ TerminatorThrows => SealQuiet
         /\ TerminatorPromises => SealQuiet
         /\ \A w \in Workers : PromiseConfirms(w) => SealQuiet
         /\ \A w \in Workers : PromiseConfirmsPastDeadline(w) => SealQuiet
         /\ ConfirmedPastDeadline => SealQuiet
         /\ \A w \in Workers : PromiseRejects(w) => SealQuiet
         /\ \A w \in Workers : AttemptTimer(w) => SealQuiet
         /\ \A w \in Workers : LateConfirm(w) => SealQuiet
         /\ \A w \in Workers : RetryTimer(w) => SealQuiet
<1> USE DEF poolVars, taskVars, settleVars, workerVars, schedVars, termVars,
     data, SealQuiet, Loose, Moves, Avoids, SealLabels, TopLabels, Running,
     UserCall, InCallback, EventLoop, TimersMayFire
<1>1. Attempt => SealQuiet
  BY TerminationMoves DEF Attempt
<1>2. TerminatorReturns => SealQuiet
  BY TerminationMoves DEF TerminatorReturns
<1>3. TerminatorThrows => SealQuiet
  BY TerminationMoves DEF TerminatorThrows
<1>4. TerminatorPromises => SealQuiet
  BY TerminationMoves DEF TerminatorPromises
<1>5. \A w \in Workers : PromiseConfirms(w) => SealQuiet
  BY TerminationMoves DEF PromiseConfirms
<1>6. \A w \in Workers : PromiseConfirmsPastDeadline(w) => SealQuiet
  BY TerminationMoves DEF PromiseConfirmsPastDeadline
<1>7. ConfirmedPastDeadline => SealQuiet
  BY TerminationMoves DEF ConfirmedPastDeadline
<1>8. \A w \in Workers : PromiseRejects(w) => SealQuiet
  BY TerminationMoves DEF PromiseRejects
<1>9. \A w \in Workers : AttemptTimer(w) => SealQuiet
  BY TerminationMoves DEF AttemptTimer
<1>10. \A w \in Workers : LateConfirm(w) => SealQuiet
  BY TerminationMoves DEF LateConfirm
<1>11. \A w \in Workers : RetryTimer(w) => SealQuiet
  BY ZenonT(40), TerminationMoves DEF RetryTimer
<1> QED  BY <1>1, <1>2, <1>3, <1>4, <1>5, <1>6, <1>7, <1>8, <1>9, <1>10, <1>11

(* The steps of the shutdown, of user code and of the clock: those listed    *)
(* open no sealed frame and run on none.                                     *)
LEMMA ShutdownUnsealed ==
  ASSUME TypeOK
  PROVE  /\ Close => SealQuiet
         /\ Drain => SealQuiet
         /\ Drained => SealQuiet
         /\ TerminateWorkers => SealQuiet
         /\ \A t \in Tasks : TerminateTask(t) => SealQuiet
         /\ Time => SealQuiet
<1> USE DEF poolVars, taskVars, settleVars, workerVars, schedVars, termVars,
     data, SealQuiet, Loose, Moves, Avoids, SealLabels, TopLabels, Running,
     UserCall, InCallback, EventLoop, TimersMayFire
<1>1. Close => SealQuiet
  BY ShutdownMoves DEF Close
<1>2. Drain => SealQuiet
  BY ShutdownMoves DEF Drain
<1>3. Drained => SealQuiet
  BY ShutdownMoves DEF Drained
<1>4. TerminateWorkers => SealQuiet
  BY ShutdownMoves DEF TerminateWorkers
<1>5. \A t \in Tasks : TerminateTask(t) => SealQuiet
  BY ShutdownMoves DEF TerminateTask
<1>6. Time => SealQuiet
  BY ShutdownMoves DEF Time, QueueDeadline, TaskDeadline, LifetimePasses,
     ClockMoves
<1> QED  BY <1>1, <1>2, <1>3, <1>4, <1>5, <1>6

(* The steps that may concern the sealed frames.                             *)
SealStep ==
  \/ Insert \/ SignalThrows \/ Loop \/ PickNew \/ PickLoaded \/ Uncreated
  \/ CreatedReady \/ CreatedExpired \/ CreatedTooLate \/ Finally
  \/ GotNothing \/ GotExpired \/ Completed \/ FailureEnds
  \/ RemoveWorker \/ RemoveSkipped \/ TerminateAll \/ TerminateWorker
  \/ StatsFinishDrain \/ UpdateStats \/ Return
  \/ \E p \in Priorities, timed \in QueueTimed : Run(p, timed)
  \/ \E late \in BOOLEAN : Dispatch(late)
  \/ \E w \in Workers : \/ PickIdle(w) \/ PickExpired(w)
                        \/ LifetimeTimer(w) \/ IdleTimer(w)

(* No other step does.                                                       *)
LEMMA SealSteps ==
  ASSUME TypeOK, Next
  PROVE  SealStep \/ SealQuiet \/ UNCHANGED vars
<1>1. ASSUME Code
      PROVE  SealStep \/ SealQuiet
  BY <1>1, SubmissionUnsealed, SchedulingUnsealed, CreationUnsealed,
     CallsUnsealed, TerminationUnsealed, ShutdownUnsealed
     DEF Code, SealStep
<1>2. ASSUME Faults \/ User
      PROVE  SealStep \/ SealQuiet
  BY <1>2, SubmissionUnsealed, CallsUnsealed, ShutdownUnsealed
     DEF Faults, User, SealStep
<1>3. ASSUME World
      PROVE  SealStep \/ SealQuiet
  BY <1>3, CallsUnsealed, TerminationUnsealed DEF World, SealStep
<1>4. ASSUME NEW t \in Tasks, TaskTimers(t)
      PROVE  SealStep \/ SealQuiet
  BY <1>4, SubmissionUnsealed, CallsUnsealed DEF TaskTimers
<1>5. ASSUME NEW w \in Workers, WorkerTimers(w)
      PROVE  SealStep \/ SealQuiet
  BY <1>5, TerminationUnsealed DEF WorkerTimers, SealStep
<1> QED
  BY <1>1, <1>2, <1>3, <1>4, <1>5, ShutdownUnsealed DEF Next, Finished

(* A quiet step finds no sealed frame, and makes none.                       *)
LEMMA QuietSeals ==
  ASSUME TypeOK, QuietObservers, SealInv, SealQuiet
  PROVE  SealInv'
<1> SUFFICES ASSUME NEW i \in 1..Len(stack')
             PROVE  Sealed(i)'
  BY DEF SealInv
<1>1. CASE stack'[i].at \notin SealLabels
  BY <1>1 DEF Sealed, TopFits, Chosen, Alone, SealLabels
<1>2. CASE stack'[i].at \in SealLabels
  <2>1. i \in 1..Len(stack) /\ stack'[i] = stack[i]
    BY <1>2 DEF SealQuiet, Avoids
  <2>2. stack \in Seq(Frames) /\ stack # <<>>
    BY <2>1, EmptySeq DEF TypeOK
  <2>3. /\ Top = stack[Len(stack)]
        /\ Top.at \notin SealLabels \/ Top.cb \in Reenters
    BY <2>2 DEF SealQuiet, Loose, InCallback, Top
  <2>4. ~Alone(stack[i])
    BY <2>1, <2>3, PoolAssumption
       DEF SealInv, Sealed, TopFits, QuietObservers, Callbacks, SealLabels,
           Top, Alone
  <2>5. Chosen(stack[i]) => terminationStarted
    BY <2>1, <2>2, PoolAssumption
       DEF SealInv, Sealed, TopFits, SealQuiet, Loose, InCallback, SealLabels,
           Chosen, Top, Callbacks
  <2> QED  BY <2>1, <2>4, <2>5 DEF Sealed, TopFits, SealQuiet, Chosen, Alone
<1> QED  BY <1>1, <1>2

(* Below the running frame nothing is sealed, if it is not one of TopLabels. *)
LEMMA BelowUnsealed ==
  ASSUME TypeOK, SealInv, stack # <<>>, Top.at \notin TopLabels,
         NEW i \in 1..(Len(stack) - 1)
  PROVE  /\ ~Alone(stack[i])
         /\ Chosen(stack[i]) => terminationStarted
<1>1. Len(stack) \in Nat /\ i \in 1..Len(stack) /\ i # Len(stack)
  BY DEF TypeOK
<1> QED  BY <1>1 DEF SealInv, Sealed

(* Such a method goes on with frames that are not sealed, but for the last.  *)
LEMMA SealGoesOn ==
  ASSUME TypeOK, SealInv, stack # <<>>, Top.at \notin TopLabels,
         terminationStarted => terminationStarted',
         NEW f, NEW g, NEW h, NEW k
  PROVE  /\ Proceed(<<>>) => SealInv'
         /\ Proceed(<<f>>) /\ TopFits(f)' => SealInv'
         /\ Proceed(<<f, g>>) /\ Plain(f) /\ TopFits(g)' => SealInv'
         /\ Proceed(<<f, g, h>>) /\ Plain(f) /\ Plain(g) /\ TopFits(h)' =>
              SealInv'
         /\ /\ Proceed(<<f, g, h, k>>) /\ Plain(f) /\ Plain(g) /\ Plain(h)
            /\ TopFits(k)'
            => SealInv'
<1>0. PICK n : n = Len(stack)
  OBVIOUS
<1>1. stack \in Seq(Frames) /\ n \in Nat \ {0}
  BY <1>0, TopIsFrame DEF TypeOK
<1>2. \A i \in 1..(n - 1) : stack'[i] = stack[i] => Sealed(i)'
  <2> SUFFICES ASSUME NEW i \in 1..(n - 1), stack'[i] = stack[i]
               PROVE  Sealed(i)'
    OBVIOUS
  <2>1. /\ ~Alone(stack[i])
        /\ Chosen(stack[i]) => terminationStarted
    BY <1>0, BelowUnsealed
  <2> QED  BY <2>1 DEF Sealed, TopFits, Chosen, Alone
<1>3. \A i : stack'[i] = f /\ Plain(f) => Sealed(i)'
  BY DEF Plain, Sealed, TopFits, Chosen, Alone
<1>4. \A i : stack'[i] = g /\ Plain(g) => Sealed(i)'
  BY DEF Plain, Sealed, TopFits, Chosen, Alone
<1>5. \A i : stack'[i] = h /\ Plain(h) => Sealed(i)'
  BY DEF Plain, Sealed, TopFits, Chosen, Alone
<1>6. \A i : i = Len(stack') /\ TopFits(stack[i])' => Sealed(i)'
  BY DEF Sealed
<1>7. Proceed(<<>>) => SealInv'
  BY <1>0, <1>1, <1>2, Goes0 DEF SealInv
<1>8. Proceed(<<f>>) /\ TopFits(f)' => SealInv'
  <2> SUFFICES ASSUME Proceed(<<f>>), TopFits(f)'
               PROVE  SealInv'
    OBVIOUS
  <2>1. /\ Len(stack') = n /\ stack'[n] = f
        /\ \A i \in 1..(n - 1) : stack'[i] = stack[i]
    BY <1>0, <1>1, Goes1
  <2>2. \A i \in 1..n : i \in 1..(n - 1) \/ i = n
    BY <1>1
  <2> QED  BY <1>2, <1>6, <2>1, <2>2 DEF SealInv
<1>9. Proceed(<<f, g>>) /\ Plain(f) /\ TopFits(g)' => SealInv'
  <2> SUFFICES ASSUME Proceed(<<f, g>>), Plain(f), TopFits(g)'
               PROVE  SealInv'
    OBVIOUS
  <2>1. /\ Len(stack') = n + 1 /\ stack'[n] = f /\ stack'[n + 1] = g
        /\ \A i \in 1..(n - 1) : stack'[i] = stack[i]
    BY <1>0, <1>1, Goes2
  <2>2. \A i \in 1..(n + 1) : i \in 1..(n - 1) \/ i = n \/ i = n + 1
    BY <1>1
  <2> QED  BY <1>2, <1>3, <1>6, <2>1, <2>2 DEF SealInv
<1>10. Proceed(<<f, g, h>>) /\ Plain(f) /\ Plain(g) /\ TopFits(h)' => SealInv'
  <2> SUFFICES ASSUME Proceed(<<f, g, h>>), Plain(f), Plain(g), TopFits(h)'
               PROVE  SealInv'
    OBVIOUS
  <2>1. /\ Len(stack') = n + 2
        /\ stack'[n] = f /\ stack'[n + 1] = g /\ stack'[n + 2] = h
        /\ \A i \in 1..(n - 1) : stack'[i] = stack[i]
    BY <1>0, <1>1, Goes3
  <2>2. \A i \in 1..(n + 2) :
          i \in 1..(n - 1) \/ i = n \/ i = n + 1 \/ i = n + 2
    BY <1>1
  <2> QED  BY <1>2, <1>3, <1>4, <1>6, <2>1, <2>2 DEF SealInv
<1>11. /\ Proceed(<<f, g, h, k>>) /\ Plain(f) /\ Plain(g) /\ Plain(h)
       /\ TopFits(k)'
       => SealInv'
  <2> SUFFICES ASSUME Proceed(<<f, g, h, k>>), Plain(f), Plain(g), Plain(h),
                      TopFits(k)'
               PROVE  SealInv'
    OBVIOUS
  <2>1. /\ Len(stack') = n + 3
        /\ stack'[n] = f /\ stack'[n + 1] = g /\ stack'[n + 2] = h
        /\ stack'[n + 3] = k
        /\ \A i \in 1..(n - 1) : stack'[i] = stack[i]
    BY <1>0, <1>1, Goes4
  <2>2. \A i \in 1..(n + 3) :
          i \in 1..(n - 1) \/ i = n \/ i = n + 1 \/ i = n + 2 \/ i = n + 3
    BY <1>1
  <2> QED  BY <1>2, <1>3, <1>4, <1>5, <1>6, <2>1, <2>2 DEF SealInv
<1> QED  BY <1>7, <1>8, <1>9, <1>10, <1>11

(* Frames with other labels are none of these.                               *)
LEMMA OtherFrames ==
  ASSUME NEW f, f.at \notin SealLabels
  PROVE  Plain(f) /\ TopFits(f)'
BY DEF Plain, TopFits, Chosen, Alone, SealLabels

(* The methods that only go on with such frames.                             *)
LEMMA PlainStepsSeal ==
  ASSUME TypeOK, SealInv,
         \/ Insert \/ SignalThrows \/ Loop \/ PickNew
         \/ GotNothing \/ GotExpired
         \/ RemoveWorker \/ RemoveSkipped
         \/ \E late \in BOOLEAN : Dispatch(late)
  PROVE  SealInv'
<1>0. /\ stack # <<>> /\ Top.at \notin TopLabels
      /\ terminationStarted' = terminationStarted
  BY DEF Insert, SignalThrows, Loop, PickNew, GotNothing, GotExpired,
         RemoveWorker, RemoveSkipped, Dispatch, Running, TopLabels, data,
         poolVars
<1>1. Proceed(<<>>) => SealInv'
  BY <1>0, SealGoesOn
<1>2. ASSUME NEW f, f.at \notin SealLabels, Proceed(<<f>>)
      PROVE  SealInv'
  BY <1>0, <1>2, SealGoesOn, OtherFrames
<1>3. ASSUME NEW f, NEW g, f.at \notin SealLabels, g.at \notin SealLabels,
             Proceed(<<f, g>>)
      PROVE  SealInv'
  BY <1>0, <1>3, SealGoesOn, OtherFrames
<1>4. ASSUME Insert
      PROVE  SealInv'
  <2> DEFINE f == Yield("event", For("arm", Top.ts[1]))
  <2>1. f.at \notin SealLabels
    BY LabelsOf DEF SealLabels
  <2>2. Proceed(<<f>>) \/ Proceed(<<>>)
    BY <1>4 DEF Insert
  <2> HIDE DEF f
  <2> QED  BY <1>1, <1>2, <2>1, <2>2
<1>5. ASSUME SignalThrows
      PROVE  SealInv'
  <2> DEFINE f == Yield(Announce(Top.ts[1]), At("stats"))
  <2>1. f.at \notin SealLabels
    BY LabelsOf DEF SealLabels
  <2>2. Proceed(<<f>>)
    BY <1>5 DEF SignalThrows
  <2> HIDE DEF f
  <2> QED  BY <1>2, <2>1, <2>2
<1>6. ASSUME GotNothing
      PROVE  SealInv'
  <2> DEFINE f == At("endpass")
  <2>1. f.at \notin SealLabels
    BY LabelsOf DEF SealLabels
  <2>2. Proceed(<<f>>)
    BY <1>6 DEF GotNothing
  <2> HIDE DEF f
  <2> QED  BY <1>2, <2>1, <2>2
<1>7. ASSUME GotExpired
      PROVE  SealInv'
  <2> DEFINE f == Yield("event", At("loop"))
  <2>1. f.at \notin SealLabels
    BY LabelsOf DEF SealLabels
  <2>2. Proceed(<<f>>)
    BY <1>7 DEF GotExpired
  <2> HIDE DEF f
  <2> QED  BY <1>2, <2>1, <2>2
<1>8. ASSUME RemoveWorker
      PROVE  SealInv'
  <2> DEFINE f == Yield("event", On("attempt", Top.w))
  <2>1. f.at \notin SealLabels
    BY LabelsOf DEF SealLabels
  <2>2. Proceed(<<f>>)
    BY <1>8 DEF RemoveWorker
  <2> HIDE DEF f
  <2> QED  BY <1>2, <2>1, <2>2
<1>9. ASSUME RemoveSkipped
      PROVE  SealInv'
  BY <1>1, <1>9 DEF RemoveSkipped
<1>10. ASSUME NEW late \in BOOLEAN, Dispatch(late)
       PROVE  SealInv'
  <2>1. PICK t :
          Proceed(IF late
                  THEN <<Yield("event", At("loop")), Fail(Top.w, <<t>>)>>
                  ELSE <<Yield("event", At("loop"))>>)
    BY <1>10 DEF Dispatch
  <2> DEFINE f == Yield("event", At("loop"))
             g == Fail(Top.w, <<t>>)
  <2>2. f.at \notin SealLabels /\ g.at \notin SealLabels
    BY LabelsOf DEF SealLabels
  <2>3. Proceed(<<f>>) \/ Proceed(<<f, g>>)
    BY <2>1
  <2> HIDE DEF f, g
  <2> QED  BY <1>2, <1>3, <2>2, <2>3
<1>11. ASSUME Loop
       PROVE  SealInv'
  <2>1. CASE Proceed(<<At("endpass")>>)
    <3> DEFINE f == At("endpass")
    <3>1. f.at \notin SealLabels
      BY LabelsOf DEF SealLabels
    <3>2. Proceed(<<f>>)
      BY <2>1
    <3> HIDE DEF f
    <3> QED  BY <1>2, <3>1, <3>2
  <2>2. CASE ~terminationStarted /\ Proceed(<<At("pick")>>)
    <3> DEFINE f == At("pick")
    <3>1. f.at = "pick" /\ f.cb = "none"
      BY LabelsOf, FieldsOf
    <3>2. Proceed(<<f>>)
      BY <2>2
    <3> HIDE DEF f
    <3>3. TopFits(f)'
      BY <1>0, <2>2, <3>1 DEF TopFits, Chosen
    <3> QED  BY <1>0, <3>2, <3>3, SealGoesOn
  <2> QED  BY <1>11, <2>1, <2>2 DEF Loop
<1>12. ASSUME PickNew
       PROVE  SealInv'
  <2> DEFINE f == Yield("factory", At("construct"))
  <2>1. f.at \notin SealLabels
    BY LabelsOf DEF SealLabels
  <2>2. Proceed(<<f>>)
    BY <1>12 DEF PickNew
  <2> HIDE DEF f
  <2> QED  BY <1>2, <2>1, <2>2
<1> QED
  BY <1>4, <1>5, <1>6, <1>7, <1>8, <1>9, <1>10, <1>11, <1>12

(* A chosen worker that can be used.                                         *)
LEMMA ChosenFits ==
  ASSUME NEW l \in {"got", "finally"}, NEW w \in workers' \ marked',
         ~Expired(w)'
  PROVE  TopFits(On(l, w))'
<1> DEFINE f == On(l, w)
<1>1. f.at = l /\ f.w = w /\ f.cb = "none"
  BY LabelsOf, FieldsOf
<1> HIDE DEF f
<1>2. TopFits(f)'
  BY <1>1 DEF TopFits, Chosen, Expired
<1> QED  BY <1>2 DEF f

(* A frame that names no worker has chosen none.                             *)
LEMMA NoneChosen ==
  ASSUME NEW f, f.w = NoWorker, f.at \in {"next", "stats", "finally"}
  PROVE  Plain(f) /\ TopFits(f)'
BY DEF Plain, TopFits, Chosen, Alone

(* The removal of a worker that may be removed.                              *)
LEMMA RemovalFits ==
  ASSUME NEW w, NEW how, how = "force" => activeTasks'[w] = {}
  PROVE  TopFits(Remove(w, how))'
<1> DEFINE f == Remove(w, how)
<1>1. f.at = "remove" /\ f.w = w /\ f.cb = "none" /\ f.why = how
  BY LabelsOf, FieldsOf
<1> HIDE DEF f
<1>2. TopFits(f)'
  BY <1>1 DEF TopFits, Chosen, Busy
<1> QED  BY <1>2 DEF f

(* The worker for the next task is chosen.                                   *)
LEMMA ChoicesSeal ==
  ASSUME TypeOK, SealInv,
         PickLoaded \/ Uncreated \/ \E w \in Workers : PickIdle(w)
  PROVE  SealInv'
<1>0. /\ stack # <<>> /\ Top.at \notin TopLabels
      /\ terminationStarted' = terminationStarted
  BY DEF PickLoaded, Uncreated, PickIdle, Running, TopLabels, poolVars
<1>1. ASSUME NEW f, Proceed(<<f>>), TopFits(f)'
      PROVE  SealInv'
  BY <1>0, <1>1, SealGoesOn
<1>2. ASSUME NEW w \in Workers, PickIdle(w)
      PROVE  SealInv'
  <2>1. /\ w \in workers' \ marked' /\ ~Expired(w)'
        /\ Proceed(<<On("got", w)>>)
    BY <1>2 DEF PickIdle, Usable, Expired
  <2> QED  BY <1>1, <2>1, ChosenFits
<1>3. ASSUME MarkExpired, UNCHANGED <<workers, life>>, NEW w \in LeastLoaded
      PROVE  w \in workers' \ marked' /\ ~Expired(w)'
  BY <1>3 DEF MarkExpired, LeastLoaded, HasSlot, Expired
<1>4. ASSUME PickLoaded
      PROVE  SealInv'
  <2>1. CASE Proceed(<<At("endpass")>>)
    BY <1>1, <2>1, LabelsOf, OtherFrames DEF SealLabels
  <2>2. ASSUME NEW w \in LeastLoaded, Proceed(<<On("got", w)>>)
        PROVE  SealInv'
    <3>1. w \in workers' \ marked' /\ ~Expired(w)'
      BY <1>3, <1>4 DEF PickLoaded
    <3> QED  BY <1>1, <2>2, <3>1, ChosenFits
  <2> QED  BY <1>4, <2>1, <2>2 DEF PickLoaded
<1>5. ASSUME Uncreated
      PROVE  SealInv'
  <2>1. ASSUME Proceed(<<[At("finally") EXCEPT !.why = "broken"]>>)
        PROVE  SealInv'
    <3> DEFINE f == [At("finally") EXCEPT !.why = "broken"]
    <3>1. f.w = NoWorker /\ f.at = "finally"
      BY DEF At
    <3>2. Proceed(<<f>>)
      BY <2>1
    <3> HIDE DEF f
    <3> QED  BY <1>1, <3>1, <3>2, NoneChosen
  <2>2. ASSUME NEW w \in LeastLoaded, Proceed(<<On("finally", w)>>)
        PROVE  SealInv'
    <3>1. w \in workers' \ marked' /\ ~Expired(w)'
      BY <1>3, <1>5 DEF Uncreated
    <3> QED  BY <1>1, <2>2, <3>1, ChosenFits
  <2> QED  BY <1>5, <2>1, <2>2 DEF Uncreated
<1> QED  BY <1>2, <1>4, <1>5

(* Without a lifetime no worker expires.                                     *)
Young == Lifetime \/ \A w \in Workers : life[w] = "young"

LEMMA WorkersStayYoung == Spec => []Young
<1>1. Init => Young
  BY DEF Init, Young
<1>2. ASSUME TypeOK, Young, Next
      PROVE  Young'
  <2>1. CASE SealStep
    <3>1. CASE Lifetime
      BY <3>1 DEF Young
    <3>2. CASE ~Lifetime
      <4>1. \A w \in Workers : ~Expired(w)
        BY <1>2, <3>2 DEF Young, Expired
      <4>2. ~CreatedExpired /\ \A w \in Workers : ~LifetimeTimer(w)
        BY <1>2, <4>1 DEF CreatedExpired, LifetimeTimer, Expired, TypeOK
      <4>3. life' = life
        BY <2>1, <4>2
           DEF SealStep, Insert, SignalThrows, Loop, PickNew, PickLoaded,
               Uncreated, CreatedReady, CreatedTooLate, Finally, GotNothing,
               GotExpired, Completed, FailureEnds, RemoveWorker, RemoveSkipped,
               TerminateAll, TerminateWorker, StatsFinishDrain, UpdateStats,
               Return, Run, Dispatch, PickIdle, PickExpired, IdleTimer, data,
               workerVars
      <4> QED  BY <1>2, <4>3 DEF Young
    <3> QED  BY <3>1, <3>2
  <2>2. CASE SealQuiet \/ UNCHANGED vars
    BY <1>2, <2>2 DEF SealQuiet, Young, vars, data, workerVars
  <2> QED  BY <1>2, <2>1, <2>2, SealSteps
<1>3. UNCHANGED vars /\ Young => Young'
  BY DEF vars, data, workerVars, Young
<1>4. ASSUME TypeOK, Young, [Next]_vars
      PROVE  Young'
  BY <1>2, <1>3, <1>4
<1> QED  BY <1>1, <1>4, TypeCorrect, PTL DEF Spec

(* A method that goes on with the removal of a worker.                       *)
LEMMA RemovalsSeal ==
  ASSUME TypeOK, SealInv, BoundsInv, Young,
         \/ CreatedExpired \/ CreatedTooLate \/ FailureEnds \/ TerminateWorker
         \/ \E w \in Workers : PickExpired(w)
  PROVE  SealInv'
<1>0. /\ stack # <<>> /\ Top.at \notin TopLabels
      /\ terminationStarted' = terminationStarted
  BY DEF CreatedExpired, CreatedTooLate, FailureEnds, TerminateWorker,
         PickExpired, Running, TopLabels, data, poolVars
<1>1. ASSUME NEW w, NEW how, how = "force" => activeTasks'[w] = {},
             NEW f, Plain(f),
             \/ Proceed(<<Remove(w, how)>>) \/ Proceed(<<f, Remove(w, how)>>)
      PROVE  SealInv'
  <2> DEFINE r == Remove(w, how)
  <2>1. TopFits(r)'
    BY <1>1, RemovalFits
  <2>2. Proceed(<<r>>) \/ Proceed(<<f, r>>)
    BY <1>1
  <2> HIDE DEF r
  <2> QED  BY <1>0, <1>1, <2>1, <2>2, SealGoesOn
<1>2. ASSUME NEW w, NEW how, how = "force" => activeTasks'[w] = {},
             NEW f, Plain(f),
             NEW g, Plain(g),
             NEW h, Plain(h),
             \/ Proceed(<<f, g, Remove(w, how)>>)
             \/ Proceed(<<f, g, h, Remove(w, how)>>)
      PROVE  SealInv'
  <2> DEFINE r == Remove(w, how)
  <2>1. TopFits(r)'
    BY <1>2, RemovalFits
  <2>2. Proceed(<<f, g, r>>) \/ Proceed(<<f, g, h, r>>)
    BY <1>2
  <2> HIDE DEF r
  <2> QED  BY <1>0, <1>2, <2>1, <2>2, SealGoesOn
<1>3. \A l \in {"finally", "stats", "next"} : Plain(At(l))
  <2> SUFFICES ASSUME NEW l \in {"finally", "stats", "next"}
               PROVE  Plain(At(l))
    OBVIOUS
  <2> DEFINE f == At(l)
  <2>1. f.w = NoWorker /\ f.at = l
    BY LabelsOf, FieldsOf
  <2> HIDE DEF f
  <2>2. Plain(f)
    BY <2>1, NoneChosen
  <2> QED  BY <2>2 DEF f
<1>4. ASSUME NEW w \in Workers, PickExpired(w)
      PROVE  SealInv'
  <2>1. Proceed(<<At("pick"), Remove(w, "soft")>>)
    BY <1>4 DEF PickExpired
  <2>2. Lifetime
    BY <1>4 DEF PickExpired, Young, Expired
  <2>3. Plain(At("pick"))
    BY <2>2, LabelsOf, FieldsOf DEF Plain, Alone, Chosen
  <2> QED  BY <1>1, <2>1, <2>3
<1>5. ASSUME CreatedExpired
      PROVE  SealInv'
  <2>1. Proceed(<<At("finally"), At("stats"), At("next"),
                  Remove(Top.w, "soft")>>)
    BY <1>5 DEF CreatedExpired
  <2> QED  BY <1>2, <1>3, <2>1
<1>6. ASSUME CreatedTooLate
      PROVE  SealInv'
  <2>1. activeTasks[Top.w] = {}
    BY <1>0, <1>6, TopIsFrame
       DEF CreatedTooLate, Running, BoundsInv, ChoiceFits, Fits, TypeOK
  <2>2. PICK w : w = Top.w
    OBVIOUS
  <2>3. Proceed(<<At("finally"), Remove(w, "force")>>) /\ activeTasks'[w] = {}
    BY <1>6, <2>1, <2>2 DEF CreatedTooLate, data, workerVars
  <2> QED  BY <1>1, <1>3, <2>3
<1>7. ASSUME FailureEnds
      PROVE  SealInv'
  <2>1. PICK w : w = Top.w
    OBVIOUS
  <2>2. Proceed(<<At("stats"), At("next"), Remove(w, "force")>>)
    BY <1>7, <2>1 DEF FailureEnds
  <2>3. activeTasks'[w] = {}
    BY <1>7, <2>1 DEF FailureEnds, data, workerVars, Busy
  <2> QED  BY <1>2, <1>3, <2>2, <2>3
<1>8. ASSUME TerminateWorker
      PROVE  SealInv'
  <2>1. PICK w : w = Top.w
    OBVIOUS
  <2>2. Proceed(<<Remove(w, "force")>>)
    BY <1>8, <2>1 DEF TerminateWorker
  <2>3. activeTasks'[w] = {}
    BY <1>8, <2>1 DEF TerminateWorker, data, workerVars, Busy
  <2> QED  BY <1>1, <1>3, <2>2, <2>3
<1> QED  BY <1>4, <1>5, <1>6, <1>7, <1>8

(* A new worker that is ready for a task.                                    *)
LEMMA ReadySeals ==
  ASSUME TypeOK, SealInv, IdleInv, CreatedReady
  PROVE  SealInv'
<1>0. /\ stack # <<>> /\ Top.at \notin TopLabels
      /\ terminationStarted' = terminationStarted
  BY DEF CreatedReady, Running, TopLabels, poolVars
<1>1. PICK w : w = Top.w
  OBVIOUS
<1>2. Ready(w) /\ ~Departing
  BY <1>0, <1>1, TopIsFrame
     DEF CreatedReady, Running, IdleInv, NewReady, TypeOK, Departing
<1>3. w \in workers' \ marked' /\ ~Expired(w)'
  BY <1>1, <1>2 DEF Ready, Leaving, CreatedReady, Expired
<1>4. TopFits(On("finally", w))'
  BY <1>3, ChosenFits
<1>5. Proceed(<<On("finally", w)>>)
  BY <1>1 DEF CreatedReady
<1> QED  BY <1>0, <1>4, <1>5, SealGoesOn

(* A worker that has completed a task may be removed, too.                   *)
LEMMA CompletedSeals ==
  ASSUME TypeOK, SealInv, Completed
  PROVE  SealInv'
<1>0. /\ stack # <<>> /\ Top.at \notin TopLabels
      /\ terminationStarted' = terminationStarted
  BY DEF Completed, Running, TopLabels, poolVars
<1>1. PICK w : w = Top.w
  OBVIOUS
<1> DEFINE f == At("stats")
           g == At("next")
           r == Remove(w, "soft")
<1>2. /\ f.at \notin SealLabels /\ g.at \notin SealLabels
      /\ TopFits(r)'
  BY LabelsOf, RemovalFits DEF SealLabels
<1>3. \/ Proceed(<<>>) \/ Proceed(<<f, g>> \o <<>>)
      \/ Proceed(<<f, g>> \o <<r>>)
  BY <1>1 DEF Completed
<1> HIDE DEF f, g, r
<1>4. <<f, g>> \o <<r>> = <<f, g, r>> /\ <<f, g>> \o <<>> = <<f, g>>
  BY Joins
<1>5. Proceed(<<>>) \/ Proceed(<<f, g>>) \/ Proceed(<<f, g, r>>)
  BY <1>3, <1>4
<1>6. Plain(f) /\ Plain(g) /\ TopFits(g)'
  BY <1>2, OtherFrames
<1> QED  BY <1>0, <1>2, <1>5, <1>6, SealGoesOn

(* The timers of a worker.                                                   *)
LEMMA TimersSeal ==
  ASSUME NEW w \in Workers, LifetimeTimer(w) \/ IdleTimer(w)
  PROVE  SealInv'
<1> DEFINE f == At("stats")
           g == At("next")
           r == Remove(w, "soft")
<1>1. /\ f.at \notin SealLabels /\ g.at \notin SealLabels
  BY LabelsOf DEF SealLabels
<1>2. TopFits(r)'
  BY RemovalFits
<1>3. \/ stack' = <<f, g>> \o <<>> \/ stack' = <<f, g>> \o <<r>>
  BY DEF LifetimeTimer, IdleTimer, EventLoop, StateChange
<1>4. r.at = "remove"
  BY LabelsOf
<1> HIDE DEF f, g, r
<1>5. stack' = <<f, g>> \/ stack' = <<f, g, r>>
  BY <1>3, Joins
<1>6. Plain(f) /\ Plain(g) /\ TopFits(g)' /\ TopFits(f)'
  BY <1>1, OtherFrames
<1>7. ~Chosen(r)
  BY <1>4 DEF Chosen
<1> SUFFICES ASSUME NEW i \in 1..Len(stack')
             PROVE  Sealed(i)'
  BY DEF SealInv
<1>8. CASE stack' = <<f, g>>
  <2>1. Len(stack') = 2 /\ stack'[1] = f /\ stack'[2] = g
    BY <1>8
  <2>2. i = 1 \/ i = 2
    BY <2>1
  <2> QED  BY <1>6, <2>1, <2>2 DEF Sealed, Plain, Chosen, Alone
<1>9. CASE stack' = <<f, g, r>>
  <2>1. Len(stack') = 3 /\ stack'[1] = f /\ stack'[2] = g /\ stack'[3] = r
    BY <1>9
  <2>2. i = 1 \/ i = 2 \/ i = 3
    BY <2>1
  <2> QED  BY <1>2, <1>6, <1>7, <2>1, <2>2 DEF Sealed, Plain, Chosen, Alone
<1> QED  BY <1>5, <1>8, <1>9

(* User code that is called back finds nothing sealed.                       *)
LEMMA InterruptedUnsealed ==
  ASSUME TypeOK, QuietObservers, SealInv, Top.cb \in Reenters,
         NEW i \in 1..Len(stack)
  PROVE  /\ ~Alone(stack[i])
         /\ Chosen(stack[i]) => terminationStarted
<1>1. Top = stack[Len(stack)] /\ "none" \notin Reenters
  BY PoolAssumption DEF Top, Callbacks
<1> QED  BY <1>1 DEF SealInv, Sealed, TopFits, QuietObservers, Alone

(* run() may be called.                                                      *)
LEMMA RunSeals ==
  ASSUME TypeOK, QuietObservers, SealInv, TaskInv,
         NEW p \in Priorities, NEW timed \in QueueTimed, Run(p, timed)
  PROVE  SealInv'
<1> DEFINE f == Yield("signal", For("insert", submittedTasks + 1))
<1>1. UserCall(<<f>>)
  BY DEF Run
<1>2. f.at = "insert" /\ f.cb = "signal"
  BY LabelsOf, FieldsOf
<1> HIDE DEF f
<1>3. /\ Len(stack) \in Nat /\ Len(stack') = Len(stack) + 1
      /\ \A i \in 1..Len(stack) : stack'[i] = stack[i]
      /\ stack'[Len(stack')] = f
      /\ stack = <<>> \/ Top.cb \in Reenters
  BY <1>1, Calls1 DEF TypeOK
<1>4. ~terminationStarted /\ terminationStarted' = terminationStarted
  BY DEF Run, TaskInv, Doors, poolVars
<1> SUFFICES ASSUME NEW i \in 1..Len(stack')
             PROVE  Sealed(i)'
  BY DEF SealInv
<1>5. CASE i = Len(stack')
  BY <1>2, <1>3, <1>4, <1>5 DEF Sealed, TopFits, Chosen, Alone
<1>6. CASE i # Len(stack')
  <2>1. i \in 1..Len(stack)
    BY <1>3, <1>6
  <2>2. stack # <<>>
    BY <2>1, EmptySeq
  <2>3. Plain(stack[i])
    BY <1>3, <1>4, <2>1, <2>2, InterruptedUnsealed DEF Plain
  <2> QED  BY <1>3, <2>1, <2>3 DEF Sealed, TopFits, Plain, Chosen, Alone
<1> QED  BY <1>5, <1>6

(* The worker that was chosen when the creation began is still the one to    *)
(* use, also after the statistics have been reported.                        *)
LEMMA FinallySeals ==
  ASSUME TypeOK, SealInv, Finally
  PROVE  SealInv'
<1>1. /\ stack # <<>> /\ Top.at = "finally" /\ Top.at \notin TopLabels
      /\ UNCHANGED <<terminationStarted, workers, marked, life>>
  BY DEF Finally, Running, TopLabels, poolVars, workerVars
<1>2. PICK w : w = Top.w
  OBVIOUS
<1> DEFINE b == At("broken")
           e == At("endpass")
           g == On("got", w)
           s == At("stats")
<1>3. /\ b.at \notin SealLabels /\ e.at \notin SealLabels
      /\ s.at \notin SealLabels /\ s.at = "stats"
      /\ g.at = "got" /\ g.w = w
  BY DEF SealLabels, At, On
<1>0. s.cb = "none" /\ g.cb = "none"
  BY DEF At, On
<1>4. \/ Proceed(<<g>>) /\ w # NoWorker
      \/ Proceed(<<g, s>>) /\ w # NoWorker
      \/ Proceed(<<b>>) \/ Proceed(<<b, s>>)
      \/ Proceed(<<e>>) \/ Proceed(<<e, s>>)
  BY <1>2 DEF Finally
<1> HIDE DEF b, e, g, s
<1>5. CASE Proceed(<<b>>) \/ Proceed(<<b, s>>)
  BY <1>1, <1>3, <1>5, OtherFrames, SealGoesOn
<1>6. CASE Proceed(<<e>>) \/ Proceed(<<e, s>>)
  BY <1>1, <1>3, <1>6, OtherFrames, SealGoesOn
<1>7. ASSUME w # NoWorker
      PROVE  TopFits(g)'
  <2>1. TopFits(Top) /\ Chosen(Top)
    BY <1>1, <1>2, <1>7, TopIsFrame DEF SealInv, Sealed, TypeOK, Chosen
  <2> QED  BY <1>0, <1>1, <1>2, <1>3, <2>1 DEF TopFits, Chosen, Expired
<1>8. CASE Proceed(<<g>>) /\ w # NoWorker
  BY <1>1, <1>7, <1>8, SealGoesOn
<1>9. CASE Proceed(<<g, s>>) /\ w # NoWorker
  <2>1. PICK n : n = Len(stack)
    OBVIOUS
  <2>2. /\ n \in Nat \ {0} /\ Len(stack') = n + 1 /\ Top' = s
        /\ stack'[n] = g /\ stack'[n + 1] = s
        /\ \A i \in 1..(n - 1) : stack'[i] = stack[i]
    BY <1>1, <1>9, <2>1, GoesOn, GoesOnWith DEF LowerStay
  <2> SUFFICES ASSUME NEW i \in 1..(n + 1)
               PROVE  Sealed(i)'
    BY <2>2 DEF SealInv
  <2>3. i \in 1..(n - 1) \/ i = n \/ i = n + 1
    BY <2>2
  <2>4. CASE i \in 1..(n - 1)
    <3>1. i \in 1..(Len(stack) - 1)
      BY <2>1, <2>4
    <3>2. /\ ~Alone(stack[i])
          /\ Chosen(stack[i]) => terminationStarted
      BY <1>1, <3>1, BelowUnsealed
    <3> QED  BY <1>1, <2>2, <2>4, <3>2 DEF Sealed, TopFits, Chosen, Alone
  <2>5. CASE i = n + 1
    BY <1>3, <2>2, <2>5 DEF Sealed, TopFits, Chosen, Alone, SealLabels
  <2>6. CASE i = n
    <3>1. "none" \notin Reenters
      BY PoolAssumption DEF Callbacks
    <3>2. i = Len(stack') - 1 /\ stack'[i] = g
      BY <2>2, <2>6
    <3> QED  BY <1>0, <1>3, <1>7, <1>9, <2>2, <3>1, <3>2
             DEF Sealed, Alone, TopLabels
  <2> QED  BY <2>3, <2>4, <2>5, <2>6
<1> QED  BY <1>4, <1>5, <1>6, <1>8, <1>9

(* Statistics are reported, and a drain may end, above a chosen worker.      *)
LEMMA StatsSeal ==
  ASSUME TypeOK, QuietObservers, SealInv, UpdateStats \/ StatsFinishDrain
  PROVE  SealInv'
<1>1. /\ stack # <<>> /\ Top.at = "stats"
      /\ UNCHANGED <<terminationStarted, workers, marked, life, activeTasks>>
  BY DEF UpdateStats, StatsFinishDrain, Running, data, poolVars, workerVars
<1> DEFINE f == Yield("stats", At("return"))
           g == At("terminate")
<1>2. /\ f.at = "return" /\ g.at = "terminate" /\ f.cb = "stats"
      /\ g.cb = "none"
  BY LabelsOf, FieldsOf DEF Yield, At
<1>3. Proceed(<<f>>) \/ Proceed(<<g>>)
  BY DEF UpdateStats, StatsFinishDrain
<1> HIDE DEF f, g
<1>4. PICK n : n = Len(stack)
  OBVIOUS
<1>5. PICK h : Proceed(<<h>>) /\ (h = f \/ h = g)
  BY <1>3
<1>6. /\ n \in Nat \ {0} /\ Len(stack') = n /\ Top' = h
      /\ stack'[n] = h
      /\ \A i \in 1..(n - 1) : stack'[i] = stack[i]
  BY <1>1, <1>4, <1>5, GoesOn, GoesOnWith DEF LowerStay
<1>7. /\ h.at \in TopLabels /\ h.at \notin SealLabels
      /\ h.cb \notin Reenters
  BY <1>2, <1>5, PoolAssumption
     DEF TopLabels, SealLabels, QuietObservers, Callbacks
<1> SUFFICES ASSUME NEW i \in 1..n
             PROVE  Sealed(i)'
  BY <1>6 DEF SealInv
<1>8. CASE i = n
  BY <1>6, <1>7, <1>8 DEF Sealed, TopFits, Chosen, Alone, SealLabels
<1>9. CASE i # n
  <2>1. i \in 1..(n - 1) /\ i \in 1..Len(stack)
    BY <1>4, <1>6, <1>9
  <2>2. stack'[i] = stack[i] /\ Sealed(i)
    BY <1>6, <2>1 DEF SealInv
  <2> QED  BY <1>1, <1>4, <1>6, <1>7, <1>9, <2>2
           DEF Sealed, TopFits, Chosen, Alone, Busy, Expired
<1> QED  BY <1>8, <1>9

(* ... and the worker is used when they are done.                            *)
LEMMA ReturnSeals ==
  ASSUME TypeOK, SealInv, Return
  PROVE  SealInv'
<1>1. /\ stack # <<>> /\ Top.at = "return" /\ Proceed(<<>>)
      /\ UNCHANGED <<terminationStarted, workers, marked, life, activeTasks>>
  BY DEF Return, Running, data, poolVars, workerVars
<1>2. PICK n : n = Len(stack)
  OBVIOUS
<1>3. /\ n \in Nat \ {0} /\ Len(stack') = n - 1
      /\ \A i \in 1..(n - 1) : stack'[i] = stack[i]
  BY <1>1, <1>2, Goes0 DEF TypeOK
<1> SUFFICES ASSUME NEW i \in 1..(n - 1)
             PROVE  Sealed(i)'
  BY <1>3 DEF SealInv
<1>4. i \in 1..Len(stack) /\ i # Len(stack)
  BY <1>2, <1>3
<1>5. stack'[i] = stack[i] /\ Sealed(i)
  BY <1>3, <1>4 DEF SealInv
<1> QED
  BY <1>1, <1>2, <1>3, <1>4, <1>5
     DEF Sealed, TopFits, Chosen, Alone, Busy, Expired

(* Once the pool is closed nothing is to be used.                            *)
LEMMA ClosingSeals ==
  ASSUME TypeOK, SealInv, TerminateAll
  PROVE  SealInv'
<1>1. /\ stack # <<>> /\ Top.at = "terminate" /\ terminationStarted' = TRUE
  BY DEF TerminateAll, Running
<1> DEFINE f == At("termworkers")
           g == SettleEach(queue, "pool-closed")
<1>2. f.at = "termworkers" /\ g.at = "settle"
  BY LabelsOf
<1>3. Proceed(<<f, g>>)
  BY DEF TerminateAll
<1>4. PICK n : n = Len(stack)
  OBVIOUS
<1> HIDE DEF f, g
<1>5. /\ n \in Nat \ {0} /\ Len(stack') = n + 1
      /\ stack'[n].at = "termworkers" /\ stack'[n + 1].at = "settle"
      /\ \A i \in 1..(n - 1) : stack'[i] = stack[i]
  BY <1>1, <1>2, <1>3, <1>4, GoesOn DEF LowerStay
<1> SUFFICES ASSUME NEW i \in 1..(n + 1)
             PROVE  Sealed(i)'
  BY <1>5 DEF SealInv
<1>6. ~Alone(stack'[i])
  <2>1. i \in 1..(n - 1) \/ i = n \/ i = n + 1
    BY <1>5
  <2>2. CASE i \in 1..(n - 1)
    <3>1. i \in 1..Len(stack) /\ i # Len(stack)
      BY <1>4, <1>5, <2>2
    <3> QED  BY <1>5, <2>2, <3>1 DEF SealInv, Sealed, Alone
  <2> QED  BY <1>5, <2>1, <2>2 DEF Alone
<1> QED  BY <1>1, <1>6 DEF Sealed, TopFits, Alone, Chosen

(* Every step keeps the invariant.                                           *)
LEMMA NextSeals ==
  ASSUME TypeOK, QuietObservers, SealInv, TaskInv, BoundsInv, IdleInv,
         Young, [Next]_vars
  PROVE  SealInv'
<1>1. UNCHANGED vars => SealInv'
  BY DEF vars, data, poolVars, workerVars, SealInv, Sealed, TopFits, Chosen,
         Alone, Top, Busy, Expired
<1>2. ASSUME SealStep
      PROVE  SealInv'
  BY <1>2, PlainStepsSeal, ChoicesSeal, RemovalsSeal, ReadySeals,
     CompletedSeals, TimersSeal, RunSeals, FinallySeals, StatsSeal,
     ReturnSeals, ClosingSeals DEF SealStep
<1> QED  BY <1>1, <1>2, SealSteps, QuietSeals

(* The frames that no user code interrupts are sound.                        *)
LEMMA SealsHold ==
  ASSUME QuietObservers
  PROVE  Spec => []SealInv
<1>1. Init => SealInv
  BY DEF Init, SealInv
<1>2. ASSUME TypeOK, SealInv, TaskInv, BoundsInv, IdleInv, Young,
             [Next]_vars
      PROVE  SealInv'
  BY <1>2, NextSeals
<1> QED
  BY <1>1, <1>2, TypeCorrect, TasksTracked, BoundsHold, IdleHolds,
     WorkersStayYoung, PTL
     DEF Spec

-----------------------------------------------------------------------------
(* No task is lost.                                                          *)

(* Someone has task t in hand.                                               *)
InHand(t) == t \in Elems(queue) \/ Hosts(t) # {} \/ Held(t)

(* The inductive invariant: every unsettled task is in hand.                 *)
HandsInv == \A t \in Tasks : Pending(t) => InHand(t)

(* A closed pool has nothing in its queue.                                   *)
ClosedEmpty == terminationStarted => queue = <<>>

(* A step that leaves the tasks where they are.                              *)
HandsQuiet ==
  /\ UNCHANGED <<outcome, queue, terminationStarted>>
  /\ workers \subseteq workers' /\ activeTasks' = activeTasks
  /\ Keeps(HeldLabels)

(* The steps of a submission, of its signal and its timer: those listed      *)
(* leave the tasks where they are.                                           *)
LEMMA SubmissionLosesNone ==
  ASSUME TypeOK
  PROVE  /\ Arm => HandsQuiet
<1> USE DEF poolVars, taskVars, settleVars, workerVars, schedVars, termVars,
     data, HandsQuiet, Moves, Keeps, HeldLabels, Running
<1>1. Arm => HandsQuiet
  BY SubmissionMoves DEF Arm
<1> QED  BY <1>1

(* The steps of the scheduling pass: those listed leave the tasks where they *)
(* are.                                                                      *)
LEMMA SchedulingLosesNone ==
  ASSUME TypeOK
  PROVE  /\ NextSkipped => HandsQuiet
         /\ NextStarts => HandsQuiet
         /\ Loop => HandsQuiet
         /\ EndPass => HandsQuiet
         /\ NextPass => HandsQuiet
         /\ NextReturns => HandsQuiet
         /\ \A w \in Workers : PickIdle(w) => HandsQuiet
         /\ \A w \in Workers : PickExpired(w) => HandsQuiet
         /\ PickNew => HandsQuiet
         /\ PickLoaded => HandsQuiet
<1> USE DEF poolVars, taskVars, settleVars, workerVars, schedVars, termVars,
     data, HandsQuiet, Moves, Keeps, HeldLabels, Running
<1>1. NextSkipped => HandsQuiet
  BY SchedulingMoves DEF NextSkipped
<1>2. NextStarts => HandsQuiet
  BY SchedulingMoves DEF NextStarts
<1>3. Loop => HandsQuiet
  BY SchedulingMoves DEF Loop
<1>4. EndPass => HandsQuiet
  BY SchedulingMoves DEF EndPass
<1>5. NextPass => HandsQuiet
  BY SchedulingMoves DEF NextPass
<1>6. NextReturns => HandsQuiet
  BY SchedulingMoves DEF NextReturns
<1>7. \A w \in Workers : PickIdle(w) => HandsQuiet
  BY SchedulingMoves DEF PickIdle
<1>8. \A w \in Workers : PickExpired(w) => HandsQuiet
  BY SchedulingMoves DEF PickExpired
<1>9. PickNew => HandsQuiet
  BY SchedulingMoves DEF PickNew
<1>10. PickLoaded => HandsQuiet
  BY SchedulingMoves DEF PickLoaded
<1> QED  BY <1>1, <1>2, <1>3, <1>4, <1>5, <1>6, <1>7, <1>8, <1>9, <1>10

(* The steps that find or make a worker: those listed leave the tasks where  *)
(* they are.                                                                 *)
LEMMA CreationLosesNone ==
  ASSUME TypeOK
  PROVE  /\ \A w \in Workers : ConstructOk(w) => HandsQuiet
         /\ \A w \in Workers : ConstructPartial(w) => HandsQuiet
         /\ ConstructThrows => HandsQuiet
         /\ Discard => HandsQuiet
         /\ Uncreated => HandsQuiet
         /\ CreatedReady => HandsQuiet
         /\ CreatedExpired => HandsQuiet
         /\ CreatedTooLate => HandsQuiet
         /\ Finally => HandsQuiet
         /\ GotNothing => HandsQuiet
<1> USE DEF poolVars, taskVars, settleVars, workerVars, schedVars, termVars,
     data, HandsQuiet, Moves, Keeps, HeldLabels, Running
<1>1. \A w \in Workers : ConstructOk(w) => HandsQuiet
  BY CreationMoves DEF ConstructOk
<1>2. \A w \in Workers : ConstructPartial(w) => HandsQuiet
  BY CreationMoves DEF ConstructPartial
<1>3. ConstructThrows => HandsQuiet
  BY CreationMoves DEF ConstructThrows
<1>4. Discard => HandsQuiet
  BY CreationMoves DEF Discard
<1>5. Uncreated => HandsQuiet
  BY CreationMoves DEF Uncreated
<1>6. CreatedReady => HandsQuiet
  BY CreationMoves DEF CreatedReady
<1>7. CreatedExpired => HandsQuiet
  BY CreationMoves DEF CreatedExpired
<1>8. CreatedTooLate => HandsQuiet
  BY CreationMoves DEF CreatedTooLate
<1>9. Finally => HandsQuiet
  BY CreationMoves DEF Finally
<1>10. GotNothing => HandsQuiet
  BY CreationMoves DEF GotNothing
<1> QED  BY <1>1, <1>2, <1>3, <1>4, <1>5, <1>6, <1>7, <1>8, <1>9, <1>10

(* The steps of a task that runs on its worker: those listed leave the tasks *)
(* where they are.                                                           *)
LEMMA CallsLosesNone ==
  ASSUME TypeOK
  PROVE  /\ \A t \in Tasks : Microtask(t) => HandsQuiet
         /\ CallMethod => HandsQuiet
         /\ MethodCalled => HandsQuiet
         /\ MethodThrows => HandsQuiet
         /\ \A t \in Tasks : \A why : Answer(t, why) => HandsQuiet
         /\ CompleteIgnored => HandsQuiet
         /\ Completed => HandsQuiet
         /\ \A t \in Tasks : TaskTimer(t) => HandsQuiet
         /\ \A w \in Workers : WorkerError(w) => HandsQuiet
         /\ FailureStarts => HandsQuiet
         /\ FailureEnds => HandsQuiet
<1> USE DEF poolVars, taskVars, settleVars, workerVars, schedVars, termVars,
     data, HandsQuiet, Moves, Keeps, HeldLabels, Running
<1>1. \A t \in Tasks : Microtask(t) => HandsQuiet
  BY CallsMoves DEF Microtask
<1>2. CallMethod => HandsQuiet
  BY CallsMoves DEF CallMethod
<1>3. MethodCalled => HandsQuiet
  BY CallsMoves DEF MethodCalled
<1>4. MethodThrows => HandsQuiet
  BY CallsMoves DEF MethodThrows
<1>5. ASSUME NEW t \in Tasks, NEW why, Answer(t, why)
      PROVE  HandsQuiet
  <2>1. Moves({}, {"complete"})
    BY <1>5, CallsMoves
  <2> QED  BY <1>5, <2>1 DEF Answer
<1>6. CompleteIgnored => HandsQuiet
  BY CallsMoves DEF CompleteIgnored
<1>7. Completed => HandsQuiet
  BY CallsMoves DEF Completed
<1>8. \A t \in Tasks : TaskTimer(t) => HandsQuiet
  BY CallsMoves DEF TaskTimer
<1>9. \A w \in Workers : WorkerError(w) => HandsQuiet
  BY CallsMoves DEF WorkerError
<1>10. FailureStarts => HandsQuiet
  BY CallsMoves DEF FailureStarts
<1>11. FailureEnds => HandsQuiet
  BY CallsMoves DEF FailureEnds
<1> QED  BY <1>1, <1>2, <1>3, <1>4, <1>5, <1>6, <1>7, <1>8, <1>9, <1>10, <1>11

(* The steps that terminate a worker: those listed leave the tasks where     *)
(* they are.                                                                 *)
LEMMA TerminationLosesNone ==
  ASSUME TypeOK
  PROVE  /\ RemoveSkipped => HandsQuiet
         /\ Attempt => HandsQuiet
         /\ TerminatorReturns => HandsQuiet
         /\ TerminatorThrows => HandsQuiet
         /\ TerminatorPromises => HandsQuiet
         /\ \A w \in Workers : PromiseConfirms(w) => HandsQuiet
         /\ \A w \in Workers : PromiseConfirmsPastDeadline(w) => HandsQuiet
         /\ ConfirmedPastDeadline => HandsQuiet
         /\ \A w \in Workers : PromiseRejects(w) => HandsQuiet
         /\ \A w \in Workers : AttemptTimer(w) => HandsQuiet
         /\ \A w \in Workers : LateConfirm(w) => HandsQuiet
         /\ \A w \in Workers : RetryTimer(w) => HandsQuiet
         /\ \A w \in Workers : LifetimeTimer(w) => HandsQuiet
         /\ \A w \in Workers : IdleTimer(w) => HandsQuiet
<1> USE DEF poolVars, taskVars, settleVars, workerVars, schedVars, termVars,
     data, HandsQuiet, Moves, Keeps, HeldLabels, Running
<1>1. RemoveSkipped => HandsQuiet
  BY TerminationMoves DEF RemoveSkipped
<1>2. Attempt => HandsQuiet
  BY TerminationMoves DEF Attempt
<1>3. TerminatorReturns => HandsQuiet
  BY TerminationMoves DEF TerminatorReturns
<1>4. TerminatorThrows => HandsQuiet
  BY TerminationMoves DEF TerminatorThrows
<1>5. TerminatorPromises => HandsQuiet
  BY TerminationMoves DEF TerminatorPromises
<1>6. \A w \in Workers : PromiseConfirms(w) => HandsQuiet
  BY TerminationMoves DEF PromiseConfirms
<1>7. \A w \in Workers : PromiseConfirmsPastDeadline(w) => HandsQuiet
  BY TerminationMoves DEF PromiseConfirmsPastDeadline
<1>8. ConfirmedPastDeadline => HandsQuiet
  BY TerminationMoves DEF ConfirmedPastDeadline
<1>9. \A w \in Workers : PromiseRejects(w) => HandsQuiet
  BY TerminationMoves DEF PromiseRejects
<1>10. \A w \in Workers : AttemptTimer(w) => HandsQuiet
  BY TerminationMoves DEF AttemptTimer
<1>11. \A w \in Workers : LateConfirm(w) => HandsQuiet
  BY TerminationMoves DEF LateConfirm
<1>12. \A w \in Workers : RetryTimer(w) => HandsQuiet
  BY TerminationMoves DEF RetryTimer
<1>13. \A w \in Workers : LifetimeTimer(w) => HandsQuiet
  BY TerminationMoves DEF LifetimeTimer
<1>14. \A w \in Workers : IdleTimer(w) => HandsQuiet
  BY TerminationMoves DEF IdleTimer
<1> QED  BY <1>1, <1>2, <1>3, <1>4, <1>5, <1>6, <1>7, <1>8, <1>9, <1>10,
     <1>11, <1>12, <1>13, <1>14

(* The steps of the shutdown, of user code and of the clock: those listed    *)
(* leave the tasks where they are.                                           *)
LEMMA ShutdownLosesNone ==
  ASSUME TypeOK
  PROVE  /\ Close => HandsQuiet
         /\ Drain => HandsQuiet
         /\ Drained => HandsQuiet
         /\ TerminateWorkers => HandsQuiet
         /\ TerminateWorker => HandsQuiet
         /\ StatsFinishDrain => HandsQuiet
         /\ UpdateStats => HandsQuiet
         /\ Return => HandsQuiet
         /\ Time => HandsQuiet
<1> USE DEF poolVars, taskVars, settleVars, workerVars, schedVars, termVars,
     data, HandsQuiet, Moves, Keeps, HeldLabels, Running
<1>1. Close => HandsQuiet
  BY ShutdownMoves DEF Close
<1>2. Drain => HandsQuiet
  BY ShutdownMoves DEF Drain
<1>3. Drained => HandsQuiet
  BY ShutdownMoves DEF Drained
<1>4. TerminateWorkers => HandsQuiet
  BY ShutdownMoves DEF TerminateWorkers
<1>5. TerminateWorker => HandsQuiet
  BY ShutdownMoves DEF TerminateWorker
<1>6. StatsFinishDrain => HandsQuiet
  BY ShutdownMoves DEF StatsFinishDrain
<1>7. UpdateStats => HandsQuiet
  BY ShutdownMoves DEF UpdateStats
<1>8. Return => HandsQuiet
  BY ShutdownMoves DEF Return
<1>9. Time => HandsQuiet
  BY ShutdownMoves DEF Time, QueueDeadline, TaskDeadline, LifetimePasses,
     ClockMoves
<1> QED  BY <1>1, <1>2, <1>3, <1>4, <1>5, <1>6, <1>7, <1>8, <1>9

(* The steps that move tasks.                                                *)
HandsStep ==
  \/ SettleNext \/ SettleDone \/ Insert \/ SignalThrows \/ ArmLate
  \/ EnforceQueueLimit \/ RejectQueue \/ RejectBacklog \/ GotExpired
  \/ CompleteTask \/ RemoveWorker \/ TerminateAll
  \/ \E p \in Priorities, timed \in QueueTimed : Run(p, timed)
  \/ \E late \in BOOLEAN : Dispatch(late)
  \/ \E t \in Tasks :
         Abort(t) \/ QueueTimer(t) \/ FailTask(t) \/ TerminateTask(t)

(* No other step does.                                                       *)
LEMMA HandsSteps ==
  ASSUME TypeOK, [Next]_vars
  PROVE  HandsStep \/ HandsQuiet
<1>1. UNCHANGED vars => HandsQuiet
  BY DEF vars, data, poolVars, settleVars, workerVars, HandsQuiet, Keeps
<1>2. ASSUME Code
      PROVE  HandsStep \/ HandsQuiet
  BY <1>2, SubmissionLosesNone, SchedulingLosesNone, CreationLosesNone,
     CallsLosesNone, TerminationLosesNone, ShutdownLosesNone
     DEF Code, HandsStep
<1>3. ASSUME Faults \/ User
      PROVE  HandsStep \/ HandsQuiet
  BY <1>3, SubmissionLosesNone, CallsLosesNone, ShutdownLosesNone
     DEF Faults, User, HandsStep
<1>4. ASSUME World
      PROVE  HandsStep \/ HandsQuiet
  BY <1>4, CallsLosesNone, TerminationLosesNone DEF World
<1>5. ASSUME NEW t \in Tasks, TaskTimers(t)
      PROVE  HandsStep \/ HandsQuiet
  BY <1>5, CallsLosesNone DEF TaskTimers, HandsStep
<1>6. ASSUME NEW w \in Workers, WorkerTimers(w)
      PROVE  HandsStep \/ HandsQuiet
  BY <1>6, TerminationLosesNone DEF WorkerTimers
<1> QED
  BY <1>1, <1>2, <1>3, <1>4, <1>5, <1>6, ShutdownLosesNone DEF Next, Finished

(* Frames that stay hold what they held.                                     *)
LEMMA HeldStays ==
  ASSUME Keeps(HeldLabels), NEW t, Held(t)
  PROVE  Held(t)'
BY DEF Keeps, Held, HeldLabels

(* A frame that is there after the step holds its tasks.                     *)
LEMMA HeldBy ==
  ASSUME NEW i \in 1..Len(stack'), stack'[i].at \in HeldLabels,
         NEW t \in Elems(stack'[i].ts)
  PROVE  Held(t)'
BY DEF Held, HeldLabels

(* What a method that runs and goes on keeps below it.                       *)
LEMMA HeldBelow ==
  ASSUME TypeOK, stack # <<>>, LowerStay, NEW t, Held(t),
         ~(Top.at \in HeldLabels /\ t \in Elems(Top.ts))
  PROVE  Held(t)'
<1>1. PICK i \in 1..Len(stack) :
        stack[i].at \in HeldLabels /\ t \in Elems(stack[i].ts)
  BY DEF Held, HeldLabels
<1>2. Len(stack) \in Nat \ {0} /\ Top = stack[Len(stack)]
  BY TopIsFrame DEF TypeOK
<1>3. i \in 1..(Len(stack) - 1)
  BY <1>1, <1>2
<1>4. i \in 1..Len(stack') /\ stack'[i] = stack[i]
  BY <1>3 DEF LowerStay
<1> QED  BY <1>1, <1>4, HeldBy

(* The task that is settled is pending no more, the others are as before.    *)
LEMMA SettledOne ==
  ASSUME TypeOK, NEW t \in Tasks, NEW why \in Settlements, Settle(t, why),
         NEW u \in Tasks, Pending(u)'
  PROVE  Pending(u) /\ u # t
<1>1. why # "pending"
  BY DEF Settlements
<1> QED  BY <1>1 DEF TypeOK, Settle, Pending

(* A queued task may be settled, and leaves the queue.                       *)
LEMMA QueuedSettledHands ==
  ASSUME TypeOK, TaskInv, HandsInv, NEW t \in Tasks, NEW why \in Settlements,
         Settle(t, why), queue' = Without(queue, t), Keeps(HeldLabels),
         UNCHANGED <<workers, activeTasks>>
  PROVE  HandsInv'
<1> SUFFICES ASSUME NEW u \in Tasks, Pending(u)'
             PROVE  InHand(u)'
  BY DEF HandsInv
<1>1. Pending(u) /\ u # t
  BY SettledOne
<1>2. Elems(queue') = Elems(queue) \ {t}
  BY WithoutSound DEF TypeOK, TaskInv, TaskData, QueuedOnce
<1>3. Hosts(u)' = Hosts(u)
  BY DEF Hosts
<1> QED  BY <1>1, <1>2, <1>3, HeldStays DEF HandsInv, InHand

(* A task may be settled and lose its slot.                                  *)
LEMMA HostedSettledHands ==
  ASSUME TypeOK, HandsInv, NEW t \in Tasks, NEW why \in Settlements,
         Settle(t, why), NEW w \in Workers,
         activeTasks' = [activeTasks EXCEPT ![w] = @ \ {t}],
         UNCHANGED <<queue, workers>>, Keeps(HeldLabels)
  PROVE  HandsInv'
<1> SUFFICES ASSUME NEW u \in Tasks, Pending(u)'
             PROVE  InHand(u)'
  BY DEF HandsInv
<1>1. Pending(u) /\ u # t
  BY SettledOne
<1>2. \A v \in Workers : u \in activeTasks[v] => u \in activeTasks'[v]
  BY <1>1 DEF TypeOK
<1>3. Hosts(u) \subseteq Hosts(u)'
  BY <1>2 DEF Hosts, TypeOK
<1> QED  BY <1>1, <1>3, HeldStays DEF HandsInv, InHand

(* The steps that settle one task.                                           *)
LEMMA SettlersKeepHands ==
  ASSUME TypeOK, TaskInv, HandsInv
  PROVE  /\ ArmLate => HandsInv'
         /\ \A t \in Tasks : Abort(t) => HandsInv'
         /\ \A t \in Tasks : QueueTimer(t) => HandsInv'
         /\ GotExpired => HandsInv'
         /\ CompleteTask => HandsInv'
         /\ \A t \in Tasks : FailTask(t) => HandsInv'
         /\ \A t \in Tasks : TerminateTask(t) => HandsInv'
<1> USE DEF workerVars
<1>0. \A l, S : Moves(l, S) /\ l \cap HeldLabels = {} => Keeps(HeldLabels)
  BY DEF Moves, Keeps
<1>1. ASSUME ArmLate
      PROVE  HandsInv'
  <2> DEFINE t == Top.ts[1]
  <2>1. t \in Tasks
    BY <1>1, RunningFrame DEF ArmLate, TaskLabels
  <2>2. /\ Settle(t, "queue-timeout") /\ "queue-timeout" \in Settlements
        /\ queue' = Without(queue, t) /\ UNCHANGED <<workers, activeTasks>>
    BY <1>1 DEF ArmLate, Settlements
  <2>3. Keeps(HeldLabels)
    BY <1>0, <1>1, SubmissionMoves DEF HeldLabels
  <2>4. PICK u \in Tasks : u = t
    BY <2>1
  <2>5. Settle(u, "queue-timeout") /\ queue' = Without(queue, u)
    BY <2>2, <2>4
  <2> HIDE DEF t
  <2> QED  BY <2>2, <2>3, <2>5, QueuedSettledHands
<1>2. ASSUME NEW t \in Tasks, Abort(t)
      PROVE  HandsInv'
  <2>1. Keeps(HeldLabels)
    BY <1>0, <1>2, SubmissionMoves DEF HeldLabels
  <2>2. Settle(t, "aborted") /\ "aborted" \in Settlements
    BY <1>2 DEF Abort, Settlements
  <2> QED  BY <1>2, <2>1, <2>2, QueuedSettledHands DEF Abort
<1>3. ASSUME NEW t \in Tasks, QueueTimer(t)
      PROVE  HandsInv'
  <2>1. Keeps(HeldLabels)
    BY <1>0, <1>3, SubmissionMoves DEF HeldLabels
  <2>2. Settle(t, "queue-timeout") /\ "queue-timeout" \in Settlements
    BY <1>3 DEF QueueTimer, Settlements
  <2> QED  BY <1>3, <2>1, <2>2, QueuedSettledHands DEF QueueTimer
<1>4. ASSUME GotExpired
      PROVE  HandsInv'
  <2>1. Keeps(HeldLabels)
    BY <1>0, <1>4, CreationMoves DEF HeldLabels
  <2>2. PICK t \in Firsts(queue, priority) :
          /\ queue' = Without(queue, t)
          /\ Settle(t, "queue-timeout")
    BY <1>4 DEF GotExpired
  <2>3. t \in Tasks /\ "queue-timeout" \in Settlements
    BY <2>2, QueueTasks DEF Firsts, Settlements
  <2> QED  BY <1>4, <2>1, <2>2, <2>3, QueuedSettledHands DEF GotExpired
<1>5. ASSUME CompleteTask
      PROVE  HandsInv'
  <2>1. Keeps(HeldLabels)
    BY <1>0, <1>5, CallsMoves DEF HeldLabels
  <2>2. Top.ts[1] \in Tasks /\ Top.why \in Settlements
    BY <1>5, RunningFrame DEF CompleteTask, TaskLabels, Frames
  <2>3. PICK t \in Tasks, why \in Settlements : t = Top.ts[1] /\ why = Top.why
    BY <2>2
  <2>4. PICK w \in Hosts(t) :
          /\ activeTasks' = [activeTasks EXCEPT ![w] = @ \ {t}]
          /\ Settle(t, why)
    BY <1>5, <2>3 DEF CompleteTask
  <2>5. w \in Workers
    BY <2>4 DEF Hosts, TypeOK
  <2> QED  BY <1>5, <2>1, <2>4, <2>5, HostedSettledHands DEF CompleteTask
<1>6. ASSUME NEW t \in Tasks, FailTask(t)
      PROVE  HandsInv'
  <2>1. Keeps(HeldLabels)
    BY <1>0, <1>6, CallsMoves DEF HeldLabels
  <2>2. Top.w \in Workers
    BY <1>6, RunningFrame DEF FailTask, WorkerLabels
  <2>3. PICK w \in Workers : w = Top.w
    BY <2>2
  <2>4. PICK why \in Settlements : Settle(t, why)
    BY <1>6 DEF FailTask, Settlements
  <2>5. activeTasks' = [activeTasks EXCEPT ![w] = @ \ {t}]
    BY <1>6, <2>3 DEF FailTask
  <2> QED  BY <1>6, <2>1, <2>4, <2>5, HostedSettledHands DEF FailTask
<1>7. ASSUME NEW t \in Tasks, TerminateTask(t)
      PROVE  HandsInv'
  <2>1. Keeps(HeldLabels)
    BY <1>0, <1>7, ShutdownMoves DEF HeldLabels
  <2>2. Top.w \in Workers
    BY <1>7, RunningFrame DEF TerminateTask, WorkerLabels
  <2>3. PICK w \in Workers : w = Top.w
    BY <2>2
  <2>4. Settle(t, "pool-closed") /\ "pool-closed" \in Settlements
    BY <1>7 DEF TerminateTask, Settlements
  <2>5. activeTasks' = [activeTasks EXCEPT ![w] = @ \ {t}]
    BY <1>7, <2>3 DEF TerminateTask
  <2> QED  BY <1>7, <2>1, <2>4, <2>5, HostedSettledHands DEF TerminateTask
<1> QED  BY <1>1, <1>2, <1>3, <1>4, <1>5, <1>6, <1>7

(* A settling loop and run() let go of a task only when it is settled or     *)
(* queued.                                                                   *)
LEMMA HoldersKeepHands ==
  ASSUME TypeOK, TaskInv, HandsInv
  PROVE  /\ SettleNext => HandsInv'
         /\ SettleDone => HandsInv'
         /\ SignalThrows => HandsInv'
         /\ Insert => HandsInv'
<1> USE DEF workerVars
<1>1. ASSUME SettleNext
      PROVE  HandsInv'
  <2>1. /\ Top.ts \in Seq(Tasks) /\ Top.why \in Settlements /\ Top.ts # <<>>
        /\ Top.at = "settle" /\ stack # <<>>
    BY <1>1, RunningFrame DEF SettleNext, Frames
  <2>2. PICK ts \in Seq(Tasks), why \in Settlements :
          ts = Top.ts /\ why = Top.why /\ ts # <<>>
    BY <2>1
  <2>3. PICK t \in Tasks : /\ t = Head(ts)
                          /\ Elems(ts) \subseteq Elems(Tail(ts)) \cup {t}
    BY <2>2, TailElems
  <2>4. PICK cb : cb = Announce(t)
    OBVIOUS
  <2> DEFINE g == Yield(cb, SettleEach(Tail(ts), why))
  <2>5. Settle(t, why) /\ Proceed(<<g>>)
    BY <1>1, <2>2, <2>3, <2>4 DEF SettleNext
  <2>6. g.at = "settle" /\ g.ts = Tail(ts)
    BY DEF Yield, SettleEach, At
  <2> HIDE DEF g
  <2>7. /\ LowerStay /\ Len(stack) \in 1..Len(stack')
        /\ stack'[Len(stack)] = g
    BY <2>1, <2>5, GoesOnWith
  <2> SUFFICES ASSUME NEW u \in Tasks, Pending(u)'
               PROVE  InHand(u)'
    BY DEF HandsInv
  <2>8. Pending(u) /\ u # t
    BY <2>5, SettledOne
  <2>9. CASE u \in Elems(queue) \/ Hosts(u) # {}
    BY <1>1, <2>9 DEF SettleNext, InHand, Hosts
  <2>10. CASE u \in Elems(Top.ts)
    <3>1. u \in Elems(Tail(ts))
      BY <2>2, <2>3, <2>8, <2>10
    <3>2. Held(u)'
      BY <2>6, <2>7, <3>1, HeldBy DEF HeldLabels
    <3> QED  BY <3>2 DEF InHand
  <2>11. CASE Held(u) /\ u \notin Elems(Top.ts)
    BY <2>1, <2>7, <2>11, HeldBelow DEF InHand
  <2> QED  BY <2>8, <2>9, <2>10, <2>11 DEF HandsInv, InHand
<1>2. ASSUME SettleDone
      PROVE  HandsInv'
  <2>1. Top.ts = <<>> /\ stack # <<>> /\ LowerStay
    BY <1>2, GoesOn DEF SettleDone, Running
  <2>2. \A u : Held(u) => Held(u)'
    BY <2>1, NoElems, HeldBelow
  <2>3. UNCHANGED <<outcome, queue, workers, activeTasks>>
    BY <1>2 DEF SettleDone, data, settleVars
  <2> QED  BY <2>2, <2>3 DEF HandsInv, InHand, Hosts, Pending
<1>3. ASSUME Running("insert"), LowerStay, NEW u, Held(u), u # Top.ts[1]
      PROVE  Held(u)'
  <2>1. stack # <<>> /\ Top.at = "insert" /\ Top.ts \in Seq(Tasks)
    BY <1>3, RunningFrame DEF Frames
  <2>2. Len(Top.ts) = 1
    BY <2>1, TopIsFrame DEF TypeOK, TaskInv, InsertAlone
  <2>3. Elems(Top.ts) = {Top.ts[1]}
    BY <2>2 DEF Elems
  <2> QED  BY <1>3, <2>1, <2>3, HeldBelow
<1>4. ASSUME SignalThrows
      PROVE  HandsInv'
  <2>1. Top.ts[1] \in Tasks /\ stack # <<>>
    BY <1>4, RunningFrame DEF SignalThrows, TaskLabels
  <2>2. PICK t \in Tasks : t = Top.ts[1]
    BY <2>1
  <2>3. Settle(t, "rejected") /\ "rejected" \in Settlements
    BY <1>4, <2>2 DEF SignalThrows, Settlements
  <2>4. LowerStay
    BY <1>4, <2>1, GoesOnWith DEF SignalThrows
  <2> SUFFICES ASSUME NEW u \in Tasks, Pending(u)'
               PROVE  InHand(u)'
    BY DEF HandsInv
  <2>5. Pending(u) /\ u # t
    BY <2>3, SettledOne
  <2>6. Held(u) => Held(u)'
    BY <1>3, <1>4, <2>2, <2>4, <2>5 DEF SignalThrows
  <2>7. UNCHANGED <<queue, workers, activeTasks>>
    BY <1>4 DEF SignalThrows
  <2> QED  BY <2>5, <2>6, <2>7 DEF HandsInv, InHand, Hosts
<1>5. ASSUME Insert
      PROVE  HandsInv'
  <2>1. Top.ts[1] \in Tasks /\ stack # <<>>
    BY <1>5, RunningFrame DEF Insert, TaskLabels
  <2>2. PICK t \in Tasks : t = Top.ts[1]
    BY <2>1
  <2>3. LowerStay
    <3>1. Proceed(<<>>) \/ Proceed(<<Yield("event", For("arm", Top.ts[1]))>>)
      BY <1>5 DEF Insert
    <3> QED  BY <2>1, <3>1, GoesOn
  <2>4. UNCHANGED <<outcome, workers, activeTasks>>
    BY <1>5 DEF Insert, settleVars
  <2>5. /\ Elems(queue) \subseteq Elems(queue')
        /\ Pending(t) => t \in Elems(queue')
    BY <1>5, <2>2, AppendSound DEF Insert, TypeOK
  <2> SUFFICES ASSUME NEW u \in Tasks, Pending(u)
               PROVE  InHand(u)'
    BY <2>4 DEF HandsInv, Pending
  <2>6. u # t /\ Held(u) => Held(u)'
    BY <1>3, <1>5, <2>2, <2>3 DEF Insert
  <2> QED  BY <2>4, <2>5, <2>6 DEF HandsInv, InHand, Hosts
<1> QED  BY <1>1, <1>2, <1>4, <1>5

(* run() holds its task.                                                     *)
LEMMA RunKeepsHands ==
  ASSUME TypeOK, HandsInv, NEW p \in Priorities, NEW timed \in QueueTimed,
         Run(p, timed)
  PROVE  HandsInv'
<1>1. PICK t : t = submittedTasks + 1
  OBVIOUS
<1> DEFINE f == Yield("signal", For("insert", t))
<1>2. f.at = "insert" /\ f.ts = <<t>> /\ t \in Elems(<<t>>)
  BY LabelsOf, FieldsOf, OneElem
<1>3. UserCall(<<f>>)
  BY <1>1 DEF Run
<1> HIDE DEF f
<1>4. /\ Len(stack) \in Nat /\ Len(stack') = Len(stack) + 1
      /\ \A i \in 1..Len(stack) : stack'[i] = stack[i]
      /\ stack'[Len(stack) + 1] = f
  BY <1>3, Calls1 DEF TypeOK
<1>5. Keeps(HeldLabels) /\ Len(stack') \in 1..Len(stack')
  BY <1>4 DEF Keeps
<1>6. Held(t)'
  BY <1>2, <1>4, <1>5, HeldBy DEF HeldLabels
<1>7. /\ UNCHANGED <<queue, workers, activeTasks>>
      /\ \A u \in Tasks : u # t => outcome'[u] = outcome[u]
  BY <1>1 DEF Run, workerVars, TypeOK
<1> QED  BY <1>5, <1>6, <1>7, HeldStays DEF HandsInv, InHand, Hosts, Pending

(* The queue is given to a settling loop, or the part of it above its limit. *)
LEMMA LoopHolds ==
  ASSUME TypeOK, HandsInv, stack # <<>>, Top.at \notin HeldLabels,
         NEW f, NEW ts, NEW why, Proceed(<<f, SettleEach(ts, why)>>),
         Elems(queue) \subseteq Elems(queue') \cup Elems(ts),
         UNCHANGED <<outcome, workers, activeTasks>>
  PROVE  HandsInv'
<1> DEFINE g == SettleEach(ts, why)
<1>1. g.at = "settle" /\ g.ts = ts
  BY LabelsOf, FieldsOf
<1>2. Proceed(<<f, g>>)
  OBVIOUS
<1> HIDE DEF g
<1>3. /\ LowerStay /\ Len(stack) \in Nat \ {0}
      /\ Len(stack') = Len(stack) + 1 /\ stack'[Len(stack) + 1] = g
  BY <1>2, GoesOn
<1>4. Len(stack) + 1 \in 1..Len(stack')
  BY <1>3
<1>5. \A u \in Elems(ts) : Held(u)'
  BY <1>1, <1>3, <1>4, HeldBy DEF HeldLabels
<1>6. \A u : Held(u) => Held(u)'
  BY <1>3, HeldBelow
<1> QED  BY <1>5, <1>6 DEF HandsInv, InHand, Hosts, Pending

(* The steps that do so.                                                     *)
LEMMA LoopsKeepHands ==
  ASSUME TypeOK, TaskInv, HandsInv,
         EnforceQueueLimit \/ RejectQueue \/ RejectBacklog \/ TerminateAll
  PROVE  HandsInv'
<1> USE DEF workerVars, settleVars
<1>0. /\ stack # <<>> /\ Top.at \notin HeldLabels
      /\ UNCHANGED <<outcome, workers, activeTasks>>
  BY DEF EnforceQueueLimit, RejectQueue, RejectBacklog, TerminateAll, Running,
         HeldLabels
<1>1. PICK q : q = queue
  OBVIOUS
<1>2. ASSUME EnforceQueueLimit
      PROVE  HandsInv'
  <2>1. Top.ts[1] \in Tasks
    BY <1>2, RunningFrame DEF EnforceQueueLimit, TaskLabels
  <2>2. PICK t \in Tasks : t = Top.ts[1]
    BY <2>1
  <2>3. PICK ts : ts = Evicted(queue, t, MaxQueueSize, OverflowPolicy)
    OBVIOUS
  <2>4. PICK why : Proceed(<<At("stats"), SettleEach(ts, why)>>)
    BY <1>2, <2>2, <2>3 DEF EnforceQueueLimit
  <2>5. queue' = Kept(queue, t, MaxQueueSize, OverflowPolicy)
    BY <1>2, <2>2 DEF EnforceQueueLimit
  <2>6. Elems(queue) = Elems(queue') \cup Elems(ts)
    BY <2>3, <2>5, LimitSound DEF TypeOK, TaskInv, TaskData, QueuedOnce
  <2> QED  BY <1>0, <2>4, <2>6, LoopHolds
<1>3. ASSUME RejectQueue
      PROVE  HandsInv'
  <2>1. Proceed(<<At("passend"), SettleEach(q, "rejected")>>)
    BY <1>1, <1>3 DEF RejectQueue
  <2> QED  BY <1>0, <1>1, <2>1, LoopHolds
<1>4. ASSUME RejectBacklog
      PROVE  HandsInv'
  <2>1. Proceed(<<At("endpass"), SettleEach(q, "rejected")>>)
    BY <1>1, <1>4 DEF RejectBacklog
  <2> QED  BY <1>0, <1>1, <2>1, LoopHolds
<1>5. ASSUME TerminateAll
      PROVE  HandsInv'
  <2>1. Proceed(<<At("termworkers"), SettleEach(q, "pool-closed")>>)
    BY <1>1, <1>5 DEF TerminateAll
  <2> QED  BY <1>0, <1>1, <2>1, LoopHolds
<1> QED  BY <1>2, <1>3, <1>4, <1>5

(* The worker that a task is dispatched to can be used.                      *)
LEMMA DispatchedFits ==
  ASSUME TypeOK, SealInv, ClosedEmpty, NEW late, Dispatch(late)
  PROVE  /\ stack # <<>> /\ Top.at = "got" /\ Top.w \in Workers
         /\ Top.w \in workers \ marked /\ ~Expired(Top.w)
<1>1. stack # <<>> /\ Top.at = "got" /\ Top.w \in Workers
  BY RunningFrame DEF Dispatch, WorkerLabels
<1>2. ~terminationStarted
  BY DEF ClosedEmpty, Dispatch
<1>3. TopFits(Top)
  BY <1>1, TopIsFrame DEF SealInv, Sealed, TypeOK
<1>4. Chosen(Top)
  BY <1>1, PoolAssumption DEF Chosen
<1> QED  BY <1>1, <1>2, <1>3, <1>4 DEF TopFits

(* The task that is dispatched gets a slot of a managed worker, and a worker *)
(* that is removed has no task.                                              *)
LEMMA SlotsKeepHands ==
  ASSUME TypeOK, TaskInv, HandsInv, SealInv, ClosedEmpty
  PROVE  /\ \A late \in BOOLEAN : Dispatch(late) => HandsInv'
         /\ RemoveWorker => HandsInv'
<1>1. ASSUME NEW late \in BOOLEAN, Dispatch(late)
      PROVE  HandsInv'
  <2>1. /\ stack # <<>> /\ Top.at = "got" /\ Top.w \in Workers
        /\ UNCHANGED <<workers, outcome>>
    BY <1>1, RunningFrame DEF Dispatch, WorkerLabels
  <2>2. PICK w \in Workers : w = Top.w
    BY <2>1
  <2>3. w \in workers
    BY <1>1, <2>2, DispatchedFits
  <2>4. PICK t \in Firsts(queue, priority) :
          /\ queue' = Without(queue, t)
          /\ activeTasks' = [activeTasks EXCEPT ![w] = @ \cup {t}]
    BY <1>1, <2>2 DEF Dispatch
  <2>5. t \in Tasks
    BY <2>4, QueueTasks DEF Firsts
  <2>6. Elems(queue') = Elems(queue) \ {t}
    BY <2>4, <2>5, WithoutSound DEF TypeOK, TaskInv, TaskData, QueuedOnce
  <2>7. Keeps(HeldLabels)
    BY <1>1, CreationMoves DEF Moves, Keeps, HeldLabels
  <2>8. /\ t \in activeTasks'[w]
        /\ \A v \in Workers : activeTasks[v] \subseteq activeTasks'[v]
    BY <2>4 DEF TypeOK
  <2>9. /\ w \in Hosts(t)'
        /\ \A u : Hosts(u) \subseteq Hosts(u)'
    BY <2>1, <2>3, <2>8 DEF Hosts, TypeOK
  <2> QED  BY <2>1, <2>6, <2>7, <2>9, HeldStays DEF HandsInv, InHand, Pending
<1>2. ASSUME RemoveWorker
      PROVE  HandsInv'
  <2>1. /\ stack # <<>> /\ Top.at = "remove"
        /\ UNCHANGED <<outcome, queue, activeTasks>>
        /\ workers' = workers \ {Top.w}
    BY <1>2 DEF RemoveWorker, Running, settleVars
  <2>2. activeTasks[Top.w] = {}
    BY <1>2, <2>1, TopIsFrame
       DEF SealInv, Sealed, TopFits, RemoveWorker, MayRemove, Busy, TypeOK
  <2>3. Keeps(HeldLabels)
    BY <1>2, TerminationMoves DEF Moves, Keeps, HeldLabels
  <2>4. \A u : Hosts(u) = Hosts(u)'
    BY <2>1, <2>2 DEF Hosts
  <2> QED  BY <2>1, <2>3, <2>4, HeldStays DEF HandsInv, InHand, Pending
<1> QED  BY <1>1, <1>2

(* Who starts the shutdown.                                                  *)
LEMMA OnlyTerminateAll ==
  ASSUME TypeOK, [Next]_vars, ~TerminateAll
  PROVE  terminationStarted' = terminationStarted
<1> USE DEF poolVars
<1>1. ASSUME TaskStep
      PROVE  terminationStarted' = terminationStarted
  BY <1>1 DEF TaskStep, SettleNext, Insert, SignalThrows, ArmLate,
     EnforceQueueLimit, RejectQueue, RejectBacklog, GotExpired, CallMethod,
     MethodCalled, MethodThrows, CompleteTask, Drain, Run, Dispatch, Abort,
     QueueTimer, Microtask, FailTask, TerminateTask, Answer
<1> QED  BY <1>1, TaskSteps DEF TaskQuiet

(* The queue of a closed pool stays empty: the last submission was queued    *)
(* before.                                                                   *)
LEMMA NextClosedEmpty ==
  ASSUME TypeOK, TypeOK', SealInv, ClosedEmpty, [Next]_vars
  PROVE  ClosedEmpty'
<1>1. CASE TerminateAll
  BY <1>1 DEF TerminateAll, ClosedEmpty
<1>2. CASE ~TerminateAll /\ terminationStarted
  <2>1. queue = <<>> /\ Len(queue) = 0
    BY <1>2 DEF ClosedEmpty
  <2>2. Len(queue') <= Len(queue) => ClosedEmpty'
    <3>1. queue' \in Seq(Tasks) /\ Len(queue') \in Nat
      BY DEF TypeOK
    <3> QED  BY <2>1, <3>1, EmptySeq DEF ClosedEmpty
  <2>3. ~Insert
    <3>1. ASSUME Insert
          PROVE  FALSE
      <4>1. stack # <<>> /\ Top.at = "insert"
        BY <3>1 DEF Insert, Running
      <4> QED  BY <1>2, <4>1, TopIsFrame DEF SealInv, Sealed, TopFits, TypeOK
    <3> QED  BY <3>1
  <2>4. ASSUME Arm \/ BacklogQuiet
        PROVE  ClosedEmpty'
    BY <2>1, <2>4 DEF Arm, BacklogQuiet, ClosedEmpty
  <2>5. ASSUME ArmLate
        PROVE  ClosedEmpty'
    BY <2>1, <2>5, NoElems DEF ArmLate
  <2>6. ASSUME EnforceQueueLimit
        PROVE  ClosedEmpty'
    BY <2>1, <2>6, PoolAssumption
       DEF EnforceQueueLimit, Kept, ClosedEmpty
  <2> QED
    BY <2>2, <2>3, <2>4, <2>5, <2>6, BacklogSteps, BacklogShrinking
       DEF BacklogStep, BacklogShrinks
<1>3. CASE ~TerminateAll /\ ~terminationStarted
  BY <1>3, OnlyTerminateAll DEF ClosedEmpty
<1> QED  BY <1>1, <1>2, <1>3

(* Every step keeps the tasks in hand.                                       *)
LEMMA NextHands ==
  ASSUME TypeOK, TaskInv, SealInv, ClosedEmpty, HandsInv, [Next]_vars
  PROVE  HandsInv'
<1>1. ASSUME HandsQuiet
      PROVE  HandsInv'
  <2>1. \A u : Hosts(u) \subseteq Hosts(u)'
    BY <1>1 DEF HandsQuiet, Hosts
  <2> QED  BY <1>1, <2>1, HeldStays DEF HandsQuiet, HandsInv, InHand, Pending
<1>2. ASSUME HandsStep
      PROVE  HandsInv'
  BY <1>2, SettlersKeepHands, HoldersKeepHands, RunKeepsHands, LoopsKeepHands,
     SlotsKeepHands DEF HandsStep
<1> QED  BY <1>1, <1>2, HandsSteps

(* The invariant of the hands holds.                                         *)
LEMMA HandsHold ==
  ASSUME QuietObservers
  PROVE  Spec => [](HandsInv /\ ClosedEmpty)
<1>1. Init => HandsInv /\ ClosedEmpty
  BY DEF Init, HandsInv, ClosedEmpty, Pending
<1>2. ASSUME TypeOK, TypeOK', TaskInv, SealInv, ClosedEmpty, HandsInv,
             [Next]_vars
      PROVE  HandsInv' /\ ClosedEmpty'
  BY <1>2, NextHands, NextClosedEmpty
<1>3. Spec => []SealInv
  BY SealsHold
<1> QED
  BY <1>1, <1>2, <1>3, TypeCorrect, TasksTracked, PTL DEF Spec

(* No accepted task is ever lost: it is in the queue of a pool that still    *)
(* schedules, in a slot of a managed worker or in the hands of the running   *)
(* code, unless it is settled. The statistics observer and the abort signal  *)
(* are assumed not to call the pool back: _dispatch does not look again at   *)
(* the worker it was given before the statistics were reported, and run()    *)
(* queues its task without looking again whether the pool is open.           *)
THEOREM NoTaskIsLost ==
  ASSUME QuietObservers
  PROVE  Spec => []NoLostTask
<1>1. HandsInv /\ ClosedEmpty => NoLostTask
  BY NoElems DEF HandsInv, ClosedEmpty, InHand, NoLostTask
<1> QED  BY <1>1, HandsHold, PTL

(* Only _dispatch takes a slot.                                              *)
LEMMA OnlyDispatchTakes ==
  ASSUME TypeOK, [Next]_vars, \A late \in BOOLEAN : ~Dispatch(late),
         NEW v \in Workers
  PROVE  activeTasks'[v] \subseteq activeTasks[v]
<1>1. ASSUME HandsStep, activeTasks' # activeTasks
      PROVE  \E w \in Workers, t \in Tasks :
               activeTasks' = [activeTasks EXCEPT ![w] = @ \ {t}]
  <2>1. CompleteTask \/ \E t \in Tasks : FailTask(t) \/ TerminateTask(t)
    BY <1>1 DEF HandsStep, workerVars, data, SettleNext, SettleDone, Insert,
       SignalThrows, ArmLate, EnforceQueueLimit, RejectQueue, RejectBacklog,
       GotExpired, RemoveWorker, TerminateAll, Run, Abort, QueueTimer
  <2>2. ASSUME CompleteTask
        PROVE  \E w \in Workers, t \in Tasks :
                 activeTasks' = [activeTasks EXCEPT ![w] = @ \ {t}]
    <3>1. Top.ts[1] \in Tasks
      BY <2>2, RunningFrame DEF CompleteTask, TaskLabels
    <3>2. PICK t \in Tasks : t = Top.ts[1]
      BY <3>1
    <3>3. PICK w \in Hosts(t) :
           activeTasks' = [activeTasks EXCEPT ![w] = @ \ {t}]
      BY <2>2, <3>2 DEF CompleteTask
    <3> QED  BY <3>3 DEF Hosts, TypeOK
  <2>3. ASSUME NEW t \in Tasks, FailTask(t) \/ TerminateTask(t)
        PROVE  \E w \in Workers :
                 activeTasks' = [activeTasks EXCEPT ![w] = @ \ {t}]
    <3>1. Top.w \in Workers
      BY <2>3, RunningFrame DEF FailTask, TerminateTask, WorkerLabels
    <3> QED  BY <2>3, <3>1 DEF FailTask, TerminateTask
  <2> QED  BY <2>1, <2>2, <2>3
<1> QED  BY <1>1, HandsSteps DEF HandsQuiet, TypeOK

(* A task is given to a managed worker that is neither being retired nor     *)
(* past its lifetime, and to no other: what was true when                    *)
(* _getAvailableWorker chose the worker still is when _dispatch takes the    *)
(* slot.                                                                     *)
THEOREM RetiredWorkersRest ==
  ASSUME QuietObservers
  PROVE  Spec => RetiredTakesNoTask
<1>1. ASSUME TypeOK, SealInv, HandsInv /\ ClosedEmpty, [Next]_vars
      PROVE  [\A w \in Workers : activeTasks'[w] \subseteq activeTasks[w]
                \/ (w \in workers /\ w \notin marked /\ ~Expired(w))]_vars
  <2>1. ASSUME NEW late \in BOOLEAN, Dispatch(late), NEW v \in Workers
        PROVE  \/ activeTasks'[v] \subseteq activeTasks[v]
               \/ v \in workers /\ v \notin marked /\ ~Expired(v)
    <3>1. Top.w \in workers \ marked /\ ~Expired(Top.w)
      BY <1>1, <2>1, DispatchedFits
    <3>2. PICK t : activeTasks' = [activeTasks EXCEPT ![Top.w] = @ \cup {t}]
      BY <2>1 DEF Dispatch
    <3>3. v # Top.w => activeTasks'[v] = activeTasks[v]
      BY <1>1, <3>2 DEF TypeOK
    <3> QED  BY <3>1, <3>3
  <2> QED  BY <1>1, <2>1, OnlyDispatchTakes
<1>2. Spec => []SealInv
  BY SealsHold
<1>3. Spec => [](HandsInv /\ ClosedEmpty)
  BY HandsHold
<1> QED  BY <1>1, <1>2, <1>3, TypeCorrect, PTL DEF Spec, RetiredTakesNoTask

-----------------------------------------------------------------------------
(* The shutdown is reported when nothing is left.                            *)

(* Nothing of the pool is left, and nothing can come back.                   *)
Over ==
  /\ terminationStarted /\ creating = 0
  /\ workers = {} /\ Retryable = {}

(* The inductive invariant: what was true when the shutdown was reported     *)
(* still is.                                                                 *)
ReportInv == shutdownResolved => Over

(* Once the pool is over, no running method is making, choosing or           *)
(* terminating a worker.                                                     *)
LEMMA OverRuns ==
  ASSUME TypeOK, SchedulerExclusive, SealInv, AttemptFrames, ~Lifetime, Over,
         stack # <<>>
  PROVE  Top.at \notin CreateLabels \cup {"pick", "attempt", "attempted"}
<1>1. /\ Len(stack) \in 1..Len(stack) /\ Top = stack[Len(stack)]
      /\ Top \in Frames
  BY TopIsFrame DEF TypeOK
<1>2. Top.at \notin CreateLabels
  BY <1>1 DEF SchedulerExclusive, Over
<1>3. Top.at # "pick"
  BY <1>1 DEF SealInv, Sealed, TopFits, Over
<1>4. ASSUME Top.at \in {"attempt", "attempted"}
      PROVE  FALSE
  <2>1. tstate[Top.w] = "attempting"
    BY <1>1, <1>4 DEF AttemptFrames
  <2>2. Top.w \in Workers
    BY <1>1, <1>4 DEF Frames, WorkerLabels
  <2> QED  BY <2>1, <2>2 DEF Over, Retryable, Quarantined
<1> QED  BY <1>2, <1>3, <1>4

(* A confirmed termination leaves no worker to be retried.                   *)
LEMMA ConfirmLeavesNone ==
  ASSUME TypeOK, Retryable = {}, NEW w, Confirm(w)
  PROVE  Retryable' = {}
BY DEF TypeOK, Retryable, Quarantined, Confirm

(* A pool that is over stays so.                                             *)
LEMMA OverStays ==
  ASSUME TypeOK, SchedulerExclusive, SchedulerExclusive', SealInv,
         AttemptFrames, ~Lifetime, Over, [Next]_vars
  PROVE  Over'
<1>1. terminationStarted'
  BY OnlyTerminateAll DEF TerminateAll, Over
<1>2. \A w \in Workers : tstate[w] \notin {"attempting", "pending", "retry"}
  BY DEF Over, Retryable, Quarantined
<1>3. CASE WorkerQuiet
  <2>1. /\ workers' = {} /\ Retryable' = {}
    BY <1>3 DEF WorkerQuiet, Over, Retryable, Quarantined
  <2>2. creating' = 0
    <3>1. \A i \in 1..Len(stack) : stack[i].at \notin CreateLabels
      BY DEF SchedulerExclusive, Over
    <3>2. \A i \in 1..Len(stack') : stack'[i].at \notin CreateLabels
      BY <1>3, <3>1 DEF WorkerQuiet, Avoids, CreateLabels, WorkLabels
    <3> QED  BY <3>2 DEF SchedulerExclusive
  <2> QED  BY <1>1, <2>1, <2>2 DEF Over
<1>4. CASE WorkerStep
  <2> DEFINE Making ==
               \/ PickNew \/ PickLoaded \/ ConstructThrows \/ Discard
               \/ Uncreated \/ CreatedReady \/ CreatedExpired
               \/ CreatedTooLate \/ Finally \/ Attempt
               \/ TerminatorReturns \/ TerminatorThrows \/ TerminatorPromises
               \/ \E w \in Workers : \/ PickIdle(w) \/ PickExpired(w)
                                     \/ ConstructOk(w) \/ ConstructPartial(w)
             Waiting ==
               \E w \in Workers : \/ PromiseConfirms(w) \/ PromiseRejects(w)
                                  \/ PromiseConfirmsPastDeadline(w)
                                  \/ AttemptTimer(w) \/ RetryTimer(w)
             Confirming ==
               ConfirmedPastDeadline \/ \E w \in Workers : LateConfirm(w)
  <2>0. /\ \A l \in CreateLabels : ~Running(l)
        /\ ~Running("pick") /\ ~Running("attempt") /\ ~Running("attempted")
    BY OverRuns DEF Running
  <2>1. ~Making
    BY <2>0 DEF PickNew, PickLoaded, ConstructThrows, Discard, Uncreated,
           CreatedReady, CreatedExpired, CreatedTooLate, Finally, Attempt,
           TerminatorReturns, TerminatorThrows, TerminatorPromises, PickIdle,
           PickExpired, ConstructOk, ConstructPartial, CreateLabels
  <2>2. ~Waiting
    BY <1>2
       DEF PromiseConfirms, PromiseRejects, PromiseConfirmsPastDeadline,
           AttemptTimer, RetryTimer
  <2>3. ~RemoveWorker
    BY DEF RemoveWorker, MayRemove, Over
  <2>4. ASSUME Confirming
        PROVE  Over'
    <3>1. UNCHANGED <<workers, creating>>
      BY <2>4 DEF ConfirmedPastDeadline, LateConfirm, workerVars, schedVars
    <3>2. Retryable' = {}
      BY <2>4, ConfirmLeavesNone DEF ConfirmedPastDeadline, LateConfirm, Over
    <3> QED  BY <1>1, <3>1, <3>2 DEF Over
  <2>5. ASSUME ~Making, ~Waiting, ~Confirming, ~RemoveWorker
        PROVE  UNCHANGED <<workers, creating, tstate>>
    BY <1>4, <2>5
       DEF WorkerStep, CallMethod, MethodCalled, CompleteIgnored, CompleteTask,
           Completed, FailureStarts, FailureEnds, RemoveSkipped,
           TerminateWorkers, TerminateWorker, Dispatch, Microtask, TaskTimer,
           FailTask, TerminateTask, WorkerError, LifetimeTimer, IdleTimer,
           data, workerVars, schedVars, termVars
  <2>6. ASSUME UNCHANGED <<workers, creating, tstate>>
        PROVE  Over'
    BY <1>1, <2>6 DEF Over, Retryable, Quarantined
  <2> QED  BY <2>1, <2>2, <2>3, <2>4, <2>5, <2>6
<1> QED  BY <1>3, <1>4, WorkerSteps

(* Who reports the shutdown.                                                 *)
LEMMA OnlyUpdateStats ==
  ASSUME TypeOK, [Next]_vars, ~UpdateStats
  PROVE  shutdownResolved' = shutdownResolved
<1> USE DEF poolVars, data
<1>1. ASSUME SealStep
      PROVE  shutdownResolved' = shutdownResolved
  BY <1>1
     DEF SealStep, Insert, SignalThrows, Loop, PickNew, PickLoaded, Uncreated,
         CreatedReady, CreatedExpired, CreatedTooLate, Finally, GotNothing,
         GotExpired, Completed, FailureEnds, RemoveWorker, RemoveSkipped,
         TerminateAll, TerminateWorker, StatsFinishDrain, Return, Run,
         Dispatch, PickIdle, PickExpired, LifetimeTimer, IdleTimer
<1>2. SealQuiet \/ UNCHANGED vars => shutdownResolved' = shutdownResolved
  BY DEF SealQuiet, vars
<1> QED  BY <1>1, <1>2, SealSteps

(* The report is true, and stays so.                                         *)
LEMMA ReportHolds ==
  ASSUME QuietObservers, ~Lifetime
  PROVE  Spec => []ReportInv
<1>1. Init => ReportInv
  BY DEF Init, ReportInv
<1>2. ASSUME IInv /\ AttemptInv, (IInv /\ AttemptInv)', SealInv, ReportInv,
             [Next]_vars
      PROVE  ReportInv'
  <2>1. /\ TypeOK /\ SchedulerExclusive /\ SchedulerExclusive'
        /\ AttemptFrames
    BY <1>2 DEF IInv, AttemptInv
  <2>2. Over => Over'
    BY <1>2, <2>1, OverStays
  <2>3. ASSUME UpdateStats
        PROVE  ReportInv'
    BY <1>2, <2>2, <2>3 DEF UpdateStats, ShutdownComplete, ReportInv, Over
  <2> QED  BY <1>2, <2>1, <2>2, <2>3, OnlyUpdateStats DEF ReportInv
<1>3. Spec => []SealInv
  BY SealsHold
<1> QED  BY <1>1, <1>2, <1>3, AttemptsHold, PTL DEF Spec

(* When the promise of a shutdown has resolved and the event loop is idle,   *)
(* nothing is left of the pool: no worker is managed or being made, no       *)
(* termination attempt is to come, and every accepted task has settled.      *)
(* Without maxWorkerLifetimeMs: the removal of an expired worker calls       *)
(* observers in the midst of _getAvailableWorker, which goes on to make a    *)
(* worker although they have closed the pool.                                *)
THEOREM ShutdownIsReported ==
  ASSUME QuietObservers, ~Lifetime
  PROVE  Spec => []ShutdownReport
<1>1. ReportInv /\ NoLostTask => ShutdownReport
  BY DEF ReportInv, Over, NoLostTask, ShutdownReport, AtRest, Hosts, Held
<1> QED  BY <1>1, ReportHolds, NoTaskIsLost, PTL

-----------------------------------------------------------------------------
(* No slot is wasted. Here the life of a worker is not limited, so that all  *)
(* are young, and observers do not call the pool.                            *)

(* No lifecycle observer calls the pool, either: of the callbacks only the   *)
(* factories, the cleanup of a worker that could not be completed, the       *)
(* terminator and the methods of a proxy may. The cleanup of a removed       *)
(* worker is one callback with its event.                                    *)
CalmObservers == QuietObservers /\ "event" \notin Reenters

(* No worker can take a task and none can be added.                          *)
Full == ~CanCreate /\ \A w \in workers : ~HasSlot(w)

(* What waits will be scheduled again: a managed worker will be done, or the *)
(* termination of a quarantined one is still tried.                          *)
Hopeful == workers # {} \/ Retryable # {}

(* There is nothing to schedule.                                             *)
Scanned == terminationStarted \/ queue = <<>> \/ Full

(* What is left in the queue is to wait.                                     *)
Served == terminationStarted \/ queue = <<>> \/ (Full /\ Hopeful)

(* The frames of code that is to schedule, or goes on to.                    *)
ServeLabels ==
  {"next", "arm", "completed", "failing", "loop", "pick", "construct",
   "discard", "uncreated", "created", "got", "broken", "finally", "endpass"}

(* A creation without a worker to use ends the pass, unless the factory      *)
(* failed: then the backlog does, too.                                       *)
Serving(f) ==
  /\ f.at \in ServeLabels
  /\ f.at = "finally" => f.w # NoWorker \/ f.why = "broken"

(* The event loop, at 0, or the frame of a run() that applies the queue      *)
(* limit, or of a drain() that looks for a stall: before it is reached, the  *)
(* queue will be scheduled or there is no need to.                           *)
AwaitLabels == {"enforce", "drained"}
Expects(i) == i = 0 \/ stack[i].at \in AwaitLabels

(* Some code is to schedule: above i, or the pass that i runs in.            *)
Backed(i) ==
  \/ Served
  \/ \E j \in 1..Len(stack) :
       Serving(stack[j]) /\ (j > i \/ stack[j].at \in SchedLabels)

(* The inductive invariant: while a free slot waits for a queued task, the   *)
(* code that will use it is on the stack.                                    *)
ServeInv == \A i \in 0..Len(stack) : Expects(i) => Backed(i)

(* The frames in which no callback may call the pool.                        *)
StillLabels == {"settle", "completed", "created", "endpass", "passend"}
                 \cup AwaitLabels

(* What these frames, and those that may let a slot go, can count on: the    *)
(* end of a pass finds nothing to schedule, a worker that is handled is      *)
(* managed, and above a removal the scheduler is to run.                     *)
Sound(i) ==
  /\ stack[i].at \in StillLabels => stack[i].cb \notin Reenters
  /\ stack[i].at = "completed" => /\ i = Len(stack)
                                  /\ \/ terminationStarted
                                     \/ stack[i].w \in workers
  /\ stack[i].at = "created" => i = Len(stack) /\ stack[i].w \in workers
  /\ stack[i].at = "finally" => Serving(stack[i]) \/ terminationStarted
  /\ stack[i].at = "remove" => \/ terminationStarted
                               \/ i > 1 /\ stack[i - 1].at = "next"
  /\ stack[i].at \in {"endpass", "passend"} =>
       \/ terminationStarted
       \/ /\ Scanned /\ (stack[i].at = "passend" => Served)
          /\ i = Len(stack) \/ (i = Len(stack) - 1 /\ Top.at = "settle")

(* The inductive invariant of those frames.                                  *)
SoundInv == \A i \in 1..Len(stack) : Sound(i)

(* A step that lets no slot go, queues nothing and leaves the scheduling to  *)
(* the frames that are to do it.                                             *)
ServeQuiet ==
  /\ Avoids(StillLabels \cup {"finally", "remove"}) /\ Keeps(ServeLabels)
  /\ stack = <<>> \/ InCallback \/ Top.at \notin StillLabels
  /\ UNCHANGED <<terminationStarted, workers, activeTasks>>
  /\ Lifetime \/ life' = life
  /\ marked \subseteq marked' /\ Quarantined' = Quarantined
  /\ Retryable \subseteq Retryable'
  /\ queue = <<>> => queue' = <<>>

(* The step of a submission: that listed schedules nothing, and need not.    *)
LEMMA SubmissionSchedulesNone ==
  ASSUME TypeOK
  PROVE  /\ SignalThrows => ServeQuiet
<1> USE DEF poolVars, taskVars, settleVars, workerVars, schedVars, termVars,
            data, ServeQuiet, Moves, Avoids, Keeps, StillLabels, AwaitLabels,
            ServeLabels, Running, UserCall, InCallback, EventLoop,
            TimersMayFire, Quarantined, Retryable
<1>1. SignalThrows => ServeQuiet
  BY SubmissionMoves DEF SignalThrows
<1> QED  BY <1>1

(* The steps of a task that runs on its worker: those listed schedule        *)
(* nothing, and need not.                                                    *)
LEMMA CallsSchedulesNone ==
  ASSUME TypeOK
  PROVE  /\ \A t \in Tasks : Microtask(t) => ServeQuiet
         /\ CallMethod => ServeQuiet
         /\ MethodCalled => ServeQuiet
         /\ MethodThrows => ServeQuiet
         /\ \A t \in Tasks : \A why : Answer(t, why) => ServeQuiet
         /\ CompleteIgnored => ServeQuiet
         /\ \A t \in Tasks : TaskTimer(t) => ServeQuiet
         /\ \A w \in Workers : WorkerError(w) => ServeQuiet
         /\ FailureStarts => ServeQuiet
<1> USE DEF poolVars, taskVars, settleVars, workerVars, schedVars, termVars,
            data, ServeQuiet, Moves, Avoids, Keeps, StillLabels, AwaitLabels,
            ServeLabels, Running, UserCall, InCallback, EventLoop,
            TimersMayFire, Quarantined, Retryable
<1>1. ASSUME NEW t \in Tasks, Microtask(t)
      PROVE  ServeQuiet
  <2>1. stack = <<>>
    BY <1>1 DEF Microtask
  <2>2. Moves({}, {"lookup", "fail"})
    BY <1>1, CallsMoves
  <2> QED  BY <1>1, <2>1, <2>2 DEF Microtask
<1>2. CallMethod => ServeQuiet
  BY CallsMoves DEF CallMethod
<1>3. MethodCalled => ServeQuiet
  BY CallsMoves DEF MethodCalled
<1>4. MethodThrows => ServeQuiet
  BY CallsMoves DEF MethodThrows
<1>5. ASSUME NEW t \in Tasks, NEW why, Answer(t, why)
      PROVE  ServeQuiet
  <2>1. Moves({}, {"complete"})
    BY <1>5, CallsMoves
  <2> QED  BY <1>5, <2>1 DEF Answer
<1>6. CompleteIgnored => ServeQuiet
  BY CallsMoves DEF CompleteIgnored
<1>7. \A t \in Tasks : TaskTimer(t) => ServeQuiet
  BY CallsMoves DEF TaskTimer
<1>8. \A w \in Workers : WorkerError(w) => ServeQuiet
  BY CallsMoves DEF WorkerError
<1>9. FailureStarts => ServeQuiet
  BY CallsMoves DEF FailureStarts
<1> QED  BY <1>1, <1>2, <1>3, <1>4, <1>5, <1>6, <1>7, <1>8, <1>9

(* The steps that terminate a worker: those listed schedule nothing, and     *)
(* need not.                                                                 *)
LEMMA TerminationSchedulesNone ==
  ASSUME TypeOK
  PROVE  /\ RemoveSkipped => ServeQuiet
         /\ Attempt => ServeQuiet
<1> USE DEF poolVars, taskVars, settleVars, workerVars, schedVars, termVars,
            data, ServeQuiet, Moves, Avoids, Keeps, StillLabels, AwaitLabels,
            ServeLabels, Running, UserCall, InCallback, EventLoop,
            TimersMayFire, Quarantined, Retryable
<1>1. RemoveSkipped => ServeQuiet
  BY TerminationMoves DEF RemoveSkipped
<1>2. Attempt => ServeQuiet
  BY TerminationMoves DEF Attempt
<1> QED  BY <1>1, <1>2

(* The steps of the shutdown, of user code and of the clock: those listed    *)
(* schedule nothing, and need not.                                           *)
LEMMA ShutdownSchedulesNone ==
  ASSUME TypeOK
  PROVE  /\ Close => ServeQuiet
         /\ TerminateWorkers => ServeQuiet
         /\ StatsFinishDrain => ServeQuiet
         /\ UpdateStats => ServeQuiet
         /\ Return => ServeQuiet
         /\ Time => ServeQuiet
<1> USE DEF poolVars, taskVars, settleVars, workerVars, schedVars, termVars,
            data, ServeQuiet, Moves, Avoids, Keeps, StillLabels, AwaitLabels,
            ServeLabels, Running, UserCall, InCallback, EventLoop,
            TimersMayFire, Quarantined, Retryable
<1>1. Close => ServeQuiet
  BY ShutdownMoves DEF Close
<1>2. TerminateWorkers => ServeQuiet
  BY ShutdownMoves DEF TerminateWorkers
<1>3. StatsFinishDrain => ServeQuiet
  BY ShutdownMoves DEF StatsFinishDrain
<1>4. UpdateStats => ServeQuiet
  BY ShutdownMoves DEF UpdateStats
<1>5. Return => ServeQuiet
  BY ShutdownMoves DEF Return
<1>6. Time => ServeQuiet
  BY ShutdownMoves DEF Time, QueueDeadline, TaskDeadline, LifetimePasses,
     ClockMoves
<1> QED  BY <1>1, <1>2, <1>3, <1>4, <1>5, <1>6

(* The others that schedule nothing, and need not.                           *)
LEMMA OthersScheduleNone ==
  ASSUME TypeOK
  PROVE  /\ \A p, timed : Run(p, timed) => ServeQuiet
         /\ \A t \in Tasks : Abort(t) => ServeQuiet
         /\ \A t \in Tasks : QueueTimer(t) => ServeQuiet
         /\ TerminatorPromises => ServeQuiet
         /\ \A w \in Workers : RetryTimer(w) => ServeQuiet
<1>1. ASSUME NEW p, NEW timed, Run(p, timed)
      PROVE  ServeQuiet
  <2>1. Moves({}, {"insert"})
    BY <1>1, SubmissionMoves
  <2>2. stack = <<>> \/ InCallback
    BY <1>1 DEF Run, UserCall
  <2> QED
    BY <1>1, <2>1, <2>2
       DEF Run, ServeQuiet, Moves, Avoids, Keeps, StillLabels, AwaitLabels,
           poolVars, workerVars, termVars, Quarantined, Retryable
<1>2. \A t : queue = <<>> => Without(queue, t) = <<>>
  BY NoElems DEF Without
<1>3. ASSUME NEW t \in Tasks, Abort(t)
      PROVE  ServeQuiet
  <2>1. Moves({}, {"stats"})
    BY <1>3, SubmissionMoves
  <2>2. stack = <<>> \/ InCallback
    BY <1>3 DEF Abort, UserCall
  <2> QED
    BY <1>2, <1>3, <2>1, <2>2
       DEF Abort, ServeQuiet, Moves, Avoids, Keeps, StillLabels, AwaitLabels,
           poolVars, workerVars, termVars, Quarantined, Retryable
<1>4. ASSUME NEW t \in Tasks, QueueTimer(t)
      PROVE  ServeQuiet
  <2>1. Moves({}, {"stats"})
    BY <1>4, SubmissionMoves
  <2>2. stack = <<>>
    BY <1>4 DEF QueueTimer, EventLoop
  <2> QED
    BY <1>2, <1>4, <2>1, <2>2
       DEF QueueTimer, ServeQuiet, Moves, Avoids, Keeps, StillLabels,
           AwaitLabels, poolVars, workerVars, termVars, Quarantined, Retryable
<1>5. ASSUME TerminatorPromises
      PROVE  ServeQuiet
  <2>1. Moves({"attempted"}, {}) /\ Top.at = "attempted"
    BY <1>5, TerminationMoves DEF TerminatorPromises, Running
  <2>2. Quarantined' = Quarantined /\ Retryable \subseteq Retryable'
    BY <1>5 DEF TerminatorPromises, Record, Quarantined, Retryable, TypeOK
  <2> QED
    BY <1>5, <2>1, <2>2
       DEF TerminatorPromises, ServeQuiet, Moves, Avoids, Keeps, StillLabels,
           AwaitLabels, ServeLabels, poolVars, workerVars
<1>6. ASSUME NEW w \in Workers, RetryTimer(w)
      PROVE  ServeQuiet
  <2>1. Moves({}, {"attempt"})
    BY <1>6, TerminationMoves
  <2>2. Quarantined' = Quarantined /\ Retryable \subseteq Retryable'
    BY <1>6 DEF RetryTimer, Quarantined, Retryable, TypeOK
  <2>3. stack = <<>>
    BY <1>6 DEF RetryTimer, EventLoop
  <2> QED
    BY <1>6, <2>1, <2>2, <2>3
       DEF RetryTimer, ServeQuiet, Moves, Avoids, Keeps, StillLabels,
           AwaitLabels, poolVars, workerVars
<1> QED  BY <1>1, <1>3, <1>4, <1>5, <1>6

(* No slot is let go while nothing happens to the workers.                   *)
LEMMA FullStays ==
  ASSUME Full, UNCHANGED <<workers, activeTasks, life>>,
         marked \subseteq marked', Quarantined' = Quarantined
  PROVE  Full'
<1>1. ~CanCreate'
  BY DEF Full, CanCreate, PhysicalWorkers
<1>2. \A w \in workers' : ~HasSlot(w)'
  BY DEF Full, HasSlot, Expired
<1> QED  BY <1>1, <1>2 DEF Full

(* Nor is a task left without hope while no worker is given up.              *)
LEMMA ServedStays ==
  ASSUME UNCHANGED <<terminationStarted, workers, activeTasks, life>>,
         marked \subseteq marked', Quarantined' = Quarantined,
         Retryable \subseteq Retryable', queue = <<>> => queue' = <<>>
  PROVE  (Served => Served') /\ (Scanned => Scanned')
<1>1. Full => Full'
  BY FullStays
<1>2. Hopeful => Hopeful'
  BY DEF Hopeful
<1> QED  BY <1>1, <1>2 DEF Served, Scanned

(* Such a step keeps the invariants.                                         *)
LEMMA QuietServes ==
  ASSUME TypeOK, ~Lifetime, ServeInv, SoundInv, ServeQuiet
  PROVE  ServeInv' /\ SoundInv'
<1>1. (Served => Served') /\ (Scanned => Scanned')
  BY ServedStays DEF ServeQuiet
<1>2. ServeInv'
  <2> SUFFICES ASSUME NEW i \in 0..Len(stack'), Expects(i)'
               PROVE  Backed(i)'
    BY DEF ServeInv
  <2>1. i \in 0..Len(stack) /\ Expects(i)
    BY DEF Expects, ServeQuiet, Avoids, StillLabels, AwaitLabels, TypeOK
  <2>2. Backed(i)
    BY <2>1 DEF ServeInv
  <2>3. ASSUME NEW j \in 1..Len(stack), Serving(stack[j])
        PROVE  j \in 1..Len(stack') /\ stack'[j] = stack[j]
    BY <2>3 DEF Serving, ServeQuiet, Keeps
  <2> QED  BY <1>1, <2>2, <2>3 DEF Backed
<1>3. SoundInv'
  <2> SUFFICES ASSUME NEW i \in 1..Len(stack')
               PROVE  Sound(i)'
    BY DEF SoundInv
  <2>1. CASE stack'[i].at \notin StillLabels \cup {"finally", "remove"}
    BY <2>1 DEF Sound, StillLabels, AwaitLabels
  <2>2. CASE stack'[i].at \in StillLabels \cup {"finally", "remove"}
    <3>1. i \in 1..Len(stack) /\ stack'[i] = stack[i] /\ Sound(i)
      BY <2>2 DEF ServeQuiet, Avoids, SoundInv
    <3>2. /\ Len(stack) \in 1..Len(stack) /\ stack # <<>>
          /\ Top = stack[Len(stack)] /\ Sound(Len(stack))
      BY <3>1, EmptySeq DEF TypeOK, SoundInv, Top
    <3>3. Top.at \notin StillLabels
      BY <3>2 DEF ServeQuiet, InCallback, Sound
    <3>4. /\ stack'[i].at \notin {"completed", "created"}
          /\ stack'[i].at \in {"endpass", "passend"} => terminationStarted
      BY <3>1, <3>2, <3>3 DEF Sound, StillLabels, AwaitLabels
    <3>5. stack'[i].at = "remove" => \/ terminationStarted
                                     \/ i > 1 /\ stack'[i - 1].at = "next"
      BY <3>1 DEF Sound, ServeQuiet, Keeps, ServeLabels
    <3> QED
      BY <3>1, <3>4, <3>5 DEF Sound, ServeQuiet
  <2> QED  BY <2>1, <2>2
<1> QED  BY <1>2, <1>3

(* The code that ends a step leaves no new need for the scheduler.           *)
NoNewNeed == Served' \/ (~Serving(Top) /\ (Served => Served'))

(* A method goes on: below it nothing changes, and above each frame that     *)
(* expects the scheduler there is one that will schedule, or no need to.     *)
LEMMA ServeGoes ==
  ASSUME TypeOK, SealInv, ServeInv, SoundInv, stack # <<>>,
         Top.at # "settle", LowerStay,
         Len(stack') \in Nat, Len(stack) - 1 <= Len(stack'),
         terminationStarted => terminationStarted',
         \A j \in Len(stack)..Len(stack') :
           Sound(j)' /\ (stack'[j].at \in AwaitLabels => Backed(j)'),
         \/ NoNewNeed
         \/ \E j \in 1..Len(stack') :
              /\ Serving(stack'[j])
              /\ j >= Len(stack) - 1 \/ stack'[j].at \in SchedLabels
  PROVE  ServeInv' /\ SoundInv'
<1>0. PICK n : n = Len(stack)
  OBVIOUS
<1>1. /\ n \in Nat \ {0} /\ n = Len(stack) /\ Top = stack[n]
      /\ \A i \in 1..(n - 1) : i \in 1..Len(stack') /\ stack'[i] = stack[i]
  BY <1>0, TopIsFrame DEF TypeOK, LowerStay
<1>2. \A i \in 1..Len(stack') : i \in 1..(n - 1) \/ i \in n..Len(stack')
  BY <1>1
<1>3. ServeInv'
  <2> SUFFICES ASSUME NEW i \in 0..Len(stack'), Expects(i)'
               PROVE  Backed(i)'
    BY DEF ServeInv
  <2>1. CASE i \in n..Len(stack')
    BY <1>1, <2>1 DEF Expects
  <2>2. CASE i \in 0..(n - 1)
    <3>1. i \in 0..Len(stack) /\ Expects(i)
      BY <1>1, <2>2 DEF Expects
    <3>2. Backed(i)
      BY <3>1 DEF ServeInv
    <3>3. ASSUME NEW j \in 1..Len(stack'), Serving(stack'[j]),
                 j >= n - 1 \/ stack'[j].at \in SchedLabels
          PROVE  Backed(i)'
      <4>1. j # i
        BY <3>3 DEF Expects, AwaitLabels, Serving, ServeLabels
      <4>2. j > i \/ stack'[j].at \in SchedLabels
        BY <1>1, <2>2, <3>3, <4>1
      <4> QED  BY <3>3, <4>2 DEF Backed
    <3>4. ASSUME ~Serving(Top), Served => Served'
          PROVE  Backed(i)'
      <4>1. ASSUME NEW j \in 1..Len(stack), Serving(stack[j])
            PROVE  j \in 1..Len(stack') /\ stack'[j] = stack[j]
        <5>1. j # n
          BY <1>1, <3>4, <4>1
        <5>2. j \in 1..(n - 1)
          BY <1>1, <5>1
        <5> QED  BY <1>1, <5>2
      <4> QED  BY <3>2, <3>4, <4>1 DEF Backed
    <3> QED  BY <1>1, <3>3, <3>4 DEF Backed, NoNewNeed
  <2>3. i \in 0..(n - 1) \/ i \in n..Len(stack')
    BY <1>1
  <2> QED  BY <2>1, <2>2, <2>3
<1>4. SoundInv'
  <2> SUFFICES ASSUME NEW i \in 1..Len(stack')
               PROVE  Sound(i)'
    BY DEF SoundInv
  <2>1. CASE i \in n..Len(stack')
    BY <1>1, <2>1
  <2>2. CASE i \in 1..(n - 1)
    <3>1. /\ i \in 1..Len(stack) /\ i # Len(stack)
          /\ stack'[i] = stack[i] /\ Sound(i)
      BY <1>1, <2>2 DEF SoundInv
    <3>2. stack[i].at # "remove"
      BY <3>1 DEF SealInv, Sealed, Alone
    <3> QED  BY <3>1, <3>2 DEF Sound
  <2> QED  BY <1>2, <2>1, <2>2
<1> QED  BY <1>3, <1>4

(* Frames of which nothing is to be known.                                   *)
Bland(f) ==
  /\ f.at \notin StillLabels \cup {"remove"}
  /\ f.at = "finally" => Serving(f)

(* Such a frame fits any stack.                                              *)
LEMMA BlandIsSound ==
  ASSUME NEW j, Bland(stack'[j])
  PROVE  Sound(j)' /\ stack'[j].at \notin AwaitLabels
BY DEF Bland, Sound, StillLabels, AwaitLabels, Serving

(* A method goes on with such frames.                                        *)
LEMMA ServeGoesOn ==
  ASSUME TypeOK, SealInv, ServeInv, SoundInv, stack # <<>>,
         Top.at # "settle", terminationStarted => terminationStarted',
         NEW f, NEW g
  PROVE  /\ Proceed(<<>>) /\ NoNewNeed => ServeInv' /\ SoundInv'
         /\ Proceed(<<f>>) /\ Bland(f) /\ (Serving(f) \/ NoNewNeed) =>
              ServeInv' /\ SoundInv'
         /\ /\ Proceed(<<f, g>>) /\ Bland(f) /\ Bland(g)
            /\ Serving(f) \/ Serving(g) \/ NoNewNeed
            => ServeInv' /\ SoundInv'
<1>0. PICK n : n = Len(stack)
  OBVIOUS
<1>1. stack \in Seq(Frames) /\ n \in Nat \ {0}
  BY <1>0, TopIsFrame DEF TypeOK
<1>2. ASSUME Proceed(<<>>), NoNewNeed
      PROVE  ServeInv' /\ SoundInv'
  <2>1. /\ Len(stack') = n - 1 /\ LowerStay
        /\ n..Len(stack') = {}
    BY <1>0, <1>1, <1>2, Goes0 DEF LowerStay
  <2> QED  BY <1>0, <1>1, <1>2, <2>1, ServeGoes
<1>3. ASSUME Proceed(<<f>>), Bland(f), Serving(f) \/ NoNewNeed
      PROVE  ServeInv' /\ SoundInv'
  <2>1. /\ Len(stack') = n /\ stack'[n] = f /\ LowerStay
        /\ n..Len(stack') = {n} /\ n \in 1..Len(stack') /\ n >= n - 1
    BY <1>0, <1>1, <1>3, Goes1 DEF LowerStay
  <2>2. Sound(n)' /\ stack'[n].at \notin AwaitLabels
    BY <1>3, <2>1, BlandIsSound
  <2> QED  BY <1>0, <1>1, <1>3, <2>1, <2>2, ServeGoes
<1>4. ASSUME Proceed(<<f, g>>), Bland(f), Bland(g),
             Serving(f) \/ Serving(g) \/ NoNewNeed
      PROVE  ServeInv' /\ SoundInv'
  <2>1. /\ Len(stack') = n + 1 /\ stack'[n] = f /\ stack'[n + 1] = g
        /\ LowerStay /\ n..Len(stack') = {n, n + 1}
    BY <1>0, <1>1, <1>4, Goes2 DEF LowerStay
  <2>2. /\ Sound(n)' /\ stack'[n].at \notin AwaitLabels
        /\ Sound(n + 1)' /\ stack'[n + 1].at \notin AwaitLabels
    BY <1>4, <2>1, BlandIsSound
  <2>3. /\ n \in 1..Len(stack') /\ n >= n - 1
        /\ n + 1 \in 1..Len(stack') /\ n + 1 >= n - 1
    BY <1>1, <2>1
  <2> QED  BY <1>0, <1>1, <1>4, <2>1, <2>2, <2>3, ServeGoes
<1> QED  BY <1>2, <1>3, <1>4

(* The frame of a pass that ends: in passend what is queued has hope, too.   *)
PassEnd(f) ==
  /\ f.cb = "none"
  /\ f.at = "endpass" \/ (f.at = "passend" /\ Served')

(* A pass ends: there is nothing left to schedule.                           *)
LEMMA PassEnds ==
  ASSUME TypeOK, SealInv, ServeInv, SoundInv, stack # <<>>,
         Top.at # "settle", terminationStarted => terminationStarted',
         Scanned', NEW f, NEW g
  PROVE  /\ Proceed(<<f>>) /\ PassEnd(f) => ServeInv' /\ SoundInv'
         /\ /\ Proceed(<<f, g>>) /\ PassEnd(f)
            /\ g.at = "settle" /\ g.cb = "none"
            => ServeInv' /\ SoundInv'
         /\ /\ Proceed(<<f, g>>) /\ PassEnd(f) /\ Bland(g)
            /\ terminationStarted'
            => ServeInv' /\ SoundInv'
<1>0. PICK n : n = Len(stack)
  OBVIOUS
<1>1. /\ stack \in Seq(Frames) /\ n \in Nat \ {0}
      /\ "none" \notin Reenters
  BY <1>0, TopIsFrame, PoolAssumption DEF TypeOK, Callbacks
<1>5. ASSUME PassEnd(f), stack'[n] = f
      PROVE  NoNewNeed \/ Serving(stack'[n])
  BY <1>5 DEF PassEnd, NoNewNeed, Serving, ServeLabels
<1>2. ASSUME Proceed(<<f>>), PassEnd(f)
      PROVE  ServeInv' /\ SoundInv'
  <2>1. /\ Len(stack') = n /\ stack'[n] = f /\ LowerStay
        /\ n..Len(stack') = {n} /\ n \in 1..Len(stack') /\ n >= n - 1
    BY <1>0, <1>1, <1>2, Goes1 DEF LowerStay
  <2>2. Sound(n)' /\ stack'[n].at \notin AwaitLabels
    BY <1>1, <1>2, <2>1 DEF Sound, PassEnd, AwaitLabels
  <2>3. NoNewNeed \/ Serving(stack'[n])
    BY <1>2, <1>5, <2>1
  <2> QED  BY <1>0, <1>1, <2>1, <2>2, <2>3, ServeGoes
<1>3. ASSUME Proceed(<<f, g>>), PassEnd(f), g.at = "settle", g.cb = "none"
      PROVE  ServeInv' /\ SoundInv'
  <2>1. /\ Len(stack') = n + 1 /\ stack'[n] = f /\ stack'[n + 1] = g
        /\ LowerStay /\ n..Len(stack') = {n, n + 1}
    BY <1>0, <1>1, <1>3, Goes2 DEF LowerStay
  <2>2. Top' = g
    BY <2>1 DEF Top
  <2>3. n = Len(stack') - 1 /\ n \in 1..Len(stack') /\ n >= n - 1
    BY <1>1, <2>1
  <2>4. Sound(n)' /\ stack'[n].at \notin AwaitLabels
    BY <1>1, <1>3, <2>1, <2>2, <2>3 DEF Sound, PassEnd, AwaitLabels
  <2>5. Sound(n + 1)' /\ stack'[n + 1].at \notin AwaitLabels
    BY <1>1, <1>3, <2>1 DEF Sound, PassEnd, AwaitLabels
  <2>6. NoNewNeed \/ Serving(stack'[n])
    BY <1>3, <1>5, <2>1
  <2> QED  BY <1>0, <1>1, <2>1, <2>3, <2>4, <2>5, <2>6, ServeGoes
<1>4. ASSUME Proceed(<<f, g>>), PassEnd(f), Bland(g), terminationStarted'
      PROVE  ServeInv' /\ SoundInv'
  <2>1. /\ Len(stack') = n + 1 /\ stack'[n] = f /\ stack'[n + 1] = g
        /\ LowerStay /\ n..Len(stack') = {n, n + 1}
    BY <1>0, <1>1, <1>4, Goes2 DEF LowerStay
  <2>2. Sound(n)' /\ stack'[n].at \notin AwaitLabels
    BY <1>1, <1>4, <2>1 DEF Sound, PassEnd, AwaitLabels
  <2>3. Sound(n + 1)' /\ stack'[n + 1].at \notin AwaitLabels
    BY <1>4, <2>1, BlandIsSound
  <2>4. NoNewNeed
    BY <1>4 DEF NoNewNeed, Served
  <2> QED  BY <1>0, <1>1, <2>1, <2>2, <2>3, <2>4, ServeGoes
<1> QED  BY <1>2, <1>3, <1>4

(* Of the workers with a free slot one is the least loaded.                  *)
LEMMA SomeLeastLoaded ==
  ASSUME TypeOK, NEW v \in workers, HasSlot(v)
  PROVE  LeastLoaded # {}
<1> DEFINE load(w) == Cardinality(activeTasks[w])
           L == {load(w) : w \in {u \in workers : HasSlot(u)}}
<1>1. \A w \in workers : load(w) \in Nat
  <2> TAKE w \in workers
  <2>1. activeTasks[w] \subseteq Tasks /\ IsFiniteSet(Tasks)
    BY FS_Interval, PoolAssumption DEF TypeOK, Tasks
  <2> QED  BY <2>1, FS_Subset, FS_CardinalityType
<1>2. L \subseteq Nat /\ L # {}
  BY <1>1
<1>3. PICK m \in L : \A k \in L : <<k, m>> \notin OpToRel(<, Nat)
  <2> HIDE DEF L
  <2> QED  BY <1>2, WFMin, NatLessThanWellFounded
<1>4. \A k \in L : m <= k
  <2> SUFFICES ASSUME NEW k \in L, k < m
               PROVE  FALSE
    BY <1>2
  <2> QED  BY <1>2, <1>3 DEF OpToRel
<1>5. PICK w \in workers : HasSlot(w) /\ m = load(w)
  BY <1>3
<1>6. w \in LeastLoaded
  BY <1>4, <1>5 DEF LeastLoaded
<1> QED  BY <1>6

(* A step goes on with code that will schedule.                              *)
ServeAhead ==
  /\ stack # <<>> /\ Top.at # "settle"
  /\ terminationStarted => terminationStarted'
  /\ \/ \E f : Proceed(<<f>>) /\ Bland(f) /\ Serving(f)
     \/ \E f, g : /\ Proceed(<<f, g>>) /\ Bland(f) /\ Bland(g)
                  /\ Serving(f) \/ Serving(g)

(* Such a step keeps the invariants.                                         *)
LEMMA AheadServes ==
  ASSUME TypeOK, SealInv, ServeInv, SoundInv, ServeAhead
  PROVE  ServeInv' /\ SoundInv'
BY ServeGoesOn DEF ServeAhead

(* The frames such steps go on with.                                         *)
LEMMA BlandFrames ==
  ASSUME NEW l, l \notin StillLabels \cup {"remove", "finally"},
         NEW w, NEW t, NEW ts, NEW cb
  PROVE  /\ Bland(At(l)) /\ Bland(On(l, w)) /\ Bland(Yield(cb, At(l)))
         /\ Bland(Yield(cb, On(l, w))) /\ Bland(Yield(cb, For(l, t)))
         /\ Bland(Fail(w, ts))
         /\ l \in ServeLabels =>
              /\ Serving(At(l)) /\ Serving(On(l, w))
              /\ Serving(Yield(cb, At(l))) /\ Serving(Yield(cb, On(l, w)))
              /\ Serving(Yield(cb, For(l, t)))
BY LabelsOf DEF Bland, Serving, StillLabels, AwaitLabels

(* The steps of a pass that go on scheduling.                                *)
LEMMA PassesGoOn ==
  /\ NextStarts => ServeAhead
  /\ NextPass => ServeAhead
  /\ PickNew => ServeAhead
  /\ ConstructThrows => ServeAhead
  /\ GotExpired => ServeAhead
  /\ \A w \in Workers : PickIdle(w) => ServeAhead
  /\ \A w \in Workers : ConstructPartial(w) => ServeAhead
<1>1. ASSUME NEW f, stack # <<>>, Top.at # "settle",
             terminationStarted => terminationStarted',
             Proceed(<<f>>), Bland(f), Serving(f)
      PROVE  ServeAhead
  BY <1>1 DEF ServeAhead
<1>2. /\ Bland(At("loop")) /\ Serving(At("loop"))
      /\ Bland(Yield("event", At("loop")))
      /\ Serving(Yield("event", At("loop")))
      /\ Bland(At("uncreated")) /\ Serving(At("uncreated"))
      /\ Bland(Yield("factory", At("construct")))
      /\ Serving(Yield("factory", At("construct")))
  BY BlandFrames DEF StillLabels, AwaitLabels, ServeLabels
<1>3. ASSUME NEW w
      PROVE  /\ Bland(On("got", w)) /\ Serving(On("got", w))
             /\ Bland(Yield("cleanup", On("discard", w)))
             /\ Serving(Yield("cleanup", On("discard", w)))
  BY BlandFrames DEF StillLabels, AwaitLabels, ServeLabels
<1>4. NextStarts => ServeAhead
  BY <1>1, <1>2 DEF NextStarts, Running, poolVars
<1>5. NextPass => ServeAhead
  BY <1>1, <1>2 DEF NextPass, Running, poolVars
<1>6. PickNew => ServeAhead
  BY <1>1, <1>2 DEF PickNew, Running, poolVars
<1>7. ConstructThrows => ServeAhead
  BY <1>1, <1>2 DEF ConstructThrows, Running, data, poolVars
<1>8. GotExpired => ServeAhead
  BY <1>1, <1>2 DEF GotExpired, Running, poolVars
<1>9. ASSUME NEW w \in Workers, PickIdle(w)
      PROVE  ServeAhead
  BY <1>1, <1>3, <1>9 DEF PickIdle, Running, poolVars
<1>10. ASSUME NEW w \in Workers, ConstructPartial(w)
       PROVE  ServeAhead
  BY <1>1, <1>3, <1>10 DEF ConstructPartial, Running, poolVars
<1> QED  BY <1>4, <1>5, <1>6, <1>7, <1>8, <1>9, <1>10

(* The other steps that go on with code that schedules.                      *)
LEMMA OthersGoOn ==
  ASSUME TypeOK
  PROVE  /\ Discard => ServeAhead
         /\ Uncreated => ServeAhead
         /\ CreatedReady => ServeAhead
         /\ \A late \in BOOLEAN : Dispatch(late) => ServeAhead
         /\ \A t \in Tasks : FailTask(t) => ServeAhead
         /\ TerminatorReturns => ServeAhead
         /\ TerminatorThrows => ServeAhead
         /\ ConfirmedPastDeadline => ServeAhead
<1>1. ASSUME NEW f, stack # <<>>, Top.at # "settle",
             terminationStarted => terminationStarted',
             Proceed(<<f>>), Bland(f), Serving(f)
      PROVE  ServeAhead
  BY <1>1 DEF ServeAhead
<1>2. ASSUME NEW f, NEW g, stack # <<>>, Top.at # "settle",
             terminationStarted => terminationStarted',
             Proceed(<<f, g>>), Bland(f), Bland(g), Serving(f) \/ Serving(g)
      PROVE  ServeAhead
  BY <1>2 DEF ServeAhead
<1>3. ASSUME NEW w, w # NoWorker
      PROVE  Bland(On("finally", w)) /\ Serving(On("finally", w))
  BY <1>3, LabelsOf, FieldsOf
     DEF Bland, Serving, StillLabels, AwaitLabels, ServeLabels
<1>4. /\ Bland(At("stats")) /\ Bland(At("next")) /\ Serving(At("next"))
      /\ Bland(Yield("event", At("next")))
      /\ Serving(Yield("event", At("next")))
      /\ Bland(At("uncreated")) /\ Serving(At("uncreated"))
      /\ Bland(Yield("event", At("loop")))
      /\ Serving(Yield("event", At("loop")))
  BY BlandFrames DEF StillLabels, AwaitLabels, ServeLabels
<1>5. ASSUME Discard
      PROVE  ServeAhead
  <2>1. Bland(On("attempt", Top.w))
    BY BlandFrames DEF StillLabels, AwaitLabels
  <2> QED  BY <1>2, <1>4, <1>5, <2>1 DEF Discard, Running, poolVars
<1>6. ASSUME Uncreated
      PROVE  ServeAhead
  <2> DEFINE f == [At("finally") EXCEPT !.why = "broken"]
  <2>1. f.at = "finally" /\ f.why = "broken"
    BY DEF At
  <2>2. Proceed(<<f>>) \/ \E w \in LeastLoaded : Proceed(<<On("finally", w)>>)
    BY <1>6 DEF Uncreated
  <2> HIDE DEF f
  <2>3. Bland(f) /\ Serving(f)
    BY <2>1 DEF Bland, Serving, StillLabels, AwaitLabels, ServeLabels
  <2>4. \A w \in LeastLoaded : w # NoWorker
    BY PoolAssumption DEF LeastLoaded, TypeOK
  <2>5. /\ stack # <<>> /\ Top.at # "settle"
        /\ terminationStarted' = terminationStarted
    BY <1>6 DEF Uncreated, Running, poolVars
  <2> QED  BY <1>1, <1>3, <2>2, <2>3, <2>4, <2>5
<1>7. ASSUME CreatedReady
      PROVE  ServeAhead
  <2>1. PICK w : w = Top.w /\ w # NoWorker
    BY <1>7, PoolAssumption DEF CreatedReady, TypeOK
  <2> QED  BY <1>1, <1>3, <1>7, <2>1 DEF CreatedReady, Running, poolVars
<1>8. ASSUME NEW late \in BOOLEAN, Dispatch(late)
      PROVE  ServeAhead
  <2>1. PICK t :
          Proceed(IF late
                  THEN <<Yield("event", At("loop")), Fail(Top.w, <<t>>)>>
                  ELSE <<Yield("event", At("loop"))>>)
    BY <1>8 DEF Dispatch
  <2>2. Bland(Fail(Top.w, <<t>>))
    BY LabelsOf DEF Bland, StillLabels, AwaitLabels
  <2>3. /\ stack # <<>> /\ Top.at # "settle"
        /\ terminationStarted' = terminationStarted
    BY <1>8 DEF Dispatch, Running, poolVars
  <2> QED  BY <1>1, <1>2, <1>4, <2>1, <2>2, <2>3
<1>9. ASSUME NEW t \in Tasks, FailTask(t)
      PROVE  ServeAhead
  <2> DEFINE f == Yield(Announce(t), Top)
  <2>1. Running("failing") /\ Proceed(<<f>>)
    BY <1>9 DEF FailTask
  <2>2. f.at = "failing"
    BY <2>1, TopIsFrame DEF Running, Yield, Frames, TypeOK
  <2> HIDE DEF f
  <2>3. Bland(f) /\ Serving(f)
    BY <2>2 DEF Bland, Serving, StillLabels, AwaitLabels, ServeLabels
  <2> QED  BY <1>1, <1>9, <2>1, <2>3 DEF FailTask, Running, poolVars
<1>10. ASSUME TerminatorReturns \/ ConfirmedPastDeadline
       PROVE  ServeAhead
  BY <1>2, <1>4, <1>10
     DEF TerminatorReturns, ConfirmedPastDeadline, StateChange, Running,
         poolVars
<1>11. ASSUME TerminatorThrows
       PROVE  ServeAhead
  BY <1>2, <1>4, <1>11
     DEF TerminatorThrows, FailureReported, Running, poolVars
<1> QED  BY <1>5, <1>6, <1>7, <1>8, <1>9, <1>10, <1>11

(* The step that picks a loaded worker.                                      *)
LEMMA LoadedServes ==
  ASSUME TypeOK, SealInv, ServeInv, SoundInv, PickLoaded
  PROVE  ServeInv' /\ SoundInv'
<1>1. /\ stack # <<>> /\ Top.at # "settle"
      /\ terminationStarted' = terminationStarted
  BY DEF PickLoaded, Running, poolVars
<1>2. ASSUME NEW w \in LeastLoaded, Proceed(<<On("got", w)>>)
      PROVE  ServeInv' /\ SoundInv'
  <2>1. Bland(On("got", w)) /\ Serving(On("got", w))
    BY BlandFrames DEF StillLabels, AwaitLabels, ServeLabels
  <2> QED  BY <1>1, <1>2, <2>1, ServeGoesOn
<1>3. ASSUME LeastLoaded = {}, Proceed(<<At("endpass")>>)
      PROVE  ServeInv' /\ SoundInv'
  <2>1. Full
    BY <1>3, SomeLeastLoaded DEF PickLoaded, Full
  <2>2. Full'
    BY <2>1, FullStays
       DEF PickLoaded, MarkExpired, termVars, Quarantined
  <2>3. PassEnd(At("endpass"))
    BY LabelsOf, FieldsOf DEF PassEnd
  <2> QED  BY <1>1, <1>3, <2>2, <2>3, PassEnds DEF Scanned
<1> QED  BY <1>2, <1>3 DEF PickLoaded

(* The steps that end a pass.                                                *)
LEMMA EndsServe ==
  ASSUME TypeOK, SealInv, ServeInv, SoundInv,
         Loop \/ GotNothing \/ EndPass \/ RejectQueue \/ RejectBacklog
         \/ NextReturns
  PROVE  ServeInv' /\ SoundInv'
<1>1. /\ stack # <<>> /\ Top.at # "settle"
      /\ terminationStarted' = terminationStarted
  BY DEF Loop, GotNothing, EndPass, RejectQueue, RejectBacklog, NextReturns,
         Running, data, poolVars
<1>2. PassEnd(At("endpass")) /\ (Served' => PassEnd(At("passend")))
  BY DEF PassEnd, At
<1>11. Served' => Scanned'
  BY DEF Served, Scanned
<1>0. PICK s : s = SettleEach(queue, "rejected")
  OBVIOUS
<1>10. s.at = "settle" /\ s.cb = "none"
  BY <1>0 DEF SettleEach, At
<1>3. /\ EndPass => Scanned
      /\ NextReturns => Served
  <2>1. Sound(Len(stack)) /\ Top = stack[Len(stack)]
    BY <1>1, TopIsFrame DEF SoundInv, TypeOK
  <2>2. /\ EndPass => Top.at = "endpass"
        /\ NextReturns => Top.at = "passend"
    BY DEF EndPass, NextReturns, Running
  <2> QED  BY <2>1, <2>2 DEF Sound, Served, Scanned
<1>4. ASSUME Loop
      PROVE  ServeInv' /\ SoundInv'
  <2>1. CASE queue = <<>> \/ terminationStarted
    <3>1. Proceed(<<At("endpass")>>)
      BY <1>4, <2>1 DEF Loop
    <3>2. Scanned'
      BY <1>4, <2>1 DEF Loop, Scanned, data, poolVars
    <3> QED  BY <1>1, <1>2, <3>1, <3>2, PassEnds
  <2>2. CASE ~(queue = <<>> \/ terminationStarted)
    <3>1. Bland(At("pick")) /\ Serving(At("pick"))
      BY BlandFrames DEF StillLabels, AwaitLabels, ServeLabels
    <3>2. Proceed(<<At("pick")>>)
      BY <1>4, <2>2 DEF Loop
    <3> QED  BY <1>1, <3>1, <3>2, ServeGoesOn
  <2> QED  BY <2>1, <2>2
<1>5. ASSUME GotNothing
      PROVE  ServeInv' /\ SoundInv'
  BY <1>1, <1>2, <1>5, PassEnds DEF GotNothing, Scanned, data
<1>6. ASSUME EndPass
      PROVE  ServeInv' /\ SoundInv'
  <2>1. /\ workers = {} => Cardinality(workers) = 0
        /\ PhysicalWorkers \in Nat /\ Limit \in Nat
    BY FS_EmptySet, CountsAreNat
  <2>2. Served
    BY <1>3, <1>6, <2>1, PoolAssumption
       DEF EndPass, PermanentlyExhausted, Served, Scanned, Full, Hopeful,
           CanCreate
  <2>3. Served'
    BY <1>6, <2>2, ServedStays
       DEF EndPass, data, poolVars, workerVars, termVars, Quarantined,
           Retryable
  <2> QED  BY <1>1, <1>2, <1>6, <1>11, <2>3, PassEnds DEF EndPass
<1>7. ASSUME RejectQueue
      PROVE  ServeInv' /\ SoundInv'
  <2>1. Proceed(<<At("passend"), s>>)
    BY <1>0, <1>7 DEF RejectQueue
  <2>2. Served'
    BY <1>7 DEF RejectQueue, Served
  <2> QED  BY <1>1, <1>2, <1>10, <1>11, <2>1, <2>2, PassEnds
<1>8. ASSUME RejectBacklog
      PROVE  ServeInv' /\ SoundInv'
  <2>1. Proceed(<<At("endpass"), s>>)
    BY <1>0, <1>8 DEF RejectBacklog
  <2>2. Served'
    BY <1>8 DEF RejectBacklog, Served
  <2> QED  BY <1>1, <1>2, <1>10, <1>11, <2>1, <2>2, PassEnds
<1>9. ASSUME NextReturns
      PROVE  ServeInv' /\ SoundInv'
  <2>1. Served'
    BY <1>3, <1>9, ServedStays
       DEF NextReturns, poolVars, workerVars, termVars, Quarantined, Retryable
  <2> QED  BY <1>1, <1>9, <2>1, ServeGoesOn DEF NextReturns, NoNewNeed
<1> QED  BY <1>4, <1>5, <1>6, <1>7, <1>8, <1>9

(* The end of a creation.                                                    *)
LEMMA FinallyServes ==
  ASSUME TypeOK, SealInv, ServeInv, SoundInv, Finally
  PROVE  ServeInv' /\ SoundInv'
<1>1. /\ stack # <<>> /\ Top.at = "finally" /\ Top.at # "settle"
      /\ terminationStarted' = terminationStarted
  BY DEF Finally, Running, poolVars
<1>2. Serving(Top) \/ terminationStarted
  BY <1>1, TopIsFrame DEF SoundInv, Sound, TypeOK
<1>3. PICK w : w = Top.w
  OBVIOUS
<1> DEFINE b == At("broken")
           e == At("endpass")
           g == On("got", w)
           s == At("stats")
<1>4. /\ Bland(b) /\ Serving(b) /\ Bland(g) /\ Serving(g) /\ Bland(s)
  BY BlandFrames DEF StillLabels, AwaitLabels, ServeLabels
<1>5. PassEnd(e)
  BY LabelsOf, FieldsOf DEF PassEnd
<1>6. \/ Proceed(<<g>>) \/ Proceed(<<g, s>>)
      \/ Proceed(<<b>>) \/ Proceed(<<b, s>>)
      \/ /\ w = NoWorker /\ Top.why # "broken"
         /\ Proceed(<<e>>) \/ Proceed(<<e, s>>)
  BY <1>3 DEF Finally
<1> HIDE DEF b, e, g, s
<1>7. CASE Proceed(<<g>>) \/ Proceed(<<g, s>>)
  BY <1>1, <1>4, <1>7, ServeGoesOn
<1>8. CASE Proceed(<<b>>) \/ Proceed(<<b, s>>)
  BY <1>1, <1>4, <1>8, ServeGoesOn
<1>9. ASSUME w = NoWorker, Top.why # "broken",
             Proceed(<<e>>) \/ Proceed(<<e, s>>)
      PROVE  ServeInv' /\ SoundInv'
  <2>1. terminationStarted' /\ Scanned'
    BY <1>1, <1>2, <1>3, <1>9 DEF Serving, Scanned
  <2> QED  BY <1>1, <1>4, <1>5, <1>9, <2>1, PassEnds
<1> QED  BY <1>6, <1>7, <1>8, <1>9

(* The steps that settle the tasks of an array.                              *)
LEMMA SettlingServes ==
  ASSUME TypeOK, CalmObservers, ServeInv, SoundInv, SettleNext \/ SettleDone
  PROVE  ServeInv' /\ SoundInv'
<1>1. PICK n : n = Len(stack)
  OBVIOUS
<1>2. /\ stack # <<>> /\ stack \in Seq(Frames) /\ n \in Nat \ {0}
      /\ Top = stack[n] /\ Top.at = "settle"
  BY <1>1, TopIsFrame DEF SettleNext, SettleDone, Running, TypeOK
<1>3. /\ UNCHANGED <<terminationStarted, queue, workers, activeTasks, life>>
      /\ marked' = marked /\ Quarantined' = Quarantined
      /\ Retryable' = Retryable
  BY DEF SettleNext, SettleDone, data, poolVars, workerVars, termVars,
         Quarantined, Retryable
<1>4. (Served => Served') /\ (Scanned => Scanned')
  BY <1>3, ServedStays
<1>5. /\ \A i \in 1..(n - 1) : i \in 1..Len(stack') /\ stack'[i] = stack[i]
      /\ \/ Len(stack') = n - 1
         \/ /\ Len(stack') = n /\ stack'[n].at = "settle"
            /\ stack'[n].cb \in {"event", "none"}
  <2>1. CASE SettleNext
    <3> DEFINE t == Head(Top.ts)
               f == Yield(Announce(t), SettleEach(Tail(Top.ts), Top.why))
    <3>1. f.at = "settle" /\ f.cb \in {"event", "none"}
      BY DEF Yield, SettleEach, At, Announce
    <3>2. Proceed(<<f>>)
      BY <2>1 DEF SettleNext
    <3> HIDE DEF f
    <3>3. Len(stack') = n /\ stack'[n] = f
      BY <1>1, <1>2, <3>2, Goes1
    <3>4. \A i \in 1..(n - 1) : stack'[i] = stack[i]
      BY <1>1, <1>2, <3>2, Goes1
    <3> QED  BY <1>2, <3>1, <3>3, <3>4
  <2>2. CASE SettleDone
    BY <1>1, <1>2, <2>2, Goes0 DEF SettleDone
  <2> QED  BY <2>1, <2>2
<1>6. \A i \in 1..Len(stack') :
        \/ i \in 1..(n - 1) /\ i \in 1..Len(stack) /\ stack'[i] = stack[i]
        \/ i = n /\ Len(stack') = n
  BY <1>1, <1>2, <1>5
<1>7. ServeInv'
  <2> SUFFICES ASSUME NEW i \in 0..Len(stack'), Expects(i)'
               PROVE  Backed(i)'
    BY DEF ServeInv
  <2>1. i \in 0..Len(stack) /\ Expects(i)
    BY <1>1, <1>2, <1>5, <1>6 DEF Expects
  <2>2. Backed(i)
    BY <2>1 DEF ServeInv
  <2>3. ASSUME NEW j \in 1..Len(stack), Serving(stack[j])
        PROVE  j \in 1..Len(stack') /\ stack'[j] = stack[j]
    <3>1. j # n
      BY <1>2, <2>3 DEF Serving, ServeLabels
    <3>2. j \in 1..(n - 1)
      BY <1>1, <1>2, <3>1
    <3> QED  BY <1>5, <3>2
  <2> QED  BY <1>4, <2>2, <2>3 DEF Backed
<1>8. ASSUME NEW i \in 1..Len(stack')
      PROVE  Sound(i)'
  <2>1. CASE i = n /\ Len(stack') = n
    BY <1>5, <1>6, <2>1, PoolAssumption
       DEF Sound, StillLabels, AwaitLabels, CalmObservers, Callbacks
  <2>2. CASE i \in 1..(n - 1) /\ i \in 1..Len(stack) /\ stack'[i] = stack[i]
    <3>1. Sound(i) /\ i # Len(stack)
      BY <1>1, <1>2, <2>2 DEF SoundInv
    <3>2. stack[i].at = "remove" /\ i > 1 => stack'[i - 1] = stack[i - 1]
      BY <1>2, <1>5, <2>2
    <3>3. ASSUME stack[i].at \in {"endpass", "passend"}, ~terminationStarted
          PROVE  i = Len(stack') \/ (i = Len(stack') - 1 /\ Top'.at = "settle")
      <4>1. i = n - 1
        BY <1>1, <3>1, <3>3 DEF Sound
      <4> QED  BY <1>2, <1>5, <4>1 DEF Top
    <3> QED  BY <1>3, <1>4, <2>2, <3>1, <3>2, <3>3 DEF Sound
  <2> QED  BY <1>6, <2>1, <2>2
<1> QED  BY <1>7, <1>8 DEF SoundInv

(* The end of run(): above the queue limit the scheduler is to run.          *)
LEMMA ArmingServes ==
  ASSUME TypeOK, SealInv, ServeInv, SoundInv, Arm \/ ArmLate
  PROVE  ServeInv' /\ SoundInv'
<1>1. /\ stack # <<>> /\ Top.at # "settle"
      /\ terminationStarted' = terminationStarted
  BY DEF Arm, ArmLate, Running, poolVars
<1>2. PICK n : n = Len(stack) /\ n \in Nat \ {0}
  BY <1>1, TopIsFrame DEF TypeOK
<1> DEFINE e == For("enforce", Top.ts[1])
           f == At("next")
           s == Yield("event", At("stats"))
<1>0. e.at = "enforce" /\ e.cb = "none"
  BY LabelsOf, FieldsOf
<1>3. Bland(f) /\ Serving(f) /\ Bland(s)
  BY BlandFrames DEF StillLabels, AwaitLabels, ServeLabels
<1>4. Proceed(<<e, f>>) \/ Proceed(<<e, f>> \o <<s>>)
  BY DEF Arm, ArmLate, ScheduleThenEnforce
<1> HIDE DEF e, f, s
<1>5. Proceed(<<e, f>>) \/ Proceed(<<e, f, s>>)
  BY <1>4, Joins
<1>6. /\ LowerStay /\ Len(stack') \in {n + 1, n + 2}
      /\ stack'[n] = e /\ stack'[n + 1] = f
      /\ Len(stack') = n + 2 => stack'[n + 2] = s
  <2>1. CASE Proceed(<<e, f>>)
    <3>1. /\ LowerStay /\ Len(stack') = n + 1
          /\ stack'[n] = e /\ stack'[n + 1] = f
      BY <1>1, <1>2, <2>1, GoesOn
    <3> QED  BY <1>2, <3>1
  <2>2. CASE Proceed(<<e, f, s>>)
    BY <1>1, <1>2, <2>2, GoesOn
  <2> QED  BY <1>5, <2>1, <2>2
<1>7. n + 1 \in 1..Len(stack') /\ n + 1 > n /\ n + 1 >= n - 1
  BY <1>2, <1>6
<1>8. Sound(n)' /\ Backed(n)'
  <2>1. "none" \notin Reenters
    BY PoolAssumption DEF Callbacks
  <2> QED  BY <1>0, <1>3, <1>6, <1>7, <2>1 DEF Sound, Backed
<1>9. Sound(n + 1)' /\ stack'[n + 1].at \notin AwaitLabels
  BY <1>3, <1>6, BlandIsSound
<1>10. Len(stack') = n + 2 =>
         Sound(n + 2)' /\ stack'[n + 2].at \notin AwaitLabels
  BY <1>3, <1>6, BlandIsSound
<1>11. \A j \in n..Len(stack') :
         \/ j = n \/ j = n + 1 \/ (j = n + 2 /\ Len(stack') = n + 2)
  BY <1>2, <1>6
<1>12. \A j \in n..Len(stack') :
         Sound(j)' /\ (stack'[j].at \in AwaitLabels => Backed(j)')
  BY <1>8, <1>9, <1>10, <1>11
<1>13. Serving(stack'[n + 1])
  BY <1>3, <1>6
<1>14. Len(stack') \in Nat /\ n - 1 <= Len(stack')
  BY <1>2, <1>6
<1> QED
  BY <1>1, <1>2, <1>6, <1>7, <1>12, <1>13, <1>14, ServeGoes

(* The queue limit is applied when the scheduler has run, or need not.       *)
LEMMA LimitServes ==
  ASSUME TypeOK, SealInv, ServeInv, SoundInv, EnforceQueueLimit
  PROVE  ServeInv' /\ SoundInv'
<1>1. /\ stack # <<>> /\ Top.at # "settle" /\ ~Serving(Top)
      /\ terminationStarted' = terminationStarted
  BY DEF EnforceQueueLimit, Running, poolVars, Serving, ServeLabels
<1>2. queue = <<>> => queue' = <<>>
  BY PoolAssumption DEF EnforceQueueLimit, Kept
<1>3. NoNewNeed
  BY <1>1, <1>2, ServedStays
     DEF NoNewNeed, EnforceQueueLimit, workerVars, termVars, Quarantined,
         Retryable
<1>4. PICK n : n = Len(stack) /\ n \in Nat \ {0}
  BY <1>1, TopIsFrame DEF TypeOK
<1>5. PICK g : /\ Proceed(<<At("stats"), g>>)
               /\ g.at = "settle" /\ g.cb = "none"
  <2>1. \E ts, why : Proceed(<<At("stats"), SettleEach(ts, why)>>)
    BY DEF EnforceQueueLimit
  <2>2. \A ts, why : /\ SettleEach(ts, why).at = "settle"
                     /\ SettleEach(ts, why).cb = "none"
    BY DEF SettleEach, At
  <2> QED  BY <2>1, <2>2
<1>6. /\ Len(stack') = n + 1 /\ LowerStay
      /\ stack'[n] = At("stats") /\ stack'[n + 1] = g
      /\ n..Len(stack') = {n, n + 1}
  <2>1. PICK s : s = At("stats")
    OBVIOUS
  <2>2. Proceed(<<s, g>>)
    BY <1>5, <2>1
  <2>3. /\ Len(stack') = n + 1 /\ LowerStay
        /\ stack'[n] = s /\ stack'[n + 1] = g
    BY <1>1, <1>4, <2>2, GoesOn
  <2> QED  BY <1>4, <2>1, <2>3
<1>7. Sound(n)' /\ stack'[n].at \notin AwaitLabels
  <2>1. Bland(At("stats"))
    BY BlandFrames DEF StillLabels, AwaitLabels
  <2> QED  BY <1>6, <2>1, BlandIsSound
<1>8. Sound(n + 1)' /\ stack'[n + 1].at \notin AwaitLabels
  <2>1. "none" \notin Reenters
    BY PoolAssumption DEF Callbacks
  <2> QED  BY <1>5, <1>6, <2>1 DEF Sound, AwaitLabels
<1>9. Len(stack') \in Nat /\ n - 1 <= Len(stack')
  BY <1>4, <1>6
<1>10. \A j \in n..Len(stack') :
         Sound(j)' /\ (stack'[j].at \in AwaitLabels => Backed(j)')
  BY <1>6, <1>7, <1>8
<1> QED  BY <1>1, <1>3, <1>4, <1>6, <1>9, <1>10, ServeGoes

(* A nested call of _next() returns at once: the pass it is called in, or    *)
(* the end of the pool, makes up for it.                                     *)
LEMMA SkippingServes ==
  ASSUME TypeOK, SchedulerExclusive, SealInv, ServeInv, SoundInv, NextSkipped
  PROVE  ServeInv' /\ SoundInv'
<1>1. /\ stack # <<>> /\ Top.at = "next" /\ Proceed(<<>>)
      /\ terminationStarted' = terminationStarted
  BY DEF NextSkipped, Running, poolVars
<1>2. PICK n : n = Len(stack) /\ n \in Nat \ {0} /\ Top = stack[n]
  BY <1>1, TopIsFrame DEF TypeOK
<1>3. /\ Len(stack') = n - 1 /\ LowerStay
      /\ \A i \in 1..(n - 1) : i \in 1..Len(stack') /\ stack'[i] = stack[i]
  BY <1>1, <1>2, GoesOn DEF LowerStay
<1>4. CASE terminationStarted
  <2>1. NoNewNeed
    BY <1>1, <1>4 DEF NoNewNeed, Served
  <2> QED  BY <1>1, <2>1, ServeGoesOn
<1>5. CASE ~terminationStarted
  <2>1. PICK i \in 1..Len(stack) : stack[i].at \in SchedLabels
    BY <1>5 DEF NextSkipped, SchedulerExclusive
  <2>2. i # n
    BY <1>1, <1>2, <2>1 DEF SchedLabels, CreateLabels
  <2>3. i \in 1..(n - 1) /\ i \in 1..Len(stack') /\ stack'[i] = stack[i]
    BY <1>2, <1>3, <2>1, <2>2
  <2>4. stack[i].at \notin {"endpass", "passend"}
    BY <1>1, <1>2, <1>5, <2>2, <2>3 DEF SoundInv, Sound
  <2>5. Serving(stack[i])
    BY <1>5, <2>1, <2>4
       DEF SoundInv, Sound, Serving, SchedLabels, CreateLabels, ServeLabels
  <2>6. n..Len(stack') = {} /\ Len(stack') \in Nat /\ n - 1 <= Len(stack')
    BY <1>2, <1>3
  <2> QED  BY <1>1, <1>2, <1>3, <2>1, <2>3, <2>5, <2>6, ServeGoes
<1> QED  BY <1>4, <1>5

(* drain() calls the scheduler before it looks for a stall.                  *)
LEMMA DrainServes ==
  ASSUME TypeOK, ServeInv, SoundInv, Drain
  PROVE  ServeInv' /\ SoundInv'
<1>1. PICK n : n = Len(stack) /\ n \in Nat
  <2>1. stack \in Seq(Frames)
    BY DEF TypeOK
  <2> QED  BY <2>1
<1> DEFINE d == At("drained")
           f == At("next")
<1>2. /\ d.at = "drained" /\ d.cb = "none" /\ d.cb \notin Reenters
      /\ Bland(f) /\ Serving(f)
  <2>1. d.at = "drained" /\ d.cb = "none" /\ f.at = "next"
    BY DEF At
  <2>2. Bland(f)
    BY BlandFrames DEF StillLabels, AwaitLabels
  <2> HIDE DEF d, f
  <2> QED
    BY <2>1, <2>2, PoolAssumption DEF Serving, ServeLabels, Callbacks
<1>3. /\ UserCall(<<d, f>>) /\ (stack = <<>> \/ InCallback)
      /\ UNCHANGED <<terminationStarted, queue, workers, activeTasks, life>>
      /\ UNCHANGED <<marked, tstate>>
  BY DEF Drain, UserCall, workerVars, termVars
<1> HIDE DEF d, f
<1>4. /\ Len(stack') = n + 2
      /\ \A i \in 1..n : i \in 1..Len(stack') /\ stack'[i] = stack[i]
      /\ stack'[n + 1] = d /\ stack'[n + 2] = f
  <2>1. stack \in Seq(Frames)
    BY DEF TypeOK
  <2>2. d \in Frames /\ f \in Frames
    BY PlainAts DEF d, f, PlainFrames
  <2>3. /\ <<d, f>> \in Seq(Frames) /\ Len(<<d, f>>) = 2
        /\ <<d, f>>[1] = d /\ <<d, f>>[2] = f /\ 1..2 = {1, 2}
    BY <2>2
  <2>4. /\ Len(stack') = n + 2
        /\ \A i \in 1..n : stack'[i] = stack[i]
        /\ \A i \in 1..2 : stack'[n + i] = <<d, f>>[i]
    BY <1>1, <1>3, <2>1, <2>3, CallStack
  <2> QED  BY <1>1, <2>3, <2>4
<1>5. /\ n + 2 \in 1..Len(stack') /\ n + 1 < n + 2
      /\ \A i \in 0..n : i < n + 2
      /\ \A i \in 0..Len(stack') : i \in 0..n \/ i \in {n + 1, n + 2}
      /\ \A i \in 1..Len(stack') : i \in 1..n \/ i \in {n + 1, n + 2}
  BY <1>1, <1>4
<1>6. ASSUME NEW i \in 0..Len(stack'), Expects(i)'
      PROVE  Backed(i)'
  <2>1. i # n + 2
    BY <1>1, <1>2, <1>4, <1>6
       DEF Expects, AwaitLabels, Serving, ServeLabels
  <2>2. n + 2 > i
    BY <1>1, <1>5, <2>1
  <2> QED  BY <1>2, <1>4, <1>5, <2>2 DEF Backed
<1>7. (Served => Served') /\ (Scanned => Scanned')
  BY <1>3, ServedStays DEF Quarantined, Retryable
<1>8. ASSUME NEW i \in 1..n
      PROVE  Sound(i)'
  <2>1. Sound(i) /\ i \in 1..Len(stack) /\ stack'[i] = stack[i]
    BY <1>1, <1>4 DEF SoundInv
  <2>2. stack # <<>> /\ Top = stack[n] /\ Sound(n)
    BY <1>1, <2>1, EmptySeq DEF Top, SoundInv
  <2>3. Top.at \notin StillLabels
    BY <1>3, <2>2 DEF InCallback, Sound
  <2>4. stack[i].at \notin {"completed", "created"}
    BY <1>1, <2>1, <2>2, <2>3 DEF Sound, StillLabels
  <2>5. stack[i].at \in {"endpass", "passend"} => terminationStarted
    BY <1>1, <2>1, <2>2, <2>3 DEF Sound, StillLabels
  <2>6. i > 1 => stack'[i - 1] = stack[i - 1]
    BY <1>1, <1>4
  <2> QED  BY <1>3, <2>1, <2>4, <2>5, <2>6 DEF Sound
<1>9. Sound(n + 1)' /\ Sound(n + 2)'
  BY <1>2, <1>4, BlandIsSound DEF Sound
<1> QED  BY <1>5, <1>6, <1>8, <1>9 DEF ServeInv, SoundInv

(* When it has looked for one, there is no need to schedule more.            *)
LEMMA DrainedServes ==
  ASSUME TypeOK, SealInv, ServeInv, SoundInv, Drained
  PROVE  ServeInv' /\ SoundInv'
<1>1. /\ stack # <<>> /\ Top.at = "drained"
      /\ UNCHANGED <<terminationStarted, queue, workers, activeTasks, life>>
      /\ UNCHANGED <<marked, tstate>>
  BY DEF Drained, Running, data, poolVars, workerVars, termVars
<1>2. NoNewNeed
  BY <1>1, ServedStays
     DEF NoNewNeed, Serving, ServeLabels, Quarantined, Retryable
<1> DEFINE s == At("stats")
           t == At("terminate")
<1>3. Bland(s) /\ Bland(t)
  BY BlandFrames DEF StillLabels, AwaitLabels
<1>4. Proceed(<<>>) \/ Proceed(<<s>>) \/ Proceed(<<t>>)
  BY DEF Drained
<1> HIDE DEF s, t
<1> QED  BY <1>1, <1>2, <1>3, <1>4, ServeGoesOn

(* A handler goes on for a managed worker, with the scheduling to come.      *)
LEMMA HandlingServes ==
  ASSUME TypeOK, CalmObservers, SealInv, ServeInv, SoundInv,
         CompleteTask \/ \E w \in Workers : ConstructOk(w)
  PROVE  ServeInv' /\ SoundInv'
<1>1. /\ stack # <<>> /\ Top.at # "settle"
      /\ terminationStarted' = terminationStarted
  BY DEF CompleteTask, ConstructOk, Running, poolVars
<1>2. PICK n : n = Len(stack) /\ n \in Nat \ {0}
  BY <1>1, TopIsFrame DEF TypeOK
<1>3. PICK f : /\ Proceed(<<f>>) /\ f.at \in {"completed", "created"}
               /\ f.cb \in {"event", "none"} /\ f.w \in workers'
  <2>1. CASE CompleteTask
    <3>1. PICK w \in Hosts(Top.ts[1]) :
            Proceed(<<Yield(Announce(Top.ts[1]), On("completed", w))>>)
      BY <2>1 DEF CompleteTask
    <3> DEFINE f == Yield(Announce(Top.ts[1]), On("completed", w))
    <3>2. f.at = "completed" /\ f.cb \in {"event", "none"} /\ f.w = w
      BY DEF Yield, On, At, Announce
    <3>3. w \in workers'
      BY <2>1, <3>1 DEF Hosts, CompleteTask
    <3>4. Proceed(<<f>>)
      BY <3>1
    <3> HIDE DEF f
    <3> QED  BY <3>2, <3>3, <3>4
  <2>2. ASSUME NEW w \in Workers, ConstructOk(w)
        PROVE  \E f : /\ Proceed(<<f>>) /\ f.at \in {"completed", "created"}
                      /\ f.cb \in {"event", "none"} /\ f.w \in workers'
    <3> DEFINE f == Yield("event", On("created", w))
    <3>1. f.at = "created" /\ f.cb = "event" /\ f.w = w
      BY DEF Yield, On, At
    <3>2. Proceed(<<f>>) /\ w \in workers'
      BY <2>2 DEF ConstructOk
    <3> HIDE DEF f
    <3> QED  BY <3>1, <3>2
  <2> QED  BY <2>1, <2>2
<1>4. /\ Len(stack') = n /\ stack'[n] = f /\ LowerStay
  BY <1>1, <1>2, <1>3, GoesOn
<1>5. n..Len(stack') = {n} /\ n \in 1..Len(stack') /\ n >= n - 1
  BY <1>2, <1>4
<1>6. Sound(n)' /\ stack'[n].at \notin AwaitLabels
  <2>1. f.cb \notin Reenters
    BY <1>3, PoolAssumption DEF CalmObservers, Callbacks
  <2> QED  BY <1>3, <1>4, <2>1 DEF Sound, AwaitLabels
<1>7. Serving(stack'[n])
  BY <1>3, <1>4 DEF Serving, ServeLabels
<1> QED  BY <1>1, <1>2, <1>4, <1>5, <1>6, <1>7, ServeGoes

(* A handler ends with the scheduling, and before it with a removal.         *)
LEMMA RetiringServes ==
  ASSUME TypeOK, SealInv, ServeInv, SoundInv, Completed \/ FailureEnds
  PROVE  ServeInv' /\ SoundInv'
<1>1. /\ stack # <<>> /\ Top.at # "settle"
      /\ terminationStarted' = terminationStarted
  BY DEF Completed, FailureEnds, Running, data, poolVars
<1>2. PICK n : n = Len(stack) /\ n \in Nat \ {0} /\ Top = stack[n]
  BY <1>1, TopIsFrame DEF TypeOK
<1>3. PICK w : w = Top.w
  OBVIOUS
<1> DEFINE f == At("stats")
           g == At("next")
<1>4. Bland(f) /\ Bland(g) /\ Serving(g)
  BY BlandFrames DEF StillLabels, AwaitLabels, ServeLabels
<1>0. g.at = "next"
  BY LabelsOf
<1>5. \/ terminationStarted /\ Proceed(<<>>)
      \/ Proceed(<<f, g>> \o <<>>)
      \/ \E how : \/ Proceed(<<f, g, Remove(w, how)>>)
                  \/ Proceed(<<f, g>> \o <<Remove(w, how)>>)
  <2>1. CASE FailureEnds
    BY <1>3, <2>1 DEF FailureEnds
  <2>2. CASE Completed
    <3>1. Top.w \notin workers => terminationStarted
      BY <1>2, <2>2 DEF SoundInv, Sound, Completed, Running
    <3> QED  BY <1>3, <2>2, <3>1 DEF Completed
  <2> QED  BY <2>1, <2>2
<1> HIDE DEF f, g
<1>6. CASE terminationStarted /\ Proceed(<<>>)
  <2>1. NoNewNeed
    BY <1>1, <1>6 DEF NoNewNeed, Served
  <2> QED  BY <1>1, <1>6, <2>1, ServeGoesOn
<1>7. CASE Proceed(<<f, g>> \o <<>>)
  <2>1. Proceed(<<f, g>>)
    BY <1>7, Joins
  <2> QED  BY <1>1, <1>4, <2>1, ServeGoesOn
<1>8. ASSUME NEW r, r.at = "remove",
             Proceed(<<f, g, r>>) \/ Proceed(<<f, g>> \o <<r>>)
      PROVE  ServeInv' /\ SoundInv'
  <2>1. Proceed(<<f, g, r>>)
    BY <1>8, Joins
  <2>2. /\ Len(stack') = n + 2 /\ LowerStay
        /\ stack'[n] = f /\ stack'[n + 1] = g /\ stack'[n + 2] = r
    BY <1>1, <1>2, <2>1, GoesOn
  <2>3. /\ n + 1 \in 1..Len(stack') /\ n + 1 >= n - 1
        /\ n + 2 > 1 /\ (n + 2) - 1 = n + 1
        /\ n..Len(stack') = {n, n + 1, n + 2}
    BY <1>2, <2>2
  <2>4. /\ Sound(n)' /\ stack'[n].at \notin AwaitLabels
        /\ Sound(n + 1)' /\ stack'[n + 1].at \notin AwaitLabels
    BY <1>4, <2>2, BlandIsSound
  <2>5. Sound(n + 2)' /\ stack'[n + 2].at \notin AwaitLabels
    BY <1>0, <1>8, <2>2, <2>3 DEF Sound, StillLabels, AwaitLabels
  <2>6. Serving(stack'[n + 1])
    BY <1>4, <2>2
  <2>7. Len(stack') \in Nat /\ n - 1 <= Len(stack')
    BY <1>2, <2>2
  <2> QED
    BY <1>1, <1>2, <2>2, <2>3, <2>4, <2>5, <2>6, <2>7, ServeGoes
<1>9. \A how : Remove(w, how).at = "remove"
  BY LabelsOf
<1> QED  BY <1>5, <1>6, <1>7, <1>8, <1>9

(* The removal of a worker may make room for another one: then the scheduler *)
(* is to run.                                                                *)
LEMMA RemovalServes ==
  ASSUME TypeOK, SealInv, ServeInv, SoundInv, RemoveWorker
  PROVE  ServeInv' /\ SoundInv'
<1>1. /\ stack # <<>> /\ Top.at = "remove"
      /\ terminationStarted' = terminationStarted
  BY DEF RemoveWorker, Running, poolVars
<1>2. PICK n : n = Len(stack) /\ n \in Nat \ {0} /\ Top = stack[n]
  BY <1>1, TopIsFrame DEF TypeOK
<1>3. PICK f : Proceed(<<f>>) /\ Bland(f)
  <2>1. Bland(Yield("event", On("attempt", Top.w)))
    BY BlandFrames DEF StillLabels, AwaitLabels
  <2> QED  BY <2>1 DEF RemoveWorker
<1>4. CASE terminationStarted
  <2>1. NoNewNeed
    BY <1>1, <1>4 DEF NoNewNeed, Served
  <2> QED  BY <1>1, <1>3, <2>1, ServeGoesOn
<1>5. CASE ~terminationStarted
  <2>1. n > 1 /\ stack[n - 1].at = "next"
    BY <1>1, <1>2, <1>5 DEF SoundInv, Sound
  <2>2. /\ Len(stack') = n /\ stack'[n] = f /\ LowerStay
    BY <1>1, <1>2, <1>3, GoesOn
  <2>3. /\ n..Len(stack') = {n} /\ n - 1 \in 1..Len(stack')
        /\ n - 1 \in 1..(Len(stack) - 1) /\ n - 1 >= n - 1
    BY <1>2, <2>1, <2>2
  <2>4. Sound(n)' /\ stack'[n].at \notin AwaitLabels
    BY <1>3, <2>2, BlandIsSound
  <2>5. Serving(stack'[n - 1])
    BY <2>1, <2>2, <2>3 DEF LowerStay, Serving, ServeLabels
  <2> QED  BY <1>1, <1>2, <2>2, <2>3, <2>4, <2>5, ServeGoes
<1> QED  BY <1>4, <1>5

(* The steps of a closed pool, or of the one that closes it.                 *)
LEMMA ClosingServes ==
  ASSUME TypeOK, EndFrames, SealInv, ServeInv, SoundInv,
         \/ CreatedTooLate \/ TerminateAll \/ TerminateWorker
         \/ \E t \in Tasks : TerminateTask(t)
  PROVE  ServeInv' /\ SoundInv'
<1>1. /\ stack # <<>> /\ Top.at # "settle"
      /\ terminationStarted => terminationStarted'
  <2>1. CASE TerminateAll
    BY <2>1 DEF TerminateAll, Running
  <2>2. CASE CreatedTooLate \/ TerminateWorker
    BY <2>2 DEF CreatedTooLate, TerminateWorker, Running, data, poolVars
  <2>3. CASE \E t \in Tasks : TerminateTask(t)
    BY <2>3 DEF TerminateTask, Running, poolVars
  <2> QED  BY <2>1, <2>2, <2>3
<1>2. PICK n : n = Len(stack) /\ n \in Nat \ {0} /\ Top = stack[n]
  BY <1>1, TopIsFrame DEF TypeOK
<1>3. terminationStarted'
  <2>1. CASE CreatedTooLate
    BY <1>2, <2>1
       DEF CreatedTooLate, Running, SoundInv, Sound, data, poolVars
  <2>2. CASE TerminateWorker \/ \E t \in Tasks : TerminateTask(t)
    <3>1. Top.at = "termtasks"
      BY <2>2 DEF TerminateWorker, TerminateTask, Running
    <3> QED  BY <1>1, <1>2, <3>1 DEF EndFrames
  <2>3. CASE TerminateAll
    BY <2>3 DEF TerminateAll
  <2> QED  BY <2>1, <2>2, <2>3
<1>4. ASSUME NEW i, stack'[i].cb \notin Reenters \/
                    stack'[i].at \notin StillLabels,
             stack'[i].at \notin {"enforce", "drained", "completed", "created"}
      PROVE  Sound(i)' /\ (stack'[i].at \in AwaitLabels => Backed(i)')
  BY <1>3, <1>4 DEF Sound, AwaitLabels
<1>5. NoNewNeed
  BY <1>3 DEF NoNewNeed, Served
<1>6. "none" \notin Reenters
  BY PoolAssumption DEF Callbacks
<1>7. ASSUME NEW f, Proceed(<<f>>),
             f.at \notin StillLabels
      PROVE  ServeInv' /\ SoundInv'
  <2>0. /\ Len(stack') = n /\ stack'[n] = f /\ LowerStay
    BY <1>1, <1>2, <1>7, GoesOn
  <2>1. /\ Len(stack') = n /\ stack'[n] = f /\ LowerStay
        /\ n..Len(stack') = {n}
    BY <1>2, <2>0
  <2>2. \A j \in n..Len(stack') :
          Sound(j)' /\ (stack'[j].at \in AwaitLabels => Backed(j)')
    BY <1>4, <1>7, <2>1 DEF StillLabels, AwaitLabels
  <2>3. Len(stack') \in Nat /\ n - 1 <= Len(stack')
    BY <1>2, <2>1
  <2> QED  BY <1>1, <1>2, <1>5, <2>1, <2>2, <2>3, ServeGoes
<1>8. ASSUME NEW f, NEW g, Proceed(<<f, g>>),
             f.at \notin StillLabels,
             g.at \notin StillLabels \/ (g.at = "settle" /\ g.cb = "none")
      PROVE  ServeInv' /\ SoundInv'
  <2>1. /\ Len(stack') = n + 1 /\ LowerStay
        /\ stack'[n] = f /\ stack'[n + 1] = g
    BY <1>1, <1>2, <1>8, GoesOn
  <2>2. n..Len(stack') = {n, n + 1}
    BY <1>2, <2>1
  <2>3. \A j \in n..Len(stack') :
          Sound(j)' /\ (stack'[j].at \in AwaitLabels => Backed(j)')
    BY <1>4, <1>6, <1>8, <2>1, <2>2 DEF StillLabels, AwaitLabels
  <2>4. Len(stack') \in Nat /\ n - 1 <= Len(stack')
    BY <1>2, <2>1
  <2> QED  BY <1>1, <1>2, <1>5, <2>1, <2>3, <2>4, ServeGoes
<1>9. CASE CreatedTooLate
  <2> DEFINE f == At("finally")
             g == Remove(Top.w, "force")
  <2>1. f.at \notin StillLabels /\ g.at \notin StillLabels
    BY LabelsOf DEF StillLabels, AwaitLabels
  <2>2. Proceed(<<f, g>>)
    BY <1>9 DEF CreatedTooLate
  <2> HIDE DEF f, g
  <2> QED  BY <1>8, <2>1, <2>2
<1>10. CASE TerminateAll
  <2> DEFINE f == At("termworkers")
             g == SettleEach(queue, "pool-closed")
  <2>1. f.at \notin StillLabels
    BY LabelsOf DEF StillLabels, AwaitLabels
  <2>2. g.at = "settle" /\ g.cb = "none"
    BY DEF SettleEach, At
  <2>3. Proceed(<<f, g>>)
    BY <1>10 DEF TerminateAll
  <2> HIDE DEF f, g
  <2> QED  BY <1>8, <2>1, <2>2, <2>3
<1>11. CASE TerminateWorker
  <2> DEFINE f == Remove(Top.w, "force")
  <2>1. f.at \notin StillLabels
    BY LabelsOf DEF StillLabels, AwaitLabels
  <2>2. Proceed(<<f>>)
    BY <1>11 DEF TerminateWorker
  <2> HIDE DEF f
  <2> QED  BY <1>7, <2>1, <2>2
<1>12. ASSUME NEW t \in Tasks, TerminateTask(t)
       PROVE  ServeInv' /\ SoundInv'
  <2> DEFINE f == Yield(Announce(t), Top)
  <2>1. Running("termtasks") /\ Proceed(<<f>>)
    BY <1>12 DEF TerminateTask
  <2>2. f.at = "termtasks"
    BY <2>1, TopIsFrame DEF Running, Yield, Frames, TypeOK
  <2> HIDE DEF f
  <2> QED  BY <1>7, <2>1, <2>2 DEF StillLabels, AwaitLabels
<1> QED  BY <1>9, <1>10, <1>11, <1>12

(* A submission goes on, unless its task has settled in the meantime.        *)
LEMMA InsertServes ==
  ASSUME TypeOK, SealInv, ServeInv, SoundInv, Insert
  PROVE  ServeInv' /\ SoundInv'
<1>1. /\ stack # <<>> /\ Top.at = "insert"
      /\ terminationStarted' = terminationStarted
  BY DEF Insert, Running, poolVars
<1>2. PICK f : /\ Bland(f) /\ Serving(f)
               /\ Proceed(<<f>>) \/ (Proceed(<<>>) /\ queue' = queue)
  <2>1. /\ Bland(Yield("event", For("arm", Top.ts[1])))
        /\ Serving(Yield("event", For("arm", Top.ts[1])))
    BY BlandFrames DEF StillLabels, AwaitLabels, ServeLabels
  <2> QED  BY <2>1 DEF Insert
<1>3. CASE Proceed(<<f>>)
  BY <1>1, <1>2, <1>3, ServeGoesOn
<1>4. CASE Proceed(<<>>) /\ queue' = queue
  <2>1. NoNewNeed
    BY <1>1, <1>4, ServedStays
       DEF NoNewNeed, Serving, ServeLabels, Insert, workerVars, termVars,
           Quarantined, Retryable
  <2> QED  BY <1>1, <1>4, <2>1, ServeGoesOn
<1> QED  BY <1>2, <1>3, <1>4

(* What the event loop starts on these stacks goes on to schedule.           *)
LEMMA EventsServe ==
  ASSUME \/ \E w \in Workers :
              \/ PromiseConfirms(w) \/ PromiseConfirmsPastDeadline(w)
              \/ PromiseRejects(w) \/ AttemptTimer(w) \/ LateConfirm(w)
              \/ IdleTimer(w)
  PROVE  ServeInv' /\ SoundInv'
<1> DEFINE f == At("stats")
           g == At("next")
           h == Yield("event", At("next"))
<1>1. /\ Bland(f) /\ Bland(g) /\ Bland(h) /\ Serving(g) /\ Serving(h)
  BY BlandFrames DEF StillLabels, AwaitLabels, ServeLabels
<1>0. g.at = "next"
  BY LabelsOf
<1>2. \/ stack' = <<f, g>> \/ stack' = <<f, h>>
      \/ \E w : \/ stack' = <<On("confirmed", w)>> \o <<f, h>>
                \/ stack' = <<f, g>> \o <<Remove(w, "soft")>>
  BY DEF PromiseConfirms, PromiseConfirmsPastDeadline, PromiseRejects,
         AttemptTimer, LateConfirm, IdleTimer, EventLoop, StateChange,
         FailureReported
<1> HIDE DEF f, g, h
<1>3. ASSUME NEW n \in Nat, Len(stack') = n, NEW k \in 1..n,
             Serving(stack'[k]),
             \A i \in 1..n : Sound(i)' /\ stack'[i].at \notin AwaitLabels
      PROVE  ServeInv' /\ SoundInv'
  <2>1. SoundInv'
    BY <1>3 DEF SoundInv
  <2>2. ASSUME NEW i \in 0..Len(stack'), Expects(i)'
        PROVE  Backed(i)'
    <3>1. i = 0 /\ k > i
      BY <1>3, <2>2 DEF Expects
    <3> QED  BY <1>3, <3>1 DEF Backed
  <2> QED  BY <2>1, <2>2 DEF ServeInv
<1>4. ASSUME NEW u, Serving(u), Bland(u), stack' = <<f, u>>
      PROVE  ServeInv' /\ SoundInv'
  <2>1. /\ Len(stack') = 2 /\ 2 \in 1..2 /\ 2 \in Nat
        /\ stack'[1] = f /\ stack'[2] = u /\ 1..2 = {1, 2}
    BY <1>4
  <2>2. \A i \in 1..2 : Sound(i)' /\ stack'[i].at \notin AwaitLabels
    BY <1>1, <1>4, <2>1, BlandIsSound
  <2> QED  BY <1>3, <1>4, <2>1, <2>2
<1>5. ASSUME NEW w, stack' = <<On("confirmed", w)>> \o <<f, h>>
      PROVE  ServeInv' /\ SoundInv'
  <2>1. PICK c : c = On("confirmed", w) /\ Bland(c)
    BY BlandFrames DEF StillLabels, AwaitLabels
  <2>2. stack' = <<c, f, h>>
    BY <1>5, <2>1, Joins
  <2>3. /\ Len(stack') = 3 /\ 3 \in 1..3 /\ 3 \in Nat
        /\ stack'[1] = c /\ stack'[2] = f /\ stack'[3] = h
        /\ 1..3 = {1, 2, 3}
    BY <2>2
  <2>4. \A i \in 1..3 : Sound(i)' /\ stack'[i].at \notin AwaitLabels
    BY <1>1, <2>1, <2>3, BlandIsSound
  <2> QED  BY <1>1, <1>3, <2>3, <2>4
<1>6. ASSUME NEW w, stack' = <<f, g>> \o <<Remove(w, "soft")>>
      PROVE  ServeInv' /\ SoundInv'
  <2>1. PICK r : r = Remove(w, "soft") /\ r.at = "remove"
    BY LabelsOf
  <2>2. stack' = <<f, g, r>>
    BY <1>6, <2>1, Joins
  <2>3. /\ Len(stack') = 3 /\ 2 \in 1..3 /\ 3 \in Nat
        /\ stack'[1] = f /\ stack'[2] = g /\ stack'[3] = r
        /\ 1..3 = {1, 2, 3} /\ 3 > 1 /\ 3 - 1 = 2
    BY <2>2
  <2>4. \A i \in {1, 2} : Sound(i)' /\ stack'[i].at \notin AwaitLabels
    BY <1>1, <2>3, BlandIsSound
  <2>5. Sound(3)' /\ stack'[3].at \notin AwaitLabels
    BY <1>0, <2>1, <2>3 DEF Sound, StillLabels, AwaitLabels
  <2> QED  BY <1>1, <1>3, <2>3, <2>4, <2>5
<1> QED  BY <1>1, <1>2, <1>4, <1>5, <1>6

(* The steps that leave room, queue a task or do the scheduling.             *)
ServeStep ==
  \/ SettleNext \/ SettleDone
  \/ Insert \/ Arm \/ ArmLate \/ EnforceQueueLimit
  \/ NextSkipped \/ NextStarts \/ Loop \/ EndPass \/ RejectQueue
  \/ NextPass \/ NextReturns \/ RejectBacklog
  \/ \E w \in Workers : PickIdle(w) \/ PickExpired(w)
  \/ PickNew \/ PickLoaded
  \/ \E w \in Workers : ConstructOk(w) \/ ConstructPartial(w)
  \/ ConstructThrows \/ Discard \/ Uncreated
  \/ CreatedReady \/ CreatedExpired \/ CreatedTooLate \/ Finally
  \/ GotNothing \/ GotExpired \/ \E late \in BOOLEAN : Dispatch(late)
  \/ CompleteTask \/ Completed
  \/ (\E t \in Tasks : FailTask(t)) \/ FailureEnds \/ RemoveWorker
  \/ TerminatorReturns \/ TerminatorThrows \/ ConfirmedPastDeadline
  \/ Drain \/ Drained
  \/ TerminateAll \/ (\E t \in Tasks : TerminateTask(t)) \/ TerminateWorker
  \/ \E w \in Workers :
       \/ PromiseConfirms(w) \/ PromiseConfirmsPastDeadline(w)
       \/ PromiseRejects(w) \/ AttemptTimer(w) \/ LateConfirm(w)
       \/ IdleTimer(w) \/ LifetimeTimer(w)

(* The other steps schedule nothing.                                         *)
LEMMA ServeSteps ==
  ASSUME TypeOK, Next
  PROVE  ServeStep \/ ServeQuiet \/ UNCHANGED vars
<1>1. ASSUME Code
      PROVE  ServeStep \/ ServeQuiet
  BY <1>1, CallsSchedulesNone, TerminationSchedulesNone,
     ShutdownSchedulesNone, OthersScheduleNone
     DEF Code, ServeStep
<1>2. ASSUME Faults \/ User
      PROVE  ServeStep \/ ServeQuiet
  BY <1>2, SubmissionSchedulesNone, CallsSchedulesNone,
     ShutdownSchedulesNone, OthersScheduleNone
     DEF Faults, User, ServeStep
<1>3. ASSUME World
      PROVE  ServeStep \/ ServeQuiet
  BY <1>3, CallsSchedulesNone DEF World, ServeStep
<1>4. ASSUME NEW t \in Tasks, TaskTimers(t)
      PROVE  ServeStep \/ ServeQuiet
  BY <1>4, CallsSchedulesNone, OthersScheduleNone DEF TaskTimers
<1>5. ASSUME NEW w \in Workers, WorkerTimers(w)
      PROVE  ServeStep \/ ServeQuiet
  BY <1>5, OthersScheduleNone DEF WorkerTimers, ServeStep
<1> QED
  BY <1>1, <1>2, <1>3, <1>4, <1>5, ShutdownSchedulesNone DEF Next, Finished

(* Every step keeps the two invariants.                                      *)
LEMMA NextServes ==
  ASSUME CalmObservers, ~Lifetime, TypeOK, SchedulerExclusive, EndFrames,
         Young, SealInv, ServeInv, SoundInv, [Next]_vars
  PROVE  ServeInv' /\ SoundInv'
<1>1. UNCHANGED vars => ServeInv' /\ SoundInv'
  <2> SUFFICES ASSUME UNCHANGED vars
               PROVE  ServeInv' /\ SoundInv'
    OBVIOUS
  <2>1. /\ UNCHANGED <<terminationStarted, queue, workers, activeTasks, life>>
        /\ UNCHANGED <<marked, tstate, stack>>
    BY DEF vars, data, poolVars, workerVars, termVars
  <2>2. (Served' = Served) /\ (Scanned' = Scanned)
    BY <2>1 DEF Served, Scanned, Full, Hopeful, CanCreate, HasSlot, Expired,
                PhysicalWorkers, Quarantined, Retryable
  <2>3. ServeInv'
    BY <2>1, <2>2 DEF ServeInv, Expects, Backed
  <2>4. SoundInv'
    BY <2>1, <2>2 DEF SoundInv, Sound, Top
  <2> QED  BY <2>3, <2>4
<1>2. ASSUME ServeStep
      PROVE  ServeInv' /\ SoundInv'
  <2>1. \A w \in Workers : ~Expired(w)
    BY DEF Young, Expired
  <2>2. /\ ~CreatedExpired
        /\ \A w \in Workers : ~PickExpired(w) /\ ~LifetimeTimer(w)
    BY <2>1 DEF CreatedExpired, PickExpired, LifetimeTimer, Expired, TypeOK
  <2>3. ServeAhead => ServeInv' /\ SoundInv'
    BY AheadServes
  <2> QED
    BY <1>2, <2>2, <2>3, PassesGoOn, OthersGoOn, LoadedServes, EndsServe,
       FinallyServes, SettlingServes, ArmingServes, LimitServes,
       SkippingServes, HandlingServes, RetiringServes, RemovalServes,
       DrainServes, DrainedServes, ClosingServes, InsertServes, EventsServe
       DEF ServeStep
<1> QED  BY <1>1, <1>2, ServeSteps, QuietServes

(* The two invariants hold in every reachable state.                         *)
LEMMA ServingHolds ==
  ASSUME CalmObservers, ~Lifetime
  PROVE  Spec => [](ServeInv /\ SoundInv)
<1>1. Init => ServeInv /\ SoundInv
  BY DEF Init, ServeInv, SoundInv, Backed, Served
<1>2. ASSUME TypeOK, SchedulerExclusive, Closing /\ EndFrames, Young, SealInv,
             ServeInv /\ SoundInv, [Next]_vars
      PROVE  (ServeInv /\ SoundInv)'
  BY <1>2, NextServes
<1>3. Spec => []SealInv
  BY SealsHold DEF CalmObservers
<1> QED
  BY <1>1, <1>2, <1>3, TypeCorrect, SchedulingNeverNests, ClosedPoolSheds,
     WorkersStayYoung, PTL
     DEF Spec

(* No handler forgets to schedule: when the event loop is reached, no free   *)
(* slot and no worker that could be created is left unused while tasks of an *)
(* open pool are queued. Lifecycle observers do not call the pool, though    *)
(* factories, terminators and methods may; with observers that do, a pass    *)
(* may be given up while it can still be served.                             *)
THEOREM SlotsAreNotWasted ==
  ASSUME CalmObservers, ~Lifetime
  PROVE  Spec => []WorkConserving
<1>1. ServeInv /\ SoundInv => WorkConserving
  <2> SUFFICES ASSUME ServeInv, stack = <<>>, ~Served
               PROVE  FALSE
    BY DEF WorkConserving, AtRest, Served, Full
  <2>1. Backed(0)
    BY DEF ServeInv, Expects
  <2> QED  BY <2>1 DEF Backed
<1> QED  BY <1>1, ServingHolds, PTL

(* A drain that has tasks left to run never waits for nothing: when the      *)
(* event loop is reached there is a managed worker, or a quarantined one     *)
(* whose termination is still tried, and its end schedules again.            *)
THEOREM DrainsAreTriggered ==
  ASSUME CalmObservers, ~Lifetime
  PROVE  Spec => []DrainHasTrigger
<1>1. TaskInv /\ ServeInv /\ SoundInv => DrainHasTrigger
  <2> SUFFICES ASSUME TaskInv, ServeInv, stack = <<>>, drainRequested,
                      queue # <<>>
               PROVE  Hopeful
    BY DEF DrainHasTrigger, AtRest, Hopeful
  <2>1. ~terminationStarted
    BY DEF TaskInv, Doors
  <2>2. Backed(0)
    BY DEF ServeInv, Expects
  <2> QED  BY <2>1, <2>2 DEF Backed, Served
<1> QED  BY <1>1, ServingHolds, TaskInvariance, PTL

(* A task is evicted only when every slot is taken and no worker can be      *)
(* added, unless an observer of a scheduling pass has submitted it.          *)
THEOREM EvictionNeedsFullPool ==
  ASSUME CalmObservers, ~Lifetime
  PROVE  Spec => EvictsOnlyWhenFull
<1>1. ASSUME TypeOK, SchedulerExclusive, HandsInv /\ ClosedEmpty,
             ServeInv /\ SoundInv, [Next]_vars
      PROVE  [Running("enforce") /\ ~scheduling /\ queue' # queue =>
                ~CanCreate /\ \A w \in workers : ~HasSlot(w)]_vars
  <2> SUFFICES ASSUME Running("enforce"), ~scheduling, queue' # queue
               PROVE  Full
    BY DEF Full
  <2>1. /\ stack # <<>> /\ Top.at = "enforce" /\ Len(stack) \in 1..Len(stack)
        /\ Top = stack[Len(stack)] /\ Len(stack) \in Nat
    BY <1>1, TopIsFrame DEF Running, TypeOK
  <2>2. ~InCallback
    BY <1>1, <2>1 DEF SoundInv, Sound, StillLabels, AwaitLabels, InCallback
  <2>3. BacklogStep
    BY <1>1, BacklogSteps DEF BacklogQuiet
  <2>4. EnforceQueueLimit
    BY <2>1, <2>2, <2>3
       DEF BacklogStep, Insert, Arm, ArmLate, GotExpired, RejectQueue,
           RejectBacklog, TerminateAll, Dispatch, Abort, QueueTimer, Running,
           UserCall, EventLoop
  <2>5. queue # <<>>
    BY <2>4, PoolAssumption DEF EnforceQueueLimit, Kept
  <2>6. ~terminationStarted
    BY <1>1, <2>5 DEF ClosedEmpty
  <2>7. Backed(Len(stack))
    BY <1>1, <2>1 DEF ServeInv, Expects, AwaitLabels
  <2>8. \A j \in 1..Len(stack) :
          ~(j > Len(stack)) /\ stack[j].at \notin SchedLabels
    BY <1>1, <2>1 DEF SchedulerExclusive
  <2>9. Served
    BY <2>7, <2>8 DEF Backed
  <2> QED  BY <2>5, <2>6, <2>9 DEF Served
<1>2. Spec => [](HandsInv /\ ClosedEmpty)
  BY HandsHold DEF CalmObservers
<1> QED
  BY <1>1, <1>2, ServingHolds, TypeCorrect, SchedulingNeverNests, PTL
     DEF Spec, EvictsOnlyWhenFull

-----------------------------------------------------------------------------
(* The frames that run next: settling loops and terminateAll().              *)

(* Every accepted task has settled.                                          *)
AllSettled == \A t \in Tasks : ~Pending(t)

(* The frames that nothing interrupts: they run next.                        *)
LastLabels == {"settle", "terminate"}

(* What such a frame, and that of drain(), can count on: terminateAll() is   *)
(* called by close(), or when there is nothing left to settle, and drain()   *)
(* is called by a handler or by a callback that may call the pool.           *)
Last(i) ==
  /\ stack[i].at \in LastLabels =>
       i = Len(stack) /\ stack[i].cb \notin Reenters
  /\ stack[i].at = "terminate" => closeCalled \/ AllSettled
  /\ stack[i].at = "drained" => i = 1 \/ stack[i - 1].cb \in Reenters

(* The inductive invariant of these frames.                                  *)
LastInv == \A i \in 1..Len(stack) : Last(i)

(* A step that opens and ends none of them.                                  *)
EndQuiet ==
  /\ Avoids(LastLabels \cup {"drained"}) /\ LowerStay
  /\ stack = <<>> \/ InCallback \/ Top.at \notin LastLabels
  /\ closeCalled' = closeCalled

(* The steps of a submission: those listed leave these frames alone.         *)
LEMMA SubmissionEndsNone ==
  ASSUME TypeOK
  PROVE  /\ \A p, timed : Run(p, timed) => EndQuiet
         /\ Insert => EndQuiet
         /\ SignalThrows => EndQuiet
         /\ Arm => EndQuiet
         /\ ArmLate => EndQuiet
         /\ \A t \in Tasks : Abort(t) => EndQuiet
         /\ \A t \in Tasks : QueueTimer(t) => EndQuiet
<1> USE DEF poolVars, taskVars, settleVars, workerVars, schedVars, termVars,
            data, EndQuiet, Moves, Avoids, LastLabels, Running, UserCall,
            InCallback, EventLoop, TimersMayFire
<1>1. \A p, timed : Run(p, timed) => EndQuiet
  BY SubmissionMoves DEF Run
<1>2. Insert => EndQuiet
  BY SubmissionMoves DEF Insert
<1>3. SignalThrows => EndQuiet
  BY SubmissionMoves DEF SignalThrows
<1>4. Arm => EndQuiet
  BY SubmissionMoves DEF Arm
<1>5. ArmLate => EndQuiet
  BY SubmissionMoves DEF ArmLate
<1>6. \A t \in Tasks : Abort(t) => EndQuiet
  BY SubmissionMoves DEF Abort
<1>7. \A t \in Tasks : QueueTimer(t) => EndQuiet
  BY SubmissionMoves DEF QueueTimer
<1> QED  BY <1>1, <1>2, <1>3, <1>4, <1>5, <1>6, <1>7

(* The steps of the scheduling pass: those listed leave these frames alone.  *)
LEMMA SchedulingEndsNone ==
  ASSUME TypeOK
  PROVE  /\ NextSkipped => EndQuiet
         /\ NextStarts => EndQuiet
         /\ Loop => EndQuiet
         /\ EndPass => EndQuiet
         /\ NextPass => EndQuiet
         /\ NextReturns => EndQuiet
         /\ \A w \in Workers : PickIdle(w) => EndQuiet
         /\ \A w \in Workers : PickExpired(w) => EndQuiet
         /\ PickNew => EndQuiet
         /\ PickLoaded => EndQuiet
<1> USE DEF poolVars, taskVars, settleVars, workerVars, schedVars, termVars,
            data, EndQuiet, Moves, Avoids, LastLabels, Running, UserCall,
            InCallback, EventLoop, TimersMayFire
<1>1. NextSkipped => EndQuiet
  BY SchedulingMoves DEF NextSkipped
<1>2. NextStarts => EndQuiet
  BY SchedulingMoves DEF NextStarts
<1>3. Loop => EndQuiet
  BY SchedulingMoves DEF Loop
<1>4. EndPass => EndQuiet
  BY SchedulingMoves DEF EndPass
<1>5. NextPass => EndQuiet
  BY SchedulingMoves DEF NextPass
<1>6. NextReturns => EndQuiet
  BY SchedulingMoves DEF NextReturns
<1>7. \A w \in Workers : PickIdle(w) => EndQuiet
  BY SchedulingMoves DEF PickIdle
<1>8. \A w \in Workers : PickExpired(w) => EndQuiet
  BY SchedulingMoves DEF PickExpired
<1>9. PickNew => EndQuiet
  BY SchedulingMoves DEF PickNew
<1>10. PickLoaded => EndQuiet
  BY SchedulingMoves DEF PickLoaded
<1> QED  BY <1>1, <1>2, <1>3, <1>4, <1>5, <1>6, <1>7, <1>8, <1>9, <1>10

(* The steps that find or make a worker leave these frames alone.            *)
LEMMA CreationEndsNone ==
  ASSUME TypeOK
  PROVE  /\ \A w \in Workers : ConstructOk(w) => EndQuiet
         /\ \A w \in Workers : ConstructPartial(w) => EndQuiet
         /\ ConstructThrows => EndQuiet
         /\ Discard => EndQuiet
         /\ Uncreated => EndQuiet
         /\ CreatedReady => EndQuiet
         /\ CreatedExpired => EndQuiet
         /\ CreatedTooLate => EndQuiet
         /\ Finally => EndQuiet
         /\ GotNothing => EndQuiet
         /\ GotExpired => EndQuiet
         /\ \A late : Dispatch(late) => EndQuiet
<1> USE DEF poolVars, taskVars, settleVars, workerVars, schedVars, termVars,
            data, EndQuiet, Moves, Avoids, LastLabels, Running, UserCall,
            InCallback, EventLoop, TimersMayFire
<1>1. \A w \in Workers : ConstructOk(w) => EndQuiet
  BY CreationMoves DEF ConstructOk
<1>2. \A w \in Workers : ConstructPartial(w) => EndQuiet
  BY CreationMoves DEF ConstructPartial
<1>3. ConstructThrows => EndQuiet
  BY CreationMoves DEF ConstructThrows
<1>4. Discard => EndQuiet
  BY CreationMoves DEF Discard
<1>5. Uncreated => EndQuiet
  BY CreationMoves DEF Uncreated
<1>6. CreatedReady => EndQuiet
  BY CreationMoves DEF CreatedReady
<1>7. CreatedExpired => EndQuiet
  BY CreationMoves DEF CreatedExpired
<1>8. CreatedTooLate => EndQuiet
  BY CreationMoves DEF CreatedTooLate
<1>9. Finally => EndQuiet
  BY CreationMoves DEF Finally
<1>10. GotNothing => EndQuiet
  BY CreationMoves DEF GotNothing
<1>11. GotExpired => EndQuiet
  BY CreationMoves DEF GotExpired
<1>12. \A late : Dispatch(late) => EndQuiet
  BY CreationMoves DEF Dispatch
<1> QED  BY <1>1, <1>2, <1>3, <1>4, <1>5, <1>6, <1>7, <1>8, <1>9, <1>10,
     <1>11, <1>12

(* The steps of a task that runs on its worker leave these frames alone.     *)
LEMMA CallsEndsNone ==
  ASSUME TypeOK
  PROVE  /\ \A t \in Tasks : Microtask(t) => EndQuiet
         /\ CallMethod => EndQuiet
         /\ MethodCalled => EndQuiet
         /\ MethodThrows => EndQuiet
         /\ \A t \in Tasks : \A why : Answer(t, why) => EndQuiet
         /\ CompleteIgnored => EndQuiet
         /\ CompleteTask => EndQuiet
         /\ Completed => EndQuiet
         /\ \A t \in Tasks : TaskTimer(t) => EndQuiet
         /\ \A w \in Workers : WorkerError(w) => EndQuiet
         /\ FailureStarts => EndQuiet
         /\ \A t \in Tasks : FailTask(t) => EndQuiet
         /\ FailureEnds => EndQuiet
<1> USE DEF poolVars, taskVars, settleVars, workerVars, schedVars, termVars,
            data, EndQuiet, Moves, Avoids, LastLabels, Running, UserCall,
            InCallback, EventLoop, TimersMayFire
<1>1. \A t \in Tasks : Microtask(t) => EndQuiet
  BY CallsMoves DEF Microtask
<1>2. CallMethod => EndQuiet
  BY CallsMoves DEF CallMethod
<1>3. MethodCalled => EndQuiet
  BY CallsMoves DEF MethodCalled
<1>4. MethodThrows => EndQuiet
  BY CallsMoves DEF MethodThrows
<1>5. \A t \in Tasks : \A why : Answer(t, why) => EndQuiet
  BY ZenonT(40), CallsMoves DEF Answer
<1>6. CompleteIgnored => EndQuiet
  BY CallsMoves DEF CompleteIgnored
<1>7. CompleteTask => EndQuiet
  BY CallsMoves DEF CompleteTask
<1>8. Completed => EndQuiet
  BY CallsMoves DEF Completed
<1>9. \A t \in Tasks : TaskTimer(t) => EndQuiet
  BY CallsMoves DEF TaskTimer
<1>10. \A w \in Workers : WorkerError(w) => EndQuiet
  BY CallsMoves DEF WorkerError
<1>11. FailureStarts => EndQuiet
  BY CallsMoves DEF FailureStarts
<1>12. \A t \in Tasks : FailTask(t) => EndQuiet
  BY CallsMoves DEF FailTask
<1>13. FailureEnds => EndQuiet
  BY CallsMoves DEF FailureEnds
<1> QED  BY <1>1, <1>2, <1>3, <1>4, <1>5, <1>6, <1>7, <1>8, <1>9, <1>10,
     <1>11, <1>12, <1>13

(* The steps that terminate a worker leave these frames alone.               *)
LEMMA TerminationEndsNone ==
  ASSUME TypeOK
  PROVE  /\ RemoveWorker => EndQuiet
         /\ RemoveSkipped => EndQuiet
         /\ Attempt => EndQuiet
         /\ TerminatorReturns => EndQuiet
         /\ TerminatorThrows => EndQuiet
         /\ TerminatorPromises => EndQuiet
         /\ \A w \in Workers : PromiseConfirms(w) => EndQuiet
         /\ \A w \in Workers : PromiseConfirmsPastDeadline(w) => EndQuiet
         /\ ConfirmedPastDeadline => EndQuiet
         /\ \A w \in Workers : PromiseRejects(w) => EndQuiet
         /\ \A w \in Workers : AttemptTimer(w) => EndQuiet
         /\ \A w \in Workers : LateConfirm(w) => EndQuiet
         /\ \A w \in Workers : RetryTimer(w) => EndQuiet
         /\ \A w \in Workers : LifetimeTimer(w) => EndQuiet
         /\ \A w \in Workers : IdleTimer(w) => EndQuiet
<1> USE DEF poolVars, taskVars, settleVars, workerVars, schedVars, termVars,
            data, EndQuiet, Moves, Avoids, LastLabels, Running, UserCall,
            InCallback, EventLoop, TimersMayFire
<1>1. RemoveWorker => EndQuiet
  BY TerminationMoves DEF RemoveWorker
<1>2. RemoveSkipped => EndQuiet
  BY TerminationMoves DEF RemoveSkipped
<1>3. Attempt => EndQuiet
  BY TerminationMoves DEF Attempt
<1>4. TerminatorReturns => EndQuiet
  BY TerminationMoves DEF TerminatorReturns
<1>5. TerminatorThrows => EndQuiet
  BY TerminationMoves DEF TerminatorThrows
<1>6. TerminatorPromises => EndQuiet
  BY TerminationMoves DEF TerminatorPromises
<1>7. \A w \in Workers : PromiseConfirms(w) => EndQuiet
  BY TerminationMoves DEF PromiseConfirms
<1>8. \A w \in Workers : PromiseConfirmsPastDeadline(w) => EndQuiet
  BY TerminationMoves DEF PromiseConfirmsPastDeadline
<1>9. ConfirmedPastDeadline => EndQuiet
  BY TerminationMoves DEF ConfirmedPastDeadline
<1>10. \A w \in Workers : PromiseRejects(w) => EndQuiet
  BY TerminationMoves DEF PromiseRejects
<1>11. \A w \in Workers : AttemptTimer(w) => EndQuiet
  BY TerminationMoves DEF AttemptTimer
<1>12. \A w \in Workers : LateConfirm(w) => EndQuiet
  BY TerminationMoves DEF LateConfirm
<1>13. \A w \in Workers : RetryTimer(w) => EndQuiet
  BY TerminationMoves DEF RetryTimer
<1>14. \A w \in Workers : LifetimeTimer(w) => EndQuiet
  BY TerminationMoves DEF LifetimeTimer
<1>15. \A w \in Workers : IdleTimer(w) => EndQuiet
  BY TerminationMoves DEF IdleTimer
<1> QED  BY <1>1, <1>2, <1>3, <1>4, <1>5, <1>6, <1>7, <1>8, <1>9, <1>10,
     <1>11, <1>12, <1>13, <1>14, <1>15

(* The steps of the shutdown, of user code and of the clock: those listed    *)
(* leave these frames alone.                                                 *)
LEMMA ShutdownEndsNone ==
  ASSUME TypeOK
  PROVE  /\ TerminateWorkers => EndQuiet
         /\ \A t \in Tasks : TerminateTask(t) => EndQuiet
         /\ TerminateWorker => EndQuiet
         /\ UpdateStats => EndQuiet
         /\ Return => EndQuiet
         /\ Time => EndQuiet
<1> USE DEF poolVars, taskVars, settleVars, workerVars, schedVars, termVars,
            data, EndQuiet, Moves, Avoids, LastLabels, Running, UserCall,
            InCallback, EventLoop, TimersMayFire
<1>1. TerminateWorkers => EndQuiet
  BY ShutdownMoves DEF TerminateWorkers
<1>2. \A t \in Tasks : TerminateTask(t) => EndQuiet
  BY ShutdownMoves DEF TerminateTask
<1>3. TerminateWorker => EndQuiet
  BY ShutdownMoves DEF TerminateWorker
<1>4. UpdateStats => EndQuiet
  BY ShutdownMoves DEF UpdateStats
<1>5. Return => EndQuiet
  BY ShutdownMoves DEF Return
<1>6. Time => EndQuiet
  BY ShutdownMoves DEF Time, QueueDeadline, TaskDeadline, LifetimePasses,
     ClockMoves
<1> QED  BY <1>1, <1>2, <1>3, <1>4, <1>5, <1>6

(* The steps that open or end such a frame, or call the pool.                *)
EndStep ==
  \/ SettleNext \/ SettleDone \/ EnforceQueueLimit \/ RejectQueue
  \/ RejectBacklog \/ Close \/ Drain \/ Drained \/ StatsFinishDrain
  \/ TerminateAll

(* No other step does.                                                       *)
LEMMA EndSteps ==
  ASSUME TypeOK, Next
  PROVE  EndStep \/ EndQuiet \/ UNCHANGED vars
<1>1. ASSUME Code
      PROVE  EndStep \/ EndQuiet
  BY <1>1, SubmissionEndsNone, SchedulingEndsNone, CreationEndsNone,
     CallsEndsNone, TerminationEndsNone, ShutdownEndsNone
     DEF Code, EndStep
<1>2. ASSUME Faults \/ User
      PROVE  EndStep \/ EndQuiet
  BY <1>2, SubmissionEndsNone, CallsEndsNone DEF Faults, User, EndStep
<1>3. ASSUME World
      PROVE  EndQuiet
  BY <1>3, CallsEndsNone, TerminationEndsNone DEF World
<1>4. ASSUME NEW t \in Tasks, TaskTimers(t)
      PROVE  EndQuiet
  BY <1>4, SubmissionEndsNone, CallsEndsNone DEF TaskTimers
<1>5. ASSUME NEW w \in Workers, WorkerTimers(w)
      PROVE  EndQuiet
  BY <1>5, TerminationEndsNone DEF WorkerTimers
<1> QED
  BY <1>1, <1>2, <1>3, <1>4, <1>5, ShutdownEndsNone DEF Next, Finished

(* A quiet step finds none of them running, so there is none.                *)
LEMMA QuietLast ==
  ASSUME TypeOK, LastInv, EndQuiet
  PROVE  LastInv'
<1> SUFFICES ASSUME NEW i \in 1..Len(stack')
             PROVE  Last(i)'
  BY DEF LastInv
<1>1. CASE stack'[i].at \notin LastLabels \cup {"drained"}
  BY <1>1 DEF Last, LastLabels
<1>2. CASE stack'[i].at \in LastLabels \cup {"drained"}
  <2>1. i \in 1..Len(stack) /\ stack'[i] = stack[i] /\ Last(i)
    BY <1>2 DEF EndQuiet, Avoids, LastInv
  <2>2. stack \in Seq(Frames) /\ stack # <<>> /\ Len(stack) \in Nat
    BY <2>1, EmptySeq DEF TypeOK
  <2>3. stack[i].at \notin LastLabels
    BY <2>1, <2>2 DEF Last, EndQuiet, InCallback, Top
  <2>4. i = 1 \/ i - 1 \in 1..(Len(stack) - 1)
    BY <2>1, <2>2
  <2> QED  BY <2>1, <2>3, <2>4 DEF Last, EndQuiet, LowerStay, LastLabels
<1> QED  BY <1>1, <1>2

(* Frames that none of this is about, ...                                    *)
Apart(f) == f.at \notin LastLabels \cup {"drained"}
(* ... and those that may be the running one.                                *)
LastFits(f) ==
  /\ f.at # "drained"
  /\ f.at \in LastLabels => f.cb \notin Reenters
  /\ f.at = "terminate" => closeCalled \/ AllSettled

(* A method that goes on: only its last frame may be one that runs next.     *)
LEMMA LastGoesOn ==
  ASSUME TypeOK, LastInv, stack # <<>>, NEW f, NEW g
  PROVE  /\ Proceed(<<>>) => LastInv'
         /\ Proceed(<<f>>) /\ LastFits(f)' => LastInv'
         /\ Proceed(<<f, g>>) /\ Apart(f) /\ LastFits(g)' => LastInv'
<1>1. PICK n : n = Len(stack)
  OBVIOUS
<1>2. stack \in Seq(Frames) /\ n \in Nat \ {0}
  BY <1>1, TopIsFrame DEF TypeOK
<1>3. ASSUME NEW i \in 1..(n - 1), LowerStay
      PROVE  Last(i)'
  <2>1. i \in 1..Len(stack) /\ i # Len(stack) /\ stack'[i] = stack[i]
    BY <1>1, <1>2, <1>3 DEF LowerStay
  <2>2. i = 1 \/ i - 1 \in 1..(n - 1)
    BY <1>2
  <2>3. i = 1 \/ stack'[i - 1] = stack[i - 1]
    BY <1>1, <1>3, <2>2 DEF LowerStay
  <2> QED  BY <2>1, <2>3 DEF LastInv, Last, LastLabels
<1>4. \A i : Apart(stack'[i]) => Last(i)'
  BY DEF Apart, Last, LastLabels
<1>5. \A i : i = Len(stack') /\ LastFits(stack[i])' => Last(i)'
  BY DEF Last, LastFits
<1>6. Proceed(<<>>) => LastInv'
  <2> SUFFICES ASSUME Proceed(<<>>)
               PROVE  LastInv'
    OBVIOUS
  <2>1. Len(stack') = n - 1 /\ LowerStay
    BY <1>1, GoesOn
  <2> QED  BY <1>3, <2>1 DEF LastInv
<1>7. Proceed(<<f>>) /\ LastFits(f)' => LastInv'
  <2> SUFFICES ASSUME Proceed(<<f>>), LastFits(f)'
               PROVE  LastInv'
    OBVIOUS
  <2>1. Len(stack') = n /\ stack'[n] = f /\ LowerStay
    BY <1>1, GoesOn
  <2>2. \A i \in 1..n : i \in 1..(n - 1) \/ i = n
    BY <1>2
  <2> QED  BY <1>3, <1>5, <2>1, <2>2 DEF LastInv
<1>8. Proceed(<<f, g>>) /\ Apart(f) /\ LastFits(g)' => LastInv'
  <2> SUFFICES ASSUME Proceed(<<f, g>>), Apart(f), LastFits(g)'
               PROVE  LastInv'
    OBVIOUS
  <2>1. /\ Len(stack') = n + 1 /\ stack'[n] = f /\ stack'[n + 1] = g
        /\ LowerStay
    BY <1>1, GoesOn
  <2>2. \A i \in 1..(n + 1) : i \in 1..(n - 1) \/ i = n \/ i = n + 1
    BY <1>2
  <2> QED  BY <1>3, <1>4, <1>5, <2>1, <2>2 DEF LastInv
<1> QED  BY <1>6, <1>7, <1>8

(* The settling loops, and the steps that start one.                         *)
LEMMA LoopsKeepLast ==
  ASSUME TypeOK, LastInv, CalmObservers,
         \/ SettleNext \/ SettleDone \/ EnforceQueueLimit \/ RejectQueue
         \/ RejectBacklog \/ TerminateAll
  PROVE  LastInv'
<1>1. stack # <<>>
  BY DEF SettleNext, SettleDone, EnforceQueueLimit, RejectQueue,
         RejectBacklog, TerminateAll, Running
<1>2. "none" \notin Reenters /\ "event" \notin Reenters
  BY PoolAssumption DEF Callbacks, CalmObservers
<1>3. ASSUME NEW f, f.at = "settle", f.cb \in {"event", "none"}
      PROVE  LastFits(f)'
  BY <1>2, <1>3 DEF LastFits, LastLabels
<1>4. ASSUME NEW l, l \notin LastLabels \cup {"drained"}, NEW ts, NEW why,
             Proceed(<<At(l), SettleEach(ts, why)>>)
      PROVE  LastInv'
  <2> DEFINE f == At(l)
             g == SettleEach(ts, why)
  <2>1. Apart(f) /\ Proceed(<<f, g>>)
    BY <1>4, LabelsOf DEF Apart
  <2>2. g.at = "settle" /\ g.cb = "none"
    BY DEF SettleEach, At
  <2> HIDE DEF f, g
  <2>3. LastFits(g)'
    BY <1>3, <2>2
  <2> QED  BY <1>1, <2>1, <2>3, LastGoesOn
<1>5. CASE SettleNext
  <2> DEFINE t == Head(Top.ts)
             f == Yield(Announce(t), SettleEach(Tail(Top.ts), Top.why))
  <2>1. f.at = "settle" /\ f.cb \in {"event", "none"}
    BY DEF Yield, SettleEach, At, Announce
  <2>2. Proceed(<<f>>)
    BY <1>5 DEF SettleNext
  <2>3. PICK h : h = f
    OBVIOUS
  <2> HIDE DEF f
  <2>4. Proceed(<<h>>) /\ LastFits(h)'
    BY <1>3, <2>1, <2>2, <2>3
  <2> QED  BY <1>1, <2>4, LastGoesOn
<1>6. CASE SettleDone
  BY <1>1, <1>6, LastGoesOn DEF SettleDone
<1>7. CASE EnforceQueueLimit
  BY <1>4, <1>7 DEF EnforceQueueLimit, LastLabels
<1>8. CASE RejectQueue
  BY <1>4, <1>8 DEF RejectQueue, LastLabels
<1>9. CASE RejectBacklog
  BY <1>4, <1>9 DEF RejectBacklog, LastLabels
<1>10. CASE TerminateAll
  BY <1>4, <1>10 DEF TerminateAll, LastLabels
<1> QED  BY <1>5, <1>6, <1>7, <1>8, <1>9, <1>10

(* close() and drain() are called from the event loop or from a callback,    *)
(* never from one of these frames.                                           *)
LEMMA UserKeepsLast ==
  ASSUME TypeOK, LastInv, Close \/ Drain
  PROVE  LastInv'
<1>1. PICK n : n = Len(stack)
  OBVIOUS
<1>2. stack \in Seq(Frames)
  BY DEF TypeOK
<1>3. n \in Nat
  BY <1>1, <1>2
<1>4. ASSUME NEW i \in 1..n, stack'[i] = stack[i],
             i = 1 \/ stack'[i - 1] = stack[i - 1], InCallback
      PROVE  Last(i)'
  BY <1>1, <1>3, <1>4 DEF LastInv, Last, InCallback, Top, LastLabels
<1>5. \A i \in 1..n : i = 1 \/ i - 1 \in 1..n
  BY <1>3
<1>6. "none" \notin Reenters
  BY PoolAssumption DEF Callbacks
<1>7. CASE Close
  <2> DEFINE f == At("terminate")
  <2>1. f.at = "terminate" /\ f.cb = "none"
    BY DEF At
  <2>2. UserCall(<<f>>) /\ closeCalled' = TRUE
    BY <1>7 DEF Close
  <2>3. stack = <<>> \/ InCallback
    BY <2>2 DEF UserCall
  <2> HIDE DEF f
  <2>4. /\ Len(stack') = n + 1 /\ stack'[n + 1] = f
        /\ \A i \in 1..n : stack'[i] = stack[i]
    BY <1>1, <1>2, <2>2, Calls1
  <2>5. \A i \in 1..(n + 1) : i \in 1..n \/ i = n + 1
    BY <1>3
  <2>6. Last(n + 1)'
    BY <1>6, <2>1, <2>2, <2>4 DEF Last
  <2>7. stack = <<>> => n = 0
    BY <1>1
  <2> QED
    BY <1>3, <1>4, <1>5, <2>3, <2>4, <2>5, <2>6, <2>7 DEF LastInv
<1>8. CASE Drain
  <2> DEFINE d == At("drained")
             f == At("next")
  <2>1. d.at = "drained" /\ f.at = "next"
    BY LabelsOf
  <2>2. UserCall(<<d, f>>)
    BY <1>8 DEF Drain
  <2>3. stack = <<>> \/ InCallback
    BY <2>2 DEF UserCall
  <2> HIDE DEF d, f
  <2>4. /\ Len(stack') = n + 2 /\ stack'[n + 1] = d /\ stack'[n + 2] = f
        /\ \A i \in 1..n : stack'[i] = stack[i]
        /\ stack = <<>> \/ Top.cb \in Reenters
    BY <1>1, <1>2, <2>2, Calls2
  <2>5. \A i \in 1..(n + 2) : i \in 1..n \/ i = n + 1 \/ i = n + 2
    BY <1>3
  <2>6. stack = <<>> => n = 0
    BY <1>1
  <2>7. n = 0 \/ (n \in 1..n /\ n + 1 - 1 = n)
    BY <1>3
  <2>8. Last(n + 1)'
    BY <1>1, <2>1, <2>4, <2>6, <2>7 DEF Last, LastLabels, Top
  <2>9. Last(n + 2)'
    BY <2>1, <2>4 DEF Last, LastLabels
  <2> QED
    BY <1>3, <1>4, <1>5, <2>3, <2>4, <2>5, <2>6, <2>8, <2>9 DEF LastInv
<1> QED  BY <1>7, <1>8

(* drain() never finds an open pool stalled: where its _next() has not       *)
(* served the queue, a pass is under way below the callback it is called     *)
(* from, and that callback is one of a worker that is being made or whose    *)
(* termination is being attempted.                                           *)
LEMMA DrainNeverStalls ==
  ASSUME TypeOK, CalmObservers, SchedulerExclusive, TaskInv, AttemptInv,
         ServeInv, LastInv, Running("drained"), ~terminationStarted
  PROVE  ~DrainStalled
<1>1. PICK n : n = Len(stack)
  OBVIOUS
<1>2. /\ stack \in Seq(Frames) /\ stack # <<>> /\ n \in Nat \ {0}
      /\ n \in 1..Len(stack) /\ stack[n].at = "drained"
  BY <1>1, TopIsFrame DEF Running, TypeOK
<1>3. Backed(n)
  BY <1>1, <1>2 DEF ServeInv, Expects, AwaitLabels
<1>4. CASE Served
  BY <1>4 DEF Served, Hopeful, Retryable, DrainStalled
<1>5. CASE ~Served
  <2>1. PICK j \in 1..n : stack[j].at \in SchedLabels
    BY <1>1, <1>2, <1>3, <1>5 DEF Backed
  <2>2. j # n
    BY <1>2, <2>1 DEF SchedLabels, CreateLabels
  <2>3. n # 1 /\ n - 1 \in 1..Len(stack)
    BY <1>1, <1>2, <2>1, <2>2
  <2>4. stack[n - 1].cb \in Reenters
    BY <1>1, <1>2, <2>3 DEF LastInv, Last
  <2>5. PICK f : f = stack[n - 1]
    OBVIOUS
  <2>6. f \in Frames
    BY <1>2, <2>3, <2>5, ElementOfSeq
  <2>7. f.cb \in {"factory", "cleanup", "terminator", "proxy"}
    BY <2>4, <2>5, PoolAssumption
       DEF CalmObservers, QuietObservers, Callbacks
  <2>8. CASE f.cb \in {"factory", "cleanup"}
    <3>1. f.at \in CreateLabels
      BY <2>6, <2>8 DEF Frames, CreateLabels
    <3>2. creating = 1
      BY <2>3, <2>5, <3>1 DEF SchedulerExclusive
    <3> QED  BY <3>2 DEF DrainStalled
  <2>9. CASE f.cb = "terminator"
    <3>1. f.at = "attempted" /\ f.w \in Workers
      BY <2>6, <2>9 DEF Frames, WorkerLabels
    <3>2. tstate[f.w] = "attempting"
      BY <2>3, <2>5, <3>1 DEF AttemptInv, AttemptFrames
    <3> QED  BY <3>1, <3>2 DEF DrainStalled, Quarantined
  <2>10. CASE f.cb = "proxy"
    <3>1. f.at \in {"lookup", "applied"}
      BY <2>6, <2>10 DEF Frames
    <3>2. n - 1 = 1
      BY <2>3, <2>5, <3>1 DEF TaskInv, CallsFirst, CallLabels
    <3>3. j = n - 1
      BY <1>2, <2>1, <2>2, <3>2
    <3> QED  BY <2>1, <2>5, <3>1, <3>3 DEF SchedLabels, CreateLabels
  <2> QED  BY <2>7, <2>8, <2>9, <2>10
<1> QED  BY <1>4, <1>5

(* ... so that it goes on to report the statistics.                          *)
LEMMA DrainedKeepsLast ==
  ASSUME TypeOK, CalmObservers, SchedulerExclusive, TaskInv, AttemptInv,
         ServeInv, LastInv, Drained
  PROVE  LastInv'
<1> DEFINE f == At("stats")
<1>1. Running("drained") /\ stack # <<>>
  BY DEF Drained, Running
<1>2. Proceed(<<f>>) \/ Proceed(<<>>)
  BY <1>1, DrainNeverStalls DEF Drained
<1>3. f.at = "stats"
  BY LabelsOf
<1>4. PICK h : h = f
  OBVIOUS
<1> HIDE DEF f
<1>5. LastFits(h)'
  BY <1>3, <1>4 DEF LastFits, LastLabels
<1> QED  BY <1>1, <1>2, <1>4, <1>5, LastGoesOn

(* When _updateStats ends a drain, every accepted task has settled: none is  *)
(* queued, none runs, and the code below holds none.                         *)
LEMMA DrainEndsSettled ==
  ASSUME TypeOK, SealInv, HandsInv, LastInv, StatsFinishDrain
  PROVE  AllSettled /\ LastInv'
<1>1. /\ stack # <<>> /\ Top.at = "stats" /\ queue = <<>>
      /\ \A w \in workers : ~Busy(w)
  BY DEF StatsFinishDrain, DrainComplete, Running
<1>2. Top = stack[Len(stack)]
  BY DEF Top
<1>3. ASSUME NEW t \in Tasks, Pending(t)
      PROVE  FALSE
  <2>1. InHand(t)
    BY <1>3 DEF HandsInv
  <2>2. t \notin Elems(queue)
    BY <1>1, NoElems
  <2>3. Hosts(t) = {}
    BY <1>1 DEF Hosts, Busy
  <2>4. PICK i \in 1..Len(stack) : stack[i].at \in {"insert", "settle"}
    BY <2>1, <2>2, <2>3 DEF InHand, Held
  <2>5. i = Len(stack)
    BY <2>4 DEF SealInv, Sealed, Alone, LastInv, Last, LastLabels
  <2> QED  BY <1>1, <1>2, <2>4, <2>5
<1>4. AllSettled /\ AllSettled'
  <2>1. outcome' = outcome
    BY DEF StatsFinishDrain, data, settleVars
  <2> QED  BY <1>3, <2>1 DEF AllSettled, Pending
<1> DEFINE f == At("terminate")
<1>5. Proceed(<<f>>)
  BY DEF StatsFinishDrain
<1>6. f.at = "terminate" /\ f.cb = "none"
  BY DEF At
<1>7. PICK h : h = f
  OBVIOUS
<1> HIDE DEF f
<1>8. LastFits(h)'
  BY <1>4, <1>6, <1>7, PoolAssumption DEF LastFits, Callbacks
<1> QED  BY <1>1, <1>4, <1>5, <1>7, <1>8, LastGoesOn

(* Every step keeps the invariant of these frames.                           *)
LEMMA NextLast ==
  ASSUME TypeOK, CalmObservers, SchedulerExclusive, TaskInv, AttemptInv,
         SealInv, HandsInv, ServeInv, LastInv, [Next]_vars
  PROVE  LastInv'
<1>1. ASSUME UNCHANGED vars
      PROVE  LastInv'
  <2>1. UNCHANGED <<stack, closeCalled, outcome>>
    BY <1>1 DEF vars, data, poolVars, settleVars
  <2> QED  BY <2>1 DEF LastInv, Last, AllSettled, Pending
<1>2. EndQuiet => LastInv'
  BY QuietLast
<1>3. EndStep => LastInv'
  BY LoopsKeepLast, UserKeepsLast, DrainedKeepsLast, DrainEndsSettled
     DEF EndStep
<1> QED  BY <1>1, <1>2, <1>3, EndSteps

-----------------------------------------------------------------------------
(* A drain fails no task.                                                    *)

(* Until user code calls close() no task fails with "pool-closed", and the   *)
(* pool terminates only when every accepted task has settled.                *)
CloseInv ==
  \/ closeCalled
  \/ /\ \A t \in Tasks : outcome[t] # "pool-closed"
     /\ terminationStarted => AllSettled

(* What user code has called it has called for ever.                         *)
LEMMA CallsAreRemembered ==
  ASSUME TypeOK, [Next]_vars, closeCalled
  PROVE  closeCalled'
<1>1. UNCHANGED vars => closeCalled' = closeCalled
  BY DEF vars, data, poolVars
<1>2. EndQuiet => closeCalled' = closeCalled
  BY DEF EndQuiet
<1>3. EndStep => closeCalled'
  BY DEF EndStep, SettleNext, SettleDone, EnforceQueueLimit, RejectQueue,
         RejectBacklog, Close, Drain, Drained, StatsFinishDrain,
         TerminateAll, data, poolVars
<1> QED  BY <1>1, <1>2, <1>3, EndSteps

(* Every step keeps this, too.                                               *)
LEMMA NextClose ==
  ASSUME TypeOK, TaskInv, Closing, EndFrames, LastInv, CloseInv, [Next]_vars
  PROVE  CloseInv'
<1>1. CASE closeCalled
  BY <1>1, CallsAreRemembered DEF CloseInv
<1>2. CASE ~closeCalled
  <2>1. /\ \A t \in Tasks : outcome[t] # "pool-closed"
        /\ terminationStarted => AllSettled
    BY <1>2 DEF CloseInv
  <2>2. UNCHANGED <<outcome, terminationStarted>> => CloseInv'
    BY <2>1 DEF CloseInv, AllSettled, Pending
  <2>3. ASSUME NEW t \in Tasks, NEW why \in Settlements,
               Settles(t, why), GoodReason(t, why)
        PROVE  CloseInv'
    <3>1. why = "pool-closed" => ~Pending(t)
      BY <2>1, <2>3 DEF GoodReason, AllSettled
    <3>2. /\ terminationStarted' = terminationStarted
          /\ outcome' = IF Pending(t) THEN [outcome EXCEPT ![t] = why]
                        ELSE outcome
      BY <2>3 DEF Settles, Settle
    <3>3. \A u \in Tasks :
            \/ outcome'[u] = outcome[u]
            \/ u = t /\ Pending(t) /\ outcome'[u] = why
      BY <3>2 DEF TypeOK
    <3>4. why # "pending"
      BY <2>3 DEF Settlements
    <3> QED
      BY <2>1, <3>1, <3>2, <3>3, <3>4 DEF CloseInv, AllSettled, Pending
  <2>4. ASSUME NEW p, NEW timed, Run(p, timed)
        PROVE  CloseInv'
    <3>1. ~terminationStarted /\ terminationStarted' = terminationStarted
      BY <2>4 DEF Run, TaskInv, Doors, poolVars
    <3>2. PICK t : outcome' = [outcome EXCEPT ![t] = "pending"]
      BY <2>4 DEF Run
    <3>3. \A u \in Tasks : outcome'[u] \in {outcome[u], "pending"}
      BY <3>2 DEF TypeOK
    <3> QED  BY <2>1, <3>1, <3>3 DEF CloseInv
  <2>5. CASE TerminateAll
    <3>1. stack # <<>> /\ Top.at = "terminate" /\ outcome' = outcome
      BY <2>5 DEF TerminateAll, Running, settleVars
    <3>2. Last(Len(stack))
      BY <3>1, TopIsFrame DEF LastInv, TypeOK
    <3>3. AllSettled
      BY <1>2, <3>1, <3>2 DEF Last, Top
    <3> QED  BY <2>1, <3>1, <3>3 DEF CloseInv, AllSettled, Pending
  <2>6. Unseen \/ (\E t \in Tasks : Begins(t) \/ Ends(t)) => CloseInv'
    BY <2>2 DEF Unseen, Begins, Ends
  <2>7. (\E late \in BOOLEAN : Dispatch(late)) \/ Drain => CloseInv'
    BY <2>2 DEF Dispatch, Drain, poolVars, settleVars
  <2> QED  BY <2>3, <2>4, <2>5, <2>6, <2>7, CallerSteps
<1> QED  BY <1>1, <1>2

(* A drain lets the accepted tasks run: as long as user code has not called  *)
(* close() or terminateAll() no task fails with "pool-closed", neither       *)
(* because drain() takes the pool for stalled nor because a drain ends too   *)
(* early. Observers do not call the pool, and workers live for ever.         *)
THEOREM DrainsLetTasksRun ==
  ASSUME CalmObservers, ~Lifetime
  PROVE  Spec => []DrainFinishesWork
<1>1. Init => LastInv /\ CloseInv
  BY DEF Init, LastInv, CloseInv
<1>2. ASSUME TypeOK /\ TaskInv /\ Closing /\ EndFrames, SchedulerExclusive,
             IInv /\ AttemptInv, SealInv, HandsInv /\ ClosedEmpty,
             ServeInv /\ SoundInv, LastInv /\ CloseInv, [Next]_vars
      PROVE  LastInv' /\ CloseInv'
  BY <1>2, NextLast, NextClose
<1>3. CloseInv => DrainFinishesWork
  BY DEF CloseInv, DrainFinishesWork
<1>4. Spec => []SealInv
  BY SealsHold DEF CalmObservers
<1>5. Spec => [](HandsInv /\ ClosedEmpty)
  BY HandsHold DEF CalmObservers
<1> QED
  BY <1>1, <1>2, <1>3, <1>4, <1>5, TaskInvariance, SchedulingNeverNests,
     AttemptsHold, ServingHolds, PTL
     DEF Spec

=============================================================================
