-------------------------- MODULE WorkerPoolProofs --------------------------
(* Proofs about the worker pool for every value of its constants: its types, *)
(* that scheduling never nests, and the bound on physical workers.           *)
EXTENDS WorkerPool, FiniteSetTheorems, SequenceTheorems, TLAPS

-----------------------------------------------------------------------------
(* Frames and the control stack.                                             *)

(* A frame with a label only, for the methods without an argument.           *)
LEMMA FrameOfAt ==
  ASSUME NEW l \in Labels, l \notin TaskLabels \cup WorkerLabels \cup {"settle"}
  PROVE  At(l) \in Frames /\ At(l).at = l
<1>1. l # "complete"
  BY DEF TaskLabels
<1> <<>> \in Seq(Tasks)  OBVIOUS
<1> QED  BY <1>1 DEF At, Frames

(* A frame about a worker, for the methods that are given one.               *)
LEMMA FrameOfOn ==
  ASSUME NEW l \in Labels, l \notin TaskLabels \cup {"settle"},
         NEW w \in Workers \cup {NoWorker},
         l \in WorkerLabels => w # NoWorker
  PROVE  On(l, w) \in Frames /\ On(l, w).at = l /\ On(l, w).w = w
<1>1. l # "complete"
  BY DEF TaskLabels
<1> <<>> \in Seq(Tasks)  OBVIOUS
<1> QED  BY <1>1 DEF On, At, Frames

(* A frame about a task, for the methods that are given one.                 *)
LEMMA FrameOfFor ==
  ASSUME NEW l \in TaskLabels \ {"complete"}, NEW t \in Tasks
  PROVE  For(l, t) \in Frames /\ For(l, t).at = l
<1> <<t>> \in Seq(Tasks) /\ <<t>> # <<>>  OBVIOUS
<1> QED  BY DEF For, At, Frames, Labels, TaskLabels, WorkerLabels

(* A frame of _completeTask() for an answer of the worker.                   *)
LEMMA FrameOfComplete ==
  ASSUME NEW t \in Tasks, NEW why \in Settlements
  PROVE  Complete(t, why) \in Frames /\ Complete(t, why).at = "complete"
<1> <<t>> \in Seq(Tasks) /\ <<t>> # <<>>  OBVIOUS
<1> QED  BY DEF Complete, For, At, Frames, Labels, TaskLabels, WorkerLabels

(* User code about to run before a frame changes neither its label nor its   *)
(* worker.                                                                   *)
LEMMA FrameOfYield ==
  ASSUME NEW cb \in Callbacks \cup {"none"}, NEW f \in Frames,
         cb = "factory" => f.at = "construct",
         cb = "cleanup" => f.at = "discard",
         cb = "terminator" => f.at = "attempted",
         cb = "proxy" => f.at \in {"lookup", "applied"}
  PROVE  /\ Yield(cb, f) \in Frames
         /\ Yield(cb, f).at = f.at /\ Yield(cb, f).w = f.w
BY DEF Yield, Frames

(* A frame of the loops that settle several tasks.                           *)
LEMMA FrameOfSettleEach ==
  ASSUME NEW ts \in Seq(Tasks), NEW why \in Settlements
  PROVE  SettleEach(ts, why) \in Frames /\ SettleEach(ts, why).at = "settle"
BY DEF SettleEach, At, Frames, Labels, TaskLabels, WorkerLabels

(* A frame of _handleWorkerFailure().                                        *)
LEMMA FrameOfFail ==
  ASSUME NEW w \in Workers, NEW ts \in Seq(Tasks)
  PROVE  Fail(w, ts) \in Frames /\ Fail(w, ts).at = "fail"
BY PoolAssumption DEF Fail, On, At, Frames, Labels, TaskLabels, WorkerLabels

(* A frame of _terminateWorker().                                            *)
LEMMA FrameOfRemove ==
  ASSUME NEW w \in Workers, NEW how \in {"force", "soft"}
  PROVE  Remove(w, how) \in Frames /\ Remove(w, how).at = "remove"
<1> <<>> \in Seq(Tasks)  OBVIOUS
<1> QED  BY PoolAssumption DEF Remove, On, At, Frames, Labels, TaskLabels, WorkerLabels

(* The running frame of a non-empty stack carries the task, the worker or    *)
(* the outcome that its label calls for.                                     *)
LEMMA TopIsFrame ==
  ASSUME stack \in Seq(Frames), stack # <<>>
  PROVE  /\ Len(stack) \in Nat \ {0} /\ Len(stack) \in 1..Len(stack)
         /\ Top = stack[Len(stack)] /\ Top \in Frames
         /\ Top.at \in Labels /\ Top.w \in Workers \cup {NoWorker}
         /\ Top.ts \in Seq(Tasks)
         /\ Top.why \in Settlements \cup {"none", "force", "soft", "broken"}
         /\ Top.at \in TaskLabels => Top.ts[1] \in Tasks
         /\ Top.at \in WorkerLabels => Top.w \in Workers
         /\ Top.at \in {"settle", "complete"} => Top.why \in Settlements
<1>1. Len(stack) \in Nat \ {0} /\ Top \in Frames
  BY DEF Top
<1>2. Top.at \in TaskLabels => Top.ts \in Seq(Tasks) /\ Top.ts # <<>>
  BY <1>1 DEF Frames
<1>3. \A s \in Seq(Tasks) : s # <<>> => s[1] \in Tasks
  OBVIOUS
<1> QED  BY <1>1, <1>2, <1>3 DEF Frames, Top

(* Two sequences put one after the other, index by index.                    *)
LEMMA ConcatSplit ==
  ASSUME NEW S, NEW a \in Seq(S), NEW b \in Seq(S)
  PROVE  /\ a \o b \in Seq(S) /\ Len(a \o b) = Len(a) + Len(b)
         /\ \A i \in 1..Len(a) : (a \o b)[i] = a[i]
         /\ \A i \in 1..Len(b) : (a \o b)[Len(a) + i] = b[i]
<1>1. Len(a) \in Nat /\ Len(b) \in Nat
  OBVIOUS
<1>2. /\ a \o b \in Seq(S) /\ Len(a \o b) = Len(a) + Len(b)
      /\ \A i \in 1..(Len(a) + Len(b)) :
           (a \o b)[i] = IF i <= Len(a) THEN a[i] ELSE b[i - Len(a)]
  BY ConcatProperties
<1>3. \A i \in 1..Len(b) : Len(a) + i \in 1..(Len(a) + Len(b))
                            /\ ~(Len(a) + i <= Len(a))
                            /\ (Len(a) + i) - Len(a) = i
  BY <1>1
<1> QED  BY <1>1, <1>2, <1>3

(* A sequence without its last element, index by index.                      *)
LEMMA FrontOfSeq ==
  ASSUME NEW S, NEW s \in Seq(S), s # <<>>
  PROVE  /\ SubSeq(s, 1, Len(s) - 1) \in Seq(S)
         /\ Len(SubSeq(s, 1, Len(s) - 1)) = Len(s) - 1
         /\ \A i \in 1..(Len(s) - 1) : SubSeq(s, 1, Len(s) - 1)[i] = s[i]
<1> DEFINE n == Len(s) - 1
<1>1. n \in Nat /\ \A i \in 1..n : s[i] \in S
  OBVIOUS
<1> HIDE DEF n
<1>2. /\ SubSeq(s, 1, n) \in Seq(S)
      /\ Len(SubSeq(s, 1, n)) = IF 1 <= n THEN n - 1 + 1 ELSE 0
      /\ \A i \in 1..(n - 1 + 1) : SubSeq(s, 1, n)[i] = s[1 + i - 1]
  BY <1>1, SubSeqProperties
<1>3. Len(SubSeq(s, 1, n)) = n
  BY <1>1, <1>2
<1>4. \A i \in 1..n : SubSeq(s, 1, n)[i] = s[i]
  <2>1. n - 1 + 1 = n /\ \A i \in 1..n : 1 + i - 1 = i
    BY <1>1
  <2> QED  BY <1>2, <2>1
<1> QED  BY <1>2, <1>3, <1>4 DEF n

(* Frames of the pool's code other than _next and what it calls.             *)
PlainFrames == {f \in Frames : f.at \notin SchedLabels}

(* Code that does no scheduling is code of the pool.                         *)
LEMMA PlainIsFrame ==
  ASSUME NEW fs \in Seq(PlainFrames)
  PROVE  fs \in Seq(Frames)
BY SeqMonotonic DEF PlainFrames

(* When a method goes on as fs, the frames below it stay and fs takes its    *)
(* place.                                                                    *)
LEMMA ProceedStack ==
  ASSUME stack \in Seq(Frames), stack # <<>>, NEW fs \in Seq(Frames),
         Proceed(fs)
  PROVE  /\ stack' \in Seq(Frames)
         /\ Len(stack') = Len(stack) - 1 + Len(fs)
         /\ \A i \in 1..(Len(stack) - 1) : stack'[i] = stack[i]
         /\ \A i \in 1..Len(fs) : stack'[Len(stack) - 1 + i] = fs[i]
<1>1. /\ Below \in Seq(Frames) /\ Len(Below) = Len(stack) - 1
      /\ \A i \in 1..(Len(stack) - 1) : Below[i] = stack[i]
  BY FrontOfSeq DEF Below
<1>2. stack' = Below \o fs
  BY DEF Proceed
<1>3. /\ stack' \in Seq(Frames) /\ Len(stack') = Len(Below) + Len(fs)
      /\ \A i \in 1..Len(Below) : stack'[i] = Below[i]
      /\ \A i \in 1..Len(fs) : stack'[Len(Below) + i] = fs[i]
  <2>1. Below \in Seq(Frames)
    BY <1>1
  <2> QED  BY <1>2, <2>1, ConcatSplit
<1> QED  BY <1>1, <1>3

(* A call from user code, or from the event loop, puts fs on the stack and   *)
(* changes no frame below.                                                   *)
LEMMA CallStack ==
  ASSUME stack \in Seq(Frames), NEW fs \in Seq(Frames),
         UserCall(fs) \/ EventLoop(fs)
  PROVE  /\ stack' \in Seq(Frames)
         /\ Len(stack') = Len(stack) + Len(fs)
         /\ \A i \in 1..Len(stack) : stack'[i] = stack[i]
         /\ \A i \in 1..Len(fs) : stack'[Len(stack) + i] = fs[i]
<1>1. stack' = stack \o fs
  BY ConcatEmptySeq DEF UserCall, EventLoop
<1> QED  BY <1>1, ConcatSplit

-----------------------------------------------------------------------------
(* The inductive invariant. PhysicalBound is not inductive: that there is    *)
(* still room when a factory returns follows only if no other creation can   *)
(* have begun meanwhile, which is what SchedulerExclusive says of the stack; *)
(* and the two sets that are counted must not overlap.                       *)

Capacity ==
  /\ Cardinality(workers) <= Size
  /\ PhysicalWorkers <= Limit
  /\ workers \cap Quarantined = {}
  /\ workers \cup Quarantined \subseteq used
  /\ \A i \in 1..Len(stack) :
       /\ stack[i].at = "construct" =>
            Cardinality(workers) < Size /\ PhysicalWorkers < Limit
       /\ stack[i].at = "discard" =>
            /\ PhysicalWorkers < Limit
            /\ stack[i].w \in used \ (workers \cup Quarantined)

IInv == TypeOK /\ SchedulerExclusive /\ Capacity

(* A step on the stack that leaves the scheduling code where it is.          *)
KeepsSched ==
  /\ \A i \in 1..Len(stack) : stack[i].at \in SchedLabels =>
       i \in 1..Len(stack') /\ stack'[i] = stack[i]
  /\ \A i \in 1..Len(stack') : stack'[i].at \in SchedLabels =>
       i \in 1..Len(stack) /\ stack[i] = stack'[i]

(* A step that moves the running scheduling code on to frame f.              *)
MovesSched(f) ==
  /\ f.at \in SchedLabels
  /\ Len(stack) \in 1..Len(stack') /\ stack'[Len(stack)] = f
  /\ \A i \in 1..Len(stack') : stack'[i].at \in SchedLabels =>
       i = Len(stack)

(* The first n frames of u are those of s, and only plain frames differ.     *)
LEMMA PlainAbove ==
  ASSUME NEW s \in Seq(Frames), NEW u \in Seq(Frames),
         NEW fs \in Seq(PlainFrames), NEW n \in 0..Len(s),
         Len(u) = n + Len(fs),
         \A i \in 1..n : u[i] = s[i],
         \A i \in 1..Len(fs) : u[n + i] = fs[i],
         \A i \in 1..Len(s) : i > n => s[i].at \notin SchedLabels
  PROVE  /\ \A i \in 1..Len(s) : s[i].at \in SchedLabels =>
              i \in 1..Len(u) /\ u[i] = s[i]
         /\ \A i \in 1..Len(u) : u[i].at \in SchedLabels =>
              i \in 1..Len(s) /\ s[i] = u[i]
<1>1. n \in Nat /\ Len(s) \in Nat /\ Len(fs) \in Nat /\ n <= Len(s)
  OBVIOUS
<1>2. \A i \in 1..Len(fs) : u[n + i].at \notin SchedLabels
  BY ElementOfSeq DEF PlainFrames
<1>3. ASSUME NEW i \in 1..Len(s), s[i].at \in SchedLabels
      PROVE  i \in 1..Len(u) /\ u[i] = s[i]
  <2>1. i \in 1..n
    BY <1>1, <1>3
  <2> QED  BY <1>1, <2>1
<1>4. ASSUME NEW i \in 1..Len(u), u[i].at \in SchedLabels
      PROVE  i \in 1..Len(s) /\ s[i] = u[i]
  <2>1. CASE i \in 1..n
    BY <1>1, <2>1
  <2>2. CASE i > n
    <3>1. i - n \in 1..Len(fs) /\ n + (i - n) = i
      BY <1>1, <2>2
    <3> QED  BY <1>2, <1>4, <3>1
  <2> QED  BY <1>1, <2>1, <2>2
<1> QED  BY <1>3, <1>4

(* A method outside _next that goes on to such methods leaves the frames of  *)
(* a suspended _next where they are.                                         *)
LEMMA PlainProceed ==
  ASSUME TypeOK, stack # <<>>, Top.at \notin SchedLabels,
         NEW fs \in Seq(PlainFrames), Proceed(fs)
  PROVE  stack' \in Seq(Frames) /\ KeepsSched
<1> DEFINE n == Len(stack) - 1
<1>1. fs \in Seq(Frames) /\ stack \in Seq(Frames)
  BY PlainIsFrame DEF TypeOK
<1>2. /\ n \in 0..Len(stack)
      /\ \A i \in 1..Len(stack) : i > n => i = Len(stack)
  BY <1>1, TopIsFrame
<1>3. /\ stack' \in Seq(Frames)
      /\ Len(stack') = n + Len(fs)
      /\ \A i \in 1..n : stack'[i] = stack[i]
      /\ \A i \in 1..Len(fs) : stack'[n + i] = fs[i]
  BY <1>1, ProceedStack
<1>4. \A i \in 1..Len(stack) : i > n => stack[i].at \notin SchedLabels
  BY <1>2 DEF Top
<1> HIDE DEF n
<1> QED  BY <1>1, <1>2, <1>3, <1>4, PlainAbove DEF KeepsSched

(* So does a call of a public method or a handler, made while _next may be   *)
(* suspended in a callback.                                                  *)
LEMMA PlainCall ==
  ASSUME TypeOK, NEW fs \in Seq(PlainFrames), UserCall(fs) \/ EventLoop(fs)
  PROVE  stack' \in Seq(Frames) /\ KeepsSched
<1> DEFINE n == Len(stack)
<1>1. fs \in Seq(Frames) /\ stack \in Seq(Frames) /\ n \in Nat
  BY PlainIsFrame DEF TypeOK
<1>2. /\ stack' \in Seq(Frames)
      /\ Len(stack') = n + Len(fs)
      /\ \A i \in 1..n : stack'[i] = stack[i]
      /\ \A i \in 1..Len(fs) : stack'[n + i] = fs[i]
  BY <1>1, CallStack
<1>3. n \in 0..Len(stack) /\ \A i \in 1..Len(stack) : ~(i > n)
  BY <1>1
<1> HIDE DEF n
<1> QED  BY <1>1, <1>2, <1>3, PlainAbove DEF KeepsSched

(* Scheduling code that runs goes on with the scheduling code gs[1], and     *)
(* with plain code above it.                                                 *)
LEMMA SchedProceed ==
  ASSUME TypeOK, SchedulerExclusive, stack # <<>>, Top.at \in SchedLabels,
         NEW gs \in Seq(Frames), gs # <<>>, gs[1].at \in SchedLabels,
         \A i \in 2..Len(gs) : gs[i].at \notin SchedLabels,
         Proceed(gs)
  PROVE  stack' \in Seq(Frames) /\ MovesSched(gs[1])
<1> DEFINE n == Len(stack)
           f == gs[1]
<1>1. /\ stack \in Seq(Frames) /\ n \in Nat \ {0} /\ n \in 1..n
      /\ stack[n].at \in SchedLabels /\ Len(gs) \in Nat \ {0}
  BY TopIsFrame DEF TypeOK, Top
<1>2. \A i \in 1..n : stack[i].at \in SchedLabels => i = n
  BY <1>1 DEF SchedulerExclusive
<1>3. /\ stack' \in Seq(Frames)
      /\ Len(stack') = n - 1 + Len(gs)
      /\ \A i \in 1..(n - 1) : stack'[i] = stack[i]
      /\ \A i \in 1..Len(gs) : stack'[n - 1 + i] = gs[i]
  BY <1>1, ProceedStack
<1> HIDE DEF n, f
<1>4. stack'[n] = f /\ n \in 1..Len(stack')
  <2>1. 1 \in 1..Len(gs) /\ n - 1 + 1 = n
    BY <1>1
  <2>2. stack'[n] = gs[1]
    BY <1>3, <2>1
  <2> QED  BY <1>1, <1>3, <2>2 DEF f
<1>5. ASSUME NEW i \in 1..Len(stack'), stack'[i].at \in SchedLabels
      PROVE  i = n
  <2>1. CASE i < n
    <3>1. i \in 1..(n - 1) /\ i \in 1..n
      BY <1>1, <2>1
    <3> QED  BY <1>2, <1>3, <1>5, <3>1
  <2>2. CASE i > n
    <3>1. /\ i - n + 1 \in 1..Len(gs) /\ i - n + 1 \in 2..Len(gs)
          /\ n - 1 + (i - n + 1) = i
      <4>1. i \in Nat /\ i <= n - 1 + Len(gs)
        BY <1>3
      <4> QED  BY <1>1, <2>2, <4>1
    <3>2. stack'[i] = gs[i - n + 1]
      BY <1>3, <3>1
    <3> QED  BY <1>5, <3>1, <3>2
  <2> QED  BY <1>1, <2>1, <2>2
<1> QED  BY <1>3, <1>4, <1>5 DEF MovesSched, n, f

(* The methods without an argument that do no scheduling: close, drain and   *)
(* their parts, updateStats and the entry to _next.                          *)
LEMMA PlainAts ==
  \A l \in {"next", "terminate", "termworkers", "drained", "stats", "return"} :
    At(l) \in PlainFrames
<1> TAKE l \in {"next", "terminate", "termworkers", "drained", "stats",
                "return"}
<1>1. /\ l \in Labels /\ l \notin SchedLabels
      /\ l \notin TaskLabels \cup WorkerLabels \cup {"settle"}
  BY DEF Labels, TaskLabels, WorkerLabels, SchedLabels, CreateLabels
<1> QED  BY <1>1, FrameOfAt DEF PlainFrames

(* The methods about a worker that do no scheduling: failure, removal and    *)
(* termination.                                                              *)
LEMMA PlainOns ==
  ASSUME NEW w \in Workers
  PROVE  \A l \in {"failing", "attempt", "attempted", "confirmed", "termtasks",
                   "completed"} : On(l, w) \in PlainFrames /\ On(l, w).at = l
<1> TAKE l \in {"failing", "attempt", "attempted", "confirmed", "termtasks",
                "completed"}
<1>1. /\ l \in Labels /\ l \notin SchedLabels
      /\ l \notin TaskLabels \cup {"settle"} /\ w # NoWorker
  BY PoolAssumption DEF Labels, TaskLabels, SchedLabels, CreateLabels
<1> QED  BY <1>1, FrameOfOn DEF PlainFrames

(* The methods about a task do no scheduling: run, its timers and            *)
(* cancellation.                                                             *)
LEMMA PlainFors ==
  ASSUME NEW t \in Tasks, NEW l \in TaskLabels \ {"complete"}
  PROVE  For(l, t) \in PlainFrames /\ For(l, t).at = l
<1>1. l \notin SchedLabels
  BY DEF TaskLabels, SchedLabels, CreateLabels
<1> QED  BY <1>1, FrameOfFor DEF PlainFrames

(* _completeTask() does no scheduling before it calls _next.                 *)
LEMMA PlainComplete ==
  ASSUME NEW t \in Tasks, NEW why \in Settlements
  PROVE  Complete(t, why) \in PlainFrames
BY FrameOfComplete DEF PlainFrames, SchedLabels, CreateLabels

(* User code about to run does not make a method a part of _next.            *)
LEMMA PlainYield ==
  ASSUME NEW cb \in Callbacks \cup {"none"}, NEW f \in PlainFrames,
         cb = "terminator" => f.at = "attempted",
         cb = "proxy" => f.at \in {"lookup", "applied"},
         cb \notin {"factory", "cleanup"}
  PROVE  Yield(cb, f) \in PlainFrames
BY FrameOfYield DEF PlainFrames

(* Settling several tasks is no part of _next.                               *)
LEMMA PlainSettleEach ==
  ASSUME NEW ts \in Seq(Tasks), NEW why \in Settlements
  PROVE  SettleEach(ts, why) \in PlainFrames
BY FrameOfSettleEach DEF PlainFrames, SchedLabels, CreateLabels

(* _handleWorkerFailure() does no scheduling before it calls _next.          *)
LEMMA PlainFail ==
  ASSUME NEW w \in Workers, NEW ts \in Seq(Tasks)
  PROVE  Fail(w, ts) \in PlainFrames
BY FrameOfFail DEF PlainFrames, SchedLabels, CreateLabels

(* _terminateWorker() does no scheduling before it calls _next.              *)
LEMMA PlainRemove ==
  ASSUME NEW w \in Workers, NEW how \in {"force", "soft"}
  PROVE  Remove(w, how) \in PlainFrames
BY FrameOfRemove DEF PlainFrames, SchedLabels, CreateLabels

(* A running method outside _next that goes on to such methods leaves a      *)
(* suspended _next where it is.                                              *)
LEMMA PlainStep ==
  ASSUME TypeOK, NEW l, l \notin SchedLabels, Running(l),
         NEW fs \in Seq(PlainFrames), Proceed(fs)
  PROVE  stack' \in Seq(Frames) /\ KeepsSched
BY PlainProceed DEF Running

-----------------------------------------------------------------------------
(* Steps that preserve the invariant.                                        *)

(* No worker is added, and none of the workers counted is counted twice.     *)
NoGrowth ==
  /\ Cardinality(workers') <= Cardinality(workers)
  /\ PhysicalWorkers' <= PhysicalWorkers
  /\ workers' \cap Quarantined' = {}
  /\ workers' \cup Quarantined' \subseteq workers \cup Quarantined
  /\ used' = used

(* The numbers of managed and quarantined workers are finite, so that the    *)
(* comparisons of _getAvailableWorker() are of numbers.                      *)
LEMMA CountsAreNat ==
  ASSUME TypeOK
  PROVE  /\ IsFiniteSet(workers) /\ IsFiniteSet(Quarantined)
         /\ Cardinality(workers) \in Nat /\ Cardinality(Quarantined) \in Nat
         /\ PhysicalWorkers \in Nat
         /\ Size \in Nat \ {0} /\ Buffer \in Nat /\ Limit \in Nat
<1>1. IsFiniteSet(workers) /\ IsFiniteSet(Quarantined)
  BY PoolAssumption, FS_Subset DEF TypeOK, Quarantined
<1>2. Cardinality(workers) \in Nat /\ Cardinality(Quarantined) \in Nat
  BY <1>1, FS_CardinalityType
<1> QED  BY <1>1, <1>2, PoolAssumption DEF PhysicalWorkers, Limit

(* They are finite after a step that keeps the types, too.                   *)
LEMMA NextCountsAreNat ==
  ASSUME TypeOK'
  PROVE  /\ IsFiniteSet(workers') /\ IsFiniteSet(Quarantined')
         /\ Cardinality(workers') \in Nat /\ PhysicalWorkers' \in Nat
<1>1. IsFiniteSet(workers') /\ IsFiniteSet(Quarantined')
  BY PoolAssumption, FS_Subset DEF TypeOK, Quarantined
<1>2. Cardinality(workers') \in Nat /\ Cardinality(Quarantined') \in Nat
  BY <1>1, FS_CardinalityType
<1> QED  BY <1>1, <1>2 DEF PhysicalWorkers

(* A step that leaves both sets of workers alone lets neither grow.          *)
LEMMA SameCounts ==
  ASSUME IInv, workers' = workers, Quarantined' = Quarantined, used' = used
  PROVE  NoGrowth
<1>1. PhysicalWorkers' = PhysicalWorkers
  BY DEF PhysicalWorkers
<1> QED  BY <1>1, CountsAreNat DEF IInv, Capacity, NoGrowth

(* A step that leaves the scheduling code where it is and adds no worker.    *)
LEMMA KeepStep ==
  ASSUME IInv, TypeOK', KeepsSched, NoGrowth,
         scheduling' = scheduling, creating' = creating
  PROVE  IInv'
<1>1. SchedulerExclusive'
  <2>1. \A i, j \in 1..Len(stack') :
          stack'[i].at \in SchedLabels /\ stack'[j].at \in SchedLabels => i = j
    BY DEF IInv, SchedulerExclusive, KeepsSched
  <2>2. (\E i \in 1..Len(stack') : stack'[i].at \in SchedLabels)
          <=> \E i \in 1..Len(stack) : stack[i].at \in SchedLabels
    BY DEF KeepsSched
  <2>3. (\E i \in 1..Len(stack') : stack'[i].at \in CreateLabels)
          <=> \E i \in 1..Len(stack) : stack[i].at \in CreateLabels
    BY DEF KeepsSched, SchedLabels
  <2> QED  BY <2>1, <2>2, <2>3 DEF IInv, SchedulerExclusive
<1>2. Capacity'
  <2>1. /\ Cardinality(workers') \in Nat /\ PhysicalWorkers' \in Nat
        /\ Cardinality(workers) \in Nat /\ PhysicalWorkers \in Nat
        /\ Size \in Nat /\ Limit \in Nat
    BY CountsAreNat, NextCountsAreNat DEF IInv
  <2>2. /\ Cardinality(workers') <= Size /\ PhysicalWorkers' <= Limit
        /\ Cardinality(workers) < Size => Cardinality(workers') < Size
        /\ PhysicalWorkers < Limit => PhysicalWorkers' < Limit
    BY <2>1 DEF IInv, Capacity, NoGrowth
  <2>3. ASSUME NEW i \in 1..Len(stack'),
               stack'[i].at \in {"construct", "discard"}
        PROVE  i \in 1..Len(stack) /\ stack[i] = stack'[i]
    BY <2>3 DEF KeepsSched, SchedLabels, CreateLabels
  <2> QED  BY <2>2, <2>3 DEF IInv, Capacity, NoGrowth
<1> QED  BY <1>1, <1>2 DEF IInv

(* A step that moves the scheduling code to f, which may be about to add a   *)
(* worker only if there is room.                                             *)
LEMMA MoveStep ==
  ASSUME IInv, TypeOK', stack # <<>>, Top.at \in SchedLabels,
         NEW f \in Frames, MovesSched(f),
         scheduling' = scheduling,
         creating' = IF f.at \in CreateLabels THEN 1 ELSE 0,
         Cardinality(workers') <= Size, PhysicalWorkers' <= Limit,
         workers' \cap Quarantined' = {},
         workers' \cup Quarantined' \subseteq used',
         f.at = "construct" =>
           Cardinality(workers') < Size /\ PhysicalWorkers' < Limit,
         f.at = "discard" =>
           /\ PhysicalWorkers' < Limit
           /\ f.w \in used' \ (workers' \cup Quarantined')
  PROVE  IInv'
<1> DEFINE n == Len(stack)
<1>1. /\ f.at \in SchedLabels
      /\ n \in 1..Len(stack') /\ stack'[n] = f
      /\ \A i \in 1..Len(stack') : stack'[i].at \in SchedLabels => i = n
  BY DEF MovesSched
<1>2. scheduling
  <2>1. Len(stack) \in 1..Len(stack)
    BY TopIsFrame DEF IInv, TypeOK
  <2> QED  BY <2>1 DEF IInv, SchedulerExclusive, Top
<1> HIDE DEF n
<1>3. (\E i \in 1..Len(stack') : stack'[i].at \in CreateLabels)
        <=> f.at \in CreateLabels
  BY <1>1 DEF SchedLabels
<1>4. SchedulerExclusive'
  BY <1>1, <1>2, <1>3 DEF SchedulerExclusive
<1>5. \A i \in 1..Len(stack') :
        stack'[i].at \in {"construct", "discard"} => stack'[i] = f
  BY <1>1 DEF SchedLabels, CreateLabels
<1>6. Capacity'
  BY <1>5 DEF Capacity
<1> QED  BY <1>4, <1>6 DEF IInv

(* The same for code that is not about to add a worker, when none is added.  *)
LEMMA MoveQuietly ==
  ASSUME IInv, TypeOK', stack # <<>>, Top.at \in SchedLabels,
         NEW f \in Frames, MovesSched(f), f.at \notin {"construct", "discard"},
         NoGrowth, scheduling' = scheduling,
         creating' = IF f.at \in CreateLabels THEN 1 ELSE 0
  PROVE  IInv'
<1>1. /\ Cardinality(workers') \in Nat /\ PhysicalWorkers' \in Nat
      /\ Cardinality(workers) \in Nat /\ PhysicalWorkers \in Nat
      /\ Size \in Nat /\ Limit \in Nat
  BY CountsAreNat, NextCountsAreNat DEF IInv
<1>2. Cardinality(workers') <= Size /\ PhysicalWorkers' <= Limit
  BY <1>1 DEF IInv, Capacity, NoGrowth
<1> QED  BY <1>2, MoveStep DEF IInv, Capacity, NoGrowth

(* What is known of the frame that runs.                                     *)
LEMMA RunningFrame ==
  ASSUME TypeOK, NEW l, Running(l)
  PROVE  /\ stack # <<>> /\ stack \in Seq(Frames)
         /\ Top \in Frames /\ Top.at = l
         /\ Top.w \in Workers \cup {NoWorker} /\ Top.ts \in Seq(Tasks)
         /\ l \in TaskLabels => Top.ts[1] \in Tasks
         /\ l \in WorkerLabels => Top.w \in Workers
         /\ l \in {"settle", "complete"} => Top.why \in Settlements
BY TopIsFrame DEF TypeOK, Running

(* A step that leaves alone what the bounds and the flags are about.         *)
LEMMA QuietStep ==
  ASSUME IInv, TypeOK', KeepsSched,
         UNCHANGED <<workers, used, tstate, scheduling, creating>>
  PROVE  IInv'
<1>1. NoGrowth
  BY SameCounts DEF Quarantined
<1> QED  BY <1>1, KeepStep

-----------------------------------------------------------------------------
(* What the queue operators return.                                          *)

(* remove() leaves a queue of tasks.                                         *)
LEMMA WithoutType ==
  ASSUME NEW q \in Seq(Tasks), NEW t \in Tasks
  PROVE  Without(q, t) \in Seq(Tasks)
<1> SUFFICES ASSUME t \in Elems(q)
             PROVE  Without(q, t) \in Seq(Tasks)
  BY DEF Without
<1> DEFINE i == IndexOf(q, t)
<1>1. i \in 1..Len(q) /\ Len(q) \in Nat
  BY DEF Elems, IndexOf
<1>2. \A j \in 1..Len(q) : q[j] \in Tasks
  BY ElementOfSeq
<1> HIDE DEF i
<1>3. /\ SubSeq(q, 1, i - 1) \in Seq(Tasks)
      /\ SubSeq(q, i + 1, Len(q)) \in Seq(Tasks)
  BY <1>1, <1>2, SubSeqProperties
<1> QED  BY <1>3, ConcatProperties DEF Without, i

(* Removing a queued task shortens the queue by one.                         *)
LEMMA WithoutLength ==
  ASSUME NEW q \in Seq(Tasks), NEW t \in Elems(q)
  PROVE  Len(Without(q, t)) = Len(q) - 1
<1> DEFINE i == IndexOf(q, t)
<1>1. i \in 1..Len(q) /\ Len(q) \in Nat
  BY DEF Elems, IndexOf
<1>2. \A j \in 1..Len(q) : q[j] \in Tasks
  BY ElementOfSeq
<1> HIDE DEF i
<1>3. /\ SubSeq(q, 1, i - 1) \in Seq(Tasks)
      /\ SubSeq(q, i + 1, Len(q)) \in Seq(Tasks)
      /\ Len(SubSeq(q, 1, i - 1)) = i - 1
      /\ Len(SubSeq(q, i + 1, Len(q))) = Len(q) - i
  BY <1>1, <1>2, SubSeqProperties
<1>4. Len(SubSeq(q, 1, i - 1) \o SubSeq(q, i + 1, Len(q)))
        = (i - 1) + (Len(q) - i)
  BY <1>3, ConcatProperties
<1> QED  BY <1>1, <1>4 DEF Without, i

(* insert() leaves a queue of tasks.                                         *)
LEMMA AppendType ==
  ASSUME NEW q \in Seq(Tasks), NEW t \in Tasks
  PROVE  Append(q, t) \in Seq(Tasks)
OBVIOUS

(* A part of a queue is a queue of tasks.                                    *)
LEMMA SubSeqType ==
  ASSUME NEW q \in Seq(Tasks), NEW a \in Int, NEW b \in Int,
         a >= 1, b <= Len(q)
  PROVE  SubSeq(q, a, b) \in Seq(Tasks)
BY ElementOfSeq, SubSeqProperties

(* enforceLimit() returns tasks and leaves a queue of tasks.                 *)
LEMMA LimitType ==
  ASSUME NEW q \in Seq(Tasks), NEW t \in Tasks
  PROVE  /\ Kept(q, t, MaxQueueSize, OverflowPolicy) \in Seq(Tasks)
         /\ Evicted(q, t, MaxQueueSize, OverflowPolicy) \in Seq(Tasks)
<1> DEFINE excess == Len(q) - MaxQueueSize
           rest == Without(q, t)
<1>1. MaxQueueSize \in Nat /\ Len(q) \in Nat /\ excess \in Int
  BY PoolAssumption
<1>2. ASSUME Len(q) > MaxQueueSize
      PROVE  /\ excess \in Nat \ {0} /\ excess <= Len(q)
             /\ SubSeq(q, 1, excess) \in Seq(Tasks)
             /\ SubSeq(q, excess + 1, Len(q)) \in Seq(Tasks)
  BY <1>1, <1>2, SubSeqType
<1>3. ASSUME Len(q) > MaxQueueSize, t \in Elems(q)
      PROVE  /\ SubSeq(rest, excess, Len(q) - 1) \in Seq(Tasks)
             /\ <<t>> \o SubSeq(rest, 1, excess - 1) \in Seq(Tasks)
  <2>1. rest \in Seq(Tasks) /\ Len(rest) = Len(q) - 1
    BY <1>3, WithoutType, WithoutLength
  <2> HIDE DEF rest
  <2>2. /\ SubSeq(rest, excess, Len(q) - 1) \in Seq(Tasks)
        /\ SubSeq(rest, 1, excess - 1) \in Seq(Tasks)
    BY <1>1, <1>2, <1>3, <2>1, SubSeqType
  <2>3. <<t>> \in Seq(Tasks)
    OBVIOUS
  <2> QED  BY <2>2, <2>3, ConcatProperties
<1> HIDE DEF rest, excess
<1>4. CASE Len(q) <= MaxQueueSize
  BY <1>1, <1>4, EmptySeq DEF Kept, Evicted
<1>5. CASE Len(q) > MaxQueueSize
  <2>1. ~(Len(q) <= MaxQueueSize)
    BY <1>1, <1>5
  <2> QED  BY <1>2, <1>3, <1>5, <2>1 DEF Kept, Evicted, rest, excess
<1> QED  BY <1>1, <1>4, <1>5

-----------------------------------------------------------------------------
(* Settling and submitting tasks.                                            *)

(* Settling a task gives it an outcome and disarms its timer.                *)
LEMMA SettleType ==
  ASSUME TypeOK, NEW t \in Tasks, NEW why \in Settlements, Settle(t, why)
  PROVE  /\ outcome' \in [Tasks -> {"unborn", "pending"} \cup Settlements]
         /\ armed' \subseteq Tasks
BY DEF TypeOK, Settle

(* A lifecycle event of a task is announced to the observer or to nobody.    *)
LEMMA AnnounceType ==
  ASSUME NEW t
  PROVE  /\ Announce(t) \in Callbacks \cup {"none"}
         /\ Announce(t) \in {"event", "none"}
BY DEF Announce, Callbacks

(* The frame that waits for that observer does no scheduling.                *)
LEMMA PlainAnnounce ==
  ASSUME NEW t, NEW f \in PlainFrames
  PROVE  Yield(Announce(t), f) \in PlainFrames
BY AnnounceType, PlainYield

(* A task whose deadline has passed fails its worker by code outside _next.  *)
LEMMA ExpireType ==
  ASSUME TypeOK, NEW t \in Tasks
  PROVE  ExpireTask(t) \in Seq(PlainFrames)
<1> SUFFICES ASSUME Hosts(t) # {}
             PROVE  <<Fail(CHOOSE w \in Hosts(t) : TRUE, <<t>>)>>
                      \in Seq(PlainFrames)
  BY DEF ExpireTask
<1> DEFINE host == CHOOSE w \in Hosts(t) : TRUE
<1>1. host \in Workers
  BY DEF Hosts, TypeOK
<1> HIDE DEF host
<1>2. Fail(host, <<t>>) \in PlainFrames
  <2>1. <<t>> \in Seq(Tasks)
    OBVIOUS
  <2> QED  BY <1>1, <2>1, PlainFail
<1> QED  BY <1>2 DEF host

(* The loops that settle tasks (_rejectTasks, clearing the queue) keep the   *)
(* invariant.                                                                *)
LEMMA SettlingKeepsIInv ==
  ASSUME IInv, SettleNext \/ SettleDone
  PROVE  IInv'
<1> USE DEF IInv, poolVars, taskVars, settleVars, workerVars, schedVars,
           termVars, data
<1>1. CASE SettleNext
  <2> DEFINE t == Head(Top.ts)
             rest == Tail(Top.ts)
             why == Top.why
  <2>1. t \in Tasks /\ rest \in Seq(Tasks) /\ why \in Settlements
    BY <1>1, RunningFrame, HeadTailProperties DEF SettleNext
  <2>2. /\ Settle(t, why)
        /\ Proceed(<<Yield(Announce(t), SettleEach(rest, why))>>)
    BY <1>1 DEF SettleNext
  <2> HIDE DEF t, rest, why
  <2>3. <<Yield(Announce(t), SettleEach(rest, why))>> \in Seq(PlainFrames)
    BY <2>1, PlainSettleEach, PlainAnnounce
  <2>4. stack' \in Seq(Frames) /\ KeepsSched
    BY <1>1, <2>2, <2>3, PlainStep DEF SettleNext, SchedLabels, CreateLabels
  <2>5. TypeOK'
    BY <1>1, <2>1, <2>2, <2>4, SettleType DEF TypeOK, SettleNext
  <2> QED  BY <1>1, <2>4, <2>5, QuietStep DEF SettleNext
<1>2. CASE SettleDone
  <2>1. <<>> \in Seq(PlainFrames)
    BY <1>2, RunningFrame DEF SettleDone
  <2>2. stack' \in Seq(Frames) /\ KeepsSched
    BY <1>2, <2>1, PlainStep DEF SettleDone, SchedLabels, CreateLabels
  <2>3. TypeOK'
    BY <1>2, <2>2 DEF TypeOK, SettleDone
  <2> QED
    BY <1>2, <2>2, <2>3, QuietStep DEF SettleDone
<1> QED  BY <1>1, <1>2

(* run(), from the call to the enforcement of the queue bound, keeps it.     *)
LEMMA SubmissionKeepsIInv ==
  ASSUME IInv, Insert \/ SignalThrows \/ Arm \/ ArmLate \/ EnforceQueueLimit
  PROVE  IInv'
<1> USE DEF IInv, poolVars, taskVars, settleVars, workerVars, schedVars,
           termVars, data
<1>1. CASE Insert
  <2>1. (IF Pending(Top.ts[1])
         THEN <<Yield("event", For("arm", Top.ts[1]))>> ELSE <<>>)
          \in Seq(PlainFrames)
    BY <1>1, RunningFrame, PlainFors, PlainYield DEF Insert, TaskLabels,
       Callbacks
  <2>2. stack' \in Seq(Frames) /\ KeepsSched
    BY <1>1, <2>1, PlainStep DEF Insert, SchedLabels, CreateLabels
  <2>3. TypeOK'
    BY <1>1, <2>2, RunningFrame, AppendType DEF TypeOK, Insert, TaskLabels
  <2> QED
    BY <1>1, <2>2, <2>3, QuietStep DEF Insert
<1>2. CASE SignalThrows
  <2>1. <<Yield(Announce(Top.ts[1]), At("stats"))>> \in Seq(PlainFrames)
    BY <1>2, RunningFrame, PlainAts, PlainAnnounce DEF SignalThrows
  <2>2. stack' \in Seq(Frames) /\ KeepsSched
    BY <1>2, <2>1, PlainStep DEF SignalThrows, SchedLabels, CreateLabels
  <2>3. TypeOK'
    BY <1>2, <2>2, RunningFrame, SettleType DEF TypeOK, SignalThrows,
       TaskLabels, Settlements
  <2> QED
    BY <1>2, <2>2, <2>3, QuietStep DEF SignalThrows
<1>3. CASE Arm
  <2>1. ScheduleThenEnforce(Top.ts[1]) \in Seq(PlainFrames)
    BY <1>3, RunningFrame, PlainAts, PlainFors DEF Arm, TaskLabels,
       ScheduleThenEnforce
  <2>2. stack' \in Seq(Frames) /\ KeepsSched
    BY <1>3, <2>1, PlainStep DEF Arm, SchedLabels, CreateLabels
  <2>3. TypeOK'
    BY <1>3, <2>2, RunningFrame DEF TypeOK, Arm, TaskLabels
  <2> QED
    BY <1>3, <2>2, <2>3, QuietStep DEF Arm
<1>4. CASE ArmLate
  <2>1. (ScheduleThenEnforce(Top.ts[1])
           \o <<Yield("event", At("stats"))>>) \in Seq(PlainFrames)
    BY <1>4, RunningFrame, PlainAts, PlainFors, PlainYield, ConcatProperties
       DEF ArmLate, TaskLabels, ScheduleThenEnforce, Callbacks
  <2>2. stack' \in Seq(Frames) /\ KeepsSched
    BY <1>4, <2>1, PlainStep DEF ArmLate, SchedLabels, CreateLabels
  <2>3. TypeOK'
    BY ZenonT(40), <1>4, <2>2, RunningFrame, SettleType, WithoutType
       DEF TypeOK, ArmLate, TaskLabels, Settlements
  <2> QED
    BY <1>4, <2>2, <2>3, QuietStep DEF ArmLate
<1>5. CASE EnforceQueueLimit
  <2> DEFINE t == Top.ts[1]
             why == IF OverflowPolicy = "drop-oldest" THEN "dropped"
                    ELSE "queue-rejected"
             gone == Evicted(queue, t, MaxQueueSize, OverflowPolicy)
  <2>1. /\ t \in Tasks /\ why \in Settlements
        /\ gone \in Seq(Tasks)
        /\ Kept(queue, t, MaxQueueSize, OverflowPolicy) \in Seq(Tasks)
    BY <1>5, RunningFrame, LimitType
       DEF EnforceQueueLimit, TaskLabels, Settlements, TypeOK
  <2> HIDE DEF why, gone
  <2>2. <<At("stats"), SettleEach(gone, why)>> \in Seq(PlainFrames)
    BY <2>1, PlainAts, PlainSettleEach
  <2>3. stack' \in Seq(Frames) /\ KeepsSched
    BY <1>5, <2>2, PlainStep
       DEF EnforceQueueLimit, SchedLabels, CreateLabels, why, gone
  <2>4. TypeOK'
    BY <1>5, <2>1, <2>3 DEF TypeOK, EnforceQueueLimit
  <2> QED  BY <1>5, <2>3, <2>4, QuietStep DEF EnforceQueueLimit
<1> QED  BY <1>1, <1>2, <1>3, <1>4, <1>5

(* Submissions, aborts and queue timers, called from user code or the event  *)
(* loop, keep it.                                                            *)
LEMMA CallersKeepIInv ==
  ASSUME IInv, \/ \E p \in Priorities, timed \in QueueTimed : Run(p, timed)
               \/ \E t \in Tasks : Abort(t) \/ QueueTimer(t)
  PROVE  IInv'
<1> USE DEF IInv, poolVars, taskVars, settleVars, workerVars, schedVars,
           termVars, data
<1>1. ASSUME NEW p \in Priorities, NEW timed \in QueueTimed, Run(p, timed)
      PROVE  IInv'
  <2>1. <<Yield("signal", For("insert", submittedTasks + 1))>>
          \in Seq(PlainFrames)
    BY <1>1, PlainFors, PlainYield, PoolAssumption DEF Run, TaskLabels,
       Callbacks, TypeOK, Tasks
  <2>2. stack' \in Seq(Frames) /\ KeepsSched
    BY <1>1, <2>1, PlainCall DEF Run
  <2>3. TypeOK'
    BY <1>1, <2>2, PoolAssumption DEF TypeOK, Run, UserCall, Tasks
  <2> QED
    BY <1>1, <2>2, <2>3, QuietStep DEF Run
<1>2. ASSUME NEW t \in Tasks, Abort(t)
      PROVE  IInv'
  <2>1. <<Yield("event", At("stats"))>> \in Seq(PlainFrames)
    BY PlainAts, PlainYield DEF Callbacks
  <2>2. stack' \in Seq(Frames) /\ KeepsSched
    BY <1>2, <2>1, PlainCall DEF Abort
  <2>3. /\ outcome' \in [Tasks -> {"unborn", "pending"} \cup Settlements]
        /\ armed' \subseteq Tasks
    BY <1>2, SettleType DEF Abort, Settlements
  <2>4. queue' \in Seq(Tasks) /\ reentries' \in Nat
    BY <1>2, WithoutType DEF Abort, UserCall, TypeOK
  <2>5. TypeOK'
    BY <1>2, <2>2, <2>3, <2>4 DEF TypeOK, Abort
  <2> QED  BY <1>2, <2>2, <2>5, QuietStep DEF Abort
<1>3. ASSUME NEW t \in Tasks, QueueTimer(t)
      PROVE  IInv'
  <2>1. <<Yield("event", At("stats"))>> \in Seq(PlainFrames)
    BY <1>3, PlainAts, PlainYield DEF QueueTimer, Callbacks
  <2>2. stack' \in Seq(Frames) /\ KeepsSched
    BY <1>3, <2>1, PlainCall DEF QueueTimer
  <2>3. TypeOK'
    BY ZenonT(40), <1>3, <2>2, SettleType, WithoutType
       DEF TypeOK, QueueTimer, EventLoop, Settlements
  <2> QED
    BY <1>3, <2>2, <2>3, QuietStep DEF QueueTimer
<1> QED  BY <1>1, <1>2, <1>3

-----------------------------------------------------------------------------
(* Steps of the scheduling code.                                             *)

(* The steps of _next and _getAvailableWorker() that are about no worker.    *)
LEMMA SchedAts ==
  \A l \in {"loop", "pick", "broken", "endpass", "passend", "construct",
            "uncreated", "finally"} :
    At(l) \in Frames /\ At(l).at = l
<1> TAKE l \in {"loop", "pick", "broken", "endpass", "passend", "construct",
                "uncreated", "finally"}
<1>1. /\ l \in Labels
      /\ l \notin TaskLabels \cup WorkerLabels \cup {"settle"}
  BY DEF Labels, TaskLabels, WorkerLabels, SchedLabels, CreateLabels
<1> QED  BY <1>1, FrameOfAt

(* Those that are about the worker found or made.                            *)
LEMMA SchedOns ==
  ASSUME NEW w \in Workers
  PROVE  \A l \in {"got", "created", "discard", "finally"} :
           /\ On(l, w) \in Frames
           /\ On(l, w).at = l /\ On(l, w).w = w
<1> TAKE l \in {"got", "created", "discard", "finally"}
<1>1. l \in Labels /\ l \notin TaskLabels \cup {"settle"} /\ w # NoWorker
  BY PoolAssumption DEF Labels, TaskLabels, SchedLabels, CreateLabels
<1> QED  BY <1>1, FrameOfOn

(* Leaving the creation of a worker by an exception.                         *)
LEMMA SchedBroken ==
  LET f == [At("finally") EXCEPT !.why = "broken"]
  IN  f \in Frames /\ f.at = "finally"
<1> <<>> \in Seq(Tasks)  OBVIOUS
<1> QED  BY DEF At, Frames, Labels, SchedLabels, CreateLabels, TaskLabels, WorkerLabels

(* Scheduling code that goes on as f is still the only scheduling code.      *)
LEMMA SchedTo ==
  ASSUME IInv, NEW l \in SchedLabels, Running(l),
         NEW f \in Frames, f.at \in SchedLabels, Proceed(<<f>>)
  PROVE  stack' \in Seq(Frames) /\ MovesSched(f)
<1> DEFINE gs == <<f>>
<1>1. /\ gs \in Seq(Frames) /\ gs # <<>> /\ gs[1] = f
      /\ \A i \in 2..Len(gs) : gs[i].at \notin SchedLabels
  OBVIOUS
<1>2. stack # <<>> /\ Top.at \in SchedLabels /\ Proceed(gs)
  BY DEF Running
<1> HIDE DEF gs
<1> QED  BY <1>1, <1>2, SchedProceed DEF IInv

(* So is scheduling code that first runs g, which does no scheduling.        *)
LEMMA SchedToAfter ==
  ASSUME IInv, NEW l \in SchedLabels, Running(l), NEW f \in Frames,
         f.at \in SchedLabels, NEW g \in PlainFrames, Proceed(<<f, g>>)
  PROVE  stack' \in Seq(Frames) /\ MovesSched(f)
<1> DEFINE gs == <<f, g>>
<1>1. g \in Frames /\ g.at \notin SchedLabels
  BY DEF PlainFrames
<1>2. /\ gs \in Seq(Frames) /\ gs # <<>> /\ gs[1] = f
      /\ \A i \in 2..Len(gs) : gs[i].at \notin SchedLabels
  <2>1. Len(gs) = 2 /\ gs[2] = g
    OBVIOUS
  <2>2. \A i \in 2..Len(gs) : i = 2
    BY <2>1
  <2> QED  BY <1>1, <2>1, <2>2
<1>3. stack # <<>> /\ Top.at \in SchedLabels /\ Proceed(gs)
  BY DEF Running
<1> HIDE DEF gs
<1> QED  BY <1>2, <1>3, SchedProceed DEF IInv

(* workerCreationsInProgress counts the running code if it creates a worker. *)
LEMMA CreatingOfRunning ==
  ASSUME IInv, NEW l \in SchedLabels, Running(l)
  PROVE  creating = IF l \in CreateLabels THEN 1 ELSE 0
<1>1. Len(stack) \in 1..Len(stack) /\ stack[Len(stack)].at = l
  BY RunningFrame, TopIsFrame DEF IInv, TypeOK, Top
<1>2. \A i \in 1..Len(stack) :
        stack[i].at \in CreateLabels => i = Len(stack)
  BY <1>1 DEF IInv, SchedulerExclusive, SchedLabels
<1>3. (\E i \in 1..Len(stack) : stack[i].at \in CreateLabels)
        <=> l \in CreateLabels
  BY <1>1, <1>2
<1> QED  BY <1>3 DEF IInv, SchedulerExclusive

(* Scheduling code that leaves the workers and the flags alone keeps the     *)
(* invariant.                                                                *)
LEMMA QuietMove ==
  ASSUME IInv, TypeOK', NEW l \in SchedLabels, Running(l),
         NEW f \in Frames, MovesSched(f), f.at \notin {"construct", "discard"},
         f.at \in CreateLabels <=> l \in CreateLabels,
         UNCHANGED <<workers, used, tstate, scheduling, creating>>
  PROVE  IInv'
<1>1. NoGrowth
  BY SameCounts DEF Quarantined
<1>2. stack # <<>> /\ Top.at \in SchedLabels
  BY DEF Running
<1>3. creating' = IF f.at \in CreateLabels THEN 1 ELSE 0
  BY CreatingOfRunning
<1> QED  BY <1>1, <1>2, <1>3, MoveQuietly

(* The passes of _next over the queue keep it.                               *)
LEMMA PassesKeepIInv ==
  ASSUME IInv, Loop \/ EndPass \/ RejectQueue \/ NextPass \/ RejectBacklog
           \/ NextSkipped
  PROVE  IInv'
<1> USE DEF IInv, poolVars, taskVars, settleVars, workerVars, schedVars,
           termVars, data
<1>1. CASE Loop
  <2> DEFINE f == At(IF queue = <<>> \/ terminationStarted
                     THEN "endpass" ELSE "pick")
  <2>1. /\ f \in Frames /\ f.at \in SchedLabels
        /\ f.at \notin {"construct", "discard"}
        /\ f.at \in CreateLabels <=> "loop" \in CreateLabels
    BY <1>1, RunningFrame, SchedAts DEF Loop, SchedLabels, CreateLabels
  <2>2. Proceed(<<f>>)
    BY <1>1 DEF Loop
  <2> HIDE DEF f
  <2>3. stack' \in Seq(Frames) /\ MovesSched(f)
    BY <1>1, <2>1, <2>2, SchedTo DEF Loop, SchedLabels, CreateLabels
  <2>4. TypeOK'
    BY <1>1, <2>3 DEF TypeOK, Loop
  <2> QED
    BY <1>1, <2>1, <2>3, <2>4, QuietMove DEF Loop, SchedLabels, CreateLabels
<1>2. CASE EndPass
  <2>1. /\ At("passend") \in Frames
        /\ At("passend").at \in SchedLabels
        /\ At("passend").at \notin {"construct", "discard"}
        /\ At("passend").at \in CreateLabels <=> "endpass" \in CreateLabels
    BY <1>2, RunningFrame, SchedAts DEF EndPass, SchedLabels, CreateLabels
  <2>2. stack' \in Seq(Frames) /\ MovesSched(At("passend"))
    BY <1>2, <2>1, SchedTo DEF EndPass, SchedLabels, CreateLabels
  <2>3. TypeOK'
    BY <1>2, <2>2 DEF TypeOK, EndPass
  <2> QED
    BY <1>2, <2>1, <2>2, <2>3, QuietMove DEF EndPass, SchedLabels,
       CreateLabels
<1>3. CASE RejectQueue
  <2>1. /\ At("passend") \in Frames
        /\ At("passend").at \in SchedLabels
        /\ At("passend").at \notin {"construct", "discard"}
        /\ At("passend").at \in CreateLabels <=> "endpass" \in CreateLabels
        /\ SettleEach(queue, "rejected") \in PlainFrames
    BY <1>3, RunningFrame, SchedAts, PlainSettleEach DEF RejectQueue,
       SchedLabels, CreateLabels, TypeOK, Settlements
  <2>2. stack' \in Seq(Frames) /\ MovesSched(At("passend"))
    BY <1>3, <2>1, SchedToAfter DEF RejectQueue, SchedLabels, CreateLabels
  <2>3. TypeOK'
    BY <1>3, <2>2 DEF TypeOK, RejectQueue
  <2> QED
    BY <1>3, <2>1, <2>2, <2>3, QuietMove DEF RejectQueue, SchedLabels,
       CreateLabels
<1>4. CASE NextPass
  <2>1. /\ At("loop") \in Frames
        /\ At("loop").at \in SchedLabels
        /\ At("loop").at \notin {"construct", "discard"}
        /\ At("loop").at \in CreateLabels <=> "passend" \in CreateLabels
    BY <1>4, RunningFrame, SchedAts DEF NextPass, SchedLabels, CreateLabels
  <2>2. stack' \in Seq(Frames) /\ MovesSched(At("loop"))
    BY <1>4, <2>1, SchedTo DEF NextPass, SchedLabels, CreateLabels
  <2>3. TypeOK'
    BY <1>4, <2>2 DEF TypeOK, NextPass, Stuck
  <2> QED
    BY <1>4, <2>1, <2>2, <2>3, QuietMove DEF NextPass, SchedLabels,
       CreateLabels
<1>5. CASE RejectBacklog
  <2>1. /\ At("endpass") \in Frames
        /\ At("endpass").at \in SchedLabels
        /\ At("endpass").at \notin {"construct", "discard"}
        /\ At("endpass").at \in CreateLabels <=> "broken" \in CreateLabels
        /\ SettleEach(queue, "rejected") \in PlainFrames
    BY <1>5, RunningFrame, SchedAts, PlainSettleEach DEF RejectBacklog,
       SchedLabels, CreateLabels, TypeOK, Settlements
  <2>2. stack' \in Seq(Frames) /\ MovesSched(At("endpass"))
    BY <1>5, <2>1, SchedToAfter DEF RejectBacklog, SchedLabels, CreateLabels
  <2>3. TypeOK'
    BY <1>5, <2>2 DEF TypeOK, RejectBacklog
  <2> QED
    BY <1>5, <2>1, <2>2, <2>3, QuietMove DEF RejectBacklog, SchedLabels,
       CreateLabels
<1>6. CASE NextSkipped
  <2>1. <<>> \in Seq(PlainFrames)
    OBVIOUS
  <2>2. stack' \in Seq(Frames) /\ KeepsSched
    BY <1>6, <2>1, PlainStep DEF NextSkipped, SchedLabels, CreateLabels
  <2>3. TypeOK'
    BY <1>6, <2>2 DEF TypeOK, NextSkipped
  <2> QED
    BY <1>6, <2>2, <2>3, QuietStep DEF NextSkipped
<1> QED  BY <1>1, <1>2, <1>3, <1>4, <1>5, <1>6

(* _getAvailableWorker() keeps it where it adds no worker: the choice to     *)
(* create is made only when there is room.                                   *)
LEMMA ChoicesKeepIInv ==
  ASSUME IInv, \/ \E w \in Workers : PickIdle(w) \/ PickExpired(w)
               \/ GotNothing \/ GotExpired \/ ConstructThrows
               \/ CreatedReady \/ CreatedTooLate \/ PickLoaded \/ Uncreated
               \/ CreatedExpired
  PROVE  IInv'
<1> USE DEF IInv, poolVars, taskVars, settleVars, workerVars, schedVars,
           termVars, data
<1>1. ASSUME NEW w \in Workers, PickIdle(w)
      PROVE  IInv'
  <2>1. /\ On("got", w) \in Frames
        /\ On("got", w).at \in SchedLabels
        /\ On("got", w).at \notin {"construct", "discard"}
        /\ On("got", w).at \in CreateLabels <=> "pick" \in CreateLabels
    BY <1>1, RunningFrame, SchedOns DEF PickIdle, SchedLabels, CreateLabels
  <2>2. stack' \in Seq(Frames) /\ MovesSched(On("got", w))
    BY <1>1, <2>1, SchedTo DEF PickIdle, SchedLabels, CreateLabels
  <2>3. TypeOK'
    BY <1>1, <2>2 DEF TypeOK, PickIdle
  <2> QED
    BY <1>1, <2>1, <2>2, <2>3, QuietMove DEF PickIdle, SchedLabels,
       CreateLabels
<1>2. ASSUME NEW w \in Workers, PickExpired(w)
      PROVE  IInv'
  <2>1. /\ At("pick") \in Frames
        /\ At("pick").at \in SchedLabels
        /\ At("pick").at \notin {"construct", "discard"}
        /\ At("pick").at \in CreateLabels <=> "pick" \in CreateLabels
        /\ Remove(w, "soft") \in PlainFrames
    BY <1>2, RunningFrame, SchedAts, PlainRemove DEF PickExpired, SchedLabels,
       CreateLabels
  <2>2. stack' \in Seq(Frames) /\ MovesSched(At("pick"))
    BY <1>2, <2>1, SchedToAfter DEF PickExpired, SchedLabels, CreateLabels
  <2>3. TypeOK'
    BY <1>2, <2>2 DEF TypeOK, PickExpired
  <2> QED
    BY <1>2, <2>1, <2>2, <2>3, QuietMove DEF PickExpired, SchedLabels,
       CreateLabels
<1>3. CASE GotNothing
  <2>1. /\ At("endpass") \in Frames
        /\ At("endpass").at \in SchedLabels
        /\ At("endpass").at \notin {"construct", "discard"}
        /\ At("endpass").at \in CreateLabels <=> "got" \in CreateLabels
    BY <1>3, RunningFrame, SchedAts DEF GotNothing, SchedLabels, CreateLabels
  <2>2. stack' \in Seq(Frames) /\ MovesSched(At("endpass"))
    BY <1>3, <2>1, SchedTo DEF GotNothing, SchedLabels, CreateLabels
  <2>3. TypeOK'
    BY <1>3, <2>2 DEF TypeOK, GotNothing
  <2> QED
    BY <1>3, <2>1, <2>2, <2>3, QuietMove DEF GotNothing, SchedLabels,
       CreateLabels
<1>4. CASE GotExpired
  <2> DEFINE f == Yield("event", At("loop"))
  <2>1. PICK t \in Tasks : /\ queue' = Without(queue, t)
                           /\ Settle(t, "queue-timeout") /\ Proceed(<<f>>)
    <3>1. Elems(queue) \subseteq Tasks
      BY ElementOfSeq DEF Elems, TypeOK
    <3> QED  BY <1>4, <3>1 DEF GotExpired, Firsts
  <2>2. f \in Frames /\ f.at = "loop"
    BY SchedAts, FrameOfYield DEF Callbacks
  <2>3. stack' \in Seq(Frames) /\ MovesSched(f)
    BY <1>4, <2>1, <2>2, SchedTo DEF GotExpired, SchedLabels, CreateLabels
  <2>4. TypeOK'
    <3>1. queue' \in Seq(Tasks)
      BY <2>1, WithoutType DEF TypeOK
    <3>2. /\ outcome' \in [Tasks -> {"unborn", "pending"} \cup Settlements]
          /\ armed' \subseteq Tasks
      BY <2>1, SettleType DEF Settlements
    <3> QED  BY <1>4, <2>3, <3>1, <3>2 DEF TypeOK, GotExpired
  <2> QED
    BY <1>4, <2>2, <2>3, <2>4, QuietMove
       DEF GotExpired, SchedLabels, CreateLabels
<1>5. CASE ConstructThrows
  <2>1. /\ At("uncreated") \in Frames
        /\ At("uncreated").at \in SchedLabels
        /\ At("uncreated").at \notin {"construct", "discard"}
        /\ At("uncreated").at \in CreateLabels <=> "construct" \in CreateLabels
    BY <1>5, RunningFrame, SchedAts DEF ConstructThrows, SchedLabels,
       CreateLabels
  <2>2. stack' \in Seq(Frames) /\ MovesSched(At("uncreated"))
    BY <1>5, <2>1, SchedTo DEF ConstructThrows, SchedLabels, CreateLabels
  <2>3. TypeOK'
    BY <1>5, <2>2 DEF TypeOK, ConstructThrows
  <2> QED
    BY <1>5, <2>1, <2>2, <2>3, QuietMove DEF ConstructThrows, SchedLabels,
       CreateLabels
<1>6. CASE CreatedReady
  <2>1. /\ On("finally", Top.w) \in Frames
        /\ On("finally", Top.w).at \in SchedLabels
        /\ On("finally", Top.w).at \notin {"construct", "discard"}
        /\ On("finally", Top.w).at \in CreateLabels
             <=> "created" \in CreateLabels
    BY <1>6, RunningFrame, SchedOns DEF CreatedReady, SchedLabels,
       CreateLabels, TypeOK
  <2>2. stack' \in Seq(Frames) /\ MovesSched(On("finally", Top.w))
    BY <1>6, <2>1, SchedTo DEF CreatedReady, SchedLabels, CreateLabels
  <2>3. TypeOK'
    BY <1>6, <2>2 DEF TypeOK, CreatedReady
  <2> QED
    BY <1>6, <2>1, <2>2, <2>3, QuietMove DEF CreatedReady, SchedLabels,
       CreateLabels
<1>7. CASE CreatedTooLate
  <2>1. /\ At("finally") \in Frames
        /\ At("finally").at \in SchedLabels
        /\ At("finally").at \notin {"construct", "discard"}
        /\ At("finally").at \in CreateLabels <=> "created" \in CreateLabels
        /\ Remove(Top.w, "force") \in PlainFrames
    BY <1>7, RunningFrame, SchedAts, PlainRemove DEF CreatedTooLate,
       WorkerLabels, SchedLabels, CreateLabels
  <2>2. stack' \in Seq(Frames) /\ MovesSched(At("finally"))
    BY <1>7, <2>1, SchedToAfter DEF CreatedTooLate, SchedLabels, CreateLabels
  <2>3. TypeOK'
    BY <1>7, <2>2 DEF TypeOK, CreatedTooLate
  <2> QED
    BY <1>7, <2>1, <2>2, <2>3, QuietMove DEF CreatedTooLate, SchedLabels,
       CreateLabels
<1>8. CASE PickLoaded
  <2>1. \E f \in Frames : /\ f.at \in {"got", "endpass"}
                           /\ Proceed(<<f>>)
    <3>1. LeastLoaded \subseteq Workers
      BY DEF LeastLoaded, TypeOK
    <3> QED  BY <1>8, <3>1, SchedAts, SchedOns DEF PickLoaded
  <2>2. PICK f \in Frames : f.at \in {"got", "endpass"} /\ Proceed(<<f>>)
    BY <2>1
  <2>3. stack' \in Seq(Frames) /\ MovesSched(f)
    BY <1>8, <2>2, SchedTo DEF PickLoaded, SchedLabels, CreateLabels
  <2>4. TypeOK'
    BY <1>8, <2>3 DEF TypeOK, PickLoaded, MarkExpired
  <2> QED
    BY <1>8, <2>2, <2>3, <2>4, QuietMove
       DEF PickLoaded, SchedLabels, CreateLabels
<1>9. CASE Uncreated
  <2>1. \E f \in Frames : f.at = "finally" /\ Proceed(<<f>>)
    <3>1. LeastLoaded \subseteq Workers
      BY DEF LeastLoaded, TypeOK
    <3> QED  BY <1>9, <3>1, SchedBroken, SchedOns DEF Uncreated
  <2>2. PICK f \in Frames : f.at = "finally" /\ Proceed(<<f>>)
    BY <2>1
  <2>3. stack' \in Seq(Frames) /\ MovesSched(f)
    BY <1>9, <2>2, SchedTo DEF Uncreated, SchedLabels, CreateLabels
  <2>4. TypeOK'
    BY <1>9, <2>3 DEF TypeOK, Uncreated, MarkExpired
  <2> QED
    BY <1>9, <2>2, <2>3, <2>4, QuietMove
       DEF Uncreated, SchedLabels, CreateLabels
<1>10. CASE CreatedExpired
  <2> DEFINE gs == <<At("finally"), At("stats"), At("next"),
                     Remove(Top.w, "soft")>>
  <2>1. /\ At("finally") \in Frames /\ At("finally").at = "finally"
        /\ At("stats") \in PlainFrames /\ At("next") \in PlainFrames
        /\ Remove(Top.w, "soft") \in PlainFrames
    BY <1>10, RunningFrame, SchedAts, PlainAts, PlainRemove DEF CreatedExpired,
       WorkerLabels
  <2>2. /\ gs \in Seq(Frames) /\ gs # <<>> /\ gs[1] = At("finally")
        /\ \A i \in 2..Len(gs) : gs[i].at \notin SchedLabels
    <3>1. Len(gs) = 4 /\ \A i \in 2..Len(gs) : i \in {2, 3, 4}
      OBVIOUS
    <3>2. /\ gs[2] \in PlainFrames /\ gs[3] \in PlainFrames
          /\ gs[4] \in PlainFrames
      BY <2>1
    <3>3. \A f \in PlainFrames : f \in Frames /\ f.at \notin SchedLabels
      BY DEF PlainFrames
    <3>4. gs \in Seq(Frames) /\ gs # <<>> /\ gs[1] = At("finally")
      BY <2>1, <3>3
    <3> HIDE DEF gs
    <3> QED  BY <3>1, <3>2, <3>3, <3>4
  <2>3. Proceed(gs) /\ stack # <<>> /\ Top.at = "created"
    BY <1>10 DEF CreatedExpired, Running
  <2> HIDE DEF gs
  <2>4. stack' \in Seq(Frames) /\ MovesSched(At("finally"))
    BY <2>1, <2>2, <2>3, SchedProceed DEF SchedLabels, CreateLabels
  <2>5. TypeOK'
    BY <1>10, <2>4 DEF TypeOK, CreatedExpired
  <2> QED
    BY <1>10, <2>1, <2>4, <2>5, QuietMove
       DEF CreatedExpired, SchedLabels, CreateLabels
<1> QED  BY <1>1, <1>2, <1>3, <1>4, <1>5, <1>6, <1>7, <1>8, <1>9, <1>10

(* Entering and leaving _next keep it: the flag "scheduling" is set exactly  *)
(* while its code is on the stack.                                           *)
LEMMA FlagKeepsIInv ==
  ASSUME IInv, NextStarts \/ NextReturns
  PROVE  IInv'
<1> USE DEF IInv, poolVars, taskVars, settleVars, workerVars, schedVars,
           termVars, data
<1>1. CASE NextStarts
  <2> DEFINE f == At("loop")
  <2>1. f \in Frames /\ f.at = "loop"
    BY SchedAts
  <2>2. \A i \in 1..Len(stack) : stack[i].at \notin SchedLabels
    BY <1>1 DEF NextStarts, SchedulerExclusive
  <2>3. Proceed(<<f>>) /\ stack # <<>> /\ stack \in Seq(Frames)
    BY <1>1, RunningFrame DEF NextStarts
  <2>4. /\ stack' \in Seq(Frames) /\ Len(stack') = Len(stack)
        /\ \A i \in 1..(Len(stack) - 1) : stack'[i] = stack[i]
        /\ stack'[Len(stack)] = f
    <3>1. <<f>> \in Seq(Frames) /\ Len(<<f>>) = 1 /\ <<f>>[1] = f
      BY <2>1
    <3>2. /\ stack' \in Seq(Frames) /\ Len(stack') = Len(stack) - 1 + 1
          /\ \A i \in 1..(Len(stack) - 1) : stack'[i] = stack[i]
          /\ \A i \in 1..1 : stack'[Len(stack) - 1 + i] = <<f>>[i]
      BY <2>3, <3>1, ProceedStack
    <3>3. Len(stack) \in Nat \ {0} /\ Len(stack) - 1 + 1 = Len(stack)
      BY <2>3
    <3> QED  BY <3>1, <3>2, <3>3
  <2> HIDE DEF f
  <2>5. MovesSched(f)
    <3>1. Len(stack) \in Nat \ {0}
      BY <2>3
    <3>2. Len(stack) \in 1..Len(stack')
      BY <2>4, <3>1
    <3>3. ASSUME NEW i \in 1..Len(stack'), i # Len(stack)
          PROVE  stack'[i].at \notin SchedLabels
      <4>1. i \in 1..(Len(stack) - 1) /\ i \in 1..Len(stack)
        BY <2>4, <3>1, <3>3
      <4> QED  BY <2>2, <2>4, <4>1
    <3> QED  BY <2>1, <2>4, <3>2, <3>3 DEF MovesSched, SchedLabels
  <2>6. TypeOK'
    BY <1>1, <2>4 DEF TypeOK, NextStarts
  <2>7. SchedulerExclusive'
    <3>1. creating = 0
      BY <2>2 DEF SchedulerExclusive, SchedLabels
    <3>2. \A i \in 1..Len(stack') : stack'[i].at \notin CreateLabels
      BY <2>1, <2>4, <2>5 DEF MovesSched, SchedLabels, CreateLabels
    <3>3. scheduling' = TRUE /\ creating' = creating
      BY <1>1 DEF NextStarts
    <3> QED  BY <2>5, <3>1, <3>2, <3>3 DEF SchedulerExclusive, MovesSched
  <2>8. Capacity'
    <3>1. UNCHANGED <<workers, used, tstate>>
      BY <1>1 DEF NextStarts
    <3>2. \A i \in 1..Len(stack') :
            stack'[i].at \notin {"construct", "discard"}
      BY <2>1, <2>4, <2>5 DEF MovesSched, SchedLabels, CreateLabels
    <3> QED
      BY <3>1, <3>2 DEF Capacity, PhysicalWorkers, Quarantined
  <2> QED  BY <2>6, <2>7, <2>8
<1>2. CASE NextReturns
  <2>1. /\ stack # <<>> /\ stack \in Seq(Frames) /\ Proceed(<<>>)
        /\ Top.at = "passend"
    BY <1>2, RunningFrame DEF NextReturns
  <2>2. /\ stack' \in Seq(Frames) /\ Len(stack') = Len(stack) - 1
        /\ \A i \in 1..(Len(stack) - 1) : stack'[i] = stack[i]
    <3>1. <<>> \in Seq(Frames) /\ Len(<<>>) = 0
      OBVIOUS
    <3>2. Len(stack) \in Nat \ {0}
      BY <2>1
    <3> DEFINE fs == <<>>
    <3>3. fs \in Seq(Frames) /\ Len(fs) = 0 /\ Proceed(fs)
      BY <2>1, <3>1
    <3> HIDE DEF fs
    <3>4. /\ stack' \in Seq(Frames) /\ Len(stack') = Len(stack) - 1 + Len(fs)
          /\ \A i \in 1..(Len(stack) - 1) : stack'[i] = stack[i]
      BY <2>1, <3>3, ProceedStack
    <3> QED  BY <3>2, <3>3, <3>4
  <2>3. \A i \in 1..Len(stack') : stack'[i].at \notin SchedLabels
    <3>1. Len(stack) \in 1..Len(stack) /\ Len(stack) \in Nat
          /\ stack[Len(stack)].at \in SchedLabels
      BY <2>1, TopIsFrame DEF Top, SchedLabels
    <3>2. ASSUME NEW i \in 1..Len(stack')
          PROVE  i \in 1..Len(stack) /\ i # Len(stack) /\ stack'[i] = stack[i]
      BY <2>2, <3>1
    <3> QED  BY <3>1, <3>2 DEF SchedulerExclusive
  <2>4. TypeOK'
    BY <1>2, <2>2 DEF TypeOK, NextReturns
  <2>5. SchedulerExclusive'
    <3>1. creating = 0
      BY <1>2, CreatingOfRunning DEF NextReturns, SchedLabels, CreateLabels
    <3> QED
      BY <1>2, <2>3, <3>1 DEF NextReturns, SchedulerExclusive, SchedLabels
  <2>6. Capacity'
    <3>1. UNCHANGED <<workers, used, tstate>>
      BY <1>2 DEF NextReturns
    <3> QED
      BY <2>3, <3>1 DEF Capacity, PhysicalWorkers, Quarantined, SchedLabels,
                        CreateLabels
  <2> QED  BY <2>4, <2>5, <2>6
<1> QED  BY <1>1, <1>2

(* The factory returning, throwing or failing half-way keeps it: the room    *)
(* found before the call is still there, since only _next creates workers    *)
(* and it does not nest.                                                     *)
LEMMA CreationKeepsIInv ==
  ASSUME IInv, \/ PickNew \/ Discard \/ Finally
               \/ \E w \in Workers : ConstructOk(w) \/ ConstructPartial(w)
  PROVE  IInv'
<1> USE DEF IInv, poolVars, taskVars, settleVars, workerVars, schedVars,
           termVars, data
<1>1. CASE PickNew
  <2> DEFINE f == Yield("factory", At("construct"))
  <2>1. f \in Frames /\ f.at = "construct"
    BY SchedAts, FrameOfYield DEF Callbacks
  <2>2. stack' \in Seq(Frames) /\ MovesSched(f)
    BY <1>1, <2>1, SchedTo DEF PickNew, SchedLabels, CreateLabels
  <2>3. creating = 0
    BY <1>1, CreatingOfRunning DEF PickNew, SchedLabels, CreateLabels
  <2>4. TypeOK'
    BY <1>1, <2>2 DEF TypeOK, PickNew
  <2>5. UNCHANGED <<workers, used, tstate, scheduling>> /\ creating' = 1
    BY <1>1, <2>3 DEF PickNew
  <2>6. Cardinality(workers) < Size /\ PhysicalWorkers < Limit
    BY <1>1 DEF PickNew, CanCreate
  <2>7. stack # <<>> /\ Top.at \in SchedLabels
    BY <1>1 DEF PickNew, Running, SchedLabels
  <2> QED
    BY <2>1, <2>2, <2>4, <2>5, <2>6, <2>7, MoveStep
       DEF Capacity, PhysicalWorkers, Quarantined, CreateLabels
<1>2. ASSUME NEW w \in Workers, ConstructOk(w)
      PROVE  IInv'
  <2> DEFINE f == Yield("event", On("created", w))
  <2>1. f \in Frames /\ f.at = "created"
    BY SchedOns, FrameOfYield DEF Callbacks
  <2>2. stack' \in Seq(Frames) /\ MovesSched(f)
    BY <1>2, <2>1, SchedTo DEF ConstructOk, SchedLabels, CreateLabels
  <2>3. TypeOK'
    BY <1>2, <2>2 DEF TypeOK, ConstructOk
  <2>4. stack # <<>> /\ Top.at = "construct" /\ creating = 1
        /\ Cardinality(workers) < Size /\ PhysicalWorkers < Limit
    <3>1. stack # <<>> /\ Top.at = "construct" /\ creating = 1
      BY <1>2, CreatingOfRunning
         DEF ConstructOk, Running, SchedLabels, CreateLabels
    <3>2. Len(stack) \in 1..Len(stack)
      BY <3>1, TopIsFrame DEF TypeOK
    <3> QED  BY <3>1, <3>2 DEF Capacity, Top
  <2>5. /\ w \notin workers /\ w \notin Quarantined
        /\ workers' = workers \cup {w} /\ used' = used \cup {w}
        /\ Quarantined' = Quarantined
    BY <1>2 DEF ConstructOk, Capacity, Quarantined
  <2>6. /\ Cardinality(workers') = Cardinality(workers) + 1
        /\ PhysicalWorkers' = PhysicalWorkers + 1
    <3>1. Cardinality(workers \cup {w}) = Cardinality(workers) + 1
      BY <2>5, CountsAreNat, FS_AddElement
    <3> QED  BY <2>5, <3>1, CountsAreNat DEF PhysicalWorkers
  <2>7. Cardinality(workers') <= Size /\ PhysicalWorkers' <= Limit
    BY <2>4, <2>6, CountsAreNat
  <2>8. /\ workers' \cap Quarantined' = {}
        /\ workers' \cup Quarantined' \subseteq used'
    BY <2>5 DEF Capacity
  <2> QED
    BY <1>2, <2>1, <2>2, <2>3, <2>4, <2>7, <2>8, MoveStep
       DEF ConstructOk, SchedLabels, CreateLabels
<1>3. ASSUME NEW w \in Workers, ConstructPartial(w)
      PROVE  IInv'
  <2> DEFINE f == Yield("cleanup", On("discard", w))
  <2>1. f \in Frames /\ f.at = "discard" /\ f.w = w
    BY SchedOns, FrameOfYield DEF Callbacks
  <2>2. stack' \in Seq(Frames) /\ MovesSched(f)
    BY <1>3, <2>1, SchedTo DEF ConstructPartial, SchedLabels, CreateLabels
  <2>3. TypeOK'
    BY <1>3, <2>2 DEF TypeOK, ConstructPartial
  <2>4. stack # <<>> /\ Top.at = "construct" /\ creating = 1
        /\ PhysicalWorkers < Limit
    <3>1. stack # <<>> /\ Top.at = "construct" /\ creating = 1
      BY <1>3, CreatingOfRunning
         DEF ConstructPartial, Running, SchedLabels, CreateLabels
    <3>2. Len(stack) \in 1..Len(stack)
      BY <3>1, TopIsFrame DEF TypeOK
    <3> QED  BY <3>1, <3>2 DEF Capacity, Top
  <2>5. /\ workers' = workers /\ Quarantined' = Quarantined
        /\ PhysicalWorkers' = PhysicalWorkers
        /\ used' = used \cup {w} /\ w \notin workers \cup Quarantined
    BY <1>3 DEF ConstructPartial, Capacity, Quarantined, PhysicalWorkers
  <2> QED
    BY <1>3, <2>1, <2>2, <2>3, <2>4, <2>5, MoveStep
       DEF ConstructPartial, Capacity, SchedLabels, CreateLabels
<1>4. CASE Discard
  <2> DEFINE w == Top.w
             f == At("uncreated")
  <2>1. f \in Frames /\ f.at = "uncreated" /\ On("attempt", w) \in PlainFrames
    BY <1>4, RunningFrame, SchedAts, PlainOns DEF Discard, WorkerLabels
  <2>2. stack' \in Seq(Frames) /\ MovesSched(f)
    BY <1>4, <2>1, SchedToAfter DEF Discard, SchedLabels, CreateLabels
  <2>3. TypeOK'
    BY <1>4, <2>2 DEF TypeOK, Discard
  <2>4. /\ stack # <<>> /\ Top.at = "discard" /\ creating = 1
        /\ PhysicalWorkers < Limit
        /\ w \in used \ (workers \cup Quarantined)
    <3>1. stack # <<>> /\ Top.at = "discard" /\ creating = 1
      BY <1>4, CreatingOfRunning
         DEF Discard, Running, SchedLabels, CreateLabels
    <3>2. Len(stack) \in 1..Len(stack)
      BY <3>1, TopIsFrame DEF TypeOK
    <3> QED  BY <3>1, <3>2 DEF Capacity, Top
  <2>5. /\ workers' = workers /\ used' = used
        /\ Quarantined' = Quarantined \cup {w}
    <3>1. w \in Workers
      BY <2>4 DEF TypeOK
    <3> QED  BY <1>4, <3>1 DEF Discard, Quarantined, TypeOK
  <2>6. PhysicalWorkers' = PhysicalWorkers + 1
    <3>1. Cardinality(Quarantined \cup {w}) = Cardinality(Quarantined) + 1
      BY <2>4, CountsAreNat, FS_AddElement
    <3> QED  BY <2>5, <3>1, CountsAreNat DEF PhysicalWorkers
  <2>7. PhysicalWorkers' <= Limit
    BY <2>4, <2>6, CountsAreNat
  <2> HIDE DEF w
  <2> QED
    BY <1>4, <2>1, <2>2, <2>3, <2>4, <2>5, <2>7, MoveStep
       DEF Discard, Capacity, SchedLabels, CreateLabels
<1>5. CASE Finally
  <2>1. creating = 1 /\ creating' = 0
    BY <1>5, CreatingOfRunning DEF Finally, SchedLabels, CreateLabels
  <2> DEFINE f == IF Top.w # NoWorker THEN On("got", Top.w)
                  ELSE At(IF Top.why = "broken" THEN "broken" ELSE "endpass")
  <2>2. f \in Frames /\ f.at \in {"got", "broken", "endpass"}
    BY <1>5, RunningFrame, SchedAts, SchedOns DEF Finally
  <2>3. Proceed(<<f, At("stats")>>) \/ Proceed(<<f>>)
    BY <1>5 DEF Finally
  <2>4. At("stats") \in PlainFrames
    BY PlainAts
  <2> HIDE DEF f
  <2>5. stack' \in Seq(Frames) /\ MovesSched(f)
    BY <1>5, <2>2, <2>3, <2>4, SchedTo, SchedToAfter
       DEF Finally, SchedLabels, CreateLabels
  <2>6. TypeOK'
    BY <1>5, <2>1, <2>5 DEF TypeOK, Finally
  <2>7. stack # <<>> /\ Top.at \in SchedLabels
    BY <1>5 DEF Finally, Running, SchedLabels, CreateLabels
  <2>8. NoGrowth
    BY <1>5, SameCounts DEF Finally, Quarantined
  <2> QED
    BY <1>5, <2>1, <2>2, <2>5, <2>6, <2>7, <2>8, MoveQuietly
       DEF Finally, CreateLabels
<1> QED  BY <1>1, <1>2, <1>3, <1>4, <1>5

(* Dispatch, calls, answers, timeouts and failures of workers keep it.       *)
LEMMA CallsKeepIInv ==
  ASSUME IInv, \/ \E late \in BOOLEAN : Dispatch(late)
               \/ \E t \in Tasks : Microtask(t) \/ TaskTimer(t) \/ FailTask(t)
               \/ CallMethod \/ MethodCalled \/ MethodThrows
               \/ \E t \in Tasks, why \in {"fulfilled", "rejected"} :
                    Answer(t, why)
               \/ CompleteIgnored \/ CompleteTask \/ Completed
               \/ \E w \in Workers : WorkerError(w)
               \/ FailureStarts \/ FailureEnds
  PROVE  IInv'
<1> USE DEF IInv, poolVars, taskVars, settleVars, workerVars, schedVars,
           termVars, data
<1>1. ASSUME NEW late \in BOOLEAN, Dispatch(late)
      PROVE  IInv'
  <2> DEFINE f == Yield("event", At("loop"))
             w == Top.w
  <2>1. f \in Frames /\ f.at = "loop" /\ w \in Workers
    BY <1>1, RunningFrame, SchedAts, FrameOfYield DEF Dispatch, Callbacks,
       WorkerLabels
  <2>2. PICK t \in Tasks :
          /\ queue' = Without(queue, t) /\ armed' = armed \ {t}
          /\ phase' = [phase EXCEPT ![t] = "scheduled"]
          /\ tLate' = IF late THEN tLate \cup {t} ELSE tLate
          /\ ClearIdle(w)
          /\ activeTasks' = [activeTasks EXCEPT ![w] = @ \cup {t}]
          /\ taskCount' = [taskCount EXCEPT ![w] = @ + 1]
          /\ marked' = IF taskCount[w] + 1 >= MaxTasksPerWorker
                       THEN marked \cup {w} ELSE marked
          /\ Proceed(IF late THEN <<f, Fail(w, <<t>>)>> ELSE <<f>>)
    <3>1. Elems(queue) \subseteq Tasks
      BY ElementOfSeq DEF Elems, TypeOK
    <3> QED  BY <1>1, <3>1 DEF Dispatch, Firsts
  <2>3. Fail(w, <<t>>) \in PlainFrames
    <3>1. <<t>> \in Seq(Tasks)
      OBVIOUS
    <3> QED  BY <2>1, <3>1, PlainFail
  <2>4. Running("got") /\ "got" \in SchedLabels /\ "got" \notin CreateLabels
    BY <1>1 DEF Dispatch, SchedLabels, CreateLabels
  <2> HIDE DEF f, w
  <2>5. Proceed(<<f>>) \/ Proceed(<<f, Fail(w, <<t>>)>>)
    BY <2>2
  <2>6. stack' \in Seq(Frames) /\ MovesSched(f)
    BY <2>1, <2>3, <2>4, <2>5, SchedTo, SchedToAfter DEF SchedLabels
  <2>7. TypeOK'
    <3>1. queue' \in Seq(Tasks) /\ armed' \subseteq Tasks
          /\ tLate' \subseteq Tasks /\ idleWorkers' \subseteq Workers
          /\ marked' \subseteq Workers
      BY <2>1, <2>2, WithoutType DEF TypeOK, ClearIdle
    <3>2. phase' \in [Tasks -> {"none", "scheduled", "invoked", "done"}]
      BY <2>2 DEF TypeOK
    <3>3. activeTasks' \in [Workers -> SUBSET Tasks]
      BY <2>2 DEF TypeOK
    <3>4. taskCount' \in [Workers -> Nat]
      BY <2>1, <2>2 DEF TypeOK
    <3> QED  BY <1>1, <2>6, <3>1, <3>2, <3>3, <3>4 DEF TypeOK, Dispatch
  <2> QED
    BY <1>1, <2>1, <2>4, <2>6, <2>7, QuietMove DEF Dispatch, CreateLabels
<1>2. ASSUME NEW t \in Tasks, Microtask(t)
      PROVE  IInv'
  <2>1. (IF MayCall(t) THEN <<Yield("proxy", For("lookup", t))>>
         ELSE ExpireTask(t)) \in Seq(PlainFrames)
    BY <1>2, ExpireType, PlainFors, PlainYield DEF Microtask, TaskLabels,
       Callbacks
  <2>2. stack' \in Seq(Frames) /\ KeepsSched
    BY <1>2, <2>1, PlainCall DEF Microtask
  <2>3. TypeOK'
    BY <1>2, <2>2 DEF TypeOK, Microtask, EventLoop
  <2> QED
    BY <1>2, <2>2, <2>3, QuietStep DEF Microtask
<1>3. CASE CallMethod
  <2>1. (IF MayCall(Top.ts[1])
         THEN <<Yield("proxy", For("applied", Top.ts[1]))>>
         ELSE ExpireTask(Top.ts[1])) \in Seq(PlainFrames)
    BY <1>3, RunningFrame, ExpireType, PlainFors, PlainYield DEF CallMethod,
       TaskLabels, Callbacks
  <2>2. stack' \in Seq(Frames) /\ KeepsSched
    BY <1>3, <2>1, PlainStep DEF CallMethod, SchedLabels, CreateLabels
  <2>3. TypeOK'
    BY <1>3, <2>2 DEF TypeOK, CallMethod
  <2> QED
    BY <1>3, <2>2, <2>3, QuietStep DEF CallMethod
<1>4. CASE MethodCalled
  <2>1. ExpireTask(Top.ts[1]) \in Seq(PlainFrames)
    BY <1>4, RunningFrame, ExpireType DEF MethodCalled, TaskLabels
  <2>2. stack' \in Seq(Frames) /\ KeepsSched
    BY <1>4, <2>1, PlainStep DEF MethodCalled, SchedLabels, CreateLabels
  <2>3. TypeOK'
    BY <1>4, <2>2 DEF TypeOK, MethodCalled
  <2> QED
    BY <1>4, <2>2, <2>3, QuietStep DEF MethodCalled
<1>5. CASE MethodThrows
  <2> DEFINE fs == <<Complete(Top.ts[1], "rejected")>>
  <2>1. PICK l \in {"lookup", "applied"} : Running(l)
    BY <1>5 DEF MethodThrows
  <2>2. fs \in Seq(PlainFrames)
    BY <2>1, RunningFrame, PlainComplete DEF TaskLabels, Settlements
  <2>3. stack' \in Seq(Frames) /\ KeepsSched
    BY <1>5, <2>1, <2>2, PlainStep DEF MethodThrows, SchedLabels, CreateLabels
  <2>4. TypeOK'
    BY <1>5, <2>3 DEF TypeOK, MethodThrows
  <2> QED
    BY <1>5, <2>3, <2>4, QuietStep DEF MethodThrows
<1>6. ASSUME NEW t \in Tasks, NEW why \in {"fulfilled", "rejected"},
             Answer(t, why)
      PROVE  IInv'
  <2>1. <<Complete(t, why)>> \in Seq(PlainFrames)
    BY <1>6, PlainComplete DEF Answer, Settlements
  <2>2. stack' \in Seq(Frames) /\ KeepsSched
    BY <1>6, <2>1, PlainCall DEF Answer
  <2>3. TypeOK'
    BY <1>6, <2>2 DEF TypeOK, Answer, EventLoop
  <2> QED
    BY <1>6, <2>2, <2>3, QuietStep DEF Answer
<1>7. CASE CompleteIgnored
  <2>1. ExpireTask(Top.ts[1]) \in Seq(PlainFrames)
    BY <1>7, RunningFrame, ExpireType DEF CompleteIgnored, TaskLabels
  <2>2. stack' \in Seq(Frames) /\ KeepsSched
    BY <1>7, <2>1, PlainStep DEF CompleteIgnored, SchedLabels, CreateLabels
  <2>3. TypeOK'
    BY <1>7, <2>2 DEF TypeOK, CompleteIgnored
  <2> QED
    BY <1>7, <2>2, <2>3, QuietStep DEF CompleteIgnored
<1>8. CASE CompleteTask
  <2> DEFINE t == Top.ts[1]
             why == Top.why
  <2>1. t \in Tasks /\ why \in Settlements
    BY <1>8, RunningFrame DEF CompleteTask, TaskLabels
  <2>2. PICK w \in Workers :
          /\ activeTasks' = [activeTasks EXCEPT ![w] = @ \ {t}]
          /\ Settle(t, why)
          /\ Proceed(<<Yield(Announce(t), On("completed", w))>>)
    BY <1>8 DEF CompleteTask, Hosts, TypeOK
  <2> HIDE DEF t, why
  <2>3. <<Yield(Announce(t), On("completed", w))>> \in Seq(PlainFrames)
    BY PlainOns, PlainAnnounce
  <2>4. stack' \in Seq(Frames) /\ KeepsSched
    BY <1>8, <2>2, <2>3, PlainStep DEF CompleteTask, SchedLabels, CreateLabels
  <2>5. TypeOK'
    BY <1>8, <2>1, <2>2, <2>4, SettleType DEF TypeOK, CompleteTask
  <2> QED
    BY <1>8, <2>4, <2>5, QuietStep DEF CompleteTask
<1>9. CASE Completed
  <2> DEFINE w == Top.w
             gone == w \notin workers \/ terminationStarted
             fs == IF gone THEN <<>>
                   ELSE <<At("stats"), At("next")>> \o
                        IF Retires(w) THEN <<Remove(w, "soft")>> ELSE <<>>
  <2>1. w \in Workers
    BY <1>9, RunningFrame DEF Completed, WorkerLabels
  <2> HIDE DEF w
  <2>2. fs \in Seq(PlainFrames)
    <3>1. /\ <<At("stats"), At("next")>> \in Seq(PlainFrames)
          /\ <<Remove(w, "soft")>> \in Seq(PlainFrames)
          /\ <<>> \in Seq(PlainFrames)
      BY <2>1, PlainAts, PlainRemove
    <3> QED  BY <3>1, ConcatProperties
  <2> HIDE DEF fs
  <2>3. Proceed(fs)
    BY <1>9 DEF Completed, fs, w
  <2>4. stack' \in Seq(Frames) /\ KeepsSched
    BY <1>9, <2>2, <2>3, PlainStep DEF Completed, SchedLabels, CreateLabels
  <2>5. TypeOK'
    BY <1>9, <2>4 DEF TypeOK, Completed
  <2> QED
    BY <1>9, <2>4, <2>5, QuietStep DEF Completed
<1>10. ASSUME NEW t \in Tasks, TaskTimer(t)
       PROVE  IInv'
  <2>1. ExpireTask(t) \in Seq(PlainFrames)
    BY <1>10, ExpireType DEF TaskTimer
  <2>2. stack' \in Seq(Frames) /\ KeepsSched
    BY <1>10, <2>1, PlainCall DEF TaskTimer
  <2>3. TypeOK'
    BY <1>10, <2>2 DEF TypeOK, TaskTimer, EventLoop
  <2> QED
    BY <1>10, <2>2, <2>3, QuietStep DEF TaskTimer
<1>11. ASSUME NEW w \in Workers, WorkerError(w)
       PROVE  IInv'
  <2>1. <<Fail(w, <<>>)>> \in Seq(PlainFrames)
    <3>1. <<>> \in Seq(Tasks)
      OBVIOUS
    <3>2. Fail(w, <<>>) \in PlainFrames
      BY <3>1, PlainFail
    <3> QED  BY <3>2
  <2>2. stack' \in Seq(Frames) /\ KeepsSched
    BY <1>11, <2>1, PlainCall DEF WorkerError
  <2>3. TypeOK'
    BY <1>11, <2>2 DEF TypeOK, WorkerError, UserCall
  <2> QED
    BY <1>11, <2>2, <2>3, QuietStep DEF WorkerError
<1>12. CASE FailureStarts
  <2> DEFINE fs == IF Top.w \in workers THEN <<[Top EXCEPT !.at = "failing"]>>
                   ELSE <<>>
  <2>1. [Top EXCEPT !.at = "failing"] \in PlainFrames
    <3>1. Top \in Frames /\ Top.at = "fail"
      BY <1>12, RunningFrame DEF FailureStarts
    <3>2. Top.cb \notin {"factory", "cleanup", "terminator", "proxy"}
      BY <3>1 DEF Frames
    <3> QED
      BY <3>1, <3>2
         DEF PlainFrames, Frames, Labels, SchedLabels, CreateLabels,
             TaskLabels, WorkerLabels
  <2>2. fs \in Seq(PlainFrames) /\ Proceed(fs)
    BY <1>12, <2>1 DEF FailureStarts
  <2>3. stack' \in Seq(Frames) /\ KeepsSched
    BY <1>12, <2>2, PlainStep DEF FailureStarts, SchedLabels, CreateLabels
  <2>4. TypeOK'
    BY <1>12, <2>3 DEF TypeOK, FailureStarts
  <2> QED
    BY <1>12, <2>3, <2>4, QuietStep DEF FailureStarts
<1>13. ASSUME NEW t \in Tasks, FailTask(t)
       PROVE  IInv'
  <2> DEFINE why == IF <<t>> = Top.ts THEN "task-timeout" ELSE "worker-failure"
  <2>1. Top \in PlainFrames /\ why \in Settlements
    BY <1>13, RunningFrame
       DEF FailTask, PlainFrames, Settlements, SchedLabels, CreateLabels
  <2>2. /\ Settle(t, why)
        /\ activeTasks' = [activeTasks EXCEPT ![Top.w] = @ \ {t}]
        /\ Proceed(<<Yield(Announce(t), Top)>>)
    BY <1>13 DEF FailTask
  <2> HIDE DEF why
  <2>3. <<Yield(Announce(t), Top)>> \in Seq(PlainFrames)
    BY <2>1, PlainAnnounce
  <2>4. stack' \in Seq(Frames) /\ KeepsSched
    BY <1>13, <2>2, <2>3, PlainStep DEF FailTask, SchedLabels, CreateLabels
  <2>5. TypeOK'
    <3>1. /\ outcome' \in [Tasks -> {"unborn", "pending"} \cup Settlements]
          /\ armed' \subseteq Tasks
      BY <2>1, <2>2, SettleType
    <3>2. activeTasks' \in [Workers -> SUBSET Tasks]
      BY <2>2 DEF TypeOK
    <3> QED  BY <1>13, <2>4, <3>1, <3>2 DEF TypeOK, FailTask
  <2> QED
    BY <1>13, <2>4, <2>5, QuietStep DEF FailTask
<1>14. CASE FailureEnds
  <2>1. <<At("stats"), At("next"), Remove(Top.w, "force")>>
          \in Seq(PlainFrames)
    <3>1. Top.w \in Workers
      BY <1>14, RunningFrame DEF FailureEnds, WorkerLabels
    <3> QED  BY <3>1, PlainAts, PlainRemove
  <2>2. stack' \in Seq(Frames) /\ KeepsSched
    BY <1>14, <2>1, PlainStep DEF FailureEnds, SchedLabels, CreateLabels
  <2>3. TypeOK'
    BY <1>14, <2>2 DEF TypeOK, FailureEnds
  <2> QED
    BY <1>14, <2>2, <2>3, QuietStep DEF FailureEnds
<1> QED  BY <1>1, <1>2, <1>3, <1>4, <1>5, <1>6, <1>7, <1>8, <1>9, <1>10,
            <1>11, <1>12,
   <1>13, <1>14


(* A confirmed termination takes a worker out of quarantine, where the       *)
(* others are still there.                                                   *)
LEMMA ConfirmedShrinks ==
  ASSUME IInv, TypeOK', workers' = workers, used' = used, NEW w,
         tstate' = [tstate EXCEPT ![w] = "none"]
  PROVE  NoGrowth
<1>1. Quarantined' \subseteq Quarantined
  BY DEF Quarantined, IInv, TypeOK
<1>2. /\ Cardinality(Quarantined') <= Cardinality(Quarantined)
      /\ Cardinality(Quarantined') \in Nat
  BY <1>1, CountsAreNat, NextCountsAreNat, FS_Subset, FS_CardinalityType
     DEF IInv
<1>3. PhysicalWorkers' <= PhysicalWorkers
  BY <1>2, CountsAreNat DEF PhysicalWorkers, IInv
<1>4. Cardinality(workers') <= Cardinality(workers)
  BY CountsAreNat DEF IInv
<1> QED  BY <1>1, <1>3, <1>4 DEF NoGrowth, IInv, Capacity

(* Removal moves a worker from the pool to the quarantine, so the sum of     *)
(* both stays; the steps of its termination never add to it.                 *)
LEMMA RetirementKeepsIInv ==
  ASSUME IInv, \/ RemoveWorker \/ RemoveSkipped \/ Attempt
               \/ TerminatorReturns \/ TerminatorThrows \/ TerminatorPromises
               \/ ConfirmedPastDeadline
               \/ \E w \in Workers :
                    \/ PromiseConfirms(w) \/ PromiseConfirmsPastDeadline(w)
                    \/ PromiseRejects(w) \/ AttemptTimer(w) \/ LateConfirm(w)
                    \/ RetryTimer(w) \/ LifetimeTimer(w) \/ IdleTimer(w)
  PROVE  IInv'
<1> USE DEF IInv, poolVars, taskVars, settleVars, workerVars, schedVars,
           termVars, data
<1>1. CASE RemoveWorker
  <2> DEFINE w == Top.w
  <2>1. w \in workers /\ w \in Workers /\ w \notin Quarantined
    BY <1>1 DEF RemoveWorker, MayRemove, TypeOK, Capacity
  <2>2. <<Yield("event", On("attempt", w))>> \in Seq(PlainFrames)
    BY <2>1, PlainOns, PlainYield DEF Callbacks
  <2>3. stack' \in Seq(Frames) /\ KeepsSched
    BY <1>1, <2>2, PlainStep DEF RemoveWorker, SchedLabels, CreateLabels
  <2>4. TypeOK'
    BY <1>1, <2>3 DEF TypeOK, RemoveWorker, ClearIdle
  <2> HIDE DEF w
  <2>5. /\ workers' = workers \ {w} /\ used' = used
        /\ Quarantined' = Quarantined \cup {w}
    BY <1>1, <2>1 DEF RemoveWorker, Quarantined, TypeOK, w
  <2>6. /\ Cardinality(workers \ {w}) = Cardinality(workers) - 1
        /\ Cardinality(Quarantined \cup {w}) = Cardinality(Quarantined) + 1
    BY <2>1, CountsAreNat, FS_AddElement, FS_RemoveElement
  <2>7. NoGrowth
    <3>1. PhysicalWorkers' = PhysicalWorkers
      BY <2>5, <2>6, CountsAreNat DEF PhysicalWorkers
    <3>2. Cardinality(workers') <= Cardinality(workers)
      BY <2>5, <2>6, CountsAreNat
    <3> QED
      BY <2>1, <2>5, <3>1, <3>2, CountsAreNat DEF NoGrowth, Capacity
  <2> QED
    BY <1>1, <2>3, <2>4, <2>7, KeepStep DEF RemoveWorker
<1>2. CASE RemoveSkipped
  <2>1. <<>> \in Seq(PlainFrames)
    BY <1>2, RunningFrame DEF RemoveSkipped
  <2>2. stack' \in Seq(Frames) /\ KeepsSched
    BY <1>2, <2>1, PlainStep DEF RemoveSkipped, SchedLabels, CreateLabels
  <2>3. TypeOK'
    BY <1>2, <2>2 DEF TypeOK, RemoveSkipped
  <2> QED
    BY <1>2, <2>2, <2>3, QuietStep DEF RemoveSkipped
<1>3. CASE Attempt
  <2>1. <<Yield("terminator", On("attempted", Top.w))>> \in Seq(PlainFrames)
    <3>1. Top.w \in Workers
      BY <1>3, RunningFrame DEF Attempt, WorkerLabels
    <3> QED  BY <3>1, PlainOns, PlainYield DEF Callbacks
  <2>2. stack' \in Seq(Frames) /\ KeepsSched
    BY <1>3, <2>1, PlainStep DEF Attempt, SchedLabels, CreateLabels
  <2>3. attempts' \in [Workers -> Nat]
    <3> DEFINE w == Top.w
    <3>1. attempts' = [attempts EXCEPT ![w] = @ + 1]
      BY <1>3 DEF Attempt
    <3> HIDE DEF w
    <3>2. attempts \in [Workers -> Nat]
      BY DEF TypeOK
    <3>3. \A v \in Workers : [attempts EXCEPT ![w] = @ + 1][v] \in Nat
      BY <3>2
    <3>4. attempts' = [v \in Workers |-> [attempts EXCEPT ![w] = @ + 1][v]]
      BY <3>1, <3>2
    <3> QED  BY <3>3, <3>4
  <2>4. TypeOK'
    BY <1>3, <2>2, <2>3 DEF TypeOK, Attempt
  <2> QED
    BY <1>3, <2>2, <2>4, QuietStep DEF Attempt
<1>4. CASE TerminatorReturns
  <2>1. StateChange \in Seq(PlainFrames)
    BY <1>4, RunningFrame, PlainAts DEF TerminatorReturns, StateChange
  <2>2. stack' \in Seq(Frames) /\ KeepsSched
    BY <1>4, <2>1, PlainStep DEF TerminatorReturns, SchedLabels, CreateLabels
  <2>3. TypeOK'
    BY <1>4, <2>2 DEF TypeOK, TerminatorReturns, Confirm
  <2>4. NoGrowth
    BY <1>4, <2>3, ConfirmedShrinks DEF TerminatorReturns, Confirm
  <2> QED
    BY <1>4, <2>2, <2>3, <2>4, KeepStep DEF TerminatorReturns
<1>5. CASE TerminatorThrows
  <2>1. FailureReported \in Seq(PlainFrames)
    BY <1>5, RunningFrame, PlainAts, PlainYield DEF TerminatorThrows,
       FailureReported, Callbacks
  <2>2. stack' \in Seq(Frames) /\ KeepsSched
    BY <1>5, <2>1, PlainStep DEF TerminatorThrows, SchedLabels, CreateLabels
  <2>3. TypeOK'
    BY <1>5, <2>2 DEF TypeOK, TerminatorThrows, RecordFailure, Record
  <2>4. NoGrowth
    <3>1. Quarantined' = Quarantined
      BY <1>5 DEF TerminatorThrows, RecordFailure, Record, Quarantined, TypeOK
    <3> QED  BY <1>5, <3>1, SameCounts DEF TerminatorThrows
  <2> QED
    BY <1>5, <2>2, <2>3, <2>4, KeepStep DEF TerminatorThrows
<1>6. CASE TerminatorPromises
  <2>1. <<>> \in Seq(PlainFrames)
    BY <1>6, RunningFrame DEF TerminatorPromises
  <2>2. stack' \in Seq(Frames) /\ KeepsSched
    BY <1>6, <2>1, PlainStep DEF TerminatorPromises, SchedLabels, CreateLabels
  <2>3. TypeOK'
    BY <1>6, <2>2 DEF TypeOK, TerminatorPromises, Record
  <2>4. NoGrowth
    <3>1. Quarantined' = Quarantined
      BY <1>6 DEF TerminatorPromises, Record, Quarantined, TypeOK
    <3> QED  BY <1>6, <3>1, SameCounts DEF TerminatorPromises
  <2> QED
    BY <1>6, <2>2, <2>3, <2>4, KeepStep DEF TerminatorPromises
<1>7. ASSUME NEW w \in Workers, PromiseConfirms(w)
      PROVE  IInv'
  <2>1. StateChange \in Seq(PlainFrames)
    BY <1>7, PlainAts DEF PromiseConfirms, StateChange
  <2>2. stack' \in Seq(Frames) /\ KeepsSched
    BY <1>7, <2>1, PlainCall DEF PromiseConfirms
  <2>3. TypeOK'
    BY <1>7, <2>2 DEF TypeOK, PromiseConfirms, EventLoop, Confirm
  <2>4. NoGrowth
    BY <1>7, <2>3, ConfirmedShrinks DEF PromiseConfirms, Confirm
  <2> QED
    BY <1>7, <2>2, <2>3, <2>4, KeepStep DEF PromiseConfirms
<1>8. ASSUME NEW w \in Workers, PromiseConfirmsPastDeadline(w)
      PROVE  IInv'
  <2>1. (<<On("confirmed", w)>> \o FailureReported) \in Seq(PlainFrames)
    BY <1>8, PlainAts, PlainYield, PlainOns, ConcatProperties
       DEF PromiseConfirmsPastDeadline, FailureReported, Callbacks
  <2>2. stack' \in Seq(Frames) /\ KeepsSched
    BY <1>8, <2>1, PlainCall DEF PromiseConfirmsPastDeadline
  <2>3. TypeOK'
    BY <1>8, <2>2 DEF TypeOK, PromiseConfirmsPastDeadline, EventLoop,
       RecordFailure, Record
  <2>4. NoGrowth
    <3>1. Quarantined' = Quarantined
      BY <1>8 DEF PromiseConfirmsPastDeadline, RecordFailure, Record,
         Quarantined, TypeOK
    <3> QED  BY <1>8, <3>1, SameCounts DEF PromiseConfirmsPastDeadline
  <2> QED
    BY <1>8, <2>2, <2>3, <2>4, KeepStep DEF PromiseConfirmsPastDeadline
<1>9. CASE ConfirmedPastDeadline
  <2>1. StateChange \in Seq(PlainFrames)
    BY <1>9, RunningFrame, PlainAts DEF ConfirmedPastDeadline, StateChange
  <2>2. stack' \in Seq(Frames) /\ KeepsSched
    BY <1>9, <2>1, PlainStep DEF ConfirmedPastDeadline, SchedLabels,
       CreateLabels
  <2>3. TypeOK'
    BY <1>9, <2>2 DEF TypeOK, ConfirmedPastDeadline, Confirm
  <2>4. NoGrowth
    BY <1>9, <2>3, ConfirmedShrinks DEF ConfirmedPastDeadline, Confirm
  <2> QED
    BY <1>9, <2>2, <2>3, <2>4, KeepStep DEF ConfirmedPastDeadline
<1>10. ASSUME NEW w \in Workers, PromiseRejects(w)
       PROVE  IInv'
  <2>1. FailureReported \in Seq(PlainFrames)
    BY <1>10, PlainAts, PlainYield DEF PromiseRejects, FailureReported,
       Callbacks
  <2>2. stack' \in Seq(Frames) /\ KeepsSched
    BY <1>10, <2>1, PlainCall DEF PromiseRejects
  <2>3. TypeOK'
    BY <1>10, <2>2 DEF TypeOK, PromiseRejects, EventLoop, RecordFailure,
       Record
  <2>4. NoGrowth
    <3>1. Quarantined' = Quarantined
      BY <1>10 DEF PromiseRejects, RecordFailure, Record, Quarantined, TypeOK
    <3> QED  BY <1>10, <3>1, SameCounts DEF PromiseRejects
  <2> QED
    BY <1>10, <2>2, <2>3, <2>4, KeepStep DEF PromiseRejects
<1>11. ASSUME NEW w \in Workers, AttemptTimer(w)
       PROVE  IInv'
  <2>1. FailureReported \in Seq(PlainFrames)
    BY <1>11, PlainAts, PlainYield DEF AttemptTimer, FailureReported,
       Callbacks
  <2>2. stack' \in Seq(Frames) /\ KeepsSched
    BY <1>11, <2>1, PlainCall DEF AttemptTimer
  <2>3. TypeOK'
    BY <1>11, <2>2 DEF TypeOK, AttemptTimer, EventLoop, RecordFailure, Record
  <2>4. NoGrowth
    <3>1. Quarantined' = Quarantined
      BY <1>11 DEF AttemptTimer, RecordFailure, Record, Quarantined, TypeOK
    <3> QED  BY <1>11, <3>1, SameCounts DEF AttemptTimer
  <2> QED
    BY <1>11, <2>2, <2>3, <2>4, KeepStep DEF AttemptTimer
<1>12. ASSUME NEW w \in Workers, LateConfirm(w)
       PROVE  IInv'
  <2>1. StateChange \in Seq(PlainFrames)
    BY <1>12, PlainAts DEF LateConfirm, StateChange
  <2>2. stack' \in Seq(Frames) /\ KeepsSched
    BY <1>12, <2>1, PlainCall DEF LateConfirm
  <2>3. TypeOK'
    BY <1>12, <2>2 DEF TypeOK, LateConfirm, EventLoop, Confirm
  <2>4. NoGrowth
    BY <1>12, <2>3, ConfirmedShrinks DEF LateConfirm, Confirm
  <2> QED
    BY <1>12, <2>2, <2>3, <2>4, KeepStep DEF LateConfirm
<1>13. ASSUME NEW w \in Workers, RetryTimer(w)
       PROVE  IInv'
  <2>1. <<On("attempt", w)>> \in Seq(PlainFrames)
    BY <1>13, PlainOns DEF RetryTimer
  <2>2. stack' \in Seq(Frames) /\ KeepsSched
    BY <1>13, <2>1, PlainCall DEF RetryTimer
  <2>3. TypeOK'
    BY <1>13, <2>2 DEF TypeOK, RetryTimer, EventLoop
  <2>4. NoGrowth
    <3>1. Quarantined' = Quarantined
      BY <1>13 DEF RetryTimer, Quarantined, TypeOK
    <3> QED  BY <1>13, <3>1, SameCounts DEF RetryTimer
  <2> QED
    BY <1>13, <2>2, <2>3, <2>4, KeepStep DEF RetryTimer
<1>14. ASSUME NEW w \in Workers, LifetimeTimer(w)
       PROVE  IInv'
  <2>1. (StateChange \o
         IF Busy(w) THEN <<>> ELSE <<Remove(w, "soft")>>) \in Seq(PlainFrames)
    BY <1>14, PlainAts, PlainRemove, ConcatProperties DEF LifetimeTimer,
       StateChange
  <2>2. stack' \in Seq(Frames) /\ KeepsSched
    BY <1>14, <2>1, PlainCall DEF LifetimeTimer
  <2>3. TypeOK'
    BY <1>14, <2>2 DEF TypeOK, LifetimeTimer, EventLoop
  <2> QED
    BY <1>14, <2>2, <2>3, QuietStep DEF LifetimeTimer
<1>15. ASSUME NEW w \in Workers, IdleTimer(w)
       PROVE  IInv'
  <2>1. (StateChange \o <<Remove(w, "soft")>>) \in Seq(PlainFrames)
    BY <1>15, PlainAts, PlainRemove, ConcatProperties DEF IdleTimer,
       StateChange
  <2>2. stack' \in Seq(Frames) /\ KeepsSched
    BY <1>15, <2>1, PlainCall DEF IdleTimer
  <2>3. TypeOK'
    BY <1>15, <2>2 DEF TypeOK, IdleTimer, EventLoop
  <2> QED
    BY <1>15, <2>2, <2>3, QuietStep DEF IdleTimer
<1> QED  BY <1>1, <1>2, <1>3, <1>4, <1>5, <1>6, <1>7, <1>8, <1>9, <1>10,
            <1>11, <1>12,
   <1>13, <1>14, <1>15

(* Draining and closing keep it.                                             *)
LEMMA ShutdownKeepsIInv ==
  ASSUME IInv, \/ Close \/ Drain \/ Drained \/ TerminateAll \/ TerminateWorkers
               \/ (\E t \in Tasks : TerminateTask(t)) \/ TerminateWorker
               \/ StatsFinishDrain \/ UpdateStats \/ Return
  PROVE  IInv'
<1> USE DEF IInv, poolVars, taskVars, settleVars, workerVars, schedVars,
           termVars, data
<1>1. CASE Close
  <2>1. <<At("terminate")>> \in Seq(PlainFrames)
    BY <1>1, PlainAts DEF Close
  <2>2. stack' \in Seq(Frames) /\ KeepsSched
    BY <1>1, <2>1, PlainCall DEF Close
  <2>3. TypeOK'
    BY <1>1, <2>2 DEF TypeOK, Close, UserCall
  <2> QED
    BY <1>1, <2>2, <2>3, QuietStep DEF Close
<1>2. CASE Drain
  <2>1. <<At("drained"), At("next")>> \in Seq(PlainFrames)
    BY PlainAts
  <2>2. stack' \in Seq(Frames) /\ KeepsSched
    BY <1>2, <2>1, PlainCall DEF Drain
  <2>3. reentries' \in Nat
    BY <1>2 DEF Drain, UserCall, TypeOK
  <2>4. TypeOK'
    BY <1>2, <2>2, <2>3 DEF TypeOK, Drain
  <2> QED
    BY <1>2, <2>2, <2>4, QuietStep DEF Drain
<1>3. CASE Drained
  <2>1. (IF ~DrainStalled THEN <<At("stats")>>
         ELSE IF terminationStarted THEN <<>> ELSE <<At("terminate")>>)
          \in Seq(PlainFrames)
    BY <1>3, RunningFrame, PlainAts DEF Drained
  <2>2. stack' \in Seq(Frames) /\ KeepsSched
    BY <1>3, <2>1, PlainStep DEF Drained, SchedLabels, CreateLabels
  <2>3. TypeOK'
    BY <1>3, <2>2 DEF TypeOK, Drained
  <2> QED
    BY <1>3, <2>2, <2>3, QuietStep DEF Drained
<1>4. CASE TerminateAll
  <2>1. <<At("termworkers"), SettleEach(queue, "pool-closed")>>
          \in Seq(PlainFrames)
    BY PlainAts, PlainSettleEach DEF TypeOK, Settlements
  <2>2. stack' \in Seq(Frames) /\ KeepsSched
    BY <1>4, <2>1, PlainStep DEF TerminateAll, SchedLabels, CreateLabels
  <2>3. queue' \in Seq(Tasks)
    <3>1. <<>> \in Seq(Tasks) /\ queue' = <<>>
      BY <1>4 DEF TerminateAll
    <3> QED  BY <3>1
  <2>4. /\ accepting' \in BOOLEAN /\ drainRequested' \in BOOLEAN
        /\ terminationStarted' \in BOOLEAN
    BY <1>4 DEF TerminateAll
  <2>5. TypeOK'
    BY <1>4, <2>2, <2>3, <2>4 DEF TypeOK, TerminateAll
  <2> QED
    BY <1>4, <2>2, <2>5, QuietStep DEF TerminateAll
<1>5. CASE TerminateWorkers
  <2>1. PICK fs \in Seq(PlainFrames) : Proceed(fs)
    <3>1. /\ <<At("stats")>> \in Seq(PlainFrames)
          /\ \A w \in workers :
               <<At("termworkers"), On("termtasks", w)>> \in Seq(PlainFrames)
      BY PlainAts, PlainOns DEF TypeOK
    <3> QED  BY <1>5, <3>1 DEF TerminateWorkers
  <2>2. stack' \in Seq(Frames) /\ KeepsSched
    BY <1>5, <2>1, PlainStep DEF TerminateWorkers, SchedLabels, CreateLabels
  <2>3. TypeOK'
    BY <1>5, <2>2 DEF TypeOK, TerminateWorkers
  <2> QED
    BY <1>5, <2>2, <2>3, QuietStep DEF TerminateWorkers
<1>6. ASSUME NEW t \in Tasks, TerminateTask(t)
       PROVE  IInv'
  <2> DEFINE why == "pool-closed"
  <2>1. Top \in PlainFrames /\ why \in Settlements
    BY <1>6, RunningFrame
       DEF TerminateTask, PlainFrames, Settlements, SchedLabels, CreateLabels
  <2>2. /\ Settle(t, why)
        /\ activeTasks' = [activeTasks EXCEPT ![Top.w] = @ \ {t}]
        /\ Proceed(<<Yield(Announce(t), Top)>>)
    BY <1>6 DEF TerminateTask
  <2> HIDE DEF why
  <2>3. <<Yield(Announce(t), Top)>> \in Seq(PlainFrames)
    BY <2>1, PlainAnnounce
  <2>4. stack' \in Seq(Frames) /\ KeepsSched
    BY <1>6, <2>2, <2>3, PlainStep DEF TerminateTask, SchedLabels, CreateLabels
  <2>5. TypeOK'
    <3>1. /\ outcome' \in [Tasks -> {"unborn", "pending"} \cup Settlements]
          /\ armed' \subseteq Tasks
      BY <2>1, <2>2, SettleType
    <3>2. activeTasks' \in [Workers -> SUBSET Tasks]
      BY <2>2 DEF TypeOK
    <3> QED  BY <1>6, <2>4, <3>1, <3>2 DEF TypeOK, TerminateTask
  <2> QED
    BY <1>6, <2>4, <2>5, QuietStep DEF TerminateTask
<1>7. CASE TerminateWorker
  <2>1. <<Remove(Top.w, "force")>> \in Seq(PlainFrames)
    <3>1. Top.w \in Workers
      BY <1>7, RunningFrame DEF TerminateWorker, WorkerLabels
    <3> QED  BY <3>1, PlainRemove
  <2>2. stack' \in Seq(Frames) /\ KeepsSched
    BY <1>7, <2>1, PlainStep DEF TerminateWorker, SchedLabels, CreateLabels
  <2>3. TypeOK'
    BY <1>7, <2>2 DEF TypeOK, TerminateWorker
  <2> QED
    BY <1>7, <2>2, <2>3, QuietStep DEF TerminateWorker
<1>8. CASE StatsFinishDrain
  <2>1. <<At("terminate")>> \in Seq(PlainFrames)
    BY <1>8, RunningFrame, PlainAts DEF StatsFinishDrain
  <2>2. stack' \in Seq(Frames) /\ KeepsSched
    BY <1>8, <2>1, PlainStep DEF StatsFinishDrain, SchedLabels, CreateLabels
  <2>3. TypeOK'
    BY <1>8, <2>2 DEF TypeOK, StatsFinishDrain
  <2> QED
    BY <1>8, <2>2, <2>3, QuietStep DEF StatsFinishDrain
<1>9. CASE UpdateStats
  <2>1. <<Yield("stats", At("return"))>> \in Seq(PlainFrames)
    BY <1>9, RunningFrame, PlainAts, PlainYield DEF UpdateStats, Callbacks
  <2>2. stack' \in Seq(Frames) /\ KeepsSched
    BY <1>9, <2>1, PlainStep DEF UpdateStats, SchedLabels, CreateLabels
  <2>3. TypeOK'
    BY <1>9, <2>2 DEF TypeOK, UpdateStats
  <2> QED
    BY <1>9, <2>2, <2>3, QuietStep DEF UpdateStats
<1>10. CASE Return
  <2>1. <<>> \in Seq(PlainFrames)
    BY <1>10, RunningFrame DEF Return
  <2>2. stack' \in Seq(Frames) /\ KeepsSched
    BY <1>10, <2>1, PlainStep DEF Return, SchedLabels, CreateLabels
  <2>3. TypeOK'
    BY <1>10, <2>2 DEF TypeOK, Return
  <2> QED
    BY <1>10, <2>2, <2>3, QuietStep DEF Return
<1> QED  BY <1>1, <1>2, <1>3, <1>4, <1>5, <1>6, <1>7, <1>8, <1>9, <1>10

(* Passing time, which only ages tasks and workers, keeps it.                *)
LEMMA TimeKeepsIInv ==
  ASSUME IInv, Time
  PROVE  IInv'
<1> USE DEF IInv, poolVars, taskVars, settleVars, workerVars, schedVars,
           termVars, data, ClockMoves
<1>1. stack' = stack /\ KeepsSched
  BY DEF Time, QueueDeadline, TaskDeadline, LifetimePasses, KeepsSched
<1>2. ASSUME NEW t \in Tasks, QueueDeadline(t)
      PROVE  IInv'
  <2>1. TypeOK'
    BY <1>2 DEF TypeOK, QueueDeadline
  <2> QED  BY <1>1, <1>2, <2>1, QuietStep DEF QueueDeadline
<1>3. ASSUME NEW t \in Tasks, TaskDeadline(t)
      PROVE  IInv'
  <2>1. TypeOK'
    BY <1>3 DEF TypeOK, TaskDeadline
  <2> QED  BY <1>1, <1>3, <2>1, QuietStep DEF TaskDeadline
<1>4. ASSUME NEW w \in Workers, LifetimePasses(w)
      PROVE  IInv'
  <2>1. TypeOK'
    BY <1>4 DEF TypeOK, LifetimePasses
  <2> QED  BY <1>1, <1>4, <2>1, QuietStep DEF LifetimePasses
<1> QED  BY <1>2, <1>3, <1>4 DEF Time

-----------------------------------------------------------------------------
(* The theorems.                                                             *)

(* The invariant holds of a pool that was just constructed.                  *)
LEMMA InitIInv ==
  ASSUME Init
  PROVE  IInv
<1> USE DEF Init
<1>1. Quarantined = {} /\ workers = {}
  BY DEF Quarantined
<1>2. Cardinality({}) = 0
  BY FS_EmptySet
<1>3. Size \in Nat \ {0} /\ Limit \in Nat
  BY PoolAssumption DEF Limit
<1>4. \A i \in 1..Len(stack) : FALSE
  BY DEF Init
<1>5. TypeOK
  <2>1. queue \in Seq(Tasks) /\ stack \in Seq(Frames)
    <3>1. <<>> \in Seq(Tasks) /\ <<>> \in Seq(Frames)
      OBVIOUS
    <3> QED  BY <3>1
  <2>2. submittedTasks \in 0..MaxTasks
    BY PoolAssumption
  <2>3. /\ priority \in [Tasks -> Priorities \cup {0}]
        /\ outcome \in [Tasks -> {"unborn", "pending"} \cup Settlements]
        /\ qclock \in [Tasks -> {"off", "running", "late"}]
        /\ phase \in [Tasks -> {"none", "scheduled", "invoked", "done"}]
    OBVIOUS
  <2>4. /\ life \in [Workers -> {"young", "late", "fired"}]
        /\ activeTasks \in [Workers -> SUBSET Tasks]
        /\ taskCount \in [Workers -> Nat] /\ attempts \in [Workers -> Nat]
        /\ tstate \in [Workers ->
             {"none", "attempting", "pending", "retry", "exhausted"}]
    OBVIOUS
  <2>5. /\ accepting \in BOOLEAN /\ drainRequested \in BOOLEAN
        /\ terminationStarted \in BOOLEAN /\ shutdownResolved \in BOOLEAN
        /\ closeCalled \in BOOLEAN /\ scheduling \in BOOLEAN
        /\ rescheduleRequested \in BOOLEAN
        /\ retried \in BOOLEAN /\ progressed \in BOOLEAN
    OBVIOUS
  <2> QED  BY <2>1, <2>2, <2>3, <2>4, <2>5 DEF TypeOK
<1>6. SchedulerExclusive
  BY <1>4 DEF SchedulerExclusive
<1>7. Capacity
  BY <1>1, <1>2, <1>3, <1>4 DEF Capacity, PhysicalWorkers
<1> QED  BY <1>5, <1>6, <1>7 DEF IInv

(* Every step of the pool, of its users and of its workers keeps the         *)
(* invariant.                                                                *)
LEMMA NextIInv ==
  ASSUME IInv, [Next]_vars
  PROVE  IInv'
<1>1. CASE UNCHANGED vars
  BY <1>1 DEF IInv, TypeOK, SchedulerExclusive, Capacity, PhysicalWorkers,
              Quarantined, vars, data, poolVars, taskVars, settleVars,
              workerVars, schedVars, termVars
<1>2. CASE Code
  BY <1>2, SettlingKeepsIInv, SubmissionKeepsIInv, PassesKeepIInv,
     FlagKeepsIInv, ChoicesKeepIInv, CreationKeepsIInv, CallsKeepIInv,
     RetirementKeepsIInv, ShutdownKeepsIInv DEF Code
<1>3. CASE Faults \/ User
  BY <1>3, SubmissionKeepsIInv, CallersKeepIInv, CallsKeepIInv,
     ShutdownKeepsIInv DEF Faults, User
<1>4. CASE World
  BY <1>4, CallsKeepIInv, RetirementKeepsIInv DEF World
<1>5. ASSUME NEW t \in Tasks, TaskTimers(t)
      PROVE  IInv'
  BY <1>5, CallersKeepIInv, CallsKeepIInv DEF TaskTimers
<1>6. ASSUME NEW w \in Workers, WorkerTimers(w)
      PROVE  IInv'
  BY <1>6, RetirementKeepsIInv DEF WorkerTimers
<1>7. CASE Finished
  BY <1>1, <1>7 DEF Finished
<1> QED
  BY <1>1, <1>2, <1>3, <1>4, <1>5, <1>6, <1>7, TimeKeepsIInv DEF Next

(* The inductive invariant holds in every execution, for all sizes, buffers, *)
(* limits and policies: types, no nested scheduling, and the bounds on       *)
(* workers with what is needed to keep them.                                 *)
THEOREM Invariance == Spec => []IInv
<1>1. Init => IInv
  BY InitIInv
<1>2. IInv /\ [Next]_vars => IInv'
  BY NextIInv
<1> QED  BY <1>1, <1>2, PTL DEF Spec

(* Every variable keeps its type; in particular every frame of the stack has *)
(* the task and the worker its code reads.                                   *)
THEOREM TypeCorrect == Spec => []TypeOK
<1>1. IInv => TypeOK
  BY DEF IInv
<1> QED  BY <1>1, Invariance, PTL

(* At most one _next pass is on the call stack, however user code in         *)
(* callbacks re-enters the pool, and its two flags agree with that.          *)
THEOREM SchedulingNeverNests == Spec => []SchedulerExclusive
<1>1. IInv => SchedulerExclusive
  BY DEF IInv
<1> QED  BY <1>1, Invariance, PTL

(* Managed and quarantined workers together never exceed size +              *)
(* terminationBuffer, though the room is checked before the factory is       *)
(* called and the worker added after it.                                     *)
THEOREM PhysicalWorkersBounded == Spec => []PhysicalBound
<1>1. IInv => PhysicalBound
  BY DEF IInv, Capacity, PhysicalBound
<1> QED  BY <1>1, Invariance, PTL
=============================================================================
