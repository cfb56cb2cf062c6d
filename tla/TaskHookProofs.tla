--------------------------- MODULE TaskHookProofs ---------------------------
(* Proofs about the hook useWorkerTask for every set of apis and methods and *)
(* any number of runs: its status is that of the latest run of what it is    *)
(* bound to, that is, the hook implements LatestCall.                        *)
EXTENDS TaskHook, TLAPS

-----------------------------------------------------------------------------
(* The inductive invariant. The hook decides whether to publish the end of a *)
(* run by comparing numbers that were stored in refs and closures; what has  *)
(* to be known of them is that no run holds a number the counter has not     *)
(* reached, and that exactly the run shown running passes the comparison.    *)

IdsGivenOut == \A i \in 1..Len(runs) : runs[i].id <= latestCallId

StatusFollows ==
  /\ Followed = IF connected /\ status = "running" THEN {subject} ELSE {}
  /\ connected /\ status = "running" => subject # None

TaskInv == TaskType /\ IdsGivenOut /\ StatusFollows /\ StatusOfShownTarget

(* What run() has in its closure is well formed.                             *)
LEMMA RunShape ==
  ASSUME TaskType, NEW i \in 1..Len(runs)
  PROVE  runs[i] \in Run /\ runs[i].id \in Nat
<1>1. runs[i] \in Run
  BY DEF TaskType
<1> QED  BY <1>1 DEF Run

(* A run is followed if its end would be published.                          *)
LEMMA FollowedRuns ==
  ASSUME NEW i
  PROVE  i \in Followed <=>
           /\ i \in 1..Len(runs) /\ ~runs[i].done /\ runs[i].id # 0
           /\ runs[i].binding = activeBinding /\ runs[i].id = latestCallId
BY DEF Followed, IsCurrent, BindingIsCurrent

(* In the terms of LatestCall, the tracked run is the one shown running.     *)
LEMMA TrackedRun ==
  ASSUME StatusFollows
  PROVE  Tracked = IF connected /\ status = "running" THEN subject ELSE 0
<1>1. CASE connected /\ status = "running"
  <2>1. Followed = {subject}
    BY <1>1 DEF StatusFollows
  <2>2. (CHOOSE i \in Followed : TRUE) = subject
    BY <2>1
  <2> QED  BY <1>1, <2>1, <2>2 DEF Tracked
<1>2. CASE ~(connected /\ status = "running")
  BY <1>2 DEF StatusFollows, Tracked
<1> QED  BY <1>1, <1>2

(* A number that no run has been given makes the hook follow no run.         *)
LEMMA NewNumberFollowsNone ==
  ASSUME TaskInv, runs' = runs, latestCallId' \in Nat,
         latestCallId' > latestCallId
  PROVE  IdsGivenOut' /\ Followed' = {}
<1>1. ASSUME NEW i \in 1..Len(runs)
      PROVE  runs[i].id \in Nat /\ runs[i].id <= latestCallId
  BY <1>1, RunShape DEF TaskInv, IdsGivenOut
<1>2. latestCallId \in Nat
  BY DEF TaskInv, TaskType
<1>3. IdsGivenOut'
  BY <1>1, <1>2 DEF TaskInv, IdsGivenOut
<1>4. Followed' = {}
  BY <1>1, <1>2 DEF Followed, IsCurrent
<1> QED  BY <1>3, <1>4

-----------------------------------------------------------------------------
(* A step of the hook keeps the invariant, and it is a step of LatestCall.   *)

KeepsAndMaps == TaskInv' /\ [Latest!LatestNext]_(Latest!latestVars)

(* A clean-up or a reset forgets the run that was shown.                     *)
LEMMA ForgettingMaps ==
  ASSUME TaskInv, TaskType', runs' = runs, latestCallId' > latestCallId,
         connected' => status' = "idle" /\ subject' = None
  PROVE  KeepsAndMaps
<1>1. latestCallId' \in Nat
  BY DEF TaskType
<1>2. IdsGivenOut' /\ Followed' = {}
  BY <1>1, NewNumberFollowsNone
<1>3. StatusFollows' /\ StatusOfShownTarget'
  BY <1>2 DEF StatusFollows, StatusOfShownTarget
<1>4. Tracked' = 0
  BY <1>2 DEF Tracked
<1>5. Latest!Forget
  BY <1>4 DEF Latest!Forget, None, TaskType
<1> QED  BY <1>2, <1>3, <1>5 DEF KeepsAndMaps, TaskInv, Latest!LatestNext

(* A step that leaves what the status depends on maps to a stutter.          *)
LEMMA OtherStepsMap ==
  ASSUME TaskInv, TaskType', 
         UNCHANGED <<runs, latestCallId, activeBinding, status, subject,
                     connected, shown>>
  PROVE  KeepsAndMaps
<1>1. Followed' = Followed
  BY DEF Followed, IsCurrent, BindingIsCurrent
<1>2. IdsGivenOut' /\ StatusFollows' /\ StatusOfShownTarget'
  BY <1>1 DEF TaskInv, IdsGivenOut, StatusFollows, StatusOfShownTarget
<1>3. UNCHANGED Latest!latestVars
  BY <1>1 DEF Latest!latestVars, Tracked
<1> QED  BY <1>2, <1>3 DEF KeepsAndMaps, TaskInv

(* What a render returns.                                                    *)
LEMMA RenderedView ==
  ASSUME TaskType
  PROVE  /\ Rendered \in View
         /\ Rendered.binding = shown.binding => Rendered = shown
<1>1. /\ shown.binding \in Nat \ {0} /\ shown \in View
      /\ shown = [binding |-> shown.binding, api |-> shown.api,
                  method |-> shown.method]
  BY DEF TaskType, View, None
<1>2. Rendered \in View
  BY <1>1 DEF TaskType, View, Rendered, None
<1>3. CASE api = shown.api /\ method = shown.method
  BY <1>1, <1>2, <1>3 DEF Rendered
<1>4. CASE ~(api = shown.api /\ method = shown.method)
  BY <1>1, <1>2, <1>4 DEF Rendered
<1> QED  BY <1>3, <1>4

LEMMA CommitMaps ==
  ASSUME TaskInv, Commit
  PROVE  KeepsAndMaps
<1>1. TaskType'
  BY RenderedView DEF TaskInv, TaskType, Commit, Rebind, arguments, None
<1>2. CASE Rendered.binding = shown.binding
  BY <1>1, <1>2, RenderedView, OtherStepsMap
     DEF TaskInv, Commit, arguments
<1>3. CASE Rendered.binding # shown.binding
  <2>1. latestCallId' > latestCallId
    BY <1>3 DEF TaskInv, TaskType, Commit, Rebind
  <2> QED  BY <1>1, <1>3, <2>1, ForgettingMaps DEF Commit, Rebind
<1> QED  BY <1>2, <1>3

LEMMA ConnectMaps ==
  ASSUME TaskInv, Connect
  PROVE  KeepsAndMaps
<1>1. shown' \in View
  BY RenderedView DEF TaskInv, TaskType, Connect
<1>2. TaskType'
  BY <1>1 DEF TaskInv, TaskType, Connect, Rebind, arguments, None
<1>3. latestCallId' > latestCallId
  BY DEF TaskInv, TaskType, Connect, Rebind
<1> QED  BY <1>2, <1>3, ForgettingMaps DEF Connect, Rebind

LEMMA DisconnectMaps ==
  ASSUME TaskInv, Disconnect
  PROVE  KeepsAndMaps
<1>1. activeBinding = shown.binding /\ latestCallId \in Nat
  BY DEF TaskInv, TaskType, Disconnect
<1>2. activeBinding' = None /\ latestCallId' = latestCallId + 1
  BY <1>1 DEF Disconnect
<1>3. /\ connected' = FALSE
      /\ UNCHANGED <<api, method, status, subject, shown, held, runs>>
  BY DEF Disconnect, arguments
<1>4. latestCallId' \in Nat /\ latestCallId' > latestCallId
  BY <1>1, <1>2
<1>5. TaskType'
  BY <1>2, <1>3, <1>4 DEF TaskInv, TaskType
<1> QED  BY <1>3, <1>4, <1>5, ForgettingMaps

LEMMA ResetMaps ==
  ASSUME TaskInv, NEW view \in {shown, held}, Reset(view)
  PROVE  KeepsAndMaps
<1>1. TaskType' /\ latestCallId' > latestCallId
  BY DEF TaskInv, TaskType, Reset, arguments, None
<1> QED  BY <1>1, ForgettingMaps DEF Reset

LEMMA RetargetMaps ==
  ASSUME TaskInv, Retarget
  PROVE  KeepsAndMaps
<1>1. TaskType'
  BY DEF TaskInv, TaskType, Retarget
<1> QED  BY <1>1, OtherStepsMap DEF Retarget

-----------------------------------------------------------------------------
(* run(): through the binding that is live, and through an outdated one.     *)

(* A started run is added to the others, which stay as they are.             *)
LEMMA StartAdds ==
  ASSUME TaskInv, NEW view \in {shown, held}, Start(view)
  PROVE  /\ TaskType' /\ Len(runs') = Len(runs) + 1
         /\ \A i \in 1..Len(runs) : runs'[i] = runs[i]
         /\ LET r == runs'[Len(runs) + 1]
            IN /\ r.binding = view.binding
               /\ r.id = IF BindingIsCurrent(view) THEN latestCallId + 1 ELSE 0
               /\ r.done = (view.api = None)
<1> DEFINE id == IF BindingIsCurrent(view) THEN latestCallId + 1 ELSE 0
           r == [binding |-> view.binding, id |-> id,
                 done |-> view.api = None]
<1>1. view \in View /\ runs \in Seq(Run) /\ latestCallId \in Nat
  BY DEF TaskInv, TaskType
<1>2. r \in Run
  BY <1>1 DEF Run, View
<1>3. runs' = Append(runs, r)
  BY DEF Start
<1>4. /\ runs' \in Seq(Run) /\ Len(runs') = Len(runs) + 1
      /\ \A i \in 1..Len(runs) : runs'[i] = runs[i]
      /\ runs'[Len(runs) + 1] = r
  BY <1>1, <1>2, <1>3
<1>5. latestCallId' \in Nat
  BY <1>1 DEF Start
<1>6. /\ status' \in {"idle", "running", "completed", "error"}
      /\ subject' \in 0..Len(runs')
  BY <1>1, <1>4 DEF Start, TaskInv, TaskType
<1>7. TaskType'
  BY <1>4, <1>5, <1>6 DEF Start, TaskInv, TaskType, arguments
<1> QED  BY <1>4, <1>7

LEMMA LiveStartMaps ==
  ASSUME TaskInv, NEW view \in {shown, held}, Start(view),
         BindingIsCurrent(view)
  PROVE  KeepsAndMaps
<1> DEFINE n == Len(runs) + 1
<1>1. /\ TaskType' /\ Len(runs') = n
      /\ \A i \in 1..Len(runs) : runs'[i] = runs[i]
      /\ runs'[n].binding = view.binding
      /\ runs'[n].id = latestCallId + 1
      /\ runs'[n].done = (view.api = None)
  BY StartAdds
<1>2. /\ latestCallId' = latestCallId + 1 /\ subject' = n
      /\ status' = IF view.api = None THEN "error" ELSE "running"
      /\ UNCHANGED <<shown, connected, activeBinding>>
  BY DEF Start
<1>3. /\ latestCallId \in Nat /\ Len(runs) \in Nat
      /\ view.binding # None /\ activeBinding = view.binding
      /\ connected /\ activeBinding = shown.binding
  BY DEF TaskInv, TaskType, View, BindingIsCurrent, None
<1>4. ASSUME NEW i \in 1..Len(runs)
      PROVE  runs[i].id \in Nat /\ runs[i].id <= latestCallId
  BY <1>4, RunShape DEF TaskInv, IdsGivenOut
<1>5. IdsGivenOut'
  <2>1. \A i \in 1..Len(runs') : i \in 1..Len(runs) \/ i = n
    BY <1>1, <1>3
  <2>2. \A i \in 1..Len(runs') : runs'[i].id <= latestCallId'
    BY <1>1, <1>2, <1>3, <1>4, <2>1
  <2> QED  BY <2>2 DEF IdsGivenOut
<1>6. Followed' = IF view.api = None THEN {} ELSE {n}
  <2>1. ASSUME NEW i \in 1..Len(runs)
        PROVE  runs'[i].id # latestCallId'
    BY <1>1, <1>2, <1>3, <1>4, <2>1
  <2>2. runs'[n].id # 0 /\ runs'[n].id = latestCallId'
        /\ runs'[n].binding = activeBinding'
    BY <1>1, <1>2, <1>3
  <2>3. \A i : i \in Followed' <=>
          /\ i \in 1..n /\ ~runs'[i].done /\ runs'[i].id # 0
          /\ runs'[i].binding = activeBinding' /\ runs'[i].id = latestCallId'
    BY <1>1 DEF Followed, IsCurrent, BindingIsCurrent
  <2>4. \A i \in 1..n : i \in 1..Len(runs) \/ i = n
    BY <1>3
  <2>5. n \in 1..n
    BY <1>3
  <2> QED  BY <1>1, <2>1, <2>2, <2>3, <2>4, <2>5
<1>7. StatusFollows'
  BY <1>2, <1>3, <1>6 DEF StatusFollows, None
<1>8. StatusOfShownTarget'
  BY <1>1, <1>2, <1>3 DEF StatusOfShownTarget
<1>9. Tracked' = IF view.api = None THEN 0 ELSE n
  <2>1. CASE view.api = None
    BY <1>6, <2>1 DEF Tracked
  <2>2. CASE view.api # None
    <3>1. Followed' = {n}
      BY <1>6, <2>2
    <3>2. (CHOOSE i \in Followed' : TRUE) = n
      BY <3>1
    <3> QED  BY <2>2, <3>1, <3>2 DEF Tracked
  <2> QED  BY <2>1, <2>2
<1>10. Latest!Begin \/ Latest!Refuse
  BY <1>1, <1>2, <1>3, <1>9 DEF Latest!Begin, Latest!Refuse
<1> QED
  BY <1>1, <1>5, <1>7, <1>8, <1>10 DEF KeepsAndMaps, TaskInv, Latest!LatestNext

LEMMA OutdatedStartMaps ==
  ASSUME TaskInv, NEW view \in {shown, held}, Start(view),
         ~BindingIsCurrent(view)
  PROVE  KeepsAndMaps
<1> DEFINE n == Len(runs) + 1
<1>1. /\ TaskType' /\ Len(runs') = n
      /\ \A i \in 1..Len(runs) : runs'[i] = runs[i]
      /\ runs'[n].id = 0
  BY StartAdds
<1>2. UNCHANGED <<latestCallId, subject, status, shown, connected,
                  activeBinding>>
  BY DEF Start
<1>3. latestCallId \in Nat /\ Len(runs) \in Nat /\ subject \in 0..Len(runs)
  BY DEF TaskInv, TaskType
<1>4. \A i \in 1..n : i \in 1..Len(runs) \/ i = n
  BY <1>3
<1>5. IdsGivenOut'
  BY <1>1, <1>2, <1>3, <1>4 DEF TaskInv, IdsGivenOut
<1>6. Followed' = Followed
  <2>1. \A i : i \in Followed' <=>
          /\ i \in 1..n /\ ~runs'[i].done /\ runs'[i].id # 0
          /\ runs'[i].binding = activeBinding' /\ runs'[i].id = latestCallId'
    BY <1>1 DEF Followed, IsCurrent, BindingIsCurrent
  <2>2. \A i \in 1..Len(runs) : i \in 1..n
    BY <1>3
  <2>3. \A i : i \in Followed' <=> i \in Followed
    BY <1>1, <1>2, <1>4, <2>1, <2>2, FollowedRuns
  <2> QED  BY <2>3 DEF Followed
<1>7. StatusFollows' /\ StatusOfShownTarget'
  BY <1>1, <1>2, <1>3, <1>6
     DEF TaskInv, StatusFollows, StatusOfShownTarget, None
<1>8. Latest!Ignore
  BY <1>1, <1>2, <1>6 DEF Latest!Ignore, Tracked
<1> QED
  BY <1>1, <1>5, <1>7, <1>8 DEF KeepsAndMaps, TaskInv, Latest!LatestNext

-----------------------------------------------------------------------------
(* The end of a run: of the one shown running, and of any other.             *)

LEMMA SettleMaps ==
  ASSUME TaskInv, NEW i \in 1..Len(runs), Settle(i)
  PROVE  KeepsAndMaps
<1>1. /\ runs' = [runs EXCEPT ![i].done = TRUE]
      /\ UNCHANGED <<arguments, shown, held, connected, activeBinding,
                     latestCallId>>
  BY DEF Settle
<1>2. /\ runs' \in Seq(Run) /\ Len(runs') = Len(runs)
      /\ \A j \in 1..Len(runs) :
           /\ runs'[j].id = runs[j].id /\ runs'[j].binding = runs[j].binding
           /\ runs'[j].done = (runs[j].done \/ j = i)
  <2>1. \A j \in 1..Len(runs) : runs[j] \in Run
    BY RunShape DEF TaskInv
  <2>2. [runs[i] EXCEPT !.done = TRUE] \in Run
    BY <2>1 DEF Run
  <2>3. \A j \in 1..Len(runs) :
          runs'[j] = IF j = i THEN [runs[i] EXCEPT !.done = TRUE] ELSE runs[j]
    BY <1>1 DEF TaskInv, TaskType
  <2>4. runs' \in Seq(Run) /\ Len(runs') = Len(runs)
    BY <1>1, <2>2 DEF TaskInv, TaskType
  <2>5. \A j \in 1..Len(runs) :
          /\ runs'[j].id = runs[j].id /\ runs'[j].binding = runs[j].binding
          /\ runs'[j].done = (runs[j].done \/ j = i)
    BY <2>1, <2>3 DEF Run
  <2> QED  BY <2>4, <2>5
<1>3. TaskType'
  BY <1>1, <1>2 DEF TaskInv, TaskType, Settle, arguments
<1>4. IdsGivenOut'
  BY <1>1, <1>2 DEF TaskInv, IdsGivenOut
<1>5. Followed' = Followed \ {i}
  BY <1>1, <1>2 DEF Followed, IsCurrent, BindingIsCurrent
<1>6. CASE IsCurrent(runs[i])
  <2>1. i \in Followed
    BY <1>6 DEF Followed, Settle
  <2>2. connected /\ status = "running" /\ subject = i /\ Followed = {i}
    BY <2>1 DEF TaskInv, StatusFollows
  <2>3. subject' = i /\ status' \in {"completed", "error"} /\ Followed' = {}
    BY <1>5, <1>6, <2>2 DEF Settle
  <2>4. StatusFollows' /\ StatusOfShownTarget'
    BY <1>1, <1>2, <2>2, <2>3
       DEF TaskInv, StatusFollows, StatusOfShownTarget
  <2>5. Tracked = i /\ Tracked' = 0
    BY <2>2, <2>3, TrackedRun DEF TaskInv, Tracked
  <2>6. Latest!End
    BY <1>1, <1>2, <2>2, <2>3, <2>5 DEF Latest!End
  <2> QED
    BY <1>3, <1>4, <2>4, <2>6 DEF KeepsAndMaps, TaskInv, Latest!LatestNext
<1>7. CASE ~IsCurrent(runs[i])
  <2>1. UNCHANGED <<subject, status>> /\ Followed' = Followed
    BY <1>5, <1>7 DEF Settle, Followed
  <2>2. StatusFollows' /\ StatusOfShownTarget'
    BY <1>1, <1>2, <2>1
       DEF TaskInv, TaskType, StatusFollows, StatusOfShownTarget, None
  <2>3. UNCHANGED Latest!latestVars
    BY <1>1, <1>2, <2>1 DEF Latest!latestVars, Tracked
  <2> QED  BY <1>3, <1>4, <2>2, <2>3 DEF KeepsAndMaps, TaskInv
<1> QED  BY <1>6, <1>7

-----------------------------------------------------------------------------

(* Nothing has run and nothing is shown at first.                            *)
LEMMA InitMaps ==
  ASSUME TaskInit
  PROVE  TaskInv /\ Latest!LatestInit
<1>1. Followed = {} /\ Len(runs) = 0
  BY DEF TaskInit, Followed
<1>2. TaskType
  <2>1. runs \in Seq(Run)
    BY DEF TaskInit
  <2>2. shown \in View /\ held \in View
    BY DEF TaskInit, View, None
  <2>3. activeBinding = IF connected THEN shown.binding ELSE None
    BY DEF TaskInit
  <2>4. api \in Apis \cup {None} /\ subject \in 0..Len(runs)
    BY <1>1 DEF TaskInit, None
  <2> QED  BY <2>1, <2>2, <2>3, <2>4 DEF TaskInit, TaskType
<1>3. IdsGivenOut /\ StatusFollows /\ StatusOfShownTarget
  BY <1>1 DEF TaskInit, IdsGivenOut, StatusFollows, StatusOfShownTarget
<1>4. Latest!LatestInit
  BY <1>1 DEF TaskInit, Latest!LatestInit, Tracked, None
<1> QED  BY <1>2, <1>3, <1>4 DEF TaskInv

LEMMA NextMaps ==
  ASSUME TaskInv, [TaskNext]_taskVars
  PROVE  KeepsAndMaps
<1>1. CASE UNCHANGED taskVars
  <2>1. TaskType'
    BY <1>1 DEF TaskInv, TaskType, taskVars, arguments
  <2> QED  BY <1>1, <2>1, OtherStepsMap DEF taskVars
<1>2. CASE TaskNext
  <2>1. ASSUME NEW view \in {shown, held}, Start(view)
        PROVE  KeepsAndMaps
    BY <2>1, LiveStartMaps, OutdatedStartMaps
  <2> QED
    BY <1>2, <2>1, CommitMaps, ConnectMaps, DisconnectMaps, RetargetMaps,
       ResetMaps, SettleMaps DEF TaskNext
<1> QED  BY <1>1, <1>2

(* The inductive invariant holds in every execution.                         *)
THEOREM TaskInvariance == TaskSpec => []TaskInv
<1>1. TaskInit => TaskInv
  BY InitMaps
<1>2. TaskInv /\ [TaskNext]_taskVars => TaskInv'
  BY NextMaps DEF KeepsAndMaps
<1> QED  BY <1>1, <1>2, PTL DEF TaskSpec

(* The status is never about another api or method than the shown one.       *)
THEOREM StatusIsOfTarget == TaskSpec => []StatusOfShownTarget
<1>1. TaskInv => StatusOfShownTarget
  BY DEF TaskInv
<1> QED  BY <1>1, TaskInvariance, PTL

(* The hook implements LatestCall: "running" is always about the latest run, *)
(* and the end of no other run is ever published.                            *)
THEOREM TaskShowsLatestRun == TaskSpec => ShowsLatestRun
<1>1. TaskInit => Latest!LatestInit
  BY InitMaps
<1>2. TaskInv /\ [TaskNext]_taskVars
        => [Latest!LatestNext]_(Latest!latestVars)
  BY NextMaps DEF KeepsAndMaps
<1> QED
  BY <1>1, <1>2, TaskInvariance, PTL
     DEF TaskSpec, ShowsLatestRun, Latest!LatestSpec

(* What a reader of the status may count on: "running" is shown exactly      *)
(* while the end of a run is still to be shown, and that run is the one the  *)
(* status is about.                                                          *)
LatestInv == Latest!LatestType /\ Latest!RunningIsTracked
SubjectShown == IF connected THEN subject ELSE 0

(* A status about one run is never followed by a status about an earlier     *)
(* one, in whatever order the runs end, and none is left "running" by a run  *)
(* that is over or ignored by the task hook.                                 *)
THEOREM StatusNeverGoesBack ==
  TaskSpec => []LatestInv /\ Latest!NeverGoesBack
<1> USE DEF LatestInv, Latest!LatestType, Latest!RunningIsTracked, SubjectShown
<1>1. Latest!LatestInit => LatestInv
  BY DEF Latest!LatestInit
<1>2. LatestInv /\ [Latest!LatestNext]_(Latest!latestVars)
        => LatestInv'
  BY DEF Latest!LatestNext, Latest!latestVars, Latest!Begin,
     Latest!Refuse, Latest!Ignore, Latest!End, Latest!Forget
<1>3. LatestInv /\ [Latest!LatestNext]_(Latest!latestVars)
        => [SubjectShown' = 0 \/ SubjectShown' >= SubjectShown]_(
               Latest!latestVars)
  BY DEF Latest!LatestNext, Latest!latestVars, Latest!Begin,
     Latest!Refuse, Latest!Ignore, Latest!End, Latest!Forget
<1> QED
  BY <1>1, <1>2, <1>3, TaskShowsLatestRun, PTL
     DEF Latest!LatestSpec, Latest!NeverGoesBack, ShowsLatestRun
=============================================================================
