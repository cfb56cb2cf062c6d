------------------------------ MODULE TaskHook ------------------------------
(* The hook useWorkerTask of comlink-worker-pool-react: the status of one    *)
(* method of an api it is given. Rendering is as in PoolHook: "shown" is the *)
(* last commit, whose functions may be used long after a later one. The api  *)
(* and the method are arguments, which may be others at every render.        *)
(* X_Y is X with the slip Y in it, used only to see the properties fail.     *)
EXTENDS Naturals, Sequences

CONSTANTS
  Apis,        \* the apis the parent may pass; they are numbered from 1
  Methods,     \* the methods it may pass
  MaxRuns,     \* bound: runs started
  MaxCallIds   \* bound: value of latestCallIdRef that ends changes and resets

ASSUME TaskHookAssumption ==
  /\ Apis \subseteq Nat \ {0}
  /\ MaxRuns \in Nat /\ MaxCallIds \in Nat

None == 0   \* null

VARIABLES
  api, method,   \* the arguments, as the parent would pass them now
  status,        \* useState
  subject,       \* the run "status" speaks of; stands for result and error
  shown,         \* the last commit: its binding, api and method
  held,          \* an earlier value of "shown", whose functions are in use
  connected,     \* the component's effects are set up
  activeBinding, \* activeBindingRef; bindings count from 1
  latestCallId,  \* latestCallIdRef
  runs           \* what each run() has in its closure, and whether it ended

arguments == <<api, method>>
taskVars == <<arguments, status, subject, shown, held, connected, activeBinding,
              latestCallId, runs>>

View == [binding : Nat \ {None}, api : Apis \cup {None}, method : Methods]
Run == [binding : Nat \ {None}, id : Nat, done : BOOLEAN]

(* The shapes of the hook's state; a binding is live only while connected.   *)
TaskType ==
  /\ api \in Apis \cup {None} /\ method \in Methods
  /\ status \in {"idle", "running", "completed", "error"}
  /\ subject \in 0..Len(runs)
  /\ shown \in View /\ held \in View
  /\ connected \in BOOLEAN
  /\ activeBinding = IF connected THEN shown.binding ELSE None
  /\ latestCallId \in Nat
  /\ runs \in Seq(Run)

TaskInit ==
  /\ api = None /\ method \in Methods
  /\ status = "idle" /\ subject = None
  /\ shown = [binding |-> 1, api |-> api, method |-> method] /\ held = shown
  /\ connected = FALSE /\ activeBinding = None /\ latestCallId = 0
  /\ runs = <<>>

-----------------------------------------------------------------------------
(* bindingIsCurrent and isCurrent of run().                                  *)
BindingIsCurrent(r) == activeBinding = r.binding

IsCurrent_AnyRun(r) == r.id # 0 /\ BindingIsCurrent(r)
IsCurrent(r) == r.id # 0 /\ BindingIsCurrent(r) /\ latestCallId = r.id

(* A render: useMemo keeps the binding while api and method are the same.    *)
Rendered ==
  [binding |-> IF api = shown.api /\ method = shown.method
               THEN shown.binding ELSE shown.binding + 1,
   api |-> api, method |-> method]

-----------------------------------------------------------------------------
(* React. The layout effect sets the binding and resets the status.          *)

Rebind_KeepsStatus(view, first) ==
  /\ activeBinding' = view.binding
  /\ latestCallId' = first + 1
  /\ UNCHANGED <<status, subject>>

Rebind(view, first) ==
  /\ activeBinding' = view.binding
  /\ latestCallId' = first + 1
  /\ status' = "idle" /\ subject' = None

(* The commit of a new binding cleans the old one up first.                  *)
Commit ==
  /\ connected
  /\ shown' = Rendered
  /\ held' \in {held, shown}
  /\ IF Rendered.binding = shown.binding
     THEN UNCHANGED <<activeBinding, latestCallId, status, subject>>
     ELSE Rebind(Rendered, IF activeBinding = shown.binding
                           THEN latestCallId + 1 ELSE latestCallId)
  /\ UNCHANGED <<arguments, connected, runs>>

(* The effects are set up, with or without rendering the component again.    *)
Connect ==
  /\ ~connected /\ latestCallId < MaxCallIds
  /\ connected' = TRUE
  /\ shown' \in {shown, Rendered}
  /\ Rebind(shown', latestCallId)
  /\ UNCHANGED <<arguments, held, runs>>

Disconnect ==
  /\ connected /\ connected' = FALSE
  /\ IF activeBinding = shown.binding
     THEN activeBinding' = None /\ latestCallId' = latestCallId + 1
     ELSE UNCHANGED <<activeBinding, latestCallId>>
  /\ UNCHANGED <<arguments, status, subject, shown, held, runs>>

-----------------------------------------------------------------------------
(* The program: another api or method, run() and reset() of the last commit  *)
(* or of an earlier one, the end of a run at any time.                       *)

Retarget ==
  /\ latestCallId < MaxCallIds
  /\ api' \in Apis \cup {None} /\ method' \in Methods
  /\ UNCHANGED <<status, subject, shown, held, connected, activeBinding,
                 latestCallId, runs>>

Start(view) ==
  /\ Len(runs) < MaxRuns
  /\ LET current == BindingIsCurrent(view)
         id == IF current THEN latestCallId + 1 ELSE 0
     IN /\ runs' = Append(runs, [binding |-> view.binding, id |-> id,
                                 done |-> view.api = None])
        /\ IF current
           THEN /\ latestCallId' = id /\ subject' = Len(runs) + 1
                /\ status' = IF view.api = None THEN "error"
                             ELSE "running"
           ELSE UNCHANGED <<latestCallId, subject, status>>
  /\ UNCHANGED <<arguments, shown, held, connected, activeBinding>>

Settle(i) ==
  /\ ~runs[i].done /\ runs' = [runs EXCEPT ![i].done = TRUE]
  /\ IF IsCurrent(runs[i])
     THEN subject' = i /\ status' \in {"completed", "error"}
     ELSE UNCHANGED <<subject, status>>
  /\ UNCHANGED <<arguments, shown, held, connected, activeBinding, latestCallId>>

Reset_SameCallId(view) ==
  /\ BindingIsCurrent(view) /\ latestCallId < MaxCallIds
  /\ status' = "idle" /\ subject' = None
  /\ UNCHANGED <<arguments, shown, held, connected, activeBinding, latestCallId,
                 runs>>

(* reset() of an outdated commit returns at once.                            *)
Reset(view) ==
  /\ BindingIsCurrent(view) /\ latestCallId < MaxCallIds
  /\ latestCallId' = latestCallId + 1
  /\ status' = "idle" /\ subject' = None
  /\ UNCHANGED <<arguments, shown, held, connected, activeBinding, runs>>

TaskNext ==
  \/ Commit \/ Connect \/ Disconnect \/ Retarget
  \/ \E view \in {shown, held} : Start(view) \/ Reset(view)
  \/ \E i \in 1..Len(runs) : Settle(i)

TaskSpec == TaskInit /\ [][TaskNext]_taskVars

-----------------------------------------------------------------------------
(* Properties.                                                               *)

(* Runs whose end the hook would still publish.                              *)
Followed == {i \in 1..Len(runs) : ~runs[i].done /\ IsCurrent(runs[i])}

Tracked == IF Followed = {} THEN 0 ELSE CHOOSE i \in Followed : TRUE

Latest == INSTANCE LatestCall WITH
  started <- Len(runs),
  tracked <- Tracked,
  view <- IF connected THEN status ELSE "idle",
  subject <- IF connected THEN subject ELSE 0

(* However the api and the method change and whatever is reset or run        *)
(* through an outdated function, the hook shows the state of the latest run  *)
(* of what it is bound to.                                                   *)
ShowsLatestRun == Latest!LatestSpec

(* A status is about a run of the api and the method that are shown: the     *)
(* result of another method or of a replaced pool never stands in its place. *)
StatusOfShownTarget ==
  connected /\ subject # None => runs[subject].binding = shown.binding
=============================================================================
