--------------------------- MODULE CallerPromise ---------------------------
(* What a pool promises to the code that submits tasks, with no queue, no    *)
(* worker and no scheduler in sight: every accepted call settles at most     *)
(* once, its method runs at most once and only in a pool that is not closed, *)
(* and each outcome has the reason it names. WorkerPool implements it.       *)
EXTENDS Naturals

CONSTANTS
  MaxTasks,      \* bound: number of tasks ever submitted
  Settlements    \* the ways a call may settle

VARIABLES
  doors,      \* "open", "draining" or "closed"
  submitted,  \* calls accepted so far
  method,     \* per call, its method: "not called", "running" or "over"
  result      \* per call: "unborn", "pending" or how it settled

promiseVars == <<doors, submitted, method, result>>

Calls == 1..MaxTasks

(* Outcomes a call can have only before its method has been called.          *)
QueueOutcomes == {"queue-timeout", "dropped", "queue-rejected"}

PromiseInit ==
  /\ doors = "open" /\ submitted = 0
  /\ method = [t \in Calls |-> "not called"]
  /\ result = [t \in Calls |-> "unborn"]

Accept ==
  /\ doors = "open" /\ submitted < MaxTasks
  /\ submitted' = submitted + 1
  /\ result' = [result EXCEPT ![submitted + 1] = "pending"]
  /\ UNCHANGED <<doors, method>>

(* The method of an aborted call may still be called, of no other settled    *)
(* one.                                                                      *)
Start(t) ==
  /\ method[t] = "not called" /\ result[t] \in {"pending", "aborted"}
  /\ doors # "closed"
  /\ method' = [method EXCEPT ![t] = "running"]
  /\ UNCHANGED <<doors, submitted, result>>

(* The method has answered, or the call has lost its turn.                   *)
Finish(t) ==
  /\ method[t] # "over" /\ result[t] # "unborn"
  /\ method' = [method EXCEPT ![t] = "over"]
  /\ UNCHANGED <<doors, submitted, result>>

(* "rejected" is the method's error or, before it, that of a factory.        *)
SettleAs(t, why) ==
  /\ result[t] = "pending"
  /\ why \in QueueOutcomes => method[t] = "not called"
  /\ why = "fulfilled" => method[t] = "over" /\ doors # "closed"
  /\ why = "rejected" => method[t] # "running"
  /\ why = "pool-closed" => doors = "closed"
  /\ result' = [result EXCEPT ![t] = why]
  /\ UNCHANGED <<doors, submitted, method>>

CloseDoors ==
  /\ \/ doors = "open" /\ doors' = "draining"
     \/ doors # "closed" /\ doors' = "closed"
  /\ UNCHANGED <<submitted, method, result>>

PromiseNext ==
  \/ Accept \/ CloseDoors
  \/ \E t \in Calls :
       \/ Start(t) \/ Finish(t)
       \/ \E why \in Settlements : SettleAs(t, why)

PromiseSpec == PromiseInit /\ [][PromiseNext]_promiseVars
=============================================================================
