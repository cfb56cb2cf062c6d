----------------------------- MODULE LatestCall -----------------------------
(* What a component that shows "the state of the latest call" promises: the  *)
(* status hooks of comlink-worker-pool-react and the playground's batch are  *)
(* refinements of it. Calls are numbered in the order they start. A call is  *)
(* either tracked from its start, and then it is the latest one, or never.   *)
EXTENDS Naturals

VARIABLES
  started,   \* calls started so far; the next one has number started + 1
  tracked,   \* the pending call whose end will be shown, 0 when there is none
  view,      \* the status that is shown
  subject    \* the call the status speaks of, 0 when it speaks of none

latestVars == <<started, tracked, view, subject>>

LatestInit == started = 0 /\ tracked = 0 /\ view = "idle" /\ subject = 0

(* A new call takes the view over, whatever call it showed before.           *)
Begin ==
  /\ started' = started + 1 /\ tracked' = started + 1
  /\ view' = "running" /\ subject' = started + 1

(* A new call fails before it has anything to wait for.                      *)
Refuse ==
  /\ started' = started + 1 /\ tracked' = 0
  /\ view' = "error" /\ subject' = started + 1

(* A call made through something outdated leaves the view alone for ever.    *)
Ignore == started' = started + 1 /\ UNCHANGED <<tracked, view, subject>>

End ==
  /\ tracked # 0 /\ tracked' = 0
  /\ view' \in {"completed", "error"} /\ UNCHANGED <<started, subject>>

(* The view is reset; the call it showed is never heard of again.            *)
Forget ==
  /\ tracked' = 0 /\ view' \in {"idle", "error"} /\ subject' = 0
  /\ UNCHANGED started

LatestNext == Begin \/ Refuse \/ Ignore \/ End \/ Forget

LatestSpec == LatestInit /\ [][LatestNext]_latestVars

-----------------------------------------------------------------------------
(* What follows from it for a reader of the view.                            *)

LatestType ==
  /\ started \in Nat /\ tracked \in 0..started /\ subject \in 0..started
  /\ view \in {"idle", "running", "completed", "error"}

(* "running" is shown exactly while there is a call whose end will be shown, *)
(* so the view can never be left running by a call that is over or ignored.  *)
RunningIsTracked ==
  /\ (view = "running") <=> (tracked # 0)
  /\ tracked # 0 => subject = tracked

(* The view never goes back to an earlier call.                              *)
NeverGoesBack == [][subject' = 0 \/ subject' >= subject]_latestVars
=============================================================================
