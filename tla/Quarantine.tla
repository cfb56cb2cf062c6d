----------------------------- MODULE Quarantine -----------------------------
(* What internal/termination.ts promises the pool about one removed worker:  *)
(* it stays in quarantine, tried a bounded number of times, until some       *)
(* attempt has succeeded, be it after its own deadline. WorkerPool.tla       *)
(* builds the same steps into the pool; Termination.tla implements them.     *)
EXTENDS Naturals

CONSTANT RetryAttempts

VARIABLES
  state,   \* "none", "entered", "attempting", "pending", "retry",
           \* "exhausted" or, once confirmed, "gone"
  tries,   \* attempts begun
  late     \* whether a timed-out attempt may still succeed

quarantineVars == <<state, tries, late>>

QuarantineInit == state = "none" /\ tries = 0 /\ late = FALSE

Enter == state = "none" /\ state' = "entered" /\ UNCHANGED <<tries, late>>

Try ==
  /\ state \in {"entered", "retry"}
  /\ state' = "attempting" /\ tries' = tries + 1
  /\ UNCHANGED late

Wait ==
  /\ state = "attempting" /\ state' = "pending"
  /\ UNCHANGED <<tries, late>>

Fail ==
  /\ state \in {"attempting", "pending"}
  /\ state' = IF tries > RetryAttempts THEN "exhausted" ELSE "retry"
  /\ late' \in {late, TRUE}
  /\ UNCHANGED tries

ConfirmGone ==
  /\ state \in {"attempting", "pending"} \/ late
  /\ state' = "gone" /\ late' = FALSE
  /\ UNCHANGED tries

LateFails == late /\ late' = FALSE /\ UNCHANGED <<state, tries>>

QuarantineNext == Enter \/ Try \/ Wait \/ Fail \/ ConfirmGone \/ LateFails

QuarantineSpec == QuarantineInit /\ [][QuarantineNext]_quarantineVars
=============================================================================
