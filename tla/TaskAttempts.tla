---------------------------- MODULE TaskAttempts ----------------------------
(***************************************************************************)
(* What the orchestration services promise about one retryable task,       *)
(* whatever tables, receipts, leases and recoveries bring it about: at     *)
(* most three attempts, each after the first paid for with one retry unit  *)
(* taken between the failure and the retry; only a failure that a run      *)
(* reported itself is retried, never an interruption; a task is buried     *)
(* after its third failure only, and a task that has ended stays ended.    *)
(***************************************************************************)
EXTENDS Naturals

CONSTANT Limit   \* attempts a task may have

VARIABLES phase, attempt, spent, reported

vars == <<phase, attempt, spent, reported>>

Init == phase = "ready" /\ attempt = 1 /\ spent = 0 /\ reported = FALSE

Start ==
    /\ phase = "ready" /\ phase' = "running"
    /\ UNCHANGED <<attempt, spent, reported>>

Fail ==
    /\ phase = "running" /\ phase' = "failed" /\ reported' = TRUE
    /\ UNCHANGED <<attempt, spent>>

Interrupt ==
    /\ phase \in {"running", "cancelling"} /\ phase' = "failed"
    /\ UNCHANGED <<attempt, spent, reported>>

Spend ==
    /\ phase = "failed" /\ reported
    /\ attempt < Limit /\ spent = attempt - 1
    /\ spent' = attempt
    /\ UNCHANGED <<phase, attempt, reported>>

Retry ==
    /\ phase = "failed" /\ reported
    /\ spent = attempt
    /\ phase' = "ready" /\ attempt' = attempt + 1 /\ reported' = FALSE
    /\ UNCHANGED spent

Cancel ==
    /\ \/ phase = "running" /\ phase' = "cancelling"
       \/ phase \in {"ready", "cancelling"} /\ phase' = "cancelled"
    /\ UNCHANGED <<attempt, spent, reported>>

Succeed ==
    /\ phase = "running" /\ phase' = "succeeded"
    /\ UNCHANGED <<attempt, spent, reported>>

Bury ==
    /\ phase = "failed" /\ reported /\ attempt = Limit
    /\ phase' = "dead_letter" /\ reported' = FALSE
    /\ UNCHANGED <<attempt, spent>>

Next == Start \/ Fail \/ Interrupt \/ Spend \/ Retry \/ Cancel \/ Succeed \/ Bury

Spec == Init /\ [][Next]_vars
=============================================================================
