----------------------------- MODULE RetryState -----------------------------
(***************************************************************************)
(* The durable state behind one retryable validation task: its plan and    *)
(* task rows, the assessment's budget account, lease fence and worker, and *)
(* the immutable receipts that carry the task from its first attempt to    *)
(* its third (pentai_core/orchestration_*.py, migrations 0035 to 0078).    *)
(*                                                                         *)
(* A table is a function whose domain is the set of its rows.  Attempts    *)
(* are numbered 1 to 3.  A slot is one path to a run of the task: slots 1  *)
(* to 3 are the versioned paths of the three attempts, slots 4 and 5 the   *)
(* ordinary path (manifest v2, lease v1) taken by the task after a retry   *)
(* has made it ready again.  Row 6 is the reservation of another task.     *)
(*                                                                         *)
(* An instant is a name; passed holds the names the clock has gone by, and *)
(* an expiry taken as a minimum is the set of the instants it is the       *)
(* minimum of.  Policy, engagement and global safety are one flag.         *)
(***************************************************************************)
EXTENDS Integers, FiniteSets, FiniteSetsExt

CONSTANTS
    Gating,          \* whether the task may require human approval: a set of BOOLEANs
    Siblings,        \* states the plan's other task may start in, "none" if alone
    Ceilings,        \* [assessment, per_task], each [work, retries]
    Requests,        \* amounts a reservation may ask for
    MaxCheckpoints,  \* bound: checkpoints per behaviour
    MaxDisturbances  \* bound: outside events and recoveries per behaviour

Slots == 1..5
Ordinary == {1, 4, 5}
Retry == {2, 3}
Other == 6

\* The attempt a slot belongs to.
Round(s) == IF s > 3 THEN s - 2 ELSE s

Amounts == [work : Nat, retries : Nat]

ASSUME RetryAssumption ==
    /\ Gating \subseteq BOOLEAN /\ Gating # {}
    /\ Siblings \subseteq {"none", "ready", "blocked"} /\ Siblings # {}
    /\ Ceilings.assessment \in Amounts /\ Ceilings.per_task \in Amounts
    /\ Ceilings.per_task.work <= Ceilings.assessment.work
    /\ Ceilings.per_task.retries <= Ceilings.assessment.retries
    /\ \A q \in Requests : q \in Amounts /\ q.work + q.retries > 0
    /\ MaxCheckpoints \in Nat /\ MaxDisturbances \in Nat

VARIABLES
    authority,    \* engagement, policy and global safety all active
    plan,         \* the orchestration_plans row
    task,         \* the orchestration_tasks row
    gated,        \* the task requires human approval, and had it for its first revision
    sibling,      \* state of the plan's other task
    worker,       \* the worker_runtime_instances row
    account,      \* version of the orchestration_budget_accounts row, 0 if absent
    reservation,  \* orchestration_task_budget_reservations and _v4
    fence,        \* the orchestration_task_lease_fences row
    lease,        \* newest orchestration_task_leases row per slot, and _v3
    row,          \* the immutable receipt tables
    passed,       \* instants that have passed
    disturbed     \* number of disturbances so far

vars == <<authority, plan, task, gated, sibling, worker, account, reservation, fence, lease,
          row, passed, disturbed>>

graphVars == <<plan, task, gated, sibling>>
budgetVars == <<account, reservation>>
leaseVars == <<fence, lease>>
outsideVars == <<authority, worker, passed, disturbed>>

Tables ==
    {"manifest", "run", "head", "failure", "completion", "failed", "policy", "decision", "unit",
     "retry", "schedule", "activation", "disposition", "burial", "letter"}

Init ==
    /\ authority = TRUE
    /\ plan = [state |-> "active", revision |-> 1]
    /\ task = [state |-> "ready", revision |-> 1]
    /\ gated \in Gating /\ sibling \in Siblings
    /\ worker = [running |-> TRUE, version |-> 1]
    /\ account = 0 /\ reservation = <<>>
    /\ fence = [generation |-> 0, recovery |-> 1] /\ lease = <<>>
    /\ row = [t \in Tables |-> <<>>]
    /\ passed = {} /\ disturbed = 0

-----------------------------------------------------------------------------
(* Reading and writing rows.                                               *)

Has(t, k) == k \in DOMAIN row[t]

With(f, k, r) == [j \in DOMAIN f \cup {k} |-> IF j = k THEN r ELSE f[j]]

Insert(t, k, r) == row' = [row EXCEPT ![t] = With(@, k, r)]

Live(r) == r.expires \cap passed = {}

\* Plan active and task in this state, both at the revisions the row carries.
At(r, state) ==
    /\ plan = [state |-> "active", revision |-> r.plan]
    /\ task = [state |-> state, revision |-> r.task]

\* The worker and the fence are those the row was issued under.
Unmoved(r) ==
    /\ worker = [running |-> TRUE, version |-> r.worker]
    /\ fence = [generation |-> r.generation, recovery |-> r.recovery]

\* The human approval of a gated task has not expired.
ApprovalDeadline == IF gated THEN {<<"approval", 0>>} ELSE {}
Approved == ApprovalDeadline \cap passed = {}

AccountDeadline == {<<"account", 0>>}
AccountOpen == account > 0 /\ AccountDeadline \cap passed = {}

\* A reservation that holds its amounts at the version the row carries.
Holds(s, version) ==
    /\ s \in DOMAIN reservation
    /\ reservation[s].state = "reserved" /\ reservation[s].account = version
    /\ Live(reservation[s])

-----------------------------------------------------------------------------
(* What a change of the task does to its plan (orchestration.py).          *)

TerminalStates == {"cancelled", "succeeded", "failed"}

\* The sibling waits for the task when it starts blocked.
RefreshDependents(t, s) == IF s = "blocked" /\ t = "succeeded" THEN "ready" ELSE s

\* One failed task is enough to fail the plan.
PlanStateAnyFailed(t, s) ==
    LET states == {t} \cup ({s} \ {"none"}) IN
    IF states = {"succeeded"} THEN "completed"
    ELSE IF "failed" \in states THEN "failed"
    ELSE IF states \subseteq TerminalStates THEN "cancelled" ELSE "active"

PlanState(t, s) ==
    LET states == {t} \cup ({s} \ {"none"}) IN
    IF states = {"succeeded"} THEN "completed"
    ELSE IF states \subseteq TerminalStates
         THEN IF "failed" \in states THEN "failed" ELSE "cancelled"
         ELSE "active"

\* Task, dependents, plan state and plan revision in one transaction.
Settle(t) ==
    /\ task' = [state |-> t, revision |-> task.revision + 1]
    /\ sibling' = RefreshDependents(t, sibling)
    /\ plan' = [state |-> PlanState(t, sibling'), revision |-> plan.revision + 1]
    /\ UNCHANGED gated

Disturb ==
    /\ disturbed < MaxDisturbances
    /\ disturbed' = disturbed + 1
=============================================================================
