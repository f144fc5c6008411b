----------------------------- MODULE RetryChain -----------------------------
(***************************************************************************)
(* From a typed failure to the next attempt: registration of the failed    *)
(* attempt, retry policy and decision, consumption of one retry unit,      *)
(* registration of the retry, its schedule, and the activation that makes  *)
(* the task ready again; after attempt three, terminal disposition, its    *)
(* consumption and the dead letter.  Each step stores a receipt and        *)
(* validates again the whole chain of receipts and live rows behind it.    *)
(*                                                                         *)
(* Keys: failed attempts, decisions and policies by the attempt that       *)
(* failed, units, retries, schedules and activations by the attempt that   *)
(* is to come.  A receipt is stored under a hash that every load checks;   *)
(* with immutable tables a load fails only on an absent row.               *)
(***************************************************************************)
EXTENDS AttemptRuns

Receipted == UNCHANGED <<graphVars, budgetVars, leaseVars, outsideVars>>

-----------------------------------------------------------------------------
(* Failed attempts (orchestration_attempt.py, orchestration_attempt_v3.py, *)
(* and the replays of orchestration_failure*.py they rest on).             *)

\* Everything attempt one's failure was recorded under still stands.
SecurityState(f) ==
    /\ authority
    /\ plan.revision = f.plan
    /\ task = [state |-> "failed", revision |-> f.task]
    /\ Live(row.manifest[f.slot])
    /\ Holds(f.slot, f.account)
    /\ Unmoved(f)
    /\ Approved

ValidateCheckpoint(f) == f.sequence = CheckpointHead(f.slot)

AttemptCurrent(f) == SecurityState(f) /\ ValidateCheckpoint(f)

LoadRetryAttempt == Has("retry", 2)

\* The same of a failure of attempt two.
RetryReplay(f) ==
    /\ authority
    /\ Unmoved(f)
    /\ Live(row.manifest[2])
    /\ Holds(2, f.account)

RetryAttemptCurrent(f) ==
    /\ LoadRetryAttempt
    /\ plan.state \in {"active", "failed"} /\ plan.revision = f.plan
    /\ task = [state |-> "failed", revision |-> f.task]
    /\ Approved
    /\ RetryReplay(f)

\* The same of a failure of attempt three, with the task in a given state.
FailureV3Replay(f, state, revision) ==
    /\ authority
    /\ plan = [state |-> "active", revision |-> f.plan]
    /\ task = [state |-> state, revision |-> revision]
    /\ Unmoved(f)
    /\ Live(row.manifest[3])
    /\ Holds(3, f.account) /\ account = f.account

AttemptV3Current(f) == Has("retry", 3) /\ FailureV3Replay(f, "failed", f.task)

\* What an attempt receipt copies of the failure it is about.
Failed(n, f) ==
    [attempt |-> n, slot |-> f.slot, class |-> f.class, sequence |-> f.sequence, plan |-> f.plan,
     task |-> f.task, account |-> f.account, worker |-> f.worker, generation |-> f.generation,
     recovery |-> f.recovery]

FailedAttempt(f) == Failed(1, f)

FailedRetryAttempt(f) == Failed(2, f)

FailedAttemptV3(f) == Failed(3, f)

\* One registered failure of attempt one per task.
RegisterAttempt(s) ==
    /\ ~Has("failed", 1)
    /\ Has("failure", s) /\ AttemptCurrent(row.failure[s])
    /\ Insert("failed", 1, FailedAttempt(row.failure[s]))
    /\ Receipted

RegisterRetryAttempt ==
    /\ ~Has("failed", 2)
    /\ Has("failure", 2) /\ RetryAttemptCurrent(row.failure[2])
    /\ Insert("failed", 2, FailedRetryAttempt(row.failure[2]))
    /\ Receipted

RegisterAttemptV3 ==
    /\ ~Has("failed", 3)
    /\ Has("failure", 3) /\ AttemptV3Current(row.failure[3])
    /\ Insert("failed", 3, FailedAttemptV3(row.failure[3]))
    /\ Receipted

-----------------------------------------------------------------------------
(* Retry policies and decisions (orchestration_retry.py).                  *)

MaximumAttempts == 3
RetryableClasses == {"worker_process_failed"}

IssuePolicy ==
    /\ ~Has("policy", 1) /\ authority
    /\ Insert("policy", 1, [expires |-> {<<"policy", 1>>}])
    /\ Receipted

IssuePolicyV2 ==
    /\ ~Has("policy", 2) /\ authority
    /\ Insert("policy", 2, [expires |-> {<<"policy", 2>>}])
    /\ Receipted

LoadPolicy == Has("policy", 1) /\ Live(row.policy[1])

LoadPolicyV2 == Has("policy", 2) /\ Live(row.policy[2])

LoadAttempt == Has("failed", 1) /\ AttemptCurrent(row.failed[1])

LoadRetryFailedAttempt == Has("failed", 2) /\ RetryAttemptCurrent(row.failed[2])

\* Whatever the failure was.
OutcomeAnyClass(f) ==
    IF /\ f.attempt < MaximumAttempts
       /\ reservation[f.slot].state = "reserved" /\ reservation[f.slot].retries >= 1
    THEN "eligible" ELSE "denied"

Outcome(f) ==
    IF /\ f.attempt < MaximumAttempts
       /\ reservation[f.slot].state = "reserved" /\ reservation[f.slot].retries >= 1
       /\ f.class \in RetryableClasses
    THEN "eligible" ELSE "denied"

\* Attempt two's decision looks at what the first unit left over.
RetryAttemptOutcome(f) ==
    IF /\ f.attempt < MaximumAttempts
       /\ Has("unit", 2) /\ row.unit[2].remaining >= 1
       /\ f.class \in RetryableClasses
    THEN "eligible" ELSE "denied"

\* The decision expires with the first of everything it rests on.
DecisionExpiry(f) ==
    {<<"decision", f.attempt>>} \cup row.policy[f.attempt].expires
    \cup row.manifest[f.slot].expires \cup reservation[f.slot].expires \cup ApprovalDeadline

Backoff(n) == <<"backoff", n>>

NewDecision(f) ==
    [outcome |-> Outcome(f), plan |-> f.plan, task |-> f.task, expires |-> DecisionExpiry(f)]

NewDecisionV2(f) ==
    [outcome |-> RetryAttemptOutcome(f), plan |-> f.plan, task |-> f.task,
     expires |-> DecisionExpiry(f)]

Evaluate ==
    /\ ~Has("decision", 1)
    /\ LoadAttempt /\ LoadPolicy
    /\ Insert("decision", 1, NewDecision(row.failed[1]))
    /\ Receipted

EvaluateRetryAttempt ==
    /\ ~Has("decision", 2)
    /\ LoadRetryFailedAttempt /\ LoadPolicyV2
    /\ Insert("decision", 2, NewDecisionV2(row.failed[2]))
    /\ Receipted

-----------------------------------------------------------------------------
(* Consumption of retry units (orchestration_retry_budget.py).  Both units *)
(* come out of the reservation of attempt one.                             *)

\* Eligible, unexpired, and its backoff is over.
DecisionOpen(n) ==
    /\ Has("decision", n)
    /\ row.decision[n].outcome = "eligible"
    /\ Live(row.decision[n])
    /\ Backoff(n) \in passed

DecisionMatchesAttempt ==
    row.decision[1].plan = row.failed[1].plan /\ row.decision[1].task = row.failed[1].task

DecisionMatchesRetryAttempt ==
    row.decision[2].plan = row.failed[2].plan /\ row.decision[2].task = row.failed[2].task

ValidateDecision == DecisionOpen(1) /\ LoadAttempt /\ DecisionMatchesAttempt /\ LoadPolicy

ValidateDecisionV2 ==
    DecisionOpen(2) /\ LoadRetryFailedAttempt /\ DecisionMatchesRetryAttempt /\ LoadPolicyV2

LoadBudget(f) ==
    /\ Holds(f.slot, f.account) /\ AccountOpen
    /\ reservation[f.slot].retries >= 1
    /\ ConsumedUnits(f.slot) < reservation[f.slot].retries

\* Neither the expiry nor the account version of the first reservation counts.
LoadBudgetV2(capacity) ==
    /\ row.unit[2].remaining >= 1
    /\ reservation[capacity].state = "reserved" /\ reservation[capacity].retries >= 2
    /\ AccountOpen
    /\ ConsumedUnits(capacity) < reservation[capacity].retries

\* Counts as if it were the first.
NewUnitV2First(capacity) ==
    [capacity |-> capacity, before |-> account, after |-> account + 1,
     remaining |-> reservation[capacity].retries - 1]

NewUnit(capacity) ==
    [capacity |-> capacity, before |-> account, after |-> account + 1,
     remaining |-> reservation[capacity].retries - ConsumedUnits(capacity) - 1]

NewUnitV2(capacity) ==
    [capacity |-> capacity, before |-> account, after |-> account + 1,
     remaining |-> reservation[capacity].retries - ConsumedUnits(capacity) - 1]

Spent ==
    /\ account' = account + 1
    /\ UNCHANGED <<graphVars, reservation, leaseVars, outsideVars>>

ConsumeUnit ==
    /\ ~Has("unit", 2)
    /\ ValidateDecision /\ LoadBudget(row.failed[1])
    /\ Insert("unit", 2, NewUnit(row.failed[1].slot))
    /\ Spent

ConsumeUnitV2 ==
    /\ ~Has("unit", 3)
    /\ ValidateDecisionV2 /\ LoadBudgetV2(row.unit[2].capacity)
    /\ Insert("unit", 3, NewUnitV2(row.unit[2].capacity))
    /\ Spent

LoadUnit == Has("unit", 2)

LoadUnitV2 == Has("unit", 3)

UnitReplay ==
    /\ LoadUnit /\ ValidateDecision
    /\ reservation[row.unit[2].capacity].state = "reserved"
    /\ account = row.unit[2].after

UnitReplayV2 == LoadUnitV2 /\ ValidateDecisionV2 /\ account = row.unit[3].after

-----------------------------------------------------------------------------
(* Registration of the retry (orchestration_retry_attempt.py).             *)

ValidateConsumption == UnitReplay /\ DecisionOpen(1)

ValidateConsumptionV2 == LoadUnit /\ UnitReplayV2 /\ DecisionOpen(2)

\* Worker, fence and revisions of the attempt that failed, account of the unit.
NewRetry(f) ==
    [plan |-> f.plan, task |-> f.task, account |-> row.unit[2].after, worker |-> f.worker,
     generation |-> f.generation, recovery |-> f.recovery]

NewRetryV2(f) ==
    [plan |-> f.plan, task |-> f.task, account |-> row.unit[3].after, worker |-> f.worker,
     generation |-> f.generation, recovery |-> f.recovery]

RegisterRetry ==
    /\ ~Has("retry", 2)
    /\ ValidateConsumption
    /\ Insert("retry", 2, NewRetry(row.failed[1]))
    /\ Receipted

RegisterRetryV2 ==
    /\ ~Has("retry", 3)
    /\ ValidateConsumptionV2
    /\ Insert("retry", 3, NewRetryV2(row.failed[2]))
    /\ Receipted

RetryCurrent == Has("retry", 2) /\ ValidateConsumption

-----------------------------------------------------------------------------
(* Schedules (orchestration_retry_schedule.py).                            *)

ValidateAttempt == RetryCurrent /\ Backoff(1) \in passed

ValidateAttemptV2 == Has("retry", 3) /\ ValidateConsumptionV2 /\ Backoff(2) \in passed

\* Everything the retry carries, and an expiry within the decision's.
Scheduled(r, deadlines) ==
    [plan |-> r.plan, task |-> r.task, account |-> r.account, worker |-> r.worker,
     generation |-> r.generation, recovery |-> r.recovery, expires |-> deadlines]

NewSchedule(r) == Scheduled(r, {<<"schedule", 2>>} \cup row.decision[1].expires)

NewScheduleV2(r) == Scheduled(r, {<<"schedule", 3>>} \cup row.decision[2].expires)

RegisterSchedule ==
    /\ ~Has("schedule", 2)
    /\ ValidateAttempt
    /\ Insert("schedule", 2, NewSchedule(row.retry[2]))
    /\ Receipted

RegisterScheduleV2 ==
    /\ ~Has("schedule", 3)
    /\ ValidateAttemptV2
    /\ Insert("schedule", 3, NewScheduleV2(row.retry[3]))
    /\ Receipted

-----------------------------------------------------------------------------
(* Activation (orchestration_retry_activation.py).                         *)

LoadSchedule == Has("schedule", 2) /\ Live(row.schedule[2])

LoadScheduleV2 == Has("schedule", 3) /\ Live(row.schedule[3])

ActivationCurrent == Backoff(1) \in passed /\ ValidateAttempt

ActivationCurrentV2 == Backoff(2) \in passed /\ ValidateAttemptV2

NewActivation(r) == [plan |-> r.plan + 1, task |-> r.task + 1]

NewActivationV2(r) == [plan |-> r.plan + 1, task |-> r.task + 1]

\* Failed to ready, and the failed plan active again: the triggers let both
\* rows go back only from exactly these states and revisions.
Reopen(r) ==
    /\ plan = [state |-> "failed", revision |-> r.plan]
    /\ task = [state |-> "failed", revision |-> r.task]
    /\ task' = [state |-> "ready", revision |-> r.task + 1]
    /\ plan' = [state |-> "active", revision |-> r.plan + 1]
    /\ UNCHANGED <<gated, sibling, budgetVars, leaseVars, outsideVars>>

Activate ==
    /\ ~Has("activation", 2)
    /\ LoadSchedule /\ ActivationCurrent
    /\ Insert("activation", 2, NewActivation(row.schedule[2]))
    /\ Reopen(row.schedule[2])

ActivateV2 ==
    /\ ~Has("activation", 3)
    /\ LoadScheduleV2 /\ ActivationCurrentV2
    /\ Insert("activation", 3, NewActivationV2(row.schedule[3]))
    /\ Reopen(row.schedule[3])

\* What an activation rests on besides the account: schedule, authority, the
\* manifest and the reservation of the attempt before, worker, fence, approval.
Standing(n, s) ==
    /\ Has("activation", n) /\ At(row.activation[n], "ready")
    /\ Live(row.schedule[n]) /\ authority
    /\ Live(row.manifest[s])
    /\ reservation[s].state = "reserved" /\ Live(reservation[s])
    /\ Unmoved(row.schedule[n]) /\ Approved

\* Whatever happened to the account since.
ActivationReplayOnAnyAccount == Standing(2, row.failed[1].slot)

ActivationReplay == Standing(2, row.failed[1].slot) /\ account = row.schedule[2].account

ActivationReplayV2 == Standing(3, row.failed[2].slot) /\ account = row.schedule[3].account

-----------------------------------------------------------------------------
(* Retry manifests (orchestration_retry_manifest.py).                      *)

LoadActivation == ActivationReplay

\* Attempt three's activation comes with the manifest its lineage ran under.
LoadActivationV2 == ActivationReplayV2 /\ Has("manifest", 2)

IssueRetryManifest ==
    /\ LoadActivation
    /\ RevalidateState("ready")
    /\ ManifestUnique
    /\ Insert("manifest", 2, NewManifest(2, row.schedule[2].expires))
    /\ Receipted

\* Carries the worker and the fence that attempt two ran under.
NewManifestV4(r) ==
    [plan |-> plan.revision, task |-> task.revision, expires |-> {<<"manifest", 3>>} \cup r.expires,
     worker |-> r.worker, generation |-> r.generation, recovery |-> r.recovery]

IssueManifestV4 ==
    /\ ~Has("manifest", 3)
    /\ LoadActivationV2
    /\ Insert("manifest", 3, NewManifestV4(row.schedule[3]))
    /\ Receipted

ManifestReplay == Has("manifest", 2) /\ At(row.manifest[2], "ready") /\ Live(row.manifest[2])

LoadManifestV4 == Has("manifest", 3)

ManifestReplayV4 == At(row.manifest[3], "ready") /\ Live(row.manifest[3])

-----------------------------------------------------------------------------
(* Reservations of the retries (orchestration_budget.py).                  *)

\* Once per activation.
ReserveRetry(q) ==
    /\ 2 \notin DOMAIN reservation
    /\ ReserveCurrent(2)
    /\ LoadActivation /\ ManifestReplay
    /\ Store(2, q, {<<"budget", 2>>} \cup AccountDeadline)
    /\ UNCHANGED outsideVars

ReserveV4Current ==
    /\ ValidateAssessmentPolicy /\ AccountOpen
    /\ LoadManifestV4 /\ LoadActivationV2 /\ ManifestReplayV4

ReserveV4(q) ==
    /\ q.retries = 0
    /\ 3 \notin DOMAIN reservation
    /\ ReserveV4Current
    /\ Store(3, q, {<<"budget", 3>>} \cup AccountDeadline \cup row.manifest[3].expires)
    /\ UNCHANGED outsideVars

\* The fence is compared with the one attempt two ran under.
ReservationReplayV4 ==
    /\ ValidateAssessmentPolicy
    /\ Holds(3, account) /\ Live(row.manifest[3])
    /\ At(reservation[3], "ready")
    /\ Unmoved(row.manifest[3]) /\ 2 \in DOMAIN lease
    /\ Approved

RecoverBudgetV4 ==
    /\ ReservedRows({3}) # {}
    /\ ~ReservationReplayV4
    /\ Disturb
    /\ reservation' = Released({3})
    /\ account' = account + 1
    /\ UNCHANGED <<graphVars, leaseVars, row, authority, worker, passed>>

-----------------------------------------------------------------------------
(* After attempt three (orchestration_terminal.py, _dead_letter.py).       *)

\* The decision: the third failure, registered, and a live policy.
TerminalCurrent ==
    /\ Has("failed", 3) /\ LoadPolicyV2
    /\ FailureV3Replay(row.failed[3], "failed", row.failed[3].task)

NewDisposition(f) == [plan |-> f.plan, task |-> f.task]

Decide ==
    /\ ~Has("disposition", 3)
    /\ TerminalCurrent
    /\ Insert("disposition", 3, NewDisposition(row.failed[3]))
    /\ Receipted

LoadDisposition == Has("disposition", 3)

\* Its consumption and the dead letter check the same with the task where each
\* expects it.
ConsumptionCurrent(state, revision) ==
    /\ Has("failed", 3) /\ LoadPolicyV2
    /\ FailureV3Replay(row.failed[3], state, revision)

NewBurial(d) == [plan |-> d.plan, task |-> d.task + 1]

\* The plan is left as it is.
Bury ==
    /\ ~Has("burial", 3)
    /\ LoadDisposition /\ ConsumptionCurrent("failed", row.disposition[3].task)
    /\ Insert("burial", 3, NewBurial(row.disposition[3]))
    /\ task' = [state |-> "dead_letter", revision |-> task.revision + 1]
    /\ UNCHANGED <<plan, gated, sibling, budgetVars, leaseVars, outsideVars>>

DeadLetterCurrent ==
    /\ Has("burial", 3) /\ LoadDisposition
    /\ ConsumptionCurrent("dead_letter", row.burial[3].task)

NewLetter(b) == [plan |-> b.plan, task |-> b.task]

RegisterDeadLetter ==
    /\ ~Has("letter", 3)
    /\ DeadLetterCurrent
    /\ Insert("letter", 3, NewLetter(row.burial[3]))
    /\ Receipted
=============================================================================
