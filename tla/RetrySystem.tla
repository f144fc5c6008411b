----------------------------- MODULE RetrySystem -----------------------------
(***************************************************************************)
(* The retryable task as a whole: its runs, the retry chain, the general   *)
(* plan service that works on the same rows, and what happens around them: *)
(* authority withdrawn and given back, a worker replaced, another task     *)
(* drawing on the account, instants passing, recoveries in any order.      *)
(***************************************************************************)
EXTENDS RetryChain

\* A dead letter can still be cancelled: its plan is active and it is not among
\* the states the plan service calls terminal.
TargetsDeadLetter(state) ==
    CASE state \in {"ready", "dead_letter"} -> {"cancelled"}
      [] state = "running"    -> {"cancelling", "succeeded"}
      [] state = "cancelling" -> {"cancelled", "failed"}
      [] OTHER                -> {}

Targets(state) ==
    CASE state = "ready"      -> {"cancelled"}
      [] state = "running"    -> {"cancelling", "succeeded"}
      [] state = "cancelling" -> {"cancelled", "failed"}
      [] OTHER                -> {}

\* A success of attempt three has to come with its completion receipt.
Transition(target) ==
    /\ plan.state = "active"
    /\ target \in Targets(task.state)
    /\ target = "succeeded" => ~Has("retry", 3)
    /\ Settle(target)
    /\ UNCHANGED <<budgetVars, leaseVars, row, outsideVars>>

\* Refreshing a gated task that is ready asks its trigger for an edge it lacks.
RefreshRefused == gated /\ task.state = "ready"

\* Starting a task refreshes nothing.
StartSibling ==
    /\ plan.state = "active" /\ authority
    /\ sibling = "ready"
    /\ sibling' = "running"
    /\ plan' = [plan EXCEPT !.revision = @ + 1]
    /\ Disturb
    /\ UNCHANGED <<task, gated, budgetVars, leaseVars, row, authority, worker, passed>>

EndSibling(state) ==
    /\ plan.state = "active" /\ ~RefreshRefused
    /\ state \in CASE sibling \in {"ready", "blocked"} -> {"cancelled"}
                   [] sibling = "running" -> {"succeeded", "failed"}
                   [] OTHER -> {}
    /\ sibling' = state
    /\ plan' = [state |-> PlanState(task.state, state), revision |-> plan.revision + 1]
    /\ Disturb
    /\ UNCHANGED <<task, gated, budgetVars, leaseVars, row, authority, worker, passed>>

Interrupted == {"running", "cancelling"}

\* Fails what was running, with no typed failure behind it.
RecoverPlan ==
    LET failed == IF task.state \in Interrupted THEN "failed" ELSE task.state
    IN  /\ plan.state = "active" /\ ~RefreshRefused
        /\ {task.state, sibling} \cap Interrupted # {}
        /\ Disturb
        /\ task' = IF task.state \in Interrupted
                   THEN [state |-> "failed", revision |-> task.revision + 1] ELSE task
        /\ sibling' = IF sibling \in Interrupted THEN "failed" ELSE sibling
        /\ plan' = [state |-> PlanState(failed, sibling'), revision |-> plan.revision + 1]
        /\ UNCHANGED <<gated, budgetVars, leaseVars, row, authority, worker, passed>>

-----------------------------------------------------------------------------
(* The surroundings.                                                       *)

\* An engagement paused or resumed, global safety, a policy revoked.
SetAuthority ==
    /\ Disturb
    /\ authority' = ~authority
    /\ UNCHANGED <<graphVars, budgetVars, leaseVars, row, worker, passed>>

\* Registered again: every status change of a worker is a new version.
ReplaceWorker ==
    /\ Disturb
    /\ worker' = [running |-> ~worker.running, version |-> worker.version + 1]
    /\ UNCHANGED <<graphVars, budgetVars, leaseVars, row, authority, passed>>

\* The instants some stored row depends on.
Deadlines ==
    UNION {reservation[s].expires : s \in DOMAIN reservation}
    \cup UNION {lease[s].expires : s \in DOMAIN lease}
    \cup UNION {UNION {row[t][k].expires : k \in DOMAIN row[t]} :
                    t \in {"manifest", "policy", "decision", "schedule"}}

Lapse(d) ==
    /\ d \in Deadlines \ passed
    /\ Disturb
    /\ passed' = passed \cup {d}
    /\ UNCHANGED <<graphVars, budgetVars, leaseVars, row, authority, worker>>

BackoffEnds(n) ==
    /\ Has("decision", n) /\ Backoff(n) \notin passed
    /\ passed' = passed \cup {Backoff(n)}
    /\ UNCHANGED <<graphVars, budgetVars, leaseVars, row, authority, worker, disturbed>>

-----------------------------------------------------------------------------

RunStep ==
    \/ ActivateAccount
    \/ \E s \in Ordinary : IssueManifest(s)
    \/ \E s \in Ordinary, q \in Requests : Reserve(s, q)
    \/ \E s \in Slots \ {3} : Acquire(s) \/ Consume(s) \/ RecordCheckpoint(s)
    \/ AcquireV3 \/ ConsumeV3 \/ RecordCheckpointV3
    \/ \E s \in Slots \ {3}, class \in FailureClasses : RecordFailure(s, class)
    \/ \E class \in FailureClasses : RecordFailureV3(class)
    \/ CompleteV3

RetryStep ==
    \/ \E s \in Ordinary : RegisterAttempt(s)
    \/ IssuePolicy \/ Evaluate \/ ConsumeUnit \/ RegisterRetry \/ RegisterSchedule \/ Activate
    \/ IssueRetryManifest
    \/ \E q \in Requests : ReserveRetry(q)
    \/ RegisterRetryAttempt
    \/ IssuePolicyV2 \/ EvaluateRetryAttempt \/ ConsumeUnitV2 \/ RegisterRetryV2
    \/ RegisterScheduleV2 \/ ActivateV2
    \/ IssueManifestV4
    \/ \E q \in Requests : ReserveV4(q)
    \/ RegisterAttemptV3 \/ Decide \/ Bury \/ RegisterDeadLetter
    \/ \E n \in {1, 2} : BackoffEnds(n)

PlanStep ==
    \/ \E target \in {"cancelled", "cancelling", "succeeded", "failed"} : Transition(target)
    \/ StartSibling
    \/ \E state \in TerminalStates : EndSibling(state)

RecoveryStep == RecoverPlan \/ RecoverBudget \/ RecoverBudgetV4 \/ RecoverLeases \/ RecoverLeasesV3

Outside ==
    \/ SetAuthority \/ ReplaceWorker
    \/ \E d \in Deadlines : Lapse(d)
    \/ \E q \in Requests : ReserveOther(q)
    \/ \E s \in Slots \ {3} : Release(s)

Next == RunStep \/ RetryStep \/ PlanStep \/ RecoveryStep \/ Outside

Spec == Init /\ [][Next]_vars

-----------------------------------------------------------------------------
(* Properties.                                                             *)

\* What the assessment has given away of its retries: the units spent, and what
\* the open reservations could still spend.
RetriesGiven(scope) ==
    LET open == ReservedRows(scope) IN
    MapThenSumSet(LAMBDA s : ConsumedUnits(s), scope)
    + MapThenSumSet(LAMBDA s : reservation[s].retries - ConsumedUnits(s), open)

WorkGiven(scope) == MapThenSumSet(LAMBDA s : reservation[s].work, ReservedRows(scope))

\* No order of reservations, releases by recovery and retry units gives away
\* more than the assessment's ceiling or the task's (reserve, reserve_v4): a
\* unit that was spent stays spent when its reservation is released.
WithinCeilings ==
    /\ WorkGiven(Slots \cup {Other}) <= Ceilings.assessment.work
    /\ WorkGiven(Slots) <= Ceilings.per_task.work
    /\ RetriesGiven(Slots \cup {Other}) <= Ceilings.assessment.retries
    /\ RetriesGiven(Slots) <= Ceilings.per_task.retries

\* The consumption receipts tell the truth about the reservation they draw on:
\* the newest one's remainder is what is left, and no unit is drawn twice
\* (consume and _consume_v2 write to two tables).
UnitsConserved ==
    \A n \in DOMAIN row.unit :
        LET u == row.unit[n] IN
        u.remaining + Cardinality({m \in DOMAIN row.unit : m <= n}) = reservation[u.capacity].retries

\* Only a transient failure brings the task back: the revision an activation
\* reopens is the one a retryable typed failure left, never a stalled
\* checkpoint, an interruption or a cancellation (evaluate, consume).
RetriedWasTransient ==
    \A n \in DOMAIN row.activation :
        \E s \in DOMAIN row.failure :
            /\ row.failure[s].task = row.activation[n].task - 1
            /\ row.failure[s].class = "worker_process_failed"

\* A retry reopens a settled plan only: the plan's other task has ended, so
\* that reopening cannot revive the plan under work in progress.
RetryNeedsSettledPlan == row.activation # <<>> => sibling \in TerminalStates \cup {"none"}

\* One human approval covers one run: a gated task that failed can be reopened
\* but never leased again, its approval being of the revision it first had
\* (_validate_current, orchestration_lease.py).  Attempt three would accept the
\* approval at any revision, and is never reached: see PriorApprovalServes for
\* what the contract of its manifest says instead.
ApprovalCoversOneRun == gated => Cardinality(DOMAIN row.run) <= 1

\* "The exact prior approval-consumption receipt may remain part of the bounded
\* task-purpose lineage only while current and unexpired": as long as it is, a
\* retry for which everything else is prepared gets its lease.
PriorApprovalServes == Approved /\ Prepared(2) => LeaseCurrent(2)

\* A retry runs on the ground its unit was paid on: between the consumption of
\* the unit and the start of the attempt the account moved by the attempt's own
\* reservation only, and no other lease and no recovery touched the fence.
RetryRunsOnItsGround ==
    \A n \in Retry \cap DOMAIN row.run :
        /\ row.run[n].account = row.unit[n].after + 1
        /\ row.run[n].generation = row.schedule[n].generation + 1
        /\ row.run[n].recovery = row.schedule[n].recovery

\* Of the leases of both tables at most one passes for the holder: taking a
\* lease on the ordinary path fences the one attempt three holds.  And a lease
\* that was consumed is not recovered behind its run's back, which would move
\* the fence under a run that still reports (recover in both files).
OneHolder ==
    /\ \A s, t \in Slots : MutationBinding(s) /\ MutationBinding(t) => s = t
    /\ \A s \in DOMAIN row.run :
          lease[s].generation = row.run[s].generation =>
              lease[s].state = IF s = 3 THEN "active" ELSE "released"

Attempts ==
    INSTANCE TaskAttempts WITH
        Limit <- MaximumAttempts,
        phase <- task.state,
        attempt <- CurrentRound,
        spent <- Cardinality(DOMAIN row.unit),
        reported <- task.state = "failed"
                    /\ \E s \in DOMAIN row.failure : row.failure[s].task = task.revision

\* The receipts, leases and recoveries implement the promise of TaskAttempts.
ImplementsTaskAttempts == Attempts!Spec

\* "failed when all tasks terminate and any failed": a plan whose tasks have all
\* terminated is not active.
PlanSettles ==
    {task.state} \cup ({sibling} \ {"none"}) \subseteq TerminalStates => plan.state # "active"

\* "releases only expired or no-longer-current reservations": one reservation
\* that is still current does not keep recovery from releasing another that
\* has expired.
RecoveryReleasesExpired ==
    \A s \in ReservedRows({1, 2, 4, 5}) :
        ~Live(reservation[s]) => \A t \in ReservedRows({1, 2, 4, 5}) : ~RecoveryRaises(t)
=============================================================================
