# PentAI core: TLA+ specifications

This directory specifies the stateful parts of the PentAI core (`services/core/src/pentai_core`),
checks them with TLC on small instances and proves with TLAPS, for every instance, the safety of
the authority control plane, the evidence store, the supervisors, the workflows, the plan graph and
the retry services.
`PROJECT.json` has the machine-readable side: components, runs, the map from definitions to source
lines, mutants, hazards, findings and theorems.

## The system

PentAI is a local FastAPI process over one SQLite database. Almost all of its state is in tables,
and a handler is a transaction: `transaction(path)` commits at the end of the block and rolls back
on any exception. Hence, in every module:

* one transaction is one action, everything it writes included (trailing refreshes, summaries,
  aborts), and most handlers are one transaction; where a handler mixes transactions with file
  operations (`EvidenceStore`) or locks (`SafetySupervisor`), each of them is an action;
* a refused request, an exception and a storage trigger that aborts are a disabled action;
* what a client, a worker or a human carries from one handler to the next (an observed revision, a
  lease token, a decision) is a variable, and may be used any number of steps later;
* `evaluate_intent` reads and writes in a deferred transaction, so it is two actions;
* clocks are abstracted to what they decide. Expiries are environment actions that may happen at
  any moment;
* process memory (the storage latch, sessions, threads) is lost at a restart, tables are not.
  Restart runs the recovery steps of `create_app` in their order.

### Inventory

| Part | Source | Module |
| --- | --- | --- |
| bundles, evaluation, grants, attestations, gateway sessions, budgets, halts, startup recovery | `authorization.py`, `storage_safety.py`, `database.py` | `GatewayAuthority` |
| what the above promises | | `RequestAuthority` |
| assessment workflows, leased tasks | `workflow.py` | `WorkflowTasks` |
| plan graph, approvals, leases, failures | `orchestration.py`, `orchestration_approval.py`, `orchestration_lease.py`, `orchestration_failure.py` | `PlanGraph` |
| watchdog threads | `network_safety_supervisor.py`, `gateway_runtime_supervisor.py`, `worker_containment_supervisor.py` | `SafetySupervisor` |
| task budgets, checkpoints, attempts, retries, dead letters | `orchestration_budget.py`, `orchestration_checkpoint*.py`, `orchestration_attempt*.py`, `orchestration_retry*.py`, `orchestration_*_v3.py`, `orchestration_terminal.py`, `orchestration_dead_letter.py` | `RetryState`, `AttemptRuns`, `RetryChain`, `RetrySystem` |
| what the above promises of a task | | `TaskAttempts` |
| evidence content, redactions, deletion and its recovery | `evidence.py`, `evidence_store.py` | `EvidenceStore` |
| audit ledger, token buckets, runtimes, reports, backup, providers, policy language | see `PROJECT.json` | not modelled |
| operating system and network adapters, parsing, signing, UI, desktop shell | | not modelled |

The parts meet as follows. Humans approve and activate a policy bundle for an engagement. Under an
active bundle, intents are evaluated, granted and turned into gateway requests. Workflows and
orchestration plans schedule the work and consult the same authority; there it is one variable
that the environment switches. The supervisors watch the network, the gateway and the workers and
pause the control plane through `pause_safety`, which is `HaltGlobal` in `GatewayAuthority`. A task
of a plan that fails may be retried twice, along a chain of receipts each of which is checked again
by the next; `RetrySystem` composes that chain with the plan service, the two lease tables, the
budget account and every recovery. Evidence belongs to a workflow, which decides whether capture is
permitted; a storage failure stops the control plane.

## Modules

**GatewayAuthority.** Variables are the tables: `engagement`, `bundle`, `attestation`, `decision`,
`grant`, `destination`, `account` (budget counters), `bucket` (which bundle a rate bucket belongs
to), and `session`, which joins the reservation, rate reservation, gateway session, request start,
claim and result of one intent. `global` is `safety_state`, `latched` the in-memory storage latch.
Actions have the names of the handlers: `ApprovePolicy`, `ActivatePolicy` (with replacement),
`RevokePolicy`, `EvaluateRead`/`EvaluateWrite`, `MintGrant`, `ConsumeGrant`, `RecordAttestation`,
`AuthorizeDestination`, `PrepareSession`, `CommitStart`, `ClaimExecution`, `FinalizeRequest`,
`AbortSession`, `HaltGlobal`, `ResumeGlobal`, `PauseAssessment`, `ResumeAssessment`, `TripLatch`,
`Restart`. All halts share `AbortGatewaySessions`, as in the code. Its guard `AbortPossible` keeps
the ways in which it could raise: the CHECK constraints of the counters and the bucket test.
The initial state is the one after the first startup recovery, which pauses global safety.

**RequestAuthority** is the abstract promise: an intent goes at most once from grant to one
effect, only under a live engagement, and a halt voids what is outstanding in the step that takes
the engagement down. `GatewayAuthority` maps its tables to it by `PhaseOf` and `LiveEngagements`.

**WorkflowTasks.** `workflow`, `row` (workflow_tasks), `life` (workflow_task_lifecycles),
`checkpoint`, `receipt`; `mine` is what each worker believes to hold. Replies can be lost after
the commit. Actions: `Create`, `Transition`, `Enqueue`, `CancelTask`, `Claim`, `Heartbeat`,
`Checkpoint`, `Finalize`, `ReplayFinalize`, `RecoverStartup`.

**PlanGraph.** One plan with any dependency graph. Commands, approval requests, leases and run
receipts keep the revisions they were made for. The transition trigger of migration 0075 is the
operator `TriggerAccepts`, a guard of every handler that moves tasks. Left out: checkpoints (they
move no state), renewals (a version and an expiry, part of the lapse of a lease), and retries, which
`RetrySystem` has. Recovery in the code
spans all plans in one transaction; the model has one plan. `create_app` calls neither plan nor lease
recovery, so `Restart` only halts the engagement and opens a new session, and the two recoveries are
actions that may come at any time.

**SafetySupervisor.** A step is what a thread does between two points where another can
interfere. `kind` says which of the three supervisors it is: they differ in what happens under the
lock, in whether degraded is final, and in whether stop repeats the recovery. `start` runs before
the application serves, so it is one step. Three callers may stop at once: two shutdown requests
and the framework's handler.

**RetryState, AttemptRuns, RetryChain, RetrySystem.** One retryable task. `RetryState` has the
tables: `plan`, `task`, the plan's other task `sibling`, `account`, `reservation`, `fence`, `lease`,
`worker`, and `row`, the immutable receipts by table and number. A *slot* is one path to a run: 1 to 3
are the versioned paths of the three attempts, 4 and 5 the ordinary path taken after a retry made the
task ready again; reservation 6 is another task's. `AttemptRuns` has manifests, budgets, leases,
checkpoints, failures and completion of a run; `RetryChain` everything between a failure and the next
run (policy, decision, retry unit, retry, schedule, activation, manifest, reservation) and the end
after the third (disposition, burial, dead letter); `RetrySystem` adds the plan service, the recoveries
and the surroundings. An instant is a name and `passed` holds those the clock has gone by; an expiry
that is a minimum of several is their set. Abstracted: policy, engagement and global safety are one
flag; there is one agent; custody, audit and outbox records are left out; a replay that returns its
stored receipt changes nothing and is not an action; running reservations of budget schema 1.0 and
the amounts other than work and retries are left out.

**TaskAttempts** is the abstract promise for that task: at most three attempts, each retry paid for
with one unit taken after a failure the run itself reported, burial only after the third failure, and
a task that ended stays ended.

**EvidenceStore.** `blobs` is the content-addressed file store, `row` and `deletion` the tables, `call`
what each thread is in the middle of. Every transaction and every file operation is an action
(`Look`, `Verify`, `Write`, `Insert`; `ReadSource`, `ReadPreview`; `DeleteArtifact`, `Execute`,
`LookUnlink`, `Unlink`, `Complete`), so threads, a `Crash` and recovery at `Boot` interleave as in the
program. `WriteFault`, `ReadFault` and `UnlinkFault` are failing file operations, including those that
fail after they took effect. `raced` and `rewritten` are history variables that only the properties
read: artifacts committed while their file was gone or being unlinked, and digests stored again after
a deletion request. The dispositions unlinked and already_absent are one value. A process without an
evidence key refuses every call and is left out.

`MC*` modules hold the instances. Operators named by the mutants of `PROJECT.json` are deliberately
wrong versions, used to show that each property can fail.

## Runs

| Run | Checks |
| --- | --- |
| gateway_authority | a bundle replaced by a tighter one, two intents for one request, or two engagements: exact counters, budgets, starts paid for and not refunded, no authority under a halt, halts never refused, one active policy, only global halts touch both engagements, refinement of `RequestAuthority` |
| gateway_finished_start | violation, see Findings |
| workflow_tasks | two related tasks, and one task contended by two workers with lost replies and restarts: tables agree, no orphans, closed workflows are settled, receipts, fencing, triggers |
| plan_graph | chains, a join, gated pairs and every cyclic graph of three tasks: only acyclic plans are admitted, readiness and plan state follow the tasks, and commands, approvals, leases and receipts that overtake each other act once |
| plan_recovery | violation, see Findings |
| supervisor_stops | each watchdog supervisor against three concurrent stops |
| retry_chain | a task through three attempts with two disturbances anywhere: ceilings, retry units, approvals, fences, leases, refinement of `TaskAttempts` |
| prior_approval | violation, see Findings |
| retry_settlement | violation, see Findings |
| budget_recovery | violation, see Findings |
| evidence_store | two threads, shared content, a crash or a fault: content is kept, deletion erases, reports truly and completes |
| evidence_unlink | violation, see Findings |

### Bounds

Two intents are enough for contention, since handlers read at most one intent's rows besides the
sums; two bundles for replacement; two engagements for isolation. `MaxEpoch = 2` allows work, a
halt, and work again. `MaxRevision`, `MaxLeases`, `MaxSession` allow each effect to be overtaken
by another once and a lease to be replaced. `MaxAttempts = 2` gives a first and a last attempt.
`MaxDisturbances = 2` lets two outside events or recoveries (a lapse, a lost authority, another task's
reservation, a released lease) fall between any two steps of the retry chain, enough for one to take
something away and another to act on the loss. The ceilings leave room for two retry units and for
one competitor. Bounds on counters are constants used in guards, named `Max...`.

Four MC modules explore a part of their state space that a scope on the next state describes:
`GatewayAuthority` either for replacement (one engagement, an intent for each of its two bundles, the
storage latch at rest), for competition (two intents for the one request of a bundle) or for isolation
(two engagements, one intent), the last two with one halt;
`WorkflowTasks` either as a family (two tasks, one worker, one restart) or under contention (one task,
two workers, two policies, two restarts); `PlanGraph` either for readiness (three tasks, one lease
each) or for races (two tasks, leases taken again, a restart); `EvidenceStore` with at most one crash
or fault, two deletions, fixed contents, and a second thread that only deletes and previews. What
lies outside the scopes, three related tasks under contention for example, is not checked by a
run. The scope of `EvidenceStore` never disables a step that fairness is assumed of, and its safety
holds for every instance by proof.

Command identities and the two competing intents are symmetric: no operator tells them apart. The theorems hold for every value of
the constants, bounds included. The supervisor and the retry runs switch the deadlock check off: the
threads end, and so does a task.

### Fairness

`SafetySupervisor`: a thread that is inside `_degrade` or `stop` is scheduled again, and joins and
recoveries end; the joins have timeouts and the adapters run bounded commands. Nothing is assumed of
the checks: a watchdog may hang in one for ever, and `StopReturns` holds all the same.

`EvidenceStore`: a thread in the middle of a call is scheduled again, and the loop of
`recover_deletions` goes on. Nothing makes somebody start the program again, so `DeletionCompletes`
is claimed only for a process that is not left down; nor after a storage failure, which stops
the system until a human recovers it.

The other components only react to requests, so no progress is claimed for them.

## Proofs

Eight modules hold the proofs of six components. Each component has an inductive invariant, `IInv` or
`Inv` (TLC also finds it invariant on the instance of the component's run), a lemma per conjunct with a
step per action, and theorems that read the properties off it. The constants are arbitrary but for the
named assumptions.

**Gateway authority.** `GatewayAuthorityProofs` (counters, the refinement and the theorems) builds on
`GatewayAuthorityLemmas` (types, bundles and session rows; halts, buckets and footprints). They hold
for any finite set of intents and any engagements, bundles, hosts and positive limits
(`ConstantsAssumption`).

| Theorem | Property |
| --- | --- |
| Inductive, TypeCorrect | `IInv`, `TypeOK` |
| Accounted, Budgeted | `AccountsBalance`, `WithinBudget` |
| Halted | `NoAuthorityUnderHalt` |
| SinglePolicy | `OneActivePolicy` |
| HaltAlwaysPossible | `HaltNeverRefused` |
| StartsPaid | `StartsAreAccounted` |
| NeverRefunded | `CommittedStaysCommitted` |
| Isolated | `AssessmentsIsolated` |
| Refines | `ImplementsRequestAuthority` |

The properties are not inductive alone. That a halt cannot be refused needs three facts: counters
equal the sizes of the row sets (so subtracting those sizes cannot go below zero), the rows of an
intent have one of few shapes (`SessionShape`), and the buckets of a pending session belong to its
bundle (`BucketsMatch`). The last holds because only a session of the active bundle can take a
bucket over, and activating another bundle aborts every pending session first; that in turn is
`NoAuthorityUnderHalt` with `OneActivePolicy`. The counting argument uses the cardinality theorems
for adding, removing and splitting sets.

The refinement computes the phase of an intent after each handler. A handler either moves the phase of
one intent by one abstract step (`Advances`), or changes no phase and takes no engagement down
(`Idles`), or is a halt (`Resets`): then every intent of the engagements it takes down is voided in
the same step, because what is outstanding is backed by a live engagement (`BackedIsLive`).

**Evidence store.** `EvidenceStoreProofs`, for any artifacts, digests and threads and any number of
crashes and faults (`EvidenceAssumption`).

| Theorem | Property |
| --- | --- |
| EvidenceInductive | `IInv` |
| ContentKept | `UnracedKeepsContent` |
| DeletedIsErased | `DeletionErases` |

Content is kept because whatever still refers to a file that a thread is about to unlink was
committed after that thread counted the references (`UnlinkedAreRaced`). Deletion erases because,
while a file outlives the requests of all its artifacts, one of them is unfinished and in nobody's
last step (`SomeoneErases`): whoever executes it counts no reference, so it cannot end as
retained_shared. Both need that a call keeps the row and request it was made for (`CallsBound`).

**Supervisors.** `SafetySupervisorProofs`, for each kind of supervisor and any number of callers of
stop (`SupervisorAssumption`).

| Theorem | Property |
| --- | --- |
| SupervisorInductive | `IInv` |
| DegradedTruly | `DegradedIsSafe` |
| StoppedTruly | `StoppedMeansNoWatchdog` |
| NeverReadyAgain | `NeverReadyAfterStop` |
| DegradedForGood | `DegradedLatches` |

The strengthening says what a thread has already done where it stands: whoever is about to write
degraded is past the consequences (`ConsequencesFirst`), a running watchdog was told to stop before
anybody stops it (`ToldToStop`), and it is given up only as degraded (`GivenUpDegraded`).

**Workflows.** `WorkflowTasksProofs`, for any workflows, tasks, workers and keys
(`WorkflowAssumption`).

| Theorem | Property |
| --- | --- |
| WorkflowInductive | `IInv` |
| TablesAgree | `RowsAgree` |
| NeverOrphaned | `NoOrphans` |
| ClosedForGood | `ClosedIsSettled` |
| EndsOnce | `ReceiptsAreOutcomes` |
| LeasesDie | `LeaseDiesWithProcess` |
| NeverAborted | `TriggersAccept` |

The strengthening is small: a leased task was attempted (`AttemptsBegin`), a parent is of the same
workflow (`ParentsBeside`), and no worker is ahead of the row it acts on (`NobodyAhead`), which is why
a version that matches identifies the attempt; and what runs or is paused was started
(`RunningStarted`). `TriggersAccept` is about updates, not only about changes: a renewal moves a
deadline that the model does not show, and a cancellation may select a row that is cancelled already,
and each would abort if it kept the version or selected too much (`LifecycleUpdated`, `RowUpdated`).

**Plans.** `PlanGraphProofs`, for any finite set of tasks, any documents over it, and any number of
commands, leases and sessions (`PlanAssumption`).

| Theorem | Property |
| --- | --- |
| PlanInductive | `IInv` |
| PlansAcyclic | `AdmittedIsAcyclic` |
| ReadyByGraph | `ReadinessFollowsGraph` |
| PlanSummary | `PlanSummarisesTasks` |
| HumanFirst | `GatedNeedsHuman` |
| OneEffect | `OneEffectPerRevision` |
| OneHolder | `OneLeaseHolder` |
| OneReceipt | `RunningHasOneReceipt` |

That `_reject_cycles` finds every cycle is a statement about a recursive function. It is proved by
least counterexample, since the induction theorems of the library take operators: the numbers up to
which the rounds are defined have no least exception (`RoundsExist`), and neither have the rounds that
a set of tasks that waits for itself survives (`CycleStays`). For the rest, `PlanSteps` shows that
every handler leaves graph, plan and tasks alone, creates the plan, or moves tasks along a fixed set of
edges and ends with a refreshed graph and a new summary (`Advanced`); the lemmas on readiness, summary
and approvals need no other fact about the handlers. One effect per revision holds because what took
effect was bound to an earlier revision (`EffectsArePast`). One lease holder needs that a task is
ready in one revision only, so that the lookup by task revision in `acquire` sees every active lease
(`LeasesOfReady`), and one receipt that a receipt never names a revision still to come
(`ReceiptsOfRuns`).

**Retries.** `RetryChainProofs` (the receipts, the reservations and the account) and, on top of it,
`RetrySystemProofs` (leases, the plan, the theorems, the refinement), for any ceilings and requests and
any number of checkpoints and disturbances (`RetryAssumption`). Five slots are all the paths a task
with three attempts has. The sixth reservation stands for the other tasks of the assessment, one open
reservation at a time: that simplification of the model is one of the proofs too.

| Theorem | Property |
| --- | --- |
| Invariant | `Inv` |
| ReceiptsKept | no receipt is ever rewritten or lost |
| StaysWithinCeilings | `WithinCeilings` |
| UnitsAreConserved | `UnitsConserved` |
| RetriedWereTransient | `RetriedWasTransient` |
| RetriesNeedSettledPlan | `RetryNeedsSettledPlan` |
| ApprovalsCoverOneRun | `ApprovalCoversOneRun` |
| RetriesRunOnTheirGround | `RetryRunsOnItsGround` |
| HasOneHolder | `OneHolder` |
| Refines | `ImplementsTaskAttempts` |

No property is inductive alone, for every receipt is checked against the rows it was derived from and
these against theirs. The invariant has one conjunct per table.

* `Chain`: every attempt takes three revisions of the task, the one it is ready at (3k - 2), the one it
  runs at (3k - 1) and the one its typed failure leaves (3k). Each receipt names the revision of its
  place, and the receipts before it exist. Hence a step finds the key it inserts unused (`Growth`), a
  registered attempt is the failure of its own slot, and the versioned and the ordinary path to
  attempt two exclude each other.
* `Budget`: no two open reservations carry the same account version (`Versions`); the reservation of a
  retry carries the version after its unit's; a unit and what it leaves balance with the first
  reservation (`Drawn`).
* `Leases`: no two leases carry the same generation (`Generations`), a run agrees with its lease
  (`RunLeases`), and while a retry has its reservation at the present account version and no lease yet,
  nobody holds the fence and it stands where the schedule found it (`Ground`). The last is why a retry
  runs on its own ground: an ordinary lease needs a reservation at the present account version too, and
  two open reservations never share one.
* `PlanRows` and `Approval`: a failed or reopened plan has no other work, and a gated task has run from
  its first slot only.

`Ceiled` is `WithinCeilings` with its sums written out, and is kept step by step: a reservation is
admitted against exactly these sums (`UsedIs`), a unit comes out of what its open reservation already
counts for (`UnitDrawsOnOpen`), and a release gives back what was not spent. The sums of the code and of
the property are folds with an operator parameter. `FoldIs` gets around that: the function the fold is
defined by agrees with the written-out sum on the sets of no row, and with each row more, up to six.

For the refinement, each group of operations is shown to be one step of `TaskAttempts` or to change
nothing it sees. The subtle case is an interruption: it must not pass for a reported failure, which
holds because a stored failure never names a revision still to come.

Only model-checked: liveness (`DeletionCompletes`, `FailurePausesSafety`, `StopReturns`), which is out
of the prover's reach; and the six violations of the next section.

## Findings

* **gateway_finished_start.** `_abort_gateway_sessions` marks every committed start as cancelled,
  those of finalized requests included, and counts them among the aborted sessions.
  `docs/contracts/gateway-budget-reservations.md` speaks of the pending handoff only.
* **plan_recovery.** After a gated task was approved and is ready, `_refresh_dependents` wants to
  move it back to awaiting_human. No trigger edge allows that, so the update aborts and the handler
  rolls back. `DurablePlanGraphService.recover` is one such handler: with a running task beside the
  approved one it fails, although `docs/contracts/orchestration-plan-graph-v1.md` says that it
  fails running tasks and recomputes dependents.
* **prior_approval.** The lease of attempt two compares the task revision of the approval with the
  present one, which a retry has left behind, so a task that needs approval is prepared for a second
  attempt and then refused. `docs/contracts/orchestration-retry-capability-manifest-v3.md` lets the prior
  approval remain in the lineage of attempt three while unexpired, and the lease of attempt three accepts
  it, but no such task gets that far. `ApprovalCoversOneRun` is what the code does instead.
* **retry_settlement.** The typed failure of attempt three fails the task and only increments the plan's
  revision; the plan stays active for good, although `docs/contracts/orchestration-plan-graph-v1.md`
  says that a plan fails when all tasks terminate and any failed.
* **budget_recovery.** `recover` rebuilds the request of an unexpired reservation without its
  `schema_version`, so a reservation that is still current raises a `KeyError` that rolls back the
  release of the expired ones. `docs/contracts/orchestration-task-budget-v1.md` says that recovery
  releases expired or no longer current reservations.
* **evidence_unlink.** References are counted in one transaction and the file is unlinked after it. A
  capture of the same content that commits in between loses its file, although
  `docs/contracts/evidence-retention-deletion-v1.md` says that a blob is unlinked only when every
  reference has a deletion request. `UnracedKeepsContent` shows that this overlap is the only way.

## Not modelled

* Adapters to the operating system, containers and the network are environment choices. Parsing,
  redaction of text, signing, contract validation and the UI keep no shared state.
* The audit chain: modelled handlers only append to it, in their own transaction. What its deferred
  writers do depends on the lock upgrades of SQLite.
* Token counts of the rate buckets: real-valued arithmetic over wall-clock time. Who owns a bucket is
  modelled.
* Gateway and worker container registries, findings and reports, backups, provider snapshots, agent
  and model intents, policy compilation and scope matching. Nothing prevents models of these; they
  are left out of this version. The worker registry against an unreliable container runtime and the
  purge of backups, each a request, an outside effect and a completion, are the ones worth doing next;
  `PROJECT.json` lists their hazards as uncovered.
