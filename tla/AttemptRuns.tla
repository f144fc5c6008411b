----------------------------- MODULE AttemptRuns -----------------------------
(***************************************************************************)
(* One run of the task on one slot: capability manifest, budget            *)
(* reservation, lease, consumption of the lease, checkpoints and the typed *)
(* failure or completion that ends it, with the recovery operations that   *)
(* may come between any two of these steps.  Every operation is one        *)
(* immediate transaction; a request the code refuses is a disabled action, *)
(* and a repeated request returns the stored receipt.                      *)
(*                                                                         *)
(* One agent acts for the task.  A slot has one reservation at a time.     *)
(***************************************************************************)
EXTENDS RetryState

\* One for the three classes a policy calls eligible, and the one it does not.
FailureClasses == {"worker_process_failed", "checkpoint_stalled"}

\* The attempt the task is at: one more than the activations consumed.
CurrentRound == 1 + Cardinality(DOMAIN row.activation)

-----------------------------------------------------------------------------
(* Manifests of the ordinary path (agent_intent.py).                       *)

RevalidateState(state) ==
    authority /\ plan.state = "active" /\ task.state = state

\* One manifest per task revision, agent and table; the retry manifest of
\* attempt two is in the same table, that of attempt three is not.
ManifestUnique == \A s \in DOMAIN row.manifest \ {3} : row.manifest[s].task # task.revision

NewManifest(s, deadlines) ==
    [plan |-> plan.revision, task |-> task.revision, expires |-> {<<"manifest", s>>} \cup deadlines]

IssueManifest(s) ==
    /\ Round(s) = CurrentRound
    /\ RevalidateState("ready")
    /\ ManifestUnique
    /\ Insert("manifest", s, NewManifest(s, {}))
    /\ UNCHANGED <<graphVars, budgetVars, leaseVars, outsideVars>>

-----------------------------------------------------------------------------
(* Budget reservations (orchestration_budget.py).                          *)

ValidateAssessmentPolicy == authority

ActivateAccount ==
    /\ account = 0
    /\ ValidateAssessmentPolicy
    /\ account' = 1
    /\ UNCHANGED <<graphVars, reservation, leaseVars, row, outsideVars>>

SameTask(s) == IF s = Other THEN {Other} ELSE Slots

\* Retry units consumed from a reservation, in either table of consumptions.
ConsumedUnits(s) == Cardinality({n \in DOMAIN row.unit : row.unit[n].capacity = s})

\* Released rows count for nothing.
UsedCapacityReservedOnly(field, scope) ==
    MapThenSumSet(LAMBDA s : IF reservation[s].state = "reserved" THEN reservation[s][field] ELSE 0,
                  scope \cap DOMAIN reservation)

\* A reserved row counts in full, a released one only for the retries it spent.
UsedCapacity(field, scope) ==
    MapThenSumSet(LAMBDA s : IF reservation[s].state = "reserved" THEN reservation[s][field]
                             ELSE IF field = "retries" THEN ConsumedUnits(s) ELSE 0,
                  scope \cap DOMAIN reservation)

Fits(s, q) ==
    \A field \in {"work", "retries"} :
        /\ UsedCapacity(field, Slots \cup {Other}) + q[field] <= Ceilings.assessment[field]
        /\ UsedCapacity(field, SameTask(s)) + q[field] <= Ceilings.per_task[field]

NewReservation(q, deadlines) ==
    [state |-> "reserved", account |-> account + 1, work |-> q.work, retries |-> q.retries,
     plan |-> plan.revision, task |-> task.revision, expires |-> deadlines]

Store(s, q, deadlines) ==
    /\ Fits(s, q)
    /\ reservation' = With(reservation, s, NewReservation(q, deadlines))
    /\ account' = account + 1
    /\ UNCHANGED <<graphVars, leaseVars, row>>

\* What reserve() checks of the task before it counts.
ReserveCurrent(s) ==
    /\ ValidateAssessmentPolicy /\ AccountOpen
    /\ Has("manifest", s)
    /\ At(row.manifest[s], "ready")
    /\ Live(row.manifest[s])

Reserve(s, q) ==
    /\ s \in DOMAIN reservation => reservation[s].state = "released"
    /\ ReserveCurrent(s)
    /\ Store(s, q, {<<"budget", s>>} \cup AccountDeadline)
    /\ UNCHANGED outsideVars

\* Another task of the assessment reserves from the same account.
ReserveOther(q) ==
    /\ ValidateAssessmentPolicy /\ AccountOpen
    /\ Other \in DOMAIN reservation => reservation[Other].state = "released"
    /\ Disturb
    /\ Store(Other, q, AccountDeadline)
    /\ UNCHANGED <<authority, worker, passed>>

\* recover() rebuilds the request of a stored receipt without its schema version,
\* which the manifest check of a reservation that is still current reads.
RecoveryRaises(s) ==
    /\ reservation[s].state = "reserved" /\ Live(reservation[s])
    /\ ValidateAssessmentPolicy
    /\ At(reservation[s], "ready")

\* In the order of their ids; the order of the slots stands for it.
Released(S) ==
    [s \in DOMAIN reservation |->
        IF s \in S
        THEN [reservation[s] EXCEPT !.state = "released",
                                    !.account = account + Cardinality({t \in S : t <= s})]
        ELSE reservation[s]]

ReservedRows(S) == {s \in S \cap DOMAIN reservation : reservation[s].state = "reserved"}

\* All or nothing: one reservation that raises rolls the whole transaction back.
\* Whether the other task's reservation is still current is up to that task.
RecoverBudget ==
    LET S == ReservedRows({1, 2, 4, 5, Other})
    IN  /\ S # {}
        /\ \A s \in S \ {Other} : ~RecoveryRaises(s)
        /\ Disturb
        /\ reservation' = Released(S)
        /\ account' = account + Cardinality(S)
        /\ UNCHANGED <<graphVars, leaseVars, row, authority, worker, passed>>

-----------------------------------------------------------------------------
(* Leases v1 and v2 (orchestration_lease.py) and v3 (_lease_v3.py).  A     *)
(* renewal moves only the lease's own instant.                             *)

\* The task revision the human approved; a retry leaves it behind.
ApprovedRevision == 1

\* All that a lease is granted on but the approval.
Prepared(s) ==
    /\ authority
    /\ Has("manifest", s) /\ At(row.manifest[s], "ready") /\ Live(row.manifest[s])
    /\ Holds(s, account) /\ At(reservation[s], "ready")
    /\ worker.running

\* Mutant: the approval is good for whatever revision the task has.
LeaseCurrentAnyRevision(s) == Prepared(s) /\ Approved

LeaseCurrent(s) ==
    /\ Prepared(s)
    /\ gated => task.revision = ApprovedRevision /\ Approved

\* With the approval, when one is required, at any revision, and against the worker
\* that the reservation names.
LeaseV3Current ==
    /\ authority
    /\ Has("manifest", 3) /\ At(row.manifest[3], "ready") /\ Live(row.manifest[3])
    /\ Holds(3, account) /\ reservation[3].retries = 0
    /\ Approved
    /\ worker = [running |-> TRUE, version |-> row.manifest[3].worker]

ActiveLease(s) ==
    s \in DOMAIN lease /\ lease[s].state = "active" /\ lease[s].task = task.revision

NewLease(s) ==
    [state |-> "active", generation |-> fence.generation + 1, recovery |-> fence.recovery,
     worker |-> worker.version, account |-> account, plan |-> plan.revision, task |-> task.revision,
     expires |-> {<<"lease", s>>} \cup row.manifest[s].expires \cup reservation[s].expires
                 \cup ApprovalDeadline]

NewLeaseV3 == NewLease(3)

TakeLease(s, r) ==
    /\ lease' = With(lease, s, r)
    /\ fence' = [fence EXCEPT !.generation = @ + 1]
    /\ UNCHANGED <<graphVars, budgetVars, row, outsideVars>>

\* A retry lease is taken once; the ordinary path may lease again.
Acquire(s) ==
    /\ s = 2 => s \notin DOMAIN lease
    /\ \A t \in Slots \ {3} : ~ActiveLease(t)
    /\ LeaseCurrent(s)
    /\ TakeLease(s, NewLease(s))

AcquireV3 ==
    /\ 3 \notin DOMAIN lease
    /\ \A t \in Slots : ~ActiveLease(t)
    /\ LeaseV3Current
    /\ TakeLease(3, NewLeaseV3)

\* The lease row alone, whatever the fence has moved to.
MutationBindingUnfenced(s) ==
    /\ s \in DOMAIN lease
    /\ lease[s].state = "active" /\ Live(lease[s])
    /\ At(lease[s], "ready")
    /\ worker.version = lease[s].worker

\* The holder: active, unexpired, at the fence, by the worker that took it.
MutationBinding(s) ==
    /\ s \in DOMAIN lease
    /\ lease[s].state = "active" /\ Live(lease[s])
    /\ At(lease[s], "ready")
    /\ Unmoved(lease[s])

Release(s) ==
    /\ MutationBinding(s) /\ LeaseCurrent(s)
    /\ Disturb
    /\ lease' = [lease EXCEPT ![s].state = "released"]
    /\ UNCHANGED <<graphVars, budgetVars, fence, row, authority, worker, passed>>

NewRun(s) ==
    [plan |-> plan.revision + 1, task |-> task.revision + 1, account |-> lease[s].account,
     worker |-> lease[s].worker, generation |-> lease[s].generation,
     recovery |-> lease[s].recovery]

NewRunV3 == NewRun(3)

StartTask(s, r) ==
    /\ Insert("run", s, r)
    /\ task' = [state |-> "running", revision |-> task.revision + 1]
    /\ plan' = [plan EXCEPT !.revision = @ + 1]
    /\ UNCHANGED <<gated, sibling, budgetVars, fence, outsideVars>>

Consume(s) ==
    /\ MutationBinding(s) /\ LeaseCurrent(s)
    /\ lease' = [lease EXCEPT ![s].state = "released"]
    /\ StartTask(s, NewRun(s))

\* The lease row stays active behind its consumption.
ConsumeV3 ==
    /\ ~Has("run", 3)
    /\ MutationBinding(3) /\ LeaseV3Current
    /\ StartTask(3, NewRunV3)
    /\ UNCHANGED lease

RecoveredLeases(S) ==
    /\ S # {}
    /\ Disturb
    /\ lease' = [s \in DOMAIN lease |->
                    IF s \in S
                    THEN [lease[s] EXCEPT !.state = IF Live(lease[s]) THEN "invalidated" ELSE "expired"]
                    ELSE lease[s]]
    /\ fence' = [fence EXCEPT !.recovery = @ + Cardinality(S)]
    /\ UNCHANGED <<graphVars, budgetVars, row, authority, worker, passed>>

RecoverLeases == RecoveredLeases({s \in DOMAIN lease \ {3} : lease[s].state = "active"})

RecoverLeasesV3 ==
    RecoveredLeases({s \in DOMAIN lease \cap {3} : lease[s].state = "active" /\ ~Has("run", s)})

-----------------------------------------------------------------------------
(* Checkpoints, typed failures and the completion of attempt three.        *)

CheckpointCurrent(s) ==
    /\ authority
    /\ Has("run", s) /\ At(row.run[s], "running") /\ Unmoved(row.run[s])
    /\ Live(row.manifest[s])
    /\ Holds(s, row.run[s].account)

\* Attempt three also refuses an account that has moved.
CheckpointV3Current == CheckpointCurrent(3) /\ account = row.run[3].account

CheckpointHead(s) == IF Has("head", s) THEN row.head[s] ELSE 0

NextCheckpoint(s) ==
    /\ MapThenSumSet(CheckpointHead, Slots) < MaxCheckpoints
    /\ Insert("head", s, CheckpointHead(s) + 1)
    /\ UNCHANGED <<graphVars, budgetVars, leaseVars, outsideVars>>

RecordCheckpoint(s) == CheckpointCurrent(s) /\ NextCheckpoint(s)

RecordCheckpointV3 == CheckpointV3Current /\ NextCheckpoint(3)

NewFailure(s, class) ==
    [slot |-> s, class |-> class, sequence |-> CheckpointHead(s), plan |-> plan.revision + 1,
     task |-> task.revision + 1, account |-> row.run[s].account, worker |-> row.run[s].worker,
     generation |-> row.run[s].generation, recovery |-> row.run[s].recovery]

NewFailureV3(class) == NewFailure(3, class)

RecordFailure(s, class) ==
    /\ CheckpointCurrent(s)
    /\ Insert("failure", s, NewFailure(s, class))
    /\ Settle("failed")
    /\ UNCHANGED <<budgetVars, leaseVars, outsideVars>>

\* Leaves the plan's state and the task's dependents alone.
RecordFailureV3(class) ==
    /\ CheckpointV3Current
    /\ Insert("failure", 3, NewFailureV3(class))
    /\ task' = [state |-> "failed", revision |-> task.revision + 1]
    /\ plan' = [plan EXCEPT !.revision = @ + 1]
    /\ UNCHANGED <<gated, sibling, budgetVars, leaseVars, outsideVars>>

NewCompletionV3 == [sequence |-> CheckpointHead(3), plan |-> plan.revision + 1]

CompleteV3 ==
    /\ CheckpointV3Current
    /\ Insert("completion", 3, NewCompletionV3)
    /\ Settle("succeeded")
    /\ UNCHANGED <<budgetVars, leaseVars, outsideVars>>
=============================================================================
