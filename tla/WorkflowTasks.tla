--------------------------- MODULE WorkflowTasks ---------------------------
(***************************************************************************)
(* Supervised assessment workflows and their leased tasks, pentai_core/    *)
(* workflow.py.  Humans create, start, pause, complete and cancel          *)
(* workflows and queue tasks; workers claim a task under a lease, renew    *)
(* it, checkpoint and finalize.  Every handler is one BEGIN IMMEDIATE      *)
(* transaction, hence one action, and a refused request is a disabled one. *)
(*                                                                         *)
(* A worker acts on what the last reply told it: mine[w] is the task       *)
(* version and token it believes in.  Any reply may be lost after the      *)
(* transaction committed, so a worker can be behind.  The token of a lease *)
(* is the number of the attempt that got it.                               *)
(***************************************************************************)
EXTENDS Integers, FiniteSets

CONSTANTS
    Workflows, Tasks, Workers, Policies, Keys,
    WorkflowOf,    \* the workflow a task is queued in
    NoPolicy, NoTask,
    MaxAttempts,   \* max_attempts, 3 in enqueue
    MaxProgress,   \* bound: progress values 0..MaxProgress
    MaxVersion,    \* bound: versions explored
    MaxBoots       \* bound: restarts explored

ASSUME WorkflowAssumption ==
    /\ WorkflowOf \in [Tasks -> Workflows]
    /\ NoPolicy \notin Policies /\ NoTask \notin Tasks
    /\ MaxAttempts \in Nat \ {0} /\ MaxProgress \in Nat
    /\ MaxVersion \in Nat /\ MaxBoots \in Nat

VARIABLES
    authority,   \* the policy _active_authority returns, NoPolicy when it denies
    workflow,    \* assessment_workflows; started: started_at is set
    row,         \* workflow_tasks.state
    parent,      \* workflow_tasks.parent_task_id
    life,        \* workflow_task_lifecycles; ready: lease unexpired, or retry due
    checkpoint,  \* workflow_task_checkpoints: how many, and the last progress
    receipt,     \* workflow_task_receipts
    mine,        \* what each worker believes to hold
    boot         \* process lifetimes so far

vars == <<authority, workflow, row, parent, life, checkpoint, receipt, mine, boot>>

Final == {"succeeded", "dead_letter", "cancelled"}

LifeRow == [state : {"none", "queued", "leased", "retry_wait"} \cup Final,
            version : Nat, attempts : Nat, ready : BOOLEAN]

NoLease == [task |-> NoTask, version |-> 0, token |-> 0, boot |-> 0]

TypeOK ==
    /\ authority \in Policies \cup {NoPolicy}
    /\ workflow \in [Workflows ->
          [status : {"none", "planned", "ready", "running", "paused", "completed", "cancelled"},
           version : Nat, policy : Policies \cup {NoPolicy}, started : BOOLEAN]]
    /\ row \in [Tasks -> {"none", "queued", "cancelled"}]
    /\ parent \in [Tasks -> Tasks \cup {NoTask}]
    /\ life \in [Tasks -> LifeRow]
    /\ \A t \in Tasks : life[t].attempts <= MaxAttempts
    /\ checkpoint \in [Tasks -> [count : Nat, progress : 0..MaxProgress]]
    /\ receipt \in [Tasks -> SUBSET [op : {"complete", "fail"}, key : Keys, token : Nat,
                                     result : {"succeeded", "dead_letter", "retry_wait"}]]
    /\ mine \in [Workers -> [task : Tasks \cup {NoTask}, version : Nat,
                             token : Nat, boot : Nat]]
    /\ boot \in Nat

Init ==
    /\ authority = NoPolicy
    /\ workflow = [w \in Workflows |-> [status |-> "none", version |-> 0,
                                         policy |-> NoPolicy, started |-> FALSE]]
    /\ row = [t \in Tasks |-> "none"]
    /\ parent = [t \in Tasks |-> NoTask]
    /\ life = [t \in Tasks |-> [state |-> "none", version |-> 0, attempts |-> 0, ready |-> FALSE]]
    /\ checkpoint = [t \in Tasks |-> [count |-> 0, progress |-> 0]]
    /\ receipt = [t \in Tasks |-> {}]
    /\ mine = [k \in Workers |-> NoLease]
    /\ boot = 0

-----------------------------------------------------------------------------
(* The environment: authority comes and goes, leases expire, delays pass.  *)

SetAuthority(p) ==
    /\ p # authority
    /\ authority' = p
    /\ UNCHANGED <<workflow, row, parent, life, checkpoint, receipt, mine, boot>>

\* lease_expires_at of a leased task, or next_attempt_at of a waiting one, passes.
Elapse(t) ==
    /\ \/ life[t].state = "leased" /\ life[t].ready
       \/ life[t].state = "retry_wait" /\ ~life[t].ready
    /\ life' = [life EXCEPT ![t].ready = ~@]
    /\ UNCHANGED <<authority, workflow, row, parent, checkpoint, receipt, mine, boot>>

-----------------------------------------------------------------------------
(* Humans.                                                                 *)

Create(w) ==
    /\ workflow[w].status = "none"
    /\ authority # NoPolicy
    /\ workflow' = [workflow EXCEPT ![w] = [status |-> "planned", version |-> 1,
                                            policy |-> authority, started |-> FALSE]]
    /\ UNCHANGED <<authority, row, parent, life, checkpoint, receipt, mine, boot>>

Targets(status) ==
    CASE status = "planned" -> {"ready", "cancelled"}
      [] status = "ready"   -> {"running", "cancelled"}
      [] status = "running" -> {"paused", "completed", "cancelled"}
      [] status = "paused"  -> {"running", "cancelled"}
      [] OTHER -> {}

Authorized(w) == authority # NoPolicy /\ authority = workflow[w].policy

TasksOf(w) == {t \in Tasks : WorkflowOf[t] = w /\ row[t] # "none"}

\* Mutant: only queued and waiting tasks hold completion up.
SettledIgnoringLeases(w) ==
    \A t \in TasksOf(w) : life[t].state \notin {"queued", "retry_wait"}

Settled(w) == \A t \in TasksOf(w) : life[t].state \in Final

CancelledLife(l) ==
    [state |-> "cancelled", version |-> l.version + 1, attempts |-> l.attempts, ready |-> FALSE]

\* The task rows a cancellation updates: WHERE workflow_id = ? AND state = 'queued'.
QueuedTasks(w) == {t \in TasksOf(w) : row[t] = "queued"}

\* Cancelling a workflow marks every queued task row, finished ones included,
\* and ends the lifecycles that are not final yet.
Transition(w, target) ==
    /\ target \in Targets(workflow[w].status)
    /\ target \in {"ready", "running", "completed"} => Authorized(w)
    /\ target = "completed" => Settled(w)
    /\ workflow[w].version < MaxVersion
    /\ workflow' = [workflow EXCEPT ![w] = [status |-> target, version |-> @.version + 1,
                                            policy |-> @.policy,
                                            started |-> @.started \/ target = "running"]]
    /\ IF target = "cancelled"
       THEN /\ row' = [t \in Tasks |-> IF t \in QueuedTasks(w) THEN "cancelled" ELSE row[t]]
            /\ life' = [t \in Tasks |->
                          IF t \in TasksOf(w) /\ life[t].state \notin Final
                          THEN CancelledLife(life[t]) ELSE life[t]]
       ELSE UNCHANGED <<row, life>>
    /\ UNCHANGED <<authority, parent, checkpoint, receipt, mine, boot>>

\* A second request with the idempotency key returns the stored task.
Enqueue(t, p) ==
    LET w == WorkflowOf[t] IN
    /\ row[t] = "none"
    /\ workflow[w].status \in {"ready", "running"}
    /\ Authorized(w)
    /\ p # NoTask => WorkflowOf[p] = w /\ row[p] = "queued"
    /\ row' = [row EXCEPT ![t] = "queued"]
    /\ parent' = [parent EXCEPT ![t] = p]
    /\ life' = [life EXCEPT ![t] = [state |-> "queued", version |-> 1,
                                    attempts |-> 0, ready |-> FALSE]]
    /\ UNCHANGED <<authority, workflow, checkpoint, receipt, mine, boot>>

\* Mutant: children are not looked for.
LiveChildrenNone(t) == {}

LiveChildren(t) == {c \in Tasks : parent[c] = t /\ life[c].state \notin Final}

\* Mutant: the lifecycle is left alone.
CancelTaskRowOnly(t) ==
    /\ row[t] = "queued"
    /\ LiveChildren(t) = {}
    /\ life[t].state \notin {"succeeded", "dead_letter"}
    /\ row' = [row EXCEPT ![t] = "cancelled"]
    /\ UNCHANGED <<authority, workflow, parent, life, checkpoint, receipt, mine, boot>>

CancelTask(t) ==
    /\ row[t] = "queued"
    /\ LiveChildren(t) = {}
    /\ life[t].state \notin {"succeeded", "dead_letter"}
    /\ row' = [row EXCEPT ![t] = "cancelled"]
    /\ life' = [life EXCEPT ![t] = CancelledLife(@)]
    /\ UNCHANGED <<authority, workflow, parent, checkpoint, receipt, mine, boot>>

-----------------------------------------------------------------------------
(* Workers.                                                                *)

\* _task_authority.
TaskAuthority(t) ==
    workflow[WorkflowOf[t]].status = "running" /\ Authorized(WorkflowOf[t])

\* A reply reaches the worker, or is lost.
Reply(k, lease) == mine' = mine \/ mine' = [mine EXCEPT ![k] = lease]

Claim(k, t) ==
    /\ row[t] # "none"
    /\ TaskAuthority(t)
    /\ \/ life[t].state = "queued"
       \/ life[t].state = "retry_wait" /\ life[t].ready
    /\ life[t].attempts < MaxAttempts
    /\ life[t].version < MaxVersion
    /\ life' = [life EXCEPT ![t] = [state |-> "leased", version |-> @.version + 1,
                                    attempts |-> @.attempts + 1, ready |-> TRUE]]
    /\ Reply(k, [task |-> t, version |-> life'[t].version,
                 token |-> life'[t].attempts, boot |-> boot])
    /\ UNCHANGED <<authority, workflow, row, parent, checkpoint, receipt, boot>>

\* The worker's version and token are those of the row.
Fenced(k) ==
    LET t == mine[k].task IN
    /\ t # NoTask
    /\ life[t].version = mine[k].version
    /\ life[t].state = "leased"
    /\ life[t].attempts = mine[k].token

\* Mutant: neither version nor token is compared.
LeasedTaskUnfenced(k) ==
    /\ mine[k].task # NoTask
    /\ life[mine[k].task].state = "leased"
    /\ life[mine[k].task].ready
    /\ TaskAuthority(mine[k].task)

\* _leased_task followed by _task_authority.
LeasedTask(k) ==
    /\ Fenced(k)
    /\ life[mine[k].task].ready
    /\ TaskAuthority(mine[k].task)

Renewed(k) == [mine[k] EXCEPT !.version = @ + 1]

\* Mutant: the renewal moves lease_expires_at and not the version.
HeartbeatUnversioned(k) ==
    /\ LeasedTask(k)
    /\ Reply(k, Renewed(k))
    /\ UNCHANGED <<authority, workflow, row, parent, life, checkpoint, receipt, boot>>

Heartbeat(k) ==
    LET t == mine[k].task IN
    /\ LeasedTask(k)
    /\ life[t].version < MaxVersion
    /\ life' = [life EXCEPT ![t].version = @ + 1]
    /\ Reply(k, Renewed(k))
    /\ UNCHANGED <<authority, workflow, row, parent, checkpoint, receipt, boot>>

Checkpoint(k, progress) ==
    LET t == mine[k].task IN
    /\ LeasedTask(k)
    /\ checkpoint[t].count > 0 => progress >= checkpoint[t].progress
    /\ life[t].version < MaxVersion
    /\ checkpoint' = [checkpoint EXCEPT ![t] = [count |-> @.count + 1, progress |-> progress]]
    /\ life' = [life EXCEPT ![t].version = @ + 1]
    /\ Reply(k, Renewed(k))
    /\ UNCHANGED <<authority, workflow, row, parent, receipt, boot>>

Outcome(op, attempts) ==
    IF op = "complete" THEN "succeeded"
    ELSE IF attempts >= MaxAttempts THEN "dead_letter" ELSE "retry_wait"

Ended(l, state) ==
    [state |-> state, version |-> l.version + 1, attempts |-> l.attempts, ready |-> FALSE]

Finalize(k, op, key) ==
    LET t == mine[k].task
        result == Outcome(op, life[t].attempts)
    IN
    /\ t # NoTask
    /\ ~\E r \in receipt[t] : r.op = op /\ r.key = key
    /\ LeasedTask(k)
    /\ life[t].version < MaxVersion
    /\ life' = [life EXCEPT ![t] = Ended(@, result)]
    /\ receipt' = [receipt EXCEPT ![t] = @ \cup
          {[op |-> op, key |-> key, token |-> mine[k].token, result |-> result]}]
    /\ Reply(k, NoLease)
    /\ UNCHANGED <<authority, workflow, row, parent, checkpoint, boot>>

\* The retry of a finalize whose reply was lost finds its receipt and changes
\* nothing, whatever happened to the task, the workflow or the authority since.
ReplayFinalize(k, op, key) ==
    LET t == mine[k].task IN
    /\ t # NoTask
    /\ \E r \in receipt[t] : r.op = op /\ r.key = key /\ r.token = mine[k].token
    /\ Reply(k, NoLease)
    /\ UNCHANGED <<authority, workflow, row, parent, life, checkpoint, receipt, boot>>

-----------------------------------------------------------------------------

\* Mutant: recovery leaves the leases of the previous process in place.
RecoveredKeepingLeases(l) == l

\* Recovery of one lifecycle: an outstanding lease becomes a retry that is due
\* at once, or a dead letter when it was the last attempt.
Recovered(l) ==
    IF l.state # "leased" THEN l
    ELSE IF l.attempts >= MaxAttempts THEN Ended(l, "dead_letter")
    ELSE [state |-> "retry_wait", version |-> l.version + 1,
          attempts |-> l.attempts, ready |-> TRUE]

\* The process stops and starts again: authorization recovery has halted the
\* engagement before workflow recovery runs, and nothing is served in between.
RecoverStartup ==
    /\ boot < MaxBoots
    /\ boot' = boot + 1
    /\ authority' = NoPolicy
    /\ life' = [t \in Tasks |-> Recovered(life[t])]
    /\ workflow' = [w \in Workflows |->
          IF workflow[w].status = "running"
          THEN [status |-> "paused", version |-> workflow[w].version + 1,
                policy |-> workflow[w].policy, started |-> workflow[w].started]
          ELSE workflow[w]]
    /\ UNCHANGED <<row, parent, checkpoint, receipt, mine>>

Next ==
    \/ \E p \in Policies \cup {NoPolicy} : SetAuthority(p)
    \/ \E t \in Tasks : Elapse(t) \/ CancelTask(t)
    \/ \E w \in Workflows : Create(w)
    \/ \E w \in Workflows, target \in {"ready", "running", "paused", "completed", "cancelled"} :
          Transition(w, target)
    \/ \E t \in Tasks, p \in Tasks \cup {NoTask} : Enqueue(t, p)
    \/ \E k \in Workers, t \in Tasks : Claim(k, t)
    \/ \E k \in Workers : Heartbeat(k)
    \/ \E k \in Workers, progress \in 0..MaxProgress : Checkpoint(k, progress)
    \/ \E k \in Workers, op \in {"complete", "fail"}, key \in Keys :
          Finalize(k, op, key) \/ ReplayFinalize(k, op, key)
    \/ RecoverStartup

Spec == Init /\ [][Next]_vars

-----------------------------------------------------------------------------
(* Properties.                                                             *)

\* The rows have the types of their columns, and the two tables of a task agree:
\* a lifecycle is cancelled only with its task row, and a cancelled row never
\* hides a lifecycle that could still be claimed.
RowsAgree ==
    /\ TypeOK
    /\ \A t \in Tasks :
          /\ row[t] = "none" <=> life[t].state = "none"
          /\ life[t].state = "cancelled" => row[t] = "cancelled"
          /\ row[t] = "cancelled" => life[t].state \in Final

\* "may reference only an available parent": no task stays claimable under a
\* parent that was cancelled, however enqueue and cancel_task interleave.
NoOrphans ==
    \A t \in Tasks : life[t].state \notin Final /\ parent[t] # NoTask =>
        row[parent[t]] = "queued"

\* "a lost response can be replayed without repeating the mutation": every
\* attempt ends at most once, with the result its receipt stores, and a final
\* result stored in a receipt is the state of the task for good.
ReceiptsAreOutcomes ==
    \A t \in Tasks :
        /\ \A r, s \in receipt[t] : r.token = s.token => r = s
        /\ \A r \in receipt[t] :
              /\ r.token \in 1..life[t].attempts
              /\ r.result \in Final => r.result = life[t].state
              /\ r.token = life[t].attempts => life[t].state # "leased"

\* "Startup invalidates all outstanding leases": a lease is honoured only in
\* the process lifetime that granted it, whatever is resumed afterwards.
LeaseDiesWithProcess == \A k \in Workers : Fenced(k) => mine[k].boot = boot

\* "Completion is denied while queued tasks remain", and nothing can be queued
\* or claimed later: a completed or cancelled workflow has only final tasks.
ClosedIsSettled ==
    \A w \in Workflows : workflow[w].status \in {"completed", "cancelled"} =>
        \A t \in Tasks : WorkflowOf[t] = w => life[t].state \in Final \cup {"none"}

\* A statement of the step updates the lifecycle of t: it changes the row, which
\* the passing of time does without a statement, or it renews the lease, which
\* moves a deadline the row of the model does not show.
LifecycleUpdated(t) ==
    \/ life'[t] # life[t] /\ ~Elapse(t)
    \/ \E k \in Workers : /\ mine[k].task = t
                          /\ \/ Heartbeat(k)
                             \/ \E progress \in 0..MaxProgress : Checkpoint(k, progress)

\* workflow_task_lifecycles_version_fenced: every update of a lifecycle raises
\* its version by exactly one, along an edge of the trigger.
LifecyclesFenced ==
    \A t \in Tasks : life[t].state # "none" /\ LifecycleUpdated(t) =>
        /\ life'[t].version = life[t].version + 1
        /\ \/ life[t].state \in {"queued", "retry_wait"}
                /\ life'[t].state \in {"leased", "cancelled"}
           \/ life[t].state = "leased"
                /\ life'[t].state \in {"leased", "retry_wait"} \cup Final

\* A statement of the step updates the task row of t, be it to the same value.
RowUpdated(t) ==
    \/ row'[t] # row[t]
    \/ CancelTask(t)
    \/ \E w \in Workflows : Transition(w, "cancelled") /\ t \in QueuedTasks(w)

\* workflow_tasks_transition and workflow_tasks_identity_immutable: a task row
\* is updated once, from queued to cancelled, and keeps its parent.
RowsFenced ==
    \A t \in Tasks : row[t] # "none" =>
        /\ RowUpdated(t) => row[t] = "queued" /\ row'[t] = "cancelled"
        /\ parent'[t] = parent[t]

\* assessment_workflows_transition: every update of a workflow raises its
\* version by one, along an edge, and nothing runs, pauses or completes that
\* has no started_at.  (finalized_at follows from the target in the statement
\* that sets it, and is left out.)
WorkflowsFenced ==
    \A w \in Workflows :
        workflow'[w] # workflow[w] /\ workflow[w].status # "none" =>
            /\ workflow'[w].version = workflow[w].version + 1
            /\ workflow'[w].status \in Targets(workflow[w].status)
            /\ workflow'[w].status \in {"running", "paused", "completed"} => workflow'[w].started

CheckpointsAppended ==
    \A t \in Tasks : /\ checkpoint'[t].count - checkpoint[t].count \in {0, 1}
                     /\ checkpoint'[t].progress >= checkpoint[t].progress

\* No statement of a handler is one that a trigger of the three tables aborts,
\* a statement that leaves the row as it was included: lifecycles, task rows and
\* workflows change version and state only as above.  "Checkpoints are
\* append-only and progress cannot decrease", also when another worker's later
\* attempt takes the task over.
TriggersAccept ==
    [][LifecyclesFenced /\ RowsFenced /\ WorkflowsFenced /\ CheckpointsAppended]_vars
=============================================================================
