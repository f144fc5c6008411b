----------------------------- MODULE PlanGraph -----------------------------
(***************************************************************************)
(* One durable orchestration plan: its dependency graph and task states    *)
(* (pentai_core/orchestration.py), human approval of gated tasks           *)
(* (orchestration_approval.py), the coordination leases that start a task  *)
(* (orchestration_lease.py) and the typed failures that end a run          *)
(* (orchestration_failure.py).  Each handler is one BEGIN IMMEDIATE        *)
(* transaction, hence one action; a refused request, or one a storage      *)
(* trigger aborts, rolls back and is a disabled action.                    *)
(*                                                                         *)
(* Nothing runs at the instant it was decided on: a transition command, an *)
(* approval request, a lease and a run receipt each carry the plan and     *)
(* task revisions their author saw, and are used any number of steps       *)
(* later.                                                                  *)
(***************************************************************************)
EXTENDS Integers, FiniteSets

CONSTANTS
    Tasks,
    Leasable,      \* tasks of type validation
    Plans,         \* plan documents: [tasks, edges, gated], edges as <<pred, succ>>
    Commands,      \* identities of transition commands
    MaxRevision,   \* bound: plan revisions explored
    MaxLeases,     \* bound: lease generations per task
    MaxSession     \* bound: authenticated process sessions explored

ASSUME PlanAssumption ==
    /\ IsFiniteSet(Tasks) /\ Leasable \subseteq Tasks
    /\ \A p \in Plans : /\ p.tasks \subseteq Tasks /\ p.tasks # {}
                        /\ p.edges \subseteq p.tasks \X p.tasks /\ p.gated \subseteq p.tasks
    /\ MaxRevision \in Nat \ {0} /\ MaxLeases \in Nat /\ MaxSession \in Nat \ {0}

VARIABLES
    authority,  \* engagement, policy and global safety all active
    session,    \* authenticated session of the running process
    graph,      \* the plan's tasks, orchestration_dependencies, requires_human_approval
    plan,       \* orchestration_plans
    task,       \* orchestration_tasks
    command,    \* transition commands and whether orchestration_commands has them
    requests,   \* approval requests with their decision and consumption
    fence,      \* orchestration_task_lease_fences
    leases,     \* orchestration_task_leases
    runs        \* orchestration_task_lease_consumptions

vars == <<authority, session, graph, plan, task, command, requests, fence, leases, runs>>

Terminal == {"cancelled", "succeeded", "failed"}

TaskStates ==
    Terminal \cup {"pending", "blocked", "ready", "awaiting_human", "running", "cancelling"}

NoCommand == [status |-> "unused"]

Init ==
    /\ authority = TRUE /\ session = 1
    /\ graph = [tasks |-> {}, edges |-> {}, gated |-> {}]
    /\ plan = [state |-> "absent", revision |-> 0]
    /\ task = [t \in Tasks |-> [state |-> "pending", revision |-> 1]]
    /\ command = [c \in Commands |-> NoCommand]
    /\ requests = {}
    /\ fence = [t \in Tasks |-> [generation |-> 0, recovery |-> 1]]
    /\ leases = {} /\ runs = {}

-----------------------------------------------------------------------------
(* The graph.                                                              *)

Predecessors(E, t) == {e[1] : e \in {x \in E : x[2] = t}}

\* Deny only a graph without any root.
UnvisitedRootless(E) == IF \A t \in Tasks : Predecessors(E, t) # {} THEN Tasks ELSE {}

\* Kahn's algorithm: peel off, round by round, the tasks without an unvisited
\* predecessor; the tasks of a cycle and those behind it are left.
Unvisited(E) ==
    LET peel[n \in 0..Cardinality(Tasks)] ==
            IF n = 0 THEN Tasks
            ELSE {t \in peel[n - 1] : Predecessors(E, t) \cap peel[n - 1] # {}}
    IN  peel[Cardinality(Tasks)]

RejectCycles(E) == Unvisited(E) = {}

InitialStates(p) ==
    [t \in Tasks |->
        [state |-> IF t \notin p.tasks THEN "pending"
                   ELSE IF Predecessors(p.edges, t) # {} THEN "blocked"
                   ELSE IF t \in p.gated THEN "awaiting_human" ELSE "ready",
         revision |-> 1]]

CreatePlan(p) ==
    /\ plan.state = "absent"
    /\ RejectCycles(p.edges)
    /\ graph' = p
    /\ plan' = [state |-> "active", revision |-> 1]
    /\ task' = InitialStates(p)
    /\ UNCHANGED <<authority, session, command, requests, fence, leases, runs>>

-----------------------------------------------------------------------------
(* What every state change ends with.                                      *)

Desired(tk, t) ==
    IF \E q \in Predecessors(graph.edges, t) : tk[q].state # "succeeded" THEN "blocked"
    ELSE IF t \in graph.gated THEN "awaiting_human" ELSE "ready"

Moved(tk, t, s) == [tk EXCEPT ![t] = [state |-> s, revision |-> tk[t].revision + 1]]

\* A refresh that forgets the gated tasks.
RefreshedReadyOnly(tk) ==
    [t \in Tasks |->
        IF tk[t].state = "blocked" /\ t \notin graph.gated /\ Desired(tk, t) # tk[t].state
        THEN [state |-> Desired(tk, t), revision |-> tk[t].revision + 1]
        ELSE tk[t]]

Refreshed(tk) ==
    [t \in Tasks |->
        IF tk[t].state \in {"blocked", "ready", "awaiting_human"} /\ Desired(tk, t) # tk[t].state
        THEN [state |-> Desired(tk, t), revision |-> tk[t].revision + 1]
        ELSE tk[t]]

\* The edges of the trigger that need no receipt and a refresh can ask for.
TriggerAccepts(tk) ==
    LET new == Refreshed(tk) IN
    \A t \in Tasks : tk[t].state # new[t].state =>
        tk[t].state = "blocked" /\ new[t].state \in {"ready", "awaiting_human"}

\* One failed task is enough to fail the plan.
PlanStateAnyFailed(tk) ==
    LET states == {tk[t].state : t \in graph.tasks} IN
    IF states = {"succeeded"} THEN "completed"
    ELSE IF "failed" \in states THEN "failed"
    ELSE IF states \subseteq Terminal THEN "cancelled" ELSE "active"

PlanState(tk) ==
    LET states == {tk[t].state : t \in graph.tasks} IN
    IF states = {"succeeded"} THEN "completed"
    ELSE IF states \subseteq Terminal THEN IF "failed" \in states THEN "failed" ELSE "cancelled"
    ELSE "active"

Advance(tk) ==
    /\ plan.revision < MaxRevision
    /\ task' = tk
    /\ plan' = [state |-> PlanState(tk), revision |-> plan.revision + 1]

\* Update, _refresh_dependents, _plan_state and the plan's new revision.
AdvanceRefreshed(tk) == TriggerAccepts(tk) /\ Advance(Refreshed(tk))

\* Without the plan's revision.
CurrentTaskOnly(b) == plan.state = "active" /\ task[b.task].revision = b.taskRev

\* The revision fences of every command, approval, lease and receipt.
Current(b) ==
    /\ plan.state = "active"
    /\ plan.revision = b.planRev /\ task[b.task].revision = b.taskRev

-----------------------------------------------------------------------------
(* The general transition service and startup recovery.                    *)

Targets(s) ==
    CASE s \in {"ready", "awaiting_human", "blocked"} -> {"cancelled"}
      [] s = "running"    -> {"cancelling", "succeeded"}
      [] s = "cancelling" -> {"cancelled", "failed"}
      [] OTHER            -> {}

SendCommand(c, t, s) ==
    /\ plan.state = "active"
    /\ command[c] = NoCommand
    /\ s \in Targets(task[t].state)
    /\ command' = [command EXCEPT ![c] = [status |-> "sent", task |-> t, target |-> s,
                       taskRev |-> task[t].revision, planRev |-> plan.revision]]
    /\ UNCHANGED <<authority, session, graph, plan, task, requests, fence, leases, runs>>

\* A replay of an applied command only returns its stored result.
Transition(c) ==
    /\ command[c].status = "sent"
    /\ Current(command[c])
    /\ command[c].target \in Targets(task[command[c].task].state)
    /\ AdvanceRefreshed(Moved(task, command[c].task, command[c].target))
    /\ command' = [command EXCEPT ![c].status = "applied"]
    /\ UNCHANGED <<authority, session, graph, requests, fence, leases, runs>>

Interrupted == {t \in Tasks : task[t].state \in {"running", "cancelling"}}

Failed(S) ==
    [t \in Tasks |-> IF t \in S THEN [state |-> "failed", revision |-> task[t].revision + 1]
                     ELSE task[t]]

RecoverPlan ==
    /\ plan.state = "active" /\ Interrupted # {}
    /\ AdvanceRefreshed(Failed(Interrupted))
    /\ UNCHANGED <<authority, session, graph, command, requests, fence, leases, runs>>

-----------------------------------------------------------------------------
(* Human approval of a gated task.  Session 0 is the unauthenticated v1    *)
(* form, whose approvals cannot be consumed.                               *)

Awaiting(b) == authority /\ Current(b) /\ task[b.task].state = "awaiting_human"

NewRequest(t, s) ==
    [task |-> t, taskRev |-> task[t].revision, planRev |-> plan.revision,
     session |-> s, fresh |-> TRUE, status |-> "open"]

\* The request identity is derived from plan, task and task revision, so a task
\* revision is asked about once; a later request conflicts with the stored one.
CreateRequest(t, s) ==
    LET r == NewRequest(t, s)
    IN  /\ s \in {0, session}
        /\ t \in graph.gated /\ Awaiting(r)
        /\ \A q \in requests : q.task = t => q.taskRev # r.taskRev
        /\ requests' = requests \cup {r}
        /\ UNCHANGED <<authority, session, graph, plan, task, command, fence, leases, runs>>

Resolved(r, s) == (requests \ {r}) \cup {[r EXCEPT !.status = s]}

\* An approval that makes the task ready at once.
DecideReady(r, d) ==
    /\ r.status = "open" /\ r.fresh /\ r.session \in {0, session}
    /\ Awaiting(r)
    /\ requests' = Resolved(r, d)
    /\ Advance(Moved(task, r.task, IF d = "rejected" THEN "cancelled" ELSE "ready"))
    /\ UNCHANGED <<authority, session, graph, command, fence, leases, runs>>

\* Approval leaves the task waiting; rejection cancels it, without a refresh.
Decide(r, d) ==
    /\ r.status = "open" /\ r.fresh /\ r.session \in {0, session}
    /\ Awaiting(r)
    /\ requests' = Resolved(r, d)
    /\ IF d = "rejected"
       THEN Advance(Moved(task, r.task, "cancelled"))
       ELSE UNCHANGED <<plan, task>>
    /\ UNCHANGED <<authority, session, graph, command, fence, leases, runs>>

ConsumeApproval(r) ==
    /\ r.status = "approved" /\ r.fresh /\ r.session = session
    /\ Awaiting(r)
    /\ requests' = Resolved(r, "consumed")
    /\ Advance(Moved(task, r.task, "ready"))
    /\ UNCHANGED <<authority, session, graph, command, fence, leases, runs>>

-----------------------------------------------------------------------------
(* Leases.  A lease is live until it, its manifest, budget reservation or  *)
(* worker registration lapses.                                             *)

ApprovalHolds(b) ==
    b.task \in graph.gated =>
        \E r \in requests : /\ r.task = b.task /\ r.taskRev + 1 = b.taskRev
                            /\ r.status = "consumed" /\ r.fresh

\* _validate_current of a lease.
Startable(b) ==
    /\ authority /\ Current(b)
    /\ task[b.task].state = "ready" /\ b.task \in Leasable
    /\ ApprovalHolds(b)

NewLease(t) ==
    [task |-> t, taskRev |-> task[t].revision, planRev |-> plan.revision,
     generation |-> fence[t].generation + 1, recovery |-> fence[t].recovery,
     live |-> TRUE, state |-> "active"]

\* The conflict is looked up under the plan's revision instead of the task's.
AcquireOverStaleLease(t) ==
    LET l == NewLease(t)
    IN  /\ fence[t].generation < MaxLeases
        /\ \A q \in leases : q.task = t /\ q.planRev = l.planRev => q.state # "active"
        /\ Startable(l)
        /\ leases' = leases \cup {l}
        /\ fence' = [fence EXCEPT ![t].generation = l.generation]
        /\ UNCHANGED <<authority, session, graph, plan, task, command, requests, runs>>

Acquire(t) ==
    LET l == NewLease(t)
    IN  /\ fence[t].generation < MaxLeases
        /\ \A q \in leases : q.task = t /\ q.taskRev = l.taskRev => q.state # "active"
        /\ Startable(l)
        /\ leases' = leases \cup {l}
        /\ fence' = [fence EXCEPT ![t].generation = l.generation]
        /\ UNCHANGED <<authority, session, graph, plan, task, command, requests, runs>>

\* The holder is current in the fence: shared by leases and run receipts.
Unfenced(b) == /\ b.live
               /\ fence[b.task].generation = b.generation /\ fence[b.task].recovery = b.recovery

\* _validate_mutation_binding.
Holds(l) == l.state = "active" /\ Unfenced(l) /\ Startable(l)

\* An ended lease is no longer live.
EndedLease(l, s) ==
    [task |-> l.task, taskRev |-> l.taskRev, planRev |-> l.planRev,
     generation |-> l.generation, recovery |-> l.recovery, live |-> FALSE, state |-> s]

Ended(l, s) == (leases \ {l}) \cup {EndedLease(l, s)}

\* A renewal moves only the lease's version and expiry, which live stands for.
Release(l) ==
    /\ Holds(l)
    /\ leases' = Ended(l, "released")
    /\ UNCHANGED <<authority, session, graph, plan, task, command, requests, fence, runs>>

Receipt(l) ==
    [task |-> l.task, taskRev |-> l.taskRev + 1, planRev |-> l.planRev + 1,
     generation |-> l.generation, recovery |-> l.recovery, live |-> TRUE]

\* The lease is not used up.
ConsumeKeepingLease(l) ==
    /\ Holds(l)
    /\ Advance(Moved(task, l.task, "running"))
    /\ runs' = runs \cup {Receipt(l)}
    /\ UNCHANGED <<authority, session, graph, command, requests, fence, leases>>

Consume(l) ==
    /\ Holds(l)
    /\ leases' = Ended(l, "released")
    /\ Advance(Moved(task, l.task, "running"))
    /\ runs' = runs \cup {Receipt(l)}
    /\ UNCHANGED <<authority, session, graph, command, requests, fence>>

ActiveLeases == {l \in leases : l.state = "active"}

\* Every active lease ends, and its task's recovery generation moves on.
RecoverLeases(outcome) ==
    LET active == ActiveLeases
        end(l) == IF l \in active THEN EndedLease(l, outcome[l]) ELSE l
    IN  /\ active # {}
        /\ \A l \in active : l.live => outcome[l] = "invalidated"
        /\ leases' = {end(l) : l \in leases}
        /\ fence' = [t \in Tasks |-> [fence[t] EXCEPT !.recovery =
                        @ + Cardinality({l \in active : l.task = t})]]
        /\ UNCHANGED <<authority, session, graph, plan, task, command, requests, runs>>

\* A typed failure of the run a lease consumption started.
RecordFailure(r) ==
    /\ authority /\ Current(r) /\ Unfenced(r)
    /\ task[r.task].state = "running"
    /\ AdvanceRefreshed(Moved(task, r.task, "failed"))
    /\ UNCHANGED <<authority, session, graph, command, requests, fence, leases, runs>>

-----------------------------------------------------------------------------
(* The environment: safety and policy changes, time, process restarts.     *)

SetAuthority ==
    /\ authority' = ~authority
    /\ UNCHANGED <<session, graph, plan, task, command, requests, fence, leases, runs>>

\* create_app halts the engagement (recover_startup) and draws a new session
\* identity; it calls neither plan nor lease recovery, which stay actions of
\* their own.
Restart ==
    /\ session < MaxSession
    /\ session' = session + 1
    /\ authority' = FALSE
    /\ UNCHANGED <<graph, plan, task, command, requests, fence, leases, runs>>

LapseRequest(r) ==
    /\ r.fresh
    /\ requests' = (requests \ {r}) \cup {[r EXCEPT !.fresh = FALSE]}
    /\ UNCHANGED <<authority, session, graph, plan, task, command, fence, leases, runs>>

LapseLease(l) ==
    /\ l.live /\ l.state = "active"
    /\ leases' = (leases \ {l}) \cup {[l EXCEPT !.live = FALSE]}
    /\ UNCHANGED <<authority, session, graph, plan, task, command, requests, fence, runs>>

LapseRun(r) ==
    /\ r.live
    /\ runs' = (runs \ {r}) \cup {[r EXCEPT !.live = FALSE]}
    /\ UNCHANGED <<authority, session, graph, plan, task, command, requests, fence, leases>>

Next ==
    \/ \E p \in Plans : CreatePlan(p)
    \/ \E c \in Commands, t \in Tasks : \E s \in Targets(task[t].state) : SendCommand(c, t, s)
    \/ \E c \in Commands : Transition(c)
    \/ RecoverPlan
    \/ \E t \in Tasks, s \in {0, session} : CreateRequest(t, s)
    \/ \E r \in requests, d \in {"approved", "rejected"} : Decide(r, d)
    \/ \E r \in requests : ConsumeApproval(r) \/ LapseRequest(r)
    \/ \E t \in Tasks : Acquire(t)
    \/ \E l \in leases : Release(l) \/ Consume(l) \/ LapseLease(l)
    \/ \E outcome \in [ActiveLeases -> {"expired", "invalidated"}] : RecoverLeases(outcome)
    \/ \E r \in runs : RecordFailure(r) \/ LapseRun(r)
    \/ SetAuthority
    \/ Restart

Spec == Init /\ [][Next]_vars

-----------------------------------------------------------------------------
(* Properties.                                                             *)

\* create admits a dependency graph only if it has no cycle, whatever edges the
\* document has: in no set of tasks does every one wait for another of the set
\* (_reject_cycles).
AdmittedIsAcyclic ==
    \A S \in (SUBSET Tasks) \ {{}} : \E t \in S : \A q \in S : <<q, t>> \notin graph.edges

\* Readiness follows the graph at rest: a task that is past blocked has only
\* succeeded predecessors, and a blocked task still waits for one.  The second
\* half is what every handler's trailing _refresh_dependents is for.
ReadinessFollowsGraph ==
    plan.state # "absent" =>
        \A t \in graph.tasks :
            LET met == \A e \in graph.edges : e[2] = t => task[e[1]].state = "succeeded"
            IN  /\ task[t].state \notin {"blocked", "cancelled"} => met
                /\ task[t].state = "blocked" => ~met

\* A task that requires a human gets past awaiting_human only with a consumed,
\* authenticated approval of an earlier revision of that very task, and a
\* rejected task ends cancelled (decide, consume, tasks_version_fenced).
GatedNeedsHuman ==
    \A t \in graph.gated :
        /\ task[t].state \in {"ready", "running", "cancelling", "succeeded", "failed"} =>
               \E r \in requests : /\ r.task = t /\ r.status = "consumed"
                                   /\ r.session > 0 /\ r.taskRev < task[t].revision
        /\ (\E r \in requests : r.task = t /\ r.status = "rejected") => task[t].state = "cancelled"

\* The plan row says what its tasks add up to after every handler: active as
\* long as a task can move, completed when all succeeded, failed when all ended
\* and one failed, cancelled otherwise (_plan_state).
PlanSummarisesTasks ==
    plan.state # "absent" =>
        /\ plan.state = "active" <=> \E t \in graph.tasks : task[t].state \notin Terminal
        /\ plan.state = "completed" <=> \A t \in graph.tasks : task[t].state = "succeeded"
        /\ plan.state = "failed" => \E t \in Tasks : task[t].state = "failed"
        /\ plan.state = "cancelled" => \A t \in Tasks : task[t].state # "failed"

\* Whatever was decided on one plan revision, at most one of it takes effect:
\* no two of the applied commands, decisive approvals and lease consumptions
\* were bound to the same plan revision.
OneEffectPerRevision ==
    LET applied == {c \in Commands : command[c].status = "applied"}
        used == {r \in requests : r.status \in {"rejected", "consumed"}}
    IN  /\ \A c, d \in applied : command[c].planRev = command[d].planRev => c = d
        /\ \A r, q \in used : r.planRev = q.planRev => r = q
        /\ \A r, q \in runs : r.planRev = q.planRev => r = q
        /\ \A c \in applied :
               command[c].planRev \notin {r.planRev : r \in used} \cup {r.planRev - 1 : r \in runs}
        /\ \A r \in used : r.planRev \notin {q.planRev - 1 : q \in runs}

\* At most one lease of a task is active, and it is the newest one: its
\* generation and recovery generation are those of the task's fence, so a
\* holder that outlived its lease is fenced off (acquire, recover).
OneLeaseHolder ==
    \A l \in leases : l.state = "active" =>
        /\ l.generation = fence[l.task].generation /\ l.recovery = fence[l.task].recovery
        /\ \A q \in leases : q.task = l.task /\ q.state = "active" => q = l

\* A running task has the receipt of exactly one lease consumption, of that
\* very revision, and no lease is left active for it: starting a task uses its
\* lease up in the same transaction (OrchestrationLeaseService.consume).
RunningHasOneReceipt ==
    \A t \in Tasks : task[t].state = "running" =>
        /\ Cardinality({r \in runs : r.task = t /\ r.taskRev = task[t].revision}) = 1
        /\ \A l \in leases : l.task = t => l.state # "active"

\* docs/contracts/orchestration-plan-graph-v1.md: "Startup recovery changes
\* running and cancelling tasks to failed, recomputes dependents, and increments
\* revisions": no trigger may refuse the refresh recovery ends with.
RecoveryNeverRefused ==
    plan.state = "active" /\ Interrupted # {} => TriggerAccepts(Failed(Interrupted))
=============================================================================
