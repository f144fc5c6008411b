------------------------ MODULE WorkflowTasksProofs ------------------------
(***************************************************************************)
(* What WorkflowTasks promises, for any workflows, tasks, workers and keys *)
(* and any number of attempts and restarts.                                *)
(***************************************************************************)
EXTENDS WorkflowTasks, TLAPS

\* Every leaf is tried with SMT and then with Zenon, with time to spare on a
\* slow machine.
USE SMTT(20), ZenonT(30)

\* The states transition can reach.
Reached == {"ready", "running", "paused", "completed", "cancelled"}

\* What the two tables of a task agree on.
Agree ==
    \A t \in Tasks : /\ row[t] = "none" <=> life[t].state = "none"
                     /\ life[t].state = "cancelled" => row[t] = "cancelled"
                     /\ row[t] = "cancelled" => life[t].state \in Final

\* A task that was never queued was never touched, one that is leased was attempted,
\* and progress starts from zero.
AttemptsBegin ==
    \A t \in Tasks : /\ life[t].state = "none" => life[t].attempts = 0 /\ life[t].version = 0
                     /\ life[t].state = "leased" => life[t].attempts > 0
                     /\ checkpoint[t].count = 0 => checkpoint[t].progress = 0

\* A parent is of the same workflow, and only queued tasks have one.
ParentsBeside ==
    \A t \in Tasks : parent[t] # NoTask => WorkflowOf[parent[t]] = WorkflowOf[t] /\ row[t] # "none"

\* No worker is ahead of the row it acts on.
NobodyAhead ==
    \A k \in Workers : mine[k].task # NoTask => mine[k].version <= life[mine[k].task].version

\* What runs or is paused was started.
RunningStarted ==
    \A w \in Workflows : workflow[w].status \in {"running", "paused"} => workflow[w].started

\* The inductive invariant.
IInv ==
    /\ RowsAgree /\ AttemptsBegin /\ ParentsBeside /\ NobodyAhead /\ RunningStarted
    /\ NoOrphans /\ ClosedIsSettled /\ ReceiptsAreOutcomes /\ LeaseDiesWithProcess

\* The step takes the lifecycle of t one version further along an edge of the trigger.
Edge(t) ==
    /\ life'[t].version = life[t].version + 1
    /\ \/ life[t].state \in {"queued", "retry_wait"} /\ life'[t].state \in {"leased", "cancelled"}
       \/ life[t].state = "leased" /\ life'[t].state \in {"leased", "retry_wait"} \cup Final

\* So does every step that changes it otherwise than by the clock.
ChangesFenced ==
    \A t \in Tasks : life[t].state # "none" /\ life'[t] # life[t] /\ ~Elapse(t) => Edge(t)

\* What the type invariant says of the rows the steps below compare.
LEMMA Columns ==
    ASSUME RowsAgree
    PROVE  /\ life \in [Tasks -> LifeRow] /\ row \in [Tasks -> {"none", "queued", "cancelled"}]
           /\ parent \in [Tasks -> Tasks \cup {NoTask}]
           /\ mine \in [Workers -> [task : Tasks \cup {NoTask}, version : Nat, token : Nat,
                                    boot : Nat]]
           /\ \A t \in Tasks : life[t].version \in Nat /\ life[t].attempts \in Nat
           /\ \A k \in Workers : /\ mine[k].task \in Tasks \cup {NoTask}
                               /\ mine[k].version \in Nat /\ mine[k].token \in Nat
BY Zenon DEF RowsAgree, TypeOK, LifeRow

\* The states of a lifecycle.
LEMMA States ==
    ASSUME RowsAgree
    PROVE  \A t \in Tasks : life[t].state \in {"none", "queued", "leased", "retry_wait"} \cup Final
BY Zenon DEF RowsAgree, TypeOK, LifeRow

\* Workflows are rows with a status and a version.
LEMMA Flows ==
    ASSUME RowsAgree
    PROVE  workflow \in [Workflows ->
             [status : {"none", "planned", "ready", "running", "paused", "completed", "cancelled"},
              version : Nat, policy : Policies \cup {NoPolicy}, started : BOOLEAN]]
BY Zenon DEF RowsAgree, TypeOK

\* What the two tables of a task agree on.
LEMMA Agreed ==
    ASSUME RowsAgree
    PROVE  \A t \in Tasks :
              /\ row[t] = "none" <=> life[t].state = "none"
              /\ life[t].state = "cancelled" => row[t] = "cancelled"
              /\ row[t] = "cancelled" => life[t].state \in Final
BY Zenon DEF RowsAgree

\* The same for checkpoints and receipts.
LEMMA Checkpoints ==
    ASSUME RowsAgree
    PROVE  /\ checkpoint \in [Tasks -> [count : Nat, progress : 0..MaxProgress]]
           /\ \A t \in Tasks : checkpoint[t].count \in Nat /\ checkpoint[t].progress \in Nat
BY WorkflowAssumption DEF RowsAgree, TypeOK

\* Receipts hold an attempt and what became of it.
LEMMA Receipts ==
    ASSUME RowsAgree
    PROVE  /\ receipt \in [Tasks -> SUBSET [op : {"complete", "fail"}, key : Keys, token : Nat,
                                            result : {"succeeded", "dead_letter", "retry_wait"}]]
           /\ \A t \in Tasks : \A r \in receipt[t] :
                  r.token \in Nat /\ r.result \in {"succeeded", "dead_letter", "retry_wait"}
BY DEF RowsAgree, TypeOK

\* No step leaves a claimable task under a cancelled parent.
LEMMA OrphansStep ==
    ASSUME RowsAgree, ParentsBeside, NoOrphans, [Next]_vars
    PROVE  NoOrphans'
<1> USE DEF ParentsBeside, NoOrphans, Final
<1>1. ASSUME NEW p \in Policies \cup {NoPolicy}, SetAuthority(p)  PROVE NoOrphans'
  BY Zenon, <1>1, Columns, Agreed, WorkflowAssumption DEF SetAuthority
<1>2. ASSUME NEW t \in Tasks, Elapse(t)  PROVE NoOrphans'
  BY Zenon, <1>2, Columns, Agreed, WorkflowAssumption DEF Elapse
<1>3. ASSUME NEW t \in Tasks, CancelTask(t)  PROVE NoOrphans'
  BY <1>3, Columns, Agreed, WorkflowAssumption DEF CancelTask, LiveChildren, CancelledLife
<1>4. ASSUME NEW w \in Workflows, Create(w)  PROVE NoOrphans'
  BY Zenon, <1>4, Columns, Agreed, WorkflowAssumption DEF Create
<1>5. ASSUME NEW w \in Workflows, NEW target \in Reached, Transition(w, target)  PROVE NoOrphans'
  BY <1>5, Columns, Agreed, WorkflowAssumption DEF Transition, Settled, TasksOf,
         QueuedTasks, CancelledLife,
         Targets
<1>6. ASSUME NEW t \in Tasks, NEW p \in Tasks \cup {NoTask}, Enqueue(t, p)  PROVE NoOrphans'
  BY <1>6, Columns, Agreed, WorkflowAssumption DEF Enqueue
<1>7. ASSUME NEW k \in Workers, NEW t \in Tasks, Claim(k, t)  PROVE NoOrphans'
  BY <1>7, Columns, Agreed, WorkflowAssumption DEF Claim, Reply
<1>8. ASSUME NEW k \in Workers, Heartbeat(k)  PROVE NoOrphans'
  BY <1>8, Columns, Agreed, WorkflowAssumption DEF Heartbeat, LeasedTask, Fenced, Reply, Renewed
<1>9. ASSUME NEW k \in Workers, NEW progress \in 0..MaxProgress, Checkpoint(k, progress)
      PROVE NoOrphans'
  BY <1>9, Columns, Agreed, WorkflowAssumption DEF Checkpoint, LeasedTask, Fenced, Reply, Renewed
<1>10. ASSUME NEW k \in Workers, NEW op \in {"complete", "fail"}, NEW key \in Keys,
              Finalize(k, op, key)
      PROVE NoOrphans'
  BY <1>10, Columns, Agreed, WorkflowAssumption DEF Finalize, LeasedTask, Fenced, Reply, Ended,
         Outcome
<1>11. ASSUME NEW k \in Workers, NEW op \in {"complete", "fail"}, NEW key \in Keys,
              ReplayFinalize(k, op, key)
      PROVE NoOrphans'
  BY Zenon, <1>11, Columns, Agreed, WorkflowAssumption DEF ReplayFinalize, Reply
<1>12. ASSUME RecoverStartup  PROVE NoOrphans'
  BY Zenon, <1>12, Columns, Agreed, WorkflowAssumption DEF RecoverStartup, Recovered, Ended
<1>13. ASSUME UNCHANGED vars  PROVE NoOrphans'
  BY Zenon, <1>13 DEF vars
<1> HIDE DEF ParentsBeside, NoOrphans, Final
<1> QED  BY ZenonT(60), <1>1, <1>2, <1>3, <1>4, <1>5, <1>6, <1>7, <1>8, <1>9, <1>10, <1>11, <1>12,
            <1>13 DEF Next, Reached

\* Parents are chosen once, in the workflow of the child.
LEMMA ParentsStep ==
    ASSUME RowsAgree, ParentsBeside, [Next]_vars
    PROVE  ParentsBeside'
<1> USE DEF ParentsBeside
<1>1. ASSUME NEW p \in Policies \cup {NoPolicy}, SetAuthority(p)  PROVE ParentsBeside'
  BY Zenon, <1>1, Columns, Agreed, WorkflowAssumption DEF SetAuthority
<1>2. ASSUME NEW t \in Tasks, Elapse(t)  PROVE ParentsBeside'
  BY Zenon, <1>2, Columns, Agreed, WorkflowAssumption DEF Elapse
<1>3. ASSUME NEW t \in Tasks, CancelTask(t)  PROVE ParentsBeside'
  BY Zenon, <1>3, Columns, Agreed, WorkflowAssumption DEF CancelTask, LiveChildren, CancelledLife
<1>4. ASSUME NEW w \in Workflows, Create(w)  PROVE ParentsBeside'
  BY Zenon, <1>4, Columns, Agreed, WorkflowAssumption DEF Create
<1>5. ASSUME NEW w \in Workflows, NEW target \in Reached, Transition(w, target)
      PROVE ParentsBeside'
  BY Zenon, <1>5, Columns, Agreed, WorkflowAssumption DEF Transition, Settled, TasksOf, QueuedTasks,
      CancelledLife,
         Targets
<1>6. ASSUME NEW t \in Tasks, NEW p \in Tasks \cup {NoTask}, Enqueue(t, p)  PROVE ParentsBeside'
  BY Zenon, <1>6, Columns, Agreed, WorkflowAssumption DEF Enqueue
<1>7. ASSUME NEW k \in Workers, NEW t \in Tasks, Claim(k, t)  PROVE ParentsBeside'
  BY Zenon, <1>7, Columns, Agreed, WorkflowAssumption DEF Claim, Reply
<1>8. ASSUME NEW k \in Workers, Heartbeat(k)  PROVE ParentsBeside'
  BY Zenon, <1>8, Columns, Agreed, WorkflowAssumption DEF Heartbeat, LeasedTask, Fenced, Reply,
      Renewed
<1>9. ASSUME NEW k \in Workers, NEW progress \in 0..MaxProgress, Checkpoint(k, progress)
      PROVE ParentsBeside'
  BY Zenon, <1>9, Columns, Agreed, WorkflowAssumption DEF Checkpoint, LeasedTask, Fenced, Reply,
      Renewed
<1>10. ASSUME NEW k \in Workers, NEW op \in {"complete", "fail"}, NEW key \in Keys,
              Finalize(k, op, key)
      PROVE ParentsBeside'
  BY Zenon, <1>10, Columns, Agreed, WorkflowAssumption DEF Finalize, LeasedTask, Fenced, Reply,
      Ended,
         Outcome
<1>11. ASSUME NEW k \in Workers, NEW op \in {"complete", "fail"}, NEW key \in Keys,
              ReplayFinalize(k, op, key)
      PROVE ParentsBeside'
  BY Zenon, <1>11, Columns, Agreed, WorkflowAssumption DEF ReplayFinalize, Reply
<1>12. ASSUME RecoverStartup  PROVE ParentsBeside'
  BY Zenon, <1>12, Columns, Agreed, WorkflowAssumption DEF RecoverStartup, Recovered, Ended
<1>13. ASSUME UNCHANGED vars  PROVE ParentsBeside'
  BY Zenon, <1>13 DEF vars
<1> HIDE DEF ParentsBeside
<1> QED  BY ZenonT(60), <1>1, <1>2, <1>3, <1>4, <1>5, <1>6, <1>7, <1>8, <1>9, <1>10, <1>11, <1>12,
            <1>13 DEF Next, Reached

\* No step puts work into a closed workflow.
LEMMA ClosedStep ==
    ASSUME RowsAgree, ClosedIsSettled, [Next]_vars
    PROVE  ClosedIsSettled'
<1> USE DEF ClosedIsSettled, Final, TaskAuthority
<1>1. ASSUME NEW p \in Policies \cup {NoPolicy}, SetAuthority(p)  PROVE ClosedIsSettled'
  BY Zenon, <1>1, Columns, Agreed, WorkflowAssumption DEF SetAuthority
<1>2. ASSUME NEW t \in Tasks, Elapse(t)  PROVE ClosedIsSettled'
  BY <1>2, Columns, Agreed, WorkflowAssumption DEF Elapse
<1>3. ASSUME NEW t \in Tasks, CancelTask(t)  PROVE ClosedIsSettled'
  BY Zenon, <1>3, Columns, Agreed, WorkflowAssumption DEF CancelTask, LiveChildren, CancelledLife
<1>4. ASSUME NEW w \in Workflows, Create(w)  PROVE ClosedIsSettled'
  BY <1>4, Columns, Agreed, WorkflowAssumption DEF Create
<1>5. ASSUME NEW w \in Workflows, NEW target \in Reached, Transition(w, target)
      PROVE ClosedIsSettled'
  BY <1>5, Columns, Agreed, WorkflowAssumption DEF Transition, Settled, TasksOf,
         QueuedTasks, CancelledLife,
         Targets
<1>6. ASSUME NEW t \in Tasks, NEW p \in Tasks \cup {NoTask}, Enqueue(t, p)  PROVE ClosedIsSettled'
  BY Zenon, <1>6, Columns, Agreed, WorkflowAssumption DEF Enqueue
<1>7. ASSUME NEW k \in Workers, NEW t \in Tasks, Claim(k, t)  PROVE ClosedIsSettled'
  BY <1>7, Columns, Agreed, WorkflowAssumption DEF Claim, Reply
<1>8. ASSUME NEW k \in Workers, Heartbeat(k)  PROVE ClosedIsSettled'
  BY <1>8, Columns, Agreed, WorkflowAssumption DEF Heartbeat, LeasedTask, Fenced, Reply, Renewed
<1>9. ASSUME NEW k \in Workers, NEW progress \in 0..MaxProgress, Checkpoint(k, progress)
      PROVE ClosedIsSettled'
  BY <1>9, Columns, Agreed, WorkflowAssumption DEF Checkpoint, LeasedTask, Fenced, Reply, Renewed
<1>10. ASSUME NEW k \in Workers, NEW op \in {"complete", "fail"}, NEW key \in Keys,
              Finalize(k, op, key)
      PROVE ClosedIsSettled'
  BY <1>10, Columns, Agreed, WorkflowAssumption DEF Finalize, LeasedTask, Fenced, Reply, Ended,
         Outcome
<1>11. ASSUME NEW k \in Workers, NEW op \in {"complete", "fail"}, NEW key \in Keys,
              ReplayFinalize(k, op, key)
      PROVE ClosedIsSettled'
  BY Zenon, <1>11, Columns, Agreed, WorkflowAssumption DEF ReplayFinalize, Reply
<1>12. ASSUME RecoverStartup  PROVE ClosedIsSettled'
  BY Zenon, <1>12, Columns, Agreed, WorkflowAssumption DEF RecoverStartup, Recovered, Ended
<1>13. ASSUME UNCHANGED vars  PROVE ClosedIsSettled'
  BY Zenon, <1>13 DEF vars
<1> HIDE DEF ClosedIsSettled, Final, TaskAuthority
<1> QED  BY ZenonT(60), <1>1, <1>2, <1>3, <1>4, <1>5, <1>6, <1>7, <1>8, <1>9, <1>10, <1>11, <1>12,
            <1>13 DEF Next, Reached

\* Attempts are counted from the first lease, progress from the first
\* checkpoint.
LEMMA AttemptsStep ==
    ASSUME RowsAgree, AttemptsBegin, [Next]_vars
    PROVE  AttemptsBegin'
<1> USE DEF AttemptsBegin, Final
<1>1. ASSUME NEW p \in Policies \cup {NoPolicy}, SetAuthority(p)  PROVE AttemptsBegin'
  BY Zenon, <1>1, Columns, Agreed, Checkpoints, WorkflowAssumption DEF SetAuthority
<1>2. ASSUME NEW t \in Tasks, Elapse(t)  PROVE AttemptsBegin'
  BY <1>2, Columns, Agreed, Checkpoints, WorkflowAssumption DEF Elapse
<1>3. ASSUME NEW t \in Tasks, CancelTask(t)  PROVE AttemptsBegin'
  BY Zenon, <1>3, Columns, Agreed, Checkpoints, WorkflowAssumption DEF CancelTask, LiveChildren,
         CancelledLife
<1>4. ASSUME NEW w \in Workflows, Create(w)  PROVE AttemptsBegin'
  BY Zenon, <1>4, Columns, Agreed, Checkpoints, WorkflowAssumption DEF Create
<1>5. ASSUME NEW w \in Workflows, NEW target \in Reached, Transition(w, target)
      PROVE AttemptsBegin'
  BY <1>5, Columns, Agreed, Checkpoints, WorkflowAssumption DEF Transition, Settled, TasksOf,
         QueuedTasks,
         CancelledLife, Targets
<1>6. ASSUME NEW t \in Tasks, NEW p \in Tasks \cup {NoTask}, Enqueue(t, p)  PROVE AttemptsBegin'
  BY Zenon, <1>6, Columns, Agreed, Checkpoints, WorkflowAssumption DEF Enqueue
<1>7. ASSUME NEW k \in Workers, NEW t \in Tasks, Claim(k, t)  PROVE AttemptsBegin'
  BY <1>7, Columns, Agreed, Checkpoints, WorkflowAssumption DEF Claim, Reply
<1>8. ASSUME NEW k \in Workers, Heartbeat(k)  PROVE AttemptsBegin'
  BY <1>8, Columns, Agreed, Checkpoints, WorkflowAssumption DEF Heartbeat, LeasedTask, Fenced,
         Reply, Renewed
<1>9. ASSUME NEW k \in Workers, NEW progress \in 0..MaxProgress, Checkpoint(k, progress)
      PROVE AttemptsBegin'
  BY <1>9, Columns, Agreed, Checkpoints, WorkflowAssumption DEF Checkpoint, LeasedTask, Fenced,
         Reply, Renewed
<1>10. ASSUME NEW k \in Workers, NEW op \in {"complete", "fail"}, NEW key \in Keys,
              Finalize(k, op, key)
      PROVE AttemptsBegin'
  BY <1>10, Columns, Agreed, Checkpoints, WorkflowAssumption DEF Finalize, LeasedTask, Fenced,
         Reply, Ended, Outcome
<1>11. ASSUME NEW k \in Workers, NEW op \in {"complete", "fail"}, NEW key \in Keys,
              ReplayFinalize(k, op, key)
      PROVE AttemptsBegin'
  BY Zenon, <1>11, Columns, Agreed, Checkpoints, WorkflowAssumption DEF ReplayFinalize, Reply
<1>12. ASSUME RecoverStartup  PROVE AttemptsBegin'
  BY Zenon, <1>12, Columns, Agreed, Checkpoints, WorkflowAssumption DEF RecoverStartup, Recovered,
      Ended
<1>13. ASSUME UNCHANGED vars  PROVE AttemptsBegin'
  BY Zenon, <1>13 DEF vars
<1> HIDE DEF AttemptsBegin, Final
<1> QED  BY ZenonT(60), <1>1, <1>2, <1>3, <1>4, <1>5, <1>6, <1>7, <1>8, <1>9, <1>10, <1>11, <1>12,
            <1>13 DEF Next, Reached

\* Versions only grow, so no worker gets ahead of them.
LEMMA AheadStep ==
    ASSUME RowsAgree, AttemptsBegin, NobodyAhead, [Next]_vars
    PROVE  NobodyAhead'
<1> USE DEF NobodyAhead, NoLease
<1>1. ASSUME NEW p \in Policies \cup {NoPolicy}, SetAuthority(p)  PROVE NobodyAhead'
  BY Zenon, <1>1, Columns, Agreed, WorkflowAssumption DEF SetAuthority
<1>2. ASSUME NEW t \in Tasks, Elapse(t)  PROVE NobodyAhead'
  BY <1>2, Columns, Agreed, WorkflowAssumption DEF Elapse
<1>3. ASSUME NEW t \in Tasks, CancelTask(t)  PROVE NobodyAhead'
  BY <1>3, Columns, Agreed, WorkflowAssumption DEF CancelTask, LiveChildren, CancelledLife
<1>4. ASSUME NEW w \in Workflows, Create(w)  PROVE NobodyAhead'
  BY Zenon, <1>4, Columns, Agreed, WorkflowAssumption DEF Create
<1>5. ASSUME NEW w \in Workflows, NEW target \in Reached, Transition(w, target)
      PROVE NobodyAhead'
  BY <1>5, Columns, Agreed, WorkflowAssumption DEF Transition, Settled, TasksOf,
         QueuedTasks, CancelledLife,
         Targets
<1>6. ASSUME NEW t \in Tasks, NEW p \in Tasks \cup {NoTask}, Enqueue(t, p)  PROVE NobodyAhead'
  BY <1>6, Columns, Agreed DEF Enqueue, AttemptsBegin
<1>7. ASSUME NEW k \in Workers, NEW t \in Tasks, Claim(k, t)  PROVE NobodyAhead'
  <2> SUFFICES ASSUME NEW j \in Workers, mine'[j].task # NoTask
               PROVE  mine'[j].version <= life'[mine'[j].task].version
    OBVIOUS
  <2>1. /\ life'[t].version = life[t].version + 1
        /\ \A s \in Tasks : s # t => life'[s] = life[s]
    BY Zenon, <1>7, Columns DEF Claim
  <2>2. mine'[j] = mine[j] \/ (mine'[j].task = t /\ mine'[j].version = life'[t].version)
    BY <1>7, Columns DEF Claim, Reply
  <2> QED  BY <2>1, <2>2, Columns
<1>8. ASSUME NEW k \in Workers, Heartbeat(k)  PROVE NobodyAhead'
  <2> SUFFICES ASSUME NEW j \in Workers, mine'[j].task # NoTask
               PROVE  mine'[j].version <= life'[mine'[j].task].version
    OBVIOUS
  <2>1. /\ mine[k].task \in Tasks /\ life[mine[k].task].version = mine[k].version
        /\ life' = [life EXCEPT ![mine[k].task].version = @ + 1]
    BY Zenon, <1>8, Columns DEF Heartbeat, LeasedTask, Fenced
  <2>2. \/ mine'[j] = mine[j]
        \/ mine'[j].task = mine[k].task /\ mine'[j].version = mine[k].version + 1
    BY Zenon, <1>8, Columns DEF Heartbeat, Reply, Renewed
  <2>3. /\ life'[mine[k].task].version = life[mine[k].task].version + 1
        /\ \A s \in Tasks : s # mine[k].task => life'[s] = life[s]
    BY <2>1, Columns DEF LifeRow
  <2> QED  BY <2>1, <2>2, <2>3, Columns
<1>9. ASSUME NEW k \in Workers, NEW progress \in 0..MaxProgress, Checkpoint(k, progress)
      PROVE NobodyAhead'
  <2> SUFFICES ASSUME NEW j \in Workers, mine'[j].task # NoTask
               PROVE  mine'[j].version <= life'[mine'[j].task].version
    OBVIOUS
  <2>1. /\ mine[k].task \in Tasks /\ life[mine[k].task].version = mine[k].version
        /\ life' = [life EXCEPT ![mine[k].task].version = @ + 1]
    BY Zenon, <1>9, Columns DEF Checkpoint, LeasedTask, Fenced
  <2>2. \/ mine'[j] = mine[j]
        \/ mine'[j].task = mine[k].task /\ mine'[j].version = mine[k].version + 1
    BY <1>9, Columns DEF Checkpoint, Reply, Renewed
  <2>3. /\ life'[mine[k].task].version = life[mine[k].task].version + 1
        /\ \A s \in Tasks : s # mine[k].task => life'[s] = life[s]
    BY <2>1, Columns DEF LifeRow
  <2> QED  BY <2>1, <2>2, <2>3, Columns
<1>10. ASSUME NEW k \in Workers, NEW op \in {"complete", "fail"}, NEW key \in Keys,
              Finalize(k, op, key)
      PROVE NobodyAhead'
  <2> SUFFICES ASSUME NEW j \in Workers, mine'[j].task # NoTask
               PROVE  mine'[j].version <= life'[mine'[j].task].version
    OBVIOUS
  <2>1. /\ mine[k].task \in Tasks
        /\ life'[mine[k].task].version = life[mine[k].task].version + 1
        /\ \A s \in Tasks : s # mine[k].task => life'[s] = life[s]
    BY Zenon, <1>10, Columns DEF Finalize, LeasedTask, Fenced, Ended
  <2>2. mine'[j] = mine[j]
    BY <1>10, Columns DEF Finalize, Reply
  <2> QED  BY <2>1, <2>2, Columns
<1>11. ASSUME NEW k \in Workers, NEW op \in {"complete", "fail"}, NEW key \in Keys,
              ReplayFinalize(k, op, key)
      PROVE NobodyAhead'
  BY <1>11, Columns, Agreed, WorkflowAssumption DEF ReplayFinalize, Reply
<1>12. ASSUME RecoverStartup  PROVE NobodyAhead'
  BY <1>12, Columns, Agreed, WorkflowAssumption DEF RecoverStartup, Recovered, Ended
<1>13. ASSUME UNCHANGED vars  PROVE NobodyAhead'
  BY Zenon, <1>13 DEF vars
<1> HIDE DEF NobodyAhead, NoLease
<1> QED  BY ZenonT(60), <1>1, <1>2, <1>3, <1>4, <1>5, <1>6, <1>7, <1>8, <1>9, <1>10, <1>11, <1>12,
            <1>13 DEF Next, Reached

\* A lease that recovery ended is behind for good.
LEMMA LeaseStep ==
    ASSUME RowsAgree, NobodyAhead, LeaseDiesWithProcess, [Next]_vars
    PROVE  LeaseDiesWithProcess'
<1> USE DEF NobodyAhead, LeaseDiesWithProcess, NoLease, Fenced
<1>1. ASSUME NEW p \in Policies \cup {NoPolicy}, SetAuthority(p)  PROVE LeaseDiesWithProcess'
  BY Zenon, <1>1, Columns, Agreed, WorkflowAssumption DEF SetAuthority
<1>2. ASSUME NEW t \in Tasks, Elapse(t)  PROVE LeaseDiesWithProcess'
  BY <1>2, Columns, Agreed, WorkflowAssumption DEF Elapse
<1>3. ASSUME NEW t \in Tasks, CancelTask(t)  PROVE LeaseDiesWithProcess'
  BY Zenon, <1>3, Columns, Agreed, WorkflowAssumption DEF CancelTask, LiveChildren, CancelledLife
<1>4. ASSUME NEW w \in Workflows, Create(w)  PROVE LeaseDiesWithProcess'
  BY Zenon, <1>4, Columns, Agreed, WorkflowAssumption DEF Create
<1>5. ASSUME NEW w \in Workflows, NEW target \in Reached, Transition(w, target)
      PROVE LeaseDiesWithProcess'
  BY <1>5, Columns, Agreed, WorkflowAssumption DEF Transition, Settled, TasksOf,
         QueuedTasks, CancelledLife,
         Targets
<1>6. ASSUME NEW t \in Tasks, NEW p \in Tasks \cup {NoTask}, Enqueue(t, p)
      PROVE LeaseDiesWithProcess'
  BY Zenon, <1>6, Columns, Agreed, WorkflowAssumption DEF Enqueue
<1>7. ASSUME NEW k \in Workers, NEW t \in Tasks, Claim(k, t)  PROVE LeaseDiesWithProcess'
  BY <1>7, Columns, Agreed, WorkflowAssumption DEF Claim, Reply
<1>8. ASSUME NEW k \in Workers, Heartbeat(k)  PROVE LeaseDiesWithProcess'
  BY <1>8, Columns, Agreed, WorkflowAssumption DEF Heartbeat, LeasedTask, Fenced, Reply, Renewed
<1>9. ASSUME NEW k \in Workers, NEW progress \in 0..MaxProgress, Checkpoint(k, progress)
      PROVE LeaseDiesWithProcess'
  BY <1>9, Columns, Agreed, WorkflowAssumption DEF Checkpoint, LeasedTask, Fenced, Reply, Renewed
<1>10. ASSUME NEW k \in Workers, NEW op \in {"complete", "fail"}, NEW key \in Keys,
              Finalize(k, op, key)
      PROVE LeaseDiesWithProcess'
  <2> SUFFICES ASSUME NEW j \in Workers, Fenced(j)' PROVE mine'[j].boot = boot'
    OBVIOUS
  <2>1. mine'[j] = mine[j] /\ boot' = boot
    BY <1>10, Columns DEF Finalize, Reply
  <2>2. /\ mine[k].task \in Tasks /\ life' = [life EXCEPT ![mine[k].task] =
              Ended(life[mine[k].task], Outcome(op, life[mine[k].task].attempts))]
    BY Zenon, <1>10, Columns DEF Finalize
  <2>3. Ended(life[mine[k].task], Outcome(op, life[mine[k].task].attempts)).state # "leased"
    BY Zenon DEF Ended, Outcome
  <2>4. mine[j].task # mine[k].task
    BY Zenon, <2>1, <2>2, <2>3, Columns
  <2>5. Fenced(j)
    BY Zenon, <2>1, <2>2, <2>4, Columns
  <2> QED  BY Zenon, <2>1, <2>5
<1>11. ASSUME NEW k \in Workers, NEW op \in {"complete", "fail"}, NEW key \in Keys,
              ReplayFinalize(k, op, key)
      PROVE LeaseDiesWithProcess'
  <2> SUFFICES ASSUME NEW j \in Workers, Fenced(j)' PROVE mine'[j].boot = boot'
    OBVIOUS
  <2>1. mine'[j] = mine[j] /\ boot' = boot /\ life' = life
    BY <1>11, Columns DEF ReplayFinalize, Reply
  <2>2. Fenced(j)
    BY Zenon, <2>1
  <2> QED  BY Zenon, <2>1, <2>2
<1>12. ASSUME RecoverStartup  PROVE LeaseDiesWithProcess'
  BY Zenon, <1>12, Columns, Agreed, WorkflowAssumption DEF RecoverStartup, Recovered, Ended
<1>13. ASSUME UNCHANGED vars  PROVE LeaseDiesWithProcess'
  BY Zenon, <1>13 DEF vars
<1> HIDE DEF NobodyAhead, LeaseDiesWithProcess, NoLease, Fenced
<1> QED  BY ZenonT(60), <1>1, <1>2, <1>3, <1>4, <1>5, <1>6, <1>7, <1>8, <1>9, <1>10, <1>11, <1>12,
            <1>13 DEF Next, Reached

\* Receipts keep naming the outcome of their attempt.
LEMMA ReceiptsStep ==
    ASSUME RowsAgree, AttemptsBegin, ReceiptsAreOutcomes, [Next]_vars
    PROVE  ReceiptsAreOutcomes'
<1> USE DEF AttemptsBegin, ReceiptsAreOutcomes, Final
<1>1. ASSUME NEW p \in Policies \cup {NoPolicy}, SetAuthority(p)  PROVE ReceiptsAreOutcomes'
  BY <1>1, Columns, Agreed, Receipts, WorkflowAssumption DEF SetAuthority
<1>2. ASSUME NEW t \in Tasks, Elapse(t)  PROVE ReceiptsAreOutcomes'
  BY <1>2, Columns, Agreed, Receipts, WorkflowAssumption DEF Elapse
<1>3. ASSUME NEW t \in Tasks, CancelTask(t)  PROVE ReceiptsAreOutcomes'
  BY <1>3, Columns, Agreed, Receipts, WorkflowAssumption DEF CancelTask, LiveChildren,
         CancelledLife
<1>4. ASSUME NEW w \in Workflows, Create(w)  PROVE ReceiptsAreOutcomes'
  BY <1>4, Columns, Agreed, Receipts, WorkflowAssumption DEF Create
<1>5. ASSUME NEW w \in Workflows, NEW target \in Reached, Transition(w, target)
      PROVE ReceiptsAreOutcomes'
  BY <1>5, Columns, Agreed, Receipts, WorkflowAssumption DEF Transition, Settled, TasksOf,
         QueuedTasks,
         CancelledLife, Targets
<1>6. ASSUME NEW t \in Tasks, NEW p \in Tasks \cup {NoTask}, Enqueue(t, p)
      PROVE ReceiptsAreOutcomes'
  BY <1>6, Columns, Agreed, Receipts, WorkflowAssumption DEF Enqueue
<1>7. ASSUME NEW k \in Workers, NEW t \in Tasks, Claim(k, t)  PROVE ReceiptsAreOutcomes'
  BY <1>7, Columns, Agreed, Receipts, WorkflowAssumption DEF Claim, Reply
<1>8. ASSUME NEW k \in Workers, Heartbeat(k)  PROVE ReceiptsAreOutcomes'
  BY <1>8, Columns, Agreed, Receipts, WorkflowAssumption DEF Heartbeat, LeasedTask, Fenced, Reply,
         Renewed
<1>9. ASSUME NEW k \in Workers, NEW progress \in 0..MaxProgress, Checkpoint(k, progress)
      PROVE ReceiptsAreOutcomes'
  BY <1>9, Columns, Agreed, Receipts, WorkflowAssumption DEF Checkpoint, LeasedTask, Fenced,
         Reply, Renewed
<1>10. ASSUME NEW k \in Workers, NEW op \in {"complete", "fail"}, NEW key \in Keys,
              Finalize(k, op, key)
      PROVE ReceiptsAreOutcomes'
  BY <1>10, Columns, Agreed, Receipts, WorkflowAssumption DEF Finalize, LeasedTask, Fenced, Reply,
         Ended, Outcome
<1>11. ASSUME NEW k \in Workers, NEW op \in {"complete", "fail"}, NEW key \in Keys,
              ReplayFinalize(k, op, key)
      PROVE ReceiptsAreOutcomes'
  BY <1>11, Columns, Agreed, Receipts, WorkflowAssumption DEF ReplayFinalize, Reply
<1>12. ASSUME RecoverStartup  PROVE ReceiptsAreOutcomes'
  BY <1>12, Columns, Agreed, Receipts, WorkflowAssumption DEF RecoverStartup, Recovered, Ended
<1>13. ASSUME UNCHANGED vars  PROVE ReceiptsAreOutcomes'
  BY Zenon, <1>13 DEF vars
<1> HIDE DEF AttemptsBegin, ReceiptsAreOutcomes, Final
<1> QED  BY ZenonT(60), <1>1, <1>2, <1>3, <1>4, <1>5, <1>6, <1>7, <1>8, <1>9, <1>10, <1>11, <1>12,
            <1>13 DEF Next, Reached

\* Renewing a lease or flipping its readiness leaves a lifecycle row, with the
\* attempts it had.
LEMMA LifeRows ==
    \A l \in LifeRow : /\ [l EXCEPT !.ready = ~l.ready] \in LifeRow
                       /\ [l EXCEPT !.ready = ~l.ready].attempts = l.attempts
                       /\ [l EXCEPT !.version = l.version + 1] \in LifeRow
                       /\ [l EXCEPT !.version = l.version + 1].attempts = l.attempts
<1> SUFFICES ASSUME NEW l \in LifeRow
             PROVE  /\ [l EXCEPT !.ready = ~l.ready] \in LifeRow
                    /\ [l EXCEPT !.ready = ~l.ready].attempts = l.attempts
                    /\ [l EXCEPT !.version = l.version + 1] \in LifeRow
                    /\ [l EXCEPT !.version = l.version + 1].attempts = l.attempts
  BY Zenon
<1>1. /\ [l EXCEPT !.ready = ~l.ready] \in LifeRow
      /\ [l EXCEPT !.ready = ~l.ready].attempts = l.attempts
  BY Zenon DEF LifeRow
<1>2. l.version + 1 \in Nat
  BY DEF LifeRow
<1>3. /\ [l EXCEPT !.version = l.version + 1] \in LifeRow
      /\ [l EXCEPT !.version = l.version + 1].attempts = l.attempts
  BY Zenon, <1>2 DEF LifeRow
<1> QED  BY Zenon, <1>1, <1>3

\* Every step keeps the rows in their columns.
LEMMA TypeStep ==
    ASSUME TypeOK, [Next]_vars
    PROVE  TypeOK'
<1> USE DEF TypeOK, LifeRow, Final, NoLease
<1>1. ASSUME NEW p \in Policies \cup {NoPolicy}, SetAuthority(p)  PROVE TypeOK'
  BY Zenon, <1>1, WorkflowAssumption DEF SetAuthority
<1>2. ASSUME NEW t \in Tasks, Elapse(t)  PROVE TypeOK'
  <2>1. life' = [life EXCEPT ![t] = [life[t] EXCEPT !.ready = ~life[t].ready]]
    BY Zenon, <1>2 DEF Elapse
  <2>2. life' \in [Tasks -> LifeRow] /\ \A s \in Tasks : life'[s].attempts <= MaxAttempts
    <3> HIDE DEF LifeRow
    <3> QED  BY Zenon, <2>1, LifeRows
  <2> QED  BY Zenon, <1>2, <2>2 DEF Elapse
<1>3. ASSUME NEW t \in Tasks, CancelTask(t)  PROVE TypeOK'
  BY <1>3, WorkflowAssumption DEF CancelTask, LiveChildren, CancelledLife
<1>4. ASSUME NEW w \in Workflows, Create(w)  PROVE TypeOK'
  BY Zenon, <1>4, WorkflowAssumption DEF Create
<1>5. ASSUME NEW w \in Workflows, NEW target \in Reached, Transition(w, target)  PROVE TypeOK'
  <2>1. workflow' \in [Workflows ->
          [status : {"none", "planned", "ready", "running", "paused", "completed", "cancelled"},
           version : Nat, policy : Policies \cup {NoPolicy}, started : BOOLEAN]]
    <3>1. \A n \in Nat : n + 1 \in Nat
      BY SMT
    <3>2. workflow[w].version + 1 \in Nat
      BY Zenon, <3>1
    <3> QED  BY Zenon, <1>5, <3>2 DEF Transition, Reached
  <2>2. \A s \in Tasks : CancelledLife(life[s]) \in LifeRow
    BY DEF CancelledLife
  <2>3. /\ row' \in [Tasks -> {"none", "queued", "cancelled"}] /\ life' \in [Tasks -> LifeRow]
        /\ \A s \in Tasks : life'[s].attempts = life[s].attempts
    <3> HIDE DEF LifeRow
    <3> QED  BY <1>5, <2>2 DEF Transition, CancelledLife
  <2> QED  BY Zenon, <1>5, <2>1, <2>3 DEF Transition
<1>6. ASSUME NEW t \in Tasks, NEW p \in Tasks \cup {NoTask}, Enqueue(t, p)  PROVE TypeOK'
  BY <1>6, WorkflowAssumption DEF Enqueue
<1>7. ASSUME NEW k \in Workers, NEW t \in Tasks, Claim(k, t)  PROVE TypeOK'
  <2>1. /\ life' \in [Tasks -> LifeRow] /\ \A s \in Tasks : life'[s].attempts <= MaxAttempts
        /\ life'[t].version \in Nat /\ life'[t].attempts \in Nat
    BY <1>7, WorkflowAssumption DEF Claim
  <2>2. mine' \in [Workers -> [task : Tasks \cup {NoTask}, version : Nat, token : Nat, boot : Nat]]
    BY <1>7, <2>1 DEF Claim, Reply
  <2> QED  BY Zenon, <1>7, <2>1, <2>2 DEF Claim
<1>8. ASSUME NEW k \in Workers, Heartbeat(k)  PROVE TypeOK'
  <2>1. life' \in [Tasks -> LifeRow] /\ \A s \in Tasks : life'[s].attempts <= MaxAttempts
    <3>1. mine[k].task \in Tasks
      BY Zenon, <1>8 DEF Heartbeat, LeasedTask, Fenced
    <3>2. life' = [life EXCEPT ![mine[k].task] =
                     [life[mine[k].task] EXCEPT !.version = life[mine[k].task].version + 1]]
      BY <1>8, Zenon DEF Heartbeat
    <3> HIDE DEF LifeRow
    <3> QED  BY Zenon, <3>1, <3>2, LifeRows
  <2>2. mine' \in [Workers -> [task : Tasks \cup {NoTask}, version : Nat, token : Nat, boot : Nat]]
    <3>0. /\ mine[k] \in [task : Tasks \cup {NoTask}, version : Nat, token : Nat, boot : Nat]
          /\ mine[k].version + 1 \in Nat
      OBVIOUS
    <3>1. Renewed(k) \in [task : Tasks \cup {NoTask}, version : Nat, token : Nat, boot : Nat]
      <4> HIDE DEF TypeOK
      <4> QED  BY ZenonT(60), <3>0 DEF Renewed
    <3> QED  BY Zenon, <1>8, <3>1 DEF Heartbeat, Reply
  <2> QED  BY Zenon, <1>8, <2>1, <2>2 DEF Heartbeat
<1>9. ASSUME NEW k \in Workers, NEW progress \in 0..MaxProgress, Checkpoint(k, progress)
      PROVE TypeOK'
  <2>1. life' \in [Tasks -> LifeRow] /\ \A s \in Tasks : life'[s].attempts <= MaxAttempts
    <3>1. mine[k].task \in Tasks
      BY Zenon, <1>9 DEF Checkpoint, LeasedTask, Fenced
    <3>2. life' = [life EXCEPT ![mine[k].task] =
                     [life[mine[k].task] EXCEPT !.version = life[mine[k].task].version + 1]]
      BY <1>9, Zenon DEF Checkpoint
    <3> HIDE DEF LifeRow
    <3> QED  BY Zenon, <3>1, <3>2, LifeRows
  <2>2. mine' \in [Workers -> [task : Tasks \cup {NoTask}, version : Nat, token : Nat, boot : Nat]]
    <3>0. /\ mine[k] \in [task : Tasks \cup {NoTask}, version : Nat, token : Nat, boot : Nat]
          /\ mine[k].version + 1 \in Nat
      OBVIOUS
    <3>1. Renewed(k) \in [task : Tasks \cup {NoTask}, version : Nat, token : Nat, boot : Nat]
      <4> HIDE DEF TypeOK
      <4> QED  BY ZenonT(60), <3>0 DEF Renewed
    <3> QED  BY Zenon, <1>9, <3>1 DEF Checkpoint, Reply
  <2>3. checkpoint' \in [Tasks -> [count : Nat, progress : 0..MaxProgress]]
    BY <1>9 DEF Checkpoint, LeasedTask, Fenced
  <2> QED  BY Zenon, <1>9, <2>1, <2>2, <2>3 DEF Checkpoint
<1>10. ASSUME NEW k \in Workers, NEW op \in {"complete", "fail"}, NEW key \in Keys,
              Finalize(k, op, key)
      PROVE TypeOK'
  <2>1. mine[k].task \in Tasks /\ mine[k].token \in Nat
    BY Zenon, <1>10 DEF Finalize
  <2>2. Outcome(op, life[mine[k].task].attempts) \in {"succeeded", "dead_letter", "retry_wait"}
    BY Zenon DEF Outcome
  <2>3. life' \in [Tasks -> LifeRow] /\ \A s \in Tasks : life'[s].attempts <= MaxAttempts
    <3>1. Ended(life[mine[k].task], Outcome(op, life[mine[k].task].attempts)) \in LifeRow
      BY <2>1, <2>2 DEF Ended
    <3> HIDE DEF LifeRow
    <3> QED  BY Zenon, <1>10, <2>1, <3>1 DEF Finalize, Ended
  <2>4. mine' \in [Workers -> [task : Tasks \cup {NoTask}, version : Nat, token : Nat, boot : Nat]]
    <3>1. NoLease \in [task : Tasks \cup {NoTask}, version : Nat, token : Nat, boot : Nat]
      OBVIOUS
    <3> HIDE DEF NoLease
    <3> QED  BY Zenon, <1>10, <3>1 DEF Finalize, Reply
  <2>5. receipt' \in [Tasks -> SUBSET [op : {"complete", "fail"}, key : Keys, token : Nat,
                                      result : {"succeeded", "dead_letter", "retry_wait"}]]
    BY <1>10, <2>1, <2>2 DEF Finalize
  <2> QED  BY Zenon, <1>10, <2>3, <2>4, <2>5 DEF Finalize
<1>11. ASSUME NEW k \in Workers, NEW op \in {"complete", "fail"}, NEW key \in Keys,
              ReplayFinalize(k, op, key)
      PROVE TypeOK'
  <2>1. NoLease \in [task : Tasks \cup {NoTask}, version : Nat, token : Nat, boot : Nat]
    BY Zenon
  <2>2. mine' \in [Workers -> [task : Tasks \cup {NoTask}, version : Nat, token : Nat, boot : Nat]]
    <3> HIDE DEF NoLease
    <3> QED  BY Zenon, <1>11, <2>1 DEF ReplayFinalize, Reply
  <2> QED  BY Zenon, <1>11, <2>2 DEF ReplayFinalize
<1>12. ASSUME RecoverStartup  PROVE TypeOK'
  BY <1>12, WorkflowAssumption DEF RecoverStartup, Recovered, Ended
<1>13. ASSUME UNCHANGED vars  PROVE TypeOK'
  BY Zenon, <1>13 DEF vars
<1> HIDE DEF TypeOK, LifeRow, Final, NoLease
<1> QED  BY ZenonT(60), <1>1, <1>2, <1>3, <1>4, <1>5, <1>6, <1>7, <1>8, <1>9, <1>10, <1>11, <1>12,
            <1>13 DEF Next, Reached

\* Every step keeps the two tables of a task in agreement.
LEMMA AgreeStep ==
    ASSUME RowsAgree, [Next]_vars
    PROVE  Agree'
<1> USE DEF Agree, Final
<1>1. ASSUME NEW p \in Policies \cup {NoPolicy}, SetAuthority(p)  PROVE Agree'
  BY Zenon, <1>1, Columns, Agreed, WorkflowAssumption DEF SetAuthority
<1>2. ASSUME NEW t \in Tasks, Elapse(t)  PROVE Agree'
  BY <1>2, Columns, Agreed, WorkflowAssumption DEF Elapse
<1>3. ASSUME NEW t \in Tasks, CancelTask(t)  PROVE Agree'
  BY Zenon, <1>3, Columns, Agreed, WorkflowAssumption DEF CancelTask, LiveChildren, CancelledLife
<1>4. ASSUME NEW w \in Workflows, Create(w)  PROVE Agree'
  BY Zenon, <1>4, Columns, Agreed, WorkflowAssumption DEF Create
<1>5. ASSUME NEW w \in Workflows, NEW target \in Reached, Transition(w, target)  PROVE Agree'
  BY <1>5, Columns, Agreed, WorkflowAssumption DEF Transition, Settled, TasksOf,
         QueuedTasks, CancelledLife,
         Targets
<1>6. ASSUME NEW t \in Tasks, NEW p \in Tasks \cup {NoTask}, Enqueue(t, p)  PROVE Agree'
  BY Zenon, <1>6, Columns, Agreed, WorkflowAssumption DEF Enqueue
<1>7. ASSUME NEW k \in Workers, NEW t \in Tasks, Claim(k, t)  PROVE Agree'
  BY Zenon, <1>7, Columns, Agreed, WorkflowAssumption DEF Claim, Reply
<1>8. ASSUME NEW k \in Workers, Heartbeat(k)  PROVE Agree'
  BY <1>8, Columns, Agreed, WorkflowAssumption DEF Heartbeat, LeasedTask, Fenced, Reply, Renewed
<1>9. ASSUME NEW k \in Workers, NEW progress \in 0..MaxProgress, Checkpoint(k, progress)
      PROVE Agree'
  BY <1>9, Columns, Agreed, WorkflowAssumption DEF Checkpoint, LeasedTask, Fenced, Reply, Renewed
<1>10. ASSUME NEW k \in Workers, NEW op \in {"complete", "fail"}, NEW key \in Keys,
              Finalize(k, op, key)
      PROVE Agree'
  BY <1>10, Columns, Agreed, WorkflowAssumption DEF Finalize, LeasedTask, Fenced, Reply, Ended,
         Outcome
<1>11. ASSUME NEW k \in Workers, NEW op \in {"complete", "fail"}, NEW key \in Keys,
              ReplayFinalize(k, op, key)
      PROVE Agree'
  BY Zenon, <1>11, Columns, Agreed, WorkflowAssumption DEF ReplayFinalize, Reply
<1>12. ASSUME RecoverStartup  PROVE Agree'
  BY Zenon, <1>12, Columns, Agreed, WorkflowAssumption DEF RecoverStartup, Recovered, Ended
<1>13. ASSUME UNCHANGED vars  PROVE Agree'
  BY Zenon, <1>13, Agreed DEF vars
<1> HIDE DEF Agree, Final
<1> QED  BY ZenonT(60), <1>1, <1>2, <1>3, <1>4, <1>5, <1>6, <1>7, <1>8, <1>9, <1>10, <1>11, <1>12,
            <1>13 DEF Next, Reached

\* The trigger on lifecycles accepts every change of a row that a statement makes.
LEMMA ChangeEdges ==
    ASSUME RowsAgree, [Next]_vars
    PROVE  ChangesFenced
<1> USE DEF ChangesFenced, Edge, Final
<1>1. ASSUME NEW p \in Policies \cup {NoPolicy}, SetAuthority(p)  PROVE ChangesFenced
  BY Zenon, <1>1, Columns, Agreed, WorkflowAssumption DEF SetAuthority
<1>2. ASSUME NEW t \in Tasks, Elapse(t)  PROVE ChangesFenced
  BY Zenon, <1>2, Columns DEF Elapse
<1>3. ASSUME NEW t \in Tasks, CancelTask(t)  PROVE ChangesFenced
  BY Zenon, <1>3, Columns, Agreed, States DEF CancelTask, CancelledLife
<1>4. ASSUME NEW w \in Workflows, Create(w)  PROVE ChangesFenced
  BY Zenon, <1>4, Columns, Agreed, WorkflowAssumption DEF Create
<1>5. ASSUME NEW w \in Workflows, NEW target \in Reached, Transition(w, target)
      PROVE ChangesFenced
  BY <1>5, Columns, Agreed, States DEF Transition, TasksOf, QueuedTasks, CancelledLife
<1>6. ASSUME NEW t \in Tasks, NEW p \in Tasks \cup {NoTask}, Enqueue(t, p)  PROVE ChangesFenced
  BY Zenon, <1>6, Columns, Agreed, WorkflowAssumption DEF Enqueue
<1>7. ASSUME NEW k \in Workers, NEW t \in Tasks, Claim(k, t)  PROVE ChangesFenced
  BY Zenon, <1>7, Columns, Agreed, WorkflowAssumption DEF Claim, Reply
<1>8. ASSUME NEW k \in Workers, Heartbeat(k)  PROVE ChangesFenced
  BY <1>8, Columns, Agreed, WorkflowAssumption DEF Heartbeat, LeasedTask, Fenced, Reply, Renewed
<1>9. ASSUME NEW k \in Workers, NEW progress \in 0..MaxProgress, Checkpoint(k, progress)
      PROVE ChangesFenced
  BY <1>9, Columns, Agreed, WorkflowAssumption DEF Checkpoint, LeasedTask, Fenced, Reply, Renewed
<1>10. ASSUME NEW k \in Workers, NEW op \in {"complete", "fail"}, NEW key \in Keys,
              Finalize(k, op, key)
      PROVE ChangesFenced
  BY Zenon, <1>10, Columns, Agreed, WorkflowAssumption DEF Finalize, LeasedTask, Fenced, Reply,
      Ended,
         Outcome
<1>11. ASSUME NEW k \in Workers, NEW op \in {"complete", "fail"}, NEW key \in Keys,
              ReplayFinalize(k, op, key)
      PROVE ChangesFenced
  BY Zenon, <1>11, Columns, Agreed, WorkflowAssumption DEF ReplayFinalize, Reply
<1>12. ASSUME RecoverStartup  PROVE ChangesFenced
  BY Zenon, <1>12, Columns, Agreed, WorkflowAssumption DEF RecoverStartup, Recovered, Ended
<1>13. ASSUME UNCHANGED vars  PROVE ChangesFenced
  BY Zenon, <1>13 DEF vars
<1> HIDE DEF ChangesFenced, Edge, Final
<1> QED  BY ZenonT(60), <1>1, <1>2, <1>3, <1>4, <1>5, <1>6, <1>7, <1>8, <1>9, <1>10, <1>11, <1>12,
            <1>13 DEF Next, Reached

\* It accepts every renewal, which may leave the row as it was but for the version.
LEMMA RenewalEdges ==
    ASSUME RowsAgree, NEW k \in Workers, mine[k].task \in Tasks,
           Heartbeat(k) \/ \E progress \in 0..MaxProgress : Checkpoint(k, progress)
    PROVE  Edge(mine[k].task)
<1>1. /\ life[mine[k].task].state = "leased"
      /\ life' = [life EXCEPT ![mine[k].task].version = @ + 1]
  BY Zenon DEF Heartbeat, Checkpoint, LeasedTask, Fenced
<1> QED  BY <1>1, Columns DEF Edge, LifeRow

\* The trigger on lifecycles accepts every update.
LEMMA LifecycleEdges ==
    ASSUME RowsAgree, [Next]_vars
    PROVE  LifecyclesFenced
<1> SUFFICES ASSUME NEW t \in Tasks, life[t].state # "none", LifecycleUpdated(t)
             PROVE  Edge(t)
  BY Zenon DEF LifecyclesFenced, Edge
<1>1. CASE life'[t] # life[t] /\ ~Elapse(t)
  BY Zenon, <1>1, ChangeEdges DEF ChangesFenced
<1>2. CASE \E k \in Workers : /\ mine[k].task = t
                              /\ \/ Heartbeat(k)
                                 \/ \E progress \in 0..MaxProgress : Checkpoint(k, progress)
  BY Zenon, <1>2, RenewalEdges
<1> QED  BY Zenon, <1>1, <1>2 DEF LifecycleUpdated

\* The triggers on task rows accept every update: a row changes once, and the
\* cancellation of a workflow selects the rows that have not changed yet.
LEMMA RowEdges ==
    ASSUME RowsAgree, [Next]_vars
    PROVE  RowsFenced
<1> DEFINE Kept == \A t \in Tasks : row[t] # "none" =>
                      /\ row'[t] # row[t] => row[t] = "queued" /\ row'[t] = "cancelled"
                      /\ parent'[t] = parent[t]
<1>1. ASSUME NEW p \in Policies \cup {NoPolicy}, SetAuthority(p)  PROVE Kept
  BY Zenon, <1>1, Columns DEF SetAuthority
<1>2. ASSUME NEW u \in Tasks, Elapse(u)  PROVE Kept
  BY Zenon, <1>2, Columns DEF Elapse
<1>3. ASSUME NEW u \in Tasks, CancelTask(u)  PROVE Kept
  BY Zenon, <1>3, Columns DEF CancelTask
<1>4. ASSUME NEW w \in Workflows, Create(w)  PROVE Kept
  BY Zenon, <1>4, Columns DEF Create
<1>5. ASSUME NEW w \in Workflows, NEW target \in Reached, Transition(w, target)  PROVE Kept
  BY Zenon, <1>5, Columns DEF Transition, QueuedTasks
<1>6. ASSUME NEW u \in Tasks, NEW p \in Tasks \cup {NoTask}, Enqueue(u, p)  PROVE Kept
  BY Zenon, <1>6, Columns DEF Enqueue
<1>7. ASSUME NEW k \in Workers, NEW u \in Tasks, Claim(k, u)  PROVE Kept
  BY Zenon, <1>7, Columns DEF Claim
<1>8. ASSUME NEW k \in Workers, Heartbeat(k)  PROVE Kept
  BY Zenon, <1>8, Columns DEF Heartbeat
<1>9. ASSUME NEW k \in Workers, NEW progress \in 0..MaxProgress, Checkpoint(k, progress)
      PROVE Kept
  BY Zenon, <1>9, Columns DEF Checkpoint
<1>10. ASSUME NEW k \in Workers, NEW op \in {"complete", "fail"}, NEW key \in Keys,
              Finalize(k, op, key)
      PROVE Kept
  BY Zenon, <1>10, Columns DEF Finalize
<1>11. ASSUME NEW k \in Workers, NEW op \in {"complete", "fail"}, NEW key \in Keys,
              ReplayFinalize(k, op, key)
      PROVE Kept
  BY Zenon, <1>11, Columns DEF ReplayFinalize
<1>12. ASSUME RecoverStartup  PROVE Kept
  BY Zenon, <1>12, Columns DEF RecoverStartup
<1>13. ASSUME UNCHANGED vars  PROVE Kept
  BY Zenon, <1>13, Columns DEF vars
<1> HIDE DEF Kept
<1>14. Kept
  BY ZenonT(60), <1>1, <1>2, <1>3, <1>4, <1>5, <1>6, <1>7, <1>8, <1>9, <1>10, <1>11, <1>12, <1>13
     DEF Next, Reached
<1>15. ASSUME NEW t \in Tasks, CancelTask(t)  PROVE row[t] = "queued" /\ row'[t] = "cancelled"
  BY Zenon, <1>15, Columns DEF CancelTask
<1>16. ASSUME NEW t \in Tasks, NEW w \in Workflows, Transition(w, "cancelled"), t \in QueuedTasks(w)
       PROVE  row[t] = "queued" /\ row'[t] = "cancelled"
  BY Zenon, <1>16 DEF Transition, QueuedTasks
<1> QED  BY Zenon, <1>14, <1>15, <1>16 DEF Kept, RowsFenced, RowUpdated

\* What runs or is paused stays started.
LEMMA StartedStep ==
    ASSUME RowsAgree, RunningStarted, [Next]_vars
    PROVE  RunningStarted'
<1> USE DEF RunningStarted, Targets
<1>1. ASSUME NEW p \in Policies \cup {NoPolicy}, SetAuthority(p)  PROVE RunningStarted'
  BY Zenon, <1>1, Flows DEF SetAuthority
<1>2. ASSUME NEW t \in Tasks, Elapse(t)  PROVE RunningStarted'
  BY Zenon, <1>2, Flows DEF Elapse
<1>3. ASSUME NEW t \in Tasks, CancelTask(t)  PROVE RunningStarted'
  BY Zenon, <1>3, Flows DEF CancelTask, LiveChildren, CancelledLife
<1>4. ASSUME NEW w \in Workflows, Create(w)  PROVE RunningStarted'
  BY Zenon, <1>4, Flows DEF Create
<1>5. ASSUME NEW w \in Workflows, NEW target \in Reached, Transition(w, target)
      PROVE RunningStarted'
  BY Zenon, <1>5, Flows DEF Transition, Settled, TasksOf, QueuedTasks, CancelledLife, Targets
<1>6. ASSUME NEW t \in Tasks, NEW p \in Tasks \cup {NoTask}, Enqueue(t, p)  PROVE RunningStarted'
  BY Zenon, <1>6, Flows DEF Enqueue
<1>7. ASSUME NEW k \in Workers, NEW t \in Tasks, Claim(k, t)  PROVE RunningStarted'
  BY Zenon, <1>7, Flows DEF Claim, Reply
<1>8. ASSUME NEW k \in Workers, Heartbeat(k)  PROVE RunningStarted'
  BY Zenon, <1>8, Flows DEF Heartbeat, LeasedTask, Fenced, Reply, Renewed
<1>9. ASSUME NEW k \in Workers, NEW progress \in 0..MaxProgress, Checkpoint(k, progress)
      PROVE RunningStarted'
  BY Zenon, <1>9, Flows DEF Checkpoint, LeasedTask, Fenced, Reply, Renewed
<1>10. ASSUME NEW k \in Workers, NEW op \in {"complete", "fail"}, NEW key \in Keys,
              Finalize(k, op, key)
      PROVE RunningStarted'
  BY Zenon, <1>10, Flows DEF Finalize, LeasedTask, Fenced, Reply, Ended, Outcome
<1>11. ASSUME NEW k \in Workers, NEW op \in {"complete", "fail"}, NEW key \in Keys,
              ReplayFinalize(k, op, key)
      PROVE RunningStarted'
  BY Zenon, <1>11, Flows DEF ReplayFinalize, Reply
<1>12. ASSUME RecoverStartup  PROVE RunningStarted'
  BY Zenon, <1>12, Flows DEF RecoverStartup, Recovered, Ended
<1>13. ASSUME UNCHANGED vars  PROVE RunningStarted'
  BY Zenon, <1>13 DEF vars
<1> HIDE DEF RunningStarted, Targets
<1> QED  BY ZenonT(60), <1>1, <1>2, <1>3, <1>4, <1>5, <1>6, <1>7, <1>8, <1>9, <1>10, <1>11, <1>12,
            <1>13 DEF Next, Reached

\* The trigger on workflows accepts every step.
LEMMA WorkflowEdges ==
    ASSUME RowsAgree, RunningStarted, [Next]_vars
    PROVE  WorkflowsFenced
<1> USE DEF WorkflowsFenced, RunningStarted, Targets
<1>1. ASSUME NEW p \in Policies \cup {NoPolicy}, SetAuthority(p)  PROVE WorkflowsFenced
  BY Zenon, <1>1, Flows DEF SetAuthority
<1>2. ASSUME NEW t \in Tasks, Elapse(t)  PROVE WorkflowsFenced
  BY Zenon, <1>2, Flows DEF Elapse
<1>3. ASSUME NEW t \in Tasks, CancelTask(t)  PROVE WorkflowsFenced
  BY Zenon, <1>3, Flows DEF CancelTask, LiveChildren, CancelledLife
<1>4. ASSUME NEW w \in Workflows, Create(w)  PROVE WorkflowsFenced
  BY Zenon, <1>4, Flows DEF Create
<1>5. ASSUME NEW w \in Workflows, NEW target \in Reached, Transition(w, target)
      PROVE WorkflowsFenced
  BY Zenon, <1>5, Flows DEF Transition, Settled, TasksOf, QueuedTasks, CancelledLife, Targets
<1>6. ASSUME NEW t \in Tasks, NEW p \in Tasks \cup {NoTask}, Enqueue(t, p)  PROVE WorkflowsFenced
  BY Zenon, <1>6, Flows DEF Enqueue
<1>7. ASSUME NEW k \in Workers, NEW t \in Tasks, Claim(k, t)  PROVE WorkflowsFenced
  BY Zenon, <1>7, Flows DEF Claim, Reply
<1>8. ASSUME NEW k \in Workers, Heartbeat(k)  PROVE WorkflowsFenced
  BY Zenon, <1>8, Flows DEF Heartbeat, LeasedTask, Fenced, Reply, Renewed
<1>9. ASSUME NEW k \in Workers, NEW progress \in 0..MaxProgress, Checkpoint(k, progress)
      PROVE WorkflowsFenced
  BY Zenon, <1>9, Flows DEF Checkpoint, LeasedTask, Fenced, Reply, Renewed
<1>10. ASSUME NEW k \in Workers, NEW op \in {"complete", "fail"}, NEW key \in Keys,
              Finalize(k, op, key)
      PROVE WorkflowsFenced
  BY Zenon, <1>10, Flows DEF Finalize, LeasedTask, Fenced, Reply, Ended, Outcome
<1>11. ASSUME NEW k \in Workers, NEW op \in {"complete", "fail"}, NEW key \in Keys,
              ReplayFinalize(k, op, key)
      PROVE WorkflowsFenced
  BY Zenon, <1>11, Flows DEF ReplayFinalize, Reply
<1>12. ASSUME RecoverStartup  PROVE WorkflowsFenced
  BY Zenon, <1>12, Flows DEF RecoverStartup, Recovered, Ended
<1>13. ASSUME UNCHANGED vars  PROVE WorkflowsFenced
  BY Zenon, <1>13 DEF vars
<1> HIDE DEF WorkflowsFenced, RunningStarted, Targets
<1> QED  BY ZenonT(60), <1>1, <1>2, <1>3, <1>4, <1>5, <1>6, <1>7, <1>8, <1>9, <1>10, <1>11, <1>12,
            <1>13 DEF Next, Reached

\* Checkpoints are appended, with progress that does not decrease.
LEMMA CheckpointEdges ==
    ASSUME RowsAgree, AttemptsBegin, [Next]_vars
    PROVE  CheckpointsAppended
<1> USE DEF CheckpointsAppended, AttemptsBegin
<1>1. ASSUME NEW p \in Policies \cup {NoPolicy}, SetAuthority(p)  PROVE CheckpointsAppended
  BY <1>1, Columns, Checkpoints DEF SetAuthority
<1>2. ASSUME NEW t \in Tasks, Elapse(t)  PROVE CheckpointsAppended
  BY <1>2, Columns, Checkpoints DEF Elapse
<1>3. ASSUME NEW t \in Tasks, CancelTask(t)  PROVE CheckpointsAppended
  BY <1>3, Columns, Checkpoints DEF CancelTask, LiveChildren, CancelledLife
<1>4. ASSUME NEW w \in Workflows, Create(w)  PROVE CheckpointsAppended
  BY <1>4, Columns, Checkpoints DEF Create
<1>5. ASSUME NEW w \in Workflows, NEW target \in Reached, Transition(w, target)
      PROVE CheckpointsAppended
  BY <1>5, Columns, Checkpoints DEF Transition, Settled, TasksOf,
         QueuedTasks, CancelledLife, Targets
<1>6. ASSUME NEW t \in Tasks, NEW p \in Tasks \cup {NoTask}, Enqueue(t, p)
      PROVE CheckpointsAppended
  BY <1>6, Columns, Checkpoints DEF Enqueue
<1>7. ASSUME NEW k \in Workers, NEW t \in Tasks, Claim(k, t)  PROVE CheckpointsAppended
  BY <1>7, Columns, Checkpoints DEF Claim, Reply
<1>8. ASSUME NEW k \in Workers, Heartbeat(k)  PROVE CheckpointsAppended
  BY <1>8, Columns, Checkpoints DEF Heartbeat, LeasedTask, Fenced, Reply, Renewed
<1>9. ASSUME NEW k \in Workers, NEW progress \in 0..MaxProgress, Checkpoint(k, progress)
      PROVE CheckpointsAppended
  BY <1>9, Columns, Checkpoints DEF Checkpoint, LeasedTask, Fenced, Reply, Renewed
<1>10. ASSUME NEW k \in Workers, NEW op \in {"complete", "fail"}, NEW key \in Keys,
              Finalize(k, op, key)
      PROVE CheckpointsAppended
  BY <1>10, Columns, Checkpoints DEF Finalize, LeasedTask, Fenced, Reply, Ended, Outcome
<1>11. ASSUME NEW k \in Workers, NEW op \in {"complete", "fail"}, NEW key \in Keys,
              ReplayFinalize(k, op, key)
      PROVE CheckpointsAppended
  BY <1>11, Columns, Checkpoints DEF ReplayFinalize, Reply
<1>12. ASSUME RecoverStartup  PROVE CheckpointsAppended
  BY <1>12, Columns, Checkpoints DEF RecoverStartup, Recovered, Ended
<1>13. ASSUME UNCHANGED vars  PROVE CheckpointsAppended
  BY <1>13, Checkpoints DEF vars
<1> HIDE DEF CheckpointsAppended, AttemptsBegin
<1> QED  BY ZenonT(60), <1>1, <1>2, <1>3, <1>4, <1>5, <1>6, <1>7, <1>8, <1>9, <1>10, <1>11, <1>12,
            <1>13 DEF Next, Reached

\* Nothing exists at first.
LEMMA InitInv == Init => IInv
<1> SUFFICES ASSUME Init PROVE IInv
  OBVIOUS
<1>1. NoLease \in [task : Tasks \cup {NoTask}, version : Nat, token : Nat, boot : Nat]
  BY Zenon DEF NoLease
<1>2. [state |-> "none", version |-> 0, attempts |-> 0, ready |-> FALSE] \in LifeRow
  BY Zenon DEF LifeRow
<1>3. \A t \in Tasks : life[t] = [state |-> "none", version |-> 0, attempts |-> 0, ready |-> FALSE]
  BY Zenon DEF Init
<1>4. mine \in [Workers -> [task : Tasks \cup {NoTask}, version : Nat, token : Nat, boot : Nat]]
  BY Zenon, <1>1 DEF Init
<1>5. life \in [Tasks -> LifeRow]
  BY Zenon, <1>2 DEF Init
<1>6. TypeOK
  BY <1>3, <1>4, <1>5, WorkflowAssumption DEF Init, TypeOK
<1>7. RowsAgree
  BY Zenon, <1>3, <1>6 DEF Init, RowsAgree
<1>8. AttemptsBegin /\ ParentsBeside /\ NobodyAhead /\ RunningStarted /\ NoOrphans
  BY Zenon, <1>3 DEF Init, AttemptsBegin, ParentsBeside, NobodyAhead, NoLease, RunningStarted,
      NoOrphans
<1>9. ClosedIsSettled /\ ReceiptsAreOutcomes /\ LeaseDiesWithProcess
  BY Zenon, <1>3 DEF Init, ClosedIsSettled, ReceiptsAreOutcomes, LeaseDiesWithProcess, Fenced,
      NoLease
<1> QED  BY Zenon, <1>7, <1>8, <1>9 DEF IInv

\* The conjunction of the invariants above is an invariant.
THEOREM WorkflowInductive == Spec => []IInv
<1>1. ASSUME IInv, [Next]_vars PROVE IInv'
  <2>1. RowsAgree'
    BY Zenon, <1>1, TypeStep, AgreeStep DEF IInv, RowsAgree, Agree
  <2> QED  BY Zenon, <1>1, <2>1, AttemptsStep, ParentsStep, AheadStep, StartedStep,
               OrphansStep, ClosedStep, ReceiptsStep, LeaseStep DEF IInv
<1> QED  BY InitInv, <1>1, PTL DEF Spec

\* The two tables of a task agree, whoever queues, claims and cancels.
THEOREM TablesAgree == Spec => []RowsAgree
<1>1. IInv => RowsAgree
  BY Zenon DEF IInv
<1> QED  BY WorkflowInductive, <1>1, PTL

\* No claimable task has a cancelled parent.
THEOREM NeverOrphaned == Spec => []NoOrphans
<1>1. IInv => NoOrphans
  BY Zenon DEF IInv
<1> QED  BY WorkflowInductive, <1>1, PTL

\* A completed or cancelled workflow has nothing left to do.
THEOREM ClosedForGood == Spec => []ClosedIsSettled
<1>1. IInv => ClosedIsSettled
  BY Zenon DEF IInv
<1> QED  BY WorkflowInductive, <1>1, PTL

\* An attempt ends at most once, as its receipt says, whatever replies are lost
\* and whichever finalizations are replayed.
THEOREM EndsOnce == Spec => []ReceiptsAreOutcomes
<1>1. IInv => ReceiptsAreOutcomes
  BY Zenon DEF IInv
<1> QED  BY WorkflowInductive, <1>1, PTL

\* No lease is honoured in a process lifetime other than the one that granted it.
THEOREM LeasesDie == Spec => []LeaseDiesWithProcess
<1>1. IInv => LeaseDiesWithProcess
  BY Zenon DEF IInv
<1> QED  BY WorkflowInductive, <1>1, PTL

\* The triggers of the database never abort a handler: not an update that leaves a row
\* as it was, not a renewal, and not the cancellation of a workflow that has cancelled
\* tasks already.
THEOREM NeverAborted == Spec => TriggersAccept
<1>1. ASSUME IInv, [Next]_vars
      PROVE  [LifecyclesFenced /\ RowsFenced /\ WorkflowsFenced /\ CheckpointsAppended]_vars
  BY Zenon, <1>1, LifecycleEdges, RowEdges, WorkflowEdges, CheckpointEdges DEF IInv
<1> QED  BY WorkflowInductive, <1>1, PTL DEF Spec, TriggersAccept
=============================================================================
