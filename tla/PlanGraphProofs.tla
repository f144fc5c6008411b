--------------------------- MODULE PlanGraphProofs --------------------------
(* Safety of PlanGraph for any set of tasks, plan documents and commands,  *)
(* and any number of leases, restarts and revisions.                       *)
EXTENDS PlanGraph, FiniteSetTheorems, WellFoundedInduction, TLAPS

\* Every leaf is tried with SMT and then with Zenon, with time to spare on a
\* slow machine.
USE SMTT(20), ZenonT(30)

-----------------------------------------------------------------------------
(* The graph a plan is admitted with.                                      *)

\* A set of numbers that is not empty has a least one.
LEMMA LeastNumber ==
    ASSUME NEW T \in SUBSET Nat, T # {}
    PROVE  \E n \in T : \A m \in T : n <= m
<1>1. \E n \in T : \A m \in T : ~(<<m, n>> \in OpToRel(<, Nat))
  BY NatLessThanWellFounded, WFMin, Zenon
<1>2. PICK n \in T : \A m \in T : ~(<<m, n>> \in OpToRel(<, Nat))
  BY Zenon, <1>1
<1>3. ASSUME NEW m \in T PROVE n <= m
  <2>1. m \in Nat /\ n \in Nat
    OBVIOUS
  <2>2. ~(m < n)
    BY Zenon, <1>2, <2>1 DEF OpToRel
  <2> QED  BY <2>1, <2>2
<1> QED  BY Zenon, <1>2, <1>3

\* The rounds of Kahn's algorithm, up to the n-th.
Rounds(E, n, f) ==
    f = [k \in 0..n |-> IF k = 0 THEN Tasks
                        ELSE {t \in f[k - 1] : Predecessors(E, t) \cap f[k - 1] # {}}]

LEMMA RoundsExist ==
    ASSUME NEW E, NEW N \in Nat
    PROVE  \E f : Rounds(E, N, f)
<1> DEFINE T == {n \in Nat : ~\E f : Rounds(E, n, f)}
<1> SUFFICES ASSUME T # {} PROVE FALSE
  BY Zenon
<1>1. PICK n \in T : \A m \in T : n <= m
  BY Zenon, LeastNumber
<1>2. n \in Nat /\ ~\E f : Rounds(E, n, f)
  BY Zenon, <1>1
<1>3. n # 0
  <2>1. Rounds(E, 0, [k \in 0..0 |-> Tasks])
    BY DEF Rounds
  <2> QED  BY Zenon, <1>2, <2>1
<1>4. PICK g : Rounds(E, n - 1, g)
  <2>1. n - 1 \in Nat /\ ~(n <= n - 1)
    BY <1>2, <1>3
  <2>2. n - 1 \notin T
    BY Zenon, <1>1, <2>1
  <2> QED  BY Zenon, <2>1, <2>2
<1> DEFINE Peel(k, S) == IF k = 0 THEN Tasks ELSE {t \in S : Predecessors(E, t) \cap S # {}}
           h == [k \in 0..n |-> IF k = n THEN Peel(n, g[n - 1]) ELSE g[k]]
<1>5. ASSUME NEW k \in 0..n PROVE h[k] = Peel(k, h[k - 1])
  <2>0. k \in Nat /\ (k # 0 => k - 1 \in 0..n /\ k - 1 # n)
    BY <1>2
  <2>1. CASE k = n
    <3>1. h[k - 1] = g[n - 1]
      BY <1>2, <1>3, <2>1
    <3> QED  BY Zenon, <2>1, <3>1
  <2>2. CASE k # n
    <3>1. k \in 0..(n - 1)
      BY <1>2, <2>2
    <3>2. g[k] = IF k = 0 THEN Tasks
                 ELSE {t \in g[k - 1] : Predecessors(E, t) \cap g[k - 1] # {}}
      BY Zenon, <1>4, <3>1 DEF Rounds
    <3>3. h[k] = g[k]
      BY Zenon, <2>2
    <3>4. k # 0 => h[k - 1] = g[k - 1]
      BY Zenon, <2>0
    <3> QED  BY Zenon, <3>2, <3>3, <3>4
  <2> QED  BY Zenon, <2>1, <2>2
<1>6. Rounds(E, n, h)
  <2>1. h = [k \in 0..n |-> h[k]]
    BY Zenon
  <2>2. [k \in 0..n |-> h[k]] = [k \in 0..n |-> Peel(k, h[k - 1])]
    BY Zenon, <1>5
  <2> HIDE DEF h
  <2> QED  BY Zenon, <2>1, <2>2 DEF Rounds
<1> QED  BY Zenon, <1>2, <1>6

\* What Unvisited computes is the last of the rounds.
LEMMA UnvisitedIsLastRound ==
    ASSUME NEW E
    PROVE  \E f : Rounds(E, Cardinality(Tasks), f) /\ Unvisited(E) = f[Cardinality(Tasks)]
<1> DEFINE N == Cardinality(Tasks)
           p == CHOOSE f : Rounds(E, N, f)
<1>1. N \in Nat
  BY Zenon, FS_CardinalityType, PlanAssumption
<1> HIDE DEF N
<1>2. Rounds(E, N, p)
  BY Zenon, <1>1, RoundsExist
<1>3. Unvisited(E) = p[N]
  BY Zenon DEF Unvisited, Rounds, N
<1> HIDE DEF p
<1> QED  BY Zenon, <1>2, <1>3 DEF N

\* A set of tasks that wait for each other is never peeled off.
LEMMA CycleStays ==
    ASSUME NEW E, NEW S \in SUBSET Tasks, \A t \in S : \E q \in S : <<q, t>> \in E
    PROVE  S \subseteq Unvisited(E)
<1> DEFINE N == Cardinality(Tasks)
<1>1. N \in Nat
  BY Zenon, FS_CardinalityType, PlanAssumption
<1>2. PICK f : Rounds(E, N, f) /\ Unvisited(E) = f[N]
  BY Zenon, UnvisitedIsLastRound
<1> HIDE DEF N
<1> DEFINE T == {n \in 0..N : ~(S \subseteq f[n])}
<1>3. CASE T = {}
  <2>1. N \in 0..N
    BY <1>1
  <2> QED  BY Zenon, <1>2, <1>3, <2>1
<1>4. CASE T # {}
  <2>1. T \in SUBSET Nat
    OBVIOUS
  <2>2. PICK n \in T : \A m \in T : n <= m
    BY Zenon, <1>4, <2>1, LeastNumber
  <2>3. n \in 0..N /\ ~(S \subseteq f[n])
    BY Zenon, <2>2
  <2>4. f[n] = IF n = 0 THEN Tasks
               ELSE {t \in f[n - 1] : Predecessors(E, t) \cap f[n - 1] # {}}
    BY Zenon, <1>2, <2>3 DEF Rounds
  <2>5. n # 0
    BY Zenon, <2>3, <2>4
  <2>6. n - 1 \in 0..N /\ ~(n <= n - 1)
    BY <1>1, <2>3, <2>5
  <2>7. S \subseteq f[n - 1]
    BY Zenon, <2>2, <2>6
  <2>8. ASSUME NEW t \in S PROVE Predecessors(E, t) \cap f[n - 1] # {}
    <3>1. PICK q \in S : <<q, t>> \in E
      BY Zenon
    <3>2. q \in Predecessors(E, t)
      BY <3>1 DEF Predecessors
    <3> QED  BY Zenon, <2>7, <3>2
  <2>9. S \subseteq f[n]
    BY Zenon, <2>4, <2>5, <2>7, <2>8
  <2> QED  BY Zenon, <2>3, <2>9
<1> QED  BY Zenon, <1>3, <1>4

\* A document that _reject_cycles lets pass has no cycle.
LEMMA AdmittedHasNoCycle ==
    ASSUME NEW E, RejectCycles(E)
    PROVE  \A S \in (SUBSET Tasks) \ {{}} : \E t \in S : \A q \in S : <<q, t>> \notin E
<1>1. ASSUME NEW S \in SUBSET Tasks, S # {}, \A t \in S : \E q \in S : <<q, t>> \in E
      PROVE  FALSE
  <2>1. S \subseteq Unvisited(E)
    BY Zenon, <1>1, CycleStays
  <2> QED  BY Zenon, <1>1, <2>1 DEF RejectCycles
<1>2. ASSUME NEW S \in (SUBSET Tasks) \ {{}}
      PROVE  \E t \in S : \A q \in S : <<q, t>> \notin E
  <2>1. S \in SUBSET Tasks /\ S # {}
    BY Zenon, <1>2
  <2> QED  BY Zenon, <1>1, <2>1
<1> QED  BY Zenon, <1>2

-----------------------------------------------------------------------------
(* The inductive invariant.                                                *)

\* The rows, with the columns the model keeps.
PlanRow == [state : {"absent", "active", "completed", "failed", "cancelled"}, revision : Nat]

TaskRow == [state : TaskStates, revision : Nat]

CommandRow == [status : {"sent", "applied"}, task : Tasks, target : TaskStates,
               taskRev : Nat, planRev : Nat]

RequestRow == [task : Tasks, taskRev : Nat, planRev : Nat, session : Nat, fresh : BOOLEAN,
               status : {"open", "approved", "rejected", "consumed"}]

FenceRow == [generation : Nat, recovery : Nat]

LeaseRow == [task : Tasks, taskRev : Nat, planRev : Nat, generation : Nat, recovery : Nat,
             live : BOOLEAN, state : {"active", "released", "expired", "invalidated"}]

RunRow == [task : Tasks, taskRev : Nat, planRev : Nat, generation : Nat, recovery : Nat,
           live : BOOLEAN]

TypeOK ==
    /\ session \in Nat \ {0}
    /\ graph.tasks \in SUBSET Tasks
    /\ graph.edges \in SUBSET (graph.tasks \X graph.tasks) /\ graph.gated \in SUBSET graph.tasks
    /\ plan \in PlanRow
    /\ task \in [Tasks -> TaskRow]
    /\ command \in [Commands -> CommandRow \cup {NoCommand}]
    /\ requests \in SUBSET RequestRow
    /\ fence \in [Tasks -> FenceRow]
    /\ leases \in SUBSET LeaseRow /\ IsFiniteSet(leases)
    /\ runs \in SUBSET RunRow

\* A task is pending exactly as long as it is in no plan, and before the plan
\* exists nothing refers to it.
Members ==
    /\ \A t \in Tasks : task[t].state = "pending" <=> t \notin graph.tasks
    /\ plan.state # "absent" => graph.tasks # {}
    /\ plan.state = "absent" =>
          /\ graph.tasks = {} /\ requests = {} /\ leases = {} /\ runs = {}
          /\ \A c \in Commands : command[c] = NoCommand

\* Whatever took effect was bound to an earlier revision of the plan.
EffectsArePast ==
    /\ \A c \in Commands : command[c].status = "applied" => command[c].planRev < plan.revision
    /\ \A r \in requests : r.status \in {"rejected", "consumed"} => r.planRev < plan.revision
    /\ \A r \in runs : r.planRev <= plan.revision

\* A lease was taken on the only revision in which its task is ready.
LeasesOfReady ==
    \A l \in leases :
        /\ task[l.task].state \notin {"pending", "blocked", "awaiting_human"}
        /\ task[l.task].state = "ready" => l.taskRev = task[l.task].revision

\* The receipt of a run names a revision its task has reached, and a task that
\* runs has one for the revision it runs in.
ReceiptsOfRuns ==
    /\ \A r \in runs : r.taskRev <= task[r.task].revision
    /\ \A r, q \in runs : r.task = q.task /\ r.taskRev = q.taskRev => r = q
    /\ \A t \in Tasks : task[t].state = "running" =>
           /\ \E r \in runs : r.task = t /\ r.taskRev = task[t].revision
           /\ \A l \in leases : l.task = t => l.state # "active"

\* The inductive invariant.
IInv ==
    /\ TypeOK
    /\ Members
    /\ AdmittedIsAcyclic
    /\ ReadinessFollowsGraph
    /\ PlanSummarisesTasks
    /\ GatedNeedsHuman
    /\ EffectsArePast
    /\ OneEffectPerRevision
    /\ LeasesOfReady
    /\ OneLeaseHolder
    /\ ReceiptsOfRuns

-----------------------------------------------------------------------------
(* How tasks move.                                                         *)

\* All predecessors of a task have succeeded.
Met(tk, t) == \A e \in graph.edges : e[2] = t => tk[e[1]].state = "succeeded"

\* _refresh_dependents blocks exactly the tasks that wait for somebody.
LEMMA DesiredIs ==
    ASSUME NEW tk, NEW t
    PROVE  Desired(tk, t) = IF ~Met(tk, t) THEN "blocked"
                            ELSE IF t \in graph.gated THEN "awaiting_human" ELSE "ready"
<1>1. (\E q \in Predecessors(graph.edges, t) : tk[q].state # "succeeded") <=> ~Met(tk, t)
  BY DEF Predecessors, Met
<1> QED  BY Zenon, <1>1 DEF Desired

\* Met only looks at who has succeeded.
LEMMA MetFollows ==
    ASSUME TypeOK, NEW tk, NEW new, NEW t \in Tasks,
           \A q \in Tasks : tk[q].state = "succeeded" => new[q].state = "succeeded", Met(tk, t)
    PROVE  Met(new, t)
<1>1. \A e \in graph.edges : e[1] \in Tasks
  BY Zenon DEF TypeOK
<1> QED  BY Zenon, <1>1 DEF Met

\* What a refresh that the trigger accepts does.
LEMMA RefreshEffect ==
    ASSUME TypeOK, NEW tk \in [Tasks -> TaskRow], TriggerAccepts(tk), NEW t \in Tasks
    PROVE  LET new == Refreshed(tk)
           IN  /\ \/ new[t] = tk[t]
                  \/ /\ tk[t].state = "blocked" /\ new[t].revision = tk[t].revision + 1
                     /\ new[t].state = IF t \in graph.gated THEN "awaiting_human" ELSE "ready"
               /\ new[t] \in TaskRow
               /\ new[t].state = "blocked" => ~Met(new, t)
               /\ new[t].state \in {"ready", "awaiting_human"} => Met(new, t)
<1> DEFINE new == Refreshed(tk)
           open == {"blocked", "ready", "awaiting_human"}
<1>0. \A q \in Tasks : tk[q] \in TaskRow
  BY Zenon
<1>1. ASSUME NEW q \in Tasks
      PROVE  new[q] = IF tk[q].state \in open /\ Desired(tk, q) # tk[q].state
                      THEN [state |-> Desired(tk, q), revision |-> tk[q].revision + 1]
                      ELSE tk[q]
  BY Zenon DEF Refreshed
<1>2. ASSUME NEW q \in Tasks
      PROVE  /\ new[q].state \in open <=> tk[q].state \in open
             /\ new[q].state \in open => new[q].state = Desired(tk, q)
             /\ tk[q].state \notin open => new[q] = tk[q]
  <2>1. Desired(tk, q) \in open
    BY Zenon DEF Desired
  <2> HIDE DEF new
  <2>2. CASE tk[q].state \in open /\ Desired(tk, q) # tk[q].state
    <3>0. new[q] = [state |-> Desired(tk, q), revision |-> tk[q].revision + 1]
      BY Zenon, <1>1, <2>2
    <3>1. new[q].state = Desired(tk, q)
      BY <3>0
    <3> QED  BY Zenon, <2>1, <2>2, <3>1
  <2>3. CASE ~(tk[q].state \in open /\ Desired(tk, q) # tk[q].state)
    <3>1. new[q] = tk[q]
      BY Zenon, <1>1, <2>3
    <3> QED  BY Zenon, <2>1, <2>3, <3>1
  <2> QED  BY Zenon, <2>2, <2>3
<1>3. \A q \in Tasks : new[q].state = "succeeded" <=> tk[q].state = "succeeded"
  <2> HIDE DEF new
  <2> QED  BY Zenon, <1>2
<1>4. Met(new, t) <=> Met(tk, t)
  BY Zenon, <1>3, MetFollows
<1>5. \A q \in Tasks : tk[q].state # new[q].state =>
          tk[q].state = "blocked" /\ new[q].state \in {"ready", "awaiting_human"}
  BY Zenon DEF TriggerAccepts
<1> HIDE DEF new
<1>6. \/ new[t] = tk[t]
      \/ /\ tk[t].state = "blocked" /\ new[t].revision = tk[t].revision + 1
         /\ new[t].state = IF t \in graph.gated THEN "awaiting_human" ELSE "ready"
  <2>1. CASE tk[t].state \in open /\ Desired(tk, t) # tk[t].state
    <3>0. new[t] = [state |-> Desired(tk, t), revision |-> tk[t].revision + 1]
      BY Zenon, <1>1, <2>1
    <3>1. new[t].state = Desired(tk, t) /\ new[t].revision = tk[t].revision + 1
      BY <3>0
    <3>2. tk[t].state = "blocked" /\ new[t].state # "blocked"
      BY Zenon, <1>5, <2>1, <3>1
    <3> QED  BY Zenon, <3>1, <3>2, DesiredIs
  <2>2. CASE ~(tk[t].state \in open /\ Desired(tk, t) # tk[t].state)
    BY Zenon, <1>1, <2>2
  <2> QED  BY Zenon, <2>1, <2>2
<1>7. new[t] \in TaskRow
  <2>1. Desired(tk, t) \in TaskStates
    BY Zenon DEF Desired, TaskStates
  <2>2. tk[t].revision + 1 \in Nat
    BY <1>0 DEF TaskRow
  <2>3. [state |-> Desired(tk, t), revision |-> tk[t].revision + 1] \in TaskRow
    BY Zenon, <2>1, <2>2 DEF TaskRow
  <2> QED  BY Zenon, <1>0, <1>1, <2>3
<1>8. /\ new[t].state = "blocked" => ~Met(new, t)
      /\ new[t].state \in {"ready", "awaiting_human"} => Met(new, t)
  BY Zenon, <1>2, <1>4, DesiredIs
<1> QED  BY Zenon, <1>6, <1>7, <1>8 DEF new

\* The edges of orchestration_tasks, without the ones only creation takes.
Edges ==
    {<<"blocked", "ready">>, <<"blocked", "awaiting_human">>, <<"blocked", "cancelled">>,
     <<"awaiting_human", "ready">>, <<"awaiting_human", "cancelled">>,
     <<"ready", "running">>, <<"ready", "cancelled">>,
     <<"running", "cancelling">>, <<"running", "succeeded">>, <<"running", "failed">>,
     <<"cancelling", "cancelled">>, <<"cancelling", "failed">>}

\* A row that is kept or takes one edge, with a new revision.
Moves(old, new) ==
    \/ new = old
    \/ new.revision = old.revision + 1 /\ <<old.state, new.state>> \in Edges

\* What a step that changes tasks does to all of them.
Advanced ==
    /\ UNCHANGED graph /\ plan.state = "active"
    /\ plan' = [state |-> PlanState(task'), revision |-> plan.revision + 1]
    /\ task' \in [Tasks -> TaskRow]
    /\ \A t \in Tasks :
          /\ Moves(task[t], task'[t])
          /\ task'[t].state = "blocked" => ~Met(task', t)
          /\ task'[t].state \in {"ready", "awaiting_human"} => Met(task', t)
          /\ task'[t].state = "ready" /\ task[t].state # "ready" /\ t \in graph.gated =>
                \E r \in requests : ConsumeApproval(r) /\ r.task = t
          /\ task'[t].state = "running" /\ task[t].state # "running" =>
                \E l \in leases : Consume(l) /\ l.task = t

\* Steps that end with a refresh.
LEMMA RefreshAdvances ==
    ASSUME TypeOK, NEW tk \in [Tasks -> TaskRow], AdvanceRefreshed(tk),
           UNCHANGED graph, plan.state = "active",
           \A t \in Tasks : tk[t] = task[t] \/
               /\ Moves(task[t], tk[t])
               /\ tk[t].state \in {"cancelling", "cancelled", "succeeded", "failed"}
    PROVE  Advanced
<1>1. task' = Refreshed(tk) /\ TriggerAccepts(tk)
      /\ plan' = [state |-> PlanState(task'), revision |-> plan.revision + 1]
  BY Zenon DEF AdvanceRefreshed, Advance
<1>2. ASSUME NEW t \in Tasks
      PROVE  /\ \/ task'[t] = tk[t]
                \/ /\ tk[t].state = "blocked" /\ task'[t].revision = tk[t].revision + 1
                   /\ task'[t].state = IF t \in graph.gated THEN "awaiting_human" ELSE "ready"
             /\ task'[t] \in TaskRow
             /\ task'[t].state = "blocked" => ~Met(task', t)
             /\ task'[t].state \in {"ready", "awaiting_human"} => Met(task', t)
  BY Zenon, <1>1, RefreshEffect
<1>3. task' \in [Tasks -> TaskRow]
  <2>1. DOMAIN task' = Tasks /\ task' = [t \in Tasks |-> task'[t]]
    BY Zenon, <1>1 DEF Refreshed
  <2> QED  BY Zenon, <1>2, <2>1
<1>4. ASSUME NEW t \in Tasks
      PROVE  /\ Moves(task[t], task'[t])
             /\ task'[t].state = "ready" /\ task[t].state # "ready" => t \notin graph.gated
             /\ task'[t].state = "running" => task[t].state = "running"
  <2>1. CASE task'[t] = tk[t]
    <3>1. CASE tk[t] = task[t]
      BY Zenon, <2>1, <3>1 DEF Moves
    <3>2. CASE /\ Moves(task[t], tk[t])
               /\ tk[t].state \in {"cancelling", "cancelled", "succeeded", "failed"}
      BY Zenon, <2>1, <3>2
    <3> QED  BY Zenon, <3>1, <3>2
  <2>2. CASE /\ tk[t].state = "blocked" /\ task'[t].revision = tk[t].revision + 1
             /\ task'[t].state = IF t \in graph.gated THEN "awaiting_human" ELSE "ready"
    <3>1. tk[t] = task[t]
      BY Zenon, <2>2
    <3> QED  BY Zenon, <2>2, <3>1 DEF Moves, Edges
  <2> QED  BY Zenon, <1>2, <2>1, <2>2
<1> QED  BY Zenon, <1>1, <1>2, <1>3, <1>4 DEF Advanced

\* Steps of one task that end without one: rejection, approval and start.
LEMMA MoveAdvances ==
    ASSUME TypeOK, Members, ReadinessFollowsGraph, NEW b \in Tasks, NEW s,
           Advance(Moved(task, b, s)), UNCHANGED graph, plan.state = "active",
           \/ task[b].state = "awaiting_human" /\ s = "cancelled"
           \/ task[b].state = "awaiting_human" /\ s = "ready"
              /\ \E r \in requests : ConsumeApproval(r) /\ r.task = b
           \/ task[b].state = "ready" /\ s = "running"
              /\ \E l \in leases : Consume(l) /\ l.task = b
    PROVE  Advanced
<1>1. /\ task' = [task EXCEPT ![b] = [state |-> s, revision |-> task[b].revision + 1]]
      /\ plan' = [state |-> PlanState(task'), revision |-> plan.revision + 1]
  BY Zenon DEF Advance, Moved
<1>2. \A t \in Tasks : task[t] \in TaskRow
  BY Zenon DEF TypeOK
<1>3. [state |-> s, revision |-> task[b].revision + 1] \in TaskRow
  <2>1. s \in TaskStates /\ task[b].revision + 1 \in Nat
    BY <1>2 DEF TaskRow, TaskStates, Terminal
  <2> QED  BY Zenon, <2>1 DEF TaskRow
<1>4. task' \in [Tasks -> TaskRow]
  BY Zenon, <1>1, <1>3 DEF TypeOK
<1>5. task'[b] = [state |-> s, revision |-> task[b].revision + 1]
  BY Zenon, <1>1 DEF TypeOK
<1>6. \A t \in Tasks \ {b} : task'[t] = task[t]
  BY Zenon, <1>1 DEF TypeOK
<1>7. task'[b].state = s /\ task'[b].revision = task[b].revision + 1
  BY <1>5
<1>8. \A t \in Tasks : task'[t].state = "succeeded" <=> task[t].state = "succeeded"
  <2>1. s # "succeeded" /\ task[b].state # "succeeded"
    OBVIOUS
  <2> QED  BY Zenon, <1>6, <1>7, <2>1
<1>9. \A t \in Tasks : Met(task', t) <=> Met(task, t)
  BY ZenonT(60), <1>8, MetFollows
<1>10. ASSUME NEW t \in Tasks
       PROVE  /\ task[t].state = "blocked" => ~Met(task, t)
              /\ task[t].state \in {"ready", "awaiting_human"} => Met(task, t)
  <2>1. task[t].state # "pending" => t \in graph.tasks
    BY Zenon DEF Members
  <2> QED  BY Zenon, <2>1 DEF ReadinessFollowsGraph, Met
<1>11. ASSUME NEW t \in Tasks
       PROVE  /\ Moves(task[t], task'[t])
              /\ task'[t].state = "blocked" => ~Met(task', t)
              /\ task'[t].state \in {"ready", "awaiting_human"} => Met(task', t)
              /\ task'[t].state = "ready" /\ task[t].state # "ready" =>
                    \E r \in requests : ConsumeApproval(r) /\ r.task = t
              /\ task'[t].state = "running" /\ task[t].state # "running" =>
                    \E l \in leases : Consume(l) /\ l.task = t
  <2>1. CASE t # b
    BY Zenon, <1>6, <1>9, <1>10, <2>1 DEF Moves
  <2>2. CASE t = b
    <3>1. Moves(task[b], task'[b])
      BY Zenon, <1>7 DEF Moves, Edges
    <3>2. s = "ready" => Met(task', b)
      BY Zenon, <1>9, <1>10
    <3>3. s \in {"cancelled", "ready", "running"}
      OBVIOUS
    <3>4. s = "ready" => \E r \in requests : ConsumeApproval(r) /\ r.task = b
      BY Zenon
    <3>5. s = "running" => \E l \in leases : Consume(l) /\ l.task = b
      BY Zenon
    <3> QED  BY Zenon, <1>7, <2>2, <3>1, <3>2, <3>3, <3>4, <3>5
  <2> QED  BY Zenon, <2>1, <2>2
<1> QED  BY Zenon, <1>1, <1>4, <1>11 DEF Advanced

\* The targets of the general transition service follow the edges and are
\* never open states.
LEMMA TargetsAre ==
    ASSUME NEW s, NEW x \in Targets(s)
    PROVE  <<s, x>> \in Edges /\ x \in {"cancelling", "cancelled", "succeeded", "failed"}
BY Zenon DEF Targets, Edges

\* One task of a running step moves, and the rows keep their type.
LEMMA MovedRows ==
    ASSUME TypeOK, NEW b \in Tasks, NEW s, <<task[b].state, s>> \in Edges,
           s \in {"cancelling", "cancelled", "succeeded", "failed"}
    PROVE  /\ Moved(task, b, s) \in [Tasks -> TaskRow]
           /\ \A t \in Tasks : Moved(task, b, s)[t] = task[t] \/
                  /\ Moves(task[t], Moved(task, b, s)[t])
                  /\ Moved(task, b, s)[t].state
                         \in {"cancelling", "cancelled", "succeeded", "failed"}
<1> DEFINE row == [state |-> s, revision |-> task[b].revision + 1]
           tk == Moved(task, b, s)
<1>1. task[b] \in TaskRow
  BY Zenon DEF TypeOK
<1>2. s \in TaskStates /\ task[b].revision + 1 \in Nat
  BY <1>1 DEF TaskRow, TaskStates, Terminal
<1>3. row \in TaskRow
  BY Zenon, <1>2 DEF TaskRow
<1>4. tk = [task EXCEPT ![b] = row]
  BY Zenon DEF Moved
<1>5. row.state = s /\ row.revision = task[b].revision + 1
  OBVIOUS
<1> HIDE DEF row, tk
<1>6. tk \in [Tasks -> TaskRow]
  BY Zenon, <1>3, <1>4 DEF TypeOK
<1>7. tk[b] = row /\ \A t \in Tasks \ {b} : tk[t] = task[t]
  BY Zenon, <1>4 DEF TypeOK
<1>8. Moves(task[b], row)
  BY Zenon, <1>5 DEF Moves
<1>9. \A t \in Tasks : tk[t] = task[t] \/
          /\ Moves(task[t], tk[t])
          /\ tk[t].state \in {"cancelling", "cancelled", "succeeded", "failed"}
  BY Zenon, <1>5, <1>7, <1>8
<1> QED  BY Zenon, <1>6, <1>9 DEF tk

\* A command that was sent is a full row.
LEMMA SentRow ==
    ASSUME TypeOK, NEW c \in Commands, command[c].status \in {"sent", "applied"}
    PROVE  command[c] \in CommandRow
<1>1. NoCommand.status = "unused"
  BY Zenon DEF NoCommand
<1> QED  BY Zenon, <1>1 DEF TypeOK

\* Every step leaves plan and tasks alone, creates the plan, or advances it.
LEMMA PlanSteps ==
    ASSUME TypeOK, Members, ReadinessFollowsGraph, [Next]_vars
    PROVE  \/ UNCHANGED <<graph, plan, task>>
           \/ \E p \in Plans : CreatePlan(p)
           \/ Advanced
<1>1. ASSUME NEW c \in Commands, Transition(c)
      PROVE  Advanced
  <2>1. command[c] \in CommandRow
    BY Zenon, <1>1, SentRow DEF Transition
  <2>2. command[c].task \in Tasks
    BY Zenon, <2>1 DEF CommandRow
  <2>3. /\ command[c].target \in Targets(task[command[c].task].state)
        /\ AdvanceRefreshed(Moved(task, command[c].task, command[c].target))
        /\ UNCHANGED graph /\ plan.state = "active"
    BY Zenon, <1>1 DEF Transition, Current
  <2> QED  BY ZenonT(60), <2>2, <2>3, TargetsAre, MovedRows, RefreshAdvances
<1>2. ASSUME RecoverPlan
      PROVE  Advanced
  <2> DEFINE tk == Failed(Interrupted)
  <2>1. AdvanceRefreshed(tk) /\ UNCHANGED graph /\ plan.state = "active"
    BY Zenon, <1>2 DEF RecoverPlan
  <2>a. \A t \in Tasks :
            /\ t \in Interrupted =>
                  tk[t] = [state |-> "failed", revision |-> task[t].revision + 1]
            /\ t \notin Interrupted => tk[t] = task[t]
    BY Zenon DEF Failed
  <2>3. tk = [t \in Tasks |-> tk[t]]
    BY Zenon DEF Failed
  <2> HIDE DEF tk
  <2>2. ASSUME NEW t \in Tasks
        PROVE  /\ tk[t] \in TaskRow
               /\ tk[t] = task[t] \/ (Moves(task[t], tk[t]) /\ tk[t].state = "failed")
    <3>0. task[t] \in TaskRow
      BY Zenon DEF TypeOK
    <3>1. CASE t \in Interrupted
      <4>1. tk[t] = [state |-> "failed", revision |-> task[t].revision + 1]
        BY Zenon, <2>a, <3>1
      <4>2. "failed" \in TaskStates /\ task[t].revision + 1 \in Nat
        BY <3>0 DEF TaskRow, TaskStates, Terminal
      <4>a. [state |-> "failed", revision |-> task[t].revision + 1] \in TaskRow
        BY Zenon, <4>2 DEF TaskRow
      <4>3. tk[t] \in TaskRow
        BY Zenon, <4>1, <4>a
      <4>4. task[t].state \in {"running", "cancelling"}
        BY Zenon, <3>1 DEF Interrupted
      <4>5. tk[t].state = "failed" /\ tk[t].revision = task[t].revision + 1
        BY <4>1
      <4>6. <<task[t].state, tk[t].state>> \in Edges
        BY Zenon, <4>4, <4>5 DEF Edges
      <4> QED  BY Zenon, <4>3, <4>5, <4>6 DEF Moves
    <3>2. CASE t \notin Interrupted
      BY Zenon, <2>a, <3>0, <3>2
    <3> QED  BY Zenon, <3>1, <3>2
  <2>4. tk \in [Tasks -> TaskRow]
    BY Zenon, <2>2, <2>3
  <2> QED  BY Zenon, <2>1, <2>2, <2>4, RefreshAdvances
<1>3. ASSUME NEW r \in runs, RecordFailure(r)
      PROVE  Advanced
  <2>1. r.task \in Tasks
    BY Zenon DEF TypeOK, RunRow
  <2>2. /\ AdvanceRefreshed(Moved(task, r.task, "failed"))
        /\ UNCHANGED graph /\ plan.state = "active" /\ task[r.task].state = "running"
    BY Zenon, <1>3 DEF RecordFailure, Current
  <2>3. <<task[r.task].state, "failed">> \in Edges
    BY Zenon, <2>2 DEF Edges
  <2> QED  BY Zenon, <2>1, <2>2, <2>3, MovedRows, RefreshAdvances
<1>4. ASSUME NEW r \in requests, NEW d \in {"approved", "rejected"}, Decide(r, d)
      PROVE  UNCHANGED <<graph, plan, task>> \/ Advanced
  <2>1. r.task \in Tasks
    BY Zenon DEF TypeOK, RequestRow
  <2>2. /\ UNCHANGED graph /\ plan.state = "active" /\ task[r.task].state = "awaiting_human"
        /\ \/ Advance(Moved(task, r.task, "cancelled"))
           \/ UNCHANGED <<plan, task>>
    BY Zenon, <1>4 DEF Decide, Awaiting, Current
  <2>3. CASE Advance(Moved(task, r.task, "cancelled"))
    BY Zenon, <2>1, <2>2, <2>3, MoveAdvances
  <2> QED  BY Zenon, <2>2, <2>3
<1>5. ASSUME NEW r \in requests, ConsumeApproval(r)
      PROVE  Advanced
  <2>1. r.task \in Tasks
    BY Zenon DEF TypeOK, RequestRow
  <2>2. /\ UNCHANGED graph /\ plan.state = "active" /\ task[r.task].state = "awaiting_human"
        /\ Advance(Moved(task, r.task, "ready"))
    BY Zenon, <1>5 DEF ConsumeApproval, Awaiting, Current
  <2> QED  BY Zenon, <1>5, <2>1, <2>2, MoveAdvances
<1>6. ASSUME NEW l \in leases, Consume(l)
      PROVE  Advanced
  <2>1. l.task \in Tasks
    BY Zenon DEF TypeOK, LeaseRow
  <2>2. /\ UNCHANGED graph /\ plan.state = "active" /\ task[l.task].state = "ready"
        /\ Advance(Moved(task, l.task, "running"))
    BY Zenon, <1>6 DEF Consume, Holds, Startable, Current
  <2> QED  BY Zenon, <1>6, <2>1, <2>2, MoveAdvances
<1>7. ASSUME \/ \E c \in Commands, t \in Tasks : \E s \in Targets(task[t].state) : SendCommand(c, t, s)
             \/ \E t \in Tasks, s \in {0, session} : CreateRequest(t, s)
             \/ \E r \in requests : LapseRequest(r)
             \/ \E t \in Tasks : Acquire(t)
             \/ \E l \in leases : Release(l) \/ LapseLease(l)
             \/ \E outcome \in [ActiveLeases -> {"expired", "invalidated"}] : RecoverLeases(outcome)
             \/ \E r \in runs : LapseRun(r)
             \/ SetAuthority
             \/ Restart
             \/ UNCHANGED vars
      PROVE  UNCHANGED <<graph, plan, task>>
  BY Zenon, <1>7 DEF SendCommand, CreateRequest, LapseRequest, Acquire, Release, LapseLease,
      RecoverLeases, LapseRun, SetAuthority, Restart, vars
<1> QED  BY ZenonT(60), <1>1, <1>2, <1>3, <1>4, <1>5, <1>6, <1>7 DEF Next

-----------------------------------------------------------------------------
(* The rows keep their types.                                              *)

\* PlanState never names a plan that does not exist.
LEMMA PlanStateType ==
    ASSUME NEW tk
    PROVE  PlanState(tk) \in {"active", "completed", "failed", "cancelled"}
BY Zenon DEF PlanState

\* Plan and task rows.
LEMMA PlanTypes ==
    ASSUME TypeOK, Members, ReadinessFollowsGraph, [Next]_vars
    PROVE  /\ graph'.tasks \in SUBSET Tasks
           /\ graph'.edges \in SUBSET (graph'.tasks \X graph'.tasks)
           /\ graph'.gated \in SUBSET graph'.tasks
           /\ plan' \in PlanRow /\ task' \in [Tasks -> TaskRow]
<1>1. CASE UNCHANGED <<graph, plan, task>>
  BY Zenon, <1>1 DEF TypeOK
<1>2. ASSUME NEW p \in Plans, CreatePlan(p)
      PROVE  /\ graph' = p /\ p.tasks \in SUBSET Tasks
             /\ p.edges \in SUBSET (p.tasks \X p.tasks) /\ p.gated \in SUBSET p.tasks
             /\ plan' \in PlanRow /\ task' \in [Tasks -> TaskRow]
  <2>1. /\ graph' = p /\ plan' = [state |-> "active", revision |-> 1]
        /\ task' = InitialStates(p)
    BY Zenon, <1>2 DEF CreatePlan
  <2>2. [state |-> "active", revision |-> 1] \in PlanRow
    BY Zenon DEF PlanRow
  <2>3. ASSUME NEW t \in Tasks
        PROVE  InitialStates(p)[t] \in TaskRow
    BY Zenon DEF InitialStates, TaskRow, TaskStates
  <2>4. InitialStates(p) = [t \in Tasks |-> InitialStates(p)[t]]
    BY Zenon DEF InitialStates
  <2>5. InitialStates(p) \in [Tasks -> TaskRow]
    BY Zenon, <2>3, <2>4
  <2>6. /\ p.tasks \in SUBSET Tasks /\ p.edges \in SUBSET (p.tasks \X p.tasks)
        /\ p.gated \in SUBSET p.tasks
    BY Zenon, PlanAssumption
  <2> QED  BY Zenon, <2>1, <2>2, <2>5, <2>6
<1>3. CASE Advanced
  <2>1. /\ UNCHANGED graph /\ task' \in [Tasks -> TaskRow]
        /\ plan' = [state |-> PlanState(task'), revision |-> plan.revision + 1]
    BY Zenon, <1>3 DEF Advanced
  <2>2. plan.revision + 1 \in Nat
    BY DEF TypeOK, PlanRow
  <2>3. PlanState(task') \in {"absent", "active", "completed", "failed", "cancelled"}
    BY Zenon, PlanStateType
  <2>4. [state |-> PlanState(task'), revision |-> plan.revision + 1] \in PlanRow
    BY Zenon, <2>2, <2>3 DEF PlanRow
  <2> QED  BY Zenon, <2>1, <2>4 DEF TypeOK
<1> QED  BY Zenon, <1>1, <1>2, <1>3, PlanSteps

\* Commands.
LEMMA CommandTypes ==
    ASSUME TypeOK, [Next]_vars
    PROVE  command' \in [Commands -> CommandRow \cup {NoCommand}]
<1>1. ASSUME NEW c \in Commands, NEW t \in Tasks, NEW s \in Targets(task[t].state),
             SendCommand(c, t, s)
      PROVE  command' \in [Commands -> CommandRow \cup {NoCommand}]
  <2> DEFINE row == [status |-> "sent", task |-> t, target |-> s,
                     taskRev |-> task[t].revision, planRev |-> plan.revision]
  <2>1. task[t].revision \in Nat /\ plan.revision \in Nat
    BY Zenon DEF TypeOK, TaskRow, PlanRow
  <2>2. s \in TaskStates
    BY Zenon, TargetsAre DEF TaskStates, Terminal
  <2>3. row \in CommandRow
    BY Zenon, <2>1, <2>2 DEF CommandRow
  <2>4. command' = [command EXCEPT ![c] = row]
    BY Zenon, <1>1 DEF SendCommand
  <2> HIDE DEF row
  <2> QED  BY Zenon, <2>3, <2>4 DEF TypeOK
<1>2. ASSUME NEW c \in Commands, Transition(c)
      PROVE  command' \in [Commands -> CommandRow \cup {NoCommand}]
  <2>1. command[c] \in CommandRow
    BY Zenon, <1>2, SentRow DEF Transition
  <2>2. [command[c] EXCEPT !.status = "applied"] \in CommandRow
    BY Zenon, <2>1 DEF CommandRow
  <2>3. command' = [command EXCEPT ![c] = [command[c] EXCEPT !.status = "applied"]]
    BY Zenon, <1>2 DEF Transition
  <2> QED  BY Zenon, <2>2, <2>3 DEF TypeOK
<1>3. CASE UNCHANGED command
  BY Zenon, <1>3 DEF TypeOK
<1>4. \/ UNCHANGED command
      \/ \E c \in Commands, t \in Tasks : \E s \in Targets(task[t].state) : SendCommand(c, t, s)
      \/ \E c \in Commands : Transition(c)
  BY ZenonT(60) DEF Next, CreatePlan, RecoverPlan, CreateRequest, Decide, ConsumeApproval,
      LapseRequest, Acquire, Release, Consume, LapseLease, RecoverLeases, RecordFailure, LapseRun,
      SetAuthority, Restart, vars
<1> QED  BY Zenon, <1>1, <1>2, <1>3, <1>4

\* A decided or consumed request, and one that lapses, keep their binding.
LEMMA ResolvedType ==
    ASSUME TypeOK, NEW r \in requests, NEW s \in {"approved", "rejected", "consumed"}
    PROVE  /\ [r EXCEPT !.status = s] \in RequestRow
           /\ [r EXCEPT !.fresh = FALSE] \in RequestRow
<1>1. r \in RequestRow
  BY Zenon DEF TypeOK
<1> QED  BY Zenon, <1>1 DEF RequestRow

\* How the requests change.
LEMMA RequestSteps ==
    ASSUME [Next]_vars
    PROVE  \/ UNCHANGED requests
           \/ \E t \in Tasks, s \in {0, session} : CreateRequest(t, s)
           \/ \E r \in requests, d \in {"approved", "rejected"} : Decide(r, d)
           \/ \E r \in requests : ConsumeApproval(r)
           \/ \E r \in requests : LapseRequest(r)
BY ZenonT(60) DEF Next, CreatePlan, SendCommand, Transition, RecoverPlan, Acquire, Release,
    Consume, LapseLease, RecoverLeases, RecordFailure, LapseRun, SetAuthority, Restart, vars

\* Requests.
LEMMA RequestTypes ==
    ASSUME TypeOK, [Next]_vars
    PROVE  requests' \in SUBSET RequestRow
<1>1. ASSUME NEW t \in Tasks, NEW s \in {0, session}, CreateRequest(t, s)
      PROVE  requests' \in SUBSET RequestRow
  <2>1. task[t].revision \in Nat /\ plan.revision \in Nat /\ s \in Nat
    BY DEF TypeOK, TaskRow, PlanRow
  <2>2. NewRequest(t, s) \in RequestRow
    BY Zenon, <2>1 DEF NewRequest, RequestRow
  <2>3. requests' = requests \cup {NewRequest(t, s)}
    BY Zenon, <1>1 DEF CreateRequest
  <2> QED  BY Zenon, <2>2, <2>3 DEF TypeOK
<1>2. ASSUME NEW r \in requests, NEW s \in {"approved", "rejected", "consumed"},
             requests' = Resolved(r, s)
      PROVE  requests' \in SUBSET RequestRow
  BY Zenon, <1>2, ResolvedType DEF Resolved, TypeOK
<1>3. ASSUME NEW r \in requests, LapseRequest(r)
      PROVE  requests' \in SUBSET RequestRow
  BY Zenon, <1>3, ResolvedType DEF LapseRequest, TypeOK
<1>4. CASE UNCHANGED requests
  BY Zenon, <1>4 DEF TypeOK
<1> QED  BY Zenon, <1>1, <1>2, <1>3, <1>4, RequestSteps DEF Decide, ConsumeApproval

\* How the leases change.
LEMMA LeaseSteps ==
    ASSUME [Next]_vars
    PROVE  \/ UNCHANGED <<leases, fence>>
           \/ \E t \in Tasks : Acquire(t)
           \/ \E l \in leases : Release(l) \/ Consume(l) \/ LapseLease(l)
           \/ \E outcome \in [ActiveLeases -> {"expired", "invalidated"}] : RecoverLeases(outcome)
BY ZenonT(60) DEF Next, CreatePlan, SendCommand, Transition, RecoverPlan, CreateRequest, Decide,
    ConsumeApproval, LapseRequest, RecordFailure, LapseRun, SetAuthority, Restart, vars

\* A lease keeps its binding when it ends or lapses.
LEMMA EndedType ==
    ASSUME TypeOK, NEW l \in leases, NEW s \in {"released", "expired", "invalidated"}
    PROVE  /\ EndedLease(l, s) \in LeaseRow
           /\ [l EXCEPT !.live = FALSE] \in LeaseRow
<1>1. l \in LeaseRow
  BY Zenon DEF TypeOK
<1>2. [l EXCEPT !.live = FALSE] \in LeaseRow
  BY Zenon, <1>1 DEF LeaseRow
<1>3. EndedLease(l, s) \in LeaseRow
  BY Zenon, <1>1 DEF EndedLease, LeaseRow
<1> QED  BY Zenon, <1>2, <1>3

\* A row that replaces another keeps the set finite.
LEMMA SwapFinite ==
    ASSUME NEW S, IsFiniteSet(S), NEW x, NEW y
    PROVE  IsFiniteSet((S \ {x}) \cup {y})
<1>1. IsFiniteSet(S \ {x})
  BY Zenon, FS_RemoveElement
<1> QED  BY Zenon, <1>1, FS_AddElement

\* Recovery ends every active lease, and has an outcome for each.
LEMMA RecoveredType ==
    ASSUME TypeOK, NEW outcome \in [ActiveLeases -> {"expired", "invalidated"}],
           RecoverLeases(outcome)
    PROVE  /\ leases' \in SUBSET LeaseRow /\ IsFiniteSet(leases')
           /\ fence' \in [Tasks -> FenceRow]
           /\ \A t \in Tasks : fence'[t].generation = fence[t].generation
<1> DEFINE end(l) == IF l \in ActiveLeases THEN EndedLease(l, outcome[l]) ELSE l
           f == [l \in leases |-> end(l)]
           moved(t) == fence[t].recovery + Cardinality({l \in ActiveLeases : l.task = t})
<1>1. leases' = {end(l) : l \in leases}
  BY Zenon DEF RecoverLeases
<1>2. ASSUME NEW l \in leases PROVE end(l) \in LeaseRow
  <2>1. CASE l \in ActiveLeases
    <3>1. outcome[l] \in {"released", "expired", "invalidated"}
      BY Zenon, <2>1
    <3> QED  BY Zenon, <2>1, <3>1, EndedType
  <2>2. CASE l \notin ActiveLeases
    BY Zenon, <2>2 DEF TypeOK
  <2> QED  BY Zenon, <2>1, <2>2
<1>3. IsFiniteSet(leases')
  <2>1. f \in Surjection(leases, leases')
    BY Zenon, <1>1 DEF Surjection
  <2> HIDE DEF f
  <2> QED  BY Zenon, <2>1, FS_Surjection DEF TypeOK
<1>4. ASSUME NEW t \in Tasks
      PROVE  [fence[t] EXCEPT !.recovery = moved(t)] \in FenceRow
  <2>1. {l \in ActiveLeases : l.task = t} \in SUBSET leases
    BY Zenon DEF ActiveLeases
  <2>2. Cardinality({l \in ActiveLeases : l.task = t}) \in Nat
    BY Zenon, <2>1, FS_Subset, FS_CardinalityType DEF TypeOK
  <2>3. fence[t] \in FenceRow
    BY Zenon DEF TypeOK
  <2>4. moved(t) \in Nat
    BY <2>2, <2>3 DEF FenceRow
  <2> HIDE DEF moved
  <2> QED  BY Zenon, <2>3, <2>4 DEF FenceRow
<1>5. fence' = [t \in Tasks |-> [fence[t] EXCEPT !.recovery = moved(t)]]
  BY Zenon DEF RecoverLeases
<1> HIDE DEF moved, end
<1>6. fence' \in [Tasks -> FenceRow]
  BY Zenon, <1>4, <1>5
<1>7. ASSUME NEW t \in Tasks PROVE fence'[t].generation = fence[t].generation
  <2>1. fence'[t] = [fence[t] EXCEPT !.recovery = moved(t)] /\ fence[t] \in FenceRow
    BY Zenon, <1>5 DEF TypeOK
  <2> QED  BY Zenon, <2>1 DEF FenceRow
<1> QED  BY Zenon, <1>1, <1>2, <1>3, <1>6, <1>7

\* Leases and their fences.
LEMMA LeaseTypes ==
    ASSUME TypeOK, [Next]_vars
    PROVE  /\ fence' \in [Tasks -> FenceRow]
           /\ leases' \in SUBSET LeaseRow /\ IsFiniteSet(leases')
<1> DEFINE Goal == /\ fence' \in [Tasks -> FenceRow]
                   /\ leases' \in SUBSET LeaseRow /\ IsFiniteSet(leases')
<1> SUFFICES Goal
  BY Zenon
<1>0. /\ fence \in [Tasks -> FenceRow] /\ leases \in SUBSET LeaseRow /\ IsFiniteSet(leases)
      /\ \A t \in Tasks : fence[t] \in FenceRow
  BY Zenon DEF TypeOK
<1>1. ASSUME NEW t \in Tasks, Acquire(t)
      PROVE  Goal
  <2>1. /\ task[t].revision \in Nat /\ plan.revision \in Nat
        /\ fence[t].generation + 1 \in Nat /\ fence[t].recovery \in Nat
    BY <1>0 DEF TypeOK, TaskRow, PlanRow, FenceRow
  <2>2. NewLease(t) \in LeaseRow
    BY Zenon, <2>1 DEF NewLease, LeaseRow
  <2>3. NewLease(t).generation = fence[t].generation + 1
    BY Zenon DEF NewLease
  <2>4. /\ leases' = leases \cup {NewLease(t)}
        /\ fence' = [fence EXCEPT ![t] = [fence[t] EXCEPT !.generation = NewLease(t).generation]]
    BY Zenon, <1>1 DEF Acquire
  <2>5. [fence[t] EXCEPT !.generation = NewLease(t).generation] \in FenceRow
    BY Zenon, <1>0, <2>1, <2>3 DEF FenceRow
  <2>6. fence' \in [Tasks -> FenceRow]
    BY Zenon, <1>0, <2>4, <2>5
  <2>7. IsFiniteSet(leases')
    BY Zenon, <1>0, <2>4, FS_AddElement
  <2> QED  BY Zenon, <1>0, <2>2, <2>4, <2>6, <2>7
<1>2. ASSUME NEW l \in leases, Release(l) \/ Consume(l)
      PROVE  Goal
  <2>1. leases' = (leases \ {l}) \cup {EndedLease(l, "released")} /\ fence' = fence
    BY Zenon, <1>2 DEF Release, Consume, Ended
  <2> QED  BY Zenon, <1>0, <2>1, EndedType, SwapFinite
<1>3. ASSUME NEW l \in leases, LapseLease(l)
      PROVE  Goal
  <2>1. leases' = (leases \ {l}) \cup {[l EXCEPT !.live = FALSE]} /\ fence' = fence
    BY Zenon, <1>3 DEF LapseLease
  <2> QED  BY Zenon, <1>0, <2>1, EndedType, SwapFinite
<1>4. ASSUME NEW outcome \in [ActiveLeases -> {"expired", "invalidated"}], RecoverLeases(outcome)
      PROVE  Goal
  BY Zenon, <1>4, RecoveredType
<1>5. CASE UNCHANGED <<leases, fence>>
  BY Zenon, <1>0, <1>5
<1> HIDE DEF Goal
<1> QED  BY Zenon, <1>1, <1>2, <1>3, <1>4, <1>5, LeaseSteps

\* How the receipts change.
LEMMA RunSteps ==
    ASSUME [Next]_vars
    PROVE  \/ UNCHANGED runs
           \/ \E l \in leases : Consume(l)
           \/ \E r \in runs : LapseRun(r)
BY ZenonT(60) DEF Next, CreatePlan, SendCommand, Transition, RecoverPlan, CreateRequest, Decide,
    ConsumeApproval, LapseRequest, Acquire, Release, LapseLease, RecoverLeases, RecordFailure,
    SetAuthority, Restart, vars

\* Receipts.
LEMMA RunTypes ==
    ASSUME TypeOK, [Next]_vars
    PROVE  runs' \in SUBSET RunRow
<1>1. ASSUME NEW l \in leases, Consume(l)
      PROVE  runs' \in SUBSET RunRow
  <2>1. l \in LeaseRow
    BY Zenon DEF TypeOK
  <2>2. Receipt(l) \in RunRow
    BY <2>1 DEF Receipt, LeaseRow, RunRow
  <2> QED  BY Zenon, <1>1, <2>2 DEF Consume, TypeOK
<1>2. ASSUME NEW r \in runs, LapseRun(r)
      PROVE  runs' \in SUBSET RunRow
  <2>1. r \in RunRow
    BY Zenon DEF TypeOK
  <2>2. [r EXCEPT !.live = FALSE] \in RunRow
    BY Zenon, <2>1 DEF RunRow
  <2> QED  BY Zenon, <1>2, <2>2 DEF LapseRun, TypeOK
<1>3. CASE UNCHANGED runs
  BY Zenon, <1>3 DEF TypeOK
<1> QED  BY Zenon, <1>1, <1>2, <1>3, RunSteps

\* Every row keeps its type.
LEMMA TypeStep ==
    ASSUME TypeOK, Members, ReadinessFollowsGraph, [Next]_vars
    PROVE  TypeOK'
<1>1. session' \in Nat \ {0}
  <2>1. session' = session \/ session' = session + 1
    BY ZenonT(60) DEF Next, CreatePlan, SendCommand, Transition, RecoverPlan, CreateRequest,
        Decide, ConsumeApproval, LapseRequest, Acquire, Release, Consume, LapseLease,
        RecoverLeases, RecordFailure, LapseRun, SetAuthority, Restart, vars
  <2> QED  BY <2>1 DEF TypeOK
<1> QED  BY Zenon, <1>1, PlanTypes, CommandTypes, RequestTypes, LeaseTypes, RunTypes DEF TypeOK

-----------------------------------------------------------------------------
(* The graph and the plan.                                                 *)

\* The rows creation writes.
LEMMA CreatedRows ==
    ASSUME NEW p \in Plans, CreatePlan(p), NEW t \in Tasks
    PROVE  /\ task'[t].state = IF t \notin p.tasks THEN "pending"
                               ELSE IF Predecessors(p.edges, t) # {} THEN "blocked"
                               ELSE IF t \in p.gated THEN "awaiting_human" ELSE "ready"
           /\ task'[t].revision = 1
<1>1. task'[t] = [state |-> IF t \notin p.tasks THEN "pending"
                            ELSE IF Predecessors(p.edges, t) # {} THEN "blocked"
                            ELSE IF t \in p.gated THEN "awaiting_human" ELSE "ready",
                  revision |-> 1]
  BY Zenon DEF CreatePlan, InitialStates
<1> QED  BY <1>1

\* Before the plan exists there is nothing to act on.
LEMMA NothingYet ==
    ASSUME TypeOK, Members, plan.state = "absent", [Next]_vars
    PROVE  requests' = {} /\ leases' = {} /\ runs' = {} /\ command' = command
<1>0. requests = {} /\ leases = {} /\ runs = {}
  BY Zenon DEF Members
<1>1. requests' = requests
  BY Zenon, <1>0, RequestSteps DEF CreateRequest, Awaiting, Current
<1>2. leases' = leases
  <2>1. ActiveLeases = {}
    BY Zenon, <1>0 DEF ActiveLeases
  <2>2. ~\E t \in Tasks : Acquire(t)
    BY Zenon DEF Acquire, Startable, Current
  <2>3. \A outcome : ~RecoverLeases(outcome)
    BY Zenon, <2>1 DEF RecoverLeases
  <2> QED  BY Zenon, <1>0, <2>2, <2>3, LeaseSteps
<1>3. runs' = runs
  BY Zenon, <1>0, RunSteps
<1>4. command' = command
  BY ZenonT(60), <1>0 DEF Next, CreatePlan, SendCommand, Transition, Current, RecoverPlan,
      CreateRequest, Acquire, RecoverLeases, SetAuthority, Restart, vars
<1> QED  BY Zenon, <1>0, <1>1, <1>2, <1>3, <1>4

\* Membership in the plan follows its rows.
LEMMA MembersStep ==
    ASSUME TypeOK, Members, ReadinessFollowsGraph, [Next]_vars
    PROVE  Members'
<1>1. CASE UNCHANGED <<graph, plan, task>>
  BY Zenon, <1>1, NothingYet DEF Members
<1>2. ASSUME NEW p \in Plans, CreatePlan(p)
      PROVE  Members'
  <2>1. graph' = p /\ plan' = [state |-> "active", revision |-> 1]
    BY Zenon, <1>2 DEF CreatePlan
  <2>2. plan'.state = "active" /\ p.tasks # {}
    BY Zenon, <2>1, PlanAssumption
  <2>3. \A t \in Tasks : task'[t].state = "pending" <=> t \notin p.tasks
    BY Zenon, <1>2, CreatedRows
  <2> QED  BY Zenon, <2>1, <2>2, <2>3 DEF Members
<1>3. CASE Advanced
  <2>1. UNCHANGED graph /\ plan.state = "active"
    BY Zenon, <1>3 DEF Advanced
  <2>2. plan'.state # "absent"
    <3>1. plan' = [state |-> PlanState(task'), revision |-> plan.revision + 1]
      BY Zenon, <1>3 DEF Advanced
    <3> QED  BY Zenon, <3>1, PlanStateType
  <2>3. \A t \in Tasks : task'[t].state = "pending" <=> task[t].state = "pending"
    BY Zenon, <1>3 DEF Advanced, Moves, Edges
  <2> QED  BY Zenon, <2>1, <2>2, <2>3 DEF Members
<1> QED  BY Zenon, <1>1, <1>2, <1>3, PlanSteps

\* The graph is checked where it is admitted, and never changes after.
LEMMA AcyclicStep ==
    ASSUME TypeOK, Members, ReadinessFollowsGraph, AdmittedIsAcyclic, [Next]_vars
    PROVE  AdmittedIsAcyclic'
<1>1. graph' = graph \/ \E p \in Plans : RejectCycles(p.edges) /\ graph' = p
  BY Zenon, PlanSteps DEF CreatePlan, Advanced
<1> QED  BY Zenon, <1>1, AdmittedHasNoCycle DEF AdmittedIsAcyclic

\* Every step leaves the graph at rest.
LEMMA ReadinessStep ==
    ASSUME TypeOK, Members, ReadinessFollowsGraph, [Next]_vars
    PROVE  ReadinessFollowsGraph'
<1>1. CASE UNCHANGED <<graph, plan, task>>
  BY Zenon, <1>1 DEF ReadinessFollowsGraph
<1>2. ASSUME NEW p \in Plans, CreatePlan(p)
      PROVE  ReadinessFollowsGraph'
  <2>1. graph' = p /\ p.edges \in SUBSET (p.tasks \X p.tasks) /\ p.tasks \in SUBSET Tasks
    BY Zenon, <1>2, PlanAssumption DEF CreatePlan
  <2>2. ASSUME NEW t \in p.tasks
        PROVE  LET met == \A e \in p.edges : e[2] = t => task'[e[1]].state = "succeeded"
               IN  /\ task'[t].state \notin {"blocked", "cancelled"} => met
                   /\ task'[t].state = "blocked" => ~met
    <3>1. t \in Tasks
      BY Zenon, <2>1
    <3>2. CASE Predecessors(p.edges, t) = {}
      <4>1. \A e \in p.edges : e[2] # t
        BY Zenon, <3>2 DEF Predecessors
      <4>2. task'[t].state # "blocked"
        BY Zenon, <1>2, <3>1, <3>2, CreatedRows
      <4> QED  BY Zenon, <4>1, <4>2
    <3>3. CASE Predecessors(p.edges, t) # {}
      <4>1. PICK e \in p.edges : e[2] = t
        BY Zenon, <3>3 DEF Predecessors
      <4>2. e[1] \in Tasks
        BY <2>1
      <4>3. task'[e[1]].state # "succeeded"
        BY Zenon, <1>2, <4>2, CreatedRows
      <4>4. task'[t].state = "blocked"
        BY Zenon, <1>2, <3>1, <3>3, CreatedRows
      <4> QED  BY Zenon, <4>1, <4>3, <4>4
    <3> QED  BY Zenon, <3>2, <3>3
  <2> QED  BY Zenon, <2>1, <2>2 DEF ReadinessFollowsGraph
<1>3. CASE Advanced
  <2>1. UNCHANGED graph /\ plan.state # "absent"
    BY Zenon, <1>3 DEF Advanced
  <2>2. ASSUME NEW t \in graph.tasks
        PROVE  /\ task'[t].state \notin {"blocked", "cancelled"} => Met(task', t)
               /\ task'[t].state = "blocked" => ~Met(task', t)
    <3>1. t \in Tasks
      BY Zenon DEF TypeOK
    <3>2. /\ Moves(task[t], task'[t])
          /\ task'[t].state = "blocked" => ~Met(task', t)
          /\ task'[t].state \in {"ready", "awaiting_human"} => Met(task', t)
      BY Zenon, <1>3, <3>1 DEF Advanced
    <3>3. task[t].state \notin {"blocked", "cancelled"} => Met(task, t)
      BY Zenon, <2>1 DEF ReadinessFollowsGraph, Met
    <3>4. task'[t].state \notin {"blocked", "cancelled", "ready", "awaiting_human"} =>
              task[t].state \notin {"blocked", "cancelled"}
      BY Zenon, <3>2 DEF Moves, Edges
    <3>5. \A q \in Tasks : task[q].state = "succeeded" => task'[q].state = "succeeded"
      BY Zenon, <1>3 DEF Advanced, Moves, Edges
    <3>6. Met(task, t) => Met(task', t)
      BY Zenon, <3>1, <3>5, MetFollows
    <3> QED  BY Zenon, <3>2, <3>3, <3>4, <3>6
  <2> QED  BY Zenon, <2>1, <2>2 DEF ReadinessFollowsGraph, Met
<1> QED  BY Zenon, <1>1, <1>2, <1>3, PlanSteps

\* What _plan_state says of the tasks of a plan.
LEMMA PlanStateIs ==
    ASSUME NEW tk, graph.tasks # {}
    PROVE  /\ PlanState(tk) = "active" <=> \E t \in graph.tasks : tk[t].state \notin Terminal
           /\ PlanState(tk) = "completed" <=> \A t \in graph.tasks : tk[t].state = "succeeded"
           /\ PlanState(tk) = "failed" => \E t \in graph.tasks : tk[t].state = "failed"
           /\ PlanState(tk) = "cancelled" => \A t \in graph.tasks : tk[t].state # "failed"
<1> DEFINE states == {tk[t].state : t \in graph.tasks}
<1>1. states = {"succeeded"} <=> \A t \in graph.tasks : tk[t].state = "succeeded"
  OBVIOUS
<1>2. states \subseteq Terminal <=> \A t \in graph.tasks : tk[t].state \in Terminal
  OBVIOUS
<1>3. "failed" \in states <=> \E t \in graph.tasks : tk[t].state = "failed"
  OBVIOUS
<1>4. "succeeded" \in Terminal
  BY Zenon DEF Terminal
<1>5. PlanState(tk) = IF states = {"succeeded"} THEN "completed"
                      ELSE IF states \subseteq Terminal
                           THEN IF "failed" \in states THEN "failed" ELSE "cancelled"
                      ELSE "active"
  BY Zenon DEF PlanState
<1> HIDE DEF states
<1>6. states = {"succeeded"} => states \subseteq Terminal
  BY Zenon, <1>4
<1>7. CASE states = {"succeeded"}
  BY Zenon, <1>1, <1>2, <1>5, <1>6, <1>7
<1>8. CASE states # {"succeeded"} /\ states \subseteq Terminal
  BY <1>1, <1>2, <1>3, <1>5, <1>8
<1>9. CASE states # {"succeeded"} /\ ~(states \subseteq Terminal)
  BY Zenon, <1>1, <1>2, <1>5, <1>9
<1> QED  BY Zenon, <1>7, <1>8, <1>9

\* The plan row is recomputed wherever a task changes.
LEMMA SummaryStep ==
    ASSUME TypeOK, Members, ReadinessFollowsGraph, PlanSummarisesTasks, [Next]_vars
    PROVE  PlanSummarisesTasks'
<1>1. CASE UNCHANGED <<graph, plan, task>>
  BY Zenon, <1>1 DEF PlanSummarisesTasks
<1>2. ASSUME NEW p \in Plans, CreatePlan(p)
      PROVE  PlanSummarisesTasks'
  <2>1. graph' = p /\ plan' = [state |-> "active", revision |-> 1]
    BY Zenon, <1>2 DEF CreatePlan
  <2>2. plan'.state = "active"
    BY Zenon, <2>1
  <2>3. PICK t \in p.tasks : t \in Tasks
    BY Zenon, PlanAssumption
  <2>4. task'[t].state \notin Terminal /\ task'[t].state # "succeeded"
    BY <1>2, <2>3, CreatedRows DEF Terminal
  <2> QED  BY <2>1, <2>2, <2>3, <2>4 DEF PlanSummarisesTasks
<1>3. CASE Advanced
  <2>1. UNCHANGED graph /\ plan.state = "active"
        /\ plan' = [state |-> PlanState(task'), revision |-> plan.revision + 1]
    BY Zenon, <1>3 DEF Advanced
  <2>2. plan'.state = PlanState(task')
    BY Zenon, <2>1
  <2>3. graph.tasks # {} /\ graph.tasks \in SUBSET Tasks
    BY Zenon, <2>1 DEF Members, TypeOK
  <2>4. ASSUME NEW t \in Tasks, task'[t].state = "failed" PROVE t \in graph.tasks
    BY Zenon, <2>1, <2>4, MembersStep DEF Members
  <2>5. /\ plan'.state = "active" <=> \E t \in graph.tasks : task'[t].state \notin Terminal
        /\ plan'.state = "completed" <=> \A t \in graph.tasks : task'[t].state = "succeeded"
        /\ plan'.state = "failed" => \E t \in graph.tasks : task'[t].state = "failed"
        /\ plan'.state = "cancelled" => \A t \in graph.tasks : task'[t].state # "failed"
    BY Zenon, <2>2, <2>3, PlanStateIs
  <2> QED  BY Zenon, <2>1, <2>3, <2>4, <2>5 DEF PlanSummarisesTasks
<1> QED  BY Zenon, <1>1, <1>2, <1>3, PlanSteps

-----------------------------------------------------------------------------
(* Approvals.                                                              *)

\* A request keeps its binding, and a consumed or rejected one its status.
SameRequest(x, r) ==
    /\ x.task = r.task /\ x.taskRev = r.taskRev /\ x.planRev = r.planRev
    /\ x.session = r.session

\* What a decision and a consumption write over a request.
LEMMA RewrittenRequest ==
    ASSUME TypeOK, NEW r \in requests, NEW s \in {"approved", "rejected", "consumed"}
    PROVE  /\ SameRequest([r EXCEPT !.status = s], r) /\ [r EXCEPT !.status = s].status = s
<1>1. r \in RequestRow
  BY Zenon DEF TypeOK
<1> QED  BY Zenon, <1>1 DEF RequestRow, SameRequest

\* What a lapse writes over a request.
LEMMA LapsedRequest ==
    ASSUME TypeOK, NEW r \in requests
    PROVE  /\ SameRequest([r EXCEPT !.fresh = FALSE], r)
           /\ [r EXCEPT !.fresh = FALSE].status = r.status
<1>1. r \in RequestRow
  BY Zenon DEF TypeOK
<1> QED  BY Zenon, <1>1 DEF RequestRow, SameRequest

\* A task's revision never falls, and moves on with its state.
LEMMA MovesOn ==
    ASSUME NEW old \in TaskRow, NEW new, Moves(old, new)
    PROVE  /\ old.revision \in Nat /\ new.revision \in Nat /\ new.revision >= old.revision
           /\ new.state # old.state => new.revision = old.revision + 1
BY DEF Moves, TaskRow

\* Consumed approvals are kept.
LEMMA ConsumedKept ==
    ASSUME TypeOK, [Next]_vars, NEW r \in requests, r.status = "consumed"
    PROVE  \E x \in requests' : SameRequest(x, r) /\ x.status = "consumed"
<1>0. SameRequest(r, r)
  BY Zenon DEF SameRequest
<1>1. ASSUME NEW q \in requests, NEW s, requests' = Resolved(q, s), q.status # "consumed"
      PROVE  r \in requests'
  BY Zenon, <1>1 DEF Resolved
<1>2. ASSUME NEW q \in requests, LapseRequest(q)
      PROVE  \E x \in requests' : SameRequest(x, r) /\ x.status = "consumed"
  <2>1. requests' = (requests \ {q}) \cup {[q EXCEPT !.fresh = FALSE]}
    BY Zenon, <1>2 DEF LapseRequest
  <2>2. CASE q = r
    BY Zenon, <2>1, <2>2, LapsedRequest
  <2>3. CASE q # r
    BY Zenon, <1>0, <2>1, <2>3
  <2> QED  BY Zenon, <2>2, <2>3
<1>3. ASSUME NEW q \in requests, NEW d \in {"approved", "rejected"}, Decide(q, d)
      PROVE  r \in requests'
  <2>1. requests' = Resolved(q, d) /\ q.status = "open"
    BY Zenon, <1>3 DEF Decide
  <2>2. q.status # "consumed"
    BY Zenon, <2>1
  <2> QED  BY Zenon, <1>1, <2>1, <2>2
<1>4. ASSUME NEW q \in requests, ConsumeApproval(q)
      PROVE  r \in requests'
  <2>1. requests' = Resolved(q, "consumed") /\ q.status = "approved"
    BY Zenon, <1>4 DEF ConsumeApproval
  <2>2. q.status # "consumed"
    BY Zenon, <2>1
  <2> QED  BY Zenon, <1>1, <2>1, <2>2
<1>5. ASSUME NEW t \in Tasks, NEW s \in {0, session}, CreateRequest(t, s)
      PROVE  r \in requests'
  BY Zenon, <1>5 DEF CreateRequest
<1> QED  BY Zenon, <1>0, <1>2, <1>3, <1>4, <1>5, RequestSteps

\* Where a request in a decisive status comes from.
LEMMA DecisiveOrigin ==
    ASSUME TypeOK, [Next]_vars, NEW x \in requests', x.status \in {"rejected", "consumed"}
    PROVE  \/ \E r \in requests : SameRequest(x, r) /\ r.status = x.status
           \/ \E r \in requests : /\ SameRequest(x, r) /\ x = [r EXCEPT !.status = x.status]
                                  /\ x.status = "rejected" /\ Decide(r, "rejected")
           \/ \E r \in requests : /\ SameRequest(x, r) /\ x = [r EXCEPT !.status = x.status]
                                  /\ x.status = "consumed" /\ ConsumeApproval(r)
<1> DEFINE Kept == \E r \in requests : SameRequest(x, r) /\ r.status = x.status
           Rejects == \E r \in requests : /\ SameRequest(x, r)
                                          /\ x = [r EXCEPT !.status = x.status]
                                          /\ x.status = "rejected" /\ Decide(r, "rejected")
           Consumes == \E r \in requests : /\ SameRequest(x, r)
                                           /\ x = [r EXCEPT !.status = x.status]
                                           /\ x.status = "consumed" /\ ConsumeApproval(r)
<1>0. x \in requests => Kept
  BY Zenon DEF SameRequest
<1>1. ASSUME NEW t \in Tasks, NEW s \in {0, session}, CreateRequest(t, s)
      PROVE  Kept
  <2>1. requests' = requests \cup {NewRequest(t, s)}
    BY Zenon, <1>1 DEF CreateRequest
  <2>2. NewRequest(t, s).status = "open"
    BY Zenon DEF NewRequest
  <2>3. x # NewRequest(t, s)
    BY Zenon, <2>2
  <2> QED  BY Zenon, <1>0, <2>1, <2>3
<1>2. ASSUME NEW r \in requests, NEW d \in {"approved", "rejected"}, Decide(r, d)
      PROVE  Kept \/ Rejects
  <2>1. requests' = (requests \ {r}) \cup {[r EXCEPT !.status = d]}
    BY Zenon, <1>2 DEF Decide, Resolved
  <2>2. SameRequest([r EXCEPT !.status = d], r) /\ [r EXCEPT !.status = d].status = d
    BY Zenon, RewrittenRequest
  <2>3. CASE x = [r EXCEPT !.status = d]
    <3>1. x.status = d /\ d = "rejected"
      BY <2>2, <2>3
    <3> QED  BY Zenon, <1>2, <2>2, <2>3, <3>1
  <2> QED  BY Zenon, <1>0, <2>1, <2>3
<1>3. ASSUME NEW r \in requests, ConsumeApproval(r)
      PROVE  Kept \/ Consumes
  <2>1. requests' = (requests \ {r}) \cup {[r EXCEPT !.status = "consumed"]}
    BY Zenon, <1>3 DEF ConsumeApproval, Resolved
  <2>2. SameRequest([r EXCEPT !.status = "consumed"], r)
        /\ [r EXCEPT !.status = "consumed"].status = "consumed"
    BY Zenon, RewrittenRequest
  <2> QED  BY Zenon, <1>0, <1>3, <2>1, <2>2
<1>4. ASSUME NEW r \in requests, LapseRequest(r)
      PROVE  Kept
  <2>1. requests' = (requests \ {r}) \cup {[r EXCEPT !.fresh = FALSE]}
    BY Zenon, <1>4 DEF LapseRequest
  <2>2. SameRequest([r EXCEPT !.fresh = FALSE], r) /\ [r EXCEPT !.fresh = FALSE].status = r.status
    BY Zenon, LapsedRequest
  <2> QED  BY Zenon, <1>0, <2>1, <2>2
<1>5. Kept \/ Rejects \/ Consumes
  <2> HIDE DEF Kept, Rejects, Consumes
  <2> QED  BY Zenon, <1>0, <1>1, <1>2, <1>3, <1>4, RequestSteps
<1> QED  BY Zenon, <1>5

\* A gated task gets past its human only by the consumption of an approval.
LEMMA GatedStep ==
    ASSUME TypeOK, Members, ReadinessFollowsGraph, GatedNeedsHuman, [Next]_vars
    PROVE  GatedNeedsHuman'
<1> DEFINE Past == {"ready", "running", "cancelling", "succeeded", "failed"}
           Signed(t) == \E r \in requests : /\ r.task = t /\ r.status = "consumed"
                                            /\ r.session > 0 /\ r.taskRev < task[t].revision
           SignedThen(t) ==
               \E r \in requests' : /\ r.task = t /\ r.status = "consumed"
                                    /\ r.session > 0 /\ r.taskRev < task'[t].revision
<1>1. ASSUME NEW p \in Plans, CreatePlan(p)
      PROVE  GatedNeedsHuman'
  <2>1. /\ graph' = p /\ plan.state = "absent"
        /\ p.gated \in SUBSET p.tasks /\ p.tasks \in SUBSET Tasks
    BY Zenon, <1>1, PlanAssumption DEF CreatePlan
  <2>2. requests' = {}
    BY Zenon, <2>1, NothingYet
  <2>3. \A t \in p.gated : task'[t].state \notin Past
    BY <1>1, <2>1, CreatedRows
  <2> QED  BY Zenon, <2>1, <2>2, <2>3 DEF GatedNeedsHuman
<1>2. CASE UNCHANGED <<graph, plan, task>> \/ Advanced
  <2>0. graph' = graph /\ graph.gated \in SUBSET Tasks
    BY Zenon, <1>2 DEF Advanced, TypeOK
  <2>1. ASSUME NEW t \in graph.gated
        PROVE  /\ task[t] \in TaskRow /\ Moves(task[t], task'[t])
               /\ task'[t].state = "ready" /\ task[t].state # "ready" =>
                     \E r \in requests : ConsumeApproval(r) /\ r.task = t
    BY Zenon, <1>2, <2>0 DEF Advanced, Moves, TypeOK
  <2>2. ASSUME NEW t \in graph.gated, Signed(t)
        PROVE  SignedThen(t)
    <3>1. PICK r \in requests : /\ r.task = t /\ r.status = "consumed"
                                /\ r.session > 0 /\ r.taskRev < task[t].revision
      BY Zenon, <2>2
    <3>2. PICK x \in requests' : SameRequest(x, r) /\ x.status = "consumed"
      BY Zenon, <3>1, ConsumedKept
    <3>3. r \in RequestRow
      BY Zenon DEF TypeOK
    <3>4. /\ task[t].revision \in Nat /\ task'[t].revision \in Nat
          /\ task'[t].revision >= task[t].revision
      BY Zenon, <2>1, MovesOn
    <3>5. x.taskRev < task'[t].revision
      BY <3>1, <3>2, <3>3, <3>4 DEF SameRequest, RequestRow
    <3> QED  BY Zenon, <3>1, <3>2, <3>5 DEF SameRequest
  <2>3. ASSUME NEW t \in graph.gated, NEW r \in requests, ConsumeApproval(r), r.task = t,
               task'[t].state = "ready", task[t].state # "ready"
        PROVE  SignedThen(t)
    <3> DEFINE x == [r EXCEPT !.status = "consumed"]
    <3>1. x \in requests' /\ SameRequest(x, r) /\ x.status = "consumed"
      BY Zenon, <2>3, RewrittenRequest DEF ConsumeApproval, Resolved
    <3> HIDE DEF x
    <3>2. r.session = session /\ task[t].revision = r.taskRev
      BY Zenon, <2>3 DEF ConsumeApproval, Awaiting, Current
    <3>3. session > 0
      BY DEF TypeOK
    <3>4. task[t].revision \in Nat /\ task'[t].revision = task[t].revision + 1
      <4>1. task'[t].state # task[t].state
        BY Zenon, <2>3
      <4> QED  BY Zenon, <2>1, <4>1, MovesOn
    <3>5. x.taskRev < task'[t].revision
      BY <3>1, <3>2, <3>4 DEF SameRequest
    <3> QED  BY Zenon, <2>3, <3>1, <3>2, <3>3, <3>5 DEF SameRequest
  <2>4. ASSUME NEW t \in graph.gated, task'[t].state \in Past
        PROVE  SignedThen(t)
    <3>1. task[t].state \in Past \/ (task'[t].state = "ready" /\ task[t].state # "ready")
      BY Zenon, <2>1, <2>4 DEF Moves, Edges
    <3>2. task[t].state \in Past => Signed(t)
      BY Zenon DEF GatedNeedsHuman
    <3> QED  BY Zenon, <2>1, <2>2, <2>3, <3>1, <3>2
  <2>5. ASSUME NEW t \in graph.gated, NEW x \in requests', x.task = t, x.status = "rejected"
        PROVE  task'[t].state = "cancelled"
    <3>1. CASE \E r \in requests : SameRequest(x, r) /\ r.status = x.status
      <4>0. \E r \in requests : r.task = t /\ r.status = "rejected"
        BY Zenon, <2>5, <3>1 DEF SameRequest
      <4>1. task[t].state = "cancelled"
        BY Zenon, <4>0 DEF GatedNeedsHuman
      <4> QED  BY Zenon, <2>1, <4>1 DEF Moves, Edges
    <3>2. ASSUME NEW r \in requests, SameRequest(x, r), Decide(r, "rejected")
          PROVE  task'[t].state = "cancelled"
      <4>1. r.task = t /\ t \in Tasks
        BY Zenon, <2>0, <2>5, <3>2 DEF SameRequest
      <4>2. task' = Moved(task, t, "cancelled")
        BY Zenon, <3>2, <4>1 DEF Decide, Advance
      <4>3. task'[t] = [state |-> "cancelled", revision |-> task[t].revision + 1]
        BY Zenon, <4>1, <4>2 DEF Moved, TypeOK
      <4> QED  BY <4>3
    <3>3. x.status # "consumed" /\ x.status \in {"rejected", "consumed"}
      BY Zenon, <2>5
    <3> QED  BY Zenon, <3>1, <3>2, <3>3, DecisiveOrigin
  <2> QED  BY ZenonT(60), <2>0, <2>4, <2>5 DEF GatedNeedsHuman
<1> QED  BY Zenon, <1>1, <1>2, PlanSteps

-----------------------------------------------------------------------------
(* Effects on a plan revision.                                             *)

Applied(c) == command[c].status = "applied"

Decisive(r) == r.status \in {"rejected", "consumed"}

\* OneEffectPerRevision, effect by effect.
Apart ==
    /\ \A c, d \in Commands :
          Applied(c) /\ Applied(d) /\ command[c].planRev = command[d].planRev => c = d
    /\ \A r, q \in requests : Decisive(r) /\ Decisive(q) /\ r.planRev = q.planRev => r = q
    /\ \A r, q \in runs : r.planRev = q.planRev => r = q
    /\ \A c \in Commands, r \in requests :
          Applied(c) /\ Decisive(r) => command[c].planRev # r.planRev
    /\ \A c \in Commands, r \in runs : Applied(c) => command[c].planRev # r.planRev - 1
    /\ \A q \in requests, r \in runs : Decisive(q) => q.planRev # r.planRev - 1

\* The two forms say the same.
LEMMA ApartIs == OneEffectPerRevision <=> Apart
<1> DEFINE applied == {c \in Commands : command[c].status = "applied"}
           used == {r \in requests : r.status \in {"rejected", "consumed"}}
<1>1. OneEffectPerRevision <=>
        /\ \A c, d \in applied : command[c].planRev = command[d].planRev => c = d
        /\ \A r, q \in used : r.planRev = q.planRev => r = q
        /\ \A r, q \in runs : r.planRev = q.planRev => r = q
        /\ \A c \in applied : command[c].planRev \notin
               {r.planRev : r \in used} \cup {r.planRev - 1 : r \in runs}
        /\ \A r \in used : r.planRev \notin {q.planRev - 1 : q \in runs}
  BY Zenon DEF OneEffectPerRevision
<1>2. ASSUME NEW c \in Commands
      PROVE  command[c].planRev \notin
                 {r.planRev : r \in used} \cup {r.planRev - 1 : r \in runs} <=>
             /\ \A r \in used : command[c].planRev # r.planRev
             /\ \A r \in runs : command[c].planRev # r.planRev - 1
  BY Zenon
<1>3. ASSUME NEW q \in used
      PROVE  q.planRev \notin {r.planRev - 1 : r \in runs} <=>
             \A r \in runs : q.planRev # r.planRev - 1
  BY Zenon
<1>4. /\ \A c : c \in applied <=> c \in Commands /\ Applied(c)
      /\ \A r : r \in used <=> r \in requests /\ Decisive(r)
  BY Zenon DEF Applied, Decisive
<1> HIDE DEF applied, used
<1> QED  BY ZenonT(60), <1>1, <1>2, <1>3, <1>4 DEF Apart

\* They say the same after a step.
LEMMA ApartIsPrime == OneEffectPerRevision' <=> Apart'
<1> DEFINE applied == {c \in Commands : command'[c].status = "applied"}
           used == {r \in requests' : r.status \in {"rejected", "consumed"}}
<1>1. OneEffectPerRevision' <=>
        /\ \A c, d \in applied : command'[c].planRev = command'[d].planRev => c = d
        /\ \A r, q \in used : r.planRev = q.planRev => r = q
        /\ \A r, q \in runs' : r.planRev = q.planRev => r = q
        /\ \A c \in applied : command'[c].planRev \notin
               {r.planRev : r \in used} \cup {r.planRev - 1 : r \in runs'}
        /\ \A r \in used : r.planRev \notin {q.planRev - 1 : q \in runs'}
  BY Zenon DEF OneEffectPerRevision
<1>2. ASSUME NEW c \in Commands
      PROVE  command'[c].planRev \notin
                 {r.planRev : r \in used} \cup {r.planRev - 1 : r \in runs'} <=>
             /\ \A r \in used : command'[c].planRev # r.planRev
             /\ \A r \in runs' : command'[c].planRev # r.planRev - 1
  BY Zenon
<1>3. ASSUME NEW q \in used
      PROVE  q.planRev \notin {r.planRev - 1 : r \in runs'} <=>
             \A r \in runs' : q.planRev # r.planRev - 1
  BY Zenon
<1>4. /\ \A c : c \in applied <=> c \in Commands /\ Applied(c)'
      /\ \A r : r \in used <=> r \in requests' /\ Decisive(r)
  BY Zenon DEF Applied, Decisive
<1> HIDE DEF applied, used
<1> QED  BY ZenonT(60), <1>1, <1>2, <1>3, <1>4 DEF Apart

\* A step that applies no command, uses no approval or starts no run.
QuietCommands ==
    \A c \in Commands : Applied(c)' => Applied(c) /\ command'[c].planRev = command[c].planRev

QuietRequests ==
    /\ \A x \in requests' : Decisive(x) =>
          \E r \in requests : Decisive(r) /\ r.planRev = x.planRev
    /\ \A x, y \in requests' : Decisive(x) /\ Decisive(y) /\ x.planRev = y.planRev => x = y

QuietRuns ==
    /\ \A x \in runs' : \E r \in runs : r.planRev = x.planRev
    /\ \A x, y \in runs' : x.planRev = y.planRev => x = y

\* Only the transition service applies a command.
LEMMA CommandEffect ==
    ASSUME TypeOK, [Next]_vars
    PROVE  QuietCommands \/ \E c \in Commands : Transition(c)
<1>1. CASE UNCHANGED command
  BY Zenon, <1>1 DEF QuietCommands, Applied
<1>2. ASSUME NEW c \in Commands, NEW t \in Tasks, NEW s, SendCommand(c, t, s)
      PROVE  QuietCommands
  <2> DEFINE row == [status |-> "sent", task |-> t, target |-> s,
                     taskRev |-> task[t].revision, planRev |-> plan.revision]
  <2>1. command' = [command EXCEPT ![c] = row]
    BY Zenon, <1>2 DEF SendCommand
  <2>2. row.status # "applied"
    OBVIOUS
  <2> HIDE DEF row
  <2>3. command'[c] = row /\ \A d \in Commands : d # c => command'[d] = command[d]
    BY Zenon, <2>1 DEF TypeOK
  <2> QED  BY Zenon, <2>2, <2>3 DEF QuietCommands, Applied
<1>3. \/ UNCHANGED command
      \/ \E c \in Commands, t \in Tasks : \E s \in Targets(task[t].state) : SendCommand(c, t, s)
      \/ \E c \in Commands : Transition(c)
  BY ZenonT(60) DEF Next, CreatePlan, RecoverPlan, CreateRequest, Decide, ConsumeApproval,
      LapseRequest, Acquire, Release, Consume, LapseLease, RecoverLeases, RecordFailure, LapseRun,
      SetAuthority, Restart, vars
<1> QED  BY Zenon, <1>1, <1>2, <1>3

\* Only a rejection and a consumption decide.
LEMMA RequestEffect ==
    ASSUME TypeOK, Apart, [Next]_vars
    PROVE  \/ QuietRequests
           \/ \E r \in requests : Decide(r, "rejected") \/ ConsumeApproval(r)
<1>0. \A r, q \in requests : Decisive(r) /\ Decisive(q) /\ r.planRev = q.planRev => r = q
  BY Zenon DEF Apart
<1>1. CASE UNCHANGED requests
  BY Zenon, <1>0, <1>1 DEF QuietRequests
<1>2. ASSUME NEW t \in Tasks, NEW s \in {0, session}, CreateRequest(t, s)
      PROVE  QuietRequests
  <2>1. requests' = requests \cup {NewRequest(t, s)}
    BY Zenon, <1>2 DEF CreateRequest
  <2>2. ~Decisive(NewRequest(t, s))
    BY Zenon DEF NewRequest, Decisive
  <2> QED  BY Zenon, <1>0, <2>1, <2>2 DEF QuietRequests
<1>3. ASSUME NEW r \in requests, Decide(r, "approved")
      PROVE  QuietRequests
  <2> DEFINE x == [r EXCEPT !.status = "approved"]
  <2>1. requests' = (requests \ {r}) \cup {x}
    BY Zenon, <1>3 DEF Decide, Resolved
  <2>2. x.status = "approved"
    BY Zenon, RewrittenRequest
  <2>3. ~Decisive(x)
    BY Zenon, <2>2 DEF Decisive
  <2> HIDE DEF x
  <2> QED  BY Zenon, <1>0, <2>1, <2>3 DEF QuietRequests
<1>4. ASSUME NEW r \in requests, LapseRequest(r)
      PROVE  QuietRequests
  <2> DEFINE x == [r EXCEPT !.fresh = FALSE]
  <2>1. requests' = (requests \ {r}) \cup {x}
    BY Zenon, <1>4 DEF LapseRequest
  <2>2. x.planRev = r.planRev /\ (Decisive(x) <=> Decisive(r))
    BY Zenon, LapsedRequest DEF SameRequest, Decisive
  <2> HIDE DEF x
  <2> QED  BY Zenon, <1>0, <2>1, <2>2 DEF QuietRequests
<1> HIDE DEF QuietRequests
<1> QED  BY Zenon, <1>1, <1>2, <1>3, <1>4, RequestSteps

\* Only the consumption of a lease starts a run.
LEMMA RunEffect ==
    ASSUME TypeOK, Apart, [Next]_vars
    PROVE  QuietRuns \/ \E l \in leases : Consume(l)
<1>0. \A r, q \in runs : r.planRev = q.planRev => r = q
  BY Zenon DEF Apart
<1>1. CASE UNCHANGED runs
  BY Zenon, <1>0, <1>1 DEF QuietRuns
<1>2. ASSUME NEW r \in runs, LapseRun(r)
      PROVE  QuietRuns
  <2> DEFINE x == [r EXCEPT !.live = FALSE]
  <2>1. runs' = (runs \ {r}) \cup {x}
    BY Zenon, <1>2 DEF LapseRun
  <2>2. r \in RunRow
    BY Zenon DEF TypeOK
  <2>3. x.planRev = r.planRev
    BY Zenon, <2>2 DEF RunRow
  <2> HIDE DEF x
  <2> QED  BY ZenonT(60), <1>0, <2>1, <2>3 DEF QuietRuns
<1> QED  BY Zenon, <1>1, <1>2, RunSteps

\* Nothing refers to a plan that is not there yet.
LEMMA NoEffectYet ==
    ASSUME TypeOK, Members, [Next]_vars, plan.state = "absent"
    PROVE  EffectsArePast' /\ Apart'
<1>1. requests' = {} /\ runs' = {} /\ command' = command
  BY Zenon, NothingYet
<1>2. ASSUME NEW c \in Commands PROVE ~Applied(c)
  <2>1. command[c] = NoCommand
    BY Zenon DEF Members
  <2> QED  BY <2>1 DEF NoCommand, Applied
<1>3. \A c \in Commands : ~Applied(c)'
  BY Zenon, <1>1, <1>2 DEF Applied
<1>4. Apart'
  BY Zenon, <1>1, <1>3 DEF Apart
<1>5. EffectsArePast'
  BY Zenon, <1>1, <1>3 DEF EffectsArePast, Applied
<1> QED  BY Zenon, <1>4, <1>5

\* The revision of an existing plan never falls, and every change moves it on.
LEMMA RevisionMovesOn ==
    ASSUME TypeOK, Members, ReadinessFollowsGraph, [Next]_vars, plan.state # "absent"
    PROVE  /\ plan.revision \in Nat
           /\ plan'.revision = plan.revision \/ plan'.revision = plan.revision + 1
<1>1. plan' = plan \/ plan' = [state |-> PlanState(task'), revision |-> plan.revision + 1]
  BY Zenon, PlanSteps DEF CreatePlan, Advanced
<1> QED  BY <1>1 DEF TypeOK, PlanRow

\* Every effect is bound to the revision it ends, so no two share one.
LEMMA EffectStep ==
    ASSUME TypeOK, Members, ReadinessFollowsGraph, EffectsArePast, OneEffectPerRevision,
           [Next]_vars
    PROVE  EffectsArePast' /\ OneEffectPerRevision'
<1>0. Apart
  BY Zenon, ApartIs
<1> SUFFICES EffectsArePast' /\ Apart'
  BY Zenon, ApartIsPrime
<1> SUFFICES ASSUME plan.state # "absent"
             PROVE  EffectsArePast' /\ Apart'
  BY Zenon, NoEffectYet
<1> DEFINE rev == plan.revision
<1>1. rev \in Nat /\ (plan'.revision = rev \/ plan'.revision = rev + 1)
  BY Zenon, RevisionMovesOn
<1>2. ASSUME NEW c \in Commands, Applied(c)
      PROVE  /\ command[c].planRev \in Nat /\ command[c].planRev < plan'.revision
             /\ command[c].planRev # rev
  <2>1. command[c] \in CommandRow /\ command[c].planRev < rev
    BY Zenon, <1>2, SentRow DEF EffectsArePast, Applied
  <2> QED  BY <1>1, <2>1 DEF CommandRow
<1>3. ASSUME NEW r \in requests, Decisive(r)
      PROVE  r.planRev \in Nat /\ r.planRev < plan'.revision /\ r.planRev # rev
  <2>1. r \in RequestRow /\ r.planRev < rev
    BY Zenon, <1>3 DEF EffectsArePast, Decisive, TypeOK
  <2> QED  BY <1>1, <2>1 DEF RequestRow
<1>4. ASSUME NEW r \in runs
      PROVE  /\ r.planRev \in Nat /\ r.planRev <= plan'.revision
             /\ r.planRev # rev + 1 /\ r.planRev - 1 # rev
  <2>1. r \in RunRow /\ r.planRev <= rev
    BY Zenon, <1>4 DEF EffectsArePast, TypeOK
  <2> QED  BY <1>1, <2>1 DEF RunRow
<1> HIDE DEF rev
<1>5. ASSUME NEW c \in Commands, Transition(c)
      PROVE  EffectsArePast' /\ Apart'
  <2>1. requests' = requests /\ runs' = runs /\ command[c].planRev = rev
    BY Zenon, <1>5 DEF Transition, Current, rev
  <2>2. command[c] \in CommandRow
    BY <1>5, SentRow DEF Transition
  <2>3. command' = [command EXCEPT ![c] = [command[c] EXCEPT !.status = "applied"]]
    BY Zenon, <1>5 DEF Transition
  <2>4. command'[c] = [command[c] EXCEPT !.status = "applied"]
        /\ \A d \in Commands : d # c => command'[d] = command[d]
    BY Zenon, <2>3 DEF TypeOK
  <2>5. command'[c].planRev = rev
    BY Zenon, <2>1, <2>2, <2>4 DEF CommandRow
  <2>6. rev < plan'.revision
    <3>1. plan' = [state |-> PlanState(task'), revision |-> rev + 1]
      BY Zenon, <1>5 DEF Transition, AdvanceRefreshed, Advance, rev
    <3> QED  BY <1>1, <3>1
  <2>7. \A d \in Commands : Applied(d)' =>
            \/ d = c /\ command'[d].planRev = rev
            \/ Applied(d) /\ command'[d].planRev = command[d].planRev
    BY Zenon, <2>4, <2>5 DEF Applied
  <2>8. EffectsArePast'
    BY Zenon, <1>2, <1>3, <1>4, <2>1, <2>6, <2>7 DEF EffectsArePast, Applied, Decisive
  <2>9. Apart'
    <3>1. \A d, e \in Commands :
             Applied(d)' /\ Applied(e)' /\ command'[d].planRev = command'[e].planRev => d = e
      BY ZenonT(60), <1>0, <1>2, <2>7 DEF Apart
    <3>2. \A d \in Commands, r \in requests :
             Applied(d)' /\ Decisive(r) => command'[d].planRev # r.planRev
      BY ZenonT(60), <1>0, <1>3, <2>7 DEF Apart
    <3>3. ASSUME NEW d \in Commands, NEW r \in runs, Applied(d)'
          PROVE  command'[d].planRev # r.planRev - 1
      <4>1. Applied(d) => command[d].planRev # r.planRev - 1
        BY Zenon, <1>0 DEF Apart
      <4>2. rev # r.planRev - 1
        BY Zenon, <1>4
      <4> QED  BY Zenon, <2>7, <3>3, <4>1, <4>2
    <3> QED  BY ZenonT(60), <1>0, <2>1, <3>1, <3>2, <3>3 DEF Apart
  <2> QED  BY Zenon, <2>8, <2>9
<1>6. ASSUME NEW q \in requests, Decide(q, "rejected") \/ ConsumeApproval(q)
      PROVE  EffectsArePast' /\ Apart'
  <2>1. command' = command /\ runs' = runs /\ q.planRev = rev
    BY Zenon, <1>6 DEF Decide, ConsumeApproval, Awaiting, Current, rev
  <2>2. PICK s \in {"rejected", "consumed"} : requests' = Resolved(q, s)
    BY Zenon, <1>6 DEF Decide, ConsumeApproval
  <2> DEFINE x == [q EXCEPT !.status = s]
  <2>3. x.planRev = rev
    BY Zenon, <2>1, RewrittenRequest DEF SameRequest
  <2>4. requests' = (requests \ {q}) \cup {x}
    BY Zenon, <2>2 DEF Resolved
  <2> HIDE DEF x
  <2>5. rev < plan'.revision
    <3>1. PICK tk : plan' = [state |-> PlanState(tk), revision |-> rev + 1]
      BY Zenon, <1>6 DEF Decide, ConsumeApproval, Advance, rev
    <3> QED  BY <1>1, <3>1
  <2>6. \A c \in Commands : Applied(c)' <=> Applied(c)
    BY Zenon, <2>1 DEF Applied
  <2>7. \A r \in requests' : r = x \/ r \in requests
    BY Zenon, <2>4
  <2>8. EffectsArePast'
    BY Zenon, <1>2, <1>3, <1>4, <2>1, <2>3, <2>5, <2>6, <2>7 DEF EffectsArePast, Applied, Decisive
  <2>9. Apart'
    <3>1. \A r, y \in requests' : Decisive(r) /\ Decisive(y) /\ r.planRev = y.planRev => r = y
      BY ZenonT(60), <1>0, <1>3, <2>3, <2>7 DEF Apart
    <3>2. \A c \in Commands, r \in requests' :
             Applied(c) /\ Decisive(r) => command[c].planRev # r.planRev
      BY ZenonT(60), <1>0, <1>2, <2>3, <2>7 DEF Apart
    <3>3. \A y \in requests', r \in runs : Decisive(y) => y.planRev # r.planRev - 1
      BY ZenonT(60), <1>0, <1>4, <2>3, <2>7 DEF Apart
    <3> QED  BY ZenonT(60), <1>0, <2>1, <2>6, <3>1, <3>2, <3>3 DEF Apart
  <2> QED  BY Zenon, <2>8, <2>9
<1>7. ASSUME NEW l \in leases, Consume(l)
      PROVE  EffectsArePast' /\ Apart'
  <2>1. command' = command /\ requests' = requests /\ l.planRev = rev
    BY Zenon, <1>7 DEF Consume, Holds, Startable, Current, rev
  <2> DEFINE x == Receipt(l)
  <2>2. runs' = runs \cup {x}
    BY Zenon, <1>7 DEF Consume
  <2>3. x.planRev = rev + 1 /\ x.planRev - 1 = rev
    BY <1>1, <2>1 DEF Receipt
  <2> HIDE DEF x
  <2>5. x.planRev <= plan'.revision
    <3>1. plan' = [state |-> PlanState(task'), revision |-> rev + 1]
      BY Zenon, <1>7 DEF Consume, Advance, rev
    <3> QED  BY <1>1, <2>3, <3>1
  <2>6. \A c \in Commands : Applied(c)' <=> Applied(c)
    BY Zenon, <2>1 DEF Applied
  <2>7. \A r \in runs' : r = x \/ r \in runs
    BY Zenon, <2>2
  <2>8. EffectsArePast'
    BY Zenon, <1>2, <1>3, <1>4, <2>1, <2>5, <2>6, <2>7 DEF EffectsArePast, Applied, Decisive
  <2>9. Apart'
    <3>1. \A r, y \in runs' : r.planRev = y.planRev => r = y
      BY ZenonT(60), <1>0, <1>4, <2>3, <2>7 DEF Apart
    <3>2. \A c \in Commands, r \in runs' : Applied(c) => command[c].planRev # r.planRev - 1
      BY ZenonT(60), <1>0, <1>2, <2>3, <2>7 DEF Apart
    <3>3. \A q \in requests, r \in runs' : Decisive(q) => q.planRev # r.planRev - 1
      BY ZenonT(60), <1>0, <1>3, <2>3, <2>7 DEF Apart
    <3> QED  BY ZenonT(60), <1>0, <2>1, <2>6, <3>1, <3>2, <3>3 DEF Apart
  <2> QED  BY Zenon, <2>8, <2>9
<1>8. CASE QuietCommands /\ QuietRequests /\ QuietRuns
  <2>1. EffectsArePast'
    <3>1. \A c \in Commands : Applied(c)' => command'[c].planRev < plan'.revision
      BY Zenon, <1>2, <1>8 DEF QuietCommands
    <3>2. \A r \in requests' : Decisive(r) => r.planRev < plan'.revision
      BY Zenon, <1>3, <1>8 DEF QuietRequests
    <3>3. \A r \in runs' : r.planRev <= plan'.revision
      BY Zenon, <1>4, <1>8 DEF QuietRuns
    <3> QED  BY Zenon, <3>1, <3>2, <3>3 DEF EffectsArePast, Applied, Decisive
  <2>2. Apart'
    <3>1. \A c, d \in Commands :
             Applied(c)' /\ Applied(d)' /\ command'[c].planRev = command'[d].planRev => c = d
      BY ZenonT(60), <1>0, <1>8 DEF Apart, QuietCommands
    <3>2. \A c \in Commands, r \in requests' :
             Applied(c)' /\ Decisive(r) => command'[c].planRev # r.planRev
      BY ZenonT(60), <1>0, <1>8 DEF Apart, QuietCommands, QuietRequests
    <3>3. ASSUME NEW c \in Commands, NEW x \in runs', Applied(c)'
          PROVE  command'[c].planRev # x.planRev - 1
      <4>1. PICK r \in runs : r.planRev = x.planRev
        BY Zenon, <1>8 DEF QuietRuns
      <4>2. Applied(c) /\ command'[c].planRev = command[c].planRev
        BY Zenon, <1>8, <3>3 DEF QuietCommands
      <4>3. command[c].planRev # r.planRev - 1
        BY Zenon, <1>0, <4>2 DEF Apart
      <4> QED  BY Zenon, <4>1, <4>2, <4>3
    <3>4. ASSUME NEW y \in requests', NEW x \in runs', Decisive(y)
          PROVE  y.planRev # x.planRev - 1
      <4>1. PICK r \in runs : r.planRev = x.planRev
        BY Zenon, <1>8 DEF QuietRuns
      <4>2. PICK q \in requests : Decisive(q) /\ q.planRev = y.planRev
        BY Zenon, <1>8, <3>4 DEF QuietRequests
      <4>3. q.planRev # r.planRev - 1
        BY Zenon, <1>0, <4>2 DEF Apart
      <4> QED  BY Zenon, <4>1, <4>2, <4>3
    <3> QED  BY ZenonT(60), <1>8, <3>1, <3>2, <3>3, <3>4 DEF Apart, QuietRequests, QuietRuns
  <2> QED  BY Zenon, <2>1, <2>2
<1> QED  BY Zenon, <1>0, <1>5, <1>6, <1>7, <1>8, CommandEffect, RequestEffect, RunEffect

-----------------------------------------------------------------------------
(* Leases and receipts.                                                    *)

SameLease(x, l) == x.task = l.task /\ x.taskRev = l.taskRev

\* What ends a lease and what lapses it keep its task and revision.
LEMMA RewrittenLease ==
    ASSUME TypeOK, NEW l \in leases, NEW s
    PROVE  /\ SameLease(EndedLease(l, s), l) /\ EndedLease(l, s).state = s
           /\ SameLease([l EXCEPT !.live = FALSE], l)
           /\ [l EXCEPT !.live = FALSE].state = l.state
           /\ [l EXCEPT !.live = FALSE].generation = l.generation
           /\ [l EXCEPT !.live = FALSE].recovery = l.recovery
<1>1. l \in LeaseRow
  BY Zenon DEF TypeOK
<1>2. SameLease(EndedLease(l, s), l) /\ EndedLease(l, s).state = s
  BY Zenon DEF SameLease, EndedLease
<1>3. /\ SameLease([l EXCEPT !.live = FALSE], l)
      /\ [l EXCEPT !.live = FALSE].state = l.state
      /\ [l EXCEPT !.live = FALSE].generation = l.generation
      /\ [l EXCEPT !.live = FALSE].recovery = l.recovery
  BY Zenon, <1>1 DEF SameLease, LeaseRow
<1> QED  BY Zenon, <1>2, <1>3

\* Where a lease comes from.
LEMMA LeaseOrigin ==
    ASSUME TypeOK, [Next]_vars, NEW x \in leases'
    PROVE  \/ \E l \in leases : SameLease(x, l) /\ (x.state = "active" => l.state = "active")
           \/ \E t \in Tasks : Acquire(t) /\ x = NewLease(t)
<1> DEFINE Kept == \E l \in leases : SameLease(x, l) /\ (x.state = "active" => l.state = "active")
<1>0. x \in leases => Kept
  BY Zenon DEF SameLease
<1>1. ASSUME NEW l \in leases, Release(l) \/ Consume(l)
      PROVE  Kept
  <2>1. leases' = (leases \ {l}) \cup {EndedLease(l, "released")}
    BY Zenon, <1>1 DEF Release, Consume, Ended
  <2>2. SameLease(EndedLease(l, "released"), l) /\ EndedLease(l, "released").state = "released"
    BY Zenon, RewrittenLease
  <2> QED  BY Zenon, <1>0, <2>1, <2>2
<1>2. ASSUME NEW l \in leases, LapseLease(l)
      PROVE  Kept
  <2>1. leases' = (leases \ {l}) \cup {[l EXCEPT !.live = FALSE]}
    BY Zenon, <1>2 DEF LapseLease
  <2>2. SameLease([l EXCEPT !.live = FALSE], l) /\ [l EXCEPT !.live = FALSE].state = l.state
    BY Zenon, RewrittenLease
  <2> QED  BY Zenon, <1>0, <2>1, <2>2
<1>3. ASSUME NEW outcome \in [ActiveLeases -> {"expired", "invalidated"}], RecoverLeases(outcome)
      PROVE  Kept
  <2> DEFINE end(l) == IF l \in ActiveLeases THEN EndedLease(l, outcome[l]) ELSE l
  <2>1. leases' = {end(l) : l \in leases}
    BY Zenon, <1>3 DEF RecoverLeases
  <2>2. PICK l \in leases : x = end(l)
    BY Zenon, <2>1
  <2>3. CASE l \in ActiveLeases
    <3>1. SameLease(EndedLease(l, outcome[l]), l) /\ l.state = "active"
      BY Zenon, <2>3, RewrittenLease DEF ActiveLeases
    <3> QED  BY Zenon, <2>2, <2>3, <3>1
  <2>4. CASE l \notin ActiveLeases
    BY Zenon, <1>0, <2>2, <2>4
  <2> QED  BY Zenon, <2>3, <2>4
<1>4. ASSUME NEW t \in Tasks, Acquire(t)
      PROVE  Kept \/ x = NewLease(t)
  BY Zenon, <1>0, <1>4 DEF Acquire
<1>5. Kept \/ \E t \in Tasks : Acquire(t) /\ x = NewLease(t)
  <2> HIDE DEF Kept
  <2> QED  BY Zenon, <1>0, <1>1, <1>2, <1>3, <1>4, LeaseSteps
<1> QED  BY Zenon, <1>5

\* A new lease is bound to the row it was taken on.
LEMMA TakenLease ==
    ASSUME TypeOK, NEW t \in Tasks, Acquire(t)
    PROVE  /\ NewLease(t).task = t /\ NewLease(t).taskRev = task[t].revision
           /\ NewLease(t).state = "active"
           /\ NewLease(t).generation = fence[t].generation + 1
           /\ NewLease(t).recovery = fence[t].recovery
           /\ task' = task /\ plan' = plan /\ graph' = graph /\ task[t].state = "ready"
<1>1. /\ NewLease(t).task = t /\ NewLease(t).taskRev = task[t].revision
      /\ NewLease(t).state = "active"
      /\ NewLease(t).generation = fence[t].generation + 1
      /\ NewLease(t).recovery = fence[t].recovery
  BY Zenon DEF NewLease
<1>2. task' = task /\ plan' = plan /\ graph' = graph /\ task[NewLease(t).task].state = "ready"
  BY Zenon DEF Acquire, Startable
<1> QED  BY Zenon, <1>1, <1>2

\* What a step does to the row of one task of an existing plan.
LEMMA TaskMoves ==
    ASSUME TypeOK, Members, ReadinessFollowsGraph, [Next]_vars, plan.state # "absent",
           NEW t \in Tasks
    PROVE  /\ task[t] \in TaskRow /\ Moves(task[t], task'[t])
           /\ task'[t].state = "running" /\ task[t].state # "running" =>
                 \E l \in leases : Consume(l) /\ l.task = t
<1>1. UNCHANGED <<graph, plan, task>> \/ Advanced
  BY Zenon, PlanSteps DEF CreatePlan
<1> QED  BY Zenon, <1>1 DEF Advanced, Moves, TypeOK

\* No step leaves a lease of a task that is ready again.
LEMMA LeasesOfReadyStep ==
    ASSUME TypeOK, Members, ReadinessFollowsGraph, LeasesOfReady, [Next]_vars
    PROVE  LeasesOfReady'
<1> SUFFICES ASSUME NEW x \in leases'
             PROVE  /\ task'[x.task].state \notin {"pending", "blocked", "awaiting_human"}
                    /\ task'[x.task].state = "ready" => x.taskRev = task'[x.task].revision
  BY Zenon DEF LeasesOfReady
<1>0. plan.state # "absent"
  BY Zenon, NothingYet
<1>1. ASSUME NEW l \in leases, SameLease(x, l)
      PROVE  /\ task'[x.task].state \notin {"pending", "blocked", "awaiting_human"}
             /\ task'[x.task].state = "ready" => x.taskRev = task'[x.task].revision
  <2> DEFINE t == l.task
  <2>1. x.task = t /\ x.taskRev = l.taskRev /\ t \in Tasks
    BY <1>1 DEF SameLease, TypeOK, LeaseRow
  <2> HIDE DEF t
  <2>2. task[t] \in TaskRow /\ Moves(task[t], task'[t])
    BY Zenon, <1>0, <2>1, TaskMoves
  <2>3. /\ task[t].state \notin {"pending", "blocked", "awaiting_human"}
        /\ task[t].state = "ready" => l.taskRev = task[t].revision
    BY Zenon DEF LeasesOfReady, t
  <2>4. /\ task'[t].state \notin {"pending", "blocked", "awaiting_human"}
        /\ task'[t].state = "ready" => task[t].state = "ready" /\ task'[t] = task[t]
    BY Zenon, <2>2, <2>3 DEF Moves, Edges
  <2> QED  BY Zenon, <2>1, <2>3, <2>4
<1>2. ASSUME NEW t \in Tasks, Acquire(t), x = NewLease(t)
      PROVE  /\ task'[x.task].state \notin {"pending", "blocked", "awaiting_human"}
             /\ task'[x.task].state = "ready" => x.taskRev = task'[x.task].revision
  <2>1. x.task = t /\ x.taskRev = task[t].revision /\ task' = task /\ task[t].state = "ready"
    BY Zenon, <1>2, TakenLease
  <2> QED  BY Zenon, <2>1
<1> QED  BY Zenon, <1>1, <1>2, LeaseOrigin

\* A new lease finds no other active, and every active one is the newest.
LEMMA HolderStep ==
    ASSUME TypeOK, LeasesOfReady, OneLeaseHolder, [Next]_vars
    PROVE  OneLeaseHolder'
<1>1. CASE UNCHANGED <<leases, fence>>
  BY Zenon, <1>1 DEF OneLeaseHolder
<1>2. ASSUME NEW t \in Tasks, Acquire(t)
      PROVE  OneLeaseHolder'
  <2> DEFINE n == NewLease(t)
  <2>1. /\ n.task = t /\ n.taskRev = task[t].revision /\ n.state = "active"
        /\ n.generation = fence[t].generation + 1 /\ n.recovery = fence[t].recovery
        /\ task[t].state = "ready"
    BY Zenon, <1>2, TakenLease
  <2>2. /\ \A q \in leases : q.task = t /\ q.taskRev = n.taskRev => q.state # "active"
        /\ leases' = leases \cup {n}
        /\ fence' = [fence EXCEPT ![t] = [fence[t] EXCEPT !.generation = n.generation]]
    BY Zenon, <1>2 DEF Acquire
  <2> HIDE DEF n
  <2>3. \A q \in leases : q.task = t => q.state # "active"
    BY Zenon, <2>1, <2>2 DEF LeasesOfReady
  <2>4. /\ fence'[t] = [fence[t] EXCEPT !.generation = n.generation] /\ fence[t] \in FenceRow
        /\ \A u \in Tasks : u # t => fence'[u] = fence[u]
    BY Zenon, <2>2 DEF TypeOK
  <2>5. fence'[t].generation = n.generation /\ fence'[t].recovery = fence[t].recovery
    BY Zenon, <2>4 DEF FenceRow
  <2>6. \A q \in leases : q.task \in Tasks
    BY Zenon DEF TypeOK, LeaseRow
  <2>7. ASSUME NEW l \in leases', l.state = "active"
        PROVE  /\ l.generation = fence'[l.task].generation /\ l.recovery = fence'[l.task].recovery
               /\ \A q \in leases' : q.task = l.task /\ q.state = "active" => q = l
    <3>1. CASE l = n
      BY Zenon, <2>1, <2>2, <2>3, <2>5, <3>1
    <3>2. CASE l # n
      <4>1. l \in leases /\ l.task # t /\ fence'[l.task] = fence[l.task]
        BY Zenon, <2>2, <2>3, <2>4, <2>6, <2>7, <3>2
      <4> QED  BY Zenon, <2>1, <2>2, <2>7, <4>1 DEF OneLeaseHolder
    <3> QED  BY Zenon, <3>1, <3>2
  <2> QED  BY Zenon, <2>7 DEF OneLeaseHolder
<1>3. ASSUME NEW l \in leases, Release(l) \/ Consume(l)
      PROVE  OneLeaseHolder'
  <2>1. leases' = (leases \ {l}) \cup {EndedLease(l, "released")} /\ fence' = fence
    BY Zenon, <1>3 DEF Release, Consume, Ended
  <2>2. EndedLease(l, "released").state = "released"
    BY Zenon, RewrittenLease
  <2> QED  BY Zenon, <2>1, <2>2 DEF OneLeaseHolder
<1>4. ASSUME NEW l \in leases, LapseLease(l)
      PROVE  OneLeaseHolder'
  <2> DEFINE n == [l EXCEPT !.live = FALSE]
  <2>1. leases' = (leases \ {l}) \cup {n} /\ fence' = fence /\ l.state = "active"
    BY Zenon, <1>4 DEF LapseLease
  <2>2. /\ n.task = l.task /\ n.state = l.state
        /\ n.generation = l.generation /\ n.recovery = l.recovery
    BY Zenon, RewrittenLease DEF SameLease
  <2> HIDE DEF n
  <2>3. \A q \in leases' : q.state = "active" /\ q.task = l.task => q = n
    BY Zenon, <2>1 DEF OneLeaseHolder
  <2>4. ASSUME NEW x \in leases', x.state = "active"
        PROVE  /\ x.generation = fence[x.task].generation /\ x.recovery = fence[x.task].recovery
               /\ \A q \in leases' : q.task = x.task /\ q.state = "active" => q = x
    <3>1. CASE x = n
      BY Zenon, <2>1, <2>2, <2>3, <3>1 DEF OneLeaseHolder
    <3>2. CASE x # n
      <4>1. x \in leases /\ x.task # l.task
        BY Zenon, <2>1, <2>3, <2>4, <3>2
      <4>2. /\ x.generation = fence[x.task].generation /\ x.recovery = fence[x.task].recovery
            /\ \A q \in leases : q.task = x.task /\ q.state = "active" => q = x
        BY Zenon, <2>4, <4>1 DEF OneLeaseHolder
      <4> QED  BY Zenon, <2>1, <2>2, <4>1, <4>2
    <3> QED  BY Zenon, <3>1, <3>2
  <2> QED  BY Zenon, <2>1, <2>4 DEF OneLeaseHolder
<1>5. ASSUME NEW outcome \in [ActiveLeases -> {"expired", "invalidated"}], RecoverLeases(outcome)
      PROVE  OneLeaseHolder'
  <2> DEFINE end(l) == IF l \in ActiveLeases THEN EndedLease(l, outcome[l]) ELSE l
  <2>1. leases' = {end(l) : l \in leases}
    BY Zenon, <1>5 DEF RecoverLeases
  <2>2. ASSUME NEW l \in leases PROVE end(l).state # "active"
    <3>1. CASE l \in ActiveLeases
      <4>1. EndedLease(l, outcome[l]).state = outcome[l]
        BY Zenon, RewrittenLease
      <4>2. outcome[l] # "active"
        BY Zenon, <3>1
      <4> QED  BY Zenon, <3>1, <4>1, <4>2
    <3>2. CASE l \notin ActiveLeases
      BY Zenon, <3>2 DEF ActiveLeases
    <3> QED  BY Zenon, <3>1, <3>2
  <2> HIDE DEF end
  <2>3. \A x \in leases' : x.state # "active"
    BY Zenon, <2>1, <2>2
  <2> QED  BY Zenon, <2>3 DEF OneLeaseHolder
<1> QED  BY Zenon, <1>1, <1>2, <1>3, <1>4, <1>5, LeaseSteps

\* A run has the receipt of the lease it used up.
LEMMA ReceiptsStep ==
    ASSUME TypeOK, Members, ReadinessFollowsGraph, LeasesOfReady, OneLeaseHolder,
           ReceiptsOfRuns, [Next]_vars
    PROVE  ReceiptsOfRuns'
<1>0. CASE plan.state = "absent"
  <2>1. runs' = {} /\ leases' = {}
    BY Zenon, <1>0, NothingYet
  <2>2. ASSUME NEW t \in Tasks PROVE task'[t].state # "running"
    <3>1. task[t].state = "pending"
      BY Zenon, <1>0 DEF Members
    <3>2. UNCHANGED <<graph, plan, task>> \/ \E p \in Plans : CreatePlan(p)
      <4>1. ~Advanced
        BY Zenon, <1>0 DEF Advanced
      <4> QED  BY Zenon, <4>1, PlanSteps
    <3> QED  BY <3>1, <3>2, CreatedRows
  <2> QED  BY Zenon, <2>1, <2>2 DEF ReceiptsOfRuns
<1> SUFFICES ASSUME plan.state # "absent"
             PROVE  ReceiptsOfRuns'
  BY Zenon, <1>0
<1>1. \A t \in Tasks : task[t] \in TaskRow /\ Moves(task[t], task'[t])
  BY Zenon, TaskMoves
<1>2. ASSUME NEW r \in runs
      PROVE  r.task \in Tasks /\ r.taskRev \in Nat /\ r.taskRev <= task'[r.task].revision
  <2>1. r \in RunRow /\ r.taskRev <= task[r.task].revision
    BY Zenon DEF TypeOK, ReceiptsOfRuns
  <2>2. r.task \in Tasks /\ r.taskRev \in Nat
    BY Zenon, <2>1 DEF RunRow
  <2>3. /\ task[r.task].revision \in Nat /\ task'[r.task].revision \in Nat
        /\ task'[r.task].revision >= task[r.task].revision
    BY Zenon, <1>1, <2>2, MovesOn
  <2> QED  BY <2>1, <2>2, <2>3
<1>3. ASSUME NEW l \in leases, Consume(l)
      PROVE  /\ Receipt(l).task = l.task /\ l.task \in Tasks
             /\ Receipt(l).taskRev = task'[l.task].revision
             /\ \A r \in runs : r.task = l.task => r.taskRev # Receipt(l).taskRev
             /\ runs' = runs \cup {Receipt(l)}
  <2>1. /\ l.taskRev = task[l.task].revision /\ task' = Moved(task, l.task, "running")
        /\ runs' = runs \cup {Receipt(l)}
    BY Zenon, <1>3 DEF Consume, Advance, Holds, Startable, Current
  <2>2. l \in LeaseRow
    BY Zenon DEF TypeOK
  <2>3. l.task \in Tasks /\ l.taskRev \in Nat
    BY <2>2 DEF LeaseRow
  <2>4. task'[l.task] = [state |-> "running", revision |-> task[l.task].revision + 1]
    BY Zenon, <2>1, <2>3 DEF Moved, TypeOK
  <2>5. task'[l.task].revision = l.taskRev + 1
    BY <2>1, <2>4
  <2>6. Receipt(l).task = l.task /\ Receipt(l).taskRev = l.taskRev + 1
    BY Zenon DEF Receipt
  <2>7. ASSUME NEW r \in runs, r.task = l.task PROVE r.taskRev # Receipt(l).taskRev
    <3>0. r.taskRev <= task[r.task].revision
      BY Zenon DEF ReceiptsOfRuns
    <3>1. r.taskRev <= l.taskRev /\ r.taskRev \in Nat
      BY <1>2, <2>1, <2>7, <3>0
    <3> QED  BY <2>3, <2>6, <3>1
  <2> QED  BY Zenon, <2>1, <2>3, <2>5, <2>6, <2>7
<1>4. ASSUME NEW r \in runs
      PROVE  /\ [r EXCEPT !.live = FALSE].task = r.task
             /\ [r EXCEPT !.live = FALSE].taskRev = r.taskRev
  <2>1. r \in RunRow
    BY Zenon DEF TypeOK
  <2> QED  BY Zenon, <2>1 DEF RunRow
<1> DEFINE Bounded == \A r \in runs' : r.taskRev <= task'[r.task].revision
           Unique == \A r, q \in runs' : r.task = q.task /\ r.taskRev = q.taskRev => r = q
           Kept == \A r \in runs : \E x \in runs' : x.task = r.task /\ x.taskRev = r.taskRev
<1>5. Bounded /\ Unique /\ Kept
  <2>0. \A r, q \in runs : r.task = q.task /\ r.taskRev = q.taskRev => r = q
    BY Zenon DEF ReceiptsOfRuns
  <2>1. CASE UNCHANGED runs
    BY Zenon, <1>2, <2>0, <2>1
  <2>2. ASSUME NEW l \in leases, Consume(l)
        PROVE  Bounded /\ Unique /\ Kept
    <3>1. Receipt(l).taskRev <= task'[Receipt(l).task].revision
      <4>1. task'[l.task].revision \in Nat
        BY Zenon, <1>1, <1>3, <2>2, MovesOn
      <4> QED  BY <1>3, <2>2, <4>1
    <3>2. Bounded /\ Kept
      BY Zenon, <1>2, <1>3, <2>2, <3>1
    <3>3. ASSUME NEW r \in runs', NEW q \in runs', r.task = q.task, r.taskRev = q.taskRev
          PROVE  r = q
      <4> DEFINE n == Receipt(l)
      <4>1. /\ r \in runs \/ r = n
            /\ q \in runs \/ q = n
            /\ \A x \in runs : x.task = n.task => x.taskRev # n.taskRev
        BY Zenon, <1>3, <2>2
      <4> HIDE DEF n
      <4>2. CASE r = n
        BY Zenon, <3>3, <4>1, <4>2
      <4>3. CASE q = n
        BY Zenon, <3>3, <4>1, <4>3
      <4> QED  BY Zenon, <2>0, <3>3, <4>1, <4>2, <4>3
    <3> QED  BY Zenon, <3>2, <3>3
  <2>3. ASSUME NEW r \in runs, LapseRun(r)
        PROVE  Bounded /\ Unique /\ Kept
    <3> DEFINE x == [r EXCEPT !.live = FALSE]
    <3>1. runs' = (runs \ {r}) \cup {x} /\ x.task = r.task /\ x.taskRev = r.taskRev
      BY Zenon, <1>4, <2>3 DEF LapseRun
    <3> HIDE DEF x
    <3>2. Bounded /\ Kept
      BY Zenon, <1>2, <3>1
    <3>3. ASSUME NEW y \in runs', NEW q \in runs', y.task = q.task, y.taskRev = q.taskRev
          PROVE  y = q
      <4>1. \A z \in runs : z.task = x.task /\ z.taskRev = x.taskRev => z = r
        BY Zenon, <2>0, <3>1
      <4>2. (y = x \/ y \in runs \ {r}) /\ (q = x \/ q \in runs \ {r})
        BY Zenon, <3>1
      <4>3. CASE y = x
        BY Zenon, <3>3, <4>1, <4>2, <4>3
      <4>4. CASE q = x
        BY Zenon, <3>3, <4>1, <4>2, <4>4
      <4> QED  BY Zenon, <2>0, <3>3, <4>2, <4>3, <4>4
    <3> QED  BY Zenon, <3>2, <3>3
  <2> HIDE DEF Bounded, Unique, Kept
  <2> QED  BY Zenon, <2>1, <2>2, <2>3, RunSteps
<1>6. ASSUME NEW t \in Tasks, task'[t].state = "running"
      PROVE  /\ \E r \in runs' : r.task = t /\ r.taskRev = task'[t].revision
             /\ \A l \in leases' : l.task = t => l.state # "active"
  <2>1. CASE task[t].state = "running"
    <3>1. task'[t] = task[t]
      BY Zenon, <1>1, <1>6, <2>1 DEF Moves, Edges
    <3>2. \E r \in runs' : r.task = t /\ r.taskRev = task'[t].revision
      <4>1. PICK r \in runs : r.task = t /\ r.taskRev = task[t].revision
        BY Zenon, <2>1 DEF ReceiptsOfRuns
      <4>2. PICK x \in runs' : x.task = r.task /\ x.taskRev = r.taskRev
        BY Zenon, <1>5
      <4> QED  BY Zenon, <3>1, <4>1, <4>2
    <3>3. ASSUME NEW x \in leases', x.task = t, x.state = "active"
          PROVE  FALSE
      <4>1. ~\E l \in leases : SameLease(x, l) /\ (x.state = "active" => l.state = "active")
        BY Zenon, <2>1, <3>3 DEF ReceiptsOfRuns, SameLease
      <4>2. PICK u \in Tasks : Acquire(u) /\ x = NewLease(u)
        BY Zenon, <4>1, LeaseOrigin
      <4>3. u = t /\ task[u].state = "ready"
        BY Zenon, <3>3, <4>2, TakenLease
      <4> QED  BY Zenon, <2>1, <4>3
    <3> QED  BY Zenon, <3>2, <3>3
  <2>2. CASE task[t].state # "running"
    <3>1. PICK l \in leases : Consume(l) /\ l.task = t
      BY Zenon, <1>6, <2>2, TaskMoves
    <3>2. \E r \in runs' : r.task = t /\ r.taskRev = task'[t].revision
      BY Zenon, <1>3, <3>1
    <3>3. leases' = (leases \ {l}) \cup {EndedLease(l, "released")} /\ l.state = "active"
      BY Zenon, <3>1 DEF Consume, Ended, Holds
    <3>4. EndedLease(l, "released").state = "released"
      BY Zenon, RewrittenLease
    <3>5. \A q \in leases : q.task = t /\ q.state = "active" => q = l
      BY Zenon, <3>1, <3>3 DEF OneLeaseHolder
    <3> QED  BY Zenon, <3>2, <3>3, <3>4, <3>5
  <2> QED  BY Zenon, <2>1, <2>2
<1> QED  BY Zenon, <1>5, <1>6 DEF ReceiptsOfRuns

-----------------------------------------------------------------------------
(* The invariant.                                                          *)

\* It holds before any plan exists.
LEMMA InitInv == Init => IInv
<1> SUFFICES ASSUME Init PROVE IInv
  OBVIOUS
<1>1. /\ session = 1 /\ graph = [tasks |-> {}, edges |-> {}, gated |-> {}]
      /\ plan = [state |-> "absent", revision |-> 0]
      /\ task = [t \in Tasks |-> [state |-> "pending", revision |-> 1]]
      /\ command = [c \in Commands |-> NoCommand]
      /\ requests = {} /\ leases = {} /\ runs = {}
      /\ fence = [t \in Tasks |-> [generation |-> 0, recovery |-> 1]]
  BY Zenon DEF Init
<1>2. graph.tasks = {} /\ graph.edges = {} /\ graph.gated = {} /\ plan.state = "absent"
  BY <1>1
<1>3. \A t \in Tasks : task[t].state = "pending"
  BY Zenon, <1>1
<1>4. \A c \in Commands : command[c] = NoCommand /\ command[c].status # "applied"
  BY <1>1 DEF NoCommand
<1>5. TypeOK
  <2>1. session \in Nat \ {0} /\ plan \in PlanRow
    BY <1>1 DEF PlanRow
  <2>2. task \in [Tasks -> TaskRow] /\ fence \in [Tasks -> FenceRow]
    BY Zenon, <1>1 DEF TaskRow, FenceRow, TaskStates
  <2>3. command \in [Commands -> CommandRow \cup {NoCommand}]
    BY Zenon, <1>1
  <2>4. IsFiniteSet(leases)
    BY Zenon, <1>1, FS_EmptySet
  <2>5. {} \in SUBSET (graph.tasks \X graph.tasks)
    OBVIOUS
  <2> QED  BY ZenonT(60), <1>1, <1>2, <2>1, <2>2, <2>3, <2>4, <2>5 DEF TypeOK
<1>6. Members /\ AdmittedIsAcyclic /\ ReadinessFollowsGraph /\ PlanSummarisesTasks
  <2>1. AdmittedIsAcyclic
    BY Zenon, <1>2 DEF AdmittedIsAcyclic
  <2> QED  BY ZenonT(60), <1>1, <1>2, <1>3, <1>4, <2>1
             DEF Members, ReadinessFollowsGraph, PlanSummarisesTasks
<1>7. GatedNeedsHuman /\ LeasesOfReady /\ OneLeaseHolder
  BY Zenon, <1>1, <1>2 DEF GatedNeedsHuman, LeasesOfReady, OneLeaseHolder
<1>8. EffectsArePast /\ OneEffectPerRevision
  <2>1. EffectsArePast
    BY Zenon, <1>1, <1>4 DEF EffectsArePast
  <2>2. Apart
    BY Zenon, <1>1, <1>4 DEF Apart, Applied
  <2> QED  BY Zenon, <2>1, <2>2, ApartIs
<1>9. ReceiptsOfRuns
  <2>1. \A t \in Tasks : task[t].state # "running"
    BY Zenon, <1>3
  <2> QED  BY Zenon, <1>1, <2>1 DEF ReceiptsOfRuns
<1> QED  BY Zenon, <1>5, <1>6, <1>7, <1>8, <1>9 DEF IInv

\* Every step keeps it.
LEMMA InvStep == IInv /\ [Next]_vars => IInv'
<1> SUFFICES ASSUME IInv, [Next]_vars PROVE IInv'
  OBVIOUS
<1>1. /\ TypeOK /\ Members /\ AdmittedIsAcyclic /\ ReadinessFollowsGraph /\ PlanSummarisesTasks
      /\ GatedNeedsHuman /\ EffectsArePast /\ OneEffectPerRevision /\ LeasesOfReady
      /\ OneLeaseHolder /\ ReceiptsOfRuns
  BY Zenon DEF IInv
<1>2. TypeOK' /\ Members' /\ AdmittedIsAcyclic' /\ ReadinessFollowsGraph' /\ PlanSummarisesTasks'
  BY ZenonT(60), <1>1, TypeStep, MembersStep, AcyclicStep, ReadinessStep, SummaryStep
<1>3. GatedNeedsHuman' /\ EffectsArePast' /\ OneEffectPerRevision'
  BY Zenon, <1>1, GatedStep, EffectStep
<1>4. LeasesOfReady' /\ OneLeaseHolder' /\ ReceiptsOfRuns'
  BY Zenon, <1>1, LeasesOfReadyStep, HolderStep, ReceiptsStep
<1> QED  BY Zenon, <1>2, <1>3, <1>4 DEF IInv

\* The invariant of the plan service, with the types of every table row it
\* reads and writes, holds in every reachable state, for any finite set of
\* tasks and any documents over it.
THEOREM PlanInductive == Spec => []IInv
BY InitInv, InvStep, PTL DEF Spec

\* Only acyclic graphs are admitted: _reject_cycles visits every task, in as
\* many rounds as there are tasks, only when no set of tasks waits for itself.
THEOREM PlansAcyclic == Spec => []AdmittedIsAcyclic
<1>1. IInv => AdmittedIsAcyclic
  BY Zenon DEF IInv
<1> QED  BY <1>1, PlanInductive, PTL

\* After every handler the tasks' readiness is what the graph says.
THEOREM ReadyByGraph == Spec => []ReadinessFollowsGraph
<1>1. IInv => ReadinessFollowsGraph
  BY Zenon DEF IInv
<1> QED  BY <1>1, PlanInductive, PTL

\* After every handler the plan row summarises its tasks (_plan_state).
THEOREM PlanSummary == Spec => []PlanSummarisesTasks
<1>1. IInv => PlanSummarisesTasks
  BY Zenon DEF IInv
<1> QED  BY <1>1, PlanInductive, PTL

\* No gated task gets past its human without a consumed, authenticated
\* approval, and a rejected one ends cancelled (decide, consume).
THEOREM HumanFirst == Spec => []GatedNeedsHuman
<1>1. IInv => GatedNeedsHuman
  BY Zenon DEF IInv
<1> QED  BY <1>1, PlanInductive, PTL

\* No two commands, approvals and leases take effect on one plan revision.
THEOREM OneEffect == Spec => []OneEffectPerRevision
<1>1. IInv => OneEffectPerRevision
  BY Zenon DEF IInv
<1> QED  BY <1>1, PlanInductive, PTL

\* A task's active lease is unique and the newest (acquire, recover).
THEOREM OneHolder == Spec => []OneLeaseHolder
<1>1. IInv => OneLeaseHolder
  BY Zenon DEF IInv
<1> QED  BY <1>1, PlanInductive, PTL

\* A running task has exactly one receipt of its revision, and no lease left
\* active (OrchestrationLeaseService.consume).
THEOREM OneReceipt == Spec => []RunningHasOneReceipt
<1>1. IInv => RunningHasOneReceipt
  <2> SUFFICES ASSUME ReceiptsOfRuns, NEW t \in Tasks, task[t].state = "running"
               PROVE  /\ Cardinality({r \in runs : r.task = t /\ r.taskRev = task[t].revision}) = 1
                      /\ \A l \in leases : l.task = t => l.state # "active"
    BY Zenon DEF IInv, RunningHasOneReceipt
  <2>1. PICK r \in runs : r.task = t /\ r.taskRev = task[t].revision
    BY Zenon DEF ReceiptsOfRuns
  <2>2. ASSUME NEW q \in runs, q.task = t, q.taskRev = task[t].revision PROVE q = r
    <3>1. \A x, y \in runs : x.task = y.task /\ x.taskRev = y.taskRev => x = y
      BY Zenon DEF ReceiptsOfRuns
    <3> QED  BY Zenon, <2>1, <2>2, <3>1
  <2>3. {q \in runs : q.task = t /\ q.taskRev = task[t].revision} = {r}
    BY Zenon, <2>1, <2>2
  <2>4. Cardinality({q \in runs : q.task = t /\ q.taskRev = task[t].revision}) = 1
    BY Zenon, <2>3, FS_Singleton
  <2> QED  BY Zenon, <2>4 DEF ReceiptsOfRuns
<1> QED  BY <1>1, PlanInductive, PTL
=============================================================================
