-------------------------- MODULE RetrySystemProofs -------------------------
(* Safety of the retry services for any ceilings, requests and deadlines:  *)
(* leases and the fence, the plan and its approval, the theorems that      *)
(* follow from the inductive invariant, and the refinement of              *)
(* TaskAttempts.                                                           *)
EXTENDS RetryChainProofs

\* Every leaf is tried with SMT and then with Zenon, with time to spare on a
\* slow machine.
USE SMTT(20), ZenonT(30)

-----------------------------------------------------------------------------
(* Leases and the fence.                                                   *)

\* The columns of a lease the model has.
LeaseFields ==
    {"state", "generation", "recovery", "worker", "account", "plan", "task", "expires"}

\* A lease belongs to a reservation and carries a generation the fence has reached; a
\* retry's lease carries the one after its schedule's, and the account of its reservation.
LeaseRow(s, l) ==
    /\ s \in Slots /\ s \in DOMAIN reservation
    /\ DOMAIN l = LeaseFields
    /\ l.generation \in Nat /\ l.generation <= fence.generation
    /\ s \in Retry => /\ l.account = row.unit[s].after + 1
                      /\ l.generation = row.schedule[s].generation + 1
                      /\ l.recovery = row.schedule[s].recovery

\* All leases.
LeaseRows == \A s \in DOMAIN lease : LeaseRow(s, lease[s])

\* No two leases carry the same generation of the fence.
Generations ==
    \A s, t \in DOMAIN lease : lease[s].generation = lease[t].generation => s = t

\* A lease that was consumed is left as its consumption left it, and the run
\* carries the versions of its lease.
RunLease(s, r) ==
    /\ s \in DOMAIN lease
    /\ lease[s].state = IF s = 3 THEN "active" ELSE "released"
    /\ s \in Retry => /\ r.account = lease[s].account
                      /\ r.generation = lease[s].generation
                      /\ r.recovery = lease[s].recovery

RunLeases == \A s \in DOMAIN row.run : RunLease(s, row.run[s])

\* Attempt n has its reservation, at the account as it is, and no lease yet.
Paid(n) ==
    /\ task.state = "ready" /\ n \notin DOMAIN lease
    /\ n \in DOMAIN reservation /\ reservation[n].state = "reserved"
    /\ reservation[n].account = account

\* Then the fence is where the attempt before left it, and nobody holds it.
Ground ==
    \A n \in Retry :
        Paid(n) =>
            /\ fence.generation = row.schedule[n].generation
            /\ fence.recovery = row.schedule[n].recovery
            /\ \A s \in DOMAIN lease : lease[s].state # "active"

\* What the lease service keeps.
Leases == LeaseRows /\ Generations /\ RunLeases /\ Ground

\* The steps that take a lease, and those that end one without a run.
AcquireStep == (\E s \in Slots \ {3} : Acquire(s)) \/ AcquireV3

EndStep == (\E s \in Slots \ {3} : Release(s)) \/ RecoverLeases \/ RecoverLeasesV3

\* Fence and leases are written by acquiring, consuming, releasing and recovering.
LEMMA LeaseSteps ==
    ASSUME [Next]_vars
    PROVE  UNCHANGED <<fence, lease>> \/ AcquireStep \/ ConsumeStep \/ EndStep
<1>1. UNCHANGED leaseVars => UNCHANGED <<fence, lease>> BY Zenon DEF leaseVars
<1>2. CASE UNCHANGED vars BY <1>2, Zenon DEF vars
<1>3. CASE RunStep
  <2>1. ActivateAccount => UNCHANGED leaseVars BY Zenon DEF ActivateAccount
  <2>2. \A s, q : Reserve(s, q) => UNCHANGED leaseVars BY Zenon DEF Reserve, Store
  <2>3. \A s : RecordCheckpoint(s) \/ IssueManifest(s) => UNCHANGED leaseVars
    BY Zenon DEF RecordCheckpoint, NextCheckpoint, IssueManifest
  <2>4. RecordCheckpointV3 \/ CompleteV3 => UNCHANGED leaseVars
    BY Zenon DEF RecordCheckpointV3, NextCheckpoint, CompleteV3
  <2>5. \A s, class : RecordFailure(s, class) => UNCHANGED leaseVars
    BY Zenon DEF RecordFailure
  <2>6. \A class : RecordFailureV3(class) => UNCHANGED leaseVars BY Zenon DEF RecordFailureV3
  <2>7. QED
    BY <1>1, <1>3, <2>1, <2>2, <2>3, <2>4, <2>5, <2>6, Zenon
       DEF RunStep, AcquireStep, ConsumeStep
<1>4. CASE RetryStep
  <2>1. Receipted \/ UnitStep \/ Bury => UNCHANGED leaseVars
    BY Zenon DEF Receipted, UnitStep, ConsumeUnit, ConsumeUnitV2, Spent, Bury
  <2>2. ActivateStep => UNCHANGED leaseVars
    BY Zenon DEF ActivateStep, Activate, ActivateV2, Reopen
  <2>3. \A q : ReserveRetry(q) \/ ReserveV4(q) => UNCHANGED leaseVars
    BY Zenon DEF ReserveRetry, ReserveV4, Store
  <2>4. \A n : BackoffEnds(n) => UNCHANGED leaseVars BY Zenon DEF BackoffEnds
  <2>5. QED BY <1>1, <1>4, <2>1, <2>2, <2>3, <2>4, ReceiptSteps, Zenon
<1>5. CASE PlanStep
  <2>1. PlanStep => UNCHANGED leaseVars
    BY Zenon DEF PlanStep, Transition, StartSibling, EndSibling
  <2>2. QED BY <1>1, <1>5, <2>1, Zenon
<1>6. CASE RecoveryStep
  <2>1. RecoverPlan \/ RecoverBudget \/ RecoverBudgetV4 => UNCHANGED leaseVars
    BY Zenon DEF RecoverPlan, RecoverBudget, RecoverBudgetV4
  <2>2. QED BY <1>1, <1>6, <2>1, Zenon DEF RecoveryStep, EndStep
<1>7. CASE Outside
  <2>1. SetAuthority \/ ReplaceWorker \/ (\E d : Lapse(d)) => UNCHANGED leaseVars
    BY Zenon DEF SetAuthority, ReplaceWorker, Lapse
  <2>2. \A q : ReserveOther(q) => UNCHANGED leaseVars BY Zenon DEF ReserveOther, Store
  <2>3. QED BY <1>1, <1>7, <2>1, <2>2, Zenon DEF Outside, EndStep
<1>8. QED BY <1>2, <1>3, <1>4, <1>5, <1>6, <1>7, Zenon DEF Next

\* Taking a lease writes its own row.
LEMMA LeasedIs ==
    ASSUME NEW s, NEW l, lease' = With(lease, s, l)
    PROVE  /\ DOMAIN lease' = DOMAIN lease \cup {s}
           /\ lease'[s] = l
           /\ \A j \in DOMAIN lease \ {s} : lease'[j] = lease[j]
BY SMT DEF With

\* A lease is taken by the attempt whose reservation is at the account as it is.
LEMMA AcquireShape ==
    ASSUME Typed, Chain, Budget, AcquireStep
    PROVE  \E s \in Slots :
              /\ s \in DOMAIN row.manifest /\ s \notin DOMAIN row.run
              /\ s \in DOMAIN reservation /\ reservation[s].state = "reserved"
              /\ reservation[s].account = account /\ task.state = "ready"
              /\ s \in Retry => s \notin DOMAIN lease
              /\ lease' = With(lease, s, NewLease(s))
              /\ fence'.generation = fence.generation + 1 /\ fence'.recovery = fence.recovery
              /\ fence' \in [generation : Nat, recovery : Nat]
              /\ UNCHANGED <<task, plan, gated, sibling, account, reservation, row>>
<1>1. PICK s \in Slots :
         /\ s \in DOMAIN row.manifest /\ At(row.manifest[s], "ready")
         /\ s \in DOMAIN reservation /\ reservation[s].state = "reserved"
         /\ reservation[s].account = account
         /\ s \in Retry => s \notin DOMAIN lease
         /\ TakeLease(s, NewLease(s))
  <2>1. ASSUME NEW s \in Slots \ {3}, Acquire(s)
        PROVE  /\ s \in DOMAIN row.manifest /\ At(row.manifest[s], "ready")
               /\ s \in DOMAIN reservation /\ reservation[s].state = "reserved"
               /\ reservation[s].account = account
               /\ s \in Retry => s \notin DOMAIN lease
               /\ TakeLease(s, NewLease(s))
    BY <2>1, Zenon DEF Acquire, LeaseCurrent, Prepared, Has, Holds, Retry
  <2>2. ASSUME AcquireV3
        PROVE  /\ 3 \in DOMAIN row.manifest /\ At(row.manifest[3], "ready")
               /\ 3 \in DOMAIN reservation /\ reservation[3].state = "reserved"
               /\ reservation[3].account = account
               /\ 3 \notin DOMAIN lease
               /\ TakeLease(3, NewLease(3))
    BY <2>2, Zenon DEF AcquireV3, LeaseV3Current, NewLeaseV3, Has, Holds
  <2>3. 3 \in Slots BY SMT DEF Slots
  <2>4. QED BY <2>1, <2>2, <2>3, Zenon DEF AcquireStep
<1>2. s \notin DOMAIN row.run /\ task.state = "ready" BY <1>1, ReadyAt, Zenon
<1>3. /\ lease' = With(lease, s, NewLease(s))
      /\ fence' = [fence EXCEPT !.generation = @ + 1]
      /\ UNCHANGED <<task, plan, gated, sibling, account, reservation, row>>
  BY <1>1, Zenon DEF TakeLease, graphVars, budgetVars
<1>4. /\ fence'.generation = fence.generation + 1 /\ fence'.recovery = fence.recovery
      /\ fence' \in [generation : Nat, recovery : Nat]
  BY <1>3, SMT DEF Typed
<1>5. QED BY <1>1, <1>2, <1>3, <1>4, Zenon

\* A lease given back or recovered: nothing of the row but its state.
Ended(s) ==
    /\ DOMAIN lease'[s] = LeaseFields
    /\ lease'[s].generation = lease[s].generation
    /\ lease'[s].recovery = lease[s].recovery /\ lease'[s].account = lease[s].account
    /\ lease[s].state = "active" /\ lease'[s].state # "active"

\* Giving a state to an active lease ends it.
LEMMA EndedIs ==
    ASSUME LeaseRows, NEW s \in DOMAIN lease, NEW state, state # "active",
           lease[s].state = "active", lease'[s] = [lease[s] EXCEPT !.state = state]
    PROVE  Ended(s) /\ lease'[s].state = state
<1>1. DOMAIN lease[s] = LeaseFields BY Zenon DEF LeaseRows, LeaseRow
<1>2. QED BY <1>1, Zenon DEF Ended, LeaseFields

\* A recovery ends active leases and keeps the fence's generation.
LEMMA RecoveredShape ==
    ASSUME Typed, Leases,
           NEW S \in SUBSET DOMAIN lease, \A s \in S : lease[s].state = "active",
           RecoveredLeases(S)
    PROVE  /\ DOMAIN lease' = DOMAIN lease
           /\ \A s \in DOMAIN lease : lease'[s] = lease[s] \/ (Ended(s) /\ s \in S)
           /\ fence' \in [generation : Nat, recovery : Nat] /\ fence'.generation = fence.generation
           /\ \E s \in DOMAIN lease : lease[s].state = "active"
           /\ UNCHANGED <<task, plan, gated, sibling, account, reservation, row>>
<1>1. S # {} /\ UNCHANGED <<task, plan, gated, sibling, account, reservation, row>>
  BY Zenon DEF RecoveredLeases, graphVars, budgetVars
<1>2. DOMAIN lease' = DOMAIN lease BY Zenon DEF RecoveredLeases
<1>3. ASSUME NEW s \in DOMAIN lease PROVE lease'[s] = lease[s] \/ (Ended(s) /\ s \in S)
  <2>1. CASE s \notin S
    <3>1. lease'[s] = lease[s] BY <2>1, SMT DEF RecoveredLeases
    <3>2. QED BY <3>1, Zenon
  <2>2. CASE s \in S
    <3> DEFINE state == IF Live(lease[s]) THEN "invalidated" ELSE "expired"
    <3>1. lease'[s] = [lease[s] EXCEPT !.state = state] BY <2>2, Zenon DEF RecoveredLeases
    <3>2. state # "active" BY Zenon
    <3> HIDE DEF state
    <3>3. QED BY <2>2, <3>1, <3>2, EndedIs, Zenon DEF Leases
  <2>3. QED BY <2>1, <2>2, Zenon
<1>4. Cardinality(S) \in Nat
  <2>1. S \subseteq 1..5 BY Zenon DEF Leases, LeaseRows, LeaseRow, Slots
  <2>2. S \subseteq 1..6 BY <2>1, SMT
  <2>3. QED BY <2>2, CardAdds, Zenon
<1>5. fence' = [fence EXCEPT !.recovery = @ + Cardinality(S)] BY Zenon DEF RecoveredLeases
<1>6. fence' \in [generation : Nat, recovery : Nat] /\ fence'.generation = fence.generation
  BY <1>4, <1>5, SMT DEF Typed
<1>7. QED BY <1>1, <1>2, <1>3, <1>6, Zenon

\* A lease is released or recovered only while no run has been consumed from it.
LEMMA EndShape ==
    ASSUME Typed, Chain, Leases, EndStep
    PROVE  /\ DOMAIN lease' = DOMAIN lease
           /\ \A s \in DOMAIN lease :
                 lease'[s] = lease[s] \/ (Ended(s) /\ s \notin DOMAIN row.run)
           /\ fence' \in [generation : Nat, recovery : Nat] /\ fence'.generation = fence.generation
           /\ \E s \in DOMAIN lease : lease[s].state = "active"
           /\ UNCHANGED <<task, plan, gated, sibling, account, reservation, row>>
<1>1. \A s \in DOMAIN row.run : s # 3 => lease[s].state # "active"
  BY Zenon DEF Leases, RunLeases, RunLease
<1>2. CASE RecoverLeases
  <2> DEFINE S == {s \in DOMAIN lease \ {3} : lease[s].state = "active"}
  <2>1. S \in SUBSET DOMAIN lease /\ \A s \in S : lease[s].state = "active" /\ s # 3 BY Zenon
  <2>2. RecoveredLeases(S) BY <1>2, Zenon DEF RecoverLeases
  <2> HIDE DEF S
  <2>3. QED BY <1>1, <2>1, <2>2, RecoveredShape, Zenon
<1>3. CASE RecoverLeasesV3
  <2> DEFINE S == {s \in DOMAIN lease \cap {3} : lease[s].state = "active" /\ ~Has("run", s)}
  <2>1. /\ S \in SUBSET DOMAIN lease
        /\ \A s \in S : lease[s].state = "active" /\ s \notin DOMAIN row.run
    BY Zenon DEF Has
  <2>2. RecoveredLeases(S) BY <1>3, Zenon DEF RecoverLeasesV3
  <2> HIDE DEF S
  <2>3. QED BY <2>1, <2>2, RecoveredShape, Zenon
<1>4. CASE \E s \in Slots \ {3} : Release(s)
  <2>1. PICK s \in Slots \ {3} : Release(s) BY <1>4, Zenon
  <2>2. /\ s \in DOMAIN lease /\ lease[s].state = "active"
        /\ lease' = [lease EXCEPT ![s].state = "released"]
        /\ UNCHANGED <<task, plan, gated, sibling, account, reservation, row, fence>>
    BY <2>1, Zenon DEF Release, MutationBinding, graphVars, budgetVars
  <2>3. /\ DOMAIN lease' = DOMAIN lease
        /\ lease'[s] = [lease[s] EXCEPT !.state = "released"]
        /\ \A t \in DOMAIN lease \ {s} : lease'[t] = lease[t]
    BY <2>2, Zenon
  <2>4. Ended(s) BY <2>2, <2>3, EndedIs, Zenon DEF Leases
  <2>5. s \notin DOMAIN row.run BY <1>1, <2>2, Zenon
  <2>6. fence' \in [generation : Nat, recovery : Nat] /\ fence'.generation = fence.generation
    BY <2>2, Zenon DEF Typed
  <2>7. \A t \in DOMAIN lease : lease'[t] = lease[t] \/ (Ended(t) /\ t \notin DOMAIN row.run)
    BY <2>3, <2>4, <2>5, Zenon
  <2>8. \E t \in DOMAIN lease : lease[t].state = "active" BY <2>2, Zenon
  <2>9. QED BY <2>2, <2>3, <2>6, <2>7, <2>8, Zenon
<1>5. QED BY <1>2, <1>3, <1>4, Zenon DEF EndStep

\* A run is consumed from a lease that is then released, or for attempt three kept.
LEMMA ConsumeLease ==
    ASSUME Typed, Chain, Leases, ConsumeStep
    PROVE  \E s \in Slots :
              /\ s \in DOMAIN lease /\ s \notin DOMAIN row.run
              /\ Gains("run", s, NewRun(s))
              /\ DOMAIN lease' = DOMAIN lease
              /\ \A t \in DOMAIN lease \ {s} : lease'[t] = lease[t]
              /\ lease'[s] = lease[s] \/ Ended(s)
              /\ lease'[s].state = IF s = 3 THEN "active" ELSE "released"
              /\ task'.state = "running"
              /\ UNCHANGED <<account, reservation, fence>>
<1>1. PICK s \in Slots :
         /\ MutationBinding(s) /\ Gains("run", s, NewRun(s))
         /\ task' = [state |-> "running", revision |-> task.revision + 1]
         /\ UNCHANGED <<account, reservation, fence>>
         /\ lease' = IF s = 3 THEN lease ELSE [lease EXCEPT ![s].state = "released"]
  BY RunShape, Zenon
<1>2. s \in DOMAIN lease /\ lease[s].state = "active" BY <1>1, Zenon DEF MutationBinding
<1>3. task'.state = "running" BY <1>1, Zenon
<1>4. s \notin DOMAIN row.run BY <1>1, Zenon DEF Gains
<1>5. CASE s = 3
  <2>1. lease' = lease BY <1>1, <1>5, Zenon
  <2>2. QED BY <1>1, <1>2, <1>3, <1>4, <1>5, <2>1, Zenon
<1>6. CASE s # 3
  <2>1. lease' = [lease EXCEPT ![s].state = "released"] BY <1>1, <1>6, Zenon
  <2>2. /\ DOMAIN lease' = DOMAIN lease
        /\ lease'[s] = [lease[s] EXCEPT !.state = "released"]
        /\ \A t \in DOMAIN lease \ {s} : lease'[t] = lease[t]
    BY <1>2, <2>1, Zenon
  <2>3. Ended(s) /\ lease'[s].state = "released"
    BY <1>2, <2>2, EndedIs, Zenon DEF Leases
  <2>4. QED BY <1>1, <1>2, <1>3, <1>4, <1>6, <2>2, <2>3, Zenon
<1>7. QED BY <1>5, <1>6, Zenon

\* Every step keeps the leases' rows.
LEMMA LeaseRowsStep ==
    ASSUME Typed, Chain, Budget, Leases, [Next]_vars
    PROVE  LeaseRows' /\ fence' \in [generation : Nat, recovery : Nat]
<1>1. fence.generation \in Nat BY SMT DEF Typed
<1>2. \A t \in Receipts : Kept(t) BY BudgetTypes, Growth, Zenon DEF Budget
<1>3. Kept("schedule") /\ Kept("unit") BY <1>2, Zenon DEF Receipts, Tables
<1>4. /\ \A n \in DOMAIN row.schedule : row'.schedule[n] = row.schedule[n]
      /\ \A n \in DOMAIN row.unit : row'.unit[n] = row.unit[n]
  BY <1>3, Zenon DEF Kept
<1>5. DOMAIN reservation \subseteq DOMAIN reservation'
  <2>1. CASE UNCHANGED reservation BY <2>1, Zenon
  <2>2. CASE StoreStep
    <3>1. PICK s, r : reservation' = With(reservation, s, r) BY <2>2, StoreShape, Zenon
    <3>2. QED BY <3>1, StoredIs, Zenon
  <2>3. CASE ReleaseStep
    <3>1. PICK S \in SUBSET DOMAIN reservation : reservation' = Released(S)
      BY <2>3, ReleaseShape, Zenon
    <3>2. QED BY <3>1, ReleasedIs, Zenon DEF Budget
  <2>4. QED BY <2>1, <2>2, <2>3, BudgetSteps, Zenon
<1>6. ASSUME NEW s \in DOMAIN reservation, s \in Retry
      PROVE  row'.schedule[s] = row.schedule[s] /\ row'.unit[s] = row.unit[s]
  <2>1. s \in Slots BY <1>6, SMT DEF Slots, Retry
  <2>2. s \in DOMAIN row.manifest BY <2>1, Zenon DEF Budget, ReservationRows, ReservationRow
  <2>3. QED BY <1>4, <1>6, <2>2, SlotUnit, Zenon
<1>7. ASSUME NEW s \in DOMAIN lease, NEW l,
             DOMAIN l = LeaseFields, l.generation = lease[s].generation,
             l.recovery = lease[s].recovery, l.account = lease[s].account,
             NEW g \in Nat, g >= fence.generation
      PROVE  /\ s \in Slots /\ s \in DOMAIN reservation'
             /\ DOMAIN l = LeaseFields
             /\ l.generation \in Nat /\ l.generation <= g
             /\ s \in Retry => /\ l.account = row'.unit[s].after + 1
                               /\ l.generation = row'.schedule[s].generation + 1
                               /\ l.recovery = row'.schedule[s].recovery
  <2>1. LeaseRow(s, lease[s]) BY Zenon DEF Leases, LeaseRows
  <2>2. lease[s].generation <= g BY <1>1, <1>7, <2>1, SMT DEF LeaseRow
  <2>3. QED BY <1>5, <1>6, <1>7, <2>1, <2>2, Zenon DEF LeaseRow
<1>8. fence.generation >= fence.generation BY <1>1, SMT
<1>9. \A s \in DOMAIN lease : DOMAIN lease[s] = LeaseFields
  BY Zenon DEF Leases, LeaseRows, LeaseRow
<1>10. CASE UNCHANGED <<fence, lease>>
  BY <1>1, <1>7, <1>8, <1>9, <1>10, Zenon DEF LeaseRows, LeaseRow, Typed
<1>11. CASE ConsumeStep
  <2>1. PICK s \in Slots :
              /\ DOMAIN lease' = DOMAIN lease
              /\ \A t \in DOMAIN lease \ {s} : lease'[t] = lease[t]
              /\ lease'[s] = lease[s] \/ Ended(s)
              /\ UNCHANGED fence
    BY <1>11, ConsumeLease, Zenon
  <2>2. \A t \in DOMAIN lease : lease'[t] = lease[t] \/ Ended(t) BY <2>1, Zenon
  <2>3. ASSUME NEW t \in DOMAIN lease PROVE LeaseRow(t, lease[t])'
    <3>1. /\ DOMAIN lease'[t] = LeaseFields /\ lease'[t].generation = lease[t].generation
          /\ lease'[t].recovery = lease[t].recovery /\ lease'[t].account = lease[t].account
      BY <1>9, <2>2, Zenon DEF Ended
    <3>2. QED BY <1>1, <1>7, <1>8, <2>1, <3>1, Zenon DEF LeaseRow
  <2>4. QED BY <2>1, <2>3, Zenon DEF LeaseRows, Typed
<1>12. CASE EndStep
  <2>1. /\ DOMAIN lease' = DOMAIN lease
        /\ \A t \in DOMAIN lease : lease'[t] = lease[t] \/ Ended(t)
        /\ fence' \in [generation : Nat, recovery : Nat] /\ fence'.generation = fence.generation
    BY <1>12, EndShape, Zenon
  <2>2. ASSUME NEW t \in DOMAIN lease PROVE LeaseRow(t, lease[t])'
    <3>1. /\ DOMAIN lease'[t] = LeaseFields /\ lease'[t].generation = lease[t].generation
          /\ lease'[t].recovery = lease[t].recovery /\ lease'[t].account = lease[t].account
      BY <1>9, <2>1, Zenon DEF Ended
    <3>2. QED BY <1>1, <1>7, <1>8, <2>1, <3>1, Zenon DEF LeaseRow
  <2>3. QED BY <2>1, <2>2, Zenon DEF LeaseRows
<1>13. CASE AcquireStep
  <2>1. PICK s \in Slots :
              /\ s \in DOMAIN reservation /\ reservation[s].state = "reserved"
              /\ reservation[s].account = account /\ task.state = "ready"
              /\ s \in Retry => s \notin DOMAIN lease
              /\ lease' = With(lease, s, NewLease(s))
              /\ fence'.generation = fence.generation + 1 /\ fence'.recovery = fence.recovery
              /\ fence' \in [generation : Nat, recovery : Nat]
    BY <1>13, AcquireShape, Zenon
  <2> DEFINE l == NewLease(s)
  <2>2. /\ DOMAIN lease' = DOMAIN lease \cup {s}
        /\ lease'[s] = l
        /\ \A t \in DOMAIN lease \ {s} : lease'[t] = lease[t]
    BY <2>1, LeasedIs, Zenon
  <2>3. /\ DOMAIN l = LeaseFields
        /\ l.generation = fence.generation + 1 /\ l.recovery = fence.recovery
        /\ l.account = account
    BY Zenon DEF NewLease, LeaseFields
  <2> HIDE DEF l
  <2>4. fence'.generation \in Nat /\ fence'.generation >= fence.generation
    BY <1>1, <2>1, SMT
  <2>5. fence'.generation <= fence'.generation BY <2>4, SMT
  <2>6. s \in Retry => /\ fence.generation = row.schedule[s].generation
                       /\ fence.recovery = row.schedule[s].recovery
    BY <2>1, Zenon DEF Leases, Ground, Paid
  <2>7. s \in Retry => account = row.unit[s].after + 1
    BY <2>1, Zenon DEF Budget, ReservationRows, ReservationRow
  <2>8. LeaseRow(s, lease[s])'
    BY <1>5, <1>6, <2>1, <2>2, <2>3, <2>4, <2>5, <2>6, <2>7, Zenon DEF LeaseRow
  <2>9. ASSUME NEW t \in DOMAIN lease, t # s PROVE LeaseRow(t, lease[t])'
    <3>1. lease'[t] = lease[t] BY <2>2, <2>9, Zenon
    <3>2. QED BY <1>7, <1>9, <2>4, <3>1, Zenon DEF LeaseRow
  <2>10. QED BY <2>1, <2>2, <2>8, <2>9, Zenon DEF LeaseRows
<1>14. QED BY <1>10, <1>11, <1>12, <1>13, LeaseSteps, Zenon

\* Every step keeps the generations of leases apart.
LEMMA GenerationsStep ==
    ASSUME Typed, Chain, Budget, Leases, [Next]_vars
    PROVE  Generations'
<1>1. fence.generation \in Nat /\ Generations BY SMT DEF Typed, Leases
<1>2. CASE /\ DOMAIN lease' = DOMAIN lease
           /\ \A s \in DOMAIN lease : lease'[s].generation = lease[s].generation
  BY <1>1, <1>2, Zenon DEF Generations
<1>3. CASE UNCHANGED lease BY <1>1, <1>3, Zenon DEF Generations
<1>4. CASE ConsumeStep
  <2>1. PICK s :
              /\ DOMAIN lease' = DOMAIN lease
              /\ \A t \in DOMAIN lease \ {s} : lease'[t] = lease[t]
              /\ lease'[s] = lease[s] \/ Ended(s)
    BY <1>4, ConsumeLease, Zenon
  <2>2. QED BY <1>2, <2>1, Zenon DEF Ended
<1>5. CASE EndStep BY <1>2, <1>5, EndShape, Zenon DEF Ended
<1>6. CASE AcquireStep
  <2>1. PICK s : lease' = With(lease, s, NewLease(s)) BY <1>6, AcquireShape, Zenon
  <2>2. /\ DOMAIN lease' = DOMAIN lease \cup {s}
        /\ lease'[s] = NewLease(s)
        /\ \A t \in DOMAIN lease \ {s} : lease'[t] = lease[t]
    BY <2>1, LeasedIs, Zenon
  <2>3. lease'[s].generation = fence.generation + 1
    <3>1. NewLease(s).generation = fence.generation + 1 BY Zenon DEF NewLease
    <3>2. QED BY <2>2, <3>1, Zenon
  <2>4. ASSUME NEW t \in DOMAIN lease PROVE lease[t].generation # fence.generation + 1
    <3>1. lease[t].generation \in Nat /\ lease[t].generation <= fence.generation
      BY Zenon DEF Leases, LeaseRows, LeaseRow
    <3>2. QED BY <1>1, <3>1, SMT
  <2>5. QED BY <1>1, <2>2, <2>3, <2>4, Zenon DEF Generations
<1>7. QED BY <1>3, <1>4, <1>5, <1>6, LeaseSteps, Zenon

\* Every step keeps runs and their leases in agreement.
LEMMA RunLeasesStep ==
    ASSUME Typed, Chain, Budget, Leases, [Next]_vars
    PROVE  RunLeases'
<1>1. RunLeases BY Zenon DEF Leases
<1>2. \A s \in DOMAIN row.run : RunLease(s, row.run[s]) BY <1>1, Zenon DEF RunLeases
<1>3. CASE ConsumeStep
  <2>1. PICK s \in Slots :
              /\ s \in DOMAIN lease /\ s \notin DOMAIN row.run
              /\ Gains("run", s, NewRun(s))
              /\ DOMAIN lease' = DOMAIN lease
              /\ \A t \in DOMAIN lease \ {s} : lease'[t] = lease[t]
              /\ lease'[s] = lease[s] \/ Ended(s)
              /\ lease'[s].state = IF s = 3 THEN "active" ELSE "released"
    BY <1>3, ConsumeLease, Zenon
  <2>2. /\ NewRun(s).account = lease[s].account
        /\ NewRun(s).generation = lease[s].generation
        /\ NewRun(s).recovery = lease[s].recovery
    BY Zenon DEF NewRun
  <2>3. /\ lease'[s].account = lease[s].account
        /\ lease'[s].generation = lease[s].generation
        /\ lease'[s].recovery = lease[s].recovery
    BY <2>1, Zenon DEF Ended
  <2>4. /\ DOMAIN row'.run = DOMAIN row.run \cup {s} /\ row'.run[s] = NewRun(s)
        /\ \A t \in DOMAIN row.run : row'.run[t] = row.run[t]
    BY <2>1, Zenon DEF Gains
  <2>5. RunLease(s, row.run[s])' BY <2>1, <2>2, <2>3, <2>4, Zenon DEF RunLease
  <2>6. ASSUME NEW t \in DOMAIN row.run PROVE RunLease(t, row.run[t])'
    <3>1. t \in DOMAIN lease' /\ lease'[t] = lease[t] /\ row'.run[t] = row.run[t]
      BY <1>2, <2>1, <2>4, Zenon DEF RunLease
    <3>2. QED BY <1>2, <3>1, Zenon DEF RunLease
  <2>7. QED BY <2>4, <2>5, <2>6, Zenon DEF RunLeases
<1>4. ASSUME row'.run = row.run, DOMAIN lease \subseteq DOMAIN lease',
             \A s \in DOMAIN row.run : lease'[s] = lease[s]
      PROVE  RunLeases'
  <2>1. ASSUME NEW s \in DOMAIN row.run PROVE RunLease(s, row.run[s])'
    <3>1. s \in DOMAIN lease' /\ lease'[s] = lease[s] /\ row'.run[s] = row.run[s]
      BY <1>2, <1>4, Zenon DEF RunLease
    <3>2. QED BY <1>2, <3>1, Zenon DEF RunLease
  <2>2. QED BY <1>4, <2>1, Zenon DEF RunLeases
<1>5. CASE row'.run = row.run /\ UNCHANGED lease BY <1>4, <1>5, Zenon
<1>6. CASE row'.run = row.run /\ EndStep
  <2>1. /\ DOMAIN lease' = DOMAIN lease
        /\ \A s \in DOMAIN row.run : lease'[s] = lease[s]
    BY <1>2, <1>6, EndShape, Zenon DEF RunLease
  <2>2. QED BY <1>4, <1>6, <2>1, Zenon
<1>7. CASE row'.run = row.run /\ AcquireStep
  <2>1. PICK s : s \notin DOMAIN row.run /\ lease' = With(lease, s, NewLease(s))
    BY <1>7, AcquireShape, Zenon
  <2>2. /\ DOMAIN lease' = DOMAIN lease \cup {s}
        /\ \A t \in DOMAIN lease \ {s} : lease'[t] = lease[t]
    BY <2>1, LeasedIs, Zenon
  <2>3. \A t \in DOMAIN row.run : t \in DOMAIN lease /\ t # s
    BY <1>2, <2>1, Zenon DEF RunLease
  <2>4. QED BY <1>4, <1>7, <2>2, <2>3, Zenon
<1>8. row'.run = row.run \/ ConsumeStep BY TableSteps, Zenon DEF Typed
<1>9. QED BY <1>3, <1>5, <1>6, <1>7, <1>8, LeaseSteps, Zenon

\* When a retry reserves, every lease taken so far has come to an end: those of
\* the attempts before were consumed, and a lease on the ordinary path would
\* have taken a reservation that moves the account.
LEMMA NobodyHolds ==
    ASSUME Typed, Chain, Budget, Leases, NEW n \in Retry, n \in DOMAIN row.manifest,
           At(row.manifest[n], "ready"), n \notin DOMAIN reservation, account = row.unit[n].after,
           NEW s \in DOMAIN lease
    PROVE  lease[s].state # "active"
<1>1. /\ s \in Slots /\ s \in DOMAIN reservation /\ s # n
  BY Zenon DEF Leases, LeaseRows, LeaseRow
<1>2. /\ s \in DOMAIN row.manifest
      /\ s \in {4, 5} => account > row.unit[s - 2].after
  BY <1>1, Zenon DEF Budget, ReservationRows, ReservationRow
<1>3. Round(n) = n BY SMT DEF Round, Retry
<1>4. Now = n /\ n \in DOMAIN row.activation
  BY <1>3, ReadyAt, Zenon DEF Chain, ManifestRows
<1>5. n \in DOMAIN row.unit BY <1>4, ActivationLineage, Zenon
<1>6. ASSUME NEW t \in DOMAIN row.run, t # 3 PROVE lease[t].state # "active"
  BY <1>6, Zenon DEF Leases, RunLeases, RunLease
<1>7. CASE s = 1
  <2>1. 2 \in DOMAIN row.unit BY <1>5, SecondUnit, Zenon DEF Retry
  <2>2. 2 - 1 = 1 /\ 1 # 3 BY SMT
  <2>3. 1 \in DOMAIN row.run BY <2>1, <2>2, UnitLineage, Zenon
  <2>4. QED BY <1>6, <1>7, <2>2, <2>3, Zenon
<1>8. CASE s = 2
  <2>1. n = 3 BY <1>1, <1>8, Zenon DEF Retry
  <2>2. 3 - 1 = 2 /\ 2 # 3 BY SMT
  <2>3. 2 \in DOMAIN row.run BY <1>5, <2>1, <2>2, UnitLineage, Zenon
  <2>4. QED BY <1>6, <1>8, <2>2, <2>3, Zenon
<1>9. ASSUME s = 3 \/ s = 5, n = 2 PROVE FALSE
  <2>1. Round(s) = 3 BY <1>9, Rounds, Zenon
  <2>2. 3 \in DOMAIN row.activation BY <1>2, <2>1, Zenon DEF Chain, ManifestRows, Retry
  <2>3. Now = 3 BY <2>2, Zenon DEF Now, Has
  <2>4. QED BY <1>4, <1>9, <2>3, SMT
<1>10. row.unit[n].after \in Nat BY <1>5, Zenon DEF Chain, UnitRows
<1>11. ASSUME s = n + 2 PROVE FALSE
  <2>1. s \in {4, 5} /\ s - 2 = n BY <1>11, SMT DEF Retry
  <2>2. account > row.unit[n].after BY <1>2, <2>1, Zenon
  <2>3. QED BY <1>10, <2>2, SMT
<1>12. ASSUME s = 4, n = 3 PROVE FALSE
  <2>1. 2 \in DOMAIN row.manifest BY <1>5, <1>12, SecondUnit, Zenon
  <2>2. QED BY <1>2, <1>12, <2>1, Zenon DEF Chain, PathsApart
<1>13. s = 1 \/ s = 2 \/ s = 3 \/ s = 4 \/ s = 5 BY <1>1, SMT DEF Slots
<1>14. n = 2 \/ n = 3 BY Zenon DEF Retry
<1>15. 2 + 2 = 4 /\ 3 + 2 = 5 BY SMT
<1>16. QED BY <1>1, <1>7, <1>8, <1>9, <1>11, <1>12, <1>13, <1>14, <1>15, Zenon

\* Every step keeps the ground of a paid attempt: nobody can move the fence between
\* its reservation and its lease.
LEMMA GroundStep ==
    ASSUME Typed, Chain, Budget, Leases, [Next]_vars
    PROVE  Ground'
<1> DEFINE Still(n) == /\ fence.generation = row.schedule[n].generation
                       /\ fence.recovery = row.schedule[n].recovery
                       /\ \A s \in DOMAIN lease : lease[s].state # "active"
<1> SUFFICES ASSUME NEW n \in Retry, Paid(n)' PROVE Still(n)' BY Zenon DEF Ground
<1>1. /\ task'.state = "ready" /\ n \notin DOMAIN lease'
      /\ n \in DOMAIN reservation' /\ reservation'[n].state = "reserved"
      /\ reservation'[n].account = account'
  BY Zenon DEF Paid
<1>2. account \in Nat /\ n \in Slots /\ Ground
  BY SMT DEF Typed, Slots, Retry, Leases
<1>3. ASSUME n \in DOMAIN reservation
      PROVE  /\ n \in DOMAIN row.manifest /\ n \in DOMAIN row.schedule
             /\ row'.schedule[n] = row.schedule[n]
  <2>1. n \in DOMAIN row.manifest BY <1>2, <1>3, Zenon DEF Budget, ReservationRows, ReservationRow
  <2>2. n \in DOMAIN row.schedule BY <2>1, SlotUnit, Zenon
  <2>3. Kept("schedule") BY BudgetTypes, Growth, Zenon DEF Budget, Receipts, Tables
  <2>4. QED BY <2>1, <2>2, <2>3, Zenon DEF Kept
<1>4. ASSUME n \in DOMAIN reservation, reservation[n].state = "reserved"
      PROVE  reservation[n].account \in Nat /\ reservation[n].account <= account
  BY <1>4, Zenon DEF Budget, ReservationRows, ReservationRow
<1>5. CASE StoreStep
  <2>1. PICK s, q, e :
              /\ reservation' = With(reservation, s, NewReservation(q, e))
              /\ account' = account + 1
              /\ UNCHANGED <<task, plan, gated, sibling, fence, lease, row>>
              /\ s \in Slots => s \in DOMAIN row.manifest /\ At(row.manifest[s], "ready")
              /\ s \in Retry => /\ s \notin DOMAIN reservation
                                /\ account = row.unit[s].after
                                /\ Unmoved(row.schedule[s])
    BY <1>5, StoreShape, Zenon
  <2>2. /\ DOMAIN reservation' = DOMAIN reservation \cup {s}
        /\ \A j \in DOMAIN reservation \ {s} : reservation'[j] = reservation[j]
    BY <2>1, StoredIs, Zenon
  <2>3. CASE n # s
    <3>1. n \in DOMAIN reservation /\ reservation'[n] = reservation[n]
      BY <1>1, <2>2, <2>3, Zenon
    <3>2. reservation[n].account = account + 1 BY <1>1, <2>1, <3>1, Zenon
    <3>3. reservation[n].account \in Nat /\ reservation[n].account <= account
      BY <1>1, <1>4, <3>1, Zenon
    <3>4. QED BY <1>2, <3>2, <3>3, SMT
  <2>4. CASE n = s
    <3>1. fence = [generation |-> row.schedule[n].generation, recovery |-> row.schedule[n].recovery]
      BY <2>1, <2>4, Zenon DEF Unmoved
    <3>2. fence.generation = row.schedule[n].generation /\ fence.recovery = row.schedule[n].recovery
      BY <3>1, Zenon
    <3>3. \A t \in DOMAIN lease : lease[t].state # "active"
      BY <1>2, <2>1, <2>4, NobodyHolds, Zenon
    <3>4. QED BY <2>1, <3>2, <3>3, Zenon
  <2>5. QED BY <2>3, <2>4, Zenon
<1>6. CASE ReleaseStep
  <2>1. PICK S \in SUBSET DOMAIN reservation :
              reservation' = Released(S) /\ account' \in Nat /\ account' > account
    BY <1>6, ReleaseShape, Zenon
  <2>2. n \in DOMAIN reservation /\ reservation'[n] = reservation[n]
    <3>1. /\ DOMAIN reservation' = DOMAIN reservation
          /\ \A s \in DOMAIN reservation : /\ s \notin S => reservation'[s] = reservation[s]
                                           /\ s \in S => reservation'[s].state = "released"
      BY <2>1, ReleasedIs, Zenon DEF Budget
    <3>2. QED BY <1>1, <3>1, Zenon
  <2>3. reservation[n].account = account' BY <1>1, <2>2, Zenon
  <2>4. reservation[n].account \in Nat /\ reservation[n].account <= account
    BY <1>1, <1>4, <2>2, Zenon
  <2>5. QED BY <1>2, <2>1, <2>3, <2>4, SMT
<1>7. CASE UnitStep
  <2>1. task.state = "failed" /\ task' = task
    BY <1>7, BudgetTypes, UnitShape, Zenon DEF Budget, RetriesTyped
  <2>2. QED BY <1>1, <2>1, Zenon
<1>8. CASE UNCHANGED reservation /\ ActivateAccount
  <2>1. account = 0 /\ account' = 1 BY <1>8, Zenon DEF ActivateAccount
  <2>2. reservation[n].account = 1 BY <1>1, <1>8, <2>1, Zenon
  <2>3. reservation[n].account \in Nat /\ reservation[n].account <= 0
    BY <1>1, <1>4, <1>8, <2>1, Zenon
  <2>4. QED BY <2>2, <2>3, SMT
<1>9. CASE UNCHANGED <<reservation, account>>
  <2>1. /\ n \in DOMAIN reservation /\ reservation[n].state = "reserved"
        /\ reservation[n].account = account
        /\ row'.schedule[n] = row.schedule[n]
    BY <1>1, <1>3, <1>9, Zenon
  <2>2. ~ConsumeStep
    <3>1. ConsumeStep => task'.state = "running" BY ConsumeLease, Zenon
    <3>2. QED BY <1>1, <3>1, Zenon
  <2>3. n \in DOMAIN row.manifest BY <1>3, <2>1, Zenon
  <2>4. ~ActivateStep
    <3>1. SUFFICES ASSUME ActivateStep PROVE FALSE BY Zenon
    <3>2. PICK m \in Retry : m \in DOMAIN row.schedule /\ Now = m - 1 /\ UNCHANGED lease
      BY <3>1, ActivateShape, Zenon
    <3>3. Round(n) = n BY SMT DEF Round, Retry
    <3>4. n \in DOMAIN row.activation BY <2>3, <3>3, Zenon DEF Chain, ManifestRows
    <3>5. n <= Now BY <3>4, NowIs, Zenon
    <3>6. n = 2 /\ m = 3 BY <3>2, <3>5, SMT DEF Retry
    <3>7. 3 \in DOMAIN row.unit BY <3>2, <3>6, Zenon DEF Chain, ScheduleRows, RetryRows
    <3>8. 3 - 1 = 2 BY SMT
    <3>9. 2 \in DOMAIN row.run BY <3>7, <3>8, UnitLineage, Zenon
    <3>10. 2 \in DOMAIN lease BY <3>9, Zenon DEF Leases, RunLeases, RunLease
    <3>11. QED BY <1>1, <3>2, <3>6, <3>10, Zenon
  <2>5. task.state = "ready"
    <3>1. ASSUME FailureStep PROVE task'.state = "failed"
      <4>1. task' = [state |-> "failed", revision |-> task.revision + 1]
        BY <3>1, FailureShape, Zenon
      <4>2. QED BY <4>1, Zenon
    <3>2. ASSUME NEW t \in Ends, task' = [state |-> t, revision |-> task.revision + 1]
          PROVE  FALSE
      <4>1. t # "ready" BY Zenon DEF Ends
      <4>2. task'.state = t BY <3>2, Zenon
      <4>3. QED BY <1>1, <4>1, <4>2, Zenon
    <3>3. task' = task BY <1>1, <2>2, <2>4, <3>1, <3>2, TaskSteps, Zenon
    <3>4. QED BY <1>1, <3>3, Zenon
  <2>6. CASE UNCHANGED <<fence, lease>>
    <3>1. Paid(n) BY <1>1, <2>1, <2>5, <2>6, Zenon DEF Paid
    <3>2. QED BY <1>2, <2>1, <2>6, <3>1, Zenon DEF Ground
  <2>7. CASE AcquireStep
    <3>1. PICK s \in Slots :
              /\ s \in DOMAIN reservation /\ reservation[s].state = "reserved"
              /\ reservation[s].account = account
              /\ lease' = With(lease, s, NewLease(s))
      BY <2>7, AcquireShape, Zenon
    <3>2. DOMAIN lease' = DOMAIN lease \cup {s} BY <3>1, LeasedIs, Zenon
    <3>3. n = s BY <2>1, <3>1, Zenon DEF Budget, Versions
    <3>4. QED BY <1>1, <3>2, <3>3, Zenon
  <2>8. CASE EndStep
    <3>1. DOMAIN lease' = DOMAIN lease /\ \E s \in DOMAIN lease : lease[s].state = "active"
      BY <2>8, EndShape, Zenon
    <3>2. Paid(n) BY <1>1, <2>1, <2>5, <3>1, Zenon DEF Paid
    <3>3. QED BY <1>2, <3>1, <3>2, Zenon DEF Ground
  <2>9. QED BY <2>2, <2>6, <2>7, <2>8, LeaseSteps, Zenon
<1>10. QED BY <1>5, <1>6, <1>7, <1>8, <1>9, BudgetSteps, Zenon

\* Every step keeps the leases' invariant.
LEMMA LeasesStep ==
    ASSUME Typed, Chain, Budget, Leases, [Next]_vars
    PROVE  Leases'
BY LeaseRowsStep, GenerationsStep, RunLeasesStep, GroundStep, Zenon DEF Leases

-----------------------------------------------------------------------------
(* The plan, its other task and the approval.                              *)

\* A plan that has failed, or that a retry has reopened, has no other work left.
PlanRows == plan.state = "failed" \/ row.activation # <<>> => sibling \in Settled

\* A gated task has been run from the slot of its first revision only.
Approval == gated => DOMAIN row.run \subseteq {1}

\* States of the plan's other task.
SiblingStates == Settled \cup {"ready", "blocked", "running"}

\* The plan's state worked out from its two tasks.
Refreshed(t, s) ==
    /\ sibling \in SiblingStates => s \in SiblingStates
    /\ sibling \in Settled => s \in Settled
    /\ sibling' = s
    /\ plan' = [state |-> PlanState(t, s), revision |-> plan.revision + 1]

\* A plan has failed only when no other task of it has work left (_plan_state).
LEMMA PlanStateIs ==
    ASSUME NEW t, NEW s
    PROVE  /\ PlanState(t, s) \in PlanStates
           /\ PlanState(t, s) = "failed" => s \in Settled
BY Zenon DEF PlanState, PlanStates, Settled, TerminalStates

\* Settling a task refreshes its dependents and the plan.
LEMMA SettleRefreshes ==
    ASSUME NEW t, Settle(t)
    PROVE  Refreshed(t, RefreshDependents(t, sibling)) /\ UNCHANGED gated
<1>1. /\ sibling \in SiblingStates => RefreshDependents(t, sibling) \in SiblingStates
      /\ sibling \in Settled => RefreshDependents(t, sibling) \in Settled
  BY Zenon DEF RefreshDependents, SiblingStates, Settled, TerminalStates
<1>2. QED BY <1>1, Zenon DEF Settle, Refreshed

\* The plan and its other task are moved by settling, activations and runs.
LEMMA GraphSteps ==
    ASSUME [Next]_vars
    PROVE  /\ UNCHANGED gated
           /\ \/ UNCHANGED <<plan, sibling>>
              \/ UNCHANGED sibling /\ plan' = [plan EXCEPT !.revision = @ + 1]
              \/ ActivateStep
              \/ StartSibling
              \/ \E t, s : Refreshed(t, s)
<1> DEFINE Goal ==
      /\ UNCHANGED gated
      /\ \/ UNCHANGED <<plan, sibling>>
         \/ UNCHANGED sibling /\ plan' = [plan EXCEPT !.revision = @ + 1]
         \/ ActivateStep
         \/ StartSibling
         \/ \E t, s : Refreshed(t, s)
<1> SUFFICES Goal BY Zenon
<1>1. UNCHANGED graphVars => Goal BY Zenon DEF graphVars
<1>2. \A t : Settle(t) => Goal BY SettleRefreshes, Zenon
<1>3. UNCHANGED <<gated, sibling>> /\ plan' = [plan EXCEPT !.revision = @ + 1] => Goal BY Zenon
<1>4. ActivateStep => Goal BY Zenon DEF ActivateStep, Activate, ActivateV2, Reopen
<1>5. StartSibling => Goal BY Zenon DEF StartSibling
<1>6. \A t, s : Refreshed(t, s) /\ UNCHANGED gated => Goal BY Zenon
<1>7. UNCHANGED <<plan, gated, sibling>> => Goal BY Zenon
<1> HIDE DEF Goal
<1>8. CASE UNCHANGED vars BY <1>7, <1>8, Zenon DEF vars
<1>9. CASE RunStep
  <2>1. ActivateAccount => Goal BY <1>1, Zenon DEF ActivateAccount
  <2>2. \A s, q : Reserve(s, q) => Goal BY <1>1, Zenon DEF Reserve, Store
  <2>3. \A s : RecordCheckpoint(s) \/ IssueManifest(s) \/ Acquire(s) => Goal
    BY <1>1, Zenon DEF RecordCheckpoint, NextCheckpoint, IssueManifest, Acquire, TakeLease
  <2>4. RecordCheckpointV3 \/ AcquireV3 => Goal
    BY <1>1, Zenon DEF RecordCheckpointV3, NextCheckpoint, AcquireV3, TakeLease
  <2>5. CompleteV3 => Goal BY <1>2, Zenon DEF CompleteV3
  <2>6. \A s : Consume(s) => Goal BY <1>3, Zenon DEF Consume, StartTask
  <2>7. ConsumeV3 => Goal BY <1>3, Zenon DEF ConsumeV3, StartTask
  <2>8. \A s, class : RecordFailure(s, class) => Goal BY <1>2, Zenon DEF RecordFailure
  <2>9. \A class : RecordFailureV3(class) => Goal BY <1>3, Zenon DEF RecordFailureV3
  <2>10. QED
    BY <1>9, <2>1, <2>2, <2>3, <2>4, <2>5, <2>6, <2>7, <2>8, <2>9, Zenon DEF RunStep
<1>10. CASE RetryStep
  <2>1. Receipted \/ UnitStep => Goal
    BY <1>1, Zenon DEF Receipted, UnitStep, ConsumeUnit, ConsumeUnitV2, Spent
  <2>2. Bury => Goal BY <1>7, Zenon DEF Bury
  <2>3. \A q : ReserveRetry(q) \/ ReserveV4(q) => Goal
    BY <1>1, Zenon DEF ReserveRetry, ReserveV4, Store
  <2>4. \A n : BackoffEnds(n) => Goal BY <1>1, Zenon DEF BackoffEnds
  <2>5. QED BY <1>4, <1>10, <2>1, <2>2, <2>3, <2>4, ReceiptSteps, Zenon
<1>11. CASE PlanStep
  <2>1. \A t : Transition(t) => Goal BY <1>2, Zenon DEF Transition
  <2>2. ASSUME NEW s \in TerminalStates, EndSibling(s) PROVE Goal
    <3>1. s \in SiblingStates /\ s \in Settled BY Zenon DEF SiblingStates, Settled
    <3>2. Refreshed(task.state, s) /\ UNCHANGED gated
      BY <2>2, <3>1, Zenon DEF EndSibling, Refreshed
    <3>3. QED BY <1>6, <3>2, Zenon
  <2>3. QED BY <1>5, <1>11, <2>1, <2>2, Zenon DEF PlanStep
<1>12. CASE RecoveryStep
  <2>1. RecoverBudget \/ RecoverBudgetV4 => Goal
    BY <1>1, Zenon DEF RecoverBudget, RecoverBudgetV4
  <2>2. RecoverLeases \/ RecoverLeasesV3 => Goal
    BY <1>1, Zenon DEF RecoverLeases, RecoverLeasesV3, RecoveredLeases
  <2>3. ASSUME RecoverPlan PROVE Goal
    <3> DEFINE t == IF task.state \in Interrupted THEN "failed" ELSE task.state
               s == IF sibling \in Interrupted THEN "failed" ELSE sibling
    <3>1. /\ sibling' = s /\ UNCHANGED gated
          /\ plan' = [state |-> PlanState(t, sibling'), revision |-> plan.revision + 1]
      BY <2>3, Zenon DEF RecoverPlan
    <3>2. /\ sibling \in SiblingStates => s \in SiblingStates
          /\ sibling \in Settled => s \in Settled
      BY Zenon DEF SiblingStates, Settled, TerminalStates
    <3> HIDE DEF t, s
    <3>3. Refreshed(t, s) BY <3>1, <3>2, Zenon DEF Refreshed
    <3>4. QED BY <1>6, <3>1, <3>3, Zenon
  <2>4. QED BY <1>12, <2>1, <2>2, <2>3, Zenon DEF RecoveryStep
<1>13. CASE Outside
  <2>1. SetAuthority \/ ReplaceWorker \/ (\E d : Lapse(d)) => Goal
    BY <1>1, Zenon DEF SetAuthority, ReplaceWorker, Lapse
  <2>2. \A q : ReserveOther(q) => Goal BY <1>1, Zenon DEF ReserveOther, Store
  <2>3. \A s : Release(s) => Goal BY <1>1, Zenon DEF Release
  <2>4. QED BY <1>13, <2>1, <2>2, <2>3, Zenon DEF Outside
<1>14. QED BY <1>8, <1>9, <1>10, <1>11, <1>12, <1>13, Zenon DEF Next

\* Every step keeps the plan settled once a retry has reopened it.
LEMMA PlanRowsStep ==
    ASSUME Typed, Chain, PlanRows, [Next]_vars
    PROVE  /\ PlanRows'
           /\ plan' \in [state : PlanStates, revision : Nat]
           /\ sibling' \in SiblingStates
<1>1. plan \in [state : PlanStates, revision : Nat] /\ sibling \in SiblingStates
  BY Zenon DEF Typed, SiblingStates
<1>2. plan.revision \in Nat /\ plan.revision + 1 \in Nat /\ plan.state \in PlanStates
  BY <1>1, SMT
<1>3. CASE ActivateStep
  <2>1. /\ plan.state = "failed" /\ UNCHANGED sibling
        /\ plan' = [state |-> "active", revision |-> plan.revision + 1]
    BY <1>3, ActivateShape, Zenon
  <2>2. sibling' \in Settled BY <2>1, Zenon DEF PlanRows
  <2>3. plan' \in [state : PlanStates, revision : Nat] BY <1>2, <2>1, Zenon DEF PlanStates
  <2>4. QED BY <1>1, <2>1, <2>2, <2>3, Zenon DEF PlanRows
<1>4. row'.activation = row.activation \/ ActivateStep BY TableSteps, Zenon DEF Typed
<1>5. CASE row'.activation = row.activation /\ UNCHANGED <<plan, sibling>>
  BY <1>1, <1>5, Zenon DEF PlanRows
<1>6. CASE /\ row'.activation = row.activation /\ UNCHANGED sibling
           /\ plan' = [plan EXCEPT !.revision = @ + 1]
  <2>1. plan' \in [state : PlanStates, revision : Nat] /\ plan'.state = plan.state
    BY <1>1, <1>6, SMT
  <2>2. QED BY <1>1, <1>6, <2>1, Zenon DEF PlanRows
<1>7. CASE row'.activation = row.activation /\ StartSibling
  <2>1. /\ plan.state = "active" /\ sibling = "ready" /\ sibling' = "running"
        /\ plan' = [plan EXCEPT !.revision = @ + 1]
    BY <1>7, Zenon DEF StartSibling
  <2>2. plan' \in [state : PlanStates, revision : Nat] /\ plan'.state = "active"
    BY <1>1, <2>1, SMT
  <2>3. sibling \notin Settled BY <2>1, Zenon DEF Settled, TerminalStates
  <2>4. QED BY <1>7, <2>1, <2>2, <2>3, Zenon DEF PlanRows, SiblingStates
<1>8. CASE row'.activation = row.activation /\ \E t, s : Refreshed(t, s)
  <2>1. PICK t, s : Refreshed(t, s) BY <1>8, Zenon
  <2>2. /\ s \in SiblingStates /\ sibling' = s
        /\ sibling \in Settled => sibling' \in Settled
        /\ plan' = [state |-> PlanState(t, s), revision |-> plan.revision + 1]
    BY <1>1, <2>1, Zenon DEF Refreshed
  <2>3. PlanState(t, s) \in PlanStates /\ (PlanState(t, s) = "failed" => s \in Settled)
    BY PlanStateIs, Zenon
  <2>4. plan'.state = PlanState(t, s) BY <2>2, Zenon
  <2>5. plan' \in [state : PlanStates, revision : Nat] BY <1>2, <2>2, <2>3, Zenon
  <2>6. QED BY <1>8, <2>2, <2>3, <2>4, <2>5, Zenon DEF PlanRows
<1>9. QED BY <1>3, <1>4, <1>5, <1>6, <1>7, <1>8, GraphSteps, Zenon

\* Every step keeps a gated task from a second run.
LEMMA ApprovalStep ==
    ASSUME Typed, Chain, Approval, [Next]_vars
    PROVE  Approval'
<1>1. UNCHANGED gated BY GraphSteps, Zenon
<1>2. CASE row'.run = row.run BY <1>1, <1>2, Zenon DEF Approval
<1>3. CASE ConsumeStep
  <2>1. PICK s \in Slots :
              /\ s \in DOMAIN row.manifest /\ At(row.manifest[s], "ready")
              /\ Gains("run", s, NewRun(s))
              /\ gated /\ s # 3 => task.revision = 1
    BY <1>3, RunShape, Zenon
  <2>2. Round(s) \in 1..3 /\ task.revision = 3 * Round(s) - 2 BY <2>1, ReadyAt, Zenon
  <2>3. CASE s # 3
    <3>1. gated => Round(s) = 1 BY <2>1, <2>2, <2>3, SMT
    <3>2. Round(s) = 1 => s = 1 BY SMT DEF Round, Slots
    <3>3. QED BY <1>1, <2>1, <3>1, <3>2, Zenon DEF Approval, Gains
  <2>4. CASE s = 3
    <3>1. 3 \in DOMAIN row.activation
      BY <2>1, <2>4, Rounds, Zenon DEF Chain, ManifestRows, Retry
    <3>2. 3 \in DOMAIN row.unit BY <3>1, ActivationLineage, Zenon
    <3>3. 3 - 1 = 2 /\ 2 \notin {1} BY SMT
    <3>4. 2 \in DOMAIN row.run BY <3>2, <3>3, UnitLineage, Zenon
    <3>5. QED BY <1>1, <3>3, <3>4, Zenon DEF Approval
  <2>5. QED BY <2>3, <2>4, Zenon
<1>4. QED BY <1>2, <1>3, TableSteps, Zenon DEF Typed

-----------------------------------------------------------------------------
(* The invariant of the retry system.                                      *)

\* The inductive invariant.
Inv == Typed /\ Chain /\ Budget /\ Leases /\ PlanRows /\ Approval

\* It holds before the first operation.
LEMMA InvInit == Init => Inv
<1> SUFFICES ASSUME Init PROVE Inv OBVIOUS
<1>1. DOMAIN <<>> = {}
  BY SMT
<1>2. /\ row = [t \in Tables |-> <<>>] /\ reservation = <<>> /\ lease = <<>> /\ account = 0
      /\ task = [state |-> "ready", revision |-> 1] /\ plan = [state |-> "active", revision |-> 1]
      /\ fence = [generation |-> 0, recovery |-> 1] /\ gated \in Gating /\ sibling \in Siblings
  BY Zenon DEF Init
<1>3. DOMAIN row = Tables /\ \A t \in Tables : DOMAIN row[t] = {} BY <1>1, <1>2, Zenon
<1>4. /\ DOMAIN row.manifest = {} /\ DOMAIN row.run = {} /\ DOMAIN row.failure = {}
      /\ DOMAIN row.failed = {} /\ DOMAIN row.decision = {} /\ DOMAIN row.unit = {}
      /\ DOMAIN row.retry = {} /\ DOMAIN row.schedule = {} /\ DOMAIN row.activation = {}
      /\ DOMAIN row.disposition = {} /\ DOMAIN row.completion = {}
  BY <1>3, Zenon DEF Tables
<1>5. DOMAIN reservation = {} /\ DOMAIN lease = {} BY <1>1, <1>2, Zenon
<1>6. task.state = "ready" /\ task.revision = 1 /\ plan.state = "active" BY <1>2, Zenon
<1>7. Typed
  <2>1. /\ task \in [state : TaskStates, revision : Nat]
        /\ plan \in [state : PlanStates, revision : Nat]
    BY <1>2, SMT DEF TaskStates, PlanStates
  <2>2. fence \in [generation : Nat, recovery : Nat] /\ account \in Nat BY <1>2, SMT
  <2>3. gated \in BOOLEAN /\ sibling \in Settled \cup {"ready", "blocked", "running"}
    BY <1>2, RetryAssumption, Zenon DEF Settled
  <2>4. QED BY <1>3, <2>1, <2>2, <2>3, Zenon DEF Typed
<1>8. Chain
  <2>1. Now = 1 BY <1>4, Zenon DEF Now, Has
  <2>2. Clock BY <1>6, <2>1, SMT DEF Clock
  <2>3. ManifestRows /\ PathsApart /\ RunRows /\ FailureRows /\ FailedRows /\ DecisionRows
    BY <1>4, Zenon DEF ManifestRows, PathsApart, RunRows, FailureRows, FailedRows, DecisionRows
  <2>4. UnitRows /\ RetryRows /\ ScheduleRows /\ ActivationRows /\ DispositionRows /\ CompletionRows
    BY <1>4, Zenon
       DEF UnitRows, RetryRows, ScheduleRows, ActivationRows, DispositionRows, CompletionRows
  <2>5. QED BY <2>2, <2>3, <2>4, Zenon DEF Chain
<1>9. Budget BY <1>4, <1>5, Zenon DEF Budget, ReservationRows, Versions, Drawn
<1>10. Leases
  <2>1. LeaseRows /\ Generations /\ RunLeases
    BY <1>4, <1>5, Zenon DEF LeaseRows, Generations, RunLeases
  <2>2. Ground BY <1>5, Zenon DEF Ground, Paid
  <2>3. QED BY <2>1, <2>2, Zenon DEF Leases
<1>11. PlanRows
  <2>1. row.activation = <<>> BY <1>2, Zenon DEF Tables
  <2>2. QED BY <1>6, <2>1, Zenon DEF PlanRows
<1>12. Approval BY <1>4, Zenon DEF Approval
<1>13. QED BY <1>7, <1>8, <1>9, <1>10, <1>11, <1>12, Zenon DEF Inv

\* Every step keeps it.
LEMMA InvStep ==
    ASSUME Inv, [Next]_vars
    PROVE  Inv'
<1>1. Typed /\ Chain /\ Budget /\ Leases /\ PlanRows /\ Approval BY Zenon DEF Inv
<1>2. Drawn /\ RetriesTyped BY <1>1, BudgetTypes, Zenon DEF Budget
<1>3. Chain' BY <1>1, <1>2, ChainStep, Zenon
<1>4. Budget' BY <1>1, BudgetStep, Zenon
<1>5. Leases' BY <1>1, LeasesStep, Zenon
<1>6. PlanRows' BY <1>1, PlanRowsStep, Zenon
<1>7. Approval' BY <1>1, ApprovalStep, Zenon
<1>8. Typed'
  <2>1. DOMAIN row' = Tables BY <1>1, TableSteps, Zenon DEF Typed
  <2>2. task' \in [state : TaskStates, revision : Nat] BY <1>1, Onward, Zenon
  <2>3. plan' \in [state : PlanStates, revision : Nat] /\ sibling' \in SiblingStates
    BY <1>1, PlanRowsStep, Zenon
  <2>4. gated' \in BOOLEAN BY <1>1, GraphSteps, Zenon DEF Typed
  <2>5. account' \in Nat BY <1>1, AccountOnward, Zenon
  <2>6. fence' \in [generation : Nat, recovery : Nat] BY <1>1, LeaseRowsStep, Zenon
  <2>7. QED BY <2>1, <2>2, <2>3, <2>4, <2>5, <2>6, Zenon DEF Typed, SiblingStates
<1>9. QED BY <1>3, <1>4, <1>5, <1>6, <1>7, <1>8, Zenon DEF Inv

\* In every reachable state of the retry services the receipts form their chain, the
\* reservations and leases carry the versions they were stored at, and the plan and the
\* approval are as the theorems below need them.
THEOREM Invariant == Spec => []Inv
<1>1. Init => Inv BY InvInit
<1>2. Inv /\ [Next]_vars => Inv' BY InvStep
<1>3. QED BY <1>1, <1>2, PTL DEF Spec

-----------------------------------------------------------------------------
(* What the invariant gives.                                               *)

\* A receipt, once stored, is never rewritten and never lost: whatever comes
\* after it, every table but the checkpoint heads only grows (the immutability
\* triggers of migrations 0035 to 0078 are never the ones that refuse).
THEOREM ReceiptsKept == Spec => [][\A t \in Receipts : Kept(t)]_vars
<1>1. Inv /\ [Next]_vars => [\A t \in Receipts : Kept(t)]_vars
  <2> SUFFICES ASSUME Inv, [Next]_vars PROVE \A t \in Receipts : Kept(t) OBVIOUS
  <2>1. Typed /\ Chain /\ Drawn /\ RetriesTyped BY BudgetTypes, Zenon DEF Inv, Budget
  <2>2. QED BY <2>1, Growth, Zenon
<1>2. QED BY <1>1, Invariant, PTL DEF Spec

\* Units are conserved, whatever the reservation of attempt one holds: what a receipt
\* says remains, and the units drawn up to it, add up to what was reserved (consume,
\* _consume_v2).
THEOREM UnitsAreConserved == Spec => []UnitsConserved
<1>1. Inv => UnitsConserved
  <2> SUFFICES ASSUME Inv, NEW n \in DOMAIN row.unit
               PROVE  row.unit[n].remaining + Cardinality({m \in DOMAIN row.unit : m <= n})
                      = reservation[row.unit[n].capacity].retries
    BY Zenon DEF UnitsConserved
  <2>1. Chain /\ Drawn BY Zenon DEF Inv, Budget
  <2>2. /\ n \in Retry /\ row.unit[n].capacity = 1
        /\ row.unit[n].remaining + (n - 1) = reservation[1].retries
    BY <2>1, Zenon DEF Chain, UnitRows, Drawn
  <2>3. DOMAIN row.unit \subseteq {2, 3} BY <2>1, Zenon DEF Chain, UnitRows, Retry
  <2>4. CASE n = 2
    <3>1. {m \in DOMAIN row.unit : m <= n} = {2} BY <2>3, <2>4, SMT
    <3>2. Cardinality({2}) = 1 BY Cards, Zenon
    <3>3. n - 1 = 1 BY <2>4, SMT
    <3>4. QED BY <2>2, <3>1, <3>2, <3>3, Zenon
  <2>5. CASE n = 3
    <3>1. 2 \in DOMAIN row.unit BY <2>1, <2>5, SecondUnit, Zenon
    <3>2. {m \in DOMAIN row.unit : m <= n} = DOMAIN row.unit BY <2>3, <2>5, SMT
    <3>3. Cardinality(DOMAIN row.unit) = 2 BY <2>1, <2>5, <3>1, UnitCount, Zenon
    <3>4. n - 1 = 2 BY <2>5, SMT
    <3>5. QED BY <2>2, <3>2, <3>3, <3>4, Zenon
  <2>6. QED BY <2>2, <2>4, <2>5, Zenon DEF Retry
<1>2. QED BY <1>1, Invariant, PTL

\* Only a transient failure brings the task back, for every budget and every order of
\* operations: the revision an activation reopens is always the one a retryable typed
\* failure left (evaluate, _evaluate_retry_attempt, and consume and _consume_v2 of
\* orchestration_retry_activation.py).
THEOREM RetriedWereTransient == Spec => []RetriedWasTransient
<1>1. Inv => RetriedWasTransient
  <2> SUFFICES ASSUME Inv, NEW n \in DOMAIN row.activation
               PROVE  \E s \in DOMAIN row.failure :
                          /\ row.failure[s].task = row.activation[n].task - 1
                          /\ row.failure[s].class = "worker_process_failed"
    BY Zenon DEF RetriedWasTransient
  <2>1. Chain BY Zenon DEF Inv
  <2>2. n \in Retry /\ n \in DOMAIN row.unit /\ row.activation[n].task = 3 * n - 2
    BY <2>1, ActivationLineage, Zenon DEF Chain, ActivationRows
  <2>3. n - 1 \in DOMAIN row.failure /\ row.failure[n - 1].class \in RetryableClasses
    BY <2>1, <2>2, UnitLineage, Zenon
  <2>4. row.failure[n - 1].task = 3 * Round(n - 1) BY <2>1, <2>3, Zenon DEF Chain, FailureRows
  <2>5. row.failure[n - 1].task = row.activation[n].task - 1
    <3>1. Round(n - 1) = n - 1 BY <2>2, SMT DEF Round, Retry
    <3>2. QED BY <2>2, <2>4, <3>1, SMT DEF Retry
  <2>6. QED BY <2>3, <2>5, Zenon DEF RetryableClasses
<1>2. QED BY <1>1, Invariant, PTL

\* A retry reopens a settled plan only, whatever the other task of the plan does
\* meanwhile (_plan_state; an activation asks for a failed plan).
THEOREM RetriesNeedSettledPlan == Spec => []RetryNeedsSettledPlan
<1>1. Inv => RetryNeedsSettledPlan
  BY Zenon DEF Inv, PlanRows, RetryNeedsSettledPlan, Settled
<1>2. QED BY <1>1, Invariant, PTL

\* One human approval covers one run, on every path to a run: the ordinary leases bind
\* the approval to the task's revision (_validate_current in orchestration_lease.py), and
\* attempt three, whose lease asks for the unexpired approval at whatever revision
\* (orchestration_lease_v3.py), comes after a run of attempt two only.
THEOREM ApprovalsCoverOneRun == Spec => []ApprovalCoversOneRun
<1>1. Inv => ApprovalCoversOneRun
  <2> SUFFICES ASSUME Inv, gated PROVE Cardinality(DOMAIN row.run) <= 1
    BY Zenon DEF ApprovalCoversOneRun
  <2>1. DOMAIN row.run = {} \/ DOMAIN row.run = {1} BY Zenon DEF Inv, Approval
  <2>2. Cardinality({}) = 0 /\ Cardinality({1}) = 1 BY Cards, Zenon
  <2>3. 0 <= 1 /\ 1 <= 1 BY SMT
  <2>4. QED BY <2>1, <2>2, <2>3, Zenon
<1>2. QED BY <1>1, Invariant, PTL

\* Every run of a retry stands on the ground its unit was paid on: between the unit and
\* the run the account moved by the attempt's own reservation and the fence by its own
\* lease (the versions that reserve, reserve_v4 and acquire in both lease files compare).
THEOREM RetriesRunOnTheirGround == Spec => []RetryRunsOnItsGround
<1>1. Inv => RetryRunsOnItsGround
  <2> SUFFICES ASSUME Inv, NEW n \in Retry \cap DOMAIN row.run
               PROVE  /\ row.run[n].account = row.unit[n].after + 1
                      /\ row.run[n].generation = row.schedule[n].generation + 1
                      /\ row.run[n].recovery = row.schedule[n].recovery
    BY Zenon DEF RetryRunsOnItsGround
  <2>1. RunLease(n, row.run[n]) BY Zenon DEF Inv, Leases, RunLeases
  <2>2. LeaseRow(n, lease[n]) BY <2>1, Zenon DEF Inv, Leases, LeaseRows, RunLease
  <2>3. QED BY <2>1, <2>2, Zenon DEF RunLease, LeaseRow
<1>2. QED BY <1>1, Invariant, PTL

\* At most one lease of both tables passes for the holder, and a lease that was
\* consumed is never recovered behind its run's back (acquire, recover and consume in
\* both files).
THEOREM HasOneHolder == Spec => []OneHolder
<1>1. Inv => OneHolder
  <2> SUFFICES ASSUME Inv PROVE OneHolder OBVIOUS
  <2>1. ASSUME NEW s \in Slots, NEW t \in Slots, MutationBinding(s), MutationBinding(t)
        PROVE  s = t
    <3>1. /\ s \in DOMAIN lease /\ t \in DOMAIN lease
          /\ fence = [generation |-> lease[s].generation, recovery |-> lease[s].recovery]
          /\ fence = [generation |-> lease[t].generation, recovery |-> lease[t].recovery]
      BY <2>1, Zenon DEF MutationBinding, Unmoved
    <3>2. fence.generation = lease[s].generation /\ fence.generation = lease[t].generation
      BY <3>1, SMT
    <3>3. QED BY <3>1, <3>2, Zenon DEF Inv, Leases, Generations
  <2>2. \A s \in DOMAIN row.run : lease[s].state = IF s = 3 THEN "active" ELSE "released"
    BY Zenon DEF Inv, Leases, RunLeases, RunLease
  <2>3. QED BY <2>1, <2>2, Zenon DEF OneHolder
<1>2. QED BY <1>1, Invariant, PTL

\* Reservations and spent units never add up to more than a ceiling of the budget, for
\* the task and for the assessment, for any ceilings and any set of requests, whatever
\* is released by recovery or drawn as a unit in between (reserve, reserve_v4).
THEOREM StaysWithinCeilings == Spec => []WithinCeilings
<1>1. Inv /\ Ceiled /\ [Next]_vars => Ceiled' BY CeiledStep, Zenon DEF Inv
<1>2. Inv /\ Ceiled => WithinCeilings BY GivenIs, Zenon DEF Inv, Ceiled, WithinCeilings
<1>3. QED BY <1>1, <1>2, CeiledInit, Invariant, PTL DEF Spec

-----------------------------------------------------------------------------
(* The refinement of TaskAttempts.                                         *)

\* The task was failed by one of its own runs.
Reported ==
    /\ task.state = "failed"
    /\ \E s \in DOMAIN row.failure : row.failure[s].task = task.revision

\* The units drawn.
Units == Cardinality(DOMAIN row.unit)

\* A move of the task from one state to another.
Moves(a, b) == task.state = a /\ task' = [state |-> b, revision |-> task.revision + 1]

\* What a person, the plan service or a recovery may do to the task.
Directed ==
    \/ Moves("ready", "cancelled")
    \/ Moves("running", "cancelling") \/ Moves("running", "succeeded") \/ Moves("running", "failed")
    \/ Moves("cancelling", "cancelled") \/ Moves("cancelling", "failed")

\* The task's own steps, the burial and what is directed from outside are all there is.
LEMMA TaskMoves ==
    ASSUME [Next]_vars
    PROVE  UNCHANGED task \/ ConsumeStep \/ FailureStep \/ ActivateStep \/ Bury \/ Directed
<1> DEFINE Goal == UNCHANGED task \/ ConsumeStep \/ FailureStep \/ ActivateStep \/ Bury \/ Directed
<1> SUFFICES Goal OBVIOUS
<1>1. UNCHANGED graphVars => Goal BY Zenon DEF graphVars
<1>2. UNCHANGED task => Goal BY Zenon
<1>3. Directed => Goal BY Zenon
<1>4. ConsumeStep \/ FailureStep \/ ActivateStep \/ Bury => Goal BY Zenon
<1> HIDE DEF Goal
<1>5. CASE UNCHANGED vars BY <1>2, <1>5, Zenon DEF vars
<1>6. CASE RunStep
  <2>1. ActivateAccount => Goal BY <1>1, Zenon DEF ActivateAccount
  <2>2. \A s, q : Reserve(s, q) => Goal BY <1>1, Zenon DEF Reserve, Store
  <2>3. \A s : RecordCheckpoint(s) \/ IssueManifest(s) \/ Acquire(s) => Goal
    BY <1>1, Zenon DEF RecordCheckpoint, NextCheckpoint, IssueManifest, Acquire, TakeLease
  <2>4. RecordCheckpointV3 \/ AcquireV3 => Goal
    BY <1>1, Zenon DEF RecordCheckpointV3, NextCheckpoint, AcquireV3, TakeLease
  <2>5. CompleteV3 => Goal
    <3>1. SUFFICES ASSUME CompleteV3 PROVE Directed BY <1>3, Zenon
    <3>2. /\ task' = [state |-> "succeeded", revision |-> task.revision + 1]
          /\ task = [state |-> "running", revision |-> row.run[3].task]
      BY <3>1, Zenon DEF CompleteV3, CheckpointV3Current, CheckpointCurrent, At, Settle
    <3>3. task.state = "running" BY <3>2, Zenon
    <3>4. QED BY <3>2, <3>3, Zenon DEF Directed, Moves
  <2>6. QED
    BY <1>4, <1>6, <2>1, <2>2, <2>3, <2>4, <2>5, Zenon DEF RunStep, ConsumeStep, FailureStep
<1>7. CASE RetryStep
  <2>1. Receipted \/ UnitStep => Goal
    BY <1>1, Zenon DEF Receipted, UnitStep, ConsumeUnit, ConsumeUnitV2, Spent
  <2>2. \A q : ReserveRetry(q) \/ ReserveV4(q) => Goal
    BY <1>1, Zenon DEF ReserveRetry, ReserveV4, Store
  <2>3. \A n : BackoffEnds(n) => Goal BY <1>1, Zenon DEF BackoffEnds
  <2>4. QED BY <1>4, <1>7, <2>1, <2>2, <2>3, ReceiptSteps, Zenon
<1>8. CASE PlanStep
  <2>1. ASSUME NEW t, Transition(t) PROVE Goal
    <3>1. /\ t \in Targets(task.state)
          /\ task' = [state |-> t, revision |-> task.revision + 1]
      BY <2>1, Zenon DEF Transition, Settle
    <3>2. \/ task.state = "ready" /\ t = "cancelled"
          \/ task.state = "running" /\ t \in {"cancelling", "succeeded"}
          \/ task.state = "cancelling" /\ t \in {"cancelled", "failed"}
      BY <3>1, SMT DEF Targets
    <3>3. Directed BY <3>1, <3>2, Zenon DEF Directed, Moves
    <3>4. QED BY <1>3, <3>3, Zenon
  <2>2. StartSibling => Goal BY <1>2, Zenon DEF StartSibling
  <2>3. \A s : EndSibling(s) => Goal BY <1>2, Zenon DEF EndSibling
  <2>4. QED BY <1>8, <2>1, <2>2, <2>3, Zenon DEF PlanStep
<1>9. CASE RecoveryStep
  <2>1. RecoverBudget \/ RecoverBudgetV4 => Goal
    BY <1>1, Zenon DEF RecoverBudget, RecoverBudgetV4
  <2>2. RecoverLeases \/ RecoverLeasesV3 => Goal
    BY <1>1, Zenon DEF RecoverLeases, RecoverLeasesV3, RecoveredLeases
  <2>3. RecoverPlan => UNCHANGED task \/ Directed
    BY Zenon DEF RecoverPlan, Interrupted, Directed, Moves
  <2>4. QED BY <1>2, <1>3, <1>9, <2>1, <2>2, <2>3, Zenon DEF RecoveryStep
<1>10. CASE Outside
  <2>1. SetAuthority \/ ReplaceWorker \/ (\E d : Lapse(d)) => Goal
    BY <1>1, Zenon DEF SetAuthority, ReplaceWorker, Lapse
  <2>2. \A q : ReserveOther(q) => Goal BY <1>1, Zenon DEF ReserveOther, Store
  <2>3. \A s : Release(s) => Goal BY <1>1, Zenon DEF Release
  <2>4. QED BY <1>10, <2>1, <2>2, <2>3, Zenon DEF Outside
<1>11. QED BY <1>5, <1>6, <1>7, <1>8, <1>9, <1>10, Zenon DEF Next

\* The activations count the attempts.
Counted ==
    /\ Now \in 1..3
    /\ DOMAIN row.activation = {n \in Retry : n <= Now}
    /\ CurrentRound = Now

\* The chain of receipts counts them.
LEMMA ChainCounts == Chain => Counted
BY NowIs, Zenon DEF Counted

\* The same after a step.
LEMMA ChainCountsNext == Chain' => Counted'
BY ChainCounts, PTL

\* The steps that change what TaskAttempts sees, told apart by the task.
LEMMA Apart ==
    ASSUME Typed, Chain
    PROVE  /\ ConsumeStep => task.state = "ready" /\ task'.state = "running"
           /\ FailureStep => task.state = "running" /\ task'.state = "failed"
           /\ ActivateStep => task.state = "failed" /\ task'.state = "ready"
           /\ Drawn /\ RetriesTyped /\ UnitStep => task.state = "failed" /\ task' = task
<1>1. ASSUME ConsumeStep PROVE task.state = "ready" /\ task'.state = "running"
  <2>1. PICK s \in Slots :
            /\ s \in DOMAIN row.manifest /\ At(row.manifest[s], "ready")
            /\ task' = [state |-> "running", revision |-> task.revision + 1]
    BY <1>1, RunShape, Zenon
  <2>2. task.state = "ready" BY <2>1, ReadyAt, Zenon
  <2>3. task'.state = "running" BY <2>1, Zenon
  <2>4. QED BY <2>2, <2>3, Zenon
<1>2. ASSUME FailureStep PROVE task.state = "running" /\ task'.state = "failed"
  <2>1. PICK s \in Slots :
            /\ s \in DOMAIN row.run /\ At(row.run[s], "running")
            /\ task' = [state |-> "failed", revision |-> task.revision + 1]
    BY <1>2, FailureShape, Zenon
  <2>2. task.state = "running" BY <2>1, RunningAt, Zenon
  <2>3. task'.state = "failed" BY <2>1, Zenon
  <2>4. QED BY <2>2, <2>3, Zenon
<1>3. ASSUME ActivateStep PROVE task.state = "failed" /\ task'.state = "ready"
  <2>1. PICK n \in Retry :
            task.state = "failed" /\ task' = [state |-> "ready", revision |-> 3 * n - 2]
    BY <1>3, ActivateShape, Zenon
  <2>2. task'.state = "ready" BY <2>1, Zenon
  <2>3. QED BY <2>1, <2>2, Zenon
<1>4. Drawn /\ RetriesTyped /\ UnitStep => task.state = "failed" /\ task' = task
  BY UnitShape, Zenon DEF RetriesTyped
<1>5. QED BY <1>1, <1>2, <1>3, <1>4, Zenon

\* The failure that a unit is drawn for, and that an activation follows, is the
\* one the task is in.
LEMMA ReportedAt ==
    ASSUME Typed, Chain, NEW n \in Retry, n - 1 \in DOMAIN row.failure,
           task.state = "failed", task.revision = 3 * (n - 1)
    PROVE  Reported
<1>1. Round(n - 1) = n - 1 BY SMT DEF Round, Retry
<1>2. row.failure[n - 1].task = 3 * (n - 1) BY <1>1, Zenon DEF Chain, FailureRows
<1>3. QED BY <1>2, Zenon DEF Reported

\* Drawing a unit spends the one retry unit between a failure and its retry.
LEMMA SpendStep ==
    ASSUME Inv, [Next]_vars, UnitStep
    PROVE  Attempts!Spend
<1>1. Typed /\ Chain /\ Drawn /\ RetriesTyped BY BudgetTypes, Zenon DEF Inv, Budget
<1>2. PICK n, u :
         /\ n \in Retry
         /\ n - 1 \in DOMAIN row.decision
         /\ Gains("unit", n, u)
         /\ Cardinality(DOMAIN row.unit) = n - 2
         /\ task.state = "failed" /\ task.revision = 3 * (n - 1)
         /\ UNCHANGED task
  BY <1>1, UnitShape, Zenon DEF RetriesTyped
<1> n \in Retry BY <1>2, Zenon
<1>3. n - 1 \in DOMAIN row.failure /\ n - 1 \in DOMAIN row.manifest
  BY <1>1, <1>2, Zenon DEF Chain, DecisionRows, FailedRows, FailureRows, RunRows
<1>4. Reported BY <1>1, <1>2, <1>3, ReportedAt, Zenon
<1>5. Now = n - 1
  <2>1. Now \in 1..3 /\ DOMAIN row.activation = {m \in Retry : m <= Now} BY <1>1, NowIs, Zenon
  <2>2. CASE Now = 1
    <3>1. n # 3
      <4>1. SUFFICES ASSUME n = 3 PROVE FALSE BY Zenon
      <4>2. 3 - 1 = 2 BY SMT
      <4>3. 2 \in DOMAIN row.activation
        BY <1>1, <1>3, <4>1, <4>2, Rounds, Zenon DEF Chain, ManifestRows, Retry
      <4>4. QED BY <2>1, <2>2, <4>3, SMT
    <3>2. QED BY <2>2, <3>1, SMT DEF Retry
  <2>3. CASE Now # 1
    <3>1. Now \in Retry /\ Now \in DOMAIN row.activation BY <2>1, <2>3, SMT DEF Retry
    <3>2. task.revision >= 3 * Now - 2 BY <1>1, <3>1, Zenon DEF Chain, ActivationRows
    <3>3. Now <= n - 1 BY <1>2, <3>1, <3>2, SMT DEF Retry
    <3>4. QED BY <3>1, <3>3, SMT DEF Retry
  <2>4. QED BY <2>2, <2>3, Zenon
<1>6. CurrentRound = n - 1 BY <1>1, <1>5, NowIs, Zenon
<1>7. ~ActivateStep /\ ~FailureStep BY <1>1, <1>2, Apart, Zenon
<1>8. row'.activation = row.activation /\ row'.failure = row.failure
  BY <1>1, <1>7, TableSteps, Zenon DEF Typed
<1>9. CurrentRound' = CurrentRound BY <1>8, Zenon DEF CurrentRound
<1>10. Reported' <=> Reported BY <1>2, <1>8, Zenon DEF Reported
<1>11. Units = CurrentRound - 1 /\ Units' = CurrentRound
  <2>1. DOMAIN row.unit \subseteq Retry BY <1>1, Zenon DEF Chain, UnitRows
  <2>2. DOMAIN row.unit \subseteq 1..6 /\ n \in 1..6 BY <2>1, SMT DEF Retry
  <2>3. n \notin DOMAIN row.unit /\ DOMAIN row'.unit = DOMAIN row.unit \cup {n}
    BY <1>2, Zenon DEF Gains
  <2>4. Cardinality(DOMAIN row'.unit) = Cardinality(DOMAIN row.unit) + 1
    BY <2>2, <2>3, CardAdds, Zenon
  <2>5. n - 2 = (n - 1) - 1 /\ (n - 2) + 1 = n - 1 BY SMT DEF Retry
  <2>6. QED BY <1>2, <1>6, <2>4, <2>5, Zenon DEF Units
<1>12. CurrentRound < 3 BY <1>6, SMT DEF Retry
<1>13. QED
  BY <1>2, <1>4, <1>9, <1>10, <1>11, <1>12, Zenon
     DEF Attempts!Spend, Reported, Units, MaximumAttempts

\* An activation is the retry the unit was spent for.
LEMMA RetryStepRefines ==
    ASSUME Inv, [Next]_vars, ActivateStep
    PROVE  Attempts!Retry
<1>1. Typed /\ Chain /\ Drawn /\ RetriesTyped BY BudgetTypes, Zenon DEF Inv, Budget
<1>2. Chain' BY InvStep, Zenon DEF Inv
<1>3. PICK n, a :
         /\ n \in Retry
         /\ n \in DOMAIN row.schedule
         /\ Gains("activation", n, a)
         /\ task.state = "failed" /\ task.revision = 3 * (n - 1)
         /\ Now = n - 1
  BY <1>1, ActivateShape, Zenon
<1> n \in Retry BY <1>3, Zenon
<1>4. n \in DOMAIN row.unit BY <1>1, <1>3, Zenon DEF Chain, ScheduleRows, RetryRows
<1>5. Reported BY <1>1, <1>3, <1>4, UnitLineage, ReportedAt, Zenon
<1>6. CurrentRound = n - 1 BY <1>1, <1>3, NowIs, Zenon
<1>7. task'.state = "ready" BY <1>1, Apart, Zenon
<1>8. ~Reported' BY <1>7, Zenon DEF Reported
<1>9. row'.unit = row.unit
  <2>1. ~UnitStep BY <1>1, <1>3, <1>7, Apart, Zenon
  <2>2. QED BY <1>1, <2>1, TableSteps, Zenon DEF Typed
<1>10. Units' = Units BY <1>9, Zenon DEF Units
<1>11. Units = n - 1
  <2>1. CASE n = 2
    <3>1. 3 \notin DOMAIN row.unit
      <4>1. 3 \in DOMAIN row.unit => Now >= 2 BY <1>1, SecondUnit, NowIs, Zenon
      <4>2. QED BY <1>3, <2>1, <4>1, SMT
    <3>2. Cardinality(DOMAIN row.unit) = 1 BY <1>1, <1>4, <2>1, <3>1, UnitCount, Zenon
    <3>3. n - 1 = 1 BY <2>1, SMT
    <3>4. QED BY <3>2, <3>3, Zenon DEF Units
  <2>2. CASE n = 3
    <3>1. 2 \in DOMAIN row.unit BY <1>1, <1>4, <2>2, SecondUnit, Zenon
    <3>2. Cardinality(DOMAIN row.unit) = 2 BY <1>1, <1>4, <2>2, <3>1, UnitCount, Zenon
    <3>3. n - 1 = 2 BY <2>2, SMT
    <3>4. QED BY <3>2, <3>3, Zenon DEF Units
  <2>3. QED BY <2>1, <2>2, Zenon DEF Retry
<1>12. CurrentRound' = CurrentRound + 1
  <2>1. n \in DOMAIN row'.activation /\ \A m \in DOMAIN row'.activation : m <= n
    <3>1. \A m \in DOMAIN row.activation : m <= n
      <4>1. \A m \in DOMAIN row.activation : m \in Retry /\ m <= n - 1
        BY <1>1, <1>3, NowIs, Zenon
      <4>2. QED BY <4>1, SMT DEF Retry
    <3>2. n <= n BY SMT DEF Retry
    <3>3. QED BY <1>3, <3>1, <3>2, Zenon DEF Gains
  <2>2. /\ Now' \in 1..3 /\ DOMAIN row'.activation = {m \in Retry : m <= Now'}
        /\ CurrentRound' = Now'
    BY <1>2, ChainCountsNext, Zenon DEF Counted
  <2>3. n <= Now' BY <2>1, <2>2, Zenon
  <2>4. Now' <= n
    <3>1. Now' \in Retry BY <2>2, <2>3, SMT DEF Retry
    <3>2. Now' <= Now' BY <2>2, SMT
    <3>3. QED BY <2>1, <2>2, <3>1, <3>2, Zenon
  <2>5. Now' = n BY <2>2, <2>3, <2>4, SMT DEF Retry
  <2>6. (n - 1) + 1 = n BY SMT DEF Retry
  <2>7. QED BY <1>6, <2>2, <2>5, <2>6, Zenon
<1>13. Units = CurrentRound BY <1>6, <1>11, Zenon
<1>14. QED
  BY <1>3, <1>5, <1>7, <1>8, <1>10, <1>12, <1>13, Zenon DEF Attempts!Retry, Reported, Units

\* A typed failure is a failure its run reported.
LEMMA FailStep ==
    ASSUME Inv, [Next]_vars, FailureStep
    PROVE  Attempts!Fail
<1>1. Typed /\ Chain /\ Drawn /\ RetriesTyped BY BudgetTypes, Zenon DEF Inv, Budget
<1>2. task.state = "running" /\ task'.state = "failed" BY <1>1, Apart, Zenon
<1>3. PICK s, class :
         /\ Gains("failure", s, NewFailure(s, class))
         /\ task' = [state |-> "failed", revision |-> task.revision + 1]
  BY <1>1, FailureShape, Zenon
<1>4. NewFailure(s, class).task = task.revision + 1 BY Zenon DEF NewFailure
<1>5. task'.revision = task.revision + 1 BY <1>3, Zenon
<1>6. Reported' BY <1>2, <1>3, <1>4, <1>5, Zenon DEF Reported, Gains
<1>7. ~ActivateStep /\ ~UnitStep BY <1>1, <1>2, Apart, Zenon
<1>8. row'.activation = row.activation /\ row'.unit = row.unit
  BY <1>1, <1>7, TableSteps, Zenon DEF Typed
<1>9. CurrentRound' = CurrentRound /\ Units' = Units BY <1>8, Zenon DEF CurrentRound, Units
<1>10. QED BY <1>2, <1>6, <1>9, Zenon DEF Attempts!Fail, Reported, Units

\* A task is buried in the third of its attempts, after that one's own failure.
LEMMA BuryStep ==
    ASSUME Inv, [Next]_vars, Bury
    PROVE  Attempts!Bury
<1>1. Typed /\ Chain /\ Drawn /\ RetriesTyped BY BudgetTypes, Zenon DEF Inv, Budget
<1>2. /\ 3 \in DOMAIN row.disposition /\ 3 \in DOMAIN row.failed
      /\ task = [state |-> "failed", revision |-> row.disposition[3].task]
      /\ task' = [state |-> "dead_letter", revision |-> task.revision + 1]
  BY Zenon DEF Bury, LoadDisposition, ConsumptionCurrent, FailureV3Replay, Has
<1>3. task.state = "failed" /\ task'.state = "dead_letter" BY <1>2, Zenon
<1>4. task.revision = 9
  <2>1. row.disposition[3].task = 9 BY <1>1, <1>2, Zenon DEF Chain, DispositionRows
  <2>2. task.revision = row.disposition[3].task BY <1>2, Zenon
  <2>3. QED BY <2>1, <2>2, Zenon
<1>5. 3 \in DOMAIN row.failure /\ 3 \in DOMAIN row.manifest
  BY <1>1, <1>2, Zenon DEF Chain, FailedRows, FailureRows, RunRows
<1>6. row.failure[3].task = 9
  <2>1. row.failure[3].task = 3 * Round(3) BY <1>1, <1>5, Zenon DEF Chain, FailureRows
  <2>2. 3 * 3 = 9 BY SMT
  <2>3. QED BY <2>1, <2>2, Rounds, Zenon
<1>7. Reported BY <1>3, <1>4, <1>5, <1>6, Zenon DEF Reported
<1>8. ~Reported' BY <1>3, Zenon DEF Reported
<1>9. 3 \in DOMAIN row.activation BY <1>1, <1>5, Rounds, Zenon DEF Chain, ManifestRows, Retry
<1>10. CurrentRound = 3
  <2>1. Now = 3 BY <1>9, Zenon DEF Now, Has
  <2>2. QED BY <1>1, <2>1, NowIs, Zenon
<1>11. row'.activation = row.activation /\ row'.unit = row.unit
  <2>1. ~ActivateStep /\ ~UnitStep BY <1>1, <1>3, Apart, Zenon
  <2>2. QED BY <1>1, <2>1, TableSteps, Zenon DEF Typed
<1>12. CurrentRound' = CurrentRound /\ Units' = Units BY <1>11, Zenon DEF CurrentRound, Units
<1>13. QED
  BY <1>3, <1>7, <1>8, <1>10, <1>12, Zenon
     DEF Attempts!Bury, Reported, Units, MaximumAttempts

\* What is done to the task from outside leaves its attempts, its units and the
\* failures it reported alone: no interruption passes for a reported failure.
LEMMA DirectedStep ==
    ASSUME Inv, Directed, CurrentRound' = CurrentRound, Units' = Units,
           row'.failure = row.failure
    PROVE  Attempts!Interrupt \/ Attempts!Cancel \/ Attempts!Succeed
<1>1. Typed /\ Chain BY Zenon DEF Inv
<1>2. ~Reported BY Zenon DEF Directed, Moves, Reported
<1>9. ASSUME NEW a, NEW b, Moves(a, b)
      PROVE  task.state = a /\ task'.state = b /\ task'.revision = task.revision + 1
  BY <1>9, SMT DEF Moves
<1>3. task'.revision = task.revision + 1 BY <1>9, Zenon DEF Directed
<1>4. ~Reported'
  <2>1. ASSUME NEW s \in DOMAIN row.failure PROVE row.failure[s].task # task.revision + 1
    <3>1. row.failure[s].task = 3 * Round(s) /\ task.revision >= 3 * Round(s) /\ s \in Slots
      BY <1>1, Zenon DEF Chain, FailureRows, RunRows, ManifestRows
    <3>2. Round(s) \in 1..3 /\ task.revision \in Nat BY <1>1, <3>1, Rounds, SMT DEF Typed
    <3>3. QED BY <3>1, <3>2, SMT
  <2>2. QED BY <1>3, <2>1, Zenon DEF Reported
<1>5. CASE Moves("running", "failed") \/ Moves("cancelling", "failed")
  <2>1. task.state \in {"running", "cancelling"} /\ task'.state = "failed"
    BY <1>5, <1>9, Zenon
  <2>2. Attempts!Interrupt BY <1>2, <1>4, <2>1, Zenon DEF Attempts!Interrupt, Reported, Units
  <2>3. QED BY <2>2, Zenon
<1>6. CASE Moves("running", "succeeded")
  <2>1. task.state = "running" /\ task'.state = "succeeded" BY <1>6, <1>9, Zenon
  <2>2. Attempts!Succeed BY <1>2, <1>4, <2>1, Zenon DEF Attempts!Succeed, Reported, Units
  <2>3. QED BY <2>2, Zenon
<1>7. CASE \/ Moves("ready", "cancelled") \/ Moves("cancelling", "cancelled")
           \/ Moves("running", "cancelling")
  <2>1. \/ task.state = "running" /\ task'.state = "cancelling"
        \/ task.state \in {"ready", "cancelling"} /\ task'.state = "cancelled"
    BY <1>7, <1>9, Zenon
  <2>2. Attempts!Cancel BY <1>2, <1>4, <2>1, Zenon DEF Attempts!Cancel, Reported, Units
  <2>3. QED BY <2>2, Zenon
<1>8. QED BY <1>5, <1>6, <1>7, Zenon DEF Directed

\* Every step of the tables, leases and recoveries is a step of TaskAttempts or
\* changes nothing it sees.
LEMMA RefinementStep ==
    ASSUME Inv, [Next]_vars
    PROVE  Attempts!Next \/ UNCHANGED Attempts!vars
<1>1. Typed /\ Chain /\ Drawn /\ RetriesTyped BY BudgetTypes, Zenon DEF Inv, Budget
<1>2. CASE UnitStep BY <1>2, SpendStep, Zenon DEF Attempts!Next
<1>3. CASE ActivateStep BY <1>3, RetryStepRefines, Zenon DEF Attempts!Next
<1>4. CASE FailureStep BY <1>4, FailStep, Zenon DEF Attempts!Next
<1>5. CASE Bury BY <1>5, BuryStep, Zenon DEF Attempts!Next
<1>6. CASE ~UnitStep /\ ~ActivateStep /\ ~FailureStep /\ ~Bury
  <2>1. /\ row'.unit = row.unit /\ row'.activation = row.activation
        /\ row'.failure = row.failure
    BY <1>1, <1>6, TableSteps, Zenon DEF Typed
  <2>2. CurrentRound' = CurrentRound /\ Units' = Units BY <2>1, Zenon DEF CurrentRound, Units
  <2>3. CASE UNCHANGED task
    <3>1. Reported' <=> Reported BY <2>1, <2>3, Zenon DEF Reported
    <3>2. UNCHANGED Attempts!vars BY <2>2, <2>3, <3>1, Zenon DEF Attempts!vars, Reported, Units
    <3>3. QED BY <3>2, Zenon
  <2>4. CASE ConsumeStep
    <3>1. task.state = "ready" /\ task'.state = "running" BY <1>1, <2>4, Apart, Zenon
    <3>2. ~Reported /\ ~Reported' BY <3>1, Zenon DEF Reported
    <3>3. Attempts!Start BY <2>2, <3>1, <3>2, Zenon DEF Attempts!Start, Reported, Units
    <3>4. QED BY <3>3, Zenon DEF Attempts!Next
  <2>5. CASE Directed BY <2>1, <2>2, <2>5, DirectedStep, Zenon DEF Attempts!Next
  <2>6. QED BY <1>6, <2>3, <2>4, <2>5, TaskMoves, Zenon
<1>7. QED BY <1>2, <1>3, <1>4, <1>5, <1>6, Zenon

\* A first attempt that is ready is where TaskAttempts begins.
LEMMA RefinementInit == Init => Attempts!Init
<1> SUFFICES ASSUME Init PROVE Attempts!Init OBVIOUS
<1>1. Inv BY InvInit, Zenon
<1>2. task.state = "ready" BY Zenon DEF Init
<1>3. DOMAIN row.activation = {} /\ DOMAIN row.unit = {}
  <2>1. row.activation = <<>> /\ row.unit = <<>> BY Zenon DEF Init, Tables
  <2>2. DOMAIN <<>> = {} BY SMT
  <2>3. QED BY <2>1, <2>2, Zenon
<1>4. Cardinality({}) = 0 BY Cards, Zenon
<1>5. 1 + 0 = 1 BY SMT
<1>6. CurrentRound = 1 BY <1>3, <1>4, <1>5, Zenon DEF CurrentRound
<1>7. Units = 0 BY <1>3, <1>4, Zenon DEF Units
<1>8. ~Reported BY <1>2, Zenon DEF Reported
<1>9. QED BY <1>2, <1>6, <1>7, <1>8, Zenon DEF Attempts!Init, Reported, Units

\* The tables, leases, reservations and recoveries of the orchestration services
\* implement TaskAttempts: at most three attempts, each after the first paid for with a
\* unit drawn between a reported failure and the retry, burial after the third failure
\* only, and no interruption that passes for a reported failure.
THEOREM Refines == Spec => ImplementsTaskAttempts
<1>1. Inv /\ [Next]_vars => [Attempts!Next]_(Attempts!vars) BY RefinementStep, Zenon
<1>2. QED
  BY <1>1, Invariant, RefinementInit, PTL DEF Spec, ImplementsTaskAttempts, Attempts!Spec
=============================================================================
