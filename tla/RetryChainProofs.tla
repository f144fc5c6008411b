-------------------------- MODULE RetryChainProofs --------------------------
(* The receipts, the reservations and the account of the retry services.   *)
(* Every attempt takes three revisions of the task, every receipt names    *)
(* the revision it was stored at, and so no receipt is ever written twice  *)
(* and each one tells of all those before it.  On this chain rest the      *)
(* budget: versions of the account, units drawn, ceilings kept.            *)
EXTENDS RetrySystem, TLAPS

\* Every leaf is tried with SMT and then with Zenon, with time to spare on a
\* slow machine.
USE SMTT(20), ZenonT(30)

-----------------------------------------------------------------------------
(* Sums and numbers of rows 1 to 6.                                        *)

\* What row i adds to a sum over the rows T.
Part(T, v, i) == IF i \in T THEN v[i] ELSE 0

\* The sum of v over T, written out: a sum the provers can add up.
Total(T, v) ==
    Part(T, v, 1) + Part(T, v, 2) + Part(T, v, 3) + Part(T, v, 4) + Part(T, v, 5) + Part(T, v, 6)

First(T) == CHOOSE x : x \in T

\* The sum of v over a set, from the sums over its subsets.
Summing(it, S, v) ==
    [T \in SUBSET S |-> IF T = {} THEN 0 ELSE v[First(T)] + it[T \ {First(T)}]]

\* The same as an equation on the subsets of S.
Sums(it, S, v) ==
    \A T \in SUBSET S : it[T] = IF T = {} THEN 0 ELSE v[First(T)] + it[T \ {First(T)}]

\* Counting is summing ones.
Ones == [i \in 1..6 |-> 1]

\* CHOOSE picks a member of a set that has one.
LEMMA FirstIn == \A T : T # {} => First(T) \in T
BY Zenon DEF First

\* Taking a row out of the sum takes out its value.
LEMMA TotalRemoves ==
    ASSUME NEW T \in SUBSET (1..6), NEW v, \A i \in T : v[i] \in Int, NEW x \in T
    PROVE  Total(T, v) = v[x] + Total(T \ {x}, v)
<1> DEFINE p(i) == Part(T, v, i)
           r(i) == Part(T \ {x}, v, i)
<1>1. ASSUME NEW i \in 1..6
      PROVE  p(i) \in Int /\ r(i) \in Int /\ p(i) = r(i) + (IF i = x THEN v[x] ELSE 0)
  BY SMT DEF Part
<1>2. Total(T, v) = p(1) + p(2) + p(3) + p(4) + p(5) + p(6)
      /\ Total(T \ {x}, v) = r(1) + r(2) + r(3) + r(4) + r(5) + r(6)
  BY Zenon DEF Total
<1>3. x \in 1..6 /\ v[x] \in Int OBVIOUS
<1> HIDE DEF p, r
<1>4. QED BY <1>1, <1>2, <1>3, SMT

\* The empty sum is zero.
LEMMA TotalEmpty == \A v : Total({}, v) = 0
BY SMT DEF Total, Part

\* The number of rows of T.
Size(T) == Total(T, Ones)

\* The number of rows goes down by one with each row taken out, and is zero for no row.
LEMMA SizeIs ==
    ASSUME NEW T \in SUBSET (1..6)
    PROVE  /\ Size(T) \in 0..6
           /\ Size(T) = 0 => T = {}
           /\ \A x \in T : Size(T) = 1 + Size(T \ {x})
<1>1. \A i \in 1..6 : Ones[i] = 1 BY Zenon DEF Ones
<1>2. \A i \in 1..6 : Part(T, Ones, i) \in {0, 1} /\ (Part(T, Ones, i) = 0 => i \notin T)
  BY <1>1, SMT DEF Part
<1>3. Size(T) \in 0..6 /\ (Size(T) = 0 => \A i \in 1..6 : i \notin T)
  BY <1>2, SMT DEF Size, Total
<1>4. \A i \in T : Ones[i] \in Int BY <1>1, SMT
<1>5. \A x \in T : Size(T) = 1 + Size(T \ {x})
  BY <1>1, <1>4, TotalRemoves, Zenon DEF Size
<1>6. QED BY <1>3, <1>5, Zenon

\* it is right on the sets of k elements.
Agrees(it, S, v, k) == \A T \in SUBSET S : Size(T) = k => it[T] = Total(T, v)

\* A recursion that is right on sets of k rows is right on those of k + 1.
LEMMA SumsOnward ==
    ASSUME NEW S \in SUBSET (1..6), NEW v, \A i \in S : v[i] \in Int, NEW it, Sums(it, S, v),
           NEW k \in Nat, Agrees(it, S, v, k)
    PROVE  Agrees(it, S, v, k + 1)
<1> SUFFICES ASSUME NEW T \in SUBSET S, Size(T) = k + 1 PROVE it[T] = Total(T, v)
  BY Zenon DEF Agrees
<1>1. T \in SUBSET (1..6) BY Zenon
<1>2. T # {}
  <2>1. Size({}) = 0 BY TotalEmpty, Zenon DEF Size
  <2>2. k + 1 # 0 BY SMT
  <2>3. QED BY <2>1, <2>2, Zenon
<1> DEFINE x == First(T)
<1>3. x \in T BY <1>2, FirstIn, Zenon
<1>4. it[T] = v[x] + it[T \ {x}] BY <1>2, Zenon DEF Sums
<1>5. Size(T) = 1 + Size(T \ {x}) BY <1>1, <1>3, SizeIs, Zenon
<1>6. Size(T \ {x}) \in 0..6
  <2>1. T \ {x} \in SUBSET (1..6) BY <1>1, Zenon
  <2>2. QED BY <2>1, SizeIs, Zenon
<1>7. Size(T \ {x}) = k BY <1>5, <1>6, SMT
<1>8. it[T \ {x}] = Total(T \ {x}, v) BY <1>7, Zenon DEF Agrees
<1>9. Total(T, v) = v[x] + Total(T \ {x}, v) BY <1>1, <1>3, TotalRemoves, Zenon
<1>10. QED BY <1>4, <1>8, <1>9, Zenon

\* So it is right on all of them: six steps, for there are six rows.
LEMMA SumsTotal ==
    ASSUME NEW S \in SUBSET (1..6), NEW v, \A i \in S : v[i] \in Int, NEW it, Sums(it, S, v)
    PROVE  it[S] = Total(S, v)
<1> DEFINE Upto(k) == Agrees(it, S, v, k)
<1>1. Upto(0)
  <2>1. \A T \in SUBSET S : Size(T) = 0 => T = {} BY SizeIs, Zenon
  <2>2. it[{}] = 0 BY Zenon DEF Sums
  <2>3. QED BY <2>1, <2>2, TotalEmpty, Zenon DEF Agrees
<1>2. ASSUME NEW k \in Nat, Upto(k) PROVE Upto(k + 1) BY <1>2, SumsOnward, Zenon
<1> HIDE DEF Upto
<1>3. Upto(1) /\ Upto(2) /\ Upto(3) /\ Upto(4) /\ Upto(5) /\ Upto(6) BY <1>1, <1>2, SMT
<1>4. Size(S) \in 0..6 BY SizeIs, Zenon
<1>5. Size(S) \in {0, 1, 2, 3, 4, 5, 6} BY <1>4, SMT
<1>6. Upto(Size(S)) BY <1>1, <1>3, <1>5, Zenon
<1>7. QED BY <1>6, Zenon DEF Upto, Agrees

\* The recursion has a solution, the written-out sum itself.
LEMMA TotalSums ==
    ASSUME NEW S \in SUBSET (1..6), NEW v, \A i \in S : v[i] \in Int
    PROVE  \E it : it = Summing(it, S, v)
<1> DEFINE tot == [T \in SUBSET S |-> Total(T, v)]
<1>1. ASSUME NEW T \in SUBSET S
      PROVE  tot[T] = IF T = {} THEN 0 ELSE v[First(T)] + tot[T \ {First(T)}]
  <2>1. CASE T = {} BY <2>1, TotalEmpty, Zenon
  <2>2. CASE T # {}
    <3>1. First(T) \in T BY <2>2, FirstIn, Zenon
    <3>2. T \in SUBSET (1..6) /\ T \ {First(T)} \in SUBSET S BY Zenon
    <3>3. Total(T, v) = v[First(T)] + Total(T \ {First(T)}, v) BY <3>1, <3>2, TotalRemoves, Zenon
    <3>4. QED BY <2>2, <3>2, <3>3, Zenon
  <2>3. QED BY <2>1, <2>2, Zenon
<1>2. tot = Summing(tot, S, v) BY <1>1, Zenon DEF Summing
<1>3. QED BY <1>2, Zenon

\* The fold behind MapThenSumSet, over rows 1 to 6, is the written-out sum.
LEMMA FoldIs ==
    ASSUME NEW S \in SUBSET (1..6), NEW v, \A i \in S : v[i] \in Int, NEW it,
           it = Summing(it, S, v)
    PROVE  it[S] = Total(S, v)
<1>1. Sums(it, S, v) BY Zenon DEF Sums, Summing
<1>2. QED BY <1>1, SumsTotal, Zenon

\* So is Cardinality, which is defined by the same recursion.
LEMMA CardIs ==
    ASSUME NEW S \in SUBSET (1..6)
    PROVE  Cardinality(S) = Size(S)
<1> DEFINE Fold(it) == [T \in SUBSET S |->
                            IF T = {} THEN 0 ELSE 1 + it[T \ {First(T)}]]
           sum == CHOOSE it : it = Fold(it)
<1>1. Cardinality(S) = sum[S] BY DEF Cardinality, First
<1>2. \A i \in S : Ones[i] = 1 /\ Ones[i] \in Int
  <2>1. 1 \in Int BY SMT
  <2>2. QED BY <2>1, Zenon DEF Ones
<1>3. \A T \in SUBSET S : T # {} => First(T) \in S BY FirstIn, Zenon
<1>4. \A it : Fold(it) = Summing(it, S, Ones) BY <1>2, <1>3, Zenon DEF Summing
<1>5. \E it : it = Summing(it, S, Ones) BY <1>2, TotalSums, Zenon
<1>6. sum = Fold(sum) BY <1>4, <1>5, Zenon
<1>7. sum = Summing(sum, S, Ones) BY <1>4, <1>6, Zenon
<1> HIDE DEF sum
<1>8. sum[S] = Total(S, Ones) BY <1>2, <1>7, FoldIs, Zenon
<1>9. QED BY <1>1, <1>8, Zenon DEF Size

\* A new row makes a set one larger.
LEMMA CardAdds ==
    ASSUME NEW S \in SUBSET (1..6)
    PROVE  /\ Cardinality(S) \in Nat
           /\ Cardinality(S) = 0 => S = {}
           /\ \A x \in (1..6) \ S : Cardinality(S \cup {x}) = Cardinality(S) + 1
<1>1. Size(S) \in 0..6 /\ (Size(S) = 0 => S = {}) BY SizeIs, Zenon
<1>2. \A n \in 0..6 : n \in Nat /\ 1 + n = n + 1 BY SMT
<1>3. ASSUME NEW x \in (1..6) \ S PROVE Size(S \cup {x}) = Size(S) + 1
  <2>1. S \cup {x} \in SUBSET (1..6) /\ x \in S \cup {x} /\ (S \cup {x}) \ {x} = S BY Zenon
  <2>2. Size(S \cup {x}) = 1 + Size(S) BY <2>1, SizeIs, Zenon
  <2>3. QED BY <1>1, <1>2, <2>2, Zenon
<1>4. \A x \in (1..6) \ S : S \cup {x} \in SUBSET (1..6) BY Zenon
<1>5. QED BY <1>1, <1>2, <1>3, <1>4, CardIs, Zenon

\* The sizes of the sets of retry units that occur.
LEMMA Cards ==
    /\ Cardinality({}) = 0 /\ Cardinality({1}) = 1 /\ Cardinality({2}) = 1
    /\ Cardinality({2, 3}) = 2
<1>1. /\ {} \in SUBSET (1..6) /\ {1} \in SUBSET (1..6) /\ {2} \in SUBSET (1..6)
      /\ {2, 3} \in SUBSET (1..6)
  BY SMT
<1>2. Size({}) = 0 BY TotalEmpty, Zenon DEF Size
<1>3. /\ Ones[1] = 1 /\ Ones[2] = 1 /\ Ones[3] = 1 BY SMT DEF Ones
<1>4. Size({1}) = 1 /\ Size({2}) = 1 /\ Size({2, 3}) = 2 BY <1>3, SMT DEF Size, Total, Part
<1>5. QED BY <1>1, <1>2, <1>4, CardIs, Zenon
-----------------------------------------------------------------------------
(* Tables.                                                                 *)

\* A step that stores one row in a table.
Adds(t) == \E k, r : Insert(t, k, r)

\* What the step does to the table: one new row, the others as they were.
Gains(t, k, r) ==
    /\ k \notin DOMAIN row[t]
    /\ DOMAIN row'[t] = DOMAIN row[t] \cup {k}
    /\ row'[t][k] = r
    /\ \A j \in DOMAIN row[t] : row'[t][j] = row[t][j]

\* An INSERT writes its own table and no other.
LEMMA InsertTable ==
    ASSUME DOMAIN row = Tables, NEW t \in Tables, NEW k, NEW r, Insert(t, k, r)
    PROVE  /\ DOMAIN row' = Tables
           /\ row'[t] = With(row[t], k, r)
           /\ \A u \in Tables \ {t} : row'[u] = row[u]
<1>1. row' = [row EXCEPT ![t] = With(row[t], k, r)] BY Zenon DEF Insert
<1>2. QED BY <1>1, Zenon

\* An INSERT under a new key adds one row.
LEMMA InsertGains ==
    ASSUME DOMAIN row = Tables, NEW t \in Tables, NEW k, NEW r, Insert(t, k, r),
           k \notin DOMAIN row[t]
    PROVE  Gains(t, k, r)
<1>1. row'[t] = With(row[t], k, r) BY SMT DEF Insert
<1>2. /\ DOMAIN row'[t] = DOMAIN row[t] \cup {k}
      /\ row'[t][k] = r
      /\ \A j \in DOMAIN row[t] \ {k} : row'[t][j] = row[t][j]
  BY <1>1, SMT DEF With
<1>3. QED BY <1>2, Zenon DEF Gains

\* The same for a step of which only the table is known.
LEMMA Keeping ==
    ASSUME DOMAIN row = Tables, NEW t \in Tables, Adds(t)
    PROVE  DOMAIN row' = Tables /\ \A u \in Tables \ {t} : row'[u] = row[u]
<1>1. PICK k, r : Insert(t, k, r) BY Zenon DEF Adds
<1>2. QED BY <1>1, InsertTable, Zenon

-----------------------------------------------------------------------------
(* Which steps write to which table.                                       *)

\* The operations that write each table: the services of the ordinary path and of
\* the two retry chains, v1 and v2 and later, share their tables.
ManifestStep == (\E s \in Ordinary : IssueManifest(s)) \/ IssueRetryManifest \/ IssueManifestV4
ConsumeStep == (\E s \in Slots \ {3} : Consume(s)) \/ ConsumeV3
FailureStep ==
    \/ \E s \in Slots \ {3}, class \in FailureClasses : RecordFailure(s, class)
    \/ \E class \in FailureClasses : RecordFailureV3(class)
FailedStep == (\E s \in Ordinary : RegisterAttempt(s)) \/ RegisterRetryAttempt \/ RegisterAttemptV3
DecisionStep == Evaluate \/ EvaluateRetryAttempt
UnitStep == ConsumeUnit \/ ConsumeUnitV2
RegisterStep == RegisterRetry \/ RegisterRetryV2
ScheduleStep == RegisterSchedule \/ RegisterScheduleV2
ActivateStep == Activate \/ ActivateV2
PolicyStep == IssuePolicy \/ IssuePolicyV2

\* Every one of these operations ends in the INSERT of its receipt.
LEMMA Adding ==
    /\ ManifestStep => Adds("manifest")
    /\ ConsumeStep => Adds("run")
    /\ FailureStep => Adds("failure")
    /\ FailedStep => Adds("failed")
    /\ DecisionStep => Adds("decision")
    /\ UnitStep => Adds("unit")
    /\ RegisterStep => Adds("retry")
    /\ ScheduleStep => Adds("schedule")
    /\ ActivateStep => Adds("activation")
    /\ Decide => Adds("disposition")
    /\ CompleteV3 => Adds("completion")
    /\ PolicyStep => Adds("policy")
    /\ Bury => Adds("burial")
    /\ RegisterDeadLetter => Adds("letter")
<1>1. ManifestStep => Adds("manifest")
  BY Zenon DEF ManifestStep, IssueManifest, IssueRetryManifest, IssueManifestV4, Adds
<1>2. ConsumeStep => Adds("run")
  BY Zenon DEF ConsumeStep, Consume, ConsumeV3, StartTask, Adds
<1>3. FailureStep => Adds("failure")
  BY Zenon DEF FailureStep, RecordFailure, RecordFailureV3, Adds
<1>4. FailedStep => Adds("failed")
  BY Zenon DEF FailedStep, RegisterAttempt, RegisterRetryAttempt, RegisterAttemptV3, Adds
<1>5. DecisionStep => Adds("decision")
  BY Zenon DEF DecisionStep, Evaluate, EvaluateRetryAttempt, Adds
<1>6. UnitStep => Adds("unit")
  BY Zenon DEF UnitStep, ConsumeUnit, ConsumeUnitV2, Adds
<1>7. RegisterStep => Adds("retry")
  BY Zenon DEF RegisterStep, RegisterRetry, RegisterRetryV2, Adds
<1>8. ScheduleStep => Adds("schedule")
  BY Zenon DEF ScheduleStep, RegisterSchedule, RegisterScheduleV2, Adds
<1>9. ActivateStep => Adds("activation")
  BY Zenon DEF ActivateStep, Activate, ActivateV2, Adds
<1>10. Decide => Adds("disposition") BY Zenon DEF Decide, Adds
<1>11. CompleteV3 => Adds("completion") BY Zenon DEF CompleteV3, Adds
<1>12. PolicyStep => Adds("policy") BY Zenon DEF PolicyStep, IssuePolicy, IssuePolicyV2, Adds
<1>13. Bury => Adds("burial") BY Zenon DEF Bury, Adds
<1>14. RegisterDeadLetter => Adds("letter") BY Zenon DEF RegisterDeadLetter, Adds
<1>15. QED
  BY <1>1, <1>2, <1>3, <1>4, <1>5, <1>6, <1>7, <1>8, <1>9, <1>10, <1>11, <1>12, <1>13, <1>14,
     Zenon

\* The steps that store no row.
LEMMA QuietSteps ==
    /\ ActivateAccount => UNCHANGED row
    /\ \A s, q : Reserve(s, q) => UNCHANGED row
    /\ \A s : Acquire(s) => UNCHANGED row
    /\ AcquireV3 => UNCHANGED row
    /\ \A q : ReserveRetry(q) => UNCHANGED row
    /\ \A q : ReserveV4(q) => UNCHANGED row
    /\ \A n : BackoffEnds(n) => UNCHANGED row
    /\ PlanStep => UNCHANGED row
    /\ RecoveryStep => UNCHANGED row
    /\ Outside => UNCHANGED row
<1>1. ActivateAccount => UNCHANGED row BY Zenon DEF ActivateAccount
<1>2. \A s, q : Reserve(s, q) => UNCHANGED row BY Zenon DEF Reserve, Store
<1>3. \A s : Acquire(s) => UNCHANGED row BY Zenon DEF Acquire, TakeLease
<1>4. AcquireV3 => UNCHANGED row BY Zenon DEF AcquireV3, TakeLease
<1>5. \A q : ReserveRetry(q) => UNCHANGED row BY Zenon DEF ReserveRetry, Store
<1>6. \A q : ReserveV4(q) => UNCHANGED row BY Zenon DEF ReserveV4, Store
<1>7. \A n : BackoffEnds(n) => UNCHANGED row BY Zenon DEF BackoffEnds
<1>8. PlanStep => UNCHANGED row BY Zenon DEF PlanStep, Transition, StartSibling, EndSibling
<1>9. RecoveryStep => UNCHANGED row
  BY Zenon DEF RecoveryStep, RecoverPlan, RecoverBudget, RecoverBudgetV4, RecoverLeases,
     RecoverLeasesV3, RecoveredLeases
<1>10. Outside => UNCHANGED row
  BY Zenon DEF Outside, SetAuthority, ReplaceWorker, Lapse, ReserveOther, Release, Store
<1>11. QED BY <1>1, <1>2, <1>3, <1>4, <1>5, <1>6, <1>7, <1>8, <1>9, <1>10, Zenon

\* Every step stores a row of one table, or none.
LEMMA RowSteps ==
    ASSUME Next
    PROVE  \/ UNCHANGED row
           \/ ManifestStep \/ ConsumeStep \/ FailureStep \/ FailedStep \/ DecisionStep
           \/ UnitStep \/ RegisterStep \/ ScheduleStep \/ ActivateStep \/ Decide
           \/ CompleteV3 \/ PolicyStep \/ Bury \/ RegisterDeadLetter \/ Adds("head")
<1>1. CASE RunStep
  <2>1. \A s : RecordCheckpoint(s) => Adds("head")
    BY Zenon DEF RecordCheckpoint, NextCheckpoint, Adds
  <2>2. RecordCheckpointV3 => Adds("head") BY Zenon DEF RecordCheckpointV3, NextCheckpoint, Adds
  <2>3. QED
    BY <1>1, <2>1, <2>2, QuietSteps, Zenon DEF RunStep, ManifestStep, ConsumeStep, FailureStep
<1>2. CASE RetryStep
  BY <1>2, QuietSteps, Zenon
     DEF RetryStep, ManifestStep, FailedStep, DecisionStep, UnitStep, RegisterStep,
         ScheduleStep, ActivateStep, PolicyStep
<1>3. QED BY <1>1, <1>2, QuietSteps, Zenon DEF Next

\* Every table is written by the operations named after it only.
LEMMA TableSteps ==
    ASSUME DOMAIN row = Tables, [Next]_vars
    PROVE  /\ DOMAIN row' = Tables
           /\ row'.manifest = row.manifest \/ ManifestStep
           /\ row'.run = row.run \/ ConsumeStep
           /\ row'.failure = row.failure \/ FailureStep
           /\ row'.failed = row.failed \/ FailedStep
           /\ row'.decision = row.decision \/ DecisionStep
           /\ row'.unit = row.unit \/ UnitStep
           /\ row'.retry = row.retry \/ RegisterStep
           /\ row'.schedule = row.schedule \/ ScheduleStep
           /\ row'.activation = row.activation \/ ActivateStep
           /\ row'.disposition = row.disposition \/ Decide
           /\ row'.completion = row.completion \/ CompleteV3
           /\ row'.policy = row.policy \/ PolicyStep
           /\ row'.burial = row.burial \/ Bury
           /\ row'.letter = row.letter \/ RegisterDeadLetter
<1> DEFINE Named ==
      {"manifest", "run", "failure", "failed", "decision", "unit", "retry", "schedule",
       "activation", "disposition", "completion", "policy", "burial", "letter"}
<1>1. \/ UNCHANGED row
      \/ Next
  BY Zenon DEF vars
<1>2. CASE UNCHANGED row BY <1>2, Zenon
<1>3. ASSUME NEW t \in Tables, Adds(t)
      PROVE  DOMAIN row' = Tables /\ \A u \in Named \ {t} : row'[u] = row[u]
  <2>1. Named \subseteq Tables BY Zenon DEF Tables
  <2> HIDE DEF Named
  <2>2. QED BY <1>3, <2>1, Keeping, Zenon
<1>4. CASE ManifestStep \/ ConsumeStep \/ FailureStep BY <1>3, <1>4, Adding, ZenonT(60) DEF Tables
<1>5. CASE FailedStep \/ DecisionStep \/ UnitStep BY <1>3, <1>5, Adding, ZenonT(60) DEF Tables
<1>6. CASE RegisterStep \/ ScheduleStep \/ ActivateStep BY <1>3, <1>6, Adding, ZenonT(60) DEF Tables
<1>7. CASE Decide \/ CompleteV3 \/ PolicyStep BY <1>3, <1>7, Adding, ZenonT(60) DEF Tables
<1>8. CASE Bury \/ RegisterDeadLetter \/ Adds("head") BY <1>3, <1>8, Adding, ZenonT(60) DEF Tables
<1>9. QED BY <1>1, <1>2, <1>4, <1>5, <1>6, <1>7, <1>8, RowSteps, Zenon

-----------------------------------------------------------------------------
(* The inductive invariant.                                                *)

\* The attempt the task is at, read off the activations.
Now == IF Has("activation", 3) THEN 3 ELSE IF Has("activation", 2) THEN 2 ELSE 1

\* States of the other task in which it has nothing left to do.
Settled == TerminalStates \cup {"none"}

\* The states of the task that is retried.
TaskStates ==
    {"ready", "running", "cancelling", "cancelled", "succeeded", "failed", "dead_letter"}

\* The states of its plan (_plan_state).
PlanStates == {"active", "completed", "failed", "cancelled"}

\* The types the later arguments need: states, revisions, versions and counters.
Typed ==
    /\ DOMAIN row = Tables
    /\ task \in [state : TaskStates, revision : Nat]
    /\ plan \in [state : PlanStates, revision : Nat]
    /\ gated \in BOOLEAN
    /\ sibling \in Settled \cup {"ready", "blocked", "running"}
    /\ account \in Nat
    /\ fence \in [generation : Nat, recovery : Nat]

\* Every attempt takes three revisions of the task: one it is ready at, one it
\* runs at and one its typed failure leaves.
ManifestRows ==
    \A s \in DOMAIN row.manifest :
        /\ s \in Slots
        /\ row.manifest[s].task = 3 * Round(s) - 2
        /\ Round(s) \in Retry => Round(s) \in DOMAIN row.activation

\* The ordinary path and the retry path to attempt two exclude each other.
PathsApart == ~(2 \in DOMAIN row.manifest /\ 4 \in DOMAIN row.manifest)

\* A run was consumed from its manifest, one revision on (consume in both lease files).
RunRows ==
    \A s \in DOMAIN row.run :
        /\ s \in DOMAIN row.manifest
        /\ row.run[s].task = 3 * Round(s) - 1
        /\ task.revision >= 3 * Round(s) - 1

\* A typed failure belongs to the run of its slot, one revision further on.
FailureRows ==
    \A s \in DOMAIN row.failure :
        /\ s \in DOMAIN row.run
        /\ row.failure[s].slot = s
        /\ row.failure[s].task = 3 * Round(s)
        /\ task.revision >= 3 * Round(s)

\* A failed attempt is registered from the failure of the slot of its number, and
\* a later one only after the retry that led to it.
FailedRows ==
    \A n \in DOMAIN row.failed :
        /\ n \in 1..3 /\ n \in DOMAIN row.failure
        /\ n \in Retry => n \in DOMAIN row.retry
        /\ row.failed[n].slot = n /\ row.failed[n].task = 3 * n
        /\ row.failed[n].class = row.failure[n].class

\* A decision judges a registered attempt; an eligible one found its class retryable.
DecisionRows ==
    \A n \in DOMAIN row.decision :
        /\ n \in {1, 2} /\ n \in DOMAIN row.failed
        /\ row.decision[n].outcome = "eligible" => row.failed[n].class \in RetryableClasses

\* A unit was drawn on an eligible decision, one at a time.
UnitRows ==
    \A n \in DOMAIN row.unit :
        /\ n \in Retry /\ n - 1 \in DOMAIN row.decision
        /\ row.decision[n - 1].outcome = "eligible"
        /\ row.unit[n].capacity = 1
        /\ row.unit[n].after \in Nat /\ row.unit[n].remaining \in Nat

\* A retry is registered at the failure's revision and the account its unit left.
RetryRows ==
    \A n \in DOMAIN row.retry :
        /\ n \in DOMAIN row.unit
        /\ row.retry[n].task = 3 * (n - 1) /\ row.retry[n].account = row.unit[n].after

\* A schedule carries the revisions of its retry.
ScheduleRows ==
    \A n \in DOMAIN row.schedule :
        /\ n \in DOMAIN row.retry
        /\ row.schedule[n].task = 3 * (n - 1) /\ row.schedule[n].account = row.unit[n].after

\* An activation makes the task ready one revision after the failure.
ActivationRows ==
    \A n \in DOMAIN row.activation :
        /\ n \in DOMAIN row.schedule
        /\ row.activation[n].task = 3 * n - 2
        /\ task.revision >= 3 * n - 2

\* Only the third attempt is disposed of.
DispositionRows ==
    \A n \in DOMAIN row.disposition :
        n = 3 /\ 3 \in DOMAIN row.failed /\ row.disposition[3].task = 9

\* Only the third attempt completes by a receipt, at its last revision.
CompletionRows == \A n \in DOMAIN row.completion : n = 3 /\ task.revision >= 9

\* A task that is ready or running is at the revision of its present attempt.
Clock ==
    /\ task.state = "ready" => task.revision = 3 * Now - 2
    /\ task.state = "running" => task.revision = 3 * Now - 1

\* The chain of receipts, whole.
Chain ==
    /\ ManifestRows /\ PathsApart /\ RunRows /\ FailureRows /\ FailedRows /\ DecisionRows
    /\ UnitRows /\ RetryRows /\ ScheduleRows /\ ActivationRows /\ DispositionRows /\ CompletionRows
    /\ Clock

-----------------------------------------------------------------------------
(* What the chain of receipts tells.                                       *)

\* The attempt each slot belongs to.
LEMMA Rounds ==
    /\ Round(1) = 1 /\ Round(2) = 2 /\ Round(3) = 3 /\ Round(4) = 2 /\ Round(5) = 3
    /\ \A s \in Slots : Round(s) \in 1..3
BY SMT DEF Round, Slots

\* Behind every unit stand the manifest, the run, the failure and the registered
\* attempt before it, and the class of that failure is retryable.
LEMMA UnitLineage ==
    ASSUME Chain, NEW n \in DOMAIN row.unit
    PROVE  /\ n \in Retry
           /\ n - 1 \in DOMAIN row.failed /\ n - 1 \in DOMAIN row.failure
           /\ n - 1 \in DOMAIN row.run /\ n - 1 \in DOMAIN row.manifest
           /\ row.failure[n - 1].class \in RetryableClasses
<1> USE DEF Chain
<1>1. n \in Retry /\ n - 1 \in DOMAIN row.decision /\ row.decision[n - 1].outcome = "eligible"
  BY Zenon DEF UnitRows
<1>2. n - 1 \in DOMAIN row.failed /\ row.failed[n - 1].class \in RetryableClasses
  BY <1>1, Zenon DEF DecisionRows
<1>3. n - 1 \in DOMAIN row.failure /\ row.failed[n - 1].class = row.failure[n - 1].class
  BY <1>2, Zenon DEF FailedRows
<1>4. n - 1 \in DOMAIN row.run BY <1>3, Zenon DEF FailureRows
<1>5. n - 1 \in DOMAIN row.manifest BY <1>4, Zenon DEF RunRows
<1>6. QED BY <1>1, <1>2, <1>3, <1>4, <1>5, Zenon

\* The second unit comes after the first retry was activated.
LEMMA SecondUnit ==
    ASSUME Chain, 3 \in DOMAIN row.unit
    PROVE  2 \in DOMAIN row.activation /\ 2 \in DOMAIN row.unit /\ 2 \in DOMAIN row.manifest
<1> USE DEF Chain
<1>1. 2 \in DOMAIN row.failed /\ 2 \in DOMAIN row.manifest
  <2>1. 3 - 1 = 2 BY SMT
  <2>2. QED BY <2>1, UnitLineage, Zenon
<1>2. 2 \in DOMAIN row.unit BY <1>1, Zenon DEF FailedRows, RetryRows, Retry
<1>3. 2 \in DOMAIN row.activation BY <1>1, Rounds, Zenon DEF ManifestRows, Retry
<1>4. QED BY <1>1, <1>2, <1>3, Zenon

\* Behind every activation stand its schedule, its retry and its unit.
LEMMA ActivationLineage ==
    ASSUME Chain, NEW n \in DOMAIN row.activation
    PROVE  /\ n \in DOMAIN row.schedule /\ n \in DOMAIN row.retry /\ n \in DOMAIN row.unit
           /\ n \in Retry
BY Zenon DEF Chain, ActivationRows, ScheduleRows, RetryRows, UnitRows

\* The activations are those of the attempts up to the present one, so that their
\* number tells the attempt.
LEMMA NowIs ==
    ASSUME Chain
    PROVE  /\ Now \in 1..3
           /\ 2 \in DOMAIN row.activation <=> Now >= 2
           /\ 3 \in DOMAIN row.activation <=> Now >= 3
           /\ DOMAIN row.activation = {n \in Retry : n <= Now}
           /\ CurrentRound = Now
<1>1. DOMAIN row.activation \subseteq {2, 3}
  BY ActivationLineage, Zenon DEF Retry
<1>2. 3 \in DOMAIN row.activation => 2 \in DOMAIN row.activation
  BY ActivationLineage, SecondUnit, Zenon
<1>3. CASE 3 \in DOMAIN row.activation
  <2>1. DOMAIN row.activation = {2, 3} /\ Now = 3 BY <1>1, <1>2, <1>3, Zenon DEF Now, Has
  <2>2. Cardinality({2, 3}) = 2 BY Cards, Zenon
  <2>3. {n \in Retry : n <= 3} = {2, 3} BY SMT DEF Retry
  <2>4. QED BY <2>1, <2>2, <2>3, SMT DEF CurrentRound
<1>4. CASE 3 \notin DOMAIN row.activation /\ 2 \in DOMAIN row.activation
  <2>1. DOMAIN row.activation = {2} /\ Now = 2 BY <1>1, <1>4, Zenon DEF Now, Has
  <2>2. Cardinality({2}) = 1 BY Cards, Zenon
  <2>3. {n \in Retry : n <= 2} = {2} BY SMT DEF Retry
  <2>4. QED BY <2>1, <2>2, <2>3, SMT DEF CurrentRound
<1>5. CASE 3 \notin DOMAIN row.activation /\ 2 \notin DOMAIN row.activation
  <2>1. DOMAIN row.activation = {} /\ Now = 1 BY <1>1, <1>5, Zenon DEF Now, Has
  <2>2. Cardinality({}) = 0 BY Cards, Zenon
  <2>3. {n \in Retry : n <= 1} = {} BY SMT DEF Retry
  <2>4. QED BY <2>1, <2>2, <2>3, SMT DEF CurrentRound
<1>6. QED BY <1>3, <1>4, <1>5, Zenon

\* A task ready at the revision of a manifest is at the manifest's attempt, and
\* no run of that attempt has been.
LEMMA ReadyAt ==
    ASSUME Typed, Chain, NEW s \in DOMAIN row.manifest, At(row.manifest[s], "ready")
    PROVE  /\ s \in Slots /\ Round(s) \in 1..3
           /\ task.state = "ready" /\ task.revision = 3 * Round(s) - 2 /\ Now = Round(s)
           /\ plan.state = "active"
           /\ \A t \in DOMAIN row.run : Round(t) < Now
           /\ s \notin DOMAIN row.run
<1>1. s \in Slots /\ row.manifest[s].task = 3 * Round(s) - 2
  BY Zenon DEF Chain, ManifestRows
<1>2. Round(s) \in 1..3 BY <1>1, Rounds, Zenon
<1>3. /\ plan = [state |-> "active", revision |-> row.manifest[s].plan]
      /\ task = [state |-> "ready", revision |-> row.manifest[s].task]
  BY Zenon DEF At
<1>4. plan.state = "active" /\ task.state = "ready" /\ task.revision = row.manifest[s].task
  BY <1>3, Zenon
<1>5. task.revision = 3 * Now - 2 BY <1>4, Zenon DEF Chain, Clock
<1>6. Now = Round(s) BY <1>1, <1>2, <1>4, <1>5, NowIs, SMT
<1>7. ASSUME NEW t \in DOMAIN row.run PROVE Round(t) < Now
  <2>1. task.revision >= 3 * Round(t) - 1 /\ t \in Slots
    BY Zenon DEF Chain, RunRows, ManifestRows
  <2>2. QED BY <1>2, <1>5, <1>6, <2>1, Rounds, SMT
<1>8. s \notin DOMAIN row.run BY <1>2, <1>6, <1>7, SMT
<1>9. QED BY <1>1, <1>2, <1>4, <1>5, <1>6, <1>7, <1>8, Zenon

\* A task running at the revision of a run is at the run's attempt, which has
\* not failed yet.
LEMMA RunningAt ==
    ASSUME Typed, Chain, NEW s \in DOMAIN row.run, At(row.run[s], "running")
    PROVE  /\ s \in Slots /\ Round(s) \in 1..3 /\ s \in DOMAIN row.manifest
           /\ task.state = "running" /\ task.revision = 3 * Round(s) - 1 /\ Now = Round(s)
           /\ plan.state = "active"
           /\ s \notin DOMAIN row.failure
<1>1. s \in Slots /\ row.run[s].task = 3 * Round(s) - 1 /\ s \in DOMAIN row.manifest
  BY Zenon DEF Chain, RunRows, ManifestRows
<1>2. Round(s) \in 1..3 BY <1>1, Rounds, Zenon
<1>3. /\ plan = [state |-> "active", revision |-> row.run[s].plan]
      /\ task = [state |-> "running", revision |-> row.run[s].task]
  BY Zenon DEF At
<1>4. plan.state = "active" /\ task.state = "running" /\ task.revision = row.run[s].task
  BY <1>3, Zenon
<1>5. task.revision = 3 * Now - 1 BY <1>4, Zenon DEF Chain, Clock
<1>6. Now = Round(s) BY <1>1, <1>2, <1>4, <1>5, NowIs, SMT
<1>7. s \notin DOMAIN row.failure
  <2>1. s \in DOMAIN row.failure => task.revision >= 3 * Round(s)
    BY Zenon DEF Chain, FailureRows
  <2>2. QED BY <1>2, <1>5, <1>6, <2>1, SMT
<1>8. QED BY <1>1, <1>2, <1>4, <1>5, <1>6, <1>7, Zenon

-----------------------------------------------------------------------------
(* The rows the steps store: every one of them is new, and carries the     *)
(* revisions its table promises.                                           *)

\* A step that stores its receipt and changes nothing else.
Receipt == UNCHANGED <<task, plan, gated, sibling, account, reservation, fence, lease>>

\* A new manifest names its attempt's first revision, and opens one path to attempt
\* two only.
LEMMA ManifestShape ==
    ASSUME Typed, Chain, ManifestStep
    PROVE  /\ \E s, m :
                 /\ s \in Slots
                 /\ Gains("manifest", s, m)
                 /\ m.task = 3 * Round(s) - 2
                 /\ Round(s) \in Retry => Round(s) \in DOMAIN row.activation
                 /\ s \in {2, 4} => 2 \notin DOMAIN row.manifest /\ 4 \notin DOMAIN row.manifest
           /\ Receipt
<1> DEFINE Goal ==
        \E s, m :
            /\ s \in Slots
            /\ Gains("manifest", s, m)
            /\ m.task = 3 * Round(s) - 2
            /\ Round(s) \in Retry => Round(s) \in DOMAIN row.activation
            /\ s \in {2, 4} => 2 \notin DOMAIN row.manifest /\ 4 \notin DOMAIN row.manifest
<1>1. Receipt
  BY Zenon DEF ManifestStep, IssueManifest, IssueRetryManifest, IssueManifestV4, Receipted,
     graphVars, budgetVars, leaseVars, Receipt
<1>2. ASSUME task.state = "ready", ManifestUnique, NEW s \in Slots, Round(s) = Now, s # 3
      PROVE  /\ s \notin DOMAIN row.manifest
             /\ s \in {2, 4} => 2 \notin DOMAIN row.manifest /\ 4 \notin DOMAIN row.manifest
  <2>1. task.revision = 3 * Now - 2 BY <1>2, Zenon DEF Chain, Clock
  <2>2. \A t \in DOMAIN row.manifest \ {3} : Round(t) # Now
    <3>1. TAKE t \in DOMAIN row.manifest \ {3}
    <3>2. row.manifest[t].task = 3 * Round(t) - 2 BY Zenon DEF Chain, ManifestRows
    <3>3. row.manifest[t].task # task.revision BY <1>2, Zenon DEF ManifestUnique
    <3>4. QED BY <2>1, <3>2, <3>3, Zenon
  <2>3. s \notin DOMAIN row.manifest BY <1>2, <2>2, Zenon
  <2>4. s \in {2, 4} => Now = 2 BY <1>2, Rounds, Zenon
  <2>5. 2 # 3 /\ 4 # 3 BY SMT
  <2>6. QED BY <2>2, <2>3, <2>4, <2>5, Rounds, Zenon
<1>3. Now \in Retry => Now \in DOMAIN row.activation BY NowIs, SMT DEF Retry
<1>4. ASSUME NEW s \in Ordinary, IssueManifest(s) PROVE Goal
  <2>1. s \in Slots /\ s # 3 BY SMT DEF Ordinary, Slots
  <2>2. /\ Round(s) = Now /\ task.state = "ready" /\ ManifestUnique
        /\ Insert("manifest", s, NewManifest(s, {}))
    BY <1>4, NowIs, Zenon DEF IssueManifest, RevalidateState
  <2>3. task.revision = 3 * Now - 2 BY <2>2, Zenon DEF Chain, Clock
  <2>4. NewManifest(s, {}).task = 3 * Round(s) - 2 BY <2>2, <2>3, Zenon DEF NewManifest
  <2>5. Gains("manifest", s, NewManifest(s, {}))
    BY <1>2, <2>1, <2>2, InsertGains, Zenon DEF Typed, Tables
  <2>6. QED BY <1>2, <1>3, <2>1, <2>2, <2>4, <2>5, Zenon
<1>5. ASSUME IssueRetryManifest PROVE Goal
  <2>1. /\ ManifestUnique /\ task.state = "ready"
        /\ Insert("manifest", 2, NewManifest(2, row.schedule[2].expires))
        /\ 2 \in DOMAIN row.activation /\ At(row.activation[2], "ready")
    BY <1>5, Zenon DEF IssueRetryManifest, RevalidateState, LoadActivation, ActivationReplay,
       Standing, Has
  <2>2. task = [state |-> "ready", revision |-> row.activation[2].task] BY <2>1, Zenon DEF At
  <2>3. task.revision = 3 * 2 - 2 BY <2>1, <2>2, Zenon DEF Chain, ActivationRows
  <2>4. task.revision = 3 * Now - 2 BY <2>1, Zenon DEF Chain, Clock
  <2>5. 2 \in Slots /\ 2 # 3 /\ Now = 2 BY <2>3, <2>4, NowIs, SMT DEF Slots
  <2>6. Round(2) = Now BY <2>5, Rounds, Zenon
  <2>7. NewManifest(2, row.schedule[2].expires).task = 3 * Round(2) - 2
    BY <2>4, <2>6, Zenon DEF NewManifest
  <2>8. Gains("manifest", 2, NewManifest(2, row.schedule[2].expires))
    BY <1>2, <2>1, <2>5, <2>6, InsertGains, Zenon DEF Typed, Tables
  <2>9. QED BY <1>2, <1>3, <2>1, <2>5, <2>6, <2>7, <2>8, Zenon
<1>6. ASSUME IssueManifestV4 PROVE Goal
  <2>1. /\ 3 \notin DOMAIN row.manifest
        /\ Insert("manifest", 3, NewManifestV4(row.schedule[3]))
        /\ 3 \in DOMAIN row.activation /\ At(row.activation[3], "ready")
    BY <1>6, Zenon DEF IssueManifestV4, LoadActivationV2, ActivationReplayV2, Standing, Has
  <2>2. task = [state |-> "ready", revision |-> row.activation[3].task] BY <2>1, Zenon DEF At
  <2>3. task.revision = 3 * 3 - 2 BY <2>1, <2>2, Zenon DEF Chain, ActivationRows
  <2>4. NewManifestV4(row.schedule[3]).task = 3 * Round(3) - 2
    BY <2>3, Rounds, Zenon DEF NewManifestV4
  <2>5. 3 \in Slots /\ 3 \notin {2, 4} BY SMT DEF Slots
  <2>6. Gains("manifest", 3, NewManifestV4(row.schedule[3]))
    BY <2>1, InsertGains, Zenon DEF Typed, Tables
  <2>7. QED BY <2>1, <2>4, <2>5, <2>6, Rounds, Zenon
<1>7. QED BY <1>1, <1>4, <1>5, <1>6, Zenon DEF ManifestStep

\* A manifest is consumed once, at its revision, under a lease whose binding is checked
\* in the same transaction (_validate_mutation_binding).
LEMMA RunShape ==
    ASSUME Typed, Chain, ConsumeStep
    PROVE  \E s \in Slots :
              /\ s \in DOMAIN row.manifest /\ At(row.manifest[s], "ready")
              /\ MutationBinding(s)
              /\ Gains("run", s, NewRun(s))
              /\ task' = [state |-> "running", revision |-> task.revision + 1]
              /\ plan' = [plan EXCEPT !.revision = @ + 1]
              /\ UNCHANGED <<gated, sibling, account, reservation, fence>>
              /\ gated /\ s # 3 => task.revision = 1
              /\ lease' = IF s = 3 THEN lease ELSE [lease EXCEPT ![s].state = "released"]
<1>1. ASSUME NEW s \in Slots \ {3}, Consume(s)
      PROVE  /\ s \in DOMAIN row.manifest /\ At(row.manifest[s], "ready")
             /\ MutationBinding(s)
             /\ Insert("run", s, NewRun(s))
             /\ task' = [state |-> "running", revision |-> task.revision + 1]
             /\ plan' = [plan EXCEPT !.revision = @ + 1]
             /\ UNCHANGED <<gated, sibling, account, reservation, fence>>
             /\ gated /\ s # 3 => task.revision = 1
             /\ lease' = [lease EXCEPT ![s].state = "released"]
  BY <1>1, Zenon DEF Consume, StartTask, LeaseCurrent, Prepared, Has, budgetVars,
         ApprovedRevision
<1>2. ASSUME NEW s \in Slots \ {3}, Consume(s)
      PROVE  Gains("run", s, NewRun(s))
  BY <1>1, <1>2, ReadyAt, InsertGains, Zenon DEF Typed, Tables
<1>3. ASSUME ConsumeV3
      PROVE  /\ 3 \in DOMAIN row.manifest /\ At(row.manifest[3], "ready")
             /\ MutationBinding(3)
             /\ Insert("run", 3, NewRun(3))
             /\ task' = [state |-> "running", revision |-> task.revision + 1]
             /\ plan' = [plan EXCEPT !.revision = @ + 1]
             /\ UNCHANGED <<gated, sibling, account, reservation, fence>>
             /\ lease' = lease
  BY <1>3, Zenon DEF ConsumeV3, StartTask, LeaseV3Current, Has, budgetVars, NewRunV3
<1>4. ASSUME ConsumeV3
      PROVE  Gains("run", 3, NewRun(3))
  BY <1>3, <1>4, ReadyAt, InsertGains, Zenon DEF Typed, Tables
<1>5. CASE ConsumeV3
  <2>1. 3 \in Slots BY SMT DEF Slots
  <2>2. QED BY <1>3, <1>4, <1>5, <2>1, Zenon
<1>6. CASE \E s \in Slots \ {3} : Consume(s)
  <2>1. PICK s \in Slots \ {3} : Consume(s) BY <1>6, Zenon
  <2>2. s \in Slots /\ s # 3 BY Zenon
  <2>3. QED BY <1>1, <1>2, <2>1, <2>2, Zenon
<1>7. QED BY <1>5, <1>6, Zenon DEF ConsumeStep

\* A run fails once, at the revision it runs at.
LEMMA FailureShape ==
    ASSUME Typed, Chain, FailureStep
    PROVE  \E s, class :
              /\ s \in Slots
              /\ s \in DOMAIN row.run /\ At(row.run[s], "running")
              /\ Gains("failure", s, NewFailure(s, class))
              /\ task' = [state |-> "failed", revision |-> task.revision + 1]
              /\ UNCHANGED <<gated, account, reservation, fence, lease>>
<1>1. ASSUME NEW s \in Slots \ {3}, NEW class, RecordFailure(s, class)
      PROVE  /\ s \in DOMAIN row.run /\ At(row.run[s], "running")
             /\ Insert("failure", s, NewFailure(s, class))
             /\ task' = [state |-> "failed", revision |-> task.revision + 1]
             /\ UNCHANGED <<gated, account, reservation, fence, lease>>
  BY <1>1, Zenon DEF RecordFailure, CheckpointCurrent, Has, Settle, budgetVars, leaseVars
<1>2. ASSUME NEW class, RecordFailureV3(class)
      PROVE  /\ 3 \in DOMAIN row.run /\ At(row.run[3], "running")
             /\ Insert("failure", 3, NewFailure(3, class))
             /\ task' = [state |-> "failed", revision |-> task.revision + 1]
             /\ UNCHANGED <<gated, account, reservation, fence, lease>>
  BY <1>2, Zenon DEF RecordFailureV3, CheckpointV3Current, CheckpointCurrent, Has, NewFailureV3,
     budgetVars, leaseVars
<1>3. 3 \in Slots BY SMT DEF Slots
<1>4. PICK s, class :
         /\ s \in Slots
         /\ s \in DOMAIN row.run /\ At(row.run[s], "running")
         /\ Insert("failure", s, NewFailure(s, class))
         /\ task' = [state |-> "failed", revision |-> task.revision + 1]
         /\ UNCHANGED <<gated, account, reservation, fence, lease>>
  <2>1. CASE \E s \in Slots \ {3}, class \in FailureClasses : RecordFailure(s, class)
    BY <1>1, <2>1, Zenon
  <2>2. CASE \E class \in FailureClasses : RecordFailureV3(class)
    BY <1>2, <1>3, <2>2, Zenon
  <2>3. QED BY <2>1, <2>2, Zenon DEF FailureStep
<1>5. s \notin DOMAIN row.failure BY <1>4, RunningAt, Zenon
<1>6. Gains("failure", s, NewFailure(s, class))
  BY <1>4, <1>5, InsertGains, Zenon DEF Typed, Tables
<1>7. QED BY <1>4, <1>6, Zenon

\* A failure is registered under the number of its slot: the ordinary slots of
\* attempts two and three are refused, for attempt one was registered before them.
LEMMA FailedShape ==
    ASSUME Typed, Chain, FailedStep
    PROVE  /\ \E n \in 1..3 :
                 /\ n \in DOMAIN row.failure
                 /\ n \in Retry => n \in DOMAIN row.retry
                 /\ Gains("failed", n, Failed(n, row.failure[n]))
           /\ Receipt
<1>1. Receipt
  BY Zenon DEF FailedStep, RegisterAttempt, RegisterRetryAttempt, RegisterAttemptV3, Receipted,
     graphVars, budgetVars, leaseVars, Receipt
<1>2. 1 \in 1..3 /\ 2 \in 1..3 /\ 3 \in 1..3 /\ 1 \notin Retry BY SMT DEF Retry
<1>3. ASSUME NEW s \in Ordinary, RegisterAttempt(s)
      PROVE  1 \in DOMAIN row.failure /\ Gains("failed", 1, Failed(1, row.failure[1]))
  <2>1. /\ 1 \notin DOMAIN row.failed /\ s \in DOMAIN row.failure
        /\ Insert("failed", 1, Failed(1, row.failure[s]))
    BY <1>3, Zenon DEF RegisterAttempt, Has, FailedAttempt
  <2>2. s \in DOMAIN row.manifest BY <2>1, Zenon DEF Chain, FailureRows, RunRows
  <2>3. 2 \notin DOMAIN row.unit
    <3>1. 2 \in DOMAIN row.unit => 2 - 1 \in DOMAIN row.failed BY UnitLineage, Zenon
    <3>2. 2 - 1 = 1 BY SMT
    <3>3. QED BY <2>1, <3>1, <3>2, Zenon
  <2>4. 2 \notin DOMAIN row.activation /\ 3 \notin DOMAIN row.activation
    BY <2>3, ActivationLineage, SecondUnit, Zenon
  <2>5. s = 1
    <3>1. s \in {1, 4, 5} BY Zenon DEF Ordinary
    <3>2. QED BY <2>2, <2>4, <3>1, Rounds, Zenon DEF Chain, ManifestRows, Retry
  <2>6. QED BY <2>1, <2>5, InsertGains, Zenon DEF Typed, Tables
<1>4. ASSUME RegisterRetryAttempt
      PROVE  /\ 2 \in DOMAIN row.failure /\ 2 \in DOMAIN row.retry
             /\ Gains("failed", 2, Failed(2, row.failure[2]))
  <2>1. /\ 2 \notin DOMAIN row.failed /\ 2 \in DOMAIN row.failure /\ 2 \in DOMAIN row.retry
        /\ Insert("failed", 2, Failed(2, row.failure[2]))
    BY <1>4, Zenon DEF RegisterRetryAttempt, Has, FailedRetryAttempt, RetryAttemptCurrent,
       LoadRetryAttempt
  <2>2. QED BY <2>1, InsertGains, Zenon DEF Typed, Tables
<1>5. ASSUME RegisterAttemptV3
      PROVE  /\ 3 \in DOMAIN row.failure /\ 3 \in DOMAIN row.retry
             /\ Gains("failed", 3, Failed(3, row.failure[3]))
  <2>1. /\ 3 \notin DOMAIN row.failed /\ 3 \in DOMAIN row.failure /\ 3 \in DOMAIN row.retry
        /\ Insert("failed", 3, Failed(3, row.failure[3]))
    BY <1>5, Zenon DEF RegisterAttemptV3, Has, FailedAttemptV3, AttemptV3Current
  <2>2. QED BY <2>1, InsertGains, Zenon DEF Typed, Tables
<1>6. QED BY <1>1, <1>2, <1>3, <1>4, <1>5, Zenon DEF FailedStep

\* A decision is stored once per attempt, and is eligible for retryable classes only.
LEMMA DecisionShape ==
    ASSUME Typed, Chain, DecisionStep
    PROVE  /\ \E n, d :
                 /\ n \in {1, 2}
                 /\ n \in DOMAIN row.failed
                 /\ Gains("decision", n, d)
                 /\ d.outcome = "eligible" => row.failed[n].class \in RetryableClasses
           /\ Receipt
<1>1. Receipt
  BY Zenon DEF DecisionStep, Evaluate, EvaluateRetryAttempt, Receipted,
     graphVars, budgetVars, leaseVars, Receipt
<1>2. ASSUME Evaluate
      PROVE  /\ 1 \in DOMAIN row.failed
             /\ Gains("decision", 1, NewDecision(row.failed[1]))
             /\ NewDecision(row.failed[1]).outcome = "eligible" =>
                    row.failed[1].class \in RetryableClasses
  <2>1. /\ 1 \in DOMAIN row.failed /\ 1 \notin DOMAIN row.decision
        /\ Insert("decision", 1, NewDecision(row.failed[1]))
    BY <1>2, Zenon DEF Evaluate, LoadAttempt, Has
  <2>2. NewDecision(row.failed[1]).outcome = Outcome(row.failed[1]) BY Zenon DEF NewDecision
  <2>3. Outcome(row.failed[1]) = "eligible" => row.failed[1].class \in RetryableClasses
    BY Zenon DEF Outcome
  <2>4. QED BY <2>1, <2>2, <2>3, InsertGains, Zenon DEF Typed, Tables
<1>3. ASSUME EvaluateRetryAttempt
      PROVE  /\ 2 \in DOMAIN row.failed
             /\ Gains("decision", 2, NewDecisionV2(row.failed[2]))
             /\ NewDecisionV2(row.failed[2]).outcome = "eligible" =>
                    row.failed[2].class \in RetryableClasses
  <2>1. /\ 2 \in DOMAIN row.failed /\ 2 \notin DOMAIN row.decision
        /\ Insert("decision", 2, NewDecisionV2(row.failed[2]))
    BY <1>3, Zenon DEF EvaluateRetryAttempt, LoadRetryFailedAttempt, Has
  <2>2. NewDecisionV2(row.failed[2]).outcome = RetryAttemptOutcome(row.failed[2])
    BY Zenon DEF NewDecisionV2
  <2>3. RetryAttemptOutcome(row.failed[2]) = "eligible" =>
            row.failed[2].class \in RetryableClasses
    BY Zenon DEF RetryAttemptOutcome
  <2>4. QED BY <2>1, <2>2, <2>3, InsertGains, Zenon DEF Typed, Tables
<1>4. 1 \in {1, 2} /\ 2 \in {1, 2} BY Zenon
<1>5. CASE Evaluate BY <1>1, <1>2, <1>4, <1>5, SMT
<1>6. CASE EvaluateRetryAttempt BY <1>1, <1>3, <1>4, <1>6, SMT
<1>7. QED BY <1>5, <1>6, Zenon DEF DecisionStep

\* A retry is stored once per unit.
LEMMA RegisterShape ==
    ASSUME Typed, Chain, RegisterStep
    PROVE  /\ \E n, r :
                 /\ n \in Retry
                 /\ n \in DOMAIN row.unit
                 /\ Gains("retry", n, r)
                 /\ r.task = 3 * (n - 1) /\ r.account = row.unit[n].after
           /\ Receipt
<1>1. Receipt
  BY Zenon DEF RegisterStep, RegisterRetry, RegisterRetryV2, Receipted,
     graphVars, budgetVars, leaseVars, Receipt
<1>2. 2 \in Retry /\ 3 \in Retry /\ 3 * 1 = 3 * (2 - 1) /\ 3 * 2 = 3 * (3 - 1) BY SMT DEF Retry
<1>3. ASSUME RegisterRetry
      PROVE  /\ 2 \in DOMAIN row.unit
             /\ Gains("retry", 2, NewRetry(row.failed[1]))
             /\ NewRetry(row.failed[1]).task = 3 * 1
             /\ NewRetry(row.failed[1]).account = row.unit[2].after
  <2>1. /\ 2 \in DOMAIN row.unit /\ 1 \in DOMAIN row.failed /\ 2 \notin DOMAIN row.retry
        /\ Insert("retry", 2, NewRetry(row.failed[1]))
    BY <1>3, Zenon DEF RegisterRetry, ValidateConsumption, UnitReplay, LoadUnit, ValidateDecision,
       LoadAttempt, Has
  <2>2. row.failed[1].task = 3 * 1 BY <2>1, Zenon DEF Chain, FailedRows
  <2>3. /\ NewRetry(row.failed[1]).task = row.failed[1].task
        /\ NewRetry(row.failed[1]).account = row.unit[2].after
    BY Zenon DEF NewRetry
  <2>4. QED BY <2>1, <2>2, <2>3, InsertGains, Zenon DEF Typed, Tables
<1>4. ASSUME RegisterRetryV2
      PROVE  /\ 3 \in DOMAIN row.unit
             /\ Gains("retry", 3, NewRetryV2(row.failed[2]))
             /\ NewRetryV2(row.failed[2]).task = 3 * 2
             /\ NewRetryV2(row.failed[2]).account = row.unit[3].after
  <2>1. /\ 3 \in DOMAIN row.unit /\ 2 \in DOMAIN row.failed /\ 3 \notin DOMAIN row.retry
        /\ Insert("retry", 3, NewRetryV2(row.failed[2]))
    BY <1>4, Zenon DEF RegisterRetryV2, ValidateConsumptionV2, UnitReplayV2, LoadUnitV2,
       ValidateDecisionV2, LoadRetryFailedAttempt, Has
  <2>2. row.failed[2].task = 3 * 2 BY <2>1, Zenon DEF Chain, FailedRows
  <2>3. /\ NewRetryV2(row.failed[2]).task = row.failed[2].task
        /\ NewRetryV2(row.failed[2]).account = row.unit[3].after
    BY Zenon DEF NewRetryV2
  <2>4. QED BY <2>1, <2>2, <2>3, InsertGains, Zenon DEF Typed, Tables
<1>5. QED BY <1>1, <1>2, <1>3, <1>4, Zenon DEF RegisterStep

\* A schedule is stored once per retry and carries its revisions.
LEMMA ScheduleShape ==
    ASSUME Typed, Chain, ScheduleStep
    PROVE  /\ \E n, r :
                 /\ n \in Retry
                 /\ n \in DOMAIN row.retry
                 /\ Gains("schedule", n, r)
                 /\ r.task = row.retry[n].task /\ r.account = row.retry[n].account
           /\ Receipt
<1>1. Receipt
  BY Zenon DEF ScheduleStep, RegisterSchedule, RegisterScheduleV2, Receipted,
     graphVars, budgetVars, leaseVars, Receipt
<1>2. 2 \in Retry /\ 3 \in Retry BY SMT DEF Retry
<1>3. ASSUME RegisterSchedule
      PROVE  /\ 2 \in DOMAIN row.retry
             /\ Gains("schedule", 2, NewSchedule(row.retry[2]))
             /\ NewSchedule(row.retry[2]).task = row.retry[2].task
             /\ NewSchedule(row.retry[2]).account = row.retry[2].account
  <2>1. /\ 2 \in DOMAIN row.retry /\ 2 \notin DOMAIN row.schedule
        /\ Insert("schedule", 2, NewSchedule(row.retry[2]))
    BY <1>3, Zenon DEF RegisterSchedule, ValidateAttempt, RetryCurrent, Has
  <2>2. /\ NewSchedule(row.retry[2]).task = row.retry[2].task
        /\ NewSchedule(row.retry[2]).account = row.retry[2].account
    BY Zenon DEF NewSchedule, Scheduled
  <2>3. QED BY <2>1, <2>2, InsertGains, Zenon DEF Typed, Tables
<1>4. ASSUME RegisterScheduleV2
      PROVE  /\ 3 \in DOMAIN row.retry
             /\ Gains("schedule", 3, NewScheduleV2(row.retry[3]))
             /\ NewScheduleV2(row.retry[3]).task = row.retry[3].task
             /\ NewScheduleV2(row.retry[3]).account = row.retry[3].account
  <2>1. /\ 3 \in DOMAIN row.retry /\ 3 \notin DOMAIN row.schedule
        /\ Insert("schedule", 3, NewScheduleV2(row.retry[3]))
    BY <1>4, Zenon DEF RegisterScheduleV2, ValidateAttemptV2, Has
  <2>2. /\ NewScheduleV2(row.retry[3]).task = row.retry[3].task
        /\ NewScheduleV2(row.retry[3]).account = row.retry[3].account
    BY Zenon DEF NewScheduleV2, Scheduled
  <2>3. QED BY <2>1, <2>2, InsertGains, Zenon DEF Typed, Tables
<1>5. QED BY <1>1, <1>2, <1>3, <1>4, Zenon DEF ScheduleStep

\* Reopening a failed task: from the failed revision to the next attempt's first.
LEMMA ReopenShape ==
    ASSUME Typed, Chain, NEW n \in DOMAIN row.schedule, n \notin DOMAIN row.activation,
           Insert("activation", n, NewActivation(row.schedule[n])), Reopen(row.schedule[n])
    PROVE  /\ n \in Retry
           /\ Gains("activation", n, NewActivation(row.schedule[n]))
           /\ NewActivation(row.schedule[n]).task = 3 * n - 2
           /\ task.state = "failed" /\ task.revision = 3 * (n - 1) /\ plan.state = "failed"
           /\ task' = [state |-> "ready", revision |-> 3 * n - 2]
           /\ plan' = [state |-> "active", revision |-> plan.revision + 1]
           /\ Now = n - 1
           /\ UNCHANGED <<gated, sibling, account, reservation, fence, lease>>
<1>1. n \in Retry /\ n \in DOMAIN row.unit /\ row.schedule[n].task = 3 * (n - 1)
  BY Zenon DEF Chain, ScheduleRows, RetryRows, UnitRows
<1>2. 3 * (n - 1) + 1 = 3 * n - 2 BY <1>1, SMT DEF Retry
<1>3. NewActivation(row.schedule[n]).task = 3 * n - 2 BY <1>1, <1>2, Zenon DEF NewActivation
<1>4. /\ plan = [state |-> "failed", revision |-> row.schedule[n].plan]
      /\ task = [state |-> "failed", revision |-> row.schedule[n].task]
      /\ task' = [state |-> "ready", revision |-> row.schedule[n].task + 1]
      /\ plan' = [state |-> "active", revision |-> row.schedule[n].plan + 1]
      /\ UNCHANGED <<gated, sibling, account, reservation, fence, lease>>
  BY Zenon DEF Reopen, budgetVars, leaseVars
<1>5. /\ task.state = "failed" /\ task.revision = row.schedule[n].task
      /\ plan.state = "failed" /\ plan.revision = row.schedule[n].plan
  BY <1>4, Zenon
<1>6. Now = n - 1
  <2>1. CASE n = 2
    <3>1. 2 \notin DOMAIN row.activation BY <2>1, Zenon
    <3>2. Now \in 1..3 /\ ~(Now >= 2) BY <3>1, NowIs, Zenon
    <3>3. QED BY <2>1, <3>2, SMT
  <2>2. CASE n = 3
    <3>1. 3 \notin DOMAIN row.activation /\ 2 \in DOMAIN row.activation
      BY <1>1, <2>2, SecondUnit, Zenon
    <3>2. Now \in 1..3 /\ Now >= 2 /\ ~(Now >= 3) BY <3>1, NowIs, Zenon
    <3>3. QED BY <2>2, <3>2, SMT
  <2>3. QED BY <1>1, <2>1, <2>2, Zenon DEF Retry
<1>7. Gains("activation", n, NewActivation(row.schedule[n]))
  BY InsertGains, Zenon DEF Typed, Tables
<1>8. QED BY <1>1, <1>2, <1>3, <1>4, <1>5, <1>6, <1>7, Zenon

\* An activation reopens the task and its plan for the attempt after the present one.
LEMMA ActivateShape ==
    ASSUME Typed, Chain, ActivateStep
    PROVE  \E n, a :
              /\ n \in Retry
              /\ n \in DOMAIN row.schedule
              /\ Gains("activation", n, a)
              /\ a.task = 3 * n - 2
              /\ task.state = "failed" /\ task.revision = 3 * (n - 1) /\ plan.state = "failed"
              /\ task' = [state |-> "ready", revision |-> 3 * n - 2]
              /\ plan' = [state |-> "active", revision |-> plan.revision + 1]
              /\ Now = n - 1
              /\ UNCHANGED <<gated, sibling, account, reservation, fence, lease>>
<1>1. ASSUME Activate
      PROVE  /\ 2 \in DOMAIN row.schedule /\ 2 \notin DOMAIN row.activation
             /\ Insert("activation", 2, NewActivation(row.schedule[2]))
             /\ Reopen(row.schedule[2])
  BY <1>1, Zenon DEF Activate, LoadSchedule, Has
<1>2. ASSUME ActivateV2
      PROVE  /\ 3 \in DOMAIN row.schedule /\ 3 \notin DOMAIN row.activation
             /\ Insert("activation", 3, NewActivation(row.schedule[3]))
             /\ Reopen(row.schedule[3])
  BY <1>2, Zenon DEF ActivateV2, LoadScheduleV2, Has, NewActivation, NewActivationV2
<1>3. PICK n : /\ n \in DOMAIN row.schedule /\ n \notin DOMAIN row.activation
               /\ Insert("activation", n, NewActivation(row.schedule[n]))
               /\ Reopen(row.schedule[n])
  BY <1>1, <1>2, Zenon DEF ActivateStep
<1>4. QED BY <1>3, ReopenShape, Zenon

\* The third attempt is disposed of at the revision of its failure.
LEMMA DecideShape ==
    ASSUME Typed, Chain, Decide
    PROVE  /\ \E d : Gains("disposition", 3, d) /\ d.task = 9
           /\ 3 \in DOMAIN row.failed
           /\ Receipt
<1>1. Receipt BY Zenon DEF Decide, Receipted, graphVars, budgetVars, leaseVars, Receipt
<1>2. /\ 3 \in DOMAIN row.failed /\ 3 \notin DOMAIN row.disposition
      /\ Insert("disposition", 3, NewDisposition(row.failed[3]))
  BY Zenon DEF Decide, TerminalCurrent, Has
<1>3. NewDisposition(row.failed[3]).task = 9
  <2>1. row.failed[3].task = 3 * 3 BY <1>2, Zenon DEF Chain, FailedRows
  <2>2. 3 * 3 = 9 BY SMT
  <2>3. QED BY <2>1, <2>2, Zenon DEF NewDisposition
<1>4. Gains("disposition", 3, NewDisposition(row.failed[3]))
  BY <1>2, InsertGains, Zenon DEF Typed, Tables
<1>5. QED BY <1>1, <1>2, <1>3, <1>4, Zenon

\* The third attempt completes from its running revision.
LEMMA CompleteShape ==
    ASSUME Typed, Chain, CompleteV3
    PROVE  /\ Gains("completion", 3, NewCompletionV3)
           /\ task.state = "running" /\ task.revision = 8
           /\ task' = [state |-> "succeeded", revision |-> task.revision + 1]
<1>1. /\ 3 \in DOMAIN row.run /\ At(row.run[3], "running")
      /\ Insert("completion", 3, NewCompletionV3)
      /\ task' = [state |-> "succeeded", revision |-> task.revision + 1]
  BY Zenon DEF CompleteV3, CheckpointV3Current, CheckpointCurrent, Has, Settle
<1>2. task.state = "running" /\ task.revision = 3 * Round(3) - 1 BY <1>1, RunningAt, Zenon
<1>3. task.revision = 8 BY <1>2, Rounds, SMT
<1>4. 3 \notin DOMAIN row.completion
  <2>1. 3 \in DOMAIN row.completion => task.revision >= 9 BY Zenon DEF Chain, CompletionRows
  <2>2. QED BY <1>3, <2>1, SMT
<1>5. Gains("completion", 3, NewCompletionV3) BY <1>1, <1>4, InsertGains, Zenon DEF Typed, Tables
<1>6. QED BY <1>1, <1>2, <1>3, <1>5, Zenon

-----------------------------------------------------------------------------
(* Retry units.                                                            *)

\* The receipts of the units and the reservation they were drawn on.
Drawn ==
    \A n \in DOMAIN row.unit :
        /\ row.unit[n].after <= account
        /\ 1 \in DOMAIN reservation
        /\ row.unit[n].remaining + (n - 1) = reservation[1].retries

\* Units are drawn in order: none, the first, or both.
LEMMA UnitCount ==
    ASSUME Chain
    PROVE  /\ 2 \notin DOMAIN row.unit =>
                 DOMAIN row.unit = {} /\ Cardinality(DOMAIN row.unit) = 0
           /\ 2 \in DOMAIN row.unit /\ 3 \notin DOMAIN row.unit =>
                 DOMAIN row.unit = {2} /\ Cardinality(DOMAIN row.unit) = 1
           /\ 3 \in DOMAIN row.unit =>
                 DOMAIN row.unit = {2, 3} /\ Cardinality(DOMAIN row.unit) = 2
<1>1. DOMAIN row.unit \subseteq {2, 3} BY UnitLineage, Zenon DEF Retry
<1>2. 3 \in DOMAIN row.unit => 2 \in DOMAIN row.unit BY SecondUnit, Zenon
<1>3. Cardinality({}) = 0 /\ Cardinality({2}) = 1 BY Cards, Zenon
<1>4. Cardinality({2, 3}) = 2 BY Cards, Zenon
<1>5. /\ 2 \notin DOMAIN row.unit => DOMAIN row.unit = {}
      /\ 2 \in DOMAIN row.unit /\ 3 \notin DOMAIN row.unit => DOMAIN row.unit = {2}
      /\ 3 \in DOMAIN row.unit => DOMAIN row.unit = {2, 3}
  BY <1>1, <1>2, Zenon
<1>6. QED BY <1>3, <1>4, <1>5, Zenon

\* Both units are drawn on the reservation of attempt one.
LEMMA Consumed ==
    ASSUME Chain
    PROVE  /\ ConsumedUnits(1) = Cardinality(DOMAIN row.unit)
           /\ \A s : s # 1 => ConsumedUnits(s) = 0
<1>1. \A n \in DOMAIN row.unit : row.unit[n].capacity = 1 BY Zenon DEF Chain, UnitRows
<1>2. {n \in DOMAIN row.unit : row.unit[n].capacity = 1} = DOMAIN row.unit BY <1>1, Zenon
<1>3. \A s : s # 1 => {n \in DOMAIN row.unit : row.unit[n].capacity = s} = {} BY <1>1, Zenon
<1>4. Cardinality({}) = 0 BY Cards, Zenon
<1>5. QED BY <1>2, <1>3, <1>4, Zenon DEF ConsumedUnits

\* Drawing a unit: one per eligible decision, at the failed revision, leaving one
\* unit less of the first reservation and one account version more.
LEMMA UnitShape ==
    ASSUME Typed, Chain, Drawn, \A s \in DOMAIN reservation : reservation[s].retries \in Nat,
           UnitStep
    PROVE  \E n, u :
              /\ n \in Retry
              /\ n - 1 \in DOMAIN row.decision /\ row.decision[n - 1].outcome = "eligible"
              /\ Gains("unit", n, u)
              /\ u.capacity = 1 /\ u.after = account + 1 /\ u.remaining \in Nat
              /\ 1 \in DOMAIN reservation /\ u.remaining + (n - 1) = reservation[1].retries
              /\ Cardinality(DOMAIN row.unit) = n - 2
              /\ task.state = "failed" /\ task.revision = 3 * (n - 1)
              /\ account' = account + 1
              /\ UNCHANGED <<task, plan, gated, sibling, reservation, fence, lease>>
<1>1. account' = account + 1 /\ UNCHANGED <<task, plan, gated, sibling, reservation, fence, lease>>
  BY Zenon DEF UnitStep, ConsumeUnit, ConsumeUnitV2, Spent, graphVars, leaseVars
<1>2. ASSUME ConsumeUnit
      PROVE  /\ 1 \in DOMAIN row.decision /\ row.decision[1].outcome = "eligible"
             /\ Gains("unit", 2, NewUnit(1))
             /\ NewUnit(1).capacity = 1 /\ NewUnit(1).after = account + 1
             /\ NewUnit(1).remaining \in Nat /\ 1 \in DOMAIN reservation
             /\ NewUnit(1).remaining + 1 = reservation[1].retries
             /\ Cardinality(DOMAIN row.unit) = 0
             /\ task.state = "failed" /\ task.revision = 3
  <2>1. /\ 2 \notin DOMAIN row.unit
        /\ 1 \in DOMAIN row.decision /\ row.decision[1].outcome = "eligible"
        /\ 1 \in DOMAIN row.failed
        /\ task = [state |-> "failed", revision |-> row.failed[1].task]
        /\ LoadBudget(row.failed[1])
        /\ Insert("unit", 2, NewUnit(row.failed[1].slot))
    BY <1>2, Zenon DEF ConsumeUnit, ValidateDecision, DecisionOpen, LoadAttempt, AttemptCurrent,
       SecurityState, Has
  <2>2. row.failed[1].slot = 1 /\ row.failed[1].task = 3 * 1
    BY <2>1, Zenon DEF Chain, FailedRows
  <2>3. task.state = "failed" /\ task.revision = 3 * 1 BY <2>1, <2>2, Zenon
  <2>4. 1 \in DOMAIN reservation /\ reservation[1].retries >= 1
    BY <2>1, <2>2, Zenon DEF LoadBudget, Holds
  <2>5. ConsumedUnits(1) = 0 /\ Cardinality(DOMAIN row.unit) = 0
    BY <2>1, Consumed, UnitCount, Zenon
  <2>6. /\ NewUnit(1).capacity = 1 /\ NewUnit(1).after = account + 1
        /\ NewUnit(1).remaining = reservation[1].retries - ConsumedUnits(1) - 1
    BY Zenon DEF NewUnit
  <2>7. NewUnit(1).remaining \in Nat /\ NewUnit(1).remaining + 1 = reservation[1].retries
    BY <2>4, <2>5, <2>6, SMT
  <2>8. Gains("unit", 2, NewUnit(1)) BY <2>1, <2>2, InsertGains, Zenon DEF Typed, Tables
  <2>9. 3 * 1 = 3 BY SMT
  <2>10. QED BY <2>1, <2>3, <2>4, <2>5, <2>6, <2>7, <2>8, <2>9, Zenon
<1>3. ASSUME ConsumeUnitV2
      PROVE  /\ 2 \in DOMAIN row.decision /\ row.decision[2].outcome = "eligible"
             /\ Gains("unit", 3, NewUnitV2(1))
             /\ NewUnitV2(1).capacity = 1 /\ NewUnitV2(1).after = account + 1
             /\ NewUnitV2(1).remaining \in Nat /\ 1 \in DOMAIN reservation
             /\ NewUnitV2(1).remaining + 2 = reservation[1].retries
             /\ Cardinality(DOMAIN row.unit) = 1
             /\ task.state = "failed" /\ task.revision = 6
  <2>1. /\ 3 \notin DOMAIN row.unit
        /\ 2 \in DOMAIN row.decision /\ row.decision[2].outcome = "eligible"
        /\ 2 \in DOMAIN row.failed /\ 2 \in DOMAIN row.retry
        /\ task = [state |-> "failed", revision |-> row.failed[2].task]
        /\ LoadBudgetV2(row.unit[2].capacity)
        /\ Insert("unit", 3, NewUnitV2(row.unit[2].capacity))
    BY <1>3, Zenon DEF ConsumeUnitV2, ValidateDecisionV2, DecisionOpen, LoadRetryFailedAttempt,
       RetryAttemptCurrent, LoadRetryAttempt, Has
  <2>2. 2 \in DOMAIN row.unit /\ row.failed[2].task = 3 * 2
    BY <2>1, Zenon DEF Chain, FailedRows, RetryRows
  <2>3. row.unit[2].capacity = 1 /\ 1 \in DOMAIN reservation
    BY <2>2, Zenon DEF Chain, UnitRows, Drawn
  <2>4. task.state = "failed" /\ task.revision = 3 * 2 BY <2>1, <2>2, Zenon
  <2>5. reservation[1].retries >= 2 BY <2>1, <2>3, Zenon DEF LoadBudgetV2
  <2>6. ConsumedUnits(1) = 1 /\ Cardinality(DOMAIN row.unit) = 1
    BY <2>1, <2>2, Consumed, UnitCount, Zenon
  <2>7. /\ NewUnitV2(1).capacity = 1 /\ NewUnitV2(1).after = account + 1
        /\ NewUnitV2(1).remaining = reservation[1].retries - ConsumedUnits(1) - 1
    BY Zenon DEF NewUnitV2
  <2>8. NewUnitV2(1).remaining \in Nat /\ NewUnitV2(1).remaining + 2 = reservation[1].retries
    BY <2>3, <2>5, <2>6, <2>7, SMT
  <2>9. Gains("unit", 3, NewUnitV2(1)) BY <2>1, <2>3, InsertGains, Zenon DEF Typed, Tables
  <2>10. 3 * 2 = 6 BY SMT
  <2>11. QED BY <2>1, <2>3, <2>4, <2>6, <2>7, <2>8, <2>9, <2>10, Zenon
<1>4. /\ 2 \in Retry /\ 2 - 1 = 1 /\ 2 - 2 = 0 /\ 3 * (2 - 1) = 3
      /\ 3 \in Retry /\ 3 - 1 = 2 /\ 3 - 2 = 1 /\ 3 * (3 - 1) = 6
  BY SMT DEF Retry
<1>5. CASE ConsumeUnit
  <2>1. PICK u : u = NewUnit(1) BY Zenon
  <2>2. QED BY <1>1, <1>2, <1>4, <1>5, <2>1, Zenon
<1>6. CASE ConsumeUnitV2
  <2>1. PICK u : u = NewUnitV2(1) BY Zenon
  <2>2. QED BY <1>1, <1>3, <1>4, <1>6, <2>1, Zenon
<1>7. QED BY <1>5, <1>6, Zenon DEF UnitStep

-----------------------------------------------------------------------------
(* A receipt is never replaced.                                            *)

\* The tables that are not counters.
Receipts == Tables \ {"head"}

\* A step that keeps every row of a table.
Kept(t) == \A k \in DOMAIN row[t] : k \in DOMAIN row'[t] /\ row'[t][k] = row[t][k]

\* The amounts the unit steps read.
RetriesTyped == \A s \in DOMAIN reservation : reservation[s].retries \in Nat

\* Adding a row keeps the others.
LEMMA GainsKept == \A t, k, r : Gains(t, k, r) => Kept(t)
<1>1. ASSUME NEW t, NEW k, NEW r, Gains(t, k, r) PROVE Kept(t)
  BY <1>1, Zenon DEF Gains, Kept
<1>2. QED BY <1>1, Zenon

\* Every step keeps every row of every table of receipts.
LEMMA Growth ==
    ASSUME Typed, Chain, Drawn, RetriesTyped, [Next]_vars
    PROVE  /\ DOMAIN row' = Tables
           /\ \A t \in Receipts : Kept(t)
<1>1. \A t : row'[t] = row[t] => Kept(t) BY Zenon DEF Kept
<1>2. DOMAIN row' = Tables BY TableSteps, Zenon DEF Typed
<1>3. Kept("manifest") BY <1>1, TableSteps, ManifestShape, GainsKept, Zenon DEF Typed
<1>4. Kept("run") BY <1>1, TableSteps, RunShape, GainsKept, Zenon DEF Typed
<1>5. Kept("failure") BY <1>1, TableSteps, FailureShape, GainsKept, Zenon DEF Typed
<1>6. Kept("failed") BY <1>1, TableSteps, FailedShape, GainsKept, Zenon DEF Typed
<1>7. Kept("decision") BY <1>1, TableSteps, DecisionShape, GainsKept, Zenon DEF Typed
<1>8. Kept("unit")
  BY <1>1, TableSteps, UnitShape, GainsKept, Zenon DEF Typed, RetriesTyped
<1>9. Kept("retry") BY <1>1, TableSteps, RegisterShape, GainsKept, Zenon DEF Typed
<1>10. Kept("schedule") BY <1>1, TableSteps, ScheduleShape, GainsKept, Zenon DEF Typed
<1>11. Kept("activation") BY <1>1, TableSteps, ActivateShape, GainsKept, Zenon DEF Typed
<1>12. Kept("disposition") BY <1>1, TableSteps, DecideShape, GainsKept, Zenon DEF Typed
<1>13. Kept("completion") BY <1>1, TableSteps, CompleteShape, GainsKept, Zenon DEF Typed
<1>14. Kept("policy")
  <2>1. PolicyStep => \E n, r : n \notin DOMAIN row.policy /\ Insert("policy", n, r)
    BY Zenon DEF PolicyStep, IssuePolicy, IssuePolicyV2, Has
  <2>2. PolicyStep => \E n, r : Gains("policy", n, r)
    BY <2>1, InsertGains, Zenon DEF Typed, Tables
  <2>3. QED BY <1>1, <2>2, TableSteps, GainsKept, Zenon DEF Typed
<1>15. Kept("burial")
  <2>1. Bury => \E n, r : n \notin DOMAIN row.burial /\ Insert("burial", n, r)
    BY Zenon DEF Bury, Has
  <2>2. Bury => \E n, r : Gains("burial", n, r)
    BY <2>1, InsertGains, Zenon DEF Typed, Tables
  <2>3. QED BY <1>1, <2>2, TableSteps, GainsKept, Zenon DEF Typed
<1>16. Kept("letter")
  <2>1. RegisterDeadLetter => \E n, r : n \notin DOMAIN row.letter /\ Insert("letter", n, r)
    BY Zenon DEF RegisterDeadLetter, Has
  <2>2. RegisterDeadLetter => \E n, r : Gains("letter", n, r)
    BY <2>1, InsertGains, Zenon DEF Typed, Tables
  <2>3. QED BY <1>1, <2>2, TableSteps, GainsKept, Zenon DEF Typed
<1>17. \A t \in Receipts :
         t \in {"manifest", "run", "failure", "completion", "failed", "policy", "decision",
                "unit", "retry", "schedule", "activation", "disposition", "burial", "letter"}
  BY Zenon DEF Receipts, Tables
<1>18. QED
  BY <1>2, <1>3, <1>4, <1>5, <1>6, <1>7, <1>8, <1>9, <1>10, <1>11, <1>12, <1>13, <1>14, <1>15,
     <1>16, <1>17, Zenon

-----------------------------------------------------------------------------
(* The task.                                                               *)

\* The other steps that move the task.
Ends == TaskStates \ {"ready", "running"}

\* The steps of the chain that store a receipt and do nothing else.
LEMMA ReceiptSteps ==
    RetryStep =>
        \/ Receipted \/ ActivateStep \/ UnitStep \/ Bury
        \/ \E q \in Requests : ReserveRetry(q) \/ ReserveV4(q)
        \/ \E n \in {1, 2} : BackoffEnds(n)
<1>1. \A s : RegisterAttempt(s) => Receipted BY Zenon DEF RegisterAttempt
<1>2. \/ IssuePolicy \/ Evaluate \/ RegisterRetry \/ RegisterSchedule \/ IssueRetryManifest
      \/ RegisterRetryAttempt \/ IssuePolicyV2 \/ EvaluateRetryAttempt \/ RegisterRetryV2
      \/ RegisterScheduleV2 \/ IssueManifestV4 \/ RegisterAttemptV3 \/ Decide
      \/ RegisterDeadLetter
      => Receipted
  BY Zenon DEF IssuePolicy, Evaluate, RegisterRetry, RegisterSchedule, IssueRetryManifest,
     RegisterRetryAttempt, IssuePolicyV2, EvaluateRetryAttempt, RegisterRetryV2,
     RegisterScheduleV2, IssueManifestV4, RegisterAttemptV3, Decide, RegisterDeadLetter
<1>3. QED BY <1>1, <1>2, Zenon DEF RetryStep, ActivateStep, UnitStep

\* The task is moved by its runs, their failures, activations and what ends it.
LEMMA TaskSteps ==
    ASSUME [Next]_vars
    PROVE  \/ UNCHANGED task
           \/ ConsumeStep \/ FailureStep \/ ActivateStep
           \/ \E t \in Ends : task' = [state |-> t, revision |-> task.revision + 1]
<1> DEFINE Goal ==
        \/ UNCHANGED task
        \/ ConsumeStep \/ FailureStep \/ ActivateStep
        \/ \E t \in Ends : task' = [state |-> t, revision |-> task.revision + 1]
<1> SUFFICES Goal BY Zenon
<1>1. CASE UNCHANGED vars BY <1>1, Zenon DEF vars
<1>2. CASE RunStep
  <2>1. "succeeded" \in Ends BY Zenon DEF Ends, TaskStates
  <2>2. CompleteV3 => Goal BY <2>1, Zenon DEF CompleteV3, Settle
  <2>3. \A s, q : Reserve(s, q) => UNCHANGED task BY Zenon DEF Reserve, Store, graphVars
  <2>4. \A s : Acquire(s) \/ RecordCheckpoint(s) \/ IssueManifest(s) => UNCHANGED task
    BY Zenon DEF Acquire, TakeLease, RecordCheckpoint, NextCheckpoint, IssueManifest, graphVars
  <2>5. ActivateAccount \/ AcquireV3 \/ RecordCheckpointV3 => UNCHANGED task
    BY Zenon
       DEF ActivateAccount, AcquireV3, TakeLease, RecordCheckpointV3, NextCheckpoint, graphVars
  <2> HIDE DEF Goal
  <2>6. UNCHANGED task \/ ConsumeStep \/ FailureStep => Goal BY Zenon DEF Goal
  <2>7. QED
    BY <1>2, <2>2, <2>3, <2>4, <2>5, <2>6, Zenon DEF RunStep, ConsumeStep, FailureStep
<1>3. CASE RetryStep
  <2>1. "dead_letter" \in Ends BY Zenon DEF Ends, TaskStates
  <2>2. Bury => Goal BY <2>1, Zenon DEF Bury
  <2>3. \A q : ReserveRetry(q) \/ ReserveV4(q) => UNCHANGED task
    BY Zenon DEF ReserveRetry, ReserveV4, Store, graphVars
  <2>4. \A n : BackoffEnds(n) => UNCHANGED task BY Zenon DEF BackoffEnds, graphVars
  <2>5. RetryStep => \/ Receipted \/ ActivateStep \/ UnitStep \/ Bury
                     \/ \E q \in Requests : ReserveRetry(q) \/ ReserveV4(q)
                     \/ \E n \in {1, 2} : BackoffEnds(n)
    BY ReceiptSteps, Zenon
  <2>6. Receipted => UNCHANGED task BY Zenon DEF Receipted, graphVars
  <2>7. ConsumeUnit \/ ConsumeUnitV2 => UNCHANGED task
    BY Zenon DEF ConsumeUnit, ConsumeUnitV2, Spent, graphVars
  <2> HIDE DEF Goal
  <2>8. UNCHANGED task \/ ActivateStep => Goal BY Zenon DEF Goal
  <2>9. QED
    BY <1>3, <2>2, <2>3, <2>4, <2>5, <2>6, <2>7, <2>8, Zenon DEF UnitStep
<1>4. CASE PlanStep
  <2>1. \A t : Transition(t) => t \in Ends /\ task' = [state |-> t, revision |-> task.revision + 1]
    BY Zenon DEF Transition, Settle, Targets, Ends, TaskStates
  <2>2. StartSibling => UNCHANGED task BY Zenon DEF StartSibling
  <2>3. \A t : EndSibling(t) => UNCHANGED task BY Zenon DEF EndSibling
  <2>4. QED BY <1>4, <2>1, <2>2, <2>3, Zenon DEF PlanStep
<1>5. CASE RecoveryStep
  <2>1. "failed" \in Ends BY Zenon DEF Ends, TaskStates
  <2>2. RecoverPlan => Goal BY <2>1, Zenon DEF RecoverPlan
  <2>3. RecoverBudget \/ RecoverBudgetV4 \/ RecoverLeases \/ RecoverLeasesV3 => UNCHANGED task
    BY Zenon DEF RecoverBudget, RecoverBudgetV4, RecoverLeases, RecoverLeasesV3, RecoveredLeases,
       graphVars
  <2>4. QED BY <1>5, <2>2, <2>3, Zenon DEF RecoveryStep
<1>6. CASE Outside
  BY <1>6, Zenon DEF Outside, SetAuthority, ReplaceWorker, Lapse, ReserveOther, Release, Store,
     graphVars
<1>7. QED BY <1>1, <1>2, <1>3, <1>4, <1>5, <1>6, Zenon DEF Next

\* The revision of the task never goes back.
LEMMA Onward ==
    ASSUME Typed, Chain, [Next]_vars
    PROVE  /\ task' \in [state : TaskStates, revision : Nat]
           /\ task'.revision >= task.revision
           /\ task' = task \/ task'.revision = task.revision + 1
<1>1. task.revision \in Nat BY SMT DEF Typed
<1>2. \A t \in TaskStates : \A n \in Nat :
         /\ [state |-> t, revision |-> n] \in [state : TaskStates, revision : Nat]
         /\ [state |-> t, revision |-> n].revision = n
  BY SMT
<1>3. task.revision + 1 \in Nat /\ task.revision + 1 >= task.revision BY <1>1, SMT
<1>4. ASSUME NEW t \in TaskStates, task' = [state |-> t, revision |-> task.revision + 1]
      PROVE  /\ task' \in [state : TaskStates, revision : Nat]
             /\ task'.revision >= task.revision
             /\ task'.revision = task.revision + 1
  BY <1>2, <1>3, <1>4, Zenon
<1>5. /\ "ready" \in TaskStates /\ "running" \in TaskStates /\ "failed" \in TaskStates
      /\ \A t \in Ends : t \in TaskStates
  BY Zenon DEF TaskStates, Ends
<1>6. CASE UNCHANGED task
  <2>1. task'.revision >= task.revision BY <1>1, <1>6, SMT
  <2>2. QED BY <1>6, <2>1, Zenon DEF Typed
<1>7. CASE ConsumeStep BY <1>4, <1>5, <1>7, RunShape, Zenon
<1>8. CASE FailureStep BY <1>4, <1>5, <1>8, FailureShape, Zenon
<1>9. CASE ActivateStep
  <2>1. PICK n \in Retry : /\ task.revision = 3 * (n - 1)
                           /\ task' = [state |-> "ready", revision |-> 3 * n - 2]
    BY <1>9, ActivateShape, Zenon
  <2>2. 3 * n - 2 = task.revision + 1 BY <2>1, SMT DEF Retry
  <2>3. QED BY <1>4, <1>5, <2>1, <2>2, Zenon
<1>10. CASE \E t \in Ends : task' = [state |-> t, revision |-> task.revision + 1]
  BY <1>4, <1>5, <1>10, Zenon
<1>11. QED BY <1>6, <1>7, <1>8, <1>9, <1>10, TaskSteps, Zenon

-----------------------------------------------------------------------------
(* Every step keeps the chain.                                             *)

\* Every step keeps the manifests in their place in the chain.
LEMMA ManifestRowsStep ==
    ASSUME Typed, Chain, Drawn, RetriesTyped, [Next]_vars
    PROVE  ManifestRows' /\ PathsApart'
<1>1. Kept("activation") BY Growth, Zenon DEF Receipts, Tables
<1>2. CASE row'.manifest = row.manifest
  BY <1>1, <1>2, Zenon DEF Chain, ManifestRows, PathsApart, Kept
<1>3. CASE ManifestStep
  <2>1. PICK s, m :
           /\ s \in Slots
           /\ Gains("manifest", s, m)
           /\ m.task = 3 * Round(s) - 2
           /\ Round(s) \in Retry => Round(s) \in DOMAIN row.activation
           /\ s \in {2, 4} => 2 \notin DOMAIN row.manifest /\ 4 \notin DOMAIN row.manifest
    BY <1>3, ManifestShape, Zenon
  <2>2. ManifestRows' BY <1>1, <2>1, Zenon DEF Chain, ManifestRows, Kept, Gains
  <2>3. PathsApart'
    <3>1. 2 # 4 BY SMT
    <3>2. QED BY <2>1, <3>1, Zenon DEF Chain, PathsApart, Gains
  <2>4. QED BY <2>2, <2>3, Zenon
<1>4. QED BY <1>2, <1>3, TableSteps, Zenon DEF Typed

\* Every step keeps the runs in their place.
LEMMA RunRowsStep ==
    ASSUME Typed, Chain, Drawn, RetriesTyped, [Next]_vars
    PROVE  RunRows'
<1>1. Kept("manifest") BY Growth, Zenon DEF Receipts, Tables
<1>2. /\ task.revision \in Nat /\ task'.revision \in Nat
      /\ task'.revision >= task.revision
  BY Onward, SMT DEF Typed
<1>3. ASSUME NEW s \in DOMAIN row.run
      PROVE  /\ s \in DOMAIN row'.manifest
             /\ row.run[s].task = 3 * Round(s) - 1
             /\ task'.revision >= 3 * Round(s) - 1
  <2>1. /\ s \in DOMAIN row.manifest /\ row.run[s].task = 3 * Round(s) - 1
        /\ task.revision >= 3 * Round(s) - 1 /\ s \in Slots
    BY Zenon DEF Chain, RunRows, ManifestRows
  <2>2. 3 * Round(s) - 1 \in Int BY <2>1, Rounds, SMT
  <2>3. task'.revision >= 3 * Round(s) - 1 BY <1>2, <2>1, <2>2, SMT
  <2>4. QED BY <1>1, <2>1, <2>3, Zenon DEF Kept
<1>4. CASE row'.run = row.run BY <1>3, <1>4, Zenon DEF RunRows
<1>5. CASE ConsumeStep
  <2>1. PICK s \in Slots :
           /\ s \in DOMAIN row.manifest /\ At(row.manifest[s], "ready")
           /\ Gains("run", s, NewRun(s))
           /\ task' = [state |-> "running", revision |-> task.revision + 1]
    BY <1>5, RunShape, Zenon
  <2>2. task.revision = 3 * Round(s) - 2 /\ Round(s) \in 1..3 BY <2>1, ReadyAt, Zenon
  <2>3. NewRun(s).task = task.revision + 1 BY Zenon DEF NewRun
  <2>4. task'.revision = task.revision + 1 BY <2>1, Zenon
  <2>5. NewRun(s).task = 3 * Round(s) - 1 /\ task'.revision >= 3 * Round(s) - 1
    BY <2>2, <2>3, <2>4, SMT
  <2>6. s \in DOMAIN row'.manifest BY <1>1, <2>1, Zenon DEF Kept
  <2>7. QED BY <1>3, <2>1, <2>5, <2>6, Zenon DEF RunRows, Gains
<1>6. QED BY <1>4, <1>5, TableSteps, Zenon DEF Typed

\* Every step keeps the typed failures in their place.
LEMMA FailureRowsStep ==
    ASSUME Typed, Chain, Drawn, RetriesTyped, [Next]_vars
    PROVE  FailureRows'
<1>1. Kept("run") BY Growth, Zenon DEF Receipts, Tables
<1>2. /\ task.revision \in Nat /\ task'.revision \in Nat
      /\ task'.revision >= task.revision
  BY Onward, SMT DEF Typed
<1>3. ASSUME NEW s \in DOMAIN row.failure
      PROVE  /\ s \in DOMAIN row'.run /\ row.failure[s].slot = s
             /\ row.failure[s].task = 3 * Round(s)
             /\ task'.revision >= 3 * Round(s)
  <2>1. /\ s \in DOMAIN row.run /\ row.failure[s].task = 3 * Round(s) /\ row.failure[s].slot = s
        /\ task.revision >= 3 * Round(s) /\ s \in Slots
    BY Zenon DEF Chain, FailureRows, RunRows, ManifestRows
  <2>2. 3 * Round(s) \in Int BY <2>1, Rounds, SMT
  <2>3. task'.revision >= 3 * Round(s) BY <1>2, <2>1, <2>2, SMT
  <2>4. QED BY <1>1, <2>1, <2>3, Zenon DEF Kept
<1>4. CASE row'.failure = row.failure BY <1>3, <1>4, Zenon DEF FailureRows
<1>5. CASE FailureStep
  <2>1. PICK s, class :
           /\ s \in Slots
           /\ s \in DOMAIN row.run /\ At(row.run[s], "running")
           /\ Gains("failure", s, NewFailure(s, class))
           /\ task' = [state |-> "failed", revision |-> task.revision + 1]
    BY <1>5, FailureShape, Zenon
  <2>2. task.revision = 3 * Round(s) - 1 /\ Round(s) \in 1..3 BY <2>1, RunningAt, Zenon
  <2>3. NewFailure(s, class).task = task.revision + 1 /\ NewFailure(s, class).slot = s
    BY Zenon DEF NewFailure
  <2>4. task'.revision = task.revision + 1 BY <2>1, Zenon
  <2>5. NewFailure(s, class).task = 3 * Round(s) /\ task'.revision >= 3 * Round(s)
    BY <2>2, <2>3, <2>4, SMT
  <2>6. s \in DOMAIN row'.run BY <1>1, <2>1, Zenon DEF Kept
  <2>7. QED BY <1>3, <2>1, <2>3, <2>5, <2>6, Zenon DEF FailureRows, Gains
<1>6. QED BY <1>4, <1>5, TableSteps, Zenon DEF Typed

\* Every step keeps the registered attempts in their place.
LEMMA FailedRowsStep ==
    ASSUME Typed, Chain, Drawn, RetriesTyped, [Next]_vars
    PROVE  FailedRows'
<1>1. Kept("failure") /\ Kept("retry") BY Growth, Zenon DEF Receipts, Tables
<1>2. ASSUME NEW n \in DOMAIN row.failed
      PROVE  /\ n \in 1..3 /\ n \in DOMAIN row'.failure
             /\ n \in Retry => n \in DOMAIN row'.retry
             /\ row.failed[n].slot = n /\ row.failed[n].task = 3 * n
             /\ row.failed[n].class = row'.failure[n].class
  BY <1>1, Zenon DEF Chain, FailedRows, Kept
<1>3. CASE row'.failed = row.failed BY <1>2, <1>3, Zenon DEF FailedRows
<1>4. CASE FailedStep
  <2>1. PICK n \in 1..3 :
           /\ n \in DOMAIN row.failure
           /\ n \in Retry => n \in DOMAIN row.retry
           /\ Gains("failed", n, Failed(n, row.failure[n]))
    BY <1>4, FailedShape, Zenon
  <2>2. /\ Failed(n, row.failure[n]).slot = row.failure[n].slot
        /\ Failed(n, row.failure[n]).task = row.failure[n].task
        /\ Failed(n, row.failure[n]).class = row.failure[n].class
    BY Zenon DEF Failed
  <2>3. row.failure[n].slot = n /\ row.failure[n].task = 3 * Round(n)
    BY <2>1, Zenon DEF Chain, FailureRows
  <2>4. Round(n) = n BY SMT DEF Round
  <2>5. /\ n \in DOMAIN row'.failure /\ row'.failure[n] = row.failure[n]
        /\ n \in Retry => n \in DOMAIN row'.retry
    BY <1>1, <2>1, Zenon DEF Kept
  <2>6. /\ row'.failed[n].slot = n /\ row'.failed[n].task = 3 * n
        /\ row'.failed[n].class = row'.failure[n].class
    BY <2>1, <2>2, <2>3, <2>4, <2>5, Zenon DEF Gains
  <2>7. QED BY <1>2, <2>1, <2>5, <2>6, Zenon DEF FailedRows, Gains
<1>5. QED BY <1>3, <1>4, TableSteps, Zenon DEF Typed

\* Every step keeps the retry decisions in their place.
LEMMA DecisionRowsStep ==
    ASSUME Typed, Chain, Drawn, RetriesTyped, [Next]_vars
    PROVE  DecisionRows'
<1>1. Kept("failed") BY Growth, Zenon DEF Receipts, Tables
<1>2. ASSUME NEW n \in DOMAIN row.decision
      PROVE  /\ n \in {1, 2} /\ n \in DOMAIN row'.failed
             /\ row.decision[n].outcome = "eligible" => row'.failed[n].class \in RetryableClasses
  BY <1>1, Zenon DEF Chain, DecisionRows, Kept
<1>3. CASE row'.decision = row.decision BY <1>2, <1>3, Zenon DEF DecisionRows
<1>4. CASE DecisionStep
  <2>1. PICK n, d :
           /\ n \in {1, 2}
           /\ n \in DOMAIN row.failed
           /\ Gains("decision", n, d)
           /\ d.outcome = "eligible" => row.failed[n].class \in RetryableClasses
    BY <1>4, DecisionShape, Zenon
  <2>2. n \in DOMAIN row'.failed /\ row'.failed[n] = row.failed[n]
    BY <1>1, <2>1, Zenon DEF Kept
  <2>3. QED BY <1>2, <2>1, <2>2, Zenon DEF DecisionRows, Gains
<1>5. QED BY <1>3, <1>4, TableSteps, Zenon DEF Typed

\* Every step keeps the units in their place.
LEMMA UnitRowsStep ==
    ASSUME Typed, Chain, Drawn, RetriesTyped, [Next]_vars
    PROVE  UnitRows'
<1>1. Kept("decision") BY Growth, Zenon DEF Receipts, Tables
<1>2. CASE row'.unit = row.unit BY <1>1, <1>2, Zenon DEF Chain, UnitRows, Kept
<1>3. CASE UnitStep
  <2>1. PICK n, u :
              /\ n \in Retry
              /\ n - 1 \in DOMAIN row.decision /\ row.decision[n - 1].outcome = "eligible"
              /\ Gains("unit", n, u)
              /\ u.capacity = 1 /\ u.after = account + 1 /\ u.remaining \in Nat
    BY <1>3, UnitShape, Zenon DEF RetriesTyped
  <2>2. u.after \in Nat BY <2>1, SMT DEF Typed
  <2>3. QED BY <1>1, <2>1, <2>2, Zenon DEF Chain, UnitRows, Kept, Gains
<1>4. QED BY <1>2, <1>3, TableSteps, Zenon DEF Typed

\* Every step keeps the registered retries in their place.
LEMMA RetryRowsStep ==
    ASSUME Typed, Chain, Drawn, RetriesTyped, [Next]_vars
    PROVE  RetryRows'
<1>1. Kept("unit") BY Growth, Zenon DEF Receipts, Tables
<1>2. ASSUME NEW n \in DOMAIN row.retry
      PROVE  /\ n \in DOMAIN row'.unit
             /\ row.retry[n].task = 3 * (n - 1) /\ row.retry[n].account = row'.unit[n].after
  BY <1>1, Zenon DEF Chain, RetryRows, Kept
<1>3. CASE row'.retry = row.retry BY <1>2, <1>3, Zenon DEF RetryRows
<1>4. CASE RegisterStep
  <2>1. PICK n, r :
           /\ n \in Retry
           /\ n \in DOMAIN row.unit
           /\ Gains("retry", n, r)
           /\ r.task = 3 * (n - 1) /\ r.account = row.unit[n].after
    BY <1>4, RegisterShape, Zenon
  <2>2. n \in DOMAIN row'.unit /\ row'.unit[n] = row.unit[n] BY <1>1, <2>1, Zenon DEF Kept
  <2>3. QED BY <1>2, <2>1, <2>2, Zenon DEF RetryRows, Gains
<1>5. QED BY <1>3, <1>4, TableSteps, Zenon DEF Typed

\* Every step keeps the schedules in their place.
LEMMA ScheduleRowsStep ==
    ASSUME Typed, Chain, Drawn, RetriesTyped, [Next]_vars
    PROVE  ScheduleRows'
<1>1. Kept("unit") /\ Kept("retry") BY Growth, Zenon DEF Receipts, Tables
<1>2. ASSUME NEW n \in DOMAIN row.retry
      PROVE  /\ row.retry[n].task = 3 * (n - 1) /\ row.retry[n].account = row'.unit[n].after
             /\ n \in DOMAIN row'.retry /\ row'.unit[n].after = row.unit[n].after
  BY <1>1, Zenon DEF Chain, RetryRows, Kept
<1>3. CASE row'.schedule = row.schedule BY <1>2, <1>3, Zenon DEF Chain, ScheduleRows
<1>4. CASE ScheduleStep
  BY <1>2, <1>4, ScheduleShape, ZenonT(60) DEF Chain, ScheduleRows, Gains
<1>5. QED BY <1>3, <1>4, TableSteps, Zenon DEF Typed

\* Every step keeps the activations in their place.
LEMMA ActivationRowsStep ==
    ASSUME Typed, Chain, Drawn, RetriesTyped, [Next]_vars
    PROVE  ActivationRows'
<1>1. Kept("schedule") BY Growth, Zenon DEF Receipts, Tables
<1>2. /\ task.revision \in Nat /\ task'.revision \in Nat
      /\ task'.revision >= task.revision
  BY Onward, SMT DEF Typed
<1>3. ASSUME NEW n \in DOMAIN row.activation
      PROVE  /\ n \in DOMAIN row'.schedule /\ row.activation[n].task = 3 * n - 2
             /\ task'.revision >= 3 * n - 2
  <2>1. /\ n \in DOMAIN row.schedule /\ row.activation[n].task = 3 * n - 2
        /\ task.revision >= 3 * n - 2 /\ n \in Retry
    BY ActivationLineage, Zenon DEF Chain, ActivationRows
  <2>2. task'.revision >= 3 * n - 2 BY <1>2, <2>1, SMT DEF Retry
  <2>3. QED BY <1>1, <2>1, <2>2, Zenon DEF Kept
<1>4. CASE row'.activation = row.activation BY <1>3, <1>4, Zenon DEF ActivationRows
<1>5. CASE ActivateStep
  <2>1. PICK n, a :
           /\ n \in Retry
           /\ n \in DOMAIN row.schedule /\ Gains("activation", n, a) /\ a.task = 3 * n - 2
           /\ task' = [state |-> "ready", revision |-> 3 * n - 2]
    BY <1>5, ActivateShape, Zenon
  <2>2. task'.revision = 3 * n - 2 BY <2>1, Zenon
  <2>3. task'.revision >= 3 * n - 2 BY <2>1, <2>2, SMT DEF Retry
  <2>4. QED BY <1>1, <1>3, <2>1, <2>3, Zenon DEF ActivationRows, Gains, Kept
<1>6. QED BY <1>4, <1>5, TableSteps, Zenon DEF Typed

\* Every step keeps the dispositions and completions in their place.
LEMMA DispositionRowsStep ==
    ASSUME Typed, Chain, Drawn, RetriesTyped, [Next]_vars
    PROVE  DispositionRows' /\ CompletionRows'
<1>1. Kept("failed") BY Growth, Zenon DEF Receipts, Tables
<1>2. DispositionRows'
  <2>1. CASE row'.disposition = row.disposition
    BY <1>1, <2>1, Zenon DEF Chain, DispositionRows, Kept
  <2>2. CASE Decide
    BY <1>1, <2>2, DecideShape, ZenonT(60) DEF Chain, DispositionRows, Kept, Gains
  <2>3. QED BY <2>1, <2>2, TableSteps, Zenon DEF Typed
<1>3. /\ task.revision \in Nat /\ task'.revision \in Nat
      /\ task'.revision >= task.revision
  BY Onward, SMT DEF Typed
<1>4. \A n \in DOMAIN row.completion : n = 3 /\ task'.revision >= 9
  <2>1. task.revision >= 9 => task'.revision >= 9 BY <1>3, SMT
  <2>2. QED BY <2>1, Zenon DEF Chain, CompletionRows
<1>5. CompletionRows'
  <2>1. CASE row'.completion = row.completion BY <1>4, <2>1, Zenon DEF CompletionRows
  <2>2. CASE CompleteV3
    <3>1. /\ Gains("completion", 3, NewCompletionV3) /\ task.revision = 8
          /\ task' = [state |-> "succeeded", revision |-> task.revision + 1]
      BY <2>2, CompleteShape, Zenon
    <3>2. task'.revision >= 9 BY <3>1, SMT
    <3>3. QED BY <1>4, <3>1, <3>2, Zenon DEF CompletionRows, Gains
  <2>3. QED BY <2>1, <2>2, TableSteps, Zenon DEF Typed
<1>6. QED BY <1>2, <1>5, Zenon

\* What a step that is not an activation leaves of the attempt.
LEMMA SameRound == row'.activation = row.activation => Now' = Now
BY Zenon DEF Now, Has

\* Every step keeps the task at the revision of its attempt.
LEMMA ClockStep ==
    ASSUME Typed, Chain, Drawn, RetriesTyped, [Next]_vars
    PROVE  Clock'
<1>1. CASE ActivateStep
  <2>1. PICK n, a :
           /\ n \in Retry
           /\ Gains("activation", n, a) /\ Now = n - 1
           /\ task' = [state |-> "ready", revision |-> 3 * n - 2]
    BY <1>1, ActivateShape, Zenon
  <2>2. DOMAIN row'.activation = DOMAIN row.activation \cup {n} BY <2>1, Zenon DEF Gains
  <2>3. Now' = n
    <3>1. CASE n = 2
      <4>1. Now = 1 BY <2>1, <3>1, SMT
      <4>2. ~(Now >= 3) BY <4>1, SMT
      <4>3. 3 \notin DOMAIN row.activation BY <4>2, NowIs, Zenon
      <4>4. 3 # 2 BY SMT
      <4>5. 2 \in DOMAIN row'.activation /\ 3 \notin DOMAIN row'.activation
        BY <2>2, <3>1, <4>3, <4>4, Zenon
      <4>6. QED BY <3>1, <4>5, Zenon DEF Now, Has
    <3>2. CASE n = 3 BY <2>2, <3>2, Zenon DEF Now, Has
    <3>3. QED BY <2>1, <3>1, <3>2, Zenon DEF Retry
  <2>4. task'.state = "ready" /\ task'.revision = 3 * n - 2 BY <2>1, Zenon
  <2>5. QED BY <2>3, <2>4, Zenon DEF Clock
<1>2. ASSUME ~ActivateStep PROVE Now' = Now BY <1>2, TableSteps, SameRound, Zenon DEF Typed
<1>3. CASE UNCHANGED task /\ ~ActivateStep BY <1>2, <1>3, Zenon DEF Chain, Clock
<1>4. CASE ConsumeStep /\ ~ActivateStep
  <2>1. PICK s \in Slots :
           /\ s \in DOMAIN row.manifest /\ At(row.manifest[s], "ready")
           /\ task' = [state |-> "running", revision |-> task.revision + 1]
    BY <1>4, RunShape, Zenon
  <2>2. task.revision = 3 * Round(s) - 2 /\ Now = Round(s) /\ Round(s) \in 1..3
    BY <2>1, ReadyAt, Zenon
  <2>3. task'.state = "running" /\ task'.revision = task.revision + 1 BY <2>1, Zenon
  <2>4. task'.revision = 3 * Now' - 1 BY <1>2, <1>4, <2>2, <2>3, SMT
  <2>5. QED BY <2>3, <2>4, Zenon DEF Clock
<1>5. CASE FailureStep
  <2>1. PICK r : task' = [state |-> "failed", revision |-> r] BY <1>5, FailureShape, Zenon
  <2>2. task'.state = "failed" BY <2>1, Zenon
  <2>3. QED BY <2>2, Zenon DEF Clock
<1>6. CASE \E t \in Ends : task' = [state |-> t, revision |-> task.revision + 1]
  <2>1. PICK t \in Ends : task' = [state |-> t, revision |-> task.revision + 1] BY <1>6, Zenon
  <2>2. task'.state = t BY <2>1, Zenon
  <2>3. t # "ready" /\ t # "running" BY Zenon DEF Ends
  <2>4. QED BY <2>2, <2>3, Zenon DEF Clock
<1>7. QED BY <1>1, <1>3, <1>4, <1>5, <1>6, TaskSteps, Zenon

\* Every step keeps the chain of receipts.
LEMMA ChainStep ==
    ASSUME Typed, Chain, Drawn, RetriesTyped, [Next]_vars
    PROVE  Chain'
BY ManifestRowsStep, RunRowsStep, FailureRowsStep, FailedRowsStep, DecisionRowsStep, UnitRowsStep,
   RetryRowsStep, ScheduleRowsStep, ActivationRowsStep, DispositionRowsStep, ClockStep, Zenon
   DEF Chain

-----------------------------------------------------------------------------
(* Reservations and the account.                                           *)

\* The columns of a reservation the model has.
ReservationFields == {"state", "account", "work", "retries", "plan", "task", "expires"}

\* A reservation belongs to a manifest; while it is open, it carries the account
\* version it left, which for a retry is the one after its unit's.
ReservationRow(s, r) ==
    /\ s \in Slots \cup {Other}
    /\ s \in Slots => s \in DOMAIN row.manifest
    /\ DOMAIN r = ReservationFields
    /\ r.state \in {"reserved", "released"}
    /\ r.work \in Nat /\ r.retries \in Nat
    /\ r.state = "reserved" =>
          /\ r.account \in Nat /\ r.account <= account
          /\ s \in Retry => r.account = row.unit[s].after + 1
    /\ s \in {4, 5} => account > row.unit[s - 2].after

ReservationRows == \A s \in DOMAIN reservation : ReservationRow(s, reservation[s])

\* No two open reservations carry the same version of the account.
Versions ==
    \A s, t \in DOMAIN reservation :
        /\ reservation[s].state = "reserved" /\ reservation[t].state = "reserved"
        /\ reservation[s].account = reservation[t].account
        => s = t

\* What the budget service keeps.
Budget == ReservationRows /\ Versions /\ Drawn

\* The steps that store a reservation, and those that release some.
StoreStep ==
    \/ \E s \in Ordinary, q \in Requests : Reserve(s, q)
    \/ \E q \in Requests : ReserveRetry(q) \/ ReserveV4(q) \/ ReserveOther(q)

ReleaseStep == RecoverBudget \/ RecoverBudgetV4

\* The account moves with its activation, the units, the reservations and releases.
LEMMA BudgetSteps ==
    ASSUME [Next]_vars
    PROVE  /\ UNCHANGED reservation \/ StoreStep \/ ReleaseStep
           /\ UNCHANGED account \/ ActivateAccount \/ UnitStep \/ StoreStep \/ ReleaseStep
<1>1. CASE UNCHANGED vars BY <1>1, Zenon DEF vars
<1>2. CASE RunStep
  <2>1. \A s : Acquire(s) \/ RecordCheckpoint(s) \/ IssueManifest(s) \/ Consume(s)
              => UNCHANGED budgetVars
    BY Zenon DEF Acquire, TakeLease, RecordCheckpoint, NextCheckpoint, IssueManifest, Consume,
       StartTask
  <2>2. AcquireV3 \/ ConsumeV3 \/ RecordCheckpointV3 \/ CompleteV3 => UNCHANGED budgetVars
    BY Zenon DEF AcquireV3, TakeLease, RecordCheckpointV3, NextCheckpoint, ConsumeV3,
       StartTask, CompleteV3
  <2>3. \A s, class : RecordFailure(s, class) => UNCHANGED budgetVars
    BY Zenon DEF RecordFailure
  <2>4. \A class : RecordFailureV3(class) => UNCHANGED budgetVars BY Zenon DEF RecordFailureV3
  <2>5. ActivateAccount => UNCHANGED reservation BY Zenon DEF ActivateAccount
  <2>6. UNCHANGED budgetVars => UNCHANGED account /\ UNCHANGED reservation BY Zenon DEF budgetVars
  <2>7. QED
    BY <1>2, <2>1, <2>2, <2>3, <2>4, <2>5, <2>6, Zenon DEF RunStep, StoreStep
<1>3. CASE RetryStep
  <2>1. UNCHANGED budgetVars => UNCHANGED account /\ UNCHANGED reservation BY Zenon DEF budgetVars
  <2>2. \A n : BackoffEnds(n) => UNCHANGED budgetVars BY Zenon DEF BackoffEnds
  <2>3. RetryStep => \/ Receipted \/ ActivateStep \/ UnitStep \/ Bury
                     \/ \E q \in Requests : ReserveRetry(q) \/ ReserveV4(q)
                     \/ \E n \in {1, 2} : BackoffEnds(n)
    BY ReceiptSteps, Zenon
  <2>4. Receipted => UNCHANGED budgetVars BY Zenon DEF Receipted
  <2>5. ConsumeUnit \/ ConsumeUnitV2 => UNCHANGED reservation
    BY Zenon DEF ConsumeUnit, ConsumeUnitV2, Spent
  <2>6. Activate \/ ActivateV2 \/ Bury => UNCHANGED budgetVars
    BY Zenon DEF Activate, ActivateV2, Reopen, Bury
  <2>7. QED
    BY <1>3, <2>1, <2>2, <2>3, <2>4, <2>5, <2>6, Zenon DEF StoreStep, UnitStep, ActivateStep
<1>4. CASE PlanStep
  BY <1>4, Zenon DEF PlanStep, Transition, StartSibling, EndSibling, budgetVars
<1>5. CASE RecoveryStep
  BY <1>5, Zenon DEF RecoveryStep, ReleaseStep, RecoverPlan, RecoverLeases, RecoverLeasesV3,
     RecoveredLeases, budgetVars
<1>6. CASE Outside
  BY <1>6, Zenon DEF Outside, SetAuthority, ReplaceWorker, Lapse, Release, StoreStep, budgetVars
<1>7. QED BY <1>1, <1>2, <1>3, <1>4, <1>5, <1>6, Zenon DEF Next

\* Storing a reservation writes its own row.
LEMMA StoredIs ==
    ASSUME NEW s, NEW r, reservation' = With(reservation, s, r)
    PROVE  /\ DOMAIN reservation' = DOMAIN reservation \cup {s}
           /\ reservation'[s] = r
           /\ \A j \in DOMAIN reservation \ {s} : reservation'[j] = reservation[j]
BY SMT DEF With

\* Reserved retries are numbers.
LEMMA BudgetTypes == Budget => RetriesTyped
BY Zenon DEF Budget, ReservationRows, ReservationRow, RetriesTyped

\* The unit that paid for the attempt a slot belongs to.
LEMMA SlotUnit ==
    ASSUME Chain, NEW s \in DOMAIN row.manifest
    PROVE  /\ s \in Retry => s \in DOMAIN row.unit /\ s \in DOMAIN row.schedule
           /\ s \in {4, 5} => s - 2 \in DOMAIN row.unit
<1>1. Round(s) \in Retry => Round(s) \in DOMAIN row.unit /\ Round(s) \in DOMAIN row.schedule
  BY ActivationLineage, Zenon DEF Chain, ManifestRows
<1>2. s \in Retry => Round(s) = s BY SMT DEF Retry, Round
<1>3. s \in {4, 5} => Round(s) = s - 2 /\ s - 2 \in Retry BY SMT DEF Retry, Round
<1>4. QED BY <1>1, <1>2, <1>3, Zenon

\* A reservation is stored where there was none, or a released one, after it was
\* found to fit, and moves the account by one version.
LEMMA StoreShape ==
    ASSUME Typed, Chain, Budget, StoreStep
    PROVE  \E s, q, e :
              /\ s \in Slots \cup {Other} /\ q \in Requests
              /\ s \in DOMAIN reservation => reservation[s].state = "released"
              /\ Fits(s, q)
              /\ reservation' = With(reservation, s, NewReservation(q, e))
              /\ account' = account + 1
              /\ UNCHANGED <<task, plan, gated, sibling, fence, lease, row>>
              /\ s \in Slots => s \in DOMAIN row.manifest /\ At(row.manifest[s], "ready")
              /\ s \in Retry => /\ s \notin DOMAIN reservation
                                /\ account = row.unit[s].after
                                /\ Unmoved(row.schedule[s])
<1> DEFINE Stored(s, q, e) ==
              /\ s \in DOMAIN reservation => reservation[s].state = "released"
              /\ Fits(s, q)
              /\ reservation' = With(reservation, s, NewReservation(q, e))
              /\ account' = account + 1
              /\ UNCHANGED <<task, plan, gated, sibling, fence, lease, row>>
              /\ s \in Slots => s \in DOMAIN row.manifest /\ At(row.manifest[s], "ready")
              /\ s \in Retry => /\ s \notin DOMAIN reservation
                                /\ account = row.unit[s].after
                                /\ Unmoved(row.schedule[s])
<1> SUFFICES \E s, q, e : s \in Slots \cup {Other} /\ q \in Requests /\ Stored(s, q, e) BY Zenon
<1>1. ASSUME NEW s, NEW q, NEW e, Store(s, q, e)
      PROVE  /\ Fits(s, q)
             /\ reservation' = With(reservation, s, NewReservation(q, e))
             /\ account' = account + 1
             /\ UNCHANGED <<task, plan, gated, sibling, fence, lease, row>>
  BY <1>1, Zenon DEF Store, graphVars, leaseVars
<1>2. /\ \A s \in Ordinary : s \in Slots /\ s \notin Retry
      /\ 2 \in Slots /\ 3 \in Slots /\ Other \notin Slots /\ Other \notin Retry
  BY SMT DEF Ordinary, Slots, Retry, Other
<1>3. ASSUME NEW s \in Ordinary, NEW q \in Requests, Reserve(s, q)
      PROVE  Stored(s, q, {<<"budget", s>>} \cup AccountDeadline)
  <2>1. /\ s \in DOMAIN reservation => reservation[s].state = "released"
        /\ s \in DOMAIN row.manifest /\ At(row.manifest[s], "ready")
        /\ Store(s, q, {<<"budget", s>>} \cup AccountDeadline)
    BY <1>3, Zenon DEF Reserve, ReserveCurrent, Has
  <2>2. QED BY <1>1, <1>2, <2>1, Zenon
<1>4. ASSUME NEW q \in Requests, ReserveOther(q)
      PROVE  Stored(Other, q, AccountDeadline)
  BY <1>1, <1>2, <1>4, Zenon DEF ReserveOther
<1>5. ASSUME NEW q \in Requests, ReserveRetry(q)
      PROVE  Stored(2, q, {<<"budget", 2>>} \cup AccountDeadline)
  <2>1. /\ 2 \notin DOMAIN reservation
        /\ 2 \in DOMAIN row.manifest /\ At(row.manifest[2], "ready")
        /\ Store(2, q, {<<"budget", 2>>} \cup AccountDeadline)
        /\ account = row.schedule[2].account /\ Unmoved(row.schedule[2])
        /\ 2 \in DOMAIN row.activation
    BY <1>5, Zenon DEF ReserveRetry, ReserveCurrent, LoadActivation, ActivationReplay, Standing, Has
  <2>2. row.schedule[2].account = row.unit[2].after
    BY <2>1, ActivationLineage, Zenon DEF Chain, ScheduleRows
  <2>3. QED BY <1>1, <1>2, <2>1, <2>2, Zenon
<1>6. ASSUME NEW q \in Requests, ReserveV4(q)
      PROVE  Stored(3, q, {<<"budget", 3>>} \cup AccountDeadline \cup row.manifest[3].expires)
  <2>1. /\ 3 \notin DOMAIN reservation
        /\ 3 \in DOMAIN row.manifest /\ At(row.manifest[3], "ready")
        /\ Store(3, q, {<<"budget", 3>>} \cup AccountDeadline \cup row.manifest[3].expires)
        /\ account = row.schedule[3].account /\ Unmoved(row.schedule[3])
        /\ 3 \in DOMAIN row.activation
    BY <1>6, Zenon DEF ReserveV4, ReserveV4Current, LoadManifestV4, ManifestReplayV4,
       LoadActivationV2, ActivationReplayV2, Standing, Has
  <2>2. row.schedule[3].account = row.unit[3].after
    BY <2>1, ActivationLineage, Zenon DEF Chain, ScheduleRows
  <2>3. QED BY <1>1, <1>2, <2>1, <2>2, Zenon
<1> HIDE DEF Stored
<1>7. CASE \E s \in Ordinary, q \in Requests : Reserve(s, q) BY <1>2, <1>3, <1>7, Zenon
<1>8. CASE \E q \in Requests : ReserveRetry(q) \/ ReserveV4(q) \/ ReserveOther(q)
  <2>1. PICK q \in Requests : ReserveRetry(q) \/ ReserveV4(q) \/ ReserveOther(q) BY <1>8, Zenon
  <2>2. CASE ReserveRetry(q) BY <1>2, <1>5, <2>2, Zenon
  <2>3. CASE ReserveV4(q) BY <1>2, <1>6, <2>3, Zenon
  <2>4. CASE ReserveOther(q) BY <1>4, <2>4, Zenon
  <2>5. QED BY <2>1, <2>2, <2>3, <2>4, Zenon
<1>9. QED BY <1>7, <1>8, Zenon DEF StoreStep

\* A release closes open reservations and moves the account on.
LEMMA ReleaseShape ==
    ASSUME Typed, Budget, ReleaseStep
    PROVE  \E S \in SUBSET DOMAIN reservation :
              /\ \A s \in S : reservation[s].state = "reserved"
              /\ reservation' = Released(S)
              /\ account' \in Nat /\ account' > account
              /\ UNCHANGED <<task, plan, gated, sibling, fence, lease, row>>
<1>1. UNCHANGED <<task, plan, gated, sibling, fence, lease, row>>
  BY Zenon DEF ReleaseStep, RecoverBudget, RecoverBudgetV4, graphVars, leaseVars
<1>2. CASE RecoverBudget
  <2> DEFINE S == ReservedRows({1, 2, 4, 5, Other})
  <2>1. reservation' = Released(S) /\ account' = account + Cardinality(S)
    BY <1>2, Zenon DEF RecoverBudget
  <2>2. S \subseteq DOMAIN reservation /\ \A s \in S : reservation[s].state = "reserved"
    BY Zenon DEF ReservedRows
  <2>3. S \subseteq 1..6 BY SMT DEF ReservedRows, Other
  <2> HIDE DEF S
  <2>4. S # {} BY <1>2, Zenon DEF RecoverBudget, S
  <2>5. Cardinality(S) \in Nat /\ Cardinality(S) # 0 BY <2>3, <2>4, CardAdds, Zenon
  <2>6. account' \in Nat /\ account' > account BY <2>1, <2>5, SMT DEF Typed
  <2>7. QED BY <1>1, <2>1, <2>2, <2>6, Zenon
<1>3. CASE RecoverBudgetV4
  <2>1. reservation' = Released({3}) /\ account' = account + 1 /\ ReservedRows({3}) # {}
    BY <1>3, Zenon DEF RecoverBudgetV4
  <2>2. 3 \in DOMAIN reservation /\ reservation[3].state = "reserved"
    BY <2>1, Zenon DEF ReservedRows
  <2>3. account' \in Nat /\ account' > account BY <2>1, SMT DEF Typed
  <2>4. {3} \in SUBSET DOMAIN reservation BY <2>2, Zenon
  <2>5. \A s \in {3} : reservation[s].state = "reserved" BY <2>2, Zenon
  <2>6. QED BY <1>1, <2>1, <2>3, <2>4, <2>5, Zenon
<1>4. QED BY <1>2, <1>3, Zenon DEF ReleaseStep

\* The version of the account never goes back.
LEMMA AccountOnward ==
    ASSUME Typed, Chain, Budget, [Next]_vars
    PROVE  account' \in Nat /\ account' >= account
<1>1. account \in Nat BY Zenon DEF Typed
<1>2. account' = account \/ account' = account + 1 => account' \in Nat /\ account' >= account
  BY <1>1, SMT
<1>3. ActivateAccount => account' = account + 1
  <2>1. ActivateAccount => account = 0 /\ account' = 1 BY Zenon DEF ActivateAccount
  <2>2. QED BY <2>1, SMT
<1>4. UnitStep => account' = account + 1
  BY Zenon DEF UnitStep, ConsumeUnit, ConsumeUnitV2, Spent
<1>5. StoreStep => account' = account + 1 BY StoreShape, Zenon
<1>6. account' \in Nat /\ account' > account => account' >= account BY <1>1, SMT
<1>7. QED BY <1>2, <1>3, <1>4, <1>5, <1>6, BudgetSteps, ReleaseShape, Zenon

\* A released reservation keeps its amounts.
LEMMA ReleasedIs ==
    ASSUME ReservationRows, NEW S \in SUBSET DOMAIN reservation, reservation' = Released(S)
    PROVE  /\ DOMAIN reservation' = DOMAIN reservation
           /\ \A s \in DOMAIN reservation :
                 /\ s \notin S => reservation'[s] = reservation[s]
                 /\ s \in S => reservation'[s].state = "released"
                 /\ DOMAIN reservation'[s] = ReservationFields
                 /\ reservation'[s].work = reservation[s].work
                 /\ reservation'[s].retries = reservation[s].retries
<1>1. DOMAIN reservation' = DOMAIN reservation BY Zenon DEF Released
<1>2. ASSUME NEW s \in DOMAIN reservation
      PROVE  /\ s \notin S => reservation'[s] = reservation[s]
             /\ s \in S => reservation'[s].state = "released"
             /\ DOMAIN reservation'[s] = ReservationFields
             /\ reservation'[s].work = reservation[s].work
             /\ reservation'[s].retries = reservation[s].retries
  <2>1. DOMAIN reservation[s] = ReservationFields BY Zenon DEF ReservationRows, ReservationRow
  <2>2. CASE s \notin S
    <3>1. reservation'[s] = reservation[s] BY <2>2, Zenon DEF Released
    <3>2. QED BY <2>1, <2>2, <3>1, Zenon
  <2>3. CASE s \in S
    <3> DEFINE v == account + Cardinality({t \in S : t <= s})
    <3>1. reservation'[s] = [reservation[s] EXCEPT !.state = "released", !.account = v]
      BY <2>3, Zenon DEF Released
    <3> HIDE DEF v
    <3>2. QED BY <2>1, <2>3, <3>1, Zenon DEF ReservationFields
  <2>4. QED BY <2>2, <2>3, Zenon
<1>3. QED BY <1>1, <1>2, Zenon

\* Every step keeps the reservations' rows.
LEMMA ReservationRowsStep ==
    ASSUME Typed, Chain, Budget, [Next]_vars
    PROVE  ReservationRows'
<1>1. account \in Nat /\ account' \in Nat /\ account' >= account
  BY AccountOnward, Zenon DEF Typed
<1>2. \A t \in Receipts : Kept(t) BY BudgetTypes, Growth, Zenon DEF Budget
<1>3. Kept("manifest") /\ Kept("unit") BY <1>2, Zenon DEF Receipts, Tables
<1>4. /\ \A s \in DOMAIN row.manifest : s \in DOMAIN row'.manifest
      /\ \A n \in DOMAIN row.unit : row'.unit[n] = row.unit[n]
  BY <1>3, Zenon DEF Kept
<1>5. ASSUME NEW s \in DOMAIN reservation
      PROVE  /\ s \in Slots \cup {Other}
             /\ s \in Slots => s \in DOMAIN row'.manifest
             /\ DOMAIN reservation[s] = ReservationFields
             /\ reservation[s].state \in {"reserved", "released"}
             /\ reservation[s].work \in Nat /\ reservation[s].retries \in Nat
             /\ reservation[s].state = "reserved" =>
                   /\ reservation[s].account \in Nat /\ reservation[s].account <= account'
                   /\ s \in Retry => reservation[s].account = row'.unit[s].after + 1
             /\ s \in {4, 5} => account' > row'.unit[s - 2].after
  <2>1. ReservationRow(s, reservation[s]) BY Zenon DEF Budget, ReservationRows
  <2>2. s \in Retry \/ s \in {4, 5} => s \in Slots BY SMT DEF Retry, Slots
  <2>3. s \in Retry => row'.unit[s] = row.unit[s]
    BY <1>4, <2>1, <2>2, SlotUnit, Zenon DEF ReservationRow
  <2>4. s \in {4, 5} => s - 2 \in DOMAIN row.unit /\ row'.unit[s - 2] = row.unit[s - 2]
    BY <1>4, <2>1, <2>2, SlotUnit, Zenon DEF ReservationRow
  <2>5. s \in {4, 5} => row.unit[s - 2].after \in Nat
    BY <2>4, Zenon DEF Chain, UnitRows
  <2>6. s \in {4, 5} => account' > row.unit[s - 2].after
    BY <1>1, <2>1, <2>5, SMT DEF ReservationRow
  <2>7. reservation[s].state = "reserved" => reservation[s].account <= account'
    BY <1>1, <2>1, SMT DEF ReservationRow
  <2>8. QED BY <1>4, <2>1, <2>3, <2>4, <2>6, <2>7, Zenon DEF ReservationRow
<1>6. CASE UNCHANGED reservation BY <1>5, <1>6, Zenon DEF ReservationRows, ReservationRow
<1>7. CASE StoreStep
  <2>1. PICK s, q, e :
              /\ s \in Slots \cup {Other} /\ q \in Requests
              /\ reservation' = With(reservation, s, NewReservation(q, e))
              /\ account' = account + 1
              /\ s \in Slots => s \in DOMAIN row.manifest
              /\ s \in Retry => account = row.unit[s].after
    BY <1>7, StoreShape, Zenon
  <2> DEFINE r == NewReservation(q, e)
  <2>2. /\ DOMAIN reservation' = DOMAIN reservation \cup {s}
        /\ reservation'[s] = r
        /\ \A j \in DOMAIN reservation \ {s} : reservation'[j] = reservation[j]
    BY <2>1, StoredIs, Zenon
  <2>3. /\ DOMAIN r = ReservationFields
        /\ r.state = "reserved" /\ r.account = account + 1
        /\ r.work = q.work /\ r.retries = q.retries
    BY Zenon DEF NewReservation, ReservationFields
  <2>4. q.work \in Nat /\ q.retries \in Nat
    <3>1. q \in Amounts BY <2>1, RetryAssumption, Zenon
    <3>2. QED BY <3>1, SMT DEF Amounts
  <2>5. s \in Retry \/ s \in {4, 5} => s \in Slots BY SMT DEF Retry, Slots
  <2>6. s \in Retry => row'.unit[s] = row.unit[s] BY <1>4, <2>1, <2>5, SlotUnit, Zenon
  <2>7. s \in {4, 5} => s - 2 \in DOMAIN row.unit /\ row'.unit[s - 2] = row.unit[s - 2]
    BY <1>4, <2>1, <2>5, SlotUnit, Zenon
  <2>8. s \in {4, 5} => row.unit[s - 2].after \in Nat /\ row.unit[s - 2].after <= account
    BY <2>7, Zenon DEF Budget, Drawn, Chain, UnitRows
  <2>9. s \in {4, 5} => account' > row'.unit[s - 2].after BY <1>1, <2>1, <2>7, <2>8, SMT
  <2>10. r.account \in Nat /\ r.account <= account' BY <1>1, <2>1, <2>3, SMT
  <2>11. s \in Retry => r.account = row'.unit[s].after + 1 BY <2>1, <2>3, <2>6, Zenon
  <2> HIDE DEF r
  <2>12. s \in Slots => s \in DOMAIN row'.manifest BY <1>4, <2>1, Zenon
  <2>13. s \in Slots \cup {Other} BY <2>1, Zenon
  <2>14. r.state \in {"reserved", "released"} /\ r.work \in Nat /\ r.retries \in Nat
    BY <2>3, <2>4, Zenon
  <2>15. \A j \in DOMAIN reservation \ {s} : ReservationRow(j, reservation[j])'
    BY <1>5, <2>2, Zenon DEF ReservationRow
  <2>16. ReservationRow(s, reservation[s])'
    BY <2>2, <2>3, <2>9, <2>10, <2>11, <2>12, <2>13, <2>14, Zenon DEF ReservationRow
  <2>17. QED BY <2>2, <2>15, <2>16, Zenon DEF ReservationRows
<1>8. CASE ReleaseStep
  <2>1. PICK S \in SUBSET DOMAIN reservation :
              (\A s \in S : reservation[s].state = "reserved") /\ reservation' = Released(S)
    BY <1>8, ReleaseShape, Zenon
  <2>2. /\ DOMAIN reservation' = DOMAIN reservation
        /\ \A s \in DOMAIN reservation :
              /\ s \notin S => reservation'[s] = reservation[s]
              /\ s \in S => reservation'[s].state = "released"
              /\ DOMAIN reservation'[s] = ReservationFields
              /\ reservation'[s].work = reservation[s].work
              /\ reservation'[s].retries = reservation[s].retries
    BY <2>1, ReleasedIs, Zenon DEF Budget
  <2>3. ASSUME NEW s \in DOMAIN reservation PROVE ReservationRow(s, reservation[s])'
    <3>1. CASE s \in S
      <4>1. reservation'[s].state = "released" /\ reservation'[s].state # "reserved"
        BY <2>2, <3>1, Zenon
      <4>2. QED BY <1>5, <2>2, <4>1, Zenon DEF ReservationRow
    <3>2. CASE s \notin S
      <4>1. reservation'[s] = reservation[s] BY <2>2, <3>2, Zenon
      <4>2. QED BY <1>5, <4>1, Zenon DEF ReservationRow
    <3>3. QED BY <3>1, <3>2, Zenon
  <2>4. QED BY <2>2, <2>3, Zenon DEF ReservationRows
<1>9. QED BY <1>6, <1>7, <1>8, BudgetSteps, Zenon

\* Every step keeps the versions of open reservations apart.
LEMMA VersionsStep ==
    ASSUME Typed, Chain, Budget, [Next]_vars
    PROVE  Versions'
<1>1. Versions /\ account \in Nat BY Zenon DEF Budget, Typed
<1>2. CASE UNCHANGED reservation BY <1>1, <1>2, Zenon DEF Versions
<1>3. CASE StoreStep
  <2>1. PICK s, q, e : reservation' = With(reservation, s, NewReservation(q, e))
    BY <1>3, StoreShape, Zenon
  <2>2. /\ DOMAIN reservation' = DOMAIN reservation \cup {s}
        /\ reservation'[s] = NewReservation(q, e)
        /\ \A j \in DOMAIN reservation \ {s} : reservation'[j] = reservation[j]
    BY <2>1, StoredIs, Zenon
  <2>3. reservation'[s].account = account + 1
    <3>1. NewReservation(q, e).account = account + 1 BY Zenon DEF NewReservation
    <3>2. QED BY <2>2, <3>1, Zenon
  <2>4. ASSUME NEW j \in DOMAIN reservation, reservation[j].state = "reserved"
        PROVE  reservation[j].account # account + 1
    <3>1. reservation[j].account \in Nat /\ reservation[j].account <= account
      BY <2>4, Zenon DEF Budget, ReservationRows, ReservationRow
    <3>2. QED BY <1>1, <3>1, SMT
  <2>5. QED BY <1>1, <2>2, <2>3, <2>4, Zenon DEF Versions
<1>4. CASE ReleaseStep
  <2>1. PICK S \in SUBSET DOMAIN reservation : reservation' = Released(S)
    BY <1>4, ReleaseShape, Zenon
  <2>2. /\ DOMAIN reservation' = DOMAIN reservation
        /\ \A s \in DOMAIN reservation :
              /\ s \notin S => reservation'[s] = reservation[s]
              /\ s \in S => reservation'[s].state = "released"
    BY <2>1, ReleasedIs, Zenon DEF Budget
  <2>3. ASSUME NEW s \in DOMAIN reservation, reservation'[s].state = "reserved"
        PROVE  reservation'[s] = reservation[s]
    BY <2>2, <2>3, Zenon
  <2>4. QED BY <1>1, <2>2, <2>3, Zenon DEF Versions
<1>5. QED BY <1>2, <1>3, <1>4, BudgetSteps, Zenon

\* Every step keeps the units balanced with the reservation they were drawn on.
LEMMA DrawnStep ==
    ASSUME Typed, Chain, Budget, [Next]_vars
    PROVE  Drawn'
<1>1. account \in Nat /\ account' \in Nat /\ account' >= account
  BY AccountOnward, Zenon DEF Typed
<1>2. RetriesTyped /\ Drawn BY BudgetTypes, Zenon DEF Budget
<1>3. ASSUME NEW n \in DOMAIN row.unit
      PROVE  /\ row.unit[n].after <= account'
             /\ 1 \in DOMAIN reservation'
             /\ row.unit[n].remaining + (n - 1) = reservation'[1].retries
  <2>1. /\ row.unit[n].after <= account /\ 1 \in DOMAIN reservation
        /\ row.unit[n].remaining + (n - 1) = reservation[1].retries
    BY <1>2, Zenon DEF Drawn
  <2>2. row.unit[n].after \in Nat BY Zenon DEF Chain, UnitRows
  <2>3. row.unit[n].after <= account' BY <1>1, <2>1, <2>2, SMT
  <2>4. task.revision >= 3
    <3>1. n \in Retry /\ n - 1 \in DOMAIN row.failure BY UnitLineage, Zenon
    <3>2. task.revision >= 3 * Round(n - 1) BY <3>1, Zenon DEF Chain, FailureRows
    <3>3. Round(n - 1) = n - 1 BY <3>1, SMT DEF Round, Retry
    <3>4. QED BY <3>1, <3>2, <3>3, SMT DEF Retry, Typed
  <2>5. CASE UNCHANGED reservation BY <2>1, <2>3, <2>5, Zenon
  <2>6. CASE StoreStep
    <3>1. PICK s, q, e :
              /\ s \in Slots \cup {Other}
              /\ reservation' = With(reservation, s, NewReservation(q, e))
              /\ s \in Slots => s \in DOMAIN row.manifest /\ At(row.manifest[s], "ready")
      BY <2>6, StoreShape, Zenon
    <3>2. s # 1
      <4>1. 1 \in Slots BY SMT DEF Slots
      <4>2. s = 1 => task.revision = 3 * Round(1) - 2 BY <3>1, <4>1, ReadyAt, Zenon
      <4>3. QED BY <2>4, <4>2, Rounds, SMT DEF Typed
    <3>3. 1 \in DOMAIN reservation' /\ reservation'[1] = reservation[1]
      <4>1. /\ DOMAIN reservation' = DOMAIN reservation \cup {s}
            /\ \A j \in DOMAIN reservation \ {s} : reservation'[j] = reservation[j]
        BY <3>1, StoredIs, Zenon
      <4>2. QED BY <2>1, <3>2, <4>1, Zenon
    <3>4. QED BY <2>1, <2>3, <3>3, Zenon
  <2>7. CASE ReleaseStep
    <3>1. PICK S \in SUBSET DOMAIN reservation : reservation' = Released(S)
      BY <2>7, ReleaseShape, Zenon
    <3>2. 1 \in DOMAIN reservation' /\ reservation'[1].retries = reservation[1].retries
      BY <2>1, <3>1, ReleasedIs, Zenon DEF Budget
    <3>3. QED BY <2>1, <2>3, <3>2, Zenon
  <2>8. QED BY <2>5, <2>6, <2>7, BudgetSteps, Zenon
<1>4. CASE row'.unit = row.unit BY <1>3, <1>4, Zenon DEF Drawn
<1>5. CASE UnitStep
  <2>1. PICK n, u :
              /\ n \in Retry
              /\ Gains("unit", n, u)
              /\ u.after = account + 1
              /\ 1 \in DOMAIN reservation /\ u.remaining + (n - 1) = reservation[1].retries
              /\ account' = account + 1 /\ UNCHANGED reservation
    BY <1>2, <1>5, UnitShape, Zenon DEF RetriesTyped
  <2>2. u.after <= account' BY <1>1, <2>1, SMT
  <2>3. QED BY <1>3, <2>1, <2>2, Zenon DEF Drawn, Gains
<1>6. QED BY <1>4, <1>5, TableSteps, Zenon DEF Typed

\* Every step keeps the budget's invariant.
LEMMA BudgetStep ==
    ASSUME Typed, Chain, Budget, [Next]_vars
    PROVE  Budget'
BY ReservationRowsStep, VersionsStep, DrawnStep, Zenon DEF Budget

-----------------------------------------------------------------------------
(* The sums the budget and the property take.                              *)

\* Reserved amounts of work are numbers.
Works == \A s \in DOMAIN reservation : reservation[s].work \in Nat

\* The work the property counts, as a written-out sum.
LEMMA WorkTotal ==
    ASSUME NEW scope, ReservedRows(scope) \in SUBSET (1..6), Works
    PROVE  WorkGiven(scope) = Total(ReservedRows(scope), [s \in 1..6 |-> reservation[s].work])
<1> DEFINE S == ReservedRows(scope)
           v == [s \in 1..6 |-> reservation[s].work]
           Fold(it) == [T \in SUBSET S |->
                            IF T = {} THEN 0 ELSE reservation[First(T)].work + it[T \ {First(T)}]]
           sum == CHOOSE it : it = Fold(it)
<1>1. WorkGiven(scope) = sum[S]
  BY DEF WorkGiven, MapThenSumSet, MapThenFoldSet, First
<1>2. \A i \in S : i \in 1..6 /\ v[i] = reservation[i].work /\ v[i] \in Int
  <2>1. \A i \in S : i \in 1..6 /\ i \in DOMAIN reservation BY Zenon DEF ReservedRows
  <2>2. \A n \in Nat : n \in Int BY SMT
  <2>3. QED BY <2>1, <2>2, Zenon DEF Works
<1>3. \A T \in SUBSET S : T # {} => First(T) \in S BY FirstIn, Zenon
<1>4. S \in SUBSET (1..6) BY Zenon
<1> HIDE DEF S, v
<1>5. \A it : Fold(it) = Summing(it, S, v) BY <1>2, <1>3, Zenon DEF Summing
<1>6. \E it : it = Summing(it, S, v) BY <1>2, <1>4, TotalSums, Zenon
<1>7. sum = Fold(sum) BY <1>5, <1>6, Zenon
<1>8. sum = Summing(sum, S, v) BY <1>5, <1>7, Zenon
<1> HIDE DEF sum
<1>9. sum[S] = Total(S, v) BY <1>2, <1>4, <1>8, FoldIs, Zenon
<1>10. QED BY <1>1, <1>9, Zenon DEF S, v

\* What a row counts for when the next reservation is admitted.
Counts(field, s) ==
    IF reservation[s].state = "reserved" THEN reservation[s][field]
    ELSE IF field = "retries" THEN ConsumedUnits(s) ELSE 0

\* The capacity admission counts, as a written-out sum.
LEMMA UsedTotal ==
    ASSUME NEW scope, NEW field, scope \cap DOMAIN reservation \in SUBSET (1..6),
           \A s \in DOMAIN reservation : Counts(field, s) \in Nat
    PROVE  UsedCapacity(field, scope) =
              Total(scope \cap DOMAIN reservation, [s \in 1..6 |-> Counts(field, s)])
<1> DEFINE S == scope \cap DOMAIN reservation
           v == [s \in 1..6 |-> Counts(field, s)]
           Fold(it) == [T \in SUBSET S |->
                            IF T = {} THEN 0 ELSE Counts(field, First(T)) + it[T \ {First(T)}]]
           sum == CHOOSE it : it = Fold(it)
<1>1. UsedCapacity(field, scope) = sum[S]
  BY DEF UsedCapacity, Counts, MapThenSumSet, MapThenFoldSet, First
<1>2. \A i \in S : i \in 1..6 /\ v[i] = Counts(field, i) /\ v[i] \in Int
  <2>1. \A i \in S : i \in 1..6 /\ i \in DOMAIN reservation BY Zenon
  <2>2. \A n \in Nat : n \in Int BY SMT
  <2>3. QED BY <2>1, <2>2, Zenon
<1>3. \A T \in SUBSET S : T # {} => First(T) \in S BY FirstIn, Zenon
<1>4. S \in SUBSET (1..6) BY Zenon
<1> HIDE DEF S, v
<1>5. \A it : Fold(it) = Summing(it, S, v) BY <1>2, <1>3, Zenon DEF Summing
<1>6. \E it : it = Summing(it, S, v) BY <1>2, <1>4, TotalSums, Zenon
<1>7. sum = Fold(sum) BY <1>5, <1>6, Zenon
<1>8. sum = Summing(sum, S, v) BY <1>5, <1>7, Zenon
<1> HIDE DEF sum
<1>9. sum[S] = Total(S, v) BY <1>2, <1>4, <1>8, FoldIs, Zenon
<1>10. QED BY <1>1, <1>9, Zenon DEF S, v

\* The retries the property counts, as written-out sums.
LEMMA RetriesTotal ==
    ASSUME NEW scope \in SUBSET (1..6),
           \A s : ConsumedUnits(s) \in Nat, RetriesTyped
    PROVE  RetriesGiven(scope) =
              Total(scope, [s \in 1..6 |-> ConsumedUnits(s)])
              + Total(ReservedRows(scope),
                      [s \in 1..6 |-> reservation[s].retries - ConsumedUnits(s)])
<1> DEFINE S == scope
           v == [s \in 1..6 |-> ConsumedUnits(s)]
           Fold(it) == [T \in SUBSET S |->
                            IF T = {} THEN 0 ELSE ConsumedUnits(First(T)) + it[T \ {First(T)}]]
           sum == CHOOSE it : it = Fold(it)
           R == ReservedRows(scope)
           w == [s \in 1..6 |-> reservation[s].retries - ConsumedUnits(s)]
           Rest(it) == [T \in SUBSET R |->
                            IF T = {} THEN 0
                            ELSE (reservation[First(T)].retries - ConsumedUnits(First(T)))
                                 + it[T \ {First(T)}]]
           rest == CHOOSE it : it = Rest(it)
<1>1. RetriesGiven(scope) = sum[S] + rest[R]
  BY DEF RetriesGiven, MapThenSumSet, MapThenFoldSet, First
<1>2. sum[S] = Total(S, v)
  <2>1. \A i \in S : i \in 1..6 /\ v[i] = ConsumedUnits(i) /\ v[i] \in Int
    <3>1. \A n \in Nat : n \in Int BY SMT
    <3>2. QED BY <3>1, Zenon
  <2>2. \A T \in SUBSET S : T # {} => First(T) \in S BY FirstIn, Zenon
  <2>3. S \in SUBSET (1..6) BY Zenon
  <2> HIDE DEF S, v
  <2>4. \A it : Fold(it) = Summing(it, S, v) BY <2>1, <2>2, Zenon DEF Summing
  <2>5. \E it : it = Summing(it, S, v) BY <2>1, <2>3, TotalSums, Zenon
  <2>6. sum = Fold(sum) BY <2>4, <2>5, Zenon
  <2>7. sum = Summing(sum, S, v) BY <2>4, <2>6, Zenon
  <2> HIDE DEF sum
  <2>8. QED BY <2>1, <2>3, <2>7, FoldIs, Zenon
<1>3. rest[R] = Total(R, w)
  <2>1. \A i \in R : /\ i \in 1..6
                     /\ w[i] = reservation[i].retries - ConsumedUnits(i) /\ w[i] \in Int
    <3>1. \A i \in R : i \in 1..6 /\ i \in DOMAIN reservation BY Zenon DEF ReservedRows
    <3>2. \A a, b \in Nat : a - b \in Int BY SMT
    <3>3. QED BY <3>1, <3>2, Zenon DEF RetriesTyped
  <2>2. \A T \in SUBSET R : T # {} => First(T) \in R BY FirstIn, Zenon
  <2>3. R \in SUBSET (1..6) BY <2>1, Zenon
  <2> HIDE DEF R, w
  <2>4. \A it : Rest(it) = Summing(it, R, w) BY <2>1, <2>2, Zenon DEF Summing
  <2>5. \E it : it = Summing(it, R, w) BY <2>1, <2>3, TotalSums, Zenon
  <2>6. rest = Rest(rest) BY <2>4, <2>5, Zenon
  <2>7. rest = Summing(rest, R, w) BY <2>4, <2>6, Zenon
  <2> HIDE DEF rest
  <2>8. QED BY <2>1, <2>3, <2>7, FoldIs, Zenon
<1>4. QED BY <1>1, <1>2, <1>3, Zenon

-----------------------------------------------------------------------------
(* The ceilings.                                                           *)

\* What a row has of the work and of the retries: nothing when it was released,
\* but for the retry units it spent.
WorkOf ==
    [s \in 1..6 |-> IF s \in DOMAIN reservation THEN Counts("work", s) ELSE 0]

RetriesOf ==
    [s \in 1..6 |-> IF s \in DOMAIN reservation THEN Counts("retries", s) ELSE 0]

\* What the task's five slots have; and all six, with the engagement's other task.
OfTask(w) == w[1] + w[2] + w[3] + w[4] + w[5]

OfAll(w) == OfTask(w) + w[6]

\* WithinCeilings in these terms.
Ceiled ==
    /\ OfTask(WorkOf) <= Ceilings.per_task.work
    /\ OfAll(WorkOf) <= Ceilings.assessment.work
    /\ OfTask(RetriesOf) <= Ceilings.per_task.retries
    /\ OfAll(RetriesOf) <= Ceilings.assessment.retries

\* A written-out sum whose parts are what the rows have.
LEMMA TotalParts ==
    ASSUME NEW S, NEW v, NEW w, \A i \in 1..6 : Part(S, v, i) \in Int,
           \A i \in 1..5 : w[i] = Part(S, v, i)
    PROVE  /\ 6 \notin S => Total(S, v) = OfTask(w)
           /\ w[6] = Part(S, v, 6) => Total(S, v) = OfAll(w)
<1>1. /\ w[1] = Part(S, v, 1) /\ w[2] = Part(S, v, 2) /\ w[3] = Part(S, v, 3)
      /\ w[4] = Part(S, v, 4) /\ w[5] = Part(S, v, 5)
  BY SMT
<1>2. OfTask(w) = Part(S, v, 1) + Part(S, v, 2) + Part(S, v, 3) + Part(S, v, 4) + Part(S, v, 5)
  BY <1>1, Zenon DEF OfTask
<1>3. Total(S, v) = OfTask(w) + Part(S, v, 6) BY <1>2, Zenon DEF Total
<1>4. 6 \notin S => Part(S, v, 6) = 0 BY Zenon DEF Part
<1>5. OfTask(w) + 0 = OfTask(w) BY <1>2, SMT
<1>6. QED BY <1>3, <1>4, <1>5, Zenon DEF OfAll

\* What the rows count for, from the budget's invariant.
LEMMA CountTypes ==
    ASSUME Chain, Budget
    PROVE  /\ \A s : ConsumedUnits(s) \in Nat
           /\ \A s \in DOMAIN reservation :
                 /\ s \in 1..6
                 /\ reservation[s].state \in {"reserved", "released"}
                 /\ reservation[s].work \in Nat /\ reservation[s].retries \in Nat
                 /\ Counts("work", s) \in Nat /\ Counts("retries", s) \in Nat
                 /\ ConsumedUnits(s) <= reservation[s].retries
           /\ 1 \notin DOMAIN reservation => ConsumedUnits(1) = 0
           /\ \A s : s # 1 => ConsumedUnits(s) = 0
<1>1. ConsumedUnits(1) = Cardinality(DOMAIN row.unit) /\ \A s : s # 1 => ConsumedUnits(s) = 0
  BY Consumed, Zenon
<1>2. 0 \in Nat /\ 1 \in Nat /\ 2 \in Nat BY SMT
<1>3. ConsumedUnits(1) \in Nat BY <1>1, <1>2, UnitCount, Zenon
<1>4. \A s : ConsumedUnits(s) \in Nat BY <1>1, <1>2, <1>3, Zenon
<1>5. DOMAIN row.unit # {} => 1 \in DOMAIN reservation BY Zenon DEF Budget, Drawn
<1>6. 1 \notin DOMAIN reservation => ConsumedUnits(1) = 0 BY <1>1, <1>5, UnitCount, Zenon
<1>7. ConsumedUnits(1) <= reservation[1].retries \/ 1 \notin DOMAIN reservation
  <2>1. CASE DOMAIN row.unit = {}
    <3>1. ConsumedUnits(1) = 0 BY <1>1, <2>1, UnitCount, Zenon
    <3>2. 1 \in DOMAIN reservation => reservation[1].retries \in Nat
      BY Zenon DEF Budget, ReservationRows, ReservationRow
    <3>3. \A n \in Nat : 0 <= n BY SMT
    <3>4. QED BY <3>1, <3>2, <3>3, Zenon
  <2>2. CASE 3 \in DOMAIN row.unit
    <3>1. ConsumedUnits(1) = 2 BY <1>1, <2>2, UnitCount, Zenon
    <3>2. row.unit[3].remaining \in Nat /\ row.unit[3].remaining + (3 - 1) = reservation[1].retries
      BY <2>2, Zenon DEF Budget, Drawn, Chain, UnitRows
    <3>3. QED BY <3>1, <3>2, SMT
  <2>3. CASE 2 \in DOMAIN row.unit /\ 3 \notin DOMAIN row.unit
    <3>1. ConsumedUnits(1) = 1 BY <1>1, <2>3, UnitCount, Zenon
    <3>2. row.unit[2].remaining \in Nat /\ row.unit[2].remaining + (2 - 1) = reservation[1].retries
      BY <2>3, Zenon DEF Budget, Drawn, Chain, UnitRows
    <3>3. QED BY <3>1, <3>2, SMT
  <2>4. QED BY <2>1, <2>2, <2>3, UnitCount, Zenon
<1>8. ASSUME NEW s \in DOMAIN reservation
      PROVE  /\ s \in 1..6
             /\ reservation[s].state \in {"reserved", "released"}
             /\ reservation[s].work \in Nat /\ reservation[s].retries \in Nat
             /\ Counts("work", s) \in Nat /\ Counts("retries", s) \in Nat
             /\ ConsumedUnits(s) <= reservation[s].retries
  <2>1. /\ s \in Slots \cup {Other} /\ reservation[s].state \in {"reserved", "released"}
        /\ reservation[s].work \in Nat /\ reservation[s].retries \in Nat
    BY Zenon DEF Budget, ReservationRows, ReservationRow
  <2>2. s \in 1..6 BY <2>1, SMT DEF Slots, Other
  <2>3. Counts("work", s) \in Nat /\ Counts("retries", s) \in Nat
    BY <1>2, <1>4, <2>1, Zenon DEF Counts
  <2>4. \A n \in Nat : 0 <= n BY SMT
  <2>5. ConsumedUnits(s) <= reservation[s].retries BY <1>1, <1>7, <2>1, <2>4, Zenon
  <2>6. QED BY <2>1, <2>2, <2>3, <2>5, Zenon
<1>9. QED BY <1>1, <1>4, <1>6, <1>8, Zenon

\* What admission counts is what the rows have.
LEMMA UsedIs ==
    ASSUME Chain, Budget
    PROVE  /\ UsedCapacity("work", Slots) = OfTask(WorkOf)
           /\ UsedCapacity("work", Slots \cup {Other}) = OfAll(WorkOf)
           /\ UsedCapacity("retries", Slots) = OfTask(RetriesOf)
           /\ UsedCapacity("retries", Slots \cup {Other}) = OfAll(RetriesOf)
<1>1. \A s \in DOMAIN reservation :
         s \in 1..6 /\ Counts("work", s) \in Nat /\ Counts("retries", s) \in Nat
  BY CountTypes, Zenon
<1>2. /\ Slots \subseteq 1..6 /\ Slots \cup {Other} = 1..6 /\ 6 \notin Slots
      /\ \A i \in 1..5 : i \in Slots /\ i \in 1..6
      /\ 6 \in 1..6 /\ 0 \in Int /\ \A n \in Nat : n \in Int
  BY SMT DEF Slots, Other
<1>3. ASSUME NEW field \in {"work", "retries"}, NEW w,
             w = [s \in 1..6 |-> IF s \in DOMAIN reservation THEN Counts(field, s) ELSE 0]
      PROVE  /\ UsedCapacity(field, Slots) = OfTask(w)
             /\ UsedCapacity(field, Slots \cup {Other}) = OfAll(w)
  <2> DEFINE v == [s \in 1..6 |-> Counts(field, s)]
             S == Slots \cap DOMAIN reservation
             A == (Slots \cup {Other}) \cap DOMAIN reservation
  <2>1. \A s \in DOMAIN reservation : Counts(field, s) \in Nat BY <1>1, Zenon
  <2>2. S \in SUBSET (1..6) /\ A \in SUBSET (1..6) BY <1>1, Zenon
  <2>3. UsedCapacity(field, Slots) = Total(S, v) BY <2>1, <2>2, UsedTotal, Zenon
  <2>4. UsedCapacity(field, Slots \cup {Other}) = Total(A, v) BY <2>1, <2>2, UsedTotal, Zenon
  <2>5. \A i \in 1..6 : Part(A, v, i) \in Int /\ w[i] = Part(A, v, i)
    BY <1>1, <1>2, <1>3, <2>1, Zenon DEF Part
  <2>6. /\ \A i \in 1..6 : Part(S, v, i) \in Int
        /\ \A i \in 1..5 : w[i] = Part(S, v, i)
        /\ 6 \notin S
    BY <1>1, <1>2, <1>3, <2>1, Zenon DEF Part
  <2> HIDE DEF v, S, A
  <2>7. Total(S, v) = OfTask(w) BY <2>6, TotalParts, Zenon
  <2>8. /\ \A i \in 1..6 : Part(A, v, i) \in Int
        /\ \A i \in 1..5 : w[i] = Part(A, v, i)
        /\ w[6] = Part(A, v, 6)
    BY <1>2, <2>5, Zenon
  <2>9. Total(A, v) = OfAll(w) BY <2>8, TotalParts, Zenon
  <2>10. QED BY <2>3, <2>4, <2>7, <2>9, Zenon
<1>4. QED BY <1>3, Zenon DEF WorkOf, RetriesOf

\* What the property counts is what the rows have.
LEMMA GivenIs ==
    ASSUME Chain, Budget
    PROVE  /\ WorkGiven(Slots) = OfTask(WorkOf)
           /\ WorkGiven(Slots \cup {Other}) = OfAll(WorkOf)
           /\ RetriesGiven(Slots) = OfTask(RetriesOf)
           /\ RetriesGiven(Slots \cup {Other}) = OfAll(RetriesOf)
<1>1. /\ \A s \in DOMAIN reservation :
            /\ s \in 1..6 /\ reservation[s].state \in {"reserved", "released"}
            /\ reservation[s].work \in Nat /\ reservation[s].retries \in Nat
            /\ ConsumedUnits(s) <= reservation[s].retries
      /\ \A s : ConsumedUnits(s) \in Nat
      /\ \A s : s \notin DOMAIN reservation => ConsumedUnits(s) = 0
  BY CountTypes, Zenon
<1>2. /\ Slots \subseteq 1..6 /\ Slots \cup {Other} = 1..6 /\ 6 \notin Slots
      /\ \A i \in 1..5 : i \in Slots /\ i \in 1..6
      /\ 6 \in 1..6 /\ 0 \in Int /\ \A n \in Nat : n \in Int
  BY SMT DEF Slots, Other
<1>3. Works /\ RetriesTyped BY <1>1, Zenon DEF Works, RetriesTyped
<1>4. WorkGiven(Slots) = OfTask(WorkOf) /\ WorkGiven(Slots \cup {Other}) = OfAll(WorkOf)
  <2> DEFINE v == [s \in 1..6 |-> reservation[s].work]
             w == WorkOf
             S == ReservedRows(Slots)
             A == ReservedRows(Slots \cup {Other})
  <2>1. S \in SUBSET (1..6) /\ A \in SUBSET (1..6) BY <1>1, Zenon DEF ReservedRows
  <2>2. WorkGiven(Slots) = Total(S, v) /\ WorkGiven(Slots \cup {Other}) = Total(A, v)
    BY <1>3, <2>1, WorkTotal, Zenon
  <2>3. \A i \in 1..6 : Part(A, v, i) \in Int /\ w[i] = Part(A, v, i)
    BY <1>1, <1>2, Zenon DEF Part, ReservedRows, WorkOf, Counts
  <2>4. /\ \A i \in 1..6 : Part(S, v, i) \in Int
        /\ \A i \in 1..5 : w[i] = Part(S, v, i)
        /\ 6 \notin S
    BY <1>1, <1>2, Zenon DEF Part, ReservedRows, WorkOf, Counts
  <2> HIDE DEF v, w, S, A
  <2>5. Total(S, v) = OfTask(w) BY <2>4, TotalParts, Zenon
  <2>6. /\ \A i \in 1..6 : Part(A, v, i) \in Int
        /\ \A i \in 1..5 : w[i] = Part(A, v, i)
        /\ w[6] = Part(A, v, 6)
    BY <1>2, <2>3, Zenon
  <2>7. Total(A, v) = OfAll(w) BY <2>6, TotalParts, Zenon
  <2>8. QED BY <2>2, <2>5, <2>7, Zenon DEF w
<1>5. ASSUME NEW scope \in {Slots, Slots \cup {Other}}
      PROVE  /\ scope = Slots => RetriesGiven(scope) = OfTask(RetriesOf)
             /\ scope # Slots => RetriesGiven(scope) = OfAll(RetriesOf)
  <2> DEFINE c == [s \in 1..6 |-> ConsumedUnits(s)]
             d == [s \in 1..6 |-> reservation[s].retries - ConsumedUnits(s)]
             R == ReservedRows(scope)
             p(i) == Part(scope, c, i)
             r(i) == Part(R, d, i)
             w == RetriesOf
  <2>1. scope \in SUBSET (1..6) BY <1>2, Zenon
  <2>2. RetriesGiven(scope) = Total(scope, c) + Total(R, d)
    BY <1>1, <1>3, <2>1, RetriesTotal, Zenon
  <2>3. \A a, b \in Nat : a - b \in Int /\ a + (b - a) = b /\ a + 0 = a BY SMT
  <2>4. ASSUME NEW i \in 1..6
        PROVE  /\ p(i) \in Int /\ r(i) \in Int
               /\ i \in scope => w[i] = p(i) + r(i)
               /\ i \notin scope => p(i) = 0 /\ r(i) = 0
    <3>1. CASE i \in R
      <4>1. i \in scope /\ i \in DOMAIN reservation /\ reservation[i].state = "reserved"
        BY <3>1, Zenon DEF ReservedRows
      <4>2. /\ p(i) = ConsumedUnits(i) /\ r(i) = reservation[i].retries - ConsumedUnits(i)
            /\ w[i] = reservation[i].retries
        BY <3>1, <4>1, Zenon DEF Part, RetriesOf, Counts
      <4>3. ConsumedUnits(i) \in Nat /\ reservation[i].retries \in Nat BY <1>1, <4>1, Zenon
      <4>4. /\ ConsumedUnits(i) \in Int /\ reservation[i].retries - ConsumedUnits(i) \in Int
            /\ ConsumedUnits(i) + (reservation[i].retries - ConsumedUnits(i))
                  = reservation[i].retries
        BY <4>3, SMT
      <4>5. QED BY <4>1, <4>2, <4>4, Zenon
    <3>2. CASE i \in scope /\ i \notin R
      <4>1. i \in DOMAIN reservation => reservation[i].state # "reserved"
        BY <3>2, Zenon DEF ReservedRows
      <4>2. p(i) = ConsumedUnits(i) /\ r(i) = 0 BY <3>2, Zenon DEF Part
      <4>3. w[i] = ConsumedUnits(i) BY <1>1, <4>1, Zenon DEF RetriesOf, Counts
      <4>4. QED BY <1>1, <1>2, <2>3, <3>2, <4>2, <4>3, Zenon
    <3>3. CASE i \notin scope
      <4>1. i \notin R BY <3>3, Zenon DEF ReservedRows
      <4>2. p(i) = 0 /\ r(i) = 0 BY <3>3, <4>1, Zenon DEF Part
      <4>3. QED BY <1>2, <3>3, <4>2, Zenon
    <3>4. QED BY <3>1, <3>2, <3>3, Zenon
  <2>5. /\ Total(scope, c) = p(1) + p(2) + p(3) + p(4) + p(5) + p(6)
        /\ Total(R, d) = r(1) + r(2) + r(3) + r(4) + r(5) + r(6)
    BY Zenon DEF Total
  <2>6. \A i \in 1..5 : i \in scope /\ i \in 1..6 BY <1>2, Zenon
  <2>7. IF scope = Slots THEN 6 \notin scope ELSE 6 \in scope BY <1>2, Zenon
  <2> HIDE DEF c, d, R, p, r, w
  <2>8. OfTask(w) = w[1] + w[2] + w[3] + w[4] + w[5] BY Zenon DEF OfTask
  <2>9. 6 \notin scope => RetriesGiven(scope) = OfTask(w) BY <2>2, <2>4, <2>5, <2>6, <2>8, SMT
  <2>10. 6 \in scope => RetriesGiven(scope) = OfTask(w) + w[6]
    BY <2>2, <2>4, <2>5, <2>6, <2>8, SMT
  <2>11. QED BY <2>7, <2>9, <2>10, Zenon DEF w, OfAll
<1>6. Slots # Slots \cup {Other} BY <1>2, Zenon
<1>7. QED BY <1>4, <1>5, <1>6, Zenon

\* A unit is only drawn on a reservation that is open (_load_budget, _load_budget_v2).
LEMMA UnitDrawsOnOpen ==
    ASSUME Chain, UnitStep
    PROVE  reservation[1].state = "reserved"
<1>1. CASE ConsumeUnit
  <2>1. /\ 1 \in DOMAIN row.failed /\ LoadBudget(row.failed[1])
    BY <1>1, Zenon DEF ConsumeUnit, ValidateDecision, LoadAttempt, AttemptCurrent, Has
  <2>2. row.failed[1].slot = 1 BY <2>1, Zenon DEF Chain, FailedRows
  <2>3. QED BY <2>1, <2>2, Zenon DEF LoadBudget, Holds
<1>2. CASE ConsumeUnitV2
  <2>1. 2 \in DOMAIN row.retry /\ LoadBudgetV2(row.unit[2].capacity)
    BY <1>2, Zenon DEF ConsumeUnitV2, ValidateDecisionV2, LoadRetryFailedAttempt,
       RetryAttemptCurrent, LoadRetryAttempt, Has
  <2>2. 2 \in DOMAIN row.unit BY <2>1, Zenon DEF Chain, RetryRows
  <2>3. row.unit[2].capacity = 1 BY <2>2, Zenon DEF Chain, UnitRows
  <2>4. QED BY <2>1, <2>3, Zenon DEF LoadBudgetV2
<1>3. QED BY <1>1, <1>2, Zenon DEF UnitStep

\* A step in which no row has more than before.
LEMMA CeiledFalls ==
    ASSUME Ceiled,
           \A i \in 1..6 :
              /\ WorkOf[i] \in Nat /\ WorkOf'[i] \in Nat /\ WorkOf'[i] <= WorkOf[i]
              /\ RetriesOf[i] \in Nat /\ RetriesOf'[i] \in Nat /\ RetriesOf'[i] <= RetriesOf[i]
    PROVE  Ceiled'
<1>1. /\ Ceilings.per_task.work \in Nat /\ Ceilings.assessment.work \in Nat
      /\ Ceilings.per_task.retries \in Nat /\ Ceilings.assessment.retries \in Nat
  BY RetryAssumption, SMT DEF Amounts
<1>2. ASSUME NEW w, NEW x, NEW t \in Nat, NEW a \in Nat,
             \A i \in 1..6 : w[i] \in Nat /\ x[i] \in Nat /\ x[i] <= w[i],
             OfTask(w) <= t, OfAll(w) <= a
      PROVE  OfTask(x) <= t /\ OfAll(x) <= a
  BY <1>2, SMT DEF OfTask, OfAll
<1>3. OfTask(WorkOf') <= Ceilings.per_task.work /\ OfAll(WorkOf') <= Ceilings.assessment.work
  BY <1>1, <1>2, Zenon DEF Ceiled
<1>4. /\ OfTask(RetriesOf') <= Ceilings.per_task.retries
      /\ OfAll(RetriesOf') <= Ceilings.assessment.retries
  BY <1>1, <1>2, Zenon DEF Ceiled
<1>5. QED BY <1>3, <1>4, Zenon DEF Ceiled, OfTask, OfAll

\* The rows count the same when neither they nor the units change.
LEMMA CeiledKept ==
    ASSUME Ceiled, UNCHANGED reservation, row'.unit = row.unit
    PROVE  Ceiled'
<1>1. \A s : ConsumedUnits(s)' = ConsumedUnits(s) BY Zenon DEF ConsumedUnits
<1>2. WorkOf' = WorkOf BY Zenon DEF WorkOf, Counts
<1>3. RetriesOf' = RetriesOf BY <1>1, Zenon DEF RetriesOf, Counts
<1>4. QED BY <1>2, <1>3, Zenon DEF Ceiled, OfTask, OfAll

\* What the rows have are numbers.
LEMMA RowTypes ==
    ASSUME Chain, Budget
    PROVE  \A i \in 1..6 : WorkOf[i] \in Nat /\ RetriesOf[i] \in Nat
<1>1. 0 \in Nat BY SMT
<1>2. QED BY <1>1, CountTypes, Zenon DEF WorkOf, RetriesOf

\* A unit comes out of what its reservation already counts for.
LEMMA UnitCeiled ==
    ASSUME Typed, Chain, Budget, Ceiled, UnitStep
    PROVE  Ceiled'
<1>1. Drawn /\ RetriesTyped BY BudgetTypes, Zenon DEF Budget
<1>2. PICK n, u : Gains("unit", n, u) /\ u.capacity = 1 /\ UNCHANGED reservation
  BY <1>1, UnitShape, Zenon DEF RetriesTyped
<1>3. reservation[1].state = "reserved" BY UnitDrawsOnOpen, Zenon
<1>4. ASSUME NEW i, i # 1 PROVE ConsumedUnits(i)' = ConsumedUnits(i)
  <2>1. {m \in DOMAIN row'.unit : row'.unit[m].capacity = i}
           = {m \in DOMAIN row.unit : row.unit[m].capacity = i}
    BY <1>2, <1>4, Zenon DEF Gains
  <2>2. QED BY <2>1, Zenon DEF ConsumedUnits
<1>5. WorkOf' = WorkOf BY <1>2, Zenon DEF WorkOf, Counts
<1>6. ASSUME NEW i \in DOMAIN reservation PROVE Counts("retries", i)' = Counts("retries", i)
  BY <1>2, <1>3, <1>4, Zenon DEF Counts
<1>7. RetriesOf' = RetriesOf BY <1>2, <1>6, Zenon DEF RetriesOf
<1>8. QED BY <1>5, <1>7, Zenon DEF Ceiled, OfTask, OfAll

\* A release gives back what was not spent.
LEMMA ReleaseCeiled ==
    ASSUME Typed, Chain, Budget, Ceiled, ReleaseStep
    PROVE  Ceiled'
<1>1. PICK S \in SUBSET DOMAIN reservation :
           /\ \A s \in S : reservation[s].state = "reserved"
           /\ reservation' = Released(S) /\ UNCHANGED row
  BY ReleaseShape, Zenon
<1>2. /\ DOMAIN reservation' = DOMAIN reservation
      /\ \A s \in DOMAIN reservation :
            /\ s \notin S => reservation'[s] = reservation[s]
            /\ s \in S => reservation'[s].state = "released"
  <2>1. reservation' = Released(S) /\ ReservationRows BY <1>1, Zenon DEF Budget
  <2>2. QED BY <2>1, ReleasedIs, Zenon
<1>3. \A s : ConsumedUnits(s)' = ConsumedUnits(s) BY <1>1, Zenon DEF ConsumedUnits
<1>4. 0 \in Nat /\ \A n \in Nat : 0 <= n /\ n <= n BY SMT
<1>5. ASSUME NEW i \in 1..6
      PROVE  /\ WorkOf[i] \in Nat /\ WorkOf'[i] \in Nat /\ WorkOf'[i] <= WorkOf[i]
             /\ RetriesOf[i] \in Nat /\ RetriesOf'[i] \in Nat /\ RetriesOf'[i] <= RetriesOf[i]
  <2>1. WorkOf[i] \in Nat /\ RetriesOf[i] \in Nat BY RowTypes, Zenon
  <2>2. CASE i \in S
    <3>1. i \in DOMAIN reservation' /\ reservation'[i].state # "reserved" BY <1>2, <2>2, Zenon
    <3>2. WorkOf'[i] = 0 /\ RetriesOf'[i] = ConsumedUnits(i)
      BY <1>3, <3>1, Zenon DEF WorkOf, RetriesOf, Counts
    <3>3. RetriesOf[i] = reservation[i].retries
      BY <1>1, <2>2, Zenon DEF RetriesOf, Counts
    <3>4. ConsumedUnits(i) \in Nat /\ ConsumedUnits(i) <= reservation[i].retries
      BY <2>2, CountTypes, Zenon
    <3>5. QED BY <1>4, <2>1, <3>2, <3>3, <3>4, Zenon
  <2>3. CASE i \notin S
    <3>1. /\ i \in DOMAIN reservation' <=> i \in DOMAIN reservation
          /\ i \in DOMAIN reservation => reservation'[i] = reservation[i]
      BY <1>2, <2>3, Zenon
    <3>2. WorkOf'[i] = WorkOf[i] BY <3>1, Zenon DEF WorkOf, Counts
    <3>3. RetriesOf'[i] = RetriesOf[i] BY <1>3, <3>1, Zenon DEF RetriesOf, Counts
    <3>4. QED BY <1>4, <2>1, <3>2, <3>3, Zenon
  <2>4. QED BY <2>2, <2>3, Zenon
<1>6. QED BY <1>5, CeiledFalls, Zenon

\* A reservation is admitted against what the rows have, and replaces at most a
\* released one.
LEMMA StoreCeiled ==
    ASSUME Typed, Chain, Budget, Ceiled, StoreStep
    PROVE  Ceiled'
<1>1. PICK s, q, e :
           /\ s \in Slots \cup {Other} /\ q \in Requests
           /\ s \in DOMAIN reservation => reservation[s].state = "released"
           /\ Fits(s, q)
           /\ reservation' = With(reservation, s, NewReservation(q, e))
           /\ UNCHANGED row
  BY StoreShape, Zenon
<1>2. /\ DOMAIN reservation' = DOMAIN reservation \cup {s}
      /\ reservation'[s] = NewReservation(q, e)
      /\ \A j \in DOMAIN reservation \ {s} : reservation'[j] = reservation[j]
  <2>1. reservation' = With(reservation, s, NewReservation(q, e)) BY <1>1, Zenon
  <2>2. QED BY <2>1, StoredIs, Zenon
<1>3. /\ reservation'[s].state = "reserved"
      /\ reservation'[s].work = q.work /\ reservation'[s].retries = q.retries
  <2>1. /\ NewReservation(q, e).state = "reserved"
        /\ NewReservation(q, e).work = q.work /\ NewReservation(q, e).retries = q.retries
    BY Zenon DEF NewReservation
  <2>2. QED BY <1>2, <2>1, Zenon
<1>4. q.work \in Nat /\ q.retries \in Nat
  <2>1. q \in Amounts BY <1>1, RetryAssumption, Zenon
  <2>2. QED BY <2>1, SMT DEF Amounts
<1>5. \A i : ConsumedUnits(i)' = ConsumedUnits(i) BY <1>1, Zenon DEF ConsumedUnits
<1>6. s \in 1..6 /\ (s \in Slots <=> s # 6) BY <1>1, SMT DEF Slots, Other
<1>7. /\ WorkOf'[s] = q.work /\ RetriesOf'[s] = q.retries
      /\ \A i \in (1..6) \ {s} : WorkOf'[i] = WorkOf[i] /\ RetriesOf'[i] = RetriesOf[i]
  <2>1. s \in DOMAIN reservation' BY <1>2, Zenon
  <2>2. WorkOf'[s] = q.work /\ RetriesOf'[s] = q.retries
    BY <1>3, <1>6, <2>1, Zenon DEF WorkOf, RetriesOf, Counts
  <2>3. ASSUME NEW i \in (1..6) \ {s} PROVE WorkOf'[i] = WorkOf[i] /\ RetriesOf'[i] = RetriesOf[i]
    <3>1. /\ i \in DOMAIN reservation' <=> i \in DOMAIN reservation
          /\ i \in DOMAIN reservation => reservation'[i] = reservation[i]
      BY <1>2, Zenon
    <3>2. WorkOf'[i] = WorkOf[i] BY <3>1, Zenon DEF WorkOf, Counts
    <3>3. RetriesOf'[i] = RetriesOf[i] BY <1>5, <3>1, Zenon DEF RetriesOf, Counts
    <3>4. QED BY <3>2, <3>3, Zenon
  <2>4. QED BY <2>2, <2>3, Zenon
<1>8. /\ OfAll(WorkOf) + q.work <= Ceilings.assessment.work
      /\ OfAll(RetriesOf) + q.retries <= Ceilings.assessment.retries
      /\ s \in Slots => /\ OfTask(WorkOf) + q.work <= Ceilings.per_task.work
                        /\ OfTask(RetriesOf) + q.retries <= Ceilings.per_task.retries
  <2>1. /\ UsedCapacity("work", Slots \cup {Other}) + q.work <= Ceilings.assessment.work
        /\ UsedCapacity("retries", Slots \cup {Other}) + q.retries <= Ceilings.assessment.retries
        /\ UsedCapacity("work", SameTask(s)) + q.work <= Ceilings.per_task.work
        /\ UsedCapacity("retries", SameTask(s)) + q.retries <= Ceilings.per_task.retries
    BY <1>1, Zenon DEF Fits
  <2>2. s \in Slots => SameTask(s) = Slots BY <1>6, Zenon DEF SameTask, Other
  <2>3. QED BY <2>1, <2>2, UsedIs, Zenon
<1>9. /\ Ceilings.per_task.work \in Nat /\ Ceilings.assessment.work \in Nat
      /\ Ceilings.per_task.retries \in Nat /\ Ceilings.assessment.retries \in Nat
  BY RetryAssumption, SMT DEF Amounts
<1>10. ASSUME NEW w, NEW x, NEW t \in Nat, NEW a \in Nat, NEW c \in Nat,
              \A i \in 1..6 : w[i] \in Nat,
              x[s] = c, \A i \in (1..6) \ {s} : x[i] = w[i],
              OfTask(w) <= t, OfAll(w) + c <= a, s \in Slots => OfTask(w) + c <= t
       PROVE  OfTask(x) <= t /\ OfAll(x) <= a
  <2>1. s = 6 \/ OfTask(w) + c <= t BY <1>6, <1>10, Zenon
  <2>2. s \in 1..6 BY <1>6, Zenon
  <2>3. QED BY <1>10, <2>1, <2>2, SMT DEF OfTask, OfAll
<1>11. (\A i \in 1..6 : WorkOf[i] \in Nat) /\ (\A i \in 1..6 : RetriesOf[i] \in Nat)
  BY RowTypes, Zenon
<1>12. OfTask(WorkOf') <= Ceilings.per_task.work /\ OfAll(WorkOf') <= Ceilings.assessment.work
  <2>1. /\ WorkOf'[s] = q.work /\ \A i \in (1..6) \ {s} : WorkOf'[i] = WorkOf[i]
        /\ \A i \in 1..6 : WorkOf[i] \in Nat
        /\ OfTask(WorkOf) <= Ceilings.per_task.work
        /\ OfAll(WorkOf) + q.work <= Ceilings.assessment.work
        /\ s \in Slots => OfTask(WorkOf) + q.work <= Ceilings.per_task.work
    BY <1>7, <1>8, <1>11, Zenon DEF Ceiled
  <2>2. q.work \in Nat /\ Ceilings.per_task.work \in Nat /\ Ceilings.assessment.work \in Nat
    BY <1>4, <1>9, Zenon
  <2>3. QED BY <1>10, <2>1, <2>2, Zenon
<1>13. /\ OfTask(RetriesOf') <= Ceilings.per_task.retries
       /\ OfAll(RetriesOf') <= Ceilings.assessment.retries
  <2>1. /\ RetriesOf'[s] = q.retries /\ \A i \in (1..6) \ {s} : RetriesOf'[i] = RetriesOf[i]
        /\ \A i \in 1..6 : RetriesOf[i] \in Nat
        /\ OfTask(RetriesOf) <= Ceilings.per_task.retries
        /\ OfAll(RetriesOf) + q.retries <= Ceilings.assessment.retries
        /\ s \in Slots => OfTask(RetriesOf) + q.retries <= Ceilings.per_task.retries
    BY <1>7, <1>8, <1>11, Zenon DEF Ceiled
  <2>2. /\ q.retries \in Nat
        /\ Ceilings.per_task.retries \in Nat /\ Ceilings.assessment.retries \in Nat
    BY <1>4, <1>9, Zenon
  <2>3. QED BY <1>10, <2>1, <2>2, Zenon
<1>14. QED BY <1>12, <1>13, Zenon DEF Ceiled, OfTask, OfAll

\* No step of anyone takes the task or the assessment over a ceiling of the budget.
LEMMA CeiledStep ==
    ASSUME Typed, Chain, Budget, Ceiled, [Next]_vars
    PROVE  Ceiled'
<1>1. CASE UnitStep BY <1>1, UnitCeiled, Zenon
<1>2. CASE StoreStep BY <1>2, StoreCeiled, Zenon
<1>3. CASE ReleaseStep BY <1>3, ReleaseCeiled, Zenon
<1>4. CASE ~UnitStep /\ ~StoreStep /\ ~ReleaseStep
  <2>1. UNCHANGED reservation BY <1>4, BudgetSteps, Zenon
  <2>2. row'.unit = row.unit BY <1>4, TableSteps, Zenon DEF Typed
  <2>3. QED BY <2>1, <2>2, CeiledKept, Zenon
<1>5. QED BY <1>1, <1>2, <1>3, <1>4, Zenon

\* Before the first reservation nothing is taken.
LEMMA CeiledInit == Init => Ceiled
<1> SUFFICES ASSUME Init PROVE Ceiled OBVIOUS
<1>1. DOMAIN reservation = {}
  <2>1. reservation = <<>> BY Zenon DEF Init
  <2>2. DOMAIN <<>> = {} BY SMT
  <2>3. QED BY <2>1, <2>2, Zenon
<1>2. \A i \in 1..6 : WorkOf[i] = 0 /\ RetriesOf[i] = 0 BY <1>1, Zenon DEF WorkOf, RetriesOf
<1>3. /\ Ceilings.per_task.work \in Nat /\ Ceilings.assessment.work \in Nat
      /\ Ceilings.per_task.retries \in Nat /\ Ceilings.assessment.retries \in Nat
  BY RetryAssumption, SMT DEF Amounts
<1>4. QED BY <1>2, <1>3, SMT DEF Ceiled, OfTask, OfAll
=============================================================================
