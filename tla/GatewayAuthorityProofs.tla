----------------------- MODULE GatewayAuthorityProofs -----------------------
(* Safety of GatewayAuthority for any number of engagements, bundles,      *)
(* intents and hosts: the counters are exact, and the theorems that follow *)
(* from the inductive invariant.                                           *)
EXTENDS GatewayAuthorityLemmas

\* Every leaf is tried with SMT and then with Zenon, with time to spare on a
\* slow machine.
USE SMTT(20), ZenonT(30)

\* The three equations of AccountsBalance for one engagement.
Counted(e) ==
    /\ account[e].reserved = Cardinality(InReservation(e, "reserved"))
    /\ account[e].committed = Cardinality(InReservation(e, "committed"))
    /\ account[e].active = Cardinality(PreparedSessions(e))

\* Steps that keep every reservation, session status and counter keep the count.
LEMMA CountedUnchanged ==
    ASSUME NEW e \in Engagements, Counted(e),
           account'[e].reserved = account[e].reserved,
           account'[e].committed = account[e].committed,
           account'[e].active = account[e].active,
           \A k \in Intents : EngOf(k) = e =>
               /\ session'[k].reservation = session[k].reservation
               /\ session'[k].status = session[k].status
    PROVE  Counted(e)'
<1>1. InReservation(e, "reserved")' = InReservation(e, "reserved")
  BY Zenon DEF InReservation, EngOf
<1>2. InReservation(e, "committed")' = InReservation(e, "committed")
  BY Zenon DEF InReservation, EngOf
<1>3. PreparedSessions(e)' = PreparedSessions(e)
  BY Zenon DEF PreparedSessions, EngOf
<1> QED  BY Zenon, <1>1, <1>2, <1>3 DEF Counted

\* A prepared session either waits for its start or has a committed one.
LEMMA PreparedSplit ==
    ASSUME TypeOK, SessionShape, NEW e \in Engagements
    PROVE  /\ Pending(e) = InReservation(e, "reserved")
           /\ Cardinality(PreparedSessions(e)) = Cardinality(Pending(e)) + Cardinality(Started(e))
           /\ Cardinality(Pending(e)) \in Nat
           /\ Cardinality(Started(e)) \in Nat
<1>1. Pending(e) = InReservation(e, "reserved")
  BY Zenon DEF Pending, InReservation, SessionShape
<1>2. PreparedSessions(e) = Pending(e) \cup Started(e)
  BY Zenon DEF PreparedSessions, Pending, Started, SessionShape
<1>3. Pending(e) \cap Started(e) = {}
  BY Zenon DEF Pending, Started
<1>4. IsFiniteSet(Pending(e)) /\ IsFiniteSet(Started(e))
  BY Zenon, ConstantsAssumption, FS_Subset DEF Pending, Started
<1>5. Cardinality(Pending(e)) \in Nat /\ Cardinality(Started(e)) \in Nat
  BY Zenon, <1>4, FS_CardinalityType
<1>6. Cardinality(Pending(e) \cup Started(e)) =
        Cardinality(Pending(e)) + Cardinality(Started(e)) - Cardinality(Pending(e) \cap Started(e))
  BY Zenon, <1>4, FS_Union
<1>7. Cardinality(Pending(e) \cap Started(e)) = 0
  BY Zenon, <1>3, FS_EmptySet
<1> QED  BY <1>1, <1>2, <1>5, <1>6, <1>7

\* When only one intent's rows change, each counted set gains or loses at most
\* that intent.
LEMMA RowMoves ==
    ASSUME NEW i \in Intents,
           \A k \in Intents : k # i => session'[k] = session[k],
           NEW status
    PROVE  /\ Cardinality(InReservation(EngOf(i), status)') =
                Cardinality(InReservation(EngOf(i), status))
                  + (IF session'[i].reservation = status THEN 1 ELSE 0)
                  - (IF session[i].reservation = status THEN 1 ELSE 0)
           /\ Cardinality(PreparedSessions(EngOf(i))') =
                Cardinality(PreparedSessions(EngOf(i)))
                  + (IF session'[i].status = "prepared" THEN 1 ELSE 0)
                  - (IF session[i].status = "prepared" THEN 1 ELSE 0)
<1> DEFINE R == InReservation(EngOf(i), status)
           P == PreparedSessions(EngOf(i))
<1>1. /\ R' = IF session'[i].reservation = status THEN R \cup {i} ELSE R \ {i}
      /\ i \in R <=> session[i].reservation = status
  BY Zenon DEF InReservation, EngOf
<1>2. /\ P' = IF session'[i].status = "prepared" THEN P \cup {i} ELSE P \ {i}
      /\ i \in P <=> session[i].status = "prepared"
  BY Zenon DEF PreparedSessions, EngOf
<1>3. IsFiniteSet(R) /\ IsFiniteSet(P)
  BY Zenon, FiniteRows
<1>4. Cardinality(R) \in Nat /\ Cardinality(P) \in Nat
  BY Zenon, <1>3, FS_CardinalityType
<1>5. /\ Cardinality(R \cup {i}) = IF i \in R THEN Cardinality(R) ELSE Cardinality(R) + 1
      /\ Cardinality(R \ {i}) = IF i \in R THEN Cardinality(R) - 1 ELSE Cardinality(R)
  BY Zenon, <1>3, FS_AddElement, FS_RemoveElement
<1>6. /\ Cardinality(P \cup {i}) = IF i \in P THEN Cardinality(P) ELSE Cardinality(P) + 1
      /\ Cardinality(P \ {i}) = IF i \in P THEN Cardinality(P) - 1 ELSE Cardinality(P)
  BY Zenon, <1>3, FS_AddElement, FS_RemoveElement
<1> HIDE DEF R, P
<1>7. Cardinality(R') = Cardinality(R) + (IF session'[i].reservation = status THEN 1 ELSE 0)
                          - (IF session[i].reservation = status THEN 1 ELSE 0)
  BY <1>1, <1>4, <1>5
<1>8. Cardinality(P') = Cardinality(P) + (IF session'[i].status = "prepared" THEN 1 ELSE 0)
                          - (IF session[i].status = "prepared" THEN 1 ELSE 0)
  BY <1>2, <1>4, <1>6
<1> QED  BY Zenon, <1>7, <1>8 DEF R, P

\* The same for the counters: they move with the row, so they stay exact.
LEMMA CountedMoves ==
    ASSUME TypeOK, NEW i \in Intents, Counted(EngOf(i)),
           \A k \in Intents : k # i => session'[k] = session[k],
           account'[EngOf(i)].reserved = account[EngOf(i)].reserved
                  + (IF session'[i].reservation = "reserved" THEN 1 ELSE 0)
                  - (IF session[i].reservation = "reserved" THEN 1 ELSE 0),
           account'[EngOf(i)].committed = account[EngOf(i)].committed
                  + (IF session'[i].reservation = "committed" THEN 1 ELSE 0)
                  - (IF session[i].reservation = "committed" THEN 1 ELSE 0),
           account'[EngOf(i)].active = account[EngOf(i)].active
                  + (IF session'[i].status = "prepared" THEN 1 ELSE 0)
                  - (IF session[i].status = "prepared" THEN 1 ELSE 0)
    PROVE  Counted(EngOf(i))'
<1>1. Cardinality(InReservation(EngOf(i), "reserved")') =
        Cardinality(InReservation(EngOf(i), "reserved"))
          + (IF session'[i].reservation = "reserved" THEN 1 ELSE 0)
          - (IF session[i].reservation = "reserved" THEN 1 ELSE 0)
  BY RowMoves
<1>2. Cardinality(InReservation(EngOf(i), "committed")') =
        Cardinality(InReservation(EngOf(i), "committed"))
          + (IF session'[i].reservation = "committed" THEN 1 ELSE 0)
          - (IF session[i].reservation = "committed" THEN 1 ELSE 0)
  BY RowMoves
<1>3. Cardinality(PreparedSessions(EngOf(i))') =
        Cardinality(PreparedSessions(EngOf(i)))
          + (IF session'[i].status = "prepared" THEN 1 ELSE 0)
          - (IF session[i].status = "prepared" THEN 1 ELSE 0)
  BY Zenon, RowMoves
<1> QED  BY <1>1, <1>2, <1>3 DEF Counted, EngOf

\* A halt empties the reserved and prepared sets and takes exactly their sizes
\* off the counters.
LEMMA CountedHalt ==
    ASSUME TypeOK, SessionShape, NEW E \in SUBSET Engagements, AbortGatewaySessions(E),
           NEW e \in E, Counted(e)
    PROVE  Counted(e)'
<1>0. e \in Engagements /\ account[e] \in AccountRow
  BY Zenon DEF TypeOK
<1>1. \A k \in Intents : EngOf(k) = e => session'[k] = AbortedRow(session[k])
  BY Zenon DEF AbortGatewaySessions
<1>a. ASSUME NEW k \in Intents, EngOf(k) = e
      PROVE  /\ session'[k].reservation # "reserved" /\ session'[k].status # "prepared"
             /\ session'[k].reservation = "committed" <=> session[k].reservation = "committed"
  <2>1. session'[k] = AbortedRow(session[k])
    BY Zenon, <1>1, <1>a
  <2> QED  BY <2>1 DEF AbortedRow
<1>2. InReservation(e, "reserved")' = {} /\ PreparedSessions(e)' = {}
  BY Zenon, <1>a DEF InReservation, PreparedSessions, EngOf
<1>3. InReservation(e, "committed")' = InReservation(e, "committed")
  BY Zenon, <1>a DEF InReservation, EngOf
<1>4. /\ account'[e].reserved = account[e].reserved - Cardinality(Pending(e))
      /\ account'[e].committed = account[e].committed
      /\ account'[e].active = account[e].active
            - (Cardinality(Pending(e)) + Cardinality(Started(e)))
  <2>1. account'[e] = Adjusted(account[e], -Cardinality(Pending(e)), 0,
                         -(Cardinality(Pending(e)) + Cardinality(Started(e))))
    BY Zenon, <1>0 DEF AbortGatewaySessions
  <2> QED  BY <1>0, <2>1, PreparedSplit DEF Adjusted, AccountRow
<1>5. account'[e].reserved = 0 /\ account'[e].active = 0
  BY <1>0, <1>4, PreparedSplit DEF Counted
<1>6. /\ account'[e].reserved = Cardinality(InReservation(e, "reserved")')
      /\ account'[e].active = Cardinality(PreparedSessions(e)')
  BY <1>2, <1>5, FS_EmptySet
<1>7. account'[e].committed = Cardinality(InReservation(e, "committed")')
  BY <1>0, <1>3, <1>4 DEF Counted
<1> QED  BY <1>6, <1>7 DEF Counted

\* budget_accounts stays an exact count of the rows.
LEMMA BalanceStep ==
    TypeOK /\ SessionShape /\ AccountsBalance /\ [Next]_vars => AccountsBalance'
<1> SUFFICES ASSUME TypeOK, SessionShape, AccountsBalance, [Next]_vars PROVE AccountsBalance'
  OBVIOUS
<1>0. SUFFICES ASSUME NEW e \in Engagements PROVE Counted(e)'
  BY Zenon DEF AccountsBalance, Counted
<1>a. Counted(e) /\ account[e] \in AccountRow
  BY DEF AccountsBalance, Counted, TypeOK
<1>1. CASE UNCHANGED <<session, account>>
  BY Zenon, <1>1, <1>a, CountedUnchanged
<1>2. ASSUME NEW i \in Intents, NEW d \in destination[i], PrepareSession(i, d)
      PROVE  Counted(e)'
  <2>1. \A k \in Intents : k # i => session'[k] = session[k]
    BY Zenon, <1>2 DEF PrepareSession, TypeOK
  <2>2. CASE EngOf(i) # e
    <3>1. account'[e] = account[e]
      BY ZenonT(60), <1>2, <2>2 DEF PrepareSession, TypeOK
    <3> QED  BY <1>a, <2>1, <2>2, <3>1, CountedUnchanged
  <2>3. CASE EngOf(i) = e
    <3>1. /\ session[i].reservation = "none" /\ session[i].status # "prepared"
          /\ session'[i].reservation = "reserved" /\ session'[i].status = "prepared"
      BY Zenon, <1>2 DEF PrepareSession, SessionShape, TypeOK
    <3>2. /\ account'[e].reserved = account[e].reserved + 1
          /\ account'[e].committed = account[e].committed
          /\ account'[e].active = account[e].active + 1
      BY Zenon, <1>2, <2>3 DEF PrepareSession, TypeOK
    <3> QED  BY <1>a, <2>1, <2>3, <3>1, <3>2, CountedMoves DEF AccountRow
  <2> QED  BY <2>2, <2>3
<1>3. ASSUME NEW i \in Intents, CommitStart(i)
      PROVE  Counted(e)'
  <2>1. \A k \in Intents : k # i => session'[k] = session[k]
    BY Zenon, <1>3 DEF CommitStart, TypeOK
  <2>2. CASE EngOf(i) # e
    <3>1. account'[e] = account[e]
      BY <1>3, <2>2 DEF CommitStart, TypeOK
    <3> QED  BY Zenon, <1>a, <2>1, <2>2, <3>1, CountedUnchanged
  <2>3. CASE EngOf(i) = e
    <3>1. /\ session[i].reservation = "reserved" /\ session[i].status = "prepared"
          /\ session'[i].reservation = "committed" /\ session'[i].status = "prepared"
      BY Zenon, <1>3 DEF CommitStart, TypeOK
    <3>2. /\ account'[e].reserved = account[e].reserved - 1
          /\ account'[e].committed = account[e].committed + 1
          /\ account'[e].active = account[e].active
      BY <1>3, <1>a, <2>3 DEF CommitStart, Adjusted, TypeOK, AccountRow
    <3> QED  BY <1>a, <2>1, <2>3, <3>1, <3>2, CountedMoves DEF AccountRow
  <2> QED  BY Zenon, <2>2, <2>3
<1>4. ASSUME NEW i \in Intents, ClaimExecution(i)
      PROVE  Counted(e)'
  <2>1. \A k \in Intents : /\ session'[k].reservation = session[k].reservation
                           /\ session'[k].status = session[k].status
    BY <1>4 DEF ClaimExecution, TypeOK, SessionRow
  <2> QED  BY Zenon, <1>4, <1>a, <2>1, CountedUnchanged DEF ClaimExecution
<1>5. ASSUME NEW i \in Intents, FinalizeRequest(i)
      PROVE  Counted(e)'
  <2>1. \A k \in Intents : k # i => session'[k] = session[k]
    BY ZenonT(60), <1>5 DEF FinalizeRequest, TypeOK
  <2>2. CASE EngOf(i) # e
    <3>1. account'[e] = account[e]
      BY Zenon, <1>5, <2>2 DEF FinalizeRequest, TypeOK
    <3> QED  BY Zenon, <1>a, <2>1, <2>2, <3>1, CountedUnchanged
  <2>3. CASE EngOf(i) = e
    <3>1. /\ session[i].status = "prepared"
          /\ session'[i].reservation = session[i].reservation /\ session'[i].status = "closed"
      BY Zenon, <1>5 DEF FinalizeRequest, TypeOK
    <3>2. /\ account'[e].reserved = account[e].reserved
          /\ account'[e].committed = account[e].committed
          /\ account'[e].active = account[e].active - 1
      BY <1>5, <1>a, <2>3 DEF FinalizeRequest, Adjusted, TypeOK, AccountRow
    <3> QED  BY <1>a, <2>1, <2>3, <3>1, <3>2, CountedMoves DEF AccountRow
  <2> QED  BY Zenon, <2>2, <2>3
<1>6. ASSUME NEW i \in Intents, AbortSession(i)
      PROVE  Counted(e)'
  <2>1. \A k \in Intents : k # i => session'[k] = session[k]
    BY ZenonT(60), <1>6 DEF AbortSession, TypeOK
  <2>2. CASE EngOf(i) # e
    <3>1. account'[e] = account[e]
      BY ZenonT(60), <1>6, <2>2 DEF AbortSession, TypeOK
    <3> QED  BY Zenon, <1>a, <2>1, <2>2, <3>1, CountedUnchanged
  <2>3. CASE EngOf(i) = e
    <3>0. session'[i] = AbortedRow(session[i])
      BY ZenonT(60), <1>6 DEF AbortSession, TypeOK
    <3>1. /\ session[i].reservation = "reserved" /\ session[i].status = "prepared"
          /\ session'[i].reservation = "released" /\ session'[i].status = "aborted"
      BY <1>6, <3>0 DEF AbortSession, AbortedRow, SessionShape
    <3>2. /\ account'[e].reserved = account[e].reserved - 1
          /\ account'[e].committed = account[e].committed
          /\ account'[e].active = account[e].active - 1
      BY <1>6, <1>a, <2>3 DEF AbortSession, Adjusted, TypeOK, AccountRow
    <3> QED  BY <1>a, <2>1, <2>3, <3>1, <3>2, CountedMoves DEF AccountRow
  <2> QED  BY Zenon, <2>2, <2>3
<1>7. ASSUME NEW E \in SUBSET Engagements, Halting(E)
      PROVE  Counted(e)'
  <2>1. CASE e \in E
    BY Zenon, <1>7, <1>a, <2>1, CountedHalt DEF Halting
  <2>2. CASE e \notin E
    <3>1. account'[e] = account[e] /\ \A k \in Intents : EngOf(k) = e => session'[k] = session[k]
      BY Zenon, <1>7, <2>2 DEF Halting, AbortGatewaySessions
    <3> QED  BY Zenon, <1>a, <3>1, CountedUnchanged
  <2> QED  BY Zenon, <2>1, <2>2
<1> QED
  BY <1>1, <1>2, <1>3, <1>4, <1>5, <1>6, <1>7, StepClasses
  DEF vars, MintGrant, ConsumeGrant

\* No step takes a counter past the limit stored beside it.
LEMMA BudgetStep == TypeOK /\ WithinBudget /\ [Next]_vars => WithinBudget'
<1> SUFFICES ASSUME TypeOK, WithinBudget, [Next]_vars PROVE WithinBudget'
  OBVIOUS
<1> DEFINE Fits(a) == a.reserved + a.committed <= a.requests /\ a.active <= a.connections
<1>0. SUFFICES ASSUME NEW e \in Engagements PROVE Fits(account'[e])
  BY Zenon DEF WithinBudget
<1>a. Fits(account[e]) /\ account[e] \in AccountRow
  BY Zenon DEF WithinBudget, TypeOK
<1>1. CASE UNCHANGED account
  BY Zenon, <1>1, <1>a
<1>2. ASSUME NEW i \in Intents, NEW d \in destination[i], PrepareSession(i, d)
      PROVE  Fits(account'[e])
  <2>1. CASE EngOf(i) # e
    BY <1>2, <1>a, <2>1 DEF PrepareSession, TypeOK
  <2>2. CASE EngOf(i) = e
    <3>1. account'[e] = [requests |-> RequestLimit[PolicyOf[i]],
                         connections |-> ConnectionLimit[PolicyOf[i]],
                         reserved |-> account[e].reserved + 1,
                         committed |-> account[e].committed, active |-> account[e].active + 1]
      BY Zenon, <1>2, <2>2 DEF PrepareSession, TypeOK
    <3>2. BudgetAllows(e, PolicyOf[i])
      BY Zenon, <1>2, <2>2 DEF PrepareSession
    <3>3. RequestLimit[PolicyOf[i]] \in Nat /\ ConnectionLimit[PolicyOf[i]] \in Nat
      BY Zenon, ConstantsAssumption
    <3> QED  BY <1>a, <3>1, <3>2, <3>3 DEF BudgetAllows, AccountRow
  <2> QED  BY Zenon, <2>1, <2>2
<1>3. ASSUME NEW i \in Intents, CommitStart(i) \/ FinalizeRequest(i) \/ AbortSession(i)
      PROVE  Fits(account'[e])
  <2>1. \/ account'[e] = account[e]
        \/ account'[e] = Adjusted(account[e], -1, 1, 0)
        \/ account'[e] = Adjusted(account[e], 0, 0, -1)
        \/ account'[e] = Adjusted(account[e], -1, 0, -1)
    BY <1>3 DEF CommitStart, FinalizeRequest, AbortSession, TypeOK
  <2> QED  BY <1>a, <2>1 DEF Adjusted, AccountRow
<1>4. ASSUME NEW E \in SUBSET Engagements, Halting(E)
      PROVE  Fits(account'[e])
  <2>1. Cardinality(Pending(e)) \in Nat /\ Cardinality(Started(e)) \in Nat
    BY Zenon, FiniteRows
  <2>2. \/ account'[e] = account[e]
        \/ account'[e] = Adjusted(account[e], -Cardinality(Pending(e)), 0,
                            -(Cardinality(Pending(e)) + Cardinality(Started(e))))
    BY Zenon, <1>4 DEF Halting, AbortGatewaySessions
  <2> QED  BY <1>a, <2>1, <2>2 DEF Adjusted, AccountRow
<1> QED
  BY Zenon, <1>1, <1>2, <1>3, <1>4, StepClasses DEF vars, MintGrant, ConsumeGrant, ClaimExecution

\* Before any policy is activated there is nothing to count.
LEMMA InitInv == Init => IInv
<1> SUFFICES ASSUME Init PROVE IInv
  OBVIOUS
<1>1. TypeOK
  BY Zenon, InitType
<1>2. OneActivePolicy
  BY Zenon DEF Init, OneActivePolicy, LivePolicy
<1>3. \A i \in Intents : session[i] = NoSession /\ grant[i].status = "none"
  BY Zenon DEF Init
<1>4. SessionShape /\ NoAuthorityUnderHalt /\ BucketsMatch
  BY <1>3 DEF SessionShape, NoAuthorityUnderHalt, BucketsMatch, NoSession
<1>5. \A e \in Engagements : /\ InReservation(e, "reserved") = {}
                             /\ InReservation(e, "committed") = {}
                             /\ PreparedSessions(e) = {}
  BY <1>3 DEF InReservation, PreparedSessions, NoSession
<1>6. \A e \in Engagements : account[e] = [requests |-> 0, connections |-> 0,
                                reserved |-> 0, committed |-> 0, active |-> 0]
  BY Zenon DEF Init
<1>7. AccountsBalance
  BY <1>5, <1>6, FS_EmptySet DEF AccountsBalance
<1>8. WithinBudget
  BY <1>6 DEF WithinBudget
<1> QED  BY Zenon, <1>1, <1>2, <1>4, <1>7, <1>8 DEF IInv

\* The conjunction is inductive: every handler, halt and restart of
\* authorization.py preserves all of it, for any constants.
THEOREM Inductive == Spec => []IInv
<1>1. IInv /\ [Next]_vars => IInv'
  BY Zenon, TypeStep, OneActiveStep, ShapeStep, AuthorityStep, BucketsStep, BalanceStep, BudgetStep
  DEF IInv
<1> QED  BY InitInv, <1>1, PTL DEF Spec

\* Every reachable state of the authority tables is well typed.
THEOREM TypeCorrect == Spec => []TypeOK
<1>1. IInv => TypeOK
  BY Zenon DEF IInv
<1> QED  BY Inductive, <1>1, PTL

\* The counters of budget_accounts equal the rows they stand for, and stay
\* within the limits beside them, whatever the number of sessions.
THEOREM Accounted == Spec => [](AccountsBalance /\ WithinBudget)
<1>1. IInv => AccountsBalance /\ WithinBudget
  BY Zenon DEF IInv
<1> QED  BY Inductive, <1>1, PTL

\* In particular no account is ever over the request or connection limit that
\* the last preparation wrote beside it.
THEOREM Budgeted == Spec => []WithinBudget
BY Accounted, PTL

\* After pause, stop, revocation, replacement or restart nothing issued before
\* it can be spent.
THEOREM Halted == Spec => []NoAuthorityUnderHalt
<1>1. IInv => NoAuthorityUnderHalt
  BY DEF IInv
<1> QED  BY Inductive, <1>1, PTL

\* An engagement never has two live bundles.
THEOREM SinglePolicy == Spec => []OneActivePolicy
<1>1. IInv => OneActivePolicy
  BY Zenon DEF IInv
<1> QED  BY Inductive, <1>1, PTL

\* _abort_gateway_sessions never raises, so no halt is ever rolled back by it.
THEOREM HaltAlwaysPossible == Spec => []HaltNeverRefused
<1>1. IInv => HaltNeverRefused
  <2> SUFFICES ASSUME IInv, NEW e \in Engagements PROVE AbortPossible(e)
    BY Zenon DEF HaltNeverRefused
  <2>1. \A i \in Pending(e) : RateReleasable(i)
    BY Zenon DEF IInv, Pending, BucketsMatch, RateReleasable, SessionShape
  <2>2. /\ account[e].reserved = Cardinality(InReservation(e, "reserved"))
        /\ account[e].active = Cardinality(PreparedSessions(e))
    BY Zenon DEF IInv, AccountsBalance
  <2>3. TypeOK /\ SessionShape
    BY Zenon DEF IInv
  <2> QED  BY <2>1, <2>2, <2>3, PreparedSplit DEF AbortPossible
<1> QED  BY Inductive, <1>1, PTL

\* A start is always paid for and a result always belongs to a start.
THEOREM StartsPaid == Spec => []StartsAreAccounted
<1>1. IInv => StartsAreAccounted
  BY DEF IInv, SessionShape, StartsAreAccounted
<1> QED  BY Inductive, <1>1, PTL

\* No step gives back a committed reservation or lowers the committed counter.
LEMMA CommittedStep ==
    ASSUME TypeOK, SessionShape, [Next]_vars
    PROVE  /\ \A i \in Intents : session[i].reservation = "committed" =>
                  session'[i].reservation = "committed" /\ session'[i].rate = "committed"
           /\ \A e \in Engagements : account'[e].committed >= account[e].committed
<1>0. TypeOK' /\ SessionShape'
  BY TypeStep, ShapeStep
<1>1. ASSUME NEW j \in Intents, session[j].reservation = "committed"
      PROVE  session'[j].reservation = "committed"
  <2>0. session[j].start # "none" /\ session[j] \in SessionRow
    BY <1>1 DEF SessionShape, TypeOK
  <2>1. ASSUME NEW i \in Intents, NEW d \in destination[i], PrepareSession(i, d)
        PROVE  session'[j] = session[j]
    BY Zenon, <1>1, <2>1 DEF PrepareSession, TypeOK
  <2>2. ASSUME NEW i \in Intents, CommitStart(i)
        PROVE  session'[j] = session[j]
    BY <2>0, <2>2 DEF CommitStart, TypeOK
  <2>3. ASSUME NEW i \in Intents, ClaimExecution(i) \/ FinalizeRequest(i)
        PROVE  session'[j].reservation = session[j].reservation
    BY <2>3 DEF ClaimExecution, FinalizeRequest, TypeOK, SessionRow
  <2>4. ASSUME session'[j] = AbortedRow(session[j])
        PROVE  session'[j].reservation = "committed"
    BY <1>1, <2>4 DEF AbortedRow
  <2>5. ASSUME NEW i \in Intents, AbortSession(i)
        PROVE  session'[j] = AbortedRow(session[j]) \/ session'[j] = session[j]
    BY Zenon, <2>5 DEF AbortSession, TypeOK
  <2>6. ASSUME NEW E \in SUBSET Engagements, Halting(E)
        PROVE  session'[j] = AbortedRow(session[j]) \/ session'[j] = session[j]
    BY Zenon, <2>6 DEF Halting, AbortGatewaySessions
  <2>7. \/ session'[j] = session[j]
        \/ session'[j].reservation = session[j].reservation
        \/ session'[j] = AbortedRow(session[j])
    BY Zenon, <2>1, <2>2, <2>3, <2>5, <2>6, StepClasses DEF vars, MintGrant, ConsumeGrant
  <2> QED  BY <1>1, <2>4, <2>7
<1>2. ASSUME NEW e \in Engagements
      PROVE  account'[e].committed >= account[e].committed
  <2>0. account[e] \in AccountRow
    BY Zenon DEF TypeOK
  <2>1. ASSUME NEW i \in Intents, NEW d \in destination[i], PrepareSession(i, d)
        PROVE  account'[e].committed = account[e].committed
    BY <2>1 DEF PrepareSession, TypeOK
  <2>2. ASSUME NEW i \in Intents, CommitStart(i) \/ FinalizeRequest(i) \/ AbortSession(i)
        PROVE  \/ account'[e] = account[e]
               \/ account'[e] = Adjusted(account[e], -1, 1, 0)
               \/ account'[e] = Adjusted(account[e], 0, 0, -1)
               \/ account'[e] = Adjusted(account[e], -1, 0, -1)
    BY <2>2 DEF CommitStart, FinalizeRequest, AbortSession, TypeOK
  <2>3. ASSUME NEW E \in SUBSET Engagements, Halting(E)
        PROVE  \/ account'[e] = account[e]
               \/ account'[e] = Adjusted(account[e], -Cardinality(Pending(e)), 0,
                                   -(Cardinality(Pending(e)) + Cardinality(Started(e))))
    BY Zenon, <2>3 DEF Halting, AbortGatewaySessions
  <2>4. \/ account'[e].committed = account[e].committed
        \/ account'[e].committed = account[e].committed + 1
        \/ account'[e].committed = account[e].committed + 0
    BY <2>1, <2>2, <2>3, StepClasses
    DEF vars, MintGrant, ConsumeGrant, ClaimExecution, Adjusted
  <2> QED  BY <2>0, <2>4 DEF AccountRow
<1> QED  BY Zenon, <1>0, <1>1, <1>2 DEF SessionShape

\* "Committed request and rate capacity cannot be released", for any constants.
THEOREM NeverRefunded == Spec => CommittedStaysCommitted
<1>1. IInv /\ [Next]_vars =>
        /\ \A i \in Intents : session[i].reservation = "committed" =>
               session'[i].reservation = "committed" /\ session'[i].rate = "committed"
        /\ \A e \in Engagements : account'[e].committed >= account[e].committed
  BY Zenon, CommittedStep DEF IInv
<1> QED  BY Inductive, <1>1, PTL DEF Spec, CommittedStaysCommitted

\* Pausing, revoking or replacing the policy of one assessment, and every step
\* of its requests, leave all others alone; only a halt of the whole process
\* reaches several.
THEOREM Isolated == Spec => AssessmentsIsolated
<1>1. IInv /\ [Next]_vars =>
        \A e, f \in Engagements :
            (e # f /\ Footprint(e)' # Footprint(e) /\ Footprint(f)' # Footprint(f))
            => global' # "active"
  <2> SUFFICES ASSUME IInv, [Next]_vars, NEW e \in Engagements, NEW f \in Engagements, e # f,
                      Footprint(e)' # Footprint(e), Footprint(f)' # Footprint(f),
                      global' = "active"
               PROVE  FALSE
    BY Zenon
  <2>1. ~Untouched(e) /\ ~Untouched(f)
    BY Zenon, UntouchedFootprint
  <2> QED  BY Zenon, <2>1, IsolatedStep DEF IInv
<1> QED  BY Inductive, <1>1, PTL DEF Spec, AssessmentsIsolated

\* PhaseOf of one intent's rows, the cases in their order.
Phase(s, granted) ==
    IF s.result THEN "finished"
    ELSE IF s.start = "committed" THEN "started"
    ELSE IF s.start = "cancelled" THEN "void"
    ELSE IF granted = "used" THEN "spent"
    ELSE IF granted = "revoked" THEN "void"
    ELSE IF granted = "none" THEN "idle"
    ELSE IF s.status = "prepared" THEN "reserved"
    ELSE IF s.status = "aborted" THEN "refunded"
    ELSE "granted"

\* The cases of PhaseOf exclude each other in consistent rows.
LEMMA PhaseIs ==
    ASSUME TypeOK, SessionShape, NEW i \in Intents
    PROVE  PhaseOf(i) = Phase(session[i], grant[i].status)
<1>1. session[i] \in SessionRow /\ grant[i] \in GrantRow /\ Shape(session[i], grant[i].status)
  BY Zenon, ShapeByRow DEF TypeOK
<1> QED  BY <1>1 DEF PhaseOf, Phase, Shape, SessionRow, GrantRow

\* The same in the next state.
LEMMA PhaseIsPrime ==
    ASSUME TypeOK', SessionShape', NEW i \in Intents
    PROVE  PhaseOf(i)' = Phase(session'[i], grant'[i].status)
<1>1. session'[i] \in SessionRow /\ grant'[i] \in GrantRow /\ Shape(session'[i], grant'[i].status)
  BY Zenon DEF TypeOK, SessionShape, Shape
<1> QED  BY <1>1 DEF PhaseOf, Phase, Shape, SessionRow, GrantRow

\* What a halt does to one intent: authority that is outstanding becomes void.
LEMMA PhaseAborted ==
    ASSUME NEW s \in SessionRow, NEW g \in {"none", "issued", "used", "revoked"}
    PROVE  Phase(AbortedRow(s), IF g = "issued" THEN "revoked" ELSE g) =
               IF Phase(s, g) \in Authority!Outstanding THEN "void" ELSE Phase(s, g)
<1>1. /\ AbortedRow(s).result = s.result
      /\ s.start = "none" => AbortedRow(s).start = "none"
      /\ s.start # "none" => AbortedRow(s).start = "cancelled"
      /\ s.start \in {"none", "committed", "cancelled"}
  BY DEF AbortedRow, SessionRow
<1>2. CASE s.result
  BY Zenon, <1>1, <1>2 DEF Phase, Authority!Outstanding
<1>3. CASE ~s.result /\ s.start # "none"
  BY <1>1, <1>3 DEF Phase, Authority!Outstanding
<1>4. CASE ~s.result /\ s.start = "none"
  BY <1>1, <1>4 DEF Phase, Authority!Outstanding
<1> QED  BY Zenon, <1>2, <1>3, <1>4

\* An engagement whose authority is backed is live in the abstract state.
LEMMA BackedIsLive ==
    ASSUME NEW i \in Intents, Backed(i)
    PROVE  EngOf(i) \in LiveEngagements
BY Zenon, EngOfType DEF Backed, AuthorityActive, EngOf, LiveEngagements

\* One intent advances under a live engagement.
LEMMA Advances ==
    ASSUME NEW i \in Intents, NEW from, NEW to, EngOf(i) \in LiveEngagements,
           UNCHANGED <<global, engagement>>, PhaseOf(i) \in from, PhaseOf(i)' = to,
           \A j \in Intents \ {i} : PhaseOf(j)' = PhaseOf(j)
    PROVE  Authority!Move(i, from, to)
<1>1. LiveEngagements' = LiveEngagements
  BY Zenon DEF LiveEngagements
<1>2. [j \in Intents |-> PhaseOf(j)]' =
          [[j \in Intents |-> PhaseOf(j)] EXCEPT ![i] = to]
  <2> DEFINE P == [j \in Intents |-> PhaseOf(j)]
             Q == [j \in Intents |-> PhaseOf(j)']
  <2>1. \A j \in Intents : Q[j] = [P EXCEPT ![i] = to][j]
    BY Zenon
  <2>2. Q = [P EXCEPT ![i] = to]
    BY Zenon, <2>1
  <2> QED  BY Zenon, <2>2
<1> QED  BY Zenon, <1>1, <1>2 DEF Authority!Move

\* Steps that move no phase only make engagements live, or leave them alone.
LEMMA Idles ==
    ASSUME \A j \in Intents : PhaseOf(j)' = PhaseOf(j),
           LiveEngagements \subseteq LiveEngagements'
    PROVE  Authority!Next
<1>1. [j \in Intents |-> PhaseOf(j)]' = [j \in Intents |-> PhaseOf(j)]
  BY Zenon
<1>2. LiveEngagements' \in SUBSET Engagements
  BY DEF LiveEngagements
<1>3. LiveEngagements' = LiveEngagements \cup LiveEngagements'
  OBVIOUS
<1> HIDE DEF LiveEngagements
<1> QED  BY Zenon, <1>1, <1>2, <1>3 DEF Authority!Next, Authority!Resume

\* A halt of the engagements E, when no grant of them is left issued.
LEMMA Resets ==
    ASSUME TypeOK, SessionShape, TypeOK', SessionShape',
           NEW E \in SUBSET Engagements, AbortGatewaySessions(E),
           \/ RevokeUnusedGrants(E)
           \/ UNCHANGED grant /\ \A j \in Intents : EngOf(j) \in E => grant[j].status # "issued",
           NEW L \in SUBSET E, LiveEngagements' = (LiveEngagements \ E) \cup L
    PROVE  Authority!Next
<1>1. ASSUME NEW j \in Intents
      PROVE  PhaseOf(j)' = IF EngOf(j) \in E /\ PhaseOf(j) \in Authority!Outstanding
                           THEN "void" ELSE PhaseOf(j)
  <2>0. session[j] \in SessionRow /\ grant[j] \in GrantRow /\ Shape(session[j], grant[j].status)
    BY Zenon, ShapeByRow DEF TypeOK
  <2>1. CASE EngOf(j) \notin E
    <3>1. session'[j] = session[j] /\ grant'[j] = grant[j]
      BY Zenon, <2>1 DEF AbortGatewaySessions, RevokeUnusedGrants
    <3> QED  BY Zenon, <2>1, <3>1, PhaseIs, PhaseIsPrime
  <2>2. CASE EngOf(j) \in E
    <3>1. session'[j] = AbortedRow(session[j])
      BY Zenon, <2>2 DEF AbortGatewaySessions
    <3>2. grant'[j].status = IF grant[j].status = "issued" THEN "revoked" ELSE grant[j].status
      BY Zenon, <2>0, <2>2 DEF RevokeUnusedGrants, GrantRow
    <3>3. grant[j].status \in {"none", "issued", "used", "revoked"}
      BY <2>0 DEF GrantRow
    <3>4. PhaseOf(j) = Phase(session[j], grant[j].status)
      BY Zenon, PhaseIs
    <3>5. PhaseOf(j)' = Phase(session'[j], grant'[j].status)
      BY Zenon, PhaseIsPrime
    <3> HIDE DEF Phase, PhaseOf
    <3>6. PhaseOf(j)' = IF PhaseOf(j) \in Authority!Outstanding THEN "void" ELSE PhaseOf(j)
      BY Zenon, <2>0, <3>1, <3>2, <3>3, <3>4, <3>5, PhaseAborted
    <3> QED  BY Zenon, <2>2, <3>6
  <2> QED  BY Zenon, <2>1, <2>2
<1>2. [j \in Intents |-> PhaseOf(j)]' =
          [j \in Intents |-> IF [k \in Intents |-> EngOf(k)][j] \in E
                                /\ [k \in Intents |-> PhaseOf(k)][j] \in Authority!Outstanding
                             THEN "void" ELSE [k \in Intents |-> PhaseOf(k)][j]]
  BY Zenon, <1>1
<1>3. Authority!Reset(E, L)
  BY Zenon, <1>2 DEF Authority!Reset
<1> QED  BY Zenon, <1>3 DEF Authority!Next

\* Every step of the control plane is a step, or a stutter, of RequestAuthority.
LEMMA RefinementStep ==
    ASSUME IInv, [Next]_vars
    PROVE  Authority!Next \/ UNCHANGED Authority!vars
<1> DEFINE Goal == Authority!Next \/ UNCHANGED Authority!vars
<1>a. TypeOK /\ OneActivePolicy /\ SessionShape /\ NoAuthorityUnderHalt
  BY Zenon DEF IInv
<1>b. TypeOK' /\ SessionShape'
  BY Zenon, <1>a, TypeStep, ShapeStep
<1>c. \A j \in Intents : Unspent(j) => Backed(j)
  BY Zenon, <1>a, ByIntent
<1>d. ASSUME NEW j \in Intents
      PROVE  /\ PhaseOf(j) = Phase(session[j], grant[j].status)
             /\ PhaseOf(j)' = Phase(session'[j], grant'[j].status)
             /\ session[j] \in SessionRow /\ grant[j] \in GrantRow
             /\ Shape(session[j], grant[j].status)
  BY Zenon, <1>a, <1>b, PhaseIs, PhaseIsPrime, ShapeByRow DEF TypeOK
<1>e. ASSUME NEW j \in Intents, session'[j] = session[j], grant'[j] = grant[j]
      PROVE  PhaseOf(j)' = PhaseOf(j)
  BY Zenon, <1>d, <1>e
<1>f. UNCHANGED <<global, engagement>> => LiveEngagements' = LiveEngagements
  BY Zenon DEF LiveEngagements
<1> SUFFICES Goal
  BY Zenon
<1> HIDE DEF Goal
<1>1. ASSUME UNCHANGED <<grant, session>>, LiveEngagements \subseteq LiveEngagements'
      PROVE  Goal
  BY Zenon, <1>1, <1>e, Idles DEF Goal
<1>2. ASSUME UNCHANGED <<grant, session, global, engagement>>
      PROVE  Goal
  BY <1>1, <1>2, <1>f
<1>3. ASSUME NEW i \in Intents, NEW audience \in {"broker", "gateway"}, MintGrant(i, audience)
      PROVE  Goal
  <2>1. \A j \in Intents \ {i} : PhaseOf(j)' = PhaseOf(j)
    BY Zenon, <1>3, <1>a, <1>e DEF MintGrant, TypeOK
  <2>2. session'[i] = session[i] /\ grant'[i].status = "issued" /\ grant[i].status = "none"
    BY Zenon, <1>3, <1>a DEF MintGrant, TypeOK
  <2>3. EngOf(i) \in LiveEngagements
    BY Zenon, <1>3, EngOfType DEF MintGrant, AuthorityActive, EngOf, LiveEngagements
  <2>4. PhaseOf(i) = "idle" /\ PhaseOf(i)' = "granted"
    BY <2>2, <1>d DEF Phase, Shape, SessionRow
  <2>5. UNCHANGED <<global, engagement>>
    BY Zenon, <1>3 DEF MintGrant
  <2>6. Authority!Move(i, {"idle"}, "granted")
    BY Zenon, <2>1, <2>3, <2>4, <2>5, Advances
  <2> QED  BY Zenon, <2>6 DEF Goal, Authority!Next, Authority!Grant
<1>4. ASSUME NEW i \in Intents, ConsumeGrant(i)
      PROVE  Goal
  <2>1. \A j \in Intents \ {i} : PhaseOf(j)' = PhaseOf(j)
    BY Zenon, <1>4, <1>a, <1>e DEF ConsumeGrant, TypeOK
  <2>2. session'[i] = session[i] /\ grant'[i].status = "used" /\ grant[i].status = "issued"
    BY Zenon, <1>4, <1>a, <1>d DEF ConsumeGrant, GrantSpendable, TypeOK, GrantRow
  <2>3. EngOf(i) \in LiveEngagements
    BY ZenonT(60), <2>2, <1>c, BackedIsLive DEF Unspent
  <2>4. PhaseOf(i) \in {"granted", "reserved", "refunded"} /\ PhaseOf(i)' = "spent"
    BY <2>2, <1>d DEF Phase, Shape, SessionRow
  <2>5. UNCHANGED <<global, engagement>>
    BY Zenon, <1>4 DEF ConsumeGrant
  <2>6. Authority!Move(i, {"granted", "reserved", "refunded"}, "spent")
    BY Zenon, <2>1, <2>3, <2>4, <2>5, Advances
  <2> QED  BY Zenon, <2>6 DEF Goal, Authority!Next, Authority!Spend
<1>5. ASSUME NEW i \in Intents, NEW d \in destination[i], PrepareSession(i, d)
      PROVE  Goal
  <2>1. \A j \in Intents \ {i} : PhaseOf(j)' = PhaseOf(j)
    BY ZenonT(60), <1>5, <1>a, <1>e DEF PrepareSession, TypeOK
  <2>2. /\ session'[i].status = "prepared" /\ session'[i].start = "none"
        /\ ~session'[i].result
    BY Zenon, <1>5, <1>a DEF PrepareSession, TypeOK
  <2>3. grant' = grant /\ grant[i].status = "issued" /\ session[i].reservation = "none"
    BY Zenon, <1>5 DEF PrepareSession, GrantSpendable
  <2>4. EngOf(i) \in LiveEngagements
    BY ZenonT(60), <2>3, <1>c, BackedIsLive DEF Unspent
  <2>5. PhaseOf(i) = "granted" /\ PhaseOf(i)' = "reserved"
    BY <2>2, <2>3, <1>d DEF Phase, Shape, SessionRow
  <2>6. UNCHANGED <<global, engagement>>
    BY Zenon, <1>5 DEF PrepareSession
  <2>7. Authority!Move(i, {"granted"}, "reserved")
    BY Zenon, <2>1, <2>4, <2>5, <2>6, Advances
  <2> QED  BY Zenon, <2>7 DEF Goal, Authority!Next, Authority!Reserve
<1>6. ASSUME NEW i \in Intents, CommitStart(i)
      PROVE  Goal
  <2>1. \A j \in Intents \ {i} : PhaseOf(j)' = PhaseOf(j)
    BY ZenonT(60), <1>6, <1>a, <1>e DEF CommitStart, TypeOK
  <2>2. session'[i].start = "committed" /\ session'[i].result = session[i].result
    BY Zenon, <1>6, <1>a DEF CommitStart, TypeOK
  <2>3. /\ session[i].status = "prepared" /\ session[i].start = "none"
        /\ grant[i].status = "issued"
    BY Zenon, <1>6 DEF CommitStart, GrantSpendable
  <2>4. EngOf(i) \in LiveEngagements
    BY ZenonT(60), <2>3, <1>c, BackedIsLive DEF Unspent
  <2>5. PhaseOf(i) = "reserved" /\ PhaseOf(i)' = "started"
    BY <2>2, <2>3, <1>d DEF Phase, Shape, SessionRow
  <2>6. UNCHANGED <<global, engagement>>
    BY Zenon, <1>6 DEF CommitStart
  <2>7. Authority!Move(i, {"reserved"}, "started")
    BY Zenon, <2>1, <2>4, <2>5, <2>6, Advances
  <2> QED  BY Zenon, <2>7 DEF Goal, Authority!Next, Authority!Start
<1>7. ASSUME NEW i \in Intents, ClaimExecution(i)
      PROVE  Goal
  <2>1. \A j \in Intents \ {i} : PhaseOf(j)' = PhaseOf(j)
    BY Zenon, <1>7, <1>a, <1>e DEF ClaimExecution, TypeOK
  <2>0. session[i] \in SessionRow
    BY Zenon, <1>d
  <2>2. /\ session'[i].start = session[i].start /\ session'[i].result = session[i].result
        /\ session'[i].status = session[i].status /\ grant' = grant
    BY ZenonT(60), <2>0, <1>7, <1>a DEF ClaimExecution, TypeOK, SessionRow
  <2>3. PhaseOf(i)' = PhaseOf(i)
    BY Zenon, <2>2, <1>d DEF Phase
  <2>4. UNCHANGED <<global, engagement>>
    BY Zenon, <1>7 DEF ClaimExecution
  <2>5. LiveEngagements \subseteq LiveEngagements'
    BY <2>4, <1>f
  <2> QED  BY Zenon, <2>1, <2>3, <2>5, Idles DEF Goal
<1>8. ASSUME NEW i \in Intents, FinalizeRequest(i)
      PROVE  Goal
  <2>1. \A j \in Intents \ {i} : PhaseOf(j)' = PhaseOf(j)
    BY ZenonT(60), <1>8, <1>a, <1>e DEF FinalizeRequest, TypeOK
  <2>2. session'[i].result = TRUE
    BY Zenon, <1>8, <1>a DEF FinalizeRequest, TypeOK
  <2>3. session[i].status = "prepared" /\ session[i].start = "committed" /\ ~session[i].result
    BY Zenon, <1>8 DEF FinalizeRequest
  <2>4. EngOf(i) \in LiveEngagements
    BY Zenon, <2>3, <1>c, BackedIsLive DEF Unspent
  <2>5. PhaseOf(i) = "started" /\ PhaseOf(i)' = "finished"
    BY Zenon, <2>2, <2>3, <1>d DEF Phase
  <2>6. UNCHANGED <<global, engagement>>
    BY Zenon, <1>8 DEF FinalizeRequest
  <2>7. Authority!Move(i, {"started"}, "finished")
    BY Zenon, <2>1, <2>4, <2>5, <2>6, Advances
  <2> QED  BY Zenon, <2>7 DEF Goal, Authority!Next, Authority!Finish
<1>9. ASSUME NEW i \in Intents, AbortSession(i)
      PROVE  Goal
  <2>1. \A j \in Intents \ {i} : PhaseOf(j)' = PhaseOf(j)
    BY Zenon, <1>9, <1>a, <1>e DEF AbortSession, TypeOK
  <2>2. session'[i] = AbortedRow(session[i]) /\ grant' = grant
    BY Zenon, <1>9, <1>a DEF AbortSession, TypeOK
  <2>3. session[i].status = "prepared" /\ session[i].start = "none"
    BY ZenonT(60), <1>9 DEF AbortSession
  <2>4. /\ session'[i].status = "aborted" /\ session'[i].start = "none"
        /\ session'[i].result = session[i].result
    BY <2>2, <2>3 DEF AbortedRow
  <2>5. UNCHANGED <<global, engagement>>
    BY Zenon, <1>9 DEF AbortSession
  <2>6. CASE grant[i].status = "issued"
    <3>1. EngOf(i) \in LiveEngagements
      BY ZenonT(60), <2>6, <1>c, BackedIsLive DEF Unspent
    <3>2. PhaseOf(i) = "reserved" /\ PhaseOf(i)' = "refunded"
      BY <2>2, <2>3, <2>4, <2>6, <1>d DEF Phase, Shape, SessionRow
    <3>3. Authority!Move(i, {"reserved"}, "refunded")
      BY ZenonT(60), <2>1, <2>5, <3>1, <3>2, Advances
    <3> QED  BY Zenon, <3>3 DEF Goal, Authority!Next, Authority!Refund
  <2>7. CASE grant[i].status # "issued"
    <3>1. PhaseOf(i)' = PhaseOf(i)
      BY <2>2, <2>3, <2>4, <2>7, <1>d DEF Phase, GrantRow
    <3>2. LiveEngagements \subseteq LiveEngagements'
      BY <2>5, <1>f
    <3> QED  BY Zenon, <2>1, <3>1, <3>2, Idles DEF Goal
  <2> QED  BY Zenon, <2>6, <2>7
<1>10. ASSUME NEW e \in Engagements, NEW row, AbortGatewaySessions({e}),
              \/ RevokeUnusedGrants({e})
              \/ UNCHANGED grant /\ \A j \in Intents : EngOf(j) = e => grant[j].status # "issued",
              engagement' = [engagement EXCEPT ![e] = row], UNCHANGED global
       PROVE  Goal
  <2> DEFINE L == IF global = "active" /\ row.status = "active" THEN {e} ELSE {}
  <2>1. \A f \in Engagements : engagement'[f] = IF f = e THEN row ELSE engagement[f]
    BY ZenonT(60), <1>10, <1>a DEF TypeOK
  <2>2. LiveEngagements' = (LiveEngagements \ {e}) \cup L
    BY <1>10, <2>1 DEF LiveEngagements
  <2>3. {e} \in SUBSET Engagements /\ L \in SUBSET {e}
    BY <1>10
  <2>4. \/ RevokeUnusedGrants({e})
        \/ UNCHANGED grant /\ \A j \in Intents : EngOf(j) \in {e} => grant[j].status # "issued"
    BY Zenon, <1>10
  <2> HIDE DEF L
  <2> QED  BY ZenonT(60), <1>10, <1>a, <1>b, <2>2, <2>3, <2>4, Resets DEF Goal
<1>11. ASSUME NEW p \in Policies, ActivatePolicy(p)
       PROVE  Goal
  <2> DEFINE e == EngagementOf[p]
  <2>1. e \in Engagements
    BY ConstantsAssumption
  <2>2. \E row : engagement' = [engagement EXCEPT ![e] = row]
    BY Zenon, <1>11 DEF ActivatePolicy
  <2>3. ASSUME Replaced(p) = {}, NEW j \in Intents, EngOf(j) = e, grant[j].status = "issued"
        PROVE  FALSE
    <3>1. /\ bundle[PolicyOf[j]].activated /\ ~bundle[PolicyOf[j]].revoked
          /\ PolicyOf[j] \in Policies
      BY Zenon, <2>3, <1>c, EngOfType DEF Unspent, Backed, AuthorityActive
    <3>2. ~bundle[p].activated
      BY Zenon, <1>11 DEF ActivatePolicy
    <3>3. PolicyOf[j] \in Replaced(p)
      BY Zenon, <2>3, <3>1, <3>2 DEF Replaced, EngOf
    <3> QED  BY Zenon, <2>3, <3>3
  <2>4. \/ RevokeUnusedGrants({e})
        \/ UNCHANGED grant /\ \A j \in Intents : EngOf(j) = e => grant[j].status # "issued"
    BY Zenon, <1>11, <2>3 DEF ActivatePolicy
  <2>5. AbortGatewaySessions({e}) /\ UNCHANGED global
    BY Zenon, <1>11 DEF ActivatePolicy
  <2> HIDE DEF e
  <2> QED  BY ZenonT(60), <1>10, <2>1, <2>2, <2>4, <2>5
<1>12. ASSUME NEW p \in Policies, RevokePolicy(p)
       PROVE  Goal
  <2>1. EngagementOf[p] \in Engagements
    BY ConstantsAssumption
  <2>2. \E row : engagement' = [engagement EXCEPT ![EngagementOf[p]] = row]
    BY Zenon, <1>12 DEF RevokePolicy
  <2>3. /\ AbortGatewaySessions({EngagementOf[p]}) /\ RevokeUnusedGrants({EngagementOf[p]})
        /\ UNCHANGED global
    BY Zenon, <1>12 DEF RevokePolicy
  <2> QED  BY Zenon, <1>10, <2>1, <2>2, <2>3
<1>13. ASSUME NEW e \in Engagements, PauseAssessment(e)
       PROVE  Goal
  <2>1. \E row : engagement' = [engagement EXCEPT ![e] = row]
    BY Zenon, <1>13 DEF PauseAssessment
  <2>2. AbortGatewaySessions({e}) /\ RevokeUnusedGrants({e}) /\ UNCHANGED global
    BY Zenon, <1>13 DEF PauseAssessment
  <2> QED  BY Zenon, <1>10, <2>1, <2>2
<1>14. ASSUME HaltEverything, global' # "active"
       PROVE  Goal
  <2>1. AbortGatewaySessions(Engagements) /\ RevokeUnusedGrants(Engagements)
    BY Zenon, <1>14 DEF HaltEverything
  <2>2. LiveEngagements' = (LiveEngagements \ Engagements) \cup {}
    BY <1>14 DEF LiveEngagements
  <2>3. Engagements \in SUBSET Engagements /\ {} \in SUBSET Engagements
    OBVIOUS
  <2> QED  BY Zenon, <1>a, <1>b, <2>1, <2>2, <2>3, Resets DEF Goal
<1>15. ASSUME ResumeGlobal \/ \E e \in Engagements : ResumeAssessment(e)
       PROVE  Goal
  <2>1. UNCHANGED <<grant, session>>
    BY Zenon, <1>15 DEF ResumeGlobal, ResumeAssessment
  <2>2. ASSUME NEW f \in LiveEngagements PROVE f \in LiveEngagements'
    <3>1. f \in Engagements /\ engagement[f].status = "active" /\ global = "active"
      BY Zenon, <2>2 DEF LiveEngagements
    <3>2. engagement[f] \in EngagementRow
      BY Zenon, <1>a, <3>1 DEF TypeOK
    <3>3. \/ engagement' = engagement
          \/ \E e \in Engagements : engagement' = [engagement EXCEPT ![e].status = "active"]
      BY Zenon, <1>15 DEF ResumeGlobal, ResumeAssessment
    <3>4. engagement'[f].status = "active"
      BY <1>a, <3>1, <3>2, <3>3 DEF TypeOK, EngagementRow
    <3>5. global' = "active"
      BY Zenon, <1>15, <3>1 DEF ResumeGlobal, ResumeAssessment
    <3> QED  BY Zenon, <3>1, <3>4, <3>5 DEF LiveEngagements
  <2> QED  BY Zenon, <1>1, <2>1, <2>2
<1>16. CASE PolicyStep
  BY Zenon, <1>2, <1>11, <1>12, <1>16 DEF PolicyStep, LapseApproval, ApprovePolicy
<1>17. CASE IntentStep
  <2>1. ASSUME NEW i \in Intents,
               \/ LapseIntent(i) \/ EvaluateRead(i) \/ EvaluateWrite(i)
               \/ \E h \in Hosts : AuthorizeDestination(i, h)
        PROVE  Goal
    BY Zenon, <1>2, <2>1 DEF LapseIntent, EvaluateRead, EvaluateWrite, AuthorizeDestination
  <2> QED  BY ZenonT(60), <1>3, <1>4, <1>5, <1>6, <1>7, <1>8, <1>9, <1>17, <2>1 DEF IntentStep
<1>18. CASE EngagementStep
  <2>1. ASSUME NEW e \in Engagements,
               ExpireEngagement(e) \/ LapseAttestation(e) \/ RecordAttestation(e)
        PROVE  Goal
    BY Zenon, <1>2, <2>1 DEF ExpireEngagement, LapseAttestation, RecordAttestation
  <2> QED  BY Zenon, <1>13, <1>15, <1>18, <2>1 DEF EngagementStep
<1>19. CASE SafetyStep
  BY Zenon, <1>2, <1>14, <1>15, <1>19 DEF SafetyStep, TripLatch, HaltGlobal, Restart
<1>20. CASE UNCHANGED vars
  BY Zenon, <1>2, <1>20 DEF vars
<1> QED  BY Zenon, <1>16, <1>17, <1>18, <1>19, <1>20 DEF Next

\* Initially nothing is live and every intent is idle.
LEMMA RefinementInit == Init => Authority!Init
<1> SUFFICES ASSUME Init PROVE Authority!Init
  OBVIOUS
<1>1. LiveEngagements = {}
  BY DEF Init, LiveEngagements
<1>2. ASSUME NEW i \in Intents PROVE PhaseOf(i) = "idle"
  BY DEF Init, PhaseOf, NoSession
<1> QED  BY ZenonT(60), <1>1, <1>2 DEF Authority!Init

\* Every behaviour of the control plane is one of RequestAuthority, for any
\* number of engagements, bundles, intents and hosts.
THEOREM Refines == Spec => ImplementsRequestAuthority
<1>1. IInv /\ [Next]_vars => [Authority!Next]_(Authority!vars)
  BY Zenon, RefinementStep
<1> QED  BY Inductive, RefinementInit, <1>1, PTL DEF Spec, ImplementsRequestAuthority,
             Authority!Spec
=============================================================================
