----------------------- MODULE GatewayAuthorityLemmas -----------------------
(* What every step of GatewayAuthority keeps of the rows: the tables keep  *)
(* their types, an engagement has one live bundle, the rows of an intent   *)
(* have one of few shapes; authority exists only under the active bundle,  *)
(* and a step touches the rows of one engagement, or stops the process.    *)
EXTENDS GatewayAuthority, FiniteSetTheorems, TLAPS

\* Every leaf is tried with SMT and then with Zenon, with time to spare on a
\* slow machine.
USE SMTT(20), ZenonT(30)

-----------------------------------------------------------------------------
(* The tables: their types, the live bundle and the shapes of rows.        *)

\* The sets the counters stand for are finite, so their sizes are numbers.
LEMMA FiniteRows ==
    ASSUME NEW e, NEW status
    PROVE  /\ Cardinality(Pending(e)) \in Nat
           /\ Cardinality(Started(e)) \in Nat
           /\ IsFiniteSet(Pending(e))
           /\ IsFiniteSet(Started(e))
           /\ IsFiniteSet(InReservation(e, status))
           /\ IsFiniteSet(PreparedSessions(e))
<1>1. /\ Pending(e) \subseteq Intents
      /\ Started(e) \subseteq Intents
      /\ InReservation(e, status) \subseteq Intents
      /\ PreparedSessions(e) \subseteq Intents
  BY Zenon DEF Pending, Started, InReservation, PreparedSessions
<1> QED  BY Zenon, <1>1, ConstantsAssumption, FS_Subset, FS_CardinalityType

\* Startup begins in a state of the declared type.
LEMMA InitType == Init => TypeOK
<1> SUFFICES ASSUME Init PROVE TypeOK
  OBVIOUS
<1>1. engagement \in [Engagements -> EngagementRow] /\ bundle \in [Policies -> BundleRow]
  BY Zenon DEF Init, EngagementRow, BundleRow
<1>2. attestation \in [Engagements -> AttestationRow] /\ grant \in [Intents -> GrantRow]
  BY Zenon DEF Init, AttestationRow, GrantRow
<1>3. session \in [Intents -> SessionRow]
  BY Zenon DEF Init, SessionRow, NoSession
<1>4. account \in [Engagements -> AccountRow]
  BY Zenon DEF Init, AccountRow
<1>5. bucket \in [Engagements -> [BucketKeys -> Policies \cup {NoPolicy}]]
  BY Zenon DEF Init
<1>6. destination \in [Intents -> SUBSET (Hosts \X Nat)]
  BY Zenon DEF Init
<1>7. /\ global \in {"active", "paused", "stopped"} /\ latched \in BOOLEAN
      /\ expired \in SUBSET Engagements /\ lapsed \in SUBSET Intents
      /\ decision \in [Intents -> {"none", "read", "allowed"}]
  BY Zenon DEF Init
<1> QED  BY Zenon, <1>1, <1>2, <1>3, <1>4, <1>5, <1>6, <1>7 DEF TypeOK

\* The bundle and the engagement of an intent exist.
LEMMA EngOfType == \A i \in Intents : PolicyOf[i] \in Policies /\ EngOf(i) \in Engagements
BY Zenon, ConstantsAssumption DEF EngOf

\* A spent grant is still a grant.
LEMMA SpentGrantType == \A g \in GrantRow : [g EXCEPT !.status = "used"] \in GrantRow
BY Zenon DEF GrantRow

\* Aborting a session row leaves a session row.
LEMMA AbortedRowType == \A s \in SessionRow : AbortedRow(s) \in SessionRow
BY DEF SessionRow, AbortedRow

\* Aborting sessions keeps the session rows and the counters in their types.
LEMMA AbortType ==
    ASSUME TypeOK, NEW E \in SUBSET Engagements, AbortGatewaySessions(E)
    PROVE  /\ session' \in [Intents -> SessionRow]
           /\ account' \in [Engagements -> AccountRow]
<1>1. session' \in [Intents -> SessionRow]
  BY Zenon, AbortedRowType DEF AbortGatewaySessions, TypeOK
<1>2. ASSUME NEW e \in Engagements
      PROVE  account'[e] \in AccountRow
  <2>1. CASE e \notin E
    BY Zenon, <2>1 DEF AbortGatewaySessions, TypeOK
  <2>2. CASE e \in E
    <3> DEFINE P == Cardinality(Pending(e))
               S == Cardinality(Started(e))
    <3>1. P \in Nat /\ S \in Nat
      BY Zenon, FiniteRows
    <3>2. P <= account[e].reserved /\ P + S <= account[e].active
      BY Zenon, <2>2 DEF AbortGatewaySessions, AbortPossible
    <3>3. account[e] \in AccountRow
      BY Zenon DEF TypeOK
    <3>4. account'[e] = Adjusted(account[e], -P, 0, -(P + S))
      BY Zenon, <2>2 DEF AbortGatewaySessions
    <3> HIDE DEF P, S
    <3> QED  BY <3>1, <3>2, <3>3, <3>4 DEF AccountRow, Adjusted
  <2> QED  BY Zenon, <2>1, <2>2
<1>3. account' \in [Engagements -> AccountRow]
  <2>1. account' = [e \in Engagements |-> account'[e]]
    BY Zenon DEF AbortGatewaySessions
  <2> QED  BY Zenon, <1>2, <2>1
<1> QED  BY Zenon, <1>1, <1>3

\* Revoking unused grants leaves grant rows.
LEMMA RevokeType ==
    ASSUME TypeOK, NEW E \in SUBSET Engagements, RevokeUnusedGrants(E)
    PROVE  grant' \in [Intents -> GrantRow]
BY DEF TypeOK, RevokeUnusedGrants, GrantRow

\* Invalidating attestations leaves attestation rows.
LEMMA InvalidateType ==
    ASSUME TypeOK, NEW E \in SUBSET Engagements, InvalidateAttestations(E)
    PROVE  attestation' \in [Engagements -> AttestationRow]
BY Zenon DEF TypeOK, InvalidateAttestations, AttestationRow

\* Setting one flag of a bundle leaves a bundle row.
LEMMA FlagType ==
    \A b \in BundleRow : /\ [b EXCEPT !.approved = TRUE] \in BundleRow
                         /\ [b EXCEPT !.approved = FALSE] \in BundleRow
                         /\ [b EXCEPT !.activated = TRUE] \in BundleRow
                         /\ [b EXCEPT !.revoked = TRUE] \in BundleRow
BY Zenon DEF BundleRow

\* Every step keeps the declared types; in particular no counter goes negative.
LEMMA TypeStep == TypeOK /\ [Next]_vars => TypeOK'
<1> SUFFICES ASSUME TypeOK, [Next]_vars PROVE TypeOK'
  OBVIOUS
<1> USE EngOfType
<1>1. ASSUME NEW p \in Policies, LapseApproval(p) \/ ApprovePolicy(p)
      PROVE  TypeOK'
  <2>1. bundle' \in [Policies -> BundleRow]
    <3>1. bundle[p] \in BundleRow
      BY Zenon DEF TypeOK
    <3>2. \/ bundle' = [bundle EXCEPT ![p] = [bundle[p] EXCEPT !.approved = FALSE]]
          \/ bundle' = [bundle EXCEPT ![p] = [bundle[p] EXCEPT !.approved = TRUE]]
      BY Zenon, <1>1 DEF LapseApproval, ApprovePolicy
    <3> QED  BY Zenon, <3>1, <3>2, FlagType DEF TypeOK
  <2> QED  BY Zenon, <1>1, <2>1 DEF LapseApproval, ApprovePolicy, TypeOK
<1>2. ASSUME NEW p \in Policies, ActivatePolicy(p)
      PROVE  TypeOK'
  <2> DEFINE e == EngagementOf[p]
  <2>1. e \in Engagements
    BY Zenon, ConstantsAssumption
  <2>2. bundle' \in [Policies -> BundleRow]
    <3>1. \A q \in Policies : bundle[q] \in BundleRow
      BY Zenon DEF TypeOK
    <3>2. bundle' = [q \in Policies |->
                       IF q = p THEN [bundle[q] EXCEPT !.activated = TRUE]
                       ELSE IF q \in Replaced(p) THEN [bundle[q] EXCEPT !.revoked = TRUE]
                       ELSE bundle[q]]
      BY Zenon, <1>2 DEF ActivatePolicy
    <3> QED  BY Zenon, <3>1, <3>2, FlagType
  <2>3. engagement' \in [Engagements -> EngagementRow]
    <3>1. engagement[e] \in EngagementRow /\ engagement[e].epoch + 1 \in Nat
      BY <2>1 DEF TypeOK, EngagementRow
    <3>2. PICK n \in Nat : engagement' = [engagement EXCEPT ![e] =
                              [status |-> "active", policy |-> p, epoch |-> n]]
      BY Zenon, <1>2, <3>1 DEF ActivatePolicy, EngagementRow
    <3> QED  BY Zenon, <2>1, <3>2 DEF TypeOK, EngagementRow
  <2>4. grant' \in [Intents -> GrantRow]
    BY <1>2, <2>1, RevokeType DEF ActivatePolicy, TypeOK
  <2>5. attestation' \in [Engagements -> AttestationRow]
    BY Zenon, <1>2, <2>1, InvalidateType DEF ActivatePolicy
  <2>6. session' \in [Intents -> SessionRow] /\ account' \in [Engagements -> AccountRow]
    BY Zenon, <1>2, <2>1, AbortType DEF ActivatePolicy
  <2> QED  BY Zenon, <1>2, <2>2, <2>3, <2>4, <2>5, <2>6 DEF ActivatePolicy, TypeOK
<1>3. ASSUME NEW p \in Policies, RevokePolicy(p)
      PROVE  TypeOK'
  <2> DEFINE e == EngagementOf[p]
  <2>1. e \in Engagements
    BY Zenon, ConstantsAssumption
  <2>2. bundle' \in [Policies -> BundleRow]
    BY Zenon, <1>3, FlagType DEF RevokePolicy, TypeOK
  <2>3. engagement' \in [Engagements -> EngagementRow]
    BY <1>3, <2>1 DEF RevokePolicy, TypeOK, EngagementRow
  <2>4. grant' \in [Intents -> GrantRow]
    BY Zenon, <1>3, <2>1, RevokeType DEF RevokePolicy
  <2>5. attestation' \in [Engagements -> AttestationRow]
    BY Zenon, <1>3, <2>1, InvalidateType DEF RevokePolicy
  <2>6. session' \in [Intents -> SessionRow] /\ account' \in [Engagements -> AccountRow]
    BY Zenon, <1>3, <2>1, AbortType DEF RevokePolicy
  <2> QED  BY <1>3, <2>2, <2>3, <2>4, <2>5, <2>6 DEF RevokePolicy, TypeOK
<1>4. ASSUME NEW i \in Intents, LapseIntent(i) \/ EvaluateRead(i) \/ EvaluateWrite(i)
      PROVE  TypeOK'
  BY Zenon, <1>4 DEF LapseIntent, EvaluateRead, EvaluateWrite, TypeOK
<1>5. ASSUME NEW i \in Intents, NEW audience \in {"broker", "gateway"}, MintGrant(i, audience)
      PROVE  TypeOK'
  <2>1. engagement[EngOf(i)].epoch \in Nat
    BY Zenon DEF TypeOK, EngagementRow
  <2> QED  BY Zenon, <1>5, <2>1 DEF MintGrant, TypeOK, GrantRow
<1>6. ASSUME NEW i \in Intents, ConsumeGrant(i)
      PROVE  TypeOK'
  <2>1. grant' \in [Intents -> GrantRow]
    BY Zenon, <1>6, SpentGrantType DEF ConsumeGrant, TypeOK
  <2> QED  BY Zenon, <1>6, <2>1 DEF ConsumeGrant, TypeOK
<1>7. ASSUME NEW i \in Intents, NEW h \in Hosts, AuthorizeDestination(i, h)
      PROVE  TypeOK'
  <2>1. attestation[EngOf(i)].valid \in Nat
    BY Zenon DEF TypeOK, AttestationRow
  <2>2. destination' \in [Intents -> SUBSET (Hosts \X Nat)]
    BY <1>7, <2>1 DEF AuthorizeDestination, TypeOK
  <2> QED  BY Zenon, <1>7, <2>2 DEF AuthorizeDestination, TypeOK
<1>8. ASSUME NEW i \in Intents, NEW d \in destination[i], PrepareSession(i, d)
      PROVE  TypeOK'
  <2> DEFINE e == EngOf(i)
             p == PolicyOf[i]
  <2>1. d[1] \in Hosts /\ d[2] \in Nat
    BY DEF TypeOK
  <2>2. p \in Policies /\ e \in Engagements
    OBVIOUS
  <2>3. account' \in [Engagements -> AccountRow]
    <3>1. RequestLimit[p] \in Nat /\ ConnectionLimit[p] \in Nat
      BY Zenon, <2>2, ConstantsAssumption
    <3>2. account[e] \in AccountRow
      BY Zenon, <2>2 DEF TypeOK
    <3>3. [requests |-> RequestLimit[p], connections |-> ConnectionLimit[p],
           reserved |-> account[e].reserved + 1, committed |-> account[e].committed,
           active |-> account[e].active + 1] \in AccountRow
      BY <3>1, <3>2 DEF AccountRow
    <3> QED  BY Zenon, <1>8, <2>2, <3>3 DEF PrepareSession, TypeOK
  <2>4. session' \in [Intents -> SessionRow]
    BY Zenon, <1>8, <2>1 DEF PrepareSession, TypeOK, SessionRow
  <2>5. bucket' \in [Engagements -> [BucketKeys -> Policies \cup {NoPolicy}]]
    BY <1>8, <2>2 DEF PrepareSession, TypeOK
  <2> QED  BY Zenon, <1>8, <2>3, <2>4, <2>5 DEF PrepareSession, TypeOK
<1>9. ASSUME NEW i \in Intents, CommitStart(i)
      PROVE  TypeOK'
  <2>1. grant' \in [Intents -> GrantRow]
    BY Zenon, <1>9, SpentGrantType DEF CommitStart, TypeOK
  <2>2. session' \in [Intents -> SessionRow]
    <3>1. session[i] \in SessionRow
      BY Zenon DEF TypeOK
    <3>2. [host |-> session[i].host, att |-> session[i].att, reservation |-> "committed",
           rate |-> "committed", status |-> session[i].status, start |-> "committed",
           claim |-> session[i].claim, result |-> session[i].result] \in SessionRow
      BY Zenon, <3>1 DEF SessionRow
    <3> QED  BY Zenon, <1>9, <3>2 DEF CommitStart, TypeOK
  <2>3. account' \in [Engagements -> AccountRow]
    <3>1. account[EngOf(i)] \in AccountRow /\ account[EngOf(i)].reserved >= 1
      BY Zenon, <1>9 DEF CommitStart, TypeOK
    <3>2. Adjusted(account[EngOf(i)], -1, 1, 0) \in AccountRow
      BY <3>1 DEF AccountRow, Adjusted
    <3> QED  BY Zenon, <1>9, <3>2 DEF CommitStart, TypeOK
  <2> QED  BY Zenon, <1>9, <2>1, <2>2, <2>3 DEF CommitStart, TypeOK
<1>10. ASSUME NEW i \in Intents, ClaimExecution(i)
       PROVE  TypeOK'
  <2>1. session' \in [Intents -> SessionRow]
    <3>1. \A r \in SessionRow : [r EXCEPT !.claim = "claimed"] \in SessionRow
      BY DEF SessionRow
    <3>2. session[i] \in SessionRow
      BY Zenon DEF TypeOK
    <3>3. session' = [session EXCEPT ![i] = [session[i] EXCEPT !.claim = "claimed"]]
      BY Zenon, <1>10 DEF ClaimExecution
    <3> QED  BY Zenon, <3>1, <3>2, <3>3 DEF TypeOK
  <2> QED  BY Zenon, <1>10, <2>1 DEF ClaimExecution, TypeOK
<1>11. ASSUME NEW i \in Intents, FinalizeRequest(i)
       PROVE  TypeOK'
  <2>1. session' \in [Intents -> SessionRow]
    <3>1. session[i] \in SessionRow
      BY Zenon DEF TypeOK
    <3>2. [host |-> session[i].host, att |-> session[i].att,
           reservation |-> session[i].reservation, rate |-> session[i].rate,
           status |-> "closed", start |-> session[i].start,
           claim |-> IF session[i].claim = "claimed" THEN "completed" ELSE session[i].claim,
           result |-> TRUE] \in SessionRow
      BY <3>1 DEF SessionRow
    <3> QED  BY Zenon, <1>11, <3>2 DEF FinalizeRequest, TypeOK
  <2>2. account' \in [Engagements -> AccountRow]
    <3>1. account[EngOf(i)] \in AccountRow /\ account[EngOf(i)].active >= 1
      BY Zenon, <1>11 DEF FinalizeRequest, TypeOK
    <3>2. Adjusted(account[EngOf(i)], 0, 0, -1) \in AccountRow
      BY <3>1 DEF AccountRow, Adjusted
    <3> QED  BY Zenon, <1>11, <3>2 DEF FinalizeRequest, TypeOK
  <2> QED  BY Zenon, <1>11, <2>1, <2>2 DEF FinalizeRequest, TypeOK
<1>12. ASSUME NEW i \in Intents, AbortSession(i)
       PROVE  TypeOK'
  <2>1. session' \in [Intents -> SessionRow]
    BY Zenon, <1>12, AbortedRowType DEF AbortSession, TypeOK
  <2>2. account' \in [Engagements -> AccountRow]
    <3>1. /\ account[EngOf(i)] \in AccountRow
          /\ account[EngOf(i)].reserved >= 1 /\ account[EngOf(i)].active >= 1
      BY Zenon, <1>12 DEF AbortSession, TypeOK
    <3>2. Adjusted(account[EngOf(i)], -1, 0, -1) \in AccountRow
      BY <3>1 DEF AccountRow, Adjusted
    <3> QED  BY Zenon, <1>12, <3>2 DEF AbortSession, TypeOK
  <2> QED  BY Zenon, <1>12, <2>1, <2>2 DEF AbortSession, TypeOK
<1>13. ASSUME NEW e \in Engagements, ExpireEngagement(e) \/ LapseAttestation(e)
       PROVE  TypeOK'
  <2>1. attestation' \in [Engagements -> AttestationRow]
    <3>1. \A a \in AttestationRow : [a EXCEPT !.fresh = FALSE] \in AttestationRow
      BY Zenon DEF AttestationRow
    <3>2. attestation[e] \in AttestationRow
      BY Zenon DEF TypeOK
    <3>3. \/ UNCHANGED attestation
          \/ attestation' = [attestation EXCEPT ![e] = [attestation[e] EXCEPT !.fresh = FALSE]]
      BY Zenon, <1>13 DEF ExpireEngagement, LapseAttestation
    <3> QED  BY Zenon, <3>1, <3>2, <3>3 DEF TypeOK
  <2>2. lapsed' \in SUBSET Intents
    BY Zenon, <1>13 DEF ExpireEngagement, LapseAttestation, TypeOK, Started
  <2> QED  BY Zenon, <1>13, <2>1, <2>2 DEF ExpireEngagement, LapseAttestation, TypeOK
<1>14. ASSUME NEW e \in Engagements, RecordAttestation(e)
       PROVE  TypeOK'
  <2>1. attestation[e].issued \in Nat
    BY Zenon DEF TypeOK, AttestationRow
  <2>2. [issued |-> attestation[e].issued + 1, valid |-> attestation[e].issued + 1,
         fresh |-> TRUE] \in AttestationRow
    BY <2>1 DEF AttestationRow
  <2>3. attestation' \in [Engagements -> AttestationRow]
    BY Zenon, <1>14, <2>2 DEF RecordAttestation, TypeOK
  <2> QED  BY Zenon, <1>14, <2>3 DEF RecordAttestation, TypeOK
<1>15. ASSUME NEW e \in Engagements, PauseAssessment(e)
       PROVE  TypeOK'
  <2>1. engagement' \in [Engagements -> EngagementRow]
    BY <1>15 DEF PauseAssessment, TypeOK, EngagementRow
  <2>2. grant' \in [Intents -> GrantRow] /\ attestation' \in [Engagements -> AttestationRow]
    BY Zenon, <1>15, RevokeType, InvalidateType DEF PauseAssessment
  <2>3. session' \in [Intents -> SessionRow] /\ account' \in [Engagements -> AccountRow]
    BY Zenon, <1>15, AbortType DEF PauseAssessment
  <2> QED  BY Zenon, <1>15, <2>1, <2>2, <2>3 DEF PauseAssessment, TypeOK
<1>16. ASSUME NEW e \in Engagements, ResumeAssessment(e)
       PROVE  TypeOK'
  <2>1. \A r \in EngagementRow : [r EXCEPT !.status = "active"] \in EngagementRow
    BY Zenon DEF EngagementRow
  <2>2. engagement[e] \in EngagementRow
    BY Zenon DEF TypeOK
  <2>3. engagement' = [engagement EXCEPT ![e] = [engagement[e] EXCEPT !.status = "active"]]
    BY Zenon, <1>16 DEF ResumeAssessment
  <2>4. engagement' \in [Engagements -> EngagementRow]
    BY Zenon, <2>1, <2>2, <2>3 DEF TypeOK
  <2> QED  BY Zenon, <1>16, <2>4 DEF ResumeAssessment, TypeOK
<1>17. CASE TripLatch \/ ResumeGlobal
  BY Zenon, <1>17 DEF TripLatch, ResumeGlobal, TypeOK
<1>18. ASSUME HaltEverything
       PROVE  /\ engagement' \in [Engagements -> EngagementRow]
              /\ grant' \in [Intents -> GrantRow]
              /\ attestation' \in [Engagements -> AttestationRow]
              /\ session' \in [Intents -> SessionRow]
              /\ account' \in [Engagements -> AccountRow]
  <2>1. engagement' \in [Engagements -> EngagementRow]
    BY <1>18 DEF HaltEverything, TypeOK, EngagementRow
  <2> QED  BY Zenon, <1>18, <2>1, RevokeType, InvalidateType, AbortType DEF HaltEverything
<1>19. ASSUME NEW status \in {"paused", "stopped"}, HaltGlobal(status)
       PROVE  TypeOK'
  BY Zenon, <1>18, <1>19 DEF HaltGlobal, HaltEverything, TypeOK
<1>20. CASE Restart
  BY Zenon, <1>18, <1>20 DEF Restart, HaltEverything, TypeOK
<1>21. CASE UNCHANGED vars
  BY Zenon, <1>21 DEF vars, TypeOK
<1> QED
  BY ZenonT(60), <1>1, <1>2, <1>3, <1>4, <1>5, <1>6, <1>7, <1>8, <1>9, <1>10, <1>11, <1>12,
     <1>13, <1>14, <1>15, <1>16, <1>17, <1>19, <1>20, <1>21
  DEF Next, PolicyStep, IntentStep, EngagementStep, SafetyStep

-----------------------------------------------------------------------------
(* Bundles and session rows.                                              *)

\* Steps that neither touch engagements nor activate or revoke a bundle.
SamePolicies ==
    /\ UNCHANGED engagement
    /\ \A p \in Policies : LivePolicy(p)' <=> LivePolicy(p)

\* An approval that is given or lapses leaves the live bundles as they are.
LEMMA ApprovalKeepsPolicies ==
    ASSUME TypeOK
    PROVE  \A p \in Policies : LapseApproval(p) \/ ApprovePolicy(p) => SamePolicies
<1>1. ASSUME NEW p \in Policies, LapseApproval(p) \/ ApprovePolicy(p)
      PROVE  SamePolicies
  <2>1. \E v \in BOOLEAN : bundle' = [bundle EXCEPT ![p].approved = v]
    BY Zenon, <1>1 DEF LapseApproval, ApprovePolicy
  <2>2. PICK v \in BOOLEAN : bundle' = [bundle EXCEPT ![p].approved = v]
    BY Zenon, <2>1
  <2>3. ASSUME NEW q \in Policies
        PROVE  LivePolicy(q)' <=> LivePolicy(q)
    <3>1. bundle'[q] = IF q = p THEN [bundle[q] EXCEPT !.approved = v] ELSE bundle[q]
      BY Zenon, <2>2 DEF TypeOK
    <3>2. /\ bundle'[q].activated <=> bundle[q].activated
          /\ bundle'[q].revoked <=> bundle[q].revoked
      BY <3>1 DEF TypeOK, BundleRow
    <3> QED  BY Zenon, <3>2 DEF LivePolicy
  <2> QED  BY Zenon, <1>1, <2>3 DEF LapseApproval, ApprovePolicy, SamePolicies
<1> QED  BY Zenon, <1>1

\* Only the policy and safety handlers touch engagements and live bundles.
LEMMA SamePoliciesSteps ==
    ASSUME TypeOK, Next
    PROVE  \/ SamePolicies
           \/ \E p \in Policies : ActivatePolicy(p) \/ RevokePolicy(p)
           \/ \E e \in Engagements : PauseAssessment(e) \/ ResumeAssessment(e)
           \/ HaltEverything
<1>1. ASSUME NEW p \in Policies, LapseApproval(p) \/ ApprovePolicy(p)
      PROVE  SamePolicies
  BY Zenon, <1>1, ApprovalKeepsPolicies
<1>2. CASE IntentStep
  <2>1. UNCHANGED <<engagement, bundle>>
    BY <1>2 DEF IntentStep, LapseIntent, EvaluateRead, EvaluateWrite, MintGrant,
        ConsumeGrant, AuthorizeDestination, PrepareSession, CommitStart,
        ClaimExecution, FinalizeRequest, AbortSession
  <2> QED  BY ZenonT(60), <2>1 DEF SamePolicies, LivePolicy
<1>3. CASE EngagementStep
  BY <1>3 DEF EngagementStep, ExpireEngagement, LapseAttestation, RecordAttestation,
      SamePolicies, LivePolicy
<1>4. CASE SafetyStep
  BY Zenon, <1>4 DEF SafetyStep, TripLatch, ResumeGlobal, HaltGlobal, Restart, SamePolicies,
      LivePolicy
<1> QED  BY Zenon, <1>1, <1>2, <1>3, <1>4 DEF Next, PolicyStep

\* Activation replaces, revocation clears, and nothing else moves the pointer
\* from an engagement to its bundle.
LEMMA OneActiveStep == TypeOK /\ OneActivePolicy /\ [Next]_vars => OneActivePolicy'
<1> SUFFICES ASSUME TypeOK, OneActivePolicy, [Next]_vars PROVE OneActivePolicy'
  OBVIOUS
<1>1. CASE SamePolicies
  <2>1. \A e \in Engagements : engagement[e].policy \in Policies \cup {NoPolicy}
    BY Zenon DEF TypeOK, EngagementRow
  <2>2. \A e \in Engagements : engagement'[e] = engagement[e]
    BY Zenon, <1>1 DEF SamePolicies
  <2> QED  BY Zenon, <1>1, <2>1, <2>2 DEF SamePolicies, OneActivePolicy
<1>2. ASSUME NEW p \in Policies, ActivatePolicy(p)
      PROVE  OneActivePolicy'
  <2> DEFINE e == EngagementOf[p]
  <2>1. e \in Engagements
    BY Zenon, ConstantsAssumption
  <2>2. /\ engagement'[e].status = "active" /\ engagement'[e].policy = p
        /\ \A f \in Engagements \ {e} : engagement'[f] = engagement[f]
    BY <1>2, <2>1 DEF ActivatePolicy, TypeOK
  <2>3. \A q \in Policies : LivePolicy(q)' <=> q = p \/ (LivePolicy(q) /\ EngagementOf[q] # e)
    BY <1>2 DEF ActivatePolicy, Replaced, TypeOK, BundleRow, LivePolicy
  <2>4. \A f \in Engagements : engagement[f].policy \in Policies \cup {NoPolicy}
    BY Zenon DEF TypeOK, EngagementRow
  <2> QED  BY <2>1, <2>2, <2>3, <2>4, ConstantsAssumption DEF OneActivePolicy
<1>3. ASSUME NEW p \in Policies, RevokePolicy(p)
      PROVE  OneActivePolicy'
  <2> DEFINE e == EngagementOf[p]
  <2>1. e \in Engagements
    BY Zenon, ConstantsAssumption
  <2>2. /\ engagement'[e].status = "revoked" /\ engagement'[e].policy = NoPolicy
        /\ \A f \in Engagements \ {e} : engagement'[f] = engagement[f]
    BY Zenon, <1>3, <2>1 DEF RevokePolicy, TypeOK
  <2>3. \A q \in Policies : LivePolicy(q)' <=> (q # p /\ LivePolicy(q))
    BY <1>3 DEF RevokePolicy, TypeOK, BundleRow, LivePolicy
  <2>4. \A f \in Engagements : engagement[f].policy \in Policies \cup {NoPolicy}
    BY Zenon DEF TypeOK, EngagementRow
  <2> QED  BY <2>1, <2>2, <2>3, <2>4, ConstantsAssumption DEF OneActivePolicy
<1>4. ASSUME UNCHANGED bundle,
             \A e \in Engagements :
                /\ engagement'[e].policy = engagement[e].policy
                /\ engagement'[e].status = "active" => engagement[e].policy # NoPolicy
      PROVE  OneActivePolicy'
  BY Zenon, <1>4 DEF OneActivePolicy, LivePolicy
<1>5. ASSUME NEW e \in Engagements, PauseAssessment(e) \/ ResumeAssessment(e)
      PROVE  OneActivePolicy'
  <2>1. UNCHANGED bundle
    BY Zenon, <1>5 DEF PauseAssessment, ResumeAssessment
  <2>2. \A f \in Engagements :
           /\ engagement'[f].policy = engagement[f].policy
           /\ engagement'[f].status = "active" => engagement[f].policy # NoPolicy
    <3>1. CASE PauseAssessment(e)
      BY <3>1 DEF PauseAssessment, OneActivePolicy, TypeOK, EngagementRow
    <3>2. CASE ResumeAssessment(e)
      BY <3>2 DEF ResumeAssessment, OneActivePolicy, TypeOK, EngagementRow
    <3> QED  BY <1>5, <3>1, <3>2
  <2> QED  BY Zenon, <1>4, <2>1, <2>2
<1>6. CASE HaltEverything
  <2>1. \A f \in Engagements :
           /\ engagement'[f].policy = engagement[f].policy
           /\ engagement'[f].status = "active" => engagement[f].policy # NoPolicy
    BY Zenon, <1>6 DEF HaltEverything, OneActivePolicy, TypeOK, EngagementRow
  <2> QED  BY Zenon, <1>4, <1>6, <2>1 DEF HaltEverything
<1>7. CASE UNCHANGED vars
  BY Zenon, <1>7 DEF vars, OneActivePolicy, LivePolicy
<1> QED  BY <1>1, <1>2, <1>3, <1>5, <1>6, <1>7, SamePoliciesSteps

\* What a halt, a replacement or a revocation does to sessions and grants.
Halting(E) ==
    /\ AbortGatewaySessions(E)
    /\ RevokeUnusedGrants(E) \/ UNCHANGED grant
    /\ UNCHANGED bucket

\* Every step leaves grants, sessions, counters and buckets alone, is one of
\* the handlers of a single intent, or halts a set of engagements.
LEMMA StepClasses ==
    ASSUME Next
    PROVE  \/ UNCHANGED <<grant, session, account, bucket>>
           \/ \E i \in Intents :
                 \/ \E audience \in {"broker", "gateway"} : MintGrant(i, audience)
                 \/ ConsumeGrant(i)
                 \/ \E d \in destination[i] : PrepareSession(i, d)
                 \/ CommitStart(i)
                 \/ ClaimExecution(i)
                 \/ FinalizeRequest(i)
                 \/ AbortSession(i)
           \/ \E E \in SUBSET Engagements : Halting(E)
<1>1. CASE PolicyStep
  <2>1. ASSUME NEW p \in Policies, ActivatePolicy(p) \/ RevokePolicy(p)
        PROVE  Halting({EngagementOf[p]})
    BY Zenon, <2>1 DEF ActivatePolicy, RevokePolicy, Halting
  <2>2. \A p \in Policies : {EngagementOf[p]} \in SUBSET Engagements
    BY ConstantsAssumption
  <2> QED  BY Zenon, <1>1, <2>1, <2>2 DEF PolicyStep, LapseApproval, ApprovePolicy
<1>2. CASE IntentStep
  BY <1>2 DEF IntentStep, LapseIntent, EvaluateRead, EvaluateWrite, AuthorizeDestination
<1>3. CASE EngagementStep
  <2>1. ASSUME NEW e \in Engagements, PauseAssessment(e)
        PROVE  Halting({e})
    BY Zenon, <2>1 DEF PauseAssessment, Halting
  <2> QED  BY Zenon, <1>3, <2>1 DEF EngagementStep, ExpireEngagement, LapseAttestation,
               RecordAttestation, ResumeAssessment
<1>4. CASE SafetyStep
  <2>1. HaltEverything => Halting(Engagements)
    BY Zenon DEF HaltEverything, Halting
  <2> QED  BY Zenon, <1>4, <2>1 DEF SafetyStep, TripLatch, ResumeGlobal, HaltGlobal, Restart
<1> QED  BY Zenon, <1>1, <1>2, <1>3, <1>4 DEF Next

\* One row of SessionShape.
Shape(s, granted) ==
    /\ s.reservation = "reserved" <=> (s.status = "prepared" /\ s.start = "none")
    /\ s.reservation = "committed" <=> s.start # "none"
    /\ s.reservation = "none" \/ granted = "none" => s.status = "none"
    /\ s.status = "prepared" => s.start \in {"none", "committed"}
    /\ s.start = "none" => s.claim = "none"
    /\ s.reservation = "reserved" => s.rate = "reserved"
    /\ s.start # "none" => s.rate = "committed" /\ granted = "used"
    /\ s.result <=> s.status = "closed"
    /\ s.result => s.start # "none" /\ s.claim \in {"none", "completed"}
    /\ s.claim = "claimed" => s.start = "committed" /\ s.status = "prepared"

\* SessionShape, row by row.
LEMMA ShapeByRow == SessionShape <=> \A i \in Intents : Shape(session[i], grant[i].status)
BY ZenonT(60) DEF SessionShape, Shape

\* _abort_gateway_sessions keeps a row consistent.
LEMMA ShapeAborted ==
    ASSUME NEW s \in SessionRow, NEW g, NEW h, Shape(s, g),
           g = "used" => h = "used", h = "none" => g = "none"
    PROVE  Shape(AbortedRow(s), h)
BY DEF Shape, AbortedRow, SessionRow

\* The rows of one intent stay consistent with each other.
LEMMA ShapeStep == TypeOK /\ SessionShape /\ [Next]_vars => SessionShape'
<1> SUFFICES ASSUME TypeOK, SessionShape, [Next]_vars PROVE SessionShape'
  OBVIOUS
<1>0. SUFFICES ASSUME NEW j \in Intents PROVE Shape(session'[j], grant'[j].status)
  BY Zenon, ShapeByRow DEF SessionShape, Shape
<1>a. Shape(session[j], grant[j].status) /\ session[j] \in SessionRow /\ grant[j] \in GrantRow
  BY Zenon, ShapeByRow DEF TypeOK
<1>1. CASE UNCHANGED <<grant, session>>
  BY Zenon, <1>1, <1>a
<1>2. ASSUME NEW i \in Intents, NEW audience \in {"broker", "gateway"}, MintGrant(i, audience)
      PROVE  Shape(session'[j], grant'[j].status)
  <2>1. /\ session'[j] = session[j]
        /\ \/ grant'[j] = grant[j]
           \/ grant'[j].status = "issued" /\ grant[j].status = "none"
    BY ZenonT(60), <1>2 DEF MintGrant, TypeOK
  <2> QED  BY <1>a, <2>1 DEF Shape
<1>3. ASSUME NEW i \in Intents, ConsumeGrant(i)
      PROVE  Shape(session'[j], grant'[j].status)
  BY <1>3, <1>a DEF ConsumeGrant, Shape, TypeOK, GrantRow
<1>4. ASSUME NEW i \in Intents, NEW d \in destination[i], PrepareSession(i, d)
      PROVE  Shape(session'[j], grant'[j].status)
  <2>1. CASE i # j
    BY <1>4, <1>a, <2>1 DEF PrepareSession, TypeOK
  <2>2. CASE i = j
    <3>1. session'[j] = [host |-> d[1], att |-> d[2], reservation |-> "reserved",
                         rate |-> "reserved", status |-> "prepared", start |-> "none",
                         claim |-> "none", result |-> FALSE]
      BY Zenon, <1>4, <2>2 DEF PrepareSession, TypeOK
    <3>2. grant'[j].status = "issued"
      BY ZenonT(60), <1>4, <2>2 DEF PrepareSession, GrantSpendable
    <3> QED  BY <3>1, <3>2 DEF Shape
  <2> QED  BY ZenonT(60), <2>1, <2>2
<1>5. ASSUME NEW i \in Intents, CommitStart(i)
      PROVE  Shape(session'[j], grant'[j].status)
  <2>1. CASE i # j
    BY ZenonT(60), <1>5, <1>a, <2>1 DEF CommitStart, TypeOK
  <2>2. CASE i = j
    <3>1. /\ session'[j] = [host |-> session[j].host, att |-> session[j].att,
                            reservation |-> "committed", rate |-> "committed",
                            status |-> session[j].status, start |-> "committed",
                            claim |-> session[j].claim, result |-> session[j].result]
          /\ grant'[j].status = "used"
          /\ session[j].status = "prepared" /\ session[j].start = "none"
      BY <1>5, <2>2 DEF CommitStart, TypeOK, GrantRow
    <3> QED  BY <1>a, <3>1 DEF Shape
  <2> QED  BY <2>1, <2>2
<1>6. ASSUME NEW i \in Intents, ClaimExecution(i)
      PROVE  Shape(session'[j], grant'[j].status)
  <2>1. CASE i # j
    BY ZenonT(60), <1>6, <1>a, <2>1 DEF ClaimExecution, TypeOK
  <2>2. CASE i = j
    <3>1. /\ session'[j].claim = "claimed" /\ session'[j].start = session[j].start
          /\ session'[j].status = session[j].status /\ session'[j].rate = session[j].rate
          /\ session'[j].reservation = session[j].reservation
          /\ session'[j].result = session[j].result
          /\ grant' = grant
      BY ZenonT(60), <1>6, <1>a, <2>2 DEF ClaimExecution, TypeOK, SessionRow
    <3>2. session[j].start = "committed" /\ session[j].status = "prepared"
      BY Zenon, <1>6, <2>2 DEF ClaimExecution
    <3> QED  BY <1>a, <3>1, <3>2 DEF Shape
  <2> QED  BY Zenon, <2>1, <2>2
<1>7. ASSUME NEW i \in Intents, FinalizeRequest(i)
      PROVE  Shape(session'[j], grant'[j].status)
  <2>1. CASE i # j
    BY ZenonT(60), <1>7, <1>a, <2>1 DEF FinalizeRequest, TypeOK
  <2>2. CASE i = j
    <3>1. session'[j] = [host |-> session[j].host, att |-> session[j].att,
                         reservation |-> session[j].reservation, rate |-> session[j].rate,
                         status |-> "closed", start |-> session[j].start,
                         claim |-> IF session[j].claim = "claimed" THEN "completed"
                                   ELSE session[j].claim,
                         result |-> TRUE]
      BY Zenon, <1>7, <2>2 DEF FinalizeRequest, TypeOK
    <3>2. /\ session[j].start = "committed" /\ session[j].status = "prepared"
          /\ session[j].claim \in {"none", "claimed"} /\ grant' = grant
      BY <1>7, <2>2 DEF FinalizeRequest
    <3> QED  BY <1>a, <3>1, <3>2 DEF Shape
  <2> QED  BY Zenon, <2>1, <2>2
<1>8. ASSUME NEW i \in Intents, AbortSession(i)
      PROVE  Shape(session'[j], grant'[j].status)
  <2>1. session'[j] = (IF i = j THEN AbortedRow(session[j]) ELSE session[j]) /\ grant' = grant
    BY ZenonT(60), <1>8 DEF AbortSession, TypeOK
  <2> QED  BY <1>a, <2>1, ShapeAborted
<1>9. ASSUME NEW E \in SUBSET Engagements, Halting(E)
      PROVE  Shape(session'[j], grant'[j].status)
  <2>1. /\ grant[j].status = "used" => grant'[j].status = "used"
        /\ grant'[j].status = "none" => grant[j].status = "none"
    BY Zenon, <1>9, <1>a DEF Halting, RevokeUnusedGrants, GrantRow
  <2>2. session'[j] = AbortedRow(session[j]) \/ session'[j] = session[j]
    BY Zenon, <1>9 DEF Halting, AbortGatewaySessions
  <2>3. CASE session'[j] = AbortedRow(session[j])
    BY <1>a, <2>1, <2>3, ShapeAborted
  <2>4. CASE session'[j] = session[j]
    BY <1>a, <2>1, <2>4 DEF Shape
  <2> QED  BY Zenon, <2>2, <2>3, <2>4
<1> QED
  BY ZenonT(60), <1>1, <1>2, <1>3, <1>4, <1>5, <1>6, <1>7, <1>8, <1>9, StepClasses DEF vars

-----------------------------------------------------------------------------
(* What a halt voids and whom it reaches.                                  *)

\* Authority of one intent that a halt has to void, and what it presupposes.
Unspent(j) == grant[j].status = "issued" \/ session[j].status = "prepared"
                 \/ session[j].claim = "claimed"

Backed(j) == /\ AuthorityActive(PolicyOf[j])
             /\ bundle[PolicyOf[j]].activated
             /\ grant[j].epoch = engagement[EngOf(j)].epoch

\* NoAuthorityUnderHalt, intent by intent.
LEMMA ByIntent == NoAuthorityUnderHalt <=> \A j \in Intents : Unspent(j) => Backed(j)
BY Zenon DEF NoAuthorityUnderHalt, Unspent, Backed

\* Backed without the Boolean columns of policy_bundles.
LEMMA BackedMeansLive ==
    ASSUME NEW j \in Intents
    PROVE  Backed(j) <=> /\ LivePolicy(PolicyOf[j])
                         /\ engagement[EngOf(j)].policy = PolicyOf[j]
                         /\ engagement[EngOf(j)].status = "active"
                         /\ grant[j].epoch = engagement[EngOf(j)].epoch
                         /\ global = "active"
BY Zenon DEF Backed, AuthorityActive, LivePolicy, EngOf

\* The same in the next state.
LEMMA BackedMeansLivePrime ==
    ASSUME NEW j \in Intents
    PROVE  Backed(j)' <=> /\ LivePolicy(PolicyOf[j])'
                          /\ engagement'[EngOf(j)].policy = PolicyOf[j]
                          /\ engagement'[EngOf(j)].status = "active"
                          /\ grant'[j].epoch = engagement'[EngOf(j)].epoch
                          /\ global' = "active"
BY Zenon DEF Backed, AuthorityActive, LivePolicy, EngOf

\* A session row that was aborted holds nothing any more.
LEMMA AbortVoids ==
    ASSUME TypeOK, SessionShape, NEW E \in SUBSET Engagements, AbortGatewaySessions(E),
           NEW j \in Intents, EngOf(j) \in E
    PROVE  session'[j].status # "prepared" /\ session'[j].claim # "claimed"
<1>1. session'[j] = AbortedRow(session[j])
  BY Zenon DEF AbortGatewaySessions
<1> QED  BY <1>1 DEF AbortedRow

\* A halt that revokes grants leaves the halted engagements nothing to spend.
LEMMA HaltVoids ==
    ASSUME TypeOK, SessionShape, NEW E \in SUBSET Engagements,
           AbortGatewaySessions(E), RevokeUnusedGrants(E),
           NEW j \in Intents, EngOf(j) \in E
    PROVE  ~Unspent(j)'
<1>1. grant'[j].status # "issued"
  BY Zenon DEF RevokeUnusedGrants, TypeOK, GrantRow
<1> QED  BY Zenon, <1>1, AbortVoids DEF Unspent

\* Rows of engagements outside the halted ones do not move.
LEMMA HaltSpares ==
    ASSUME TypeOK, NEW E \in SUBSET Engagements, Halting(E),
           NEW j \in Intents, EngOf(j) \notin E
    PROVE  grant'[j] = grant[j] /\ session'[j] = session[j]
BY Zenon DEF Halting, AbortGatewaySessions, RevokeUnusedGrants, TypeOK

\* No step leaves an unused grant, a prepared session or a held claim behind in
\* an engagement that is no longer active under the same bundle and epoch.
LEMMA AuthorityStep ==
    TypeOK /\ OneActivePolicy /\ SessionShape /\ NoAuthorityUnderHalt /\ [Next]_vars
        => NoAuthorityUnderHalt'
<1> SUFFICES ASSUME TypeOK, OneActivePolicy, SessionShape, NoAuthorityUnderHalt, [Next]_vars
             PROVE  NoAuthorityUnderHalt'
  OBVIOUS
<1>0. SUFFICES ASSUME NEW j \in Intents, Unspent(j)' PROVE Backed(j)'
  BY Zenon DEF NoAuthorityUnderHalt, Unspent, Backed
<1>a. Unspent(j) => Backed(j)
  BY Zenon, ByIntent
<1>b. PolicyOf[j] \in Policies /\ EngOf(j) \in Engagements
  BY Zenon, EngOfType
<1>1. ASSUME UNCHANGED <<engagement, bundle, global>>,
             grant'[j].epoch = grant[j].epoch, Unspent(j)' => Unspent(j)
      PROVE  Backed(j)'
  BY Zenon, <1>0, <1>1, <1>a DEF Backed, AuthorityActive, EngOf
<1>2. ASSUME NEW i \in Intents, NEW audience \in {"broker", "gateway"}, MintGrant(i, audience)
      PROVE  Backed(j)'
  <2>1. CASE i # j
    <3>1. grant'[j] = grant[j] /\ session' = session
      BY <1>2, <2>1 DEF MintGrant, TypeOK
    <3> QED  BY Zenon, <1>1, <1>2, <3>1 DEF MintGrant, Unspent
  <2>2. CASE i = j
    <3>1. grant'[j].epoch = engagement[EngOf(j)].epoch
      BY Zenon, <1>2, <2>2 DEF MintGrant, TypeOK
    <3>2. AuthorityActive(PolicyOf[j]) /\ bundle[PolicyOf[j]].activated
      BY Zenon, <1>2, <2>2 DEF MintGrant
    <3>3. UNCHANGED <<engagement, bundle, global>>
      BY <1>2 DEF MintGrant
    <3> QED  BY Zenon, <3>1, <3>2, <3>3 DEF Backed, AuthorityActive, EngOf
  <2> QED  BY <2>1, <2>2
<1>3. ASSUME NEW i \in Intents,
             \/ ConsumeGrant(i)
             \/ \E d \in destination[i] : PrepareSession(i, d)
             \/ CommitStart(i)
             \/ ClaimExecution(i)
             \/ FinalizeRequest(i)
             \/ AbortSession(i)
      PROVE  Backed(j)'
  <2>1. UNCHANGED <<engagement, bundle, global>>
    BY <1>3 DEF ConsumeGrant, PrepareSession, CommitStart, ClaimExecution,
        FinalizeRequest, AbortSession
  <2>2. grant' = grant \/ grant' = [grant EXCEPT ![i].status = "used"]
    BY Zenon, <1>3 DEF ConsumeGrant, PrepareSession, CommitStart, ClaimExecution,
        FinalizeRequest, AbortSession
  <2>3. /\ grant'[j].epoch = grant[j].epoch
        /\ grant'[j].status = "issued" => grant[j].status = "issued"
    BY <2>2 DEF TypeOK, GrantRow
  <2>4. i # j => session'[j] = session[j]
    BY <1>3 DEF ConsumeGrant, PrepareSession, CommitStart, ClaimExecution,
        FinalizeRequest, AbortSession, TypeOK
  <2>5. i = j => Unspent(j) \/ session'[j] = session[j]
    BY Zenon, <1>3 DEF ConsumeGrant, PrepareSession, CommitStart, ClaimExecution,
        FinalizeRequest, AbortSession, GrantSpendable, Unspent
  <2>6. Unspent(j)' => Unspent(j)
    BY Zenon, <2>3, <2>4, <2>5 DEF Unspent
  <2> QED  BY ZenonT(60), <1>1, <2>1, <2>3, <2>6
<1>4. CASE SamePolicies /\ UNCHANGED <<grant, session>> /\ (global' = global \/ global' = "active")
  <2>1. Unspent(j)
    BY Zenon, <1>0, <1>4 DEF Unspent
  <2> QED  BY Zenon, <1>4, <1>a, <1>b, <2>1, BackedMeansLive, BackedMeansLivePrime DEF SamePolicies
<1>5. ASSUME NEW e \in Engagements, ResumeAssessment(e)
      PROVE  Backed(j)'
  <2>1. Unspent(j) /\ UNCHANGED <<bundle, global, grant>>
    BY Zenon, <1>0, <1>5 DEF Unspent, ResumeAssessment
  <2>2. \A f \in Engagements : /\ engagement'[f].policy = engagement[f].policy
                               /\ engagement'[f].epoch = engagement[f].epoch
                               /\ engagement[f].status = "active" => engagement'[f].status = "active"
    BY <1>5 DEF ResumeAssessment, TypeOK, EngagementRow
  <2> QED  BY Zenon, <1>a, <1>b, <2>1, <2>2 DEF Backed, AuthorityActive, EngOf
<1>6. ASSUME NEW e \in Engagements, PauseAssessment(e)
      PROVE  Backed(j)'
  <2>1. EngOf(j) # e
    BY Zenon, <1>0, <1>6, HaltVoids DEF PauseAssessment
  <2>2. Halting({e}) /\ UNCHANGED <<bundle, global>>
    BY Zenon, <1>6 DEF PauseAssessment, Halting
  <2>3. grant'[j] = grant[j] /\ session'[j] = session[j]
    BY <2>1, <2>2, HaltSpares
  <2>4. engagement'[EngOf(j)] = engagement[EngOf(j)]
    BY Zenon, <1>6, <1>b, <2>1 DEF PauseAssessment, TypeOK
  <2> QED  BY Zenon, <1>0, <1>a, <2>2, <2>3, <2>4 DEF Backed, AuthorityActive, EngOf, Unspent
<1>7. ASSUME NEW p \in Policies, RevokePolicy(p)
      PROVE  Backed(j)'
  <2> DEFINE e == EngagementOf[p]
  <2>0. e \in Engagements
    BY ConstantsAssumption
  <2>1. EngOf(j) # e
    BY Zenon, <1>0, <1>7, <2>0, HaltVoids DEF RevokePolicy
  <2>2. Halting({e}) /\ UNCHANGED global
    BY <1>7 DEF RevokePolicy, Halting
  <2>3. grant'[j] = grant[j] /\ session'[j] = session[j]
    BY <2>0, <2>1, <2>2, HaltSpares
  <2>4. engagement'[EngOf(j)] = engagement[EngOf(j)]
    BY Zenon, <1>7, <1>b, <2>0, <2>1 DEF RevokePolicy, TypeOK
  <2>5. bundle'[PolicyOf[j]] = bundle[PolicyOf[j]]
    BY <1>7, <1>b, <2>1 DEF RevokePolicy, TypeOK, EngOf
  <2> QED  BY Zenon, <1>0, <1>a, <2>2, <2>3, <2>4, <2>5 DEF Backed, AuthorityActive, EngOf, Unspent
<1>8. ASSUME NEW p \in Policies, ActivatePolicy(p)
      PROVE  Backed(j)'
  <2> DEFINE e == EngagementOf[p]
  <2>0. e \in Engagements
    BY Zenon, ConstantsAssumption
  <2>2. Halting({e}) /\ UNCHANGED global
    BY Zenon, <1>8 DEF ActivatePolicy, Halting
  <2>1. EngOf(j) # e
    <3>1. SUFFICES ASSUME EngOf(j) = e PROVE FALSE
      OBVIOUS
    <3>2. CASE Replaced(p) # {}
      BY <1>0, <1>8, <2>0, <3>1, <3>2, HaltVoids DEF ActivatePolicy
    <3>3. CASE Replaced(p) = {}
      <4>1. grant' = grant
        BY <1>8, <3>3 DEF ActivatePolicy
      <4>2. session'[j].status # "prepared" /\ session'[j].claim # "claimed"
        BY <1>8, <2>0, <3>1, AbortVoids DEF ActivatePolicy
      <4>3. grant[j].status = "issued"
        BY Zenon, <1>0, <4>1, <4>2 DEF Unspent
      <4>4. bundle[PolicyOf[j]].activated /\ ~bundle[PolicyOf[j]].revoked
        BY Zenon, <1>a, <4>3 DEF Unspent, Backed, AuthorityActive
      <4>5. PolicyOf[j] # p /\ EngagementOf[PolicyOf[j]] = e
        BY Zenon, <1>8, <3>1, <4>4 DEF ActivatePolicy, EngOf
      <4> QED  BY Zenon, <1>b, <3>3, <4>4, <4>5 DEF Replaced
    <3> QED  BY Zenon, <3>2, <3>3
  <2>3. grant'[j] = grant[j] /\ session'[j] = session[j]
    BY <2>0, <2>1, <2>2, HaltSpares
  <2>4. engagement'[EngOf(j)] = engagement[EngOf(j)]
    BY Zenon, <1>8, <1>b, <2>0, <2>1 DEF ActivatePolicy, TypeOK
  <2>5. bundle'[PolicyOf[j]] = bundle[PolicyOf[j]]
    BY Zenon, <1>8, <1>b, <2>1 DEF ActivatePolicy, Replaced, TypeOK, EngOf
  <2> QED  BY Zenon, <1>0, <1>a, <2>2, <2>3, <2>4, <2>5 DEF Backed, AuthorityActive, EngOf, Unspent
<1>9. CASE HaltEverything
  BY <1>0, <1>9, <1>b, HaltVoids DEF HaltEverything
<1>10. CASE UNCHANGED vars
  BY Zenon, <1>1, <1>10 DEF vars, Unspent
<1>11. ASSUME NEW p \in Policies, LapseApproval(p) \/ ApprovePolicy(p)
       PROVE  Backed(j)'
  <2>1. SamePolicies
    BY Zenon, <1>11, ApprovalKeepsPolicies
  <2> QED  BY <1>4, <1>11, <2>1 DEF LapseApproval, ApprovePolicy
<1>12. ASSUME NEW i \in Intents,
              \/ LapseIntent(i) \/ EvaluateRead(i) \/ EvaluateWrite(i)
              \/ \E h \in Hosts : AuthorizeDestination(i, h)
       PROVE  Backed(j)'
  <2>1. UNCHANGED <<engagement, bundle, global, grant, session>>
    BY Zenon, <1>12 DEF LapseIntent, EvaluateRead, EvaluateWrite, AuthorizeDestination
  <2> QED  BY Zenon, <1>1, <2>1 DEF Unspent
<1>13. ASSUME NEW e \in Engagements,
              ExpireEngagement(e) \/ LapseAttestation(e) \/ RecordAttestation(e)
       PROVE  Backed(j)'
  <2>1. UNCHANGED <<engagement, bundle, global, grant, session>>
    BY Zenon, <1>13 DEF ExpireEngagement, LapseAttestation, RecordAttestation
  <2> QED  BY <1>1, <2>1 DEF Unspent
<1>14. CASE TripLatch \/ ResumeGlobal
  <2>1. /\ UNCHANGED <<engagement, bundle, grant, session>>
        /\ global' = global \/ global' = "active"
    BY Zenon, <1>14 DEF TripLatch, ResumeGlobal
  <2>2. Unspent(j)
    BY <1>0, <2>1 DEF Unspent
  <2> QED  BY <1>a, <2>1, <2>2 DEF Backed, AuthorityActive, EngOf
<1> QED
  BY <1>2, <1>3, <1>5, <1>6, <1>7, <1>8, <1>9, <1>10, <1>11, <1>12, <1>13, <1>14
  DEF Next, PolicyStep, IntentStep, EngagementStep, SafetyStep, HaltGlobal, Restart

\* A rate bucket never moves to another bundle under a pending reservation:
\* two sessions of an engagement that are prepared together share its bundle.
LEMMA BucketsStep ==
    TypeOK /\ SessionShape /\ NoAuthorityUnderHalt /\ BucketsMatch /\ [Next]_vars
        => BucketsMatch'
<1> SUFFICES ASSUME TypeOK, SessionShape, NoAuthorityUnderHalt, BucketsMatch, [Next]_vars
             PROVE  BucketsMatch'
  OBVIOUS
<1>0. SUFFICES ASSUME NEW j \in Intents, session'[j].reservation = "reserved",
                      NEW k \in {GlobalBucket, session'[j].host}
               PROVE  bucket'[EngOf(j)][k] = PolicyOf[j]
  BY Zenon DEF BucketsMatch, EngOf
<1>b. EngOf(j) \in Engagements /\ session[j] \in SessionRow
  BY EngOfType DEF TypeOK
<1>1. ASSUME UNCHANGED bucket, session'[j].host = session[j].host,
             session[j].reservation = "reserved"
      PROVE  bucket'[EngOf(j)][k] = PolicyOf[j]
  BY Zenon, <1>0, <1>1 DEF BucketsMatch
<1>2. ASSUME NEW i \in Intents, NEW d \in destination[i], PrepareSession(i, d)
      PROVE  bucket'[EngOf(j)][k] = PolicyOf[j]
  <2>0. d[1] \in Hosts /\ EngOf(i) \in Engagements
    BY EngOfType DEF TypeOK
  <2>1. bucket' = [bucket EXCEPT ![EngOf(i)] =
          [q \in BucketKeys |-> IF q \in {GlobalBucket, d[1]} THEN PolicyOf[i]
                                ELSE bucket[EngOf(i)][q]]]
    BY Zenon, <1>2 DEF PrepareSession
  <2>2. CASE i = j
    <3>1. session'[j].host = d[1]
      BY Zenon, <1>2, <2>2 DEF PrepareSession, TypeOK
    <3>2. k \in {GlobalBucket, d[1]} /\ k \in BucketKeys
      BY Zenon, <1>0, <2>0, <3>1 DEF BucketKeys
    <3> QED  BY <1>b, <2>1, <2>2, <3>2 DEF TypeOK
  <2>3. CASE i # j
    <3>1. session'[j] = session[j]
      BY Zenon, <1>2, <2>3 DEF PrepareSession, TypeOK
    <3>2. k \in BucketKeys /\ bucket[EngOf(j)][k] = PolicyOf[j]
      BY <1>0, <1>b, <3>1 DEF BucketsMatch, BucketKeys, SessionRow
    <3>3. CASE EngOf(i) # EngOf(j)
      BY <1>b, <2>1, <3>2, <3>3 DEF TypeOK
    <3>4. CASE EngOf(i) = EngOf(j)
      <4>1. Unspent(j)
        BY Zenon, <1>0, <3>1 DEF SessionShape, Unspent
      <4>2. engagement[EngOf(j)].policy = PolicyOf[j]
        BY ZenonT(60), <4>1, ByIntent DEF Backed, AuthorityActive, EngOf
      <4>3. engagement[EngOf(i)].policy = PolicyOf[i]
        BY <1>2 DEF PrepareSession, GrantSpendable, AuthorityActive, EngOf
      <4> QED  BY <1>b, <2>1, <3>2, <3>4, <4>2, <4>3 DEF TypeOK
    <3> QED  BY Zenon, <3>3, <3>4
  <2> QED  BY <2>2, <2>3
<1>3. ASSUME NEW i \in Intents,
             \/ \E audience \in {"broker", "gateway"} : MintGrant(i, audience)
             \/ ConsumeGrant(i)
      PROVE  bucket'[EngOf(j)][k] = PolicyOf[j]
  BY <1>0, <1>1, <1>3 DEF MintGrant, ConsumeGrant
<1>4. ASSUME NEW i \in Intents, CommitStart(i)
      PROVE  bucket'[EngOf(j)][k] = PolicyOf[j]
  <2>1. i # j
    BY Zenon, <1>0, <1>4 DEF CommitStart, TypeOK
  <2> QED  BY <1>0, <1>1, <1>4, <2>1 DEF CommitStart, TypeOK
<1>5. ASSUME NEW i \in Intents, ClaimExecution(i)
      PROVE  bucket'[EngOf(j)][k] = PolicyOf[j]
  <2>1. session'[j].reservation = session[j].reservation /\ session'[j].host = session[j].host
    BY <1>5 DEF ClaimExecution, TypeOK, SessionRow
  <2> QED  BY <1>0, <1>1, <1>5, <2>1 DEF ClaimExecution
<1>6. ASSUME NEW i \in Intents, FinalizeRequest(i)
      PROVE  bucket'[EngOf(j)][k] = PolicyOf[j]
  <2>1. session'[j].reservation = session[j].reservation /\ session'[j].host = session[j].host
    BY Zenon, <1>6 DEF FinalizeRequest, TypeOK
  <2> QED  BY Zenon, <1>0, <1>1, <1>6, <2>1 DEF FinalizeRequest
<1>7. ASSUME session'[j] = AbortedRow(session[j]) \/ session'[j] = session[j], UNCHANGED bucket
      PROVE  bucket'[EngOf(j)][k] = PolicyOf[j]
  <2>1. session'[j] = session[j]
    BY <1>0, <1>7 DEF AbortedRow
  <2> QED  BY ZenonT(60), <1>0, <1>1, <1>7, <2>1
<1>8. ASSUME NEW i \in Intents, AbortSession(i)
      PROVE  bucket'[EngOf(j)][k] = PolicyOf[j]
  BY <1>7, <1>8 DEF AbortSession, TypeOK
<1>9. ASSUME NEW E \in SUBSET Engagements, Halting(E)
      PROVE  bucket'[EngOf(j)][k] = PolicyOf[j]
  BY <1>7, <1>9 DEF Halting, AbortGatewaySessions
<1>10. CASE UNCHANGED <<session, bucket>>
  BY Zenon, <1>0, <1>1, <1>10
<1> QED
  BY <1>2, <1>3, <1>4, <1>5, <1>6, <1>8, <1>9, <1>10, StepClasses DEF vars

\* A step leaves the rows of the engagement e alone.
Untouched(e) ==
    /\ engagement'[e] = engagement[e] /\ attestation'[e] = attestation[e]
    /\ account'[e] = account[e] /\ bucket'[e] = bucket[e]
    /\ \A i \in Intents : EngOf(i) = e => grant'[i] = grant[i] /\ session'[i] = session[i]

\* Footprint, row by row.
LEMMA UntouchedFootprint ==
    ASSUME NEW e \in Engagements, Untouched(e)
    PROVE  Footprint(e)' = Footprint(e)
<1> DEFINE Of == {j \in Intents : EngOf(j) = e}
<1>1. {j \in Intents : EngOf(j) = e}' = Of
  BY Zenon DEF EngOf
<1>2. [i \in Of |-> <<grant'[i], session'[i]>>] = [i \in Of |-> <<grant[i], session[i]>>]
  BY Zenon DEF Untouched
<1> QED  BY Zenon, <1>1, <1>2 DEF Footprint, Untouched

\* A step that leaves the process active touches at most one engagement.
LEMMA IsolatedStep ==
    ASSUME TypeOK, [Next]_vars, global' = "active"
    PROVE  \E e : \A f \in Engagements \ {e} : Untouched(f)
<1> DEFINE Only(e) == \A f \in Engagements \ {e} : Untouched(f)
           Goal == \E e : Only(e)
<1> SUFFICES Goal
  BY Zenon
<1> HIDE DEF Goal
<1>1. ASSUME UNCHANGED <<engagement, attestation, account, bucket, grant, session>>
      PROVE  Goal
  BY Zenon, <1>1 DEF Goal, Untouched
<1>2. ASSUME NEW e \in Engagements, AbortGatewaySessions({e}), InvalidateAttestations({e}),
             RevokeUnusedGrants({e}) \/ UNCHANGED grant, UNCHANGED bucket,
             NEW row, engagement' = [engagement EXCEPT ![e] = row]
      PROVE  Goal
  <2>1. ASSUME NEW f \in Engagements \ {e}
        PROVE  Untouched(f)
    <3>1. engagement'[f] = engagement[f]
      BY Zenon, <1>2, <2>1 DEF TypeOK
    <3>2. attestation'[f] = attestation[f] /\ account'[f] = account[f] /\ bucket'[f] = bucket[f]
      BY Zenon, <1>2, <2>1 DEF InvalidateAttestations, AbortGatewaySessions
    <3>3. ASSUME NEW i \in Intents, EngOf(i) = f
          PROVE  grant'[i] = grant[i] /\ session'[i] = session[i]
      BY Zenon, <1>2, <2>1, <3>3 DEF RevokeUnusedGrants, AbortGatewaySessions
    <3> QED  BY Zenon, <3>1, <3>2, <3>3 DEF Untouched
  <2> QED  BY Zenon, <2>1 DEF Goal
<1>3. ASSUME NEW p \in Policies, ActivatePolicy(p) \/ RevokePolicy(p)
      PROVE  Goal
  <2> DEFINE e == EngagementOf[p]
  <2>1. e \in Engagements
    BY ConstantsAssumption
  <2>2. \E row : engagement' = [engagement EXCEPT ![e] = row]
    BY Zenon, <1>3 DEF ActivatePolicy, RevokePolicy
  <2>3. /\ AbortGatewaySessions({e}) /\ InvalidateAttestations({e})
        /\ RevokeUnusedGrants({e}) \/ UNCHANGED grant
        /\ UNCHANGED bucket
    BY Zenon, <1>3 DEF ActivatePolicy, RevokePolicy
  <2> HIDE DEF e
  <2> QED  BY Zenon, <1>2, <2>1, <2>2, <2>3
<1>4. ASSUME NEW e \in Engagements, PauseAssessment(e)
      PROVE  Goal
  <2>1. \E row : engagement' = [engagement EXCEPT ![e] = row]
    BY Zenon, <1>4 DEF PauseAssessment
  <2>2. /\ AbortGatewaySessions({e}) /\ InvalidateAttestations({e}) /\ RevokeUnusedGrants({e})
        /\ UNCHANGED bucket
    BY Zenon, <1>4 DEF PauseAssessment
  <2> QED  BY Zenon, <1>2, <2>1, <2>2
<1>5. ASSUME NEW i \in Intents, UNCHANGED <<engagement, attestation>>,
             \A j \in Intents \ {i} : grant'[j] = grant[j] /\ session'[j] = session[j],
             \A f \in Engagements \ {EngOf(i)} : account'[f] = account[f] /\ bucket'[f] = bucket[f]
      PROVE  Goal
  <2>1. ASSUME NEW f \in Engagements \ {EngOf(i)}
        PROVE  Untouched(f)
    BY Zenon, <1>5, <2>1 DEF Untouched
  <2> QED  BY Zenon, <2>1 DEF Goal
<1>6. ASSUME NEW i \in Intents,
             ConsumeGrant(i) \/ \E a \in {"broker", "gateway"} : MintGrant(i, a)
      PROVE  Goal
  <2>1. \A j \in Intents \ {i} : grant'[j] = grant[j] /\ session'[j] = session[j]
    BY Zenon, <1>6 DEF MintGrant, ConsumeGrant, TypeOK
  <2>2. UNCHANGED <<engagement, attestation, account, bucket>>
    BY Zenon, <1>6 DEF MintGrant, ConsumeGrant
  <2> QED  BY Zenon, <1>5, <2>1, <2>2
<1>7. ASSUME NEW i \in Intents, \E d \in destination[i] : PrepareSession(i, d)
      PROVE  Goal
  <2>0. grant' = grant /\ \E row : session' = [session EXCEPT ![i] = row]
    BY Zenon, <1>7 DEF PrepareSession
  <2>1. \A j \in Intents \ {i} : grant'[j] = grant[j] /\ session'[j] = session[j]
    BY Zenon, <2>0 DEF TypeOK
  <2>a. /\ \E row : account' = [account EXCEPT ![EngOf(i)] = row]
        /\ \E row : bucket' = [bucket EXCEPT ![EngOf(i)] = row]
    BY Zenon, <1>7 DEF PrepareSession
  <2>2. \A f \in Engagements \ {EngOf(i)} : account'[f] = account[f] /\ bucket'[f] = bucket[f]
    BY Zenon, <2>a DEF TypeOK
  <2>3. UNCHANGED <<engagement, attestation>>
    BY Zenon, <1>7 DEF PrepareSession
  <2> QED  BY Zenon, <1>5, <2>1, <2>2, <2>3
<1>8. ASSUME NEW i \in Intents,
             CommitStart(i) \/ ClaimExecution(i) \/ FinalizeRequest(i) \/ AbortSession(i)
      PROVE  Goal
  <2>1. /\ \A j \in Intents \ {i} : session'[j] = session[j]
        /\ \A f \in Engagements \ {EngOf(i)} : account'[f] = account[f]
    BY ZenonT(60), <1>8 DEF CommitStart, ClaimExecution, FinalizeRequest, AbortSession, TypeOK
  <2>2. \A j \in Intents \ {i} : grant'[j] = grant[j]
    BY Zenon, <1>8 DEF CommitStart, ClaimExecution, FinalizeRequest, AbortSession, TypeOK
  <2>3. UNCHANGED <<engagement, attestation, bucket>>
    BY Zenon, <1>8 DEF CommitStart, ClaimExecution, FinalizeRequest, AbortSession
  <2> QED  BY Zenon, <1>5, <2>1, <2>2, <2>3
<1>9. ASSUME NEW e \in Engagements,
             RecordAttestation(e) \/ LapseAttestation(e) \/ ResumeAssessment(e)
      PROVE  Goal
  <2>1. ASSUME NEW f \in Engagements \ {e}
        PROVE  engagement'[f] = engagement[f] /\ attestation'[f] = attestation[f]
    BY Zenon, <1>9, <2>1 DEF RecordAttestation, LapseAttestation, ResumeAssessment, TypeOK
  <2>2. UNCHANGED <<account, bucket, grant, session>>
    BY Zenon, <1>9 DEF RecordAttestation, LapseAttestation, ResumeAssessment
  <2> QED  BY Zenon, <2>1, <2>2 DEF Goal, Untouched
<1>10. CASE PolicyStep
  BY Zenon, <1>1, <1>3, <1>10 DEF PolicyStep, LapseApproval, ApprovePolicy
<1>11. CASE IntentStep
  <2>1. ASSUME NEW i \in Intents,
               \/ LapseIntent(i) \/ EvaluateRead(i) \/ EvaluateWrite(i)
               \/ \E h \in Hosts : AuthorizeDestination(i, h)
        PROVE  Goal
    BY Zenon, <1>1, <2>1 DEF LapseIntent, EvaluateRead, EvaluateWrite, AuthorizeDestination
  <2> QED  BY Zenon, <1>6, <1>7, <1>8, <1>11, <2>1 DEF IntentStep
<1>12. CASE EngagementStep
  <2>1. ASSUME NEW e \in Engagements, ExpireEngagement(e)
        PROVE  Goal
    BY Zenon, <1>1, <2>1 DEF ExpireEngagement
  <2> QED  BY Zenon, <1>4, <1>9, <1>12, <2>1 DEF EngagementStep
<1>13. CASE SafetyStep
  <2>1. TripLatch \/ ResumeGlobal
    BY <1>13 DEF SafetyStep, HaltGlobal, Restart
  <2> QED  BY Zenon, <1>1, <2>1 DEF TripLatch, ResumeGlobal
<1>14. CASE UNCHANGED vars
  BY Zenon, <1>1, <1>14 DEF vars
<1> QED  BY Zenon, <1>10, <1>11, <1>12, <1>13, <1>14 DEF Next
=============================================================================
