-------------------------- MODULE GatewayAuthority --------------------------
(***************************************************************************)
(* The authority control plane of pentai_core/authorization.py: policy     *)
(* bundles are approved and activated for an engagement, an action intent  *)
(* is evaluated, a grant is minted for the decision, and the grant is      *)
(* spent either directly by the broker or through a gateway session that   *)
(* reserves budget, commits one request start and is finalized.  Humans,   *)
(* the network watchdog, the storage latch and startup recovery halt all   *)
(* of this at any moment.                                                  *)
(*                                                                         *)
(* One SQLite transaction is one action.  An exception inside a            *)
(* transaction rolls it back, so a refused operation is a disabled action. *)
(* Clocks are abstracted to what they decide: expired[e], lapsed[i] and    *)
(* attestation[e].fresh are flipped by environment actions.                *)
(***************************************************************************)
EXTENDS Integers, FiniteSets

CONSTANTS
    Engagements,      \* engagements.id
    Policies,         \* policy_bundles.id
    Intents,          \* action_intents.intent_id
    Hosts,            \* canonical destination hosts (host_key)
    NoPolicy,         \* SQL NULL in engagements.active_policy_id and in buckets
    EngagementOf,     \* policy_bundles.engagement_id
    SchemaOf,         \* policy_bundles.schema_version, 1 or 2
    PolicyOf,         \* the bundle named by the intent's policy_hash
    RequestLimit,     \* budgets.maximum_total_requests of each bundle
    ConnectionLimit,  \* budgets.concurrent_connections of each bundle
    MaxEpoch,         \* bound: revocation epochs explored
    MaxAttestations   \* bound: attestations recorded per engagement

ASSUME ConstantsAssumption ==
    /\ IsFiniteSet(Intents)
    /\ NoPolicy \notin Policies
    /\ EngagementOf \in [Policies -> Engagements]
    /\ SchemaOf \in [Policies -> {1, 2}]
    /\ PolicyOf \in [Intents -> Policies]
    /\ RequestLimit \in [Policies -> Nat \ {0}]
    /\ ConnectionLimit \in [Policies -> Nat \ {0}]
    /\ MaxEpoch \in Nat
    /\ MaxAttestations \in Nat

VARIABLES
    global,       \* safety_state.global_status
    latched,      \* StorageSafetyLatch.tripped, in process memory
    engagement,   \* engagements: status, active policy, revocation epoch
    expired,      \* engagements whose expires_at (= policy not_after) passed
    bundle,       \* policy_bundles: approval, activated_at, revoked_at
    attestation,  \* network_attestations: how many, the valid one, its expiry
    decision,     \* policy_evaluations, with evaluate_intent's read phase
    grant,        \* action_grants
    lapsed,       \* intents whose grant, or committed deadline, has passed
    destination,  \* destination_authorizations: <<host, attestation>> pairs
    session,      \* reservation, rate reservation, session, start, claim
    account,      \* budget_accounts
    bucket        \* gateway_rate_buckets: the bundle each bucket belongs to

vars == <<global, latched, engagement, expired, bundle, attestation, decision,
          grant, lapsed, destination, session, account, bucket>>

EngOf(i) == EngagementOf[PolicyOf[i]]

GlobalBucket == "global"

BucketKeys == {GlobalBucket} \cup Hosts

EngagementRow == [status : {"draft", "active", "paused", "revoked"},
                  policy : Policies \cup {NoPolicy},
                  epoch  : Nat]

BundleRow == [approved : BOOLEAN, activated : BOOLEAN, revoked : BOOLEAN]

\* valid is the number of the valid attestation, 0 when there is none.
AttestationRow == [issued : Nat, valid : Nat, fresh : BOOLEAN]

GrantRow == [status   : {"none", "issued", "used", "revoked"},
             audience : {"none", "broker", "gateway"},
             epoch    : Nat]

SessionRow == [host        : Hosts \cup {GlobalBucket},
               att         : Nat,
               reservation : {"none", "reserved", "committed", "released"},
               rate        : {"none", "reserved", "committed", "released"},
               status      : {"none", "prepared", "closed", "aborted"},
               start       : {"none", "committed", "cancelled"},
               claim       : {"none", "claimed", "completed", "abandoned"},
               result      : BOOLEAN]

\* A bucket key stands in for "no host" before the session exists.
NoSession == [host |-> GlobalBucket, att |-> 0, reservation |-> "none",
              rate |-> "none", status |-> "none", start |-> "none",
              claim |-> "none", result |-> FALSE]

AccountRow == [requests : Nat, connections : Nat,
               reserved : Nat, committed : Nat, active : Nat]

TypeOK ==
    /\ global \in {"active", "paused", "stopped"}
    /\ latched \in BOOLEAN
    /\ engagement \in [Engagements -> EngagementRow]
    /\ expired \in SUBSET Engagements
    /\ bundle \in [Policies -> BundleRow]
    /\ attestation \in [Engagements -> AttestationRow]
    /\ decision \in [Intents -> {"none", "read", "allowed"}]
    /\ grant \in [Intents -> GrantRow]
    /\ lapsed \in SUBSET Intents
    /\ destination \in [Intents -> SUBSET (Hosts \X Nat)]
    /\ session \in [Intents -> SessionRow]
    /\ account \in [Engagements -> AccountRow]
    /\ bucket \in [Engagements -> [BucketKeys -> Policies \cup {NoPolicy}]]

Init ==
    /\ global = "paused"
    /\ latched = FALSE
    /\ engagement = [e \in Engagements |->
                        [status |-> "draft", policy |-> NoPolicy, epoch |-> 0]]
    /\ expired = {}
    /\ bundle = [p \in Policies |->
                    [approved |-> FALSE, activated |-> FALSE, revoked |-> FALSE]]
    /\ attestation = [e \in Engagements |->
                        [issued |-> 0, valid |-> 0, fresh |-> FALSE]]
    /\ decision = [i \in Intents |-> "none"]
    /\ grant = [i \in Intents |->
                    [status |-> "none", audience |-> "none", epoch |-> 0]]
    /\ lapsed = {}
    /\ destination = [i \in Intents |-> {}]
    /\ session = [i \in Intents |-> NoSession]
    /\ account = [e \in Engagements |->
                    [requests |-> 0, connections |-> 0,
                     reserved |-> 0, committed |-> 0, active |-> 0]]
    /\ bucket = [e \in Engagements |-> [k \in BucketKeys |-> NoPolicy]]

-----------------------------------------------------------------------------
(***************************************************************************)
(* Conditions shared by the handlers.                                      *)
(***************************************************************************)

\* Mutant: the safety state is not consulted.
AuthorityActiveIgnoringGlobal(p) ==
    LET e == EngagementOf[p] IN
    /\ engagement[e].policy = p
    /\ engagement[e].status = "active"
    /\ ~bundle[p].revoked

\* The runtime-authority test every grant-spending handler repeats: the
\* grant's bundle is the engagement's active one and neither the engagement
\* nor the process is halted.
AuthorityActive(p) ==
    LET e == EngagementOf[p] IN
    /\ engagement[e].policy = p
    /\ engagement[e].status = "active"
    /\ ~bundle[p].revoked
    /\ global = "active"

\* An unused, unrevoked, unexpired grant minted in the current epoch.
GrantSpendable(i) ==
    /\ grant[i].status = "issued"
    /\ i \notin lapsed
    /\ grant[i].epoch = engagement[EngOf(i)].epoch
    /\ AuthorityActive(PolicyOf[i])

AttestationValid(e, att) == att # 0 /\ attestation[e].valid = att

\* Prepared sessions of an engagement, without and with a request start.
Pending(e) == {i \in Intents : /\ EngOf(i) = e
                               /\ session[i].status = "prepared"
                               /\ session[i].start = "none"}

\* Mutant: every committed start is counted, also those of closed sessions.
StartedOrFinished(e) == {i \in Intents : /\ EngOf(i) = e
                                         /\ session[i].start = "committed"}

Started(e) == {i \in Intents : /\ EngOf(i) = e
                               /\ session[i].status = "prepared"
                               /\ session[i].start = "committed"}

\* _release_rate_reservation raises when a bucket is missing or belongs to
\* another bundle than the reservation.
RateReleasable(i) ==
    session[i].rate = "reserved" =>
        \A k \in {GlobalBucket, session[i].host} :
            bucket[EngOf(i)][k] = PolicyOf[i]

\* Mutant: a claim status the table does not know.
AbortedRowUnknownClaim(s) ==
    [s EXCEPT !.claim = IF @ = "claimed" THEN "cancelled" ELSE @,
              !.start = IF @ = "committed" THEN "cancelled" ELSE @,
              !.status = IF @ = "prepared" THEN "aborted" ELSE @]

\* Mutant: the reservation row is left behind when its session is aborted.
AbortedRowKeepingReservation(s) ==
    [s EXCEPT !.claim = IF @ = "claimed" THEN "abandoned" ELSE @,
              !.start = IF @ = "committed" THEN "cancelled" ELSE @,
              !.status = IF @ = "prepared" THEN "aborted" ELSE @]

\* Mutant: committed reservations are released with the reserved ones.
AbortedRowRefunding(s) ==
    [s EXCEPT !.claim = IF @ = "claimed" THEN "abandoned" ELSE @,
              !.start = IF @ = "committed" THEN "cancelled" ELSE @,
              !.reservation = IF @ \in {"reserved", "committed"} THEN "released" ELSE @,
              !.status = IF @ = "prepared" THEN "aborted" ELSE @]

\* What _abort_gateway_sessions does to one intent's rows.
AbortedRow(s) ==
    [host        |-> s.host,
     att         |-> s.att,
     reservation |-> IF s.reservation = "reserved" THEN "released" ELSE s.reservation,
     rate        |-> IF s.status = "prepared" /\ s.start = "none" /\ s.rate = "reserved"
                     THEN "released" ELSE s.rate,
     status      |-> IF s.status = "prepared" THEN "aborted" ELSE s.status,
     start       |-> IF s.start = "committed" THEN "cancelled" ELSE s.start,
     claim       |-> IF s.claim = "claimed" THEN "abandoned" ELSE s.claim,
     result      |-> s.result]

\* The CHECK constraints of budget_accounts and the rate release can refuse
\* the abort, and with it the whole transaction that asked for it.
AbortPossible(e) ==
    /\ \A i \in Pending(e) : RateReleasable(i)
    /\ Cardinality(Pending(e)) <= account[e].reserved
    /\ Cardinality(Pending(e)) + Cardinality(Started(e)) <= account[e].active

\* An UPDATE that adds to the three counters of an account.
Adjusted(a, reserved, committed, active) ==
    [requests    |-> a.requests,
     connections |-> a.connections,
     reserved    |-> a.reserved + reserved,
     committed   |-> a.committed + committed,
     active      |-> a.active + active]

AbortGatewaySessions(E) ==
    /\ \A e \in E : AbortPossible(e)
    /\ session' = [i \in Intents |->
                      IF EngOf(i) \in E THEN AbortedRow(session[i]) ELSE session[i]]
    /\ account' = [e \in Engagements |->
                      IF e \in E
                      THEN Adjusted(account[e], -Cardinality(Pending(e)), 0,
                              -(Cardinality(Pending(e)) + Cardinality(Started(e))))
                      ELSE account[e]]

\* Mutant: outstanding grants are forgotten.
RevokeNoGrants(E) == UNCHANGED grant

\* Mutant: the engagement filter is missing.
RevokeAllGrants(E) ==
    grant' = [i \in Intents |->
                 IF grant[i].status = "issued"
                 THEN [grant[i] EXCEPT !.status = "revoked"]
                 ELSE grant[i]]

RevokeUnusedGrants(E) ==
    grant' = [i \in Intents |->
                 IF EngOf(i) \in E /\ grant[i].status = "issued"
                 THEN [grant[i] EXCEPT !.status = "revoked"]
                 ELSE grant[i]]

InvalidateAttestations(E) ==
    attestation' = [e \in Engagements |->
                       IF e \in E
                       THEN [issued |-> attestation[e].issued, valid |-> 0, fresh |-> FALSE]
                       ELSE attestation[e]]

-----------------------------------------------------------------------------
(***************************************************************************)
(* The environment: time passes, storage fails.                            *)
(***************************************************************************)

\* The intent's expiry, its grant's or its committed deadline passes.  The
\* three are ordered (deadline <= grant expiry <= intent expiry) and only the
\* earliest one that applies is ever consulted, so one flag is enough; it is
\* raised only while a handler may still consult it.
LapseIntent(i) ==
    /\ i \notin lapsed
    /\ decision[i] = "allowed"
    /\ grant[i].status = "used" => session[i].status = "prepared"
    /\ lapsed' = lapsed \cup {i}
    /\ UNCHANGED <<global, latched, engagement, expired, bundle, attestation,
                   decision, grant, destination, session, account, bucket>>

\* expires_at of the engagement passes, and with it not_after of its bundles
\* and every shorter-lived grant or deadline derived from them.
ExpireEngagement(e) ==
    /\ e \notin expired
    /\ expired' = expired \cup {e}
    /\ lapsed' = lapsed \cup {i \in Intents : EngOf(i) = e}
    /\ UNCHANGED <<global, latched, engagement, bundle, attestation, decision,
                   grant, destination, session, account, bucket>>

LapseAttestation(e) ==
    /\ attestation[e].fresh
    /\ attestation' = [attestation EXCEPT ![e].fresh = FALSE]
    /\ lapsed' = lapsed \cup {i \in Started(e) : session[i].att = attestation[e].valid}
    /\ UNCHANGED <<global, latched, engagement, expired, bundle, decision, grant,
                   destination, session, account, bucket>>

\* The approval expires, or a newer manifest supersedes the approved one.
LapseApproval(p) ==
    /\ bundle[p].approved
    /\ ~bundle[p].activated
    /\ bundle' = [bundle EXCEPT ![p].approved = FALSE]
    /\ UNCHANGED <<global, latched, engagement, expired, attestation, decision,
                   grant, lapsed, destination, session, account, bucket>>

\* transaction() reports a storage failure to the latch.
TripLatch ==
    /\ ~latched
    /\ latched' = TRUE
    /\ UNCHANGED <<global, engagement, expired, bundle, attestation, decision,
                   grant, lapsed, destination, session, account, bucket>>

-----------------------------------------------------------------------------
(***************************************************************************)
(* Policy lifecycle.                                                       *)
(***************************************************************************)

\* approve_policy with decision "approved".  Version 2 bundles re-check the
\* safety state; version 1 approvals are unconditional.
ApprovePolicy(p) ==
    /\ ~bundle[p].approved
    /\ SchemaOf[p] = 2 =>
         /\ global = "active"
         /\ engagement[EngagementOf[p]].status \notin {"paused", "revoked"}
         /\ ~bundle[p].activated /\ ~bundle[p].revoked
         /\ EngagementOf[p] \notin expired
    /\ bundle' = [bundle EXCEPT ![p].approved = TRUE]
    /\ UNCHANGED <<global, latched, engagement, expired, attestation, decision,
                   grant, lapsed, destination, session, account, bucket>>

\* Mutant: activation does not look for the bundle it replaces.
ReplacedNothing(p) == {}

\* The bundles activation replaces: activated, unrevoked, same engagement.
Replaced(p) == {q \in Policies \ {p} : /\ EngagementOf[q] = EngagementOf[p]
                                       /\ bundle[q].activated
                                       /\ ~bundle[q].revoked}

ActivatePolicy(p) ==
    LET e == EngagementOf[p] IN
    /\ ~bundle[p].revoked /\ ~bundle[p].activated
    /\ bundle[p].approved
    /\ e \notin expired
    /\ SchemaOf[p] = 2 =>
         /\ global = "active"
         /\ engagement[e].status \notin {"paused", "revoked"}
    /\ bundle' = [q \in Policies |->
                    IF q = p THEN [bundle[q] EXCEPT !.activated = TRUE]
                    ELSE IF q \in Replaced(p) THEN [bundle[q] EXCEPT !.revoked = TRUE]
                    ELSE bundle[q]]
    /\ IF Replaced(p) # {}
       THEN /\ engagement[e].epoch < MaxEpoch
            /\ RevokeUnusedGrants({e})
            /\ engagement' = [engagement EXCEPT ![e] =
                  [status |-> "active", policy |-> p, epoch |-> @.epoch + 1]]
       ELSE /\ engagement' = [engagement EXCEPT ![e] =
                  [status |-> "active", policy |-> p, epoch |-> @.epoch]]
            /\ UNCHANGED grant
    /\ InvalidateAttestations({e})
    /\ AbortGatewaySessions({e})
    /\ UNCHANGED <<global, latched, expired, decision, lapsed, destination, bucket>>

\* The lifecycle trigger of version 2 bundles only lets an active one be
\* revoked; a version 1 bundle can be revoked in any state.
RevokePolicy(p) ==
    LET e == EngagementOf[p] IN
    /\ SchemaOf[p] = 2 => bundle[p].activated /\ ~bundle[p].revoked
    /\ engagement[e].epoch < MaxEpoch
    /\ bundle' = [bundle EXCEPT ![p].revoked = TRUE]
    /\ engagement' = [engagement EXCEPT ![e] =
          [status |-> "revoked", policy |-> NoPolicy, epoch |-> @.epoch + 1]]
    /\ RevokeUnusedGrants({e})
    /\ InvalidateAttestations({e})
    /\ AbortGatewaySessions({e})
    /\ UNCHANGED <<global, latched, expired, decision, lapsed, destination, bucket>>

-----------------------------------------------------------------------------
(***************************************************************************)
(* From an intent to a grant.                                              *)
(***************************************************************************)

\* evaluate_intent reads the engagement, the safety state and the bundle
\* before its first INSERT opens the write transaction ...
EvaluateRead(i) ==
    /\ ~latched
    /\ decision[i] = "none"
    /\ AuthorityActive(PolicyOf[i])
    /\ SchemaOf[PolicyOf[i]] = 1
    /\ bundle[PolicyOf[i]].activated
    /\ i \notin lapsed
    /\ decision' = [decision EXCEPT ![i] = "read"]
    /\ UNCHANGED <<global, latched, engagement, expired, bundle, attestation,
                   grant, lapsed, destination, session, account, bucket>>

\* ... and stores an allow decision for what it read, without looking again.
EvaluateWrite(i) ==
    /\ decision[i] = "read"
    /\ decision' = [decision EXCEPT ![i] = "allowed"]
    /\ UNCHANGED <<global, latched, engagement, expired, bundle, attestation,
                   grant, lapsed, destination, session, account, bucket>>

\* mint_action_grant; a second mint for the decision returns the stored grant.
MintGrant(i, audience) ==
    /\ decision[i] = "allowed"
    /\ AuthorityActive(PolicyOf[i])
    /\ SchemaOf[PolicyOf[i]] = 1
    /\ bundle[PolicyOf[i]].activated
    /\ grant[i].status = "none"
    /\ i \notin lapsed
    /\ grant' = [grant EXCEPT ![i] = [status |-> "issued", audience |-> audience,
                                      epoch |-> engagement[EngOf(i)].epoch]]
    /\ UNCHANGED <<global, latched, engagement, expired, bundle, attestation,
                   decision, lapsed, destination, session, account, bucket>>

\* consume_action_grant, by the audience the grant names.
ConsumeGrant(i) ==
    /\ ~latched
    /\ GrantSpendable(i)
    /\ bundle[PolicyOf[i]].activated
    /\ grant' = [grant EXCEPT ![i].status = "used"]
    /\ UNCHANGED <<global, latched, engagement, expired, bundle, attestation,
                   decision, lapsed, destination, session, account, bucket>>

-----------------------------------------------------------------------------
(***************************************************************************)
(* From a gateway grant to an accounted request.                           *)
(***************************************************************************)

\* record_network_attestation replaces the engagement's valid attestation.
RecordAttestation(e) ==
    /\ engagement[e].policy # NoPolicy
    /\ AuthorityActive(engagement[e].policy)
    /\ bundle[engagement[e].policy].activated
    /\ SchemaOf[engagement[e].policy] = 1
    /\ attestation[e].issued < MaxAttestations
    /\ attestation' = [attestation EXCEPT ![e] =
          [issued |-> @.issued + 1, valid |-> @.issued + 1, fresh |-> TRUE]]
    /\ UNCHANGED <<global, latched, engagement, expired, bundle, decision, grant,
                   lapsed, destination, session, account, bucket>>

AuthorizeDestination(i, h) ==
    LET e == EngOf(i) IN
    /\ GrantSpendable(i)
    /\ grant[i].audience = "gateway"
    /\ attestation[e].valid # 0 /\ attestation[e].fresh
    /\ destination' = [destination EXCEPT ![i] = @ \cup {<<h, attestation[e].valid>>}]
    /\ UNCHANGED <<global, latched, engagement, expired, bundle, attestation,
                   decision, grant, lapsed, session, account, bucket>>

\* Mutant: requests already committed are not counted against the limit.
BudgetAllowsReserved(e, p) ==
    /\ account[e].reserved + 1 <= RequestLimit[p]
    /\ account[e].active + 1 <= ConnectionLimit[p]

\* The conditional UPDATE of budget_accounts, under the bundle's own limits.
BudgetAllows(e, p) ==
    /\ account[e].reserved + account[e].committed + 1 <= RequestLimit[p]
    /\ account[e].active + 1 <= ConnectionLimit[p]

\* prepare_gateway_session: the account takes the bundle's limits, one request
\* and one connection are reserved under them, both rate buckets move to the
\* bundle, and the three rows are inserted.  A drained bucket refuses the
\* preparation; the tokens themselves are not modelled.
PrepareSession(i, d) ==
    LET e == EngOf(i)
        p == PolicyOf[i]
    IN
    /\ ~latched
    /\ d \in destination[i]
    /\ session[i].reservation = "none"
    /\ GrantSpendable(i)
    /\ grant[i].audience = "gateway"
    /\ AttestationValid(e, d[2])
    /\ BudgetAllows(e, p)
    /\ account' = [account EXCEPT ![e] =
          [requests |-> RequestLimit[p], connections |-> ConnectionLimit[p],
           reserved |-> @.reserved + 1, committed |-> @.committed,
           active |-> @.active + 1]]
    /\ bucket' = [bucket EXCEPT ![e] =
          [k \in BucketKeys |-> IF k \in {GlobalBucket, d[1]} THEN p ELSE bucket[e][k]]]
    /\ session' = [session EXCEPT ![i] =
          [host |-> d[1], att |-> d[2], reservation |-> "reserved",
           rate |-> "reserved", status |-> "prepared", start |-> "none",
           claim |-> "none", result |-> FALSE]]
    /\ UNCHANGED <<global, latched, engagement, expired, bundle, attestation,
                   decision, grant, lapsed, destination>>

\* commit_gateway_request_start: the grant is spent and the reservation turned
\* into a committed request before anything leaves the host.
CommitStart(i) ==
    LET e == EngOf(i) IN
    /\ ~latched
    /\ session[i].status = "prepared" /\ session[i].start = "none"
    /\ session[i].reservation = "reserved" /\ session[i].rate = "reserved"
    /\ GrantSpendable(i)
    /\ grant[i].audience = "gateway"
    /\ bundle[PolicyOf[i]].activated
    /\ AttestationValid(e, session[i].att) /\ attestation[e].fresh
    /\ account[e].reserved >= 1
    /\ grant' = [grant EXCEPT ![i].status = "used"]
    /\ account' = [account EXCEPT ![e] = Adjusted(@, -1, 1, 0)]
    /\ session' = [session EXCEPT ![i] =
          [host |-> @.host, att |-> @.att, reservation |-> "committed",
           rate |-> "committed", status |-> @.status, start |-> "committed",
           claim |-> @.claim, result |-> @.result]]
    /\ UNCHANGED <<global, latched, engagement, expired, bundle, attestation,
                   decision, lapsed, destination, bucket>>

\* Mutant: any committed start can be claimed, also a finalized one.
ClaimAnyStart(i) ==
    /\ ~latched
    /\ session[i].claim = "none"
    /\ session[i].start = "committed"
    /\ session' = [session EXCEPT ![i].claim = "claimed"]
    /\ UNCHANGED <<global, latched, engagement, expired, bundle, attestation,
                   decision, grant, lapsed, destination, account, bucket>>

\* claim_gateway_fixture_execution by the contained runtime of the session.
ClaimExecution(i) ==
    /\ ~latched
    /\ session[i].claim = "none" /\ ~session[i].result
    /\ session[i].start = "committed" /\ session[i].status = "prepared"
    /\ session[i].reservation = "committed" /\ session[i].rate = "committed"
    /\ grant[i].status = "used"
    /\ i \notin lapsed
    /\ session' = [session EXCEPT ![i].claim = "claimed"]
    /\ UNCHANGED <<global, latched, engagement, expired, bundle, attestation,
                   decision, grant, lapsed, destination, account, bucket>>

\* finalize_gateway_request accounts for the response, late ones included; an
\* execution claim, when there is one, must still be held.
FinalizeRequest(i) ==
    LET e == EngOf(i) IN
    /\ ~session[i].result
    /\ session[i].claim \in {"none", "claimed"}
    /\ session[i].start = "committed" /\ session[i].status = "prepared"
    /\ account[e].active >= 1
    /\ session' = [session EXCEPT ![i] =
          [host |-> @.host, att |-> @.att, reservation |-> @.reservation,
           rate |-> @.rate, status |-> "closed", start |-> @.start,
           claim |-> IF @.claim = "claimed" THEN "completed" ELSE @.claim,
           result |-> TRUE]]
    /\ account' = [account EXCEPT ![e] = Adjusted(@, 0, 0, -1)]
    /\ UNCHANGED <<global, latched, engagement, expired, bundle, attestation,
                   decision, grant, lapsed, destination, bucket>>

\* abort_gateway_session refunds a session that committed no start.
AbortSession(i) ==
    LET e == EngOf(i) IN
    /\ session[i].status = "prepared" /\ session[i].start = "none"
    /\ RateReleasable(i)
    /\ account[e].reserved >= 1 /\ account[e].active >= 1
    /\ session' = [session EXCEPT ![i] = AbortedRow(@)]
    /\ account' = [account EXCEPT ![e] = Adjusted(@, -1, 0, -1)]
    /\ UNCHANGED <<global, latched, engagement, expired, bundle, attestation,
                   decision, grant, lapsed, destination, bucket>>

-----------------------------------------------------------------------------
(***************************************************************************)
(* Halting and resuming.                                                   *)
(***************************************************************************)

\* The body shared by a global halt and by startup recovery.
HaltEverything ==
    /\ \A e \in Engagements : engagement[e].status = "active" =>
                                  engagement[e].epoch < MaxEpoch
    /\ RevokeUnusedGrants(Engagements)
    /\ engagement' = [e \in Engagements |->
          IF engagement[e].status = "active"
          THEN [status |-> "paused", policy |-> engagement[e].policy,
                epoch |-> engagement[e].epoch + 1]
          ELSE engagement[e]]
    /\ InvalidateAttestations(Engagements)
    /\ AbortGatewaySessions(Engagements)
    /\ UNCHANGED <<expired, bundle, lapsed, destination, bucket>>

HaltGlobal(status) ==
    /\ status \in {"paused", "stopped"}
    /\ global' = status
    /\ HaltEverything
    /\ UNCHANGED <<latched, decision>>

ResumeGlobal ==
    /\ global' = "active"
    /\ UNCHANGED <<latched, engagement, expired, bundle, attestation, decision,
                   grant, lapsed, destination, session, account, bucket>>

\* set_assessment_safety("paused"): by a human, or by attest_network and
\* verify_network_identity whenever the measured identity disagrees.
PauseAssessment(e) ==
    /\ engagement[e].epoch < MaxEpoch
    /\ RevokeUnusedGrants({e})
    /\ engagement' = [engagement EXCEPT ![e] =
          [status |-> "paused", policy |-> @.policy, epoch |-> @.epoch + 1]]
    /\ InvalidateAttestations({e})
    /\ AbortGatewaySessions({e})
    /\ UNCHANGED <<global, latched, expired, bundle, decision, lapsed,
                   destination, bucket>>

ResumeAssessment(e) ==
    LET p == engagement[e].policy IN
    /\ global = "active"
    /\ p # NoPolicy
    /\ bundle[p].activated /\ ~bundle[p].revoked
    /\ SchemaOf[p] = 1
    /\ e \notin expired
    /\ engagement' = [engagement EXCEPT ![e].status = "active"]
    /\ UNCHANGED <<global, latched, expired, bundle, attestation, decision,
                   grant, lapsed, destination, session, account, bucket>>

\* The process stops at any point between two transactions; create_app of the
\* next one clears the in-memory latch and runs recover_startup.
Restart ==
    /\ global' = "paused"
    /\ latched' = FALSE
    /\ decision' = [i \in Intents |->
                       IF decision[i] = "read" THEN "none" ELSE decision[i]]
    /\ HaltEverything

PolicyStep ==
    \E p \in Policies :
        LapseApproval(p) \/ ApprovePolicy(p) \/ ActivatePolicy(p) \/ RevokePolicy(p)

IntentStep ==
    \E i \in Intents :
        \/ LapseIntent(i)
        \/ EvaluateRead(i)
        \/ EvaluateWrite(i)
        \/ \E audience \in {"broker", "gateway"} : MintGrant(i, audience)
        \/ ConsumeGrant(i)
        \/ \E h \in Hosts : AuthorizeDestination(i, h)
        \/ \E d \in destination[i] : PrepareSession(i, d)
        \/ CommitStart(i)
        \/ ClaimExecution(i)
        \/ FinalizeRequest(i)
        \/ AbortSession(i)

EngagementStep ==
    \E e \in Engagements :
        \/ ExpireEngagement(e)
        \/ LapseAttestation(e)
        \/ RecordAttestation(e)
        \/ PauseAssessment(e)
        \/ ResumeAssessment(e)

SafetyStep ==
    \/ TripLatch
    \/ \E status \in {"paused", "stopped"} : HaltGlobal(status)
    \/ ResumeGlobal
    \/ Restart

Next == PolicyStep \/ IntentStep \/ EngagementStep \/ SafetyStep

Spec == Init /\ [][Next]_vars

-----------------------------------------------------------------------------
(***************************************************************************)
(* Properties.                                                             *)
(***************************************************************************)

InReservation(e, status) ==
    {i \in Intents : EngOf(i) = e /\ session[i].reservation = status}

PreparedSessions(e) ==
    {i \in Intents : EngOf(i) = e /\ session[i].status = "prepared"}

\* budget_accounts is a cache of the reservation and session rows: after any
\* interleaving of prepare, commit, finalize, abort and halts its three
\* counters still count exactly the rows they stand for.
AccountsBalance ==
    \A e \in Engagements :
        /\ account[e].reserved = Cardinality(InReservation(e, "reserved"))
        /\ account[e].committed = Cardinality(InReservation(e, "committed"))
        /\ account[e].active = Cardinality(PreparedSessions(e))

\* "Conditional counter updates prevent total-request or concurrency
\* oversubscription": the counters never exceed the limits stored beside them,
\* although every preparation may overwrite those limits by another bundle's.
WithinBudget ==
    \A e \in Engagements :
        /\ account[e].reserved + account[e].committed <= account[e].requests
        /\ account[e].active <= account[e].connections

\* No authority survives a halt: an unused grant, a prepared session or a held
\* execution claim exists only while its engagement and the process are active
\* under the bundle it was issued for, in the epoch it was issued in.
NoAuthorityUnderHalt ==
    \A i \in Intents :
        (grant[i].status = "issued" \/ session[i].status = "prepared"
            \/ session[i].claim = "claimed") =>
        /\ AuthorityActive(PolicyOf[i])
        /\ bundle[PolicyOf[i]].activated
        /\ grant[i].epoch = engagement[EngOf(i)].epoch

\* Emergency stop is unconditional: _abort_gateway_sessions, which every halt
\* runs inside its transaction, is never refused by a rate bucket that moved to
\* another bundle or by a counter that would become negative.
HaltNeverRefused == \A e \in Engagements : AbortPossible(e)

\* A request start exists only for a spent grant and a committed reservation,
\* and a result only for a session that a committed start led to; a cancelled
\* request whose session was aborted never gets one.
StartsAreAccounted ==
    \A i \in Intents :
        LET s == session[i] IN
        /\ s.start # "none" => /\ grant[i].status = "used"
                               /\ s.reservation = "committed"
                               /\ s.rate = "committed"
        /\ s.result <=> s.status = "closed"
        /\ s.result => s.start # "none" /\ s.claim \in {"none", "completed"}
        /\ s.claim = "claimed" => s.start = "committed" /\ s.status = "prepared"

LivePolicy(p) == bundle[p].activated /\ ~bundle[p].revoked

\* The bundle an engagement points at is its own, activated and not revoked; an
\* active engagement points at one; and however activations, replacements and
\* revocations of inactive bundles are ordered, no engagement has two live ones.
OneActivePolicy ==
    /\ \A e \in Engagements : engagement[e].policy # NoPolicy =>
          /\ EngagementOf[engagement[e].policy] = e
          /\ LivePolicy(engagement[e].policy)
    /\ \A e \in Engagements :
          engagement[e].status = "active" => engagement[e].policy # NoPolicy
    /\ \A p, q \in Policies :
          LivePolicy(p) /\ LivePolicy(q) /\ EngagementOf[p] = EngagementOf[q] => p = q

\* How one intent's rows hang together; the shape the properties above rest on.
SessionShape ==
    \A i \in Intents :
        LET s == session[i] IN
        /\ s.reservation = "reserved" <=> (s.status = "prepared" /\ s.start = "none")
        /\ s.reservation = "committed" <=> s.start # "none"
        /\ s.reservation = "none" \/ grant[i].status = "none" => s.status = "none"
        /\ s.status = "prepared" => s.start \in {"none", "committed"}
        /\ s.start = "none" => s.claim = "none"
        /\ s.reservation = "reserved" => s.rate = "reserved"
        /\ s.start # "none" => s.rate = "committed" /\ grant[i].status = "used"
        /\ s.result <=> s.status = "closed"
        /\ s.result => s.start # "none" /\ s.claim \in {"none", "completed"}
        /\ s.claim = "claimed" => s.start = "committed" /\ s.status = "prepared"

\* The buckets a pending session drew from still belong to its bundle.
BucketsMatch ==
    \A i \in Intents : session[i].reservation = "reserved" =>
        \A k \in {GlobalBucket, session[i].host} :
            bucket[EngOf(i)][k] = PolicyOf[i]

\* The inductive invariant from which the safety properties follow.
IInv ==
    /\ TypeOK
    /\ OneActivePolicy
    /\ SessionShape
    /\ NoAuthorityUnderHalt
    /\ BucketsMatch
    /\ AccountsBalance
    /\ WithinBudget

\* The rows that one engagement's authority consists of.
Footprint(e) ==
    <<engagement[e], attestation[e], account[e], bucket[e],
      [i \in {j \in Intents : EngOf(j) = e} |-> <<grant[i], session[i]>>]>>

\* Pausing, revoking or replacing the policy of one assessment leaves every
\* other assessment's grants, sessions, attestations and counters alone: only
\* a global halt changes the rows of two engagements in one transaction.
AssessmentsIsolated ==
    [][\A e, f \in Engagements :
          (e # f /\ Footprint(e)' # Footprint(e) /\ Footprint(f)' # Footprint(f))
          => global' # "active"]_vars

\* "Committed request and rate capacity cannot be released": neither an abort,
\* a halt nor a restart gives back what commit_gateway_request_start took.
CommittedStaysCommitted ==
    [][/\ \A i \in Intents : session[i].reservation = "committed" =>
              session'[i].reservation = "committed" /\ session'[i].rate = "committed"
       /\ \A e \in Engagements : account'[e].committed >= account[e].committed]_vars

\* "Pause, stop, and recovery cancel the pending handoff": a request that was
\* already finalized is not a pending handoff, so its start stays committed.
OnlyPendingHandoffsCancelled ==
    \A i \in Intents : session[i].start = "cancelled" => ~session[i].result

-----------------------------------------------------------------------------
(***************************************************************************)
(* Refinement: the tables implement RequestAuthority.                      *)
(***************************************************************************)

LiveEngagements ==
    {e \in Engagements : global = "active" /\ engagement[e].status = "active"}

PhaseOf(i) ==
    CASE session[i].result -> "finished"
      [] ~session[i].result /\ session[i].start = "committed" -> "started"
      [] ~session[i].result /\ session[i].start = "cancelled" -> "void"
      [] session[i].start = "none" /\ grant[i].status = "used" -> "spent"
      [] session[i].start = "none" /\ grant[i].status = "revoked" -> "void"
      [] session[i].start = "none" /\ grant[i].status = "issued" ->
            (CASE session[i].status = "prepared" -> "reserved"
               [] session[i].status = "aborted" -> "refunded"
               [] OTHER -> "granted")
      [] OTHER -> "idle"

Authority ==
    INSTANCE RequestAuthority WITH
        Owner <- [i \in Intents |-> EngOf(i)],
        live <- LiveEngagements,
        phase <- [i \in Intents |-> PhaseOf(i)]

\* Every behaviour of the control plane is a behaviour of RequestAuthority: at
\* most one external effect per intent, and halts void what is outstanding in
\* the same step that stops the engagement, for good.
ImplementsRequestAuthority == Authority!Spec
=============================================================================
