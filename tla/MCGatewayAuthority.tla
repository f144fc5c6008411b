------------------------- MODULE MCGatewayAuthority -------------------------
(* An instance of GatewayAuthority that is explored in three directions.   *)
EXTENDS GatewayAuthority, TLC

CONSTANTS e1, e2, p1, p2, p3, i1, i2, i3, h1

\* Bundle p1 of e1 is replaced by p2, whose limits are tighter and for whose one
\* request two intents compete; e2 has a version 2 bundle.
MCEngagementOf == p1 :> e1 @@ p2 :> e1 @@ p3 :> e2
MCSchemaOf == p1 :> 1 @@ p2 :> 1 @@ p3 :> 2
MCPolicyOf == i1 :> p1 @@ i2 :> p2 @@ i3 :> p2
MCRequestLimit == p1 :> 2 @@ p2 :> 1 @@ p3 :> 1
MCConnectionLimit == p1 :> 1 @@ p2 :> 1 @@ p3 :> 1

\* At most one of the two intents for the same request is used.
OneCompetitor == \E i \in {i2, i3} : decision[i] = "none"

\* The other engagement is left alone.
OtherIdle ==
    /\ ~bundle[p3].approved /\ engagement[e2].status = "draft"
    /\ e2 \notin expired /\ attestation[e2].issued = 0

\* One bundle for each engagement, one attestation, one halt.
NoReplacement ==
    /\ ~bundle[p1].approved /\ decision[i1] = "none"
    /\ \A e \in Engagements : engagement[e].epoch <= 1 /\ attestation[e].issued <= 1

\* One engagement whose bundle is replaced, one whose intents compete, or two
\* engagements: two of the three keep still.  The storage latch, which every
\* handler consults alike, trips in the last two.
Scope ==
    \/ OneCompetitor /\ OtherIdle /\ ~latched
    \/ NoReplacement /\ (OneCompetitor \/ OtherIdle)

MCSpec == Init /\ [][Next /\ Scope']_vars

IntentSymmetry == Permutations({i2, i3})
=============================================================================
