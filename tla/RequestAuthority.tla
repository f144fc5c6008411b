-------------------------- MODULE RequestAuthority --------------------------
(***************************************************************************)
(* What the authority control plane promises, without tables: every intent *)
(* goes at most once through grant, reservation and start to one external  *)
(* effect, only while its engagement is live, and a halt voids everything  *)
(* outstanding in the same step that takes the engagement down.  What was  *)
(* voided stays void.                                                      *)
(***************************************************************************)
CONSTANTS
    Engagements,
    Intents,
    Owner         \* the engagement each intent belongs to

VARIABLES
    live,         \* engagements under which authority may be used
    phase         \* how far each intent has come

vars == <<live, phase>>

\* Authority that could still turn into an external effect.
Outstanding == {"granted", "reserved", "refunded", "started"}

Init ==
    /\ live = {}
    /\ phase = [i \in Intents |-> "idle"]

Move(i, from, to) ==
    /\ Owner[i] \in live
    /\ phase[i] \in from
    /\ phase' = [phase EXCEPT ![i] = to]
    /\ UNCHANGED live

Grant(i) == Move(i, {"idle"}, "granted")

Reserve(i) == Move(i, {"granted"}, "reserved")

Refund(i) == Move(i, {"reserved"}, "refunded")

Start(i) == Move(i, {"reserved"}, "started")

Finish(i) == Move(i, {"started"}, "finished")

\* The grant is used without a gateway request.
Spend(i) == Move(i, {"granted", "reserved", "refunded"}, "spent")

\* A halt, or a change of policy, of the engagements E; those in L are live
\* again afterwards, under new authority.
Reset(E, L) ==
    /\ live' = (live \ E) \cup L
    /\ phase' = [i \in Intents |->
                    IF Owner[i] \in E /\ phase[i] \in Outstanding
                    THEN "void" ELSE phase[i]]

Resume(E) ==
    /\ live' = live \cup E
    /\ UNCHANGED phase

Next ==
    \/ \E E \in SUBSET Engagements :
          Resume(E) \/ \E L \in SUBSET E : Reset(E, L)
    \/ \E i \in Intents : \/ Grant(i) \/ Reserve(i) \/ Refund(i)
                          \/ Start(i) \/ Finish(i) \/ Spend(i)

Spec == Init /\ [][Next]_vars
=============================================================================
