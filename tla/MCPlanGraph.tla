---------------------------- MODULE MCPlanGraph ----------------------------
(* Instances of PlanGraph.                                                 *)
EXTENDS PlanGraph, TLC

CONSTANTS t1, t2, t3, t4

Three == {t1, t2, t3}

\* Two chains, and a gated task behind two others.
ChainAndJoin == {[tasks |-> {t2, t3}, edges |-> {<<t2, t3>>}, gated |-> {}],
                 [tasks |-> Three, edges |-> {<<t1, t2>>, <<t2, t3>>}, gated |-> {}],
                 [tasks |-> Three, edges |-> {<<t1, t3>>, <<t2, t3>>}, gated |-> {t3}]}

\* Every dependency graph over three tasks in which some wait for each other.
Cyclic == {[tasks |-> Three, edges |-> E, gated |-> {}] :
              E \in {X \in SUBSET (Three \X Three) :
                        \E S \in SUBSET Three \ {{}} : \A t \in S : \E q \in S : <<q, t>> \in X}}

\* A chain whose first task needs a human, and two independent tasks of which
\* one does.
GatedPairs == {[tasks |-> {t1, t4}, edges |-> {<<t1, t4>>}, gated |-> {t1}],
               [tasks |-> {t1, t4}, edges |-> {}, gated |-> {t4}]}

AllPlans == ChainAndJoin \cup Cyclic \cup GatedPairs

CommandSymmetry == Permutations(Commands)

\* How far a plan of three tasks is followed: one process and one lease a task.
Readiness ==
    /\ graph.tasks \subseteq Three /\ session = 1
    /\ \A t \in Tasks : fence[t].generation <= 1

\* How far a pair of tasks is: leases taken again and a restart.
Races == graph.tasks \subseteq {t1, t4} /\ plan.revision <= 5

MCSpec == Init /\ [][Next /\ (Readiness \/ Races)']_vars
=============================================================================
