-------------------------- MODULE MCWorkflowTasks --------------------------
(* An instance of WorkflowTasks that is explored in two directions.        *)
EXTENDS WorkflowTasks, TLC

CONSTANTS w1, t1, t2, k1, k2, p1, p2, key1, key2

OneWorkflow == [t \in Tasks |-> w1]

\* Two tasks, one possibly the parent of the other, one worker, one restart.
Family ==
    /\ boot <= 1 /\ authority \in {p1, NoPolicy} /\ mine[k2] = NoLease
    /\ \A t \in Tasks : /\ checkpoint[t].progress = 0 /\ life[t].version <= 5
                        /\ \A r \in receipt[t] : r.key = key1
    /\ workflow[w1].version <= 5

\* One task contended by two workers over two attempts, policies and restarts.
Contention == row[t2] = "none"

MCSpec == Init /\ [][Next /\ (Family \/ Contention)']_vars
=============================================================================
