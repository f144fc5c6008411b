--------------------------- MODULE MCRetrySystem ---------------------------
(* Instances of RetrySystem for TLC.                                       *)
EXTENDS RetrySystem

MCCeilings ==
    [assessment |-> [work |-> 3, retries |-> 2], per_task |-> [work |-> 3, retries |-> 2]]

MCRequests == {[work |-> 1, retries |-> 0], [work |-> 0, retries |-> 2]}
=============================================================================
