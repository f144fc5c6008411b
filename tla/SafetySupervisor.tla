-------------------------- MODULE SafetySupervisor --------------------------
(***************************************************************************)
(* The watchdog threads of the core, of three kinds with the same skeleton *)
(* and different locking and latching:                                     *)
(*   network   NetworkSafetySupervisor, network_safety_supervisor.py       *)
(*   runtime   GatewayRuntimeSupervisor, gateway_runtime_supervisor.py     *)
(*   worker    WorkerContainmentSupervisor,                                *)
(*             worker_containment_supervisor.py                            *)
(* create_app starts a supervisor before it serves; the shutdown endpoint, *)
(* which several requests may hit at once, and the framework's shutdown    *)
(* handler stop it.  A step is what a thread does between two points where *)
(* another can get in: the network supervisor pauses safety and writes its *)
(* status under one lock, the others pause first and lock only to write.   *)
(***************************************************************************)
EXTENDS Naturals

CONSTANTS
    Kinds,     \* the supervisors explored, of network, runtime and worker
    Callers    \* the threads that call stop

ASSUME SupervisorAssumption ==
    Kinds \subseteq {"network", "runtime", "worker"} /\ "watchdog" \notin Callers

Threads == Callers \cup {"watchdog"}

VARIABLES
    kind,        \* which supervisor this is
    snapshot,    \* _snapshot.status
    stopping,    \* the _stop event
    thread,      \* _thread is not None
    pc,          \* where each thread is
    safety,      \* the last word of pause_safety: paused, or failed and never paused
    terminated   \* terminate_workers was called

vars == <<kind, snapshot, stopping, thread, pc, safety, terminated>>

Init ==
    /\ kind \in Kinds
    /\ snapshot = "stopped" /\ stopping = FALSE /\ thread = FALSE
    /\ pc = [x \in Threads |-> "unborn"]
    /\ safety = "untouched" /\ terminated = FALSE

Goto(x, l) == pc' = [pc EXCEPT ![x] = l]

PausedOr(ok) == IF ok \/ safety = "paused" THEN "paused" ELSE "failed"

-----------------------------------------------------------------------------
(* start, run by create_app before any other thread can see the object, so *)
(* that its intermediate status is never read.                             *)

Starts ==
    /\ pc["watchdog"] = "unborn"
    /\ snapshot' = "ready" /\ thread' = TRUE
    /\ Goto("watchdog", "waiting")
    /\ UNCHANGED <<kind, stopping, safety, terminated>>

StartFails(ok) ==
    /\ pc["watchdog"] = "unborn"
    /\ snapshot' = "degraded" /\ safety' = PausedOr(ok)
    /\ terminated' = (kind = "worker")
    /\ Goto("watchdog", "done")
    /\ UNCHANGED <<kind, stopping, thread>>

-----------------------------------------------------------------------------
(* The watchdog loop.                                                      *)

Wake ==
    /\ pc["watchdog"] = "waiting"
    /\ Goto("watchdog", IF stopping THEN "done" ELSE "checking")
    /\ UNCHANGED <<kind, snapshot, stopping, thread, safety, terminated>>

\* The runtime supervisor has nothing to publish after a good check.
Check(good) ==
    /\ pc["watchdog"] = "checking"
    /\ Goto("watchdog", IF ~good THEN "pausing"
                        ELSE IF kind = "runtime" THEN "waiting" ELSE "publishing")
    /\ UNCHANGED <<kind, snapshot, stopping, thread, safety, terminated>>

\* Mutant: the stop event is not tested under the lock.
PublishAnyway ==
    /\ pc["watchdog"] = "publishing"
    /\ Goto("watchdog", "waiting")
    /\ snapshot' = "ready"
    /\ UNCHANGED <<kind, stopping, thread, safety, terminated>>

Publish ==
    /\ pc["watchdog"] = "publishing"
    /\ Goto("watchdog", IF stopping THEN "done" ELSE "waiting")
    /\ snapshot' = IF stopping THEN snapshot ELSE "ready"
    /\ UNCHANGED <<kind, stopping, thread, safety, terminated>>

-----------------------------------------------------------------------------
(* _degrade, by the watchdog or by a caller of stop.                       *)

\* Mutant: the status is written before the consequences.
WriteBeforePause(x, ok) ==
    /\ pc[x] = "pausing"
    /\ Goto(x, IF kind = "worker" THEN "terminating" ELSE "done")
    /\ snapshot' = "degraded"
    /\ UNCHANGED <<kind, stopping, thread, safety, terminated>>

\* Mutant: a failing pause ends the watchdog thread.
PauseUncaught(x, ok) ==
    /\ pc[x] = "pausing"
    /\ LET dies == x = "watchdog" /\ ~ok IN
       /\ safety' = IF dies THEN safety ELSE PausedOr(ok)
       /\ Goto(x, IF kind = "network" \/ dies THEN "done"
                  ELSE IF kind = "worker" THEN "terminating" ELSE "writing")
       /\ snapshot' = IF kind = "network" /\ ~dies THEN "degraded" ELSE snapshot
    /\ UNCHANGED <<kind, stopping, thread, terminated>>

Pause(x, ok) ==
    /\ pc[x] = "pausing"
    /\ safety' = PausedOr(ok)
    /\ IF kind = "network"
       THEN Goto(x, "done") /\ snapshot' = "degraded"
       ELSE Goto(x, IF kind = "worker" THEN "terminating" ELSE "writing") /\ UNCHANGED snapshot
    /\ UNCHANGED <<kind, stopping, thread, terminated>>

Terminate(x) ==
    /\ pc[x] = "terminating"
    /\ terminated' = TRUE
    /\ Goto(x, "writing")
    /\ UNCHANGED <<kind, snapshot, stopping, thread, safety>>

Write(x) ==
    /\ pc[x] = "writing"
    /\ snapshot' = "degraded"
    /\ thread' = (thread /\ kind # "worker")
    /\ stopping' = (stopping \/ x = "watchdog")
    /\ Goto(x, "done")
    /\ UNCHANGED <<kind, safety, terminated>>

-----------------------------------------------------------------------------
(* stop.                                                                   *)

StopIdle(c) ==
    /\ pc[c] = "unborn" /\ pc["watchdog"] # "unborn"
    /\ IF kind = "network" THEN ~thread ELSE snapshot = "stopped"
    /\ snapshot' = IF snapshot = "degraded" THEN snapshot ELSE "stopped"
    /\ Goto(c, "done")
    /\ UNCHANGED <<kind, stopping, thread, safety, terminated>>

\* Without a thread there is nothing to join.
StopBegin(c) ==
    /\ pc[c] = "unborn" /\ pc["watchdog"] # "unborn"
    /\ IF kind = "network" THEN thread ELSE snapshot # "stopped"
    /\ stopping' = TRUE
    /\ Goto(c, IF thread THEN "joining" ELSE IF kind = "runtime" THEN "recovering" ELSE "finishing")
    /\ UNCHANGED <<kind, snapshot, thread, safety, terminated>>

\* Mutant: the joined thread is not tested for life.
JoinedAnyway(c) ==
    /\ pc[c] = "joining"
    /\ Goto(c, IF kind = "runtime" THEN "recovering" ELSE "finishing")
    /\ UNCHANGED <<kind, snapshot, stopping, thread, safety, terminated>>

Joined(c) ==
    /\ pc[c] = "joining" /\ pc["watchdog"] = "done"
    /\ Goto(c, IF kind = "runtime" THEN "recovering" ELSE "finishing")
    /\ UNCHANGED <<kind, snapshot, stopping, thread, safety, terminated>>

\* Mutant: join has no timeout.
JoinWithoutTimeout(c, ok) == Joined(c)

\* The network supervisor tests the thread and degrades under one lock.
JoinTimesOut(c, ok) ==
    /\ pc[c] = "joining" /\ pc["watchdog"] # "done"
    /\ IF kind = "network"
       THEN Goto(c, "done") /\ snapshot' = "degraded" /\ thread' = FALSE /\ safety' = PausedOr(ok)
       ELSE Goto(c, "pausing") /\ UNCHANGED <<snapshot, thread, safety>>
    /\ UNCHANGED <<kind, stopping, terminated>>

\* The runtime supervisor repeats the recovery before it reports stopped.
Recover(c, ok) ==
    /\ pc[c] = "recovering"
    /\ Goto(c, IF ok THEN "finishing" ELSE "pausing")
    /\ UNCHANGED <<kind, snapshot, stopping, thread, safety, terminated>>

\* Mutant: stop always reports stopped.
FinishUnlatched(c) ==
    /\ pc[c] = "finishing"
    /\ thread' = FALSE
    /\ snapshot' = "stopped"
    /\ Goto(c, "done")
    /\ UNCHANGED <<kind, stopping, safety, terminated>>

\* Only the runtime supervisor takes a degraded status back.
Finish(c) ==
    /\ pc[c] = "finishing"
    /\ thread' = FALSE
    /\ snapshot' = IF snapshot = "degraded" /\ kind # "runtime" THEN snapshot ELSE "stopped"
    /\ Goto(c, "done")
    /\ UNCHANGED <<kind, stopping, safety, terminated>>

Degrade(x) == (\E ok \in BOOLEAN : Pause(x, ok)) \/ Terminate(x) \/ Write(x)

Stop(c) ==
    \/ StopIdle(c) \/ StopBegin(c)
    \/ Joined(c)
    \/ \E ok \in BOOLEAN : JoinTimesOut(c, ok) \/ Recover(c, ok)
    \/ Finish(c)

Next ==
    \/ Starts
    \/ \E ok \in BOOLEAN : StartFails(ok)
    \/ Wake \/ (\E good \in BOOLEAN : Check(good)) \/ Publish
    \/ \E x \in Threads : Degrade(x)
    \/ \E c \in Callers : Stop(c)

\* A running thread is scheduled again, and joins and recoveries have timeouts.
\* Nothing is assumed of the checks: one may hang.
Fairness ==
    /\ \A x \in Threads : WF_vars(Degrade(x))
    /\ \A c \in Callers : WF_vars(pc[c] # "unborn" /\ Stop(c))

Spec == Init /\ [][Next]_vars /\ Fairness

-----------------------------------------------------------------------------
(* Properties.                                                             *)

\* Whoever reads degraded can rely on the consequences: the global pause was
\* attempted before, and a worker supervisor has asked for termination, also
\* when the pause failed (the order of _degrade).
DegradedIsSafe ==
    snapshot = "degraded" => safety # "untouched" /\ (kind = "worker" => terminated)

\* A supervisor that says stopped monitors nothing any more: the watchdog has
\* ended, however many callers stop it and whether their joins time out.
StoppedMeansNoWatchdog ==
    snapshot = "stopped" => pc["watchdog"] \in {"unborn", "done"}

\* Once some stop has returned no supervisor reports ready again, even if its
\* watchdog was in the middle of a check (the _stop test under the lock).
NeverReadyAfterStop ==
    (\E c \in Callers : pc[c] = "done") => snapshot # "ready"

\* A degraded network or worker supervisor stays degraded, late stops included
\* ("latches degraded state").
DegradedLatches ==
    [][kind # "runtime" /\ snapshot = "degraded" => snapshot' = "degraded"]_vars

\* A failed check, join or recovery is followed by an attempt to pause global
\* safety and by a status that says so, or by a stop that cleaned up.
FailurePausesSafety ==
    \A x \in Threads : pc[x] = "pausing" ~> safety # "untouched" /\ snapshot # "ready"

\* Every stop returns, whether or not the watchdog ever does.
StopReturns == \A c \in Callers : pc[c] = "joining" ~> pc[c] = "done"

=============================================================================
