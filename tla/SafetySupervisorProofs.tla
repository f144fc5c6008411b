----------------------- MODULE SafetySupervisorProofs -----------------------
(***************************************************************************)
(* What a supervisor's status says, for any number of threads that call    *)
(* stop at once.                                                           *)
(***************************************************************************)
EXTENDS SafetySupervisor, TLAPS

\* Every leaf is tried with SMT and then with Zenon, with time to spare on a
\* slow machine.
USE SMTT(20), ZenonT(30)

Labels == {"unborn", "waiting", "checking", "publishing", "pausing", "terminating", "writing",
           "joining", "recovering", "finishing", "done"}

TypeOK ==
    /\ kind \in {"network", "runtime", "worker"}
    /\ snapshot \in {"stopped", "ready", "degraded"}
    /\ pc \in [Threads -> Labels]
    /\ safety \in {"untouched", "paused", "failed"}

\* The watchdog thread runs.
Alive == pc["watchdog"] \notin {"unborn", "done"}

\* Nobody stops a supervisor that was not started.
StartedFirst ==
    pc["watchdog"] = "unborn" => snapshot = "stopped" /\ \A c \in Callers : pc[c] = "unborn"

\* A thread that has yet to write degraded is past the consequences.
ConsequencesFirst ==
    \A x \in Threads :
        /\ pc[x] \in {"terminating", "writing"} => safety # "untouched"
        /\ pc[x] = "writing" /\ kind = "worker" => terminated

\* A running watchdog was told to stop before anybody began to stop it, and
\* before anybody else reported degraded.
ToldToStop ==
    Alive => /\ \A c \in Callers : pc[c] # "unborn" => stopping
             /\ snapshot = "degraded" => stopping

\* A running watchdog is given up, or joined in vain, only with the status
\* degraded, which the runtime supervisor never does.
GivenUpDegraded ==
    Alive => /\ ~thread => kind # "runtime" /\ snapshot = "degraded"
             /\ \A c \in Callers : pc[c] \in {"recovering", "finishing"} =>
                    kind # "runtime" /\ snapshot = "degraded"

\* The inductive invariant.
IInv ==
    /\ TypeOK /\ StartedFirst /\ ConsequencesFirst /\ ToldToStop /\ GivenUpDegraded
    /\ DegradedIsSafe /\ StoppedMeansNoWatchdog /\ NeverReadyAfterStop
\* Every step keeps the invariant, whoever takes it.
LEMMA Step == ASSUME IInv, [Next]_vars PROVE IInv'
<1>w. "watchdog" \in Threads /\ "watchdog" \notin Callers /\ Callers \subseteq Threads
  BY SupervisorAssumption DEF Threads
<1> USE DEF IInv, TypeOK, Labels, Alive, StartedFirst, ConsequencesFirst, ToldToStop,
            GivenUpDegraded, DegradedIsSafe, StoppedMeansNoWatchdog, NeverReadyAfterStop, Goto
<1>1. ASSUME Starts PROVE IInv'
  BY <1>1, <1>w DEF Starts
<1>2. ASSUME NEW ok \in BOOLEAN, StartFails(ok) PROVE IInv'
  BY Zenon, <1>2, <1>w DEF StartFails, PausedOr
<1>3. ASSUME Wake PROVE IInv'
  BY <1>3, <1>w DEF Wake
<1>4. ASSUME NEW good \in BOOLEAN, Check(good) PROVE IInv'
  BY <1>4, <1>w DEF Check
<1>5. ASSUME Publish PROVE IInv'
  BY <1>5, <1>w DEF Publish
<1>6. ASSUME NEW x \in Threads, NEW ok \in BOOLEAN, Pause(x, ok) PROVE IInv'
  <2>1. CASE kind = "network"
    BY <1>6, <1>w, <2>1 DEF Pause, PausedOr, Threads
  <2>2. CASE kind = "runtime"
    BY <1>6, <1>w, <2>2 DEF Pause, PausedOr
  <2>3. CASE kind = "worker"
    BY <1>6, <1>w, <2>3 DEF Pause, PausedOr
  <2> QED  BY <2>1, <2>2, <2>3
<1>7. ASSUME NEW x \in Threads, Terminate(x) PROVE IInv'
  BY <1>7, <1>w DEF Terminate
<1>8. ASSUME NEW x \in Threads, Write(x) PROVE IInv'
  <2>1. /\ pc[x] = "writing" /\ pc' = [pc EXCEPT ![x] = "done"]
        /\ snapshot' = "degraded" /\ UNCHANGED <<kind, safety, terminated>>
    BY <1>8 DEF Write
  <2>2. (stopping => stopping') /\ (thread /\ kind # "worker" => thread')
    BY Zenon, <1>8 DEF Write
  <2>3. x \in Callers \/ x = "watchdog"
    BY DEF Threads
  <2> QED  BY <1>w, <2>1, <2>2, <2>3
<1>9. ASSUME NEW c \in Callers, StopIdle(c) PROVE IInv'
  BY <1>9, <1>w DEF StopIdle
<1>10. ASSUME NEW c \in Callers, StopBegin(c) PROVE IInv'
  BY <1>10, <1>w DEF StopBegin
<1>11. ASSUME NEW c \in Callers, Joined(c) PROVE IInv'
  BY <1>11, <1>w DEF Joined
<1>12. ASSUME NEW c \in Callers, NEW ok \in BOOLEAN, JoinTimesOut(c, ok) PROVE IInv'
  BY <1>12, <1>w DEF JoinTimesOut, PausedOr
<1>13. ASSUME NEW c \in Callers, NEW ok \in BOOLEAN, Recover(c, ok) PROVE IInv'
  BY <1>13, <1>w DEF Recover
<1>14. ASSUME NEW c \in Callers, Finish(c) PROVE IInv'
  BY <1>14, <1>w DEF Finish
<1>15. ASSUME UNCHANGED vars PROVE IInv'
  BY <1>15 DEF vars
<1> HIDE DEF IInv
<1> QED  BY ZenonT(60), <1>1, <1>2, <1>3, <1>4, <1>5, <1>6, <1>7, <1>8, <1>9, <1>10, <1>11, <1>12,
             <1>13, <1>14, <1>15
          DEF Next, Degrade, Stop

\* The invariant holds at first.
LEMMA InitInv == Init => IInv
<1> SUFFICES ASSUME Init PROVE IInv
  OBVIOUS
<1> QED  BY SupervisorAssumption
         DEF Init, IInv, TypeOK, Labels, Threads, Alive, StartedFirst, ConsequencesFirst,
         ToldToStop,
             GivenUpDegraded, DegradedIsSafe, StoppedMeansNoWatchdog, NeverReadyAfterStop

\* IInv is an invariant, for every kind of supervisor.
THEOREM SupervisorInductive == Spec => []IInv
<1>1. IInv /\ [Next]_vars => IInv'
  BY Step
<1> QED  BY InitInv, <1>1, PTL DEF Spec

\* A supervisor reports degraded only after _degrade attempted the global pause
\* and, for workers, asked for termination.
THEOREM DegradedTruly == Spec => []DegradedIsSafe
<1>1. IInv => DegradedIsSafe
  BY DEF IInv
<1> QED  BY SupervisorInductive, <1>1, PTL

\* A supervisor that reports stopped has no running watchdog, however many
\* callers of stop overlap and whichever of their joins time out.
THEOREM StoppedTruly == Spec => []StoppedMeansNoWatchdog
<1>1. IInv => StoppedMeansNoWatchdog
  BY DEF IInv
<1> QED  BY SupervisorInductive, <1>1, PTL

\* After the first stop that returns no check in progress can publish ready.
THEOREM NeverReadyAgain == Spec => []NeverReadyAfterStop
<1>1. IInv => NeverReadyAfterStop
  BY DEF IInv
<1> QED  BY SupervisorInductive, <1>1, PTL

\* No step of any thread takes the status degraded of a network or worker
\* supervisor back.
THEOREM DegradedForGood == Spec => DegradedLatches
<1>1. ASSUME IInv, [Next]_vars
      PROVE  [kind # "runtime" /\ snapshot = "degraded" => snapshot' = "degraded"]_vars
  <2> SUFFICES ASSUME kind # "runtime", snapshot = "degraded" PROVE snapshot' = "degraded"
    OBVIOUS
  <2>1. pc["watchdog"] # "unborn" /\ (pc["watchdog"] # "done" => stopping)
    BY <1>1 DEF IInv, StartedFirst, ToldToStop, Alive
  <2>2. CASE Publish
    BY <2>1, <2>2 DEF Publish
  <2>3. CASE \/ Starts \/ Wake
             \/ \E ok \in BOOLEAN : StartFails(ok)
             \/ \E good \in BOOLEAN : Check(good)
    BY <2>1, <2>3 DEF Starts, StartFails, Wake, Check
  <2>4. ASSUME NEW x \in Threads, Degrade(x) PROVE snapshot' = "degraded"
    BY <2>4 DEF Degrade, Pause, Terminate, Write
  <2>5. ASSUME NEW c \in Callers, Stop(c) PROVE snapshot' = "degraded"
    BY <2>5 DEF Stop, StopIdle, StopBegin, Joined, JoinTimesOut, Recover, Finish
  <2>6. CASE UNCHANGED vars
    BY <2>6 DEF vars
  <2> QED  BY Zenon, <1>1, <2>2, <2>3, <2>4, <2>5, <2>6 DEF Next
<1> QED  BY SupervisorInductive, <1>1, PTL DEF Spec, DegradedLatches
=============================================================================
