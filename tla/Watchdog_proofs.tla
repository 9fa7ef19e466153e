---------------------------- MODULE Watchdog_proofs ----------------------------
(* Type correctness of the supervisor; that cycles which interleave share the  *)
(* circuit breaker of the policy, and how far they can overrun its budget: for *)
(* any set of cyclers, operators, events and commands.                         *)
EXTENDS Watchdog, RestartPolicy_proofs

------------------------------------------------------------------------------
(* Type correctness.                                                           *)

\* Where EnsureHealthy is called from and returns to.
LEMMA CallLabels ==
    /\ "keep" \in Labels /\ "keeping" \in Labels /\ "look" \in Labels /\ "command" \in Labels
    /\ "recover" \in Labels /\ "recovering" \in Labels /\ "recheck" \in Labels /\ "count" \in Labels
    /\ "lastCommand" \in Labels /\ "last" \in Labels /\ "lasting" \in Labels /\ "startDesktop" \in Labels
    /\ "warm" \in Labels /\ "warming" \in Labels /\ "warmed" \in Labels /\ "cold" \in Labels
    /\ "start" \in Labels /\ "starting" \in Labels /\ "idle" \in Labels /\ "restart" \in Labels
    /\ "restarting" \in Labels /\ "restarted" \in Labels /\ "broken" \in Labels
BY DEF Labels

\* EnsureHealthy leaves every variable in its type, wherever it is called from.
LEMMA EnsureHealthyTyped ==
    ASSUME TypeOK, NEW p \in Procs,
           NEW wait \in Labels, NEW run \in Labels, NEW ok \in Labels, NEW failed \in Labels,
           EnsureHealthy(p, wait, run, ok, failed)
    PROVE  TypeOK'
<1> USE DEF TypeOK, Goto, gates, world, cycle
<1>1. CASE EnsureReuses(p, wait, ok)
  BY <1>1 DEF EnsureReuses
<1>2. CASE EnsureReplaces(p, wait, run)
  BY <1>2 DEF EnsureReplaces
<1>3. CASE EnsureSucceeds(p, run, ok)
  BY <1>3 DEF EnsureSucceeds, EnsureEnds
<1>4. CASE EnsureFails(p, run, failed)
  BY <1>4 DEF EnsureFails, EnsureEnds
<1> QED
  BY <1>1, <1>2, <1>3, <1>4 DEF EnsureHealthy

\* So does the start_backend command.
LEMMA CommandStartBackendTyped ==
    ASSUME TypeOK, NEW p \in Procs, NEW from, NEW wait \in Labels,
           CommandStartBackend(p, from, wait)
    PROVE  TypeOK'
BY DEF TypeOK, CommandStartBackend, Goto, gates, world, cycle

\* Every call of EnsureHealthy and of CommandStartBackend in the program.
CallsOf(p) ==
    \/ EnsureHealthy(p, "keep", "keeping", "look", "look")
    \/ EnsureHealthy(p, "recover", "recovering", "recheck", "count")
    \/ EnsureHealthy(p, "last", "lasting", "startDesktop", "startDesktop")
    \/ EnsureHealthy(p, "warm", "warming", "warmed", "cold")
    \/ EnsureHealthy(p, "start", "starting", "idle", "idle")
    \/ EnsureHealthy(p, "restart", "restarting", "restarted", "broken")
    \/ CommandStartBackend(p, "command", "recover")
    \/ CommandStartBackend(p, "lastCommand", "last")
    \/ CommandStartBackend(p, "idle", "start")

\* So does each of the calls of EnsureHealthy and start_backend in the program.
LEMMA CallsTyped ==
    ASSUME TypeOK, NEW p \in Procs, CallsOf(p)
    PROVE  TypeOK'
<1>1. CASE EnsureHealthy(p, "keep", "keeping", "look", "look")
  BY <1>1, EnsureHealthyTyped, CallLabels
<1>2. CASE EnsureHealthy(p, "recover", "recovering", "recheck", "count")
  BY <1>2, EnsureHealthyTyped, CallLabels
<1>3. CASE EnsureHealthy(p, "last", "lasting", "startDesktop", "startDesktop")
  BY <1>3, EnsureHealthyTyped, CallLabels
<1>4. CASE EnsureHealthy(p, "warm", "warming", "warmed", "cold")
  BY <1>4, EnsureHealthyTyped, CallLabels
<1>5. CASE EnsureHealthy(p, "start", "starting", "idle", "idle")
  BY <1>5, EnsureHealthyTyped, CallLabels
<1>6. CASE EnsureHealthy(p, "restart", "restarting", "restarted", "broken")
  BY <1>6, EnsureHealthyTyped, CallLabels
<1>7. CASE \/ CommandStartBackend(p, "command", "recover")
           \/ CommandStartBackend(p, "lastCommand", "last")
           \/ CommandStartBackend(p, "idle", "start")
  BY <1>7, CommandStartBackendTyped, CallLabels
<1> QED
  BY <1>1, <1>2, <1>3, <1>4, <1>5, <1>6, <1>7 DEF CallsOf

\* Every statement of RunCycle leaves every variable in its type.
LEMMA RunCycleTyped ==
    ASSUME TypeOK, NEW c \in Cyclers, RunCycle(c)
    PROVE  TypeOK'
<1> USE WatchdogAssumption, PolicyAssumption
    DEF TypeOK, Goto, Return, gates, world, cycle, Labels, ServiceStates, Procs
<1>1. CASE BeginCycle(c)
  BY <1>1 DEF BeginCycle
<1>2. CASE CheckGate(c)
  BY <1>2 DEF CheckGate
<1>3. CASE ProbeDesktop(c)
  BY <1>3 DEF ProbeDesktop
<1>4. CASE CheckLatch(c)
  BY <1>4 DEF CheckLatch
<1>5. CASE SetFailed(c)
  BY <1>5 DEF SetFailed
<1>6. CASE GaugeBackend(c)
  BY <1>6 DEF GaugeBackend
<1>7. CASE Look(c)
  BY <1>7 DEF Look, BackendSightings
<1>8. CASE DesktopUnknown(c)
  BY <1>8 DEF DesktopUnknown
<1>9. CASE ReapOrphans(c)
  <2>1. ephemeral' \in BOOLEAN
    BY ONLY TypeOK, <1>9, Zenon DEF TypeOK, ReapOrphans
  <2> QED
    BY <1>9, <2>1 DEF ReapOrphans
<1>10. CASE RelaunchDesktop(c)
  BY <1>10 DEF RelaunchDesktop, Launched
<1>11. CASE BackendLiveOnly(c)
  BY <1>11 DEF BackendLiveOnly
<1>12. CASE BackendMissing(c)
  BY <1>12 DEF BackendMissing
<1>13. CASE BackendSeenReady(c)
  BY <1>13 DEF BackendSeenReady
<1>14. CASE Recheck(c)
  BY <1>14 DEF Recheck
<1>15. CASE CountFailure(c)
  <2>1. IsTracker(tracker')
    BY <1>15, RecordFailureFacts DEF CountFailure
  <2>2. failCount' \in 0 .. FailThreshold
    BY <1>15 DEF CountFailure
  <2> QED
    BY <1>15, <2>1, <2>2 DEF CountFailure
<1>16. CASE SetBackoff(c)
  BY <1>16 DEF SetBackoff
<1>17. CASE StopDesktop(c)
  <2>1. ephemeral' \in BOOLEAN
    BY ONLY TypeOK, <1>17, Zenon DEF TypeOK, StopDesktop, StopDesktopTrees
  <2> QED
    BY <1>17, <2>1 DEF StopDesktop, StopDesktopTrees
<1>18. CASE StartDesktop(c)
  BY <1>18 DEF StartDesktop, Launched
<1>19. CASE MarkReady(c)
  BY <1>19, NewTrackerTyped DEF MarkReady, Cleared
<1>20. CASE Settle(c)
  BY <1>20 DEF Settle
<1>21. CASE CallsOf(c)
  BY ONLY TypeOK, c \in Procs, <1>21, CallsTyped
<1>22. CASE ReadLeaseAgain(c)
  BY <1>22 DEF ReadLeaseAgain
<1> QED
  BY ONLY RunCycle(c), <1>1, <1>2, <1>3, <1>4, <1>5, <1>6, <1>7, <1>8, <1>9, <1>10, <1>11,
     <1>12, <1>13, <1>14, <1>15, <1>16, <1>17, <1>18, <1>19, <1>20, <1>21, <1>22
     DEF RunCycle, KeepBackend, RecoverBackend, LastResortBackend, CallsOf

\* So does the prewarm goroutine.
LEMMA PrewarmTyped ==
    ASSUME TypeOK, Prewarm
    PROVE  TypeOK'
<1>1. CASE PrewarmBegins
  BY <1>1 DEF PrewarmBegins, Procs, TypeOK, Goto, gates, world, cycle, Labels, ServiceStates
<1>2. CASE EnsureHealthy(Prewarmer, "warm", "warming", "warmed", "cold")
  BY <1>2, CallsTyped DEF CallsOf, Procs
<1>3. CASE PrewarmEnds
  BY <1>3 DEF PrewarmEnds, Procs, TypeOK, Goto, gates, world, cycle, Labels, ServiceStates
<1> QED
  BY <1>1, <1>2, <1>3 DEF Prewarm

\* So does every operator command.
LEMMA CommandTyped ==
    ASSUME TypeOK, NEW o \in Operators, Command(o)
    PROVE  TypeOK'
<1> USE WatchdogAssumption DEF TypeOK, Goto, gates, world, cycle, Labels, ServiceStates, Procs
<1>1. CASE CallsOf(o)
  BY ONLY TypeOK, o \in Procs, <1>1, CallsTyped
<1>2. CASE OperatorStopsBackend(o)
  BY <1>2 DEF OperatorStopsBackend, Stopped
<1>3. CASE OperatorMovesDesktop(o)
  <2>1. ephemeral' \in BOOLEAN
    BY ONLY TypeOK, <1>3, Zenon DEF TypeOK, OperatorMovesDesktop, StopDesktopTrees
  <2>2. desktops' \in 0 .. MaxDesktops
    <3>1. Launched \subseteq 0 .. MaxDesktops
      BY DEF Launched
    <3>2. 0 \in 0 .. MaxDesktops /\ desktops \in 0 .. MaxDesktops
      OBVIOUS
    <3> QED
      BY ONLY <1>3, <3>1, <3>2, Zenon DEF OperatorMovesDesktop, StopDesktopTrees
  <2> QED
    BY <1>3, <2>1, <2>2 DEF OperatorMovesDesktop
<1>4. CASE BeginWarmRestart(o)
  BY <1>4 DEF BeginWarmRestart
<1>5. CASE BumpEpoch(o)
  BY <1>5 DEF BumpEpoch
<1>6. CASE DrainAndStop(o)
  BY <1>6 DEF DrainAndStop, Stopped
<1>7. CASE EndWarmRestart(o)
  BY <1>7 DEF EndWarmRestart
<1> QED
  BY ONLY Command(o), <1>1, <1>2, <1>3, <1>4, <1>5, <1>6, <1>7
     DEF Command, WarmRestart, OperatorStartsBackend, CallsOf

\* So do pause, resume, the installer, the processes and time.
LEMMA EnvironmentTyped ==
    ASSUME TypeOK, Environment
    PROVE  TypeOK'
<1> USE WatchdogAssumption, PolicyAssumption DEF TypeOK, gates, world, cycle, ServiceStates
<1>1. CASE Pause
  BY <1>1 DEF Pause
<1>2. CASE Resume
  BY <1>2, NewTrackerTyped DEF Resume, Cleared
<1>3. CASE ToggleSuppress
  BY <1>3 DEF ToggleSuppress
<1>4. CASE ReportAnomaly
  BY <1>4 DEF ReportAnomaly
<1>5. CASE DesktopMoves
  BY <1>5 DEF DesktopMoves
<1>6. CASE BackendMoves
  <2>1. ephemeral' \in BOOLEAN
    BY ONLY TypeOK, <1>6, Zenon DEF TypeOK, BackendMoves
  <2> QED
    BY <1>6, <2>1 DEF BackendMoves
<1>7. CASE LeaseMoves
  BY <1>7 DEF LeaseMoves
<1>8. CASE Tick
  BY <1>8, AgedFacts DEF Tick, InFlight
<1> QED
  BY <1>1, <1>2, <1>3, <1>4, <1>5, <1>6, <1>7, <1>8 DEF Environment

\* The watchdog starts with every variable in its type.
LEMMA InitTyped == Init => TypeOK
<1> SUFFICES ASSUME Init PROVE TypeOK
  OBVIOUS
<1>1. suppress \in BOOLEAN /\ ephemeral \in BOOLEAN
  BY Zenon DEF Init
<1>2. IsTracker(tracker)
  BY NewTrackerTyped DEF Init
<1>3. pc \in [Procs -> Labels]
  BY DEF Init, Labels
<1>4. /\ now \in [Cyclers -> -MaxStale .. 0]
      /\ probe \in [Cyclers -> {"unknown", "down", "up"}]
      /\ seen \in [Cyclers -> {"none", "live", "ready"}]
  BY PolicyAssumption DEF Init
<1>5. desktops \in 0 .. MaxDesktops /\ managed \in {"down", "live", "ready"}
  BY WatchdogAssumption DEF Init
<1>6. failCount \in 0 .. FailThreshold
  BY WatchdogAssumption DEF Init
<1>7. /\ paused \in BOOLEAN /\ rendererOnly \in BOOLEAN
      /\ desktopState \in ServiceStates /\ backendState \in ServiceStates
      /\ lease \in {"none", "ready"} /\ spawn \in Procs \cup {NoProc}
  BY DEF Init, ServiceStates
<1> QED
  BY <1>1, <1>2, <1>3, <1>4, <1>5, <1>6, <1>7 DEF TypeOK

\* No step of anybody takes a variable out of its type.
LEMMA NextTyped == TypeOK /\ [Next]_vars => TypeOK'
<1> SUFFICES ASSUME TypeOK, [Next]_vars PROVE TypeOK'
  OBVIOUS
<1>1. CASE UNCHANGED vars
  BY <1>1 DEF vars, gates, world, cycle, TypeOK
<1>2. CASE Next
  BY <1>2, RunCycleTyped, PrewarmTyped, CommandTyped, EnvironmentTyped DEF Next
<1> QED
  BY <1>1, <1>2

\* Every variable keeps its type, whatever the goroutines interleave.
THEOREM TypeInvariant == Spec => []TypeOK
BY InitTyped, NextTyped, PTL DEF Spec

------------------------------------------------------------------------------
(* Cycles that overlap share the breaker.                                      *)

\* AttemptCount is a natural number.
LEMMA AttemptCountType == ASSUME NEW t, IsTracker(t) PROVE AttemptCount(t) \in Nat
BY FS_CardinalityType DEF IsTracker, AttemptCount

\* Only a label of PastLatch leads to one, except through CheckLatch.
MovesOn(p) == \E l \in Labels : Goto(p, l) /\ (l \in PastLatch => pc[p] \in PastLatch)

\* Calling EnsureHealthy leaves the tracker alone and brings nobody past the latch.
LEMMA CallsMoveOn ==
    ASSUME TypeOK, NEW p \in Procs, CallsOf(p)
    PROVE  UNCHANGED tracker /\ MovesOn(p)
<1> USE CallLabels DEF MovesOn, EnsureHealthy, EnsureReuses, EnsureReplaces, EnsureSucceeds,
        EnsureFails, EnsureEnds, PastLatch
<1>1. CASE EnsureHealthy(p, "keep", "keeping", "look", "look")
  BY <1>1
<1>2. CASE EnsureHealthy(p, "recover", "recovering", "recheck", "count")
  BY <1>2
<1>3. CASE EnsureHealthy(p, "last", "lasting", "startDesktop", "startDesktop")
  BY <1>3
<1>4. CASE EnsureHealthy(p, "warm", "warming", "warmed", "cold")
  BY <1>4
<1>5. CASE EnsureHealthy(p, "start", "starting", "idle", "idle")
  BY <1>5
<1>6. CASE EnsureHealthy(p, "restart", "restarting", "restarted", "broken")
  BY <1>6
<1>7. CASE \/ CommandStartBackend(p, "command", "recover")
           \/ CommandStartBackend(p, "lastCommand", "last")
           \/ CommandStartBackend(p, "idle", "start")
  BY <1>7 DEF CommandStartBackend
<1> QED
  BY ONLY CallsOf(p), <1>1, <1>2, <1>3, <1>4, <1>5, <1>6, <1>7 DEF CallsOf

\* A step of the shared breaker, or none.
SharedStep == [Shared!SharedNext]_(Shared!shared)

\* Who moves on without a success or a failure stays where it was, or gives up.
LEMMA MovingOnShares ==
    ASSUME TypeOK, NEW p \in Procs, MovesOn(p), UNCHANGED tracker
    PROVE  SharedStep
<1>1. PICK l \in Labels : Goto(p, l) /\ (l \in PastLatch => pc[p] \in PastLatch)
  BY DEF MovesOn
<1>2. UNCHANGED <<tracker.failed, AttemptCount(tracker)>>
  BY DEF AttemptCount
<1>3. CASE p \in Overrunning /\ l \notin PastLatch
  <2>1. Overrunning' = Overrunning \ {p}
    BY <1>1, <1>3 DEF Goto, Overrunning, TypeOK, Procs
  <2>2. Shared!GiveUp(p) /\ p \in Cyclers
    BY <1>2, <1>3, <2>1 DEF Shared!GiveUp, Shared!Leave, Overrunning
  <2> QED
    BY <2>2 DEF SharedStep, Shared!SharedNext
<1>4. CASE ~(p \in Overrunning /\ l \notin PastLatch)
  <2>1. Overrunning' = Overrunning
    BY <1>1, <1>4 DEF Goto, Overrunning, TypeOK, Procs
  <2> QED
    BY <1>2, <2>1 DEF SharedStep, Shared!shared
<1> QED
  BY <1>3, <1>4

\* Nor is a step that moves no goroutine and drops no attempt any of the breaker's.
LEMMA StandingShares ==
    ASSUME UNCHANGED <<pc, AttemptCount(tracker), tracker.failed>>
    PROVE  SharedStep
BY DEF SharedStep, Shared!shared, Overrunning

\* The statements of RunCycle that call neither EnsureHealthy nor start_backend.
Plain(c) ==
    \/ BeginCycle(c) \/ CheckGate(c) \/ ProbeDesktop(c) \/ CheckLatch(c) \/ SetFailed(c)
    \/ GaugeBackend(c) \/ Look(c) \/ DesktopUnknown(c) \/ ReapOrphans(c) \/ RelaunchDesktop(c)
    \/ BackendLiveOnly(c) \/ ReadLeaseAgain(c) \/ BackendMissing(c) \/ BackendSeenReady(c) \/ Recheck(c)
    \/ CountFailure(c) \/ SetBackoff(c) \/ StopDesktop(c) \/ StartDesktop(c) \/ MarkReady(c)
    \/ Settle(c)

\* RunCycle is those statements and calls.
LEMMA CycleParts == ASSUME NEW c, RunCycle(c) PROVE Plain(c) \/ CallsOf(c)
BY DEF RunCycle, Plain, KeepBackend, RecoverBackend, LastResortBackend, CallsOf

\* Three statements are the breaker's own; every other one moves on.
LEMMA PlainMovesOn ==
    ASSUME TypeOK, NEW c \in Cyclers, Plain(c)
    PROVE  \/ CheckLatch(c) /\ ~tracker.failed
           \/ CountFailure(c) \/ MarkReady(c)
           \/ UNCHANGED tracker /\ MovesOn(c)
<1> USE DEF MovesOn, Goto, Return, PastLatch, Labels
<1>1. CASE BeginCycle(c)
  <2>1. pc' = [pc EXCEPT ![c] = IF paused THEN "idle" ELSE "gate"]
    BY <1>1 DEF BeginCycle, TypeOK, Procs
  <2> QED
    BY <1>1, <2>1 DEF BeginCycle
<1>2. CASE CheckGate(c) \/ ProbeDesktop(c) \/ SetFailed(c) \/ GaugeBackend(c) \/ Look(c)
  BY <1>2 DEF CheckGate, ProbeDesktop, SetFailed, GaugeBackend, Look
<1>3. CASE DesktopUnknown(c) \/ ReapOrphans(c) \/ RelaunchDesktop(c) \/ BackendLiveOnly(c)
  BY <1>3 DEF DesktopUnknown, ReapOrphans, RelaunchDesktop, BackendLiveOnly
<1>4. CASE ReadLeaseAgain(c) \/ BackendMissing(c) \/ BackendSeenReady(c) \/ Recheck(c) \/ SetBackoff(c)
  BY <1>4 DEF ReadLeaseAgain, BackendMissing, BackendSeenReady, Recheck, SetBackoff
<1>5. CASE StopDesktop(c) \/ StartDesktop(c) \/ Settle(c)
  BY <1>5 DEF StopDesktop, StartDesktop, Settle
<1>6. CASE CheckLatch(c)
  BY <1>6 DEF CheckLatch
<1> QED
  BY ONLY Plain(c), <1>1, <1>2, <1>3, <1>4, <1>5, <1>6, CountFailure(c) \/ ~CountFailure(c)
     DEF Plain

\* A cycle is let in by CheckLatch, fails by CountFailure and succeeds by MarkReady.
LEMMA RunCycleShares ==
    ASSUME TypeOK, NEW c \in Cyclers, RunCycle(c)
    PROVE  SharedStep
<1>0. c \in Procs /\ pc \in [Procs -> Labels] /\ IsTracker(tracker) /\ now[c] \in -MaxStale .. 0
  BY DEF Procs, TypeOK
<1>1. CASE CheckLatch(c) /\ ~tracker.failed
  <2>1. Overrunning' = Overrunning \cup {c} /\ UNCHANGED tracker
    BY <1>0, <1>1 DEF CheckLatch, Goto, Overrunning, PastLatch, Procs
  <2>2. Shared!Admit(c)
    BY <1>1, <2>1 DEF Shared!Admit, AttemptCount
  <2> QED
    BY <2>2 DEF SharedStep, Shared!SharedNext
<1>2. CASE CountFailure(c)
  <2>1. c \in Overrunning /\ Overrunning' = Overrunning \ {c}
    BY <1>0, <1>2 DEF CountFailure, Goto, Overrunning, PastLatch, Procs
  <2>2. tracker' = RecordFailure(tracker, now[c])
    BY <1>2 DEF CountFailure
  <2>3. /\ AttemptCount(tracker') \in 1 .. AttemptCount(tracker) + 1
        /\ tracker'.failed = (tracker.failed \/ AttemptCount(tracker') >= MaxRestarts)
    BY <1>0, <2>2, RecordFailureFacts, AttemptCountType
  <2>4. Shared!Fail(c)
    BY <2>1, <2>3 DEF Shared!Fail, Shared!Leave
  <2> QED
    BY <2>4 DEF SharedStep, Shared!SharedNext
<1>3. CASE MarkReady(c)
  <2>1. c \in Overrunning /\ Overrunning' = Overrunning \ {c}
    BY <1>0, <1>3 DEF MarkReady, Goto, Overrunning, PastLatch, Procs
  <2>2. AttemptCount(tracker') = 0 /\ tracker'.failed = FALSE
    BY <1>3, NewTrackerTyped DEF MarkReady, Cleared, NewRestartTracker
  <2>3. Shared!Succeed(c)
    BY <2>1, <2>2 DEF Shared!Succeed, Shared!Leave
  <2> QED
    BY <2>3 DEF SharedStep, Shared!SharedNext
<1>4. CASE UNCHANGED tracker /\ MovesOn(c)
  BY <1>0, <1>4, MovingOnShares
<1> QED
  BY <1>0, <1>1, <1>2, <1>3, <1>4, CycleParts, PlainMovesOn, CallsMoveOn

\* Nobody else is let in or counted: prewarm and commands leave the tracker alone.
LEMMA PrewarmShares ==
    ASSUME TypeOK, Prewarm
    PROVE  SharedStep
<1>0. Prewarmer \in Procs
  BY DEF Procs
<1>1. UNCHANGED tracker /\ MovesOn(Prewarmer)
  <2>1. CASE PrewarmBegins \/ PrewarmEnds
    BY <2>1 DEF PrewarmBegins, PrewarmEnds, MovesOn, PastLatch, Labels
  <2>2. CASE CallsOf(Prewarmer)
    BY <1>0, <2>2, CallsMoveOn
  <2> QED
    BY ONLY Prewarm, <2>1, <2>2 DEF Prewarm, CallsOf
<1> QED
  BY <1>0, <1>1, MovingOnShares

LEMMA CommandShares ==
    ASSUME TypeOK, NEW o \in Operators, Command(o)
    PROVE  SharedStep
<1>0. o \in Procs
  BY DEF Procs
<1>1. CASE OperatorStopsBackend(o) \/ OperatorMovesDesktop(o)
  BY <1>1, StandingShares DEF OperatorStopsBackend, OperatorMovesDesktop, AttemptCount
<1>2. CASE BeginWarmRestart(o) \/ BumpEpoch(o) \/ DrainAndStop(o) \/ EndWarmRestart(o)
  <2>1. UNCHANGED tracker /\ MovesOn(o)
    BY <1>2 DEF BeginWarmRestart, BumpEpoch, DrainAndStop, EndWarmRestart, MovesOn, PastLatch, Labels
  <2> QED
    BY <1>0, <2>1, MovingOnShares
<1>3. CASE CallsOf(o)
  BY <1>0, <1>3, CallsMoveOn, MovingOnShares
<1> QED
  BY ONLY Command(o), <1>1, <1>2, <1>3 DEF Command, WarmRestart, OperatorStartsBackend, CallsOf

\* Of the environment's steps the operator's resume is the reset; time only ages the
\* attempts, and drops none.
LEMMA EnvironmentShares ==
    ASSUME TypeOK, Environment
    PROVE  SharedStep
<1>1. CASE Pause \/ ToggleSuppress \/ ReportAnomaly \/ DesktopMoves \/ BackendMoves \/ LeaseMoves
  BY <1>1, StandingShares
     DEF Pause, ToggleSuppress, ReportAnomaly, DesktopMoves, BackendMoves, LeaseMoves, AttemptCount
<1>2. CASE Resume
  <2>1. AttemptCount(tracker') = 0 /\ tracker'.failed = FALSE /\ Overrunning' = Overrunning
    BY <1>2, NewTrackerTyped DEF Resume, Cleared, NewRestartTracker, Overrunning
  <2>2. Shared!Reset
    BY <2>1 DEF Shared!Reset
  <2> QED
    BY <2>2 DEF SharedStep, Shared!SharedNext
<1>3. CASE Tick
  <2>1. tracker' = Aged(tracker) /\ UNCHANGED pc
    BY <1>3 DEF Tick
  <2> QED
    BY <2>1, AgedFacts, StandingShares DEF TypeOK
<1> QED
  BY <1>1, <1>2, <1>3 DEF Environment

\* Every step of anybody is a step of the shared breaker, or none.
LEMMA NextShares == TypeOK /\ [Next]_vars => SharedStep
<1>1. ASSUME UNCHANGED vars PROVE SharedStep
  BY <1>1, StandingShares DEF vars, AttemptCount
<1> QED
  BY <1>1, RunCycleShares, PrewarmShares, CommandShares, EnvironmentShares DEF Next

\* At the start nobody is past the latch and no attempt counts.
LEMMA InitShares == Init => Shared!SharedInit
<1> SUFFICES ASSUME Init PROVE Shared!SharedInit
  OBVIOUS
<1>1. AttemptCount(tracker) = 0 /\ tracker.failed = FALSE
  BY NewTrackerTyped DEF Init, NewRestartTracker
<1>2. Overrunning = {}
  BY DEF Init, Overrunning, PastLatch, Procs
<1> QED
  BY <1>1, <1>2 DEF Shared!SharedInit

\* Any number of goroutines that run cycles at once share one circuit breaker: whatever
\* they interleave, each passes an open latch, counts one failure or clears the tracker
\* once, and the latch falls shut exactly when the budget is used up.
THEOREM CyclesShareTheBreaker == Spec => SharedKept
<1>1. Init => TypeOK /\ Shared!SharedInit
  BY InitTyped, InitShares
<1>2. TypeOK /\ [Next]_vars => [Shared!SharedNext]_(Shared!shared)
  BY NextShares DEF SharedStep
<1> QED
  BY <1>1, <1>2, NextTyped, PTL DEF Spec, SharedKept, Shared!SharedSpec

------------------------------------------------------------------------------
(* The overrun bound, of the shared breaker and so of the cycles.              *)

\* The types of the breaker's variables, as the cycles give them values.
SharedTyped ==
    /\ tracker.failed \in BOOLEAN /\ AttemptCount(tracker) \in Nat
    /\ Overrunning \subseteq Cyclers /\ IsFiniteSet(Overrunning)
    /\ Cardinality(Overrunning) \in Nat /\ Cardinality(Overrunning) <= Cardinality(Cyclers)

LEMMA TypeOKShares == TypeOK => SharedTyped
BY AttemptCountType, FS_Subset, FS_CardinalityType, WatchdogAssumption
   DEF TypeOK, IsTracker, SharedTyped, Overrunning

\* There is a cycler: the loop.
LEMMA CyclersFacts == Cardinality(Cyclers) \in Nat /\ Cardinality(Cyclers) >= 1
BY WatchdogAssumption, FS_CardinalityType, FS_EmptySet

\* The breaker counts with the same Cardinality.
LEMMA SharedCardinality == \A S : Shared!Cardinality(S) = Cardinality(S)
BY DEF Cardinality, Shared!Cardinality

\* The breaker's own argument. A client that fails has left, so that it pays for its
\* failure with its place; one that is let in finds the breaker closed.
LEMMA BreakerStepBounds ==
    ASSUME Shared!Overrun, SharedTyped, SharedTyped', SharedStep
    PROVE  Shared!Overrun'
<1> DEFINE N == Cardinality(Cyclers)
           k == Cardinality(Overrunning)
           k2 == Cardinality(Overrunning')
           n == AttemptCount(tracker)
           n2 == AttemptCount(tracker')
<1>0. /\ N \in Nat /\ N >= 1 /\ k \in Nat /\ k <= N /\ k2 \in Nat /\ k2 <= N
      /\ n \in Nat /\ n2 \in Nat /\ tracker.failed \in BOOLEAN /\ tracker'.failed \in BOOLEAN
  BY CyclersFacts DEF SharedTyped
<1>1. /\ n >= MaxRestarts => tracker.failed
      /\ tracker.failed => n + k < MaxRestarts + N
  BY SharedCardinality DEF Shared!Overrun
<1>2. SUFFICES /\ n2 >= MaxRestarts => tracker'.failed
               /\ tracker'.failed => n2 + k2 < MaxRestarts + N
  BY SharedCardinality DEF Shared!Overrun
<1>3. ASSUME NEW c, Shared!Leave(c) PROVE k2 = k - 1
  BY <1>3, FS_RemoveElement DEF Shared!Leave, SharedTyped
<1> HIDE DEF N, k, k2, n, n2
<1>4. CASE UNCHANGED Shared!shared
  <2>1. n2 = n /\ k2 = k /\ tracker'.failed = tracker.failed
    BY <1>4 DEF Shared!shared, n, n2, k, k2
  <2> QED
    BY <1>1, <2>1
<1>5. ASSUME NEW c \in Cyclers, Shared!Admit(c)
      PROVE  n2 < MaxRestarts /\ ~tracker'.failed
  <2>1. ~tracker.failed /\ tracker'.failed = tracker.failed /\ n2 = n
    BY <1>5 DEF Shared!Admit, n, n2
  <2> QED
    BY <1>0, <1>1, <2>1, PolicyAssumption
<1>6. ASSUME NEW c \in Cyclers, Shared!GiveUp(c)
      PROVE  /\ n2 >= MaxRestarts => tracker'.failed
             /\ tracker'.failed => n2 + k2 < MaxRestarts + N
  <2>1. k2 = k - 1 /\ tracker'.failed = tracker.failed /\ n2 = n
    BY <1>3, <1>6 DEF Shared!GiveUp, n, n2
  <2> QED
    BY <1>0, <1>1, <2>1, PolicyAssumption
<1>7. ASSUME NEW c \in Cyclers, Shared!Fail(c)
      PROVE  /\ n2 >= MaxRestarts => tracker'.failed
             /\ tracker'.failed => n2 + k2 < MaxRestarts + N
  <2>1. k2 = k - 1 /\ n2 \in 1 .. n + 1
    BY <1>3, <1>7 DEF Shared!Fail, n, n2
  <2>2. /\ n2 >= MaxRestarts => tracker'.failed
        /\ tracker'.failed => tracker.failed \/ n2 >= MaxRestarts
    BY <1>7, Zenon DEF Shared!Fail, n2
  <2>3. n < MaxRestarts \/ n + k < MaxRestarts + N
    BY <1>0, <1>1, PolicyAssumption
  <2> QED
    BY <1>0, <2>1, <2>2, <2>3, PolicyAssumption
<1>8. CASE Shared!Reset \/ \E c \in Cyclers : Shared!Succeed(c)
  <2>1. n2 = 0 /\ ~tracker'.failed
    BY <1>8 DEF Shared!Reset, Shared!Succeed, n2
  <2> QED
    BY <2>1, PolicyAssumption
<1> QED
  BY <1>0, <1>4, <1>5, <1>6, <1>7, <1>8, PolicyAssumption DEF SharedStep, Shared!SharedNext

\* The inductive invariant: what is left of the budget pays for the cycles that
\* may still count a failure without looking at the latch.
THEOREM LatchInvariant == Spec => []LatchInv
<1>1. Init => TypeOK /\ Shared!Overrun
  <2>1. ASSUME Init PROVE Shared!Overrun
    BY <2>1, InitShares, PolicyAssumption DEF Shared!SharedInit, Shared!Overrun
  <2> QED
    BY <2>1, InitTyped
<1>2. TypeOK /\ Shared!Overrun /\ [Next]_vars => TypeOK' /\ Shared!Overrun'
  <2>1. TypeOK' => SharedTyped'
    BY TypeOKShares, PTL
  <2> QED
    BY <2>1, NextTyped, NextShares, TypeOKShares, BreakerStepBounds
<1> QED
  BY <1>1, <1>2, PTL DEF Spec, LatchInv

\* However many goroutines run cycles at once, and whatever the budget, the
\* attempts in the window exceed it by less than one for each of them.
THEOREM Overrun == Spec => []OverrunBounded
<1>1. TypeOK /\ LatchInv => OverrunBounded
  <2> SUFFICES ASSUME TypeOK, LatchInv PROVE OverrunBounded
    OBVIOUS
  <2>1. SharedTyped
    BY TypeOKShares
  <2> QED
    BY <2>1, CyclersFacts, SharedCardinality, PolicyAssumption
       DEF SharedTyped, LatchInv, Shared!Overrun, OverrunBounded
<1> QED
  BY <1>1, TypeInvariant, LatchInvariant, PTL

==============================================================================
