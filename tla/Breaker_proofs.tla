---------------------------- MODULE Breaker_proofs ----------------------------
(* One loop that runs cycles implements the circuit breaker that one healthy   *)
(* observation resets, for any budget, window, backoff, operators and events.  *)
EXTENDS Watchdog_proofs

\* With a single cycler nobody else sets the latch: it stays open all the way from
\* its check to the count of a failure, or to MarkReady.
OpenInside == pc[Loop] \in PastLatch => ~tracker.failed

BreakerInv == TypeOK /\ OpenInside

\* A step that keeps the breaker's invariant and is one of its automatic steps, or none.
KeepsBreaker == BreakerInv' /\ [Breaker!Automatic]_(Breaker!breaker)

\* The stage of an attempt at a label of the loop.
StageOf(l) ==
    IF l \in {"command", "recover", "recovering", "recheck", "count"} THEN "trying"
    ELSE IF l = "settle" THEN "well" ELSE "idle"

\* The loop is at l after the step, in the stage and on the side of the latch it was.
Quietly(l) ==
    /\ UNCHANGED tracker
    /\ pc'[Loop] = l /\ StageOf(l) = StageOf(pc[Loop])
    /\ l \in PastLatch => pc[Loop] \in PastLatch

\* Such a step is none of the breaker's.
LEMMA QuietSteps ==
    ASSUME BreakerInv, TypeOK', NEW l, Quietly(l)
    PROVE  KeepsBreaker
<1>1. AttemptStage = StageOf(pc[Loop]) /\ AttemptStage' = StageOf(pc'[Loop])
  BY DEF AttemptStage, StageOf
<1>2. AttemptStage' = AttemptStage /\ UNCHANGED tracker
  BY <1>1 DEF Quietly
<1>3. UNCHANGED Breaker!breaker
  BY <1>2 DEF Breaker!breaker, AttemptCount
<1>4. BreakerInv'
  BY DEF Quietly, BreakerInv, OpenInside
<1> QED
  BY <1>3, <1>4 DEF KeepsBreaker

\* A goroutine other than the loop leaves the loop where it is.
LEMMA OthersQuiet ==
    ASSUME BreakerInv, TypeOK', NEW p \in Procs, p # Loop, NEW l, Goto(p, l), UNCHANGED tracker
    PROVE  KeepsBreaker
<1>1. Loop \in Procs /\ pc \in [Procs -> Labels]
  BY WatchdogAssumption DEF Procs, BreakerInv, TypeOK
<1>2. pc'[Loop] = pc[Loop]
  BY <1>1 DEF Goto
<1>3. Quietly(pc[Loop])
  BY <1>2 DEF Quietly
<1> QED
  BY <1>3, QuietSteps

\* A call of EnsureHealthy stays in one stage from its entry to its return.
LEMMA CallsQuiet ==
    ASSUME BreakerInv, TypeOK', NEW p \in Procs, CallsOf(p)
    PROVE  KeepsBreaker
<1>1. UNCHANGED tracker /\ \E l \in Labels : Goto(p, l)
  BY CallsMoveOn DEF MovesOn, BreakerInv
<1>2. CASE p # Loop
  BY <1>1, <1>2, OthersQuiet
<1>3. CASE p = Loop
  <2> USE <1>1, <1>3 DEF Goto, BreakerInv, TypeOK, Quietly, PastLatch, StageOf,
          EnsureReuses, EnsureReplaces, EnsureSucceeds, EnsureFails, EnsureEnds
  <2>1. CASE EnsureHealthy(p, "keep", "keeping", "look", "look")
    <3>1. \E l \in Labels : Quietly(l)
      BY <2>1, CallLabels DEF EnsureHealthy
    <3> QED
      BY ONLY <3>1, QuietSteps, BreakerInv, TypeOK'
  <2>2. CASE EnsureHealthy(p, "recover", "recovering", "recheck", "count")
    <3>1. \E l \in Labels : Quietly(l)
      BY <2>2, CallLabels DEF EnsureHealthy
    <3> QED
      BY ONLY <3>1, QuietSteps, BreakerInv, TypeOK'
  <2>3. CASE EnsureHealthy(p, "last", "lasting", "startDesktop", "startDesktop")
    <3>1. \E l \in Labels : Quietly(l)
      BY <2>3, CallLabels DEF EnsureHealthy
    <3> QED
      BY ONLY <3>1, QuietSteps, BreakerInv, TypeOK'
  <2>4. CASE EnsureHealthy(p, "warm", "warming", "warmed", "cold")
    <3>1. \E l \in Labels : Quietly(l)
      BY <2>4, CallLabels DEF EnsureHealthy
    <3> QED
      BY ONLY <3>1, QuietSteps, BreakerInv, TypeOK'
  <2>5. CASE EnsureHealthy(p, "start", "starting", "idle", "idle")
    <3>1. \E l \in Labels : Quietly(l)
      BY <2>5, CallLabels DEF EnsureHealthy
    <3> QED
      BY ONLY <3>1, QuietSteps, BreakerInv, TypeOK'
  <2>6. CASE EnsureHealthy(p, "restart", "restarting", "restarted", "broken")
    <3>1. \E l \in Labels : Quietly(l)
      BY <2>6, CallLabels DEF EnsureHealthy
    <3> QED
      BY ONLY <3>1, QuietSteps, BreakerInv, TypeOK'
  <2>7. CASE \/ CommandStartBackend(p, "command", "recover")
             \/ CommandStartBackend(p, "lastCommand", "last")
             \/ CommandStartBackend(p, "idle", "start")
    <3>1. \E l \in Labels : Quietly(l)
      BY <2>7, CallLabels DEF CommandStartBackend
    <3> QED
      BY ONLY <3>1, QuietSteps, BreakerInv, TypeOK'
  <2> QED
    BY ONLY CallsOf(p), <2>1, <2>2, <2>3, <2>4, <2>5, <2>6, <2>7 DEF CallsOf
<1> QED
  BY <1>2, <1>3

\* The loop counts a failure: the breaker does, and trips exactly at the budget.
LEMMA CountFailureFails ==
    ASSUME BreakerInv, TypeOK', CountFailure(Loop)
    PROVE  KeepsBreaker
<1>1. /\ pc[Loop] = "count" /\ ~tracker.failed /\ IsTracker(tracker) /\ Loop \in Procs
      /\ now[Loop] \in -MaxStale .. 0
  BY WatchdogAssumption DEF CountFailure, BreakerInv, OpenInside, PastLatch, TypeOK, Procs
<1>2. tracker' = RecordFailure(tracker, now[Loop])
  BY DEF CountFailure
<1>3. /\ AttemptCount(tracker') \in 1 .. AttemptCount(tracker) + 1
      /\ tracker'.failed = (AttemptCount(tracker') >= MaxRestarts)
  BY <1>1, <1>2, RecordFailureFacts, AttemptCountType
<1>4. pc'[Loop] \in {"failed", "exhausted", "backoff"}
  BY <1>1 DEF CountFailure, Goto, BreakerInv, TypeOK
<1>5. AttemptStage = "trying" /\ AttemptStage' = "idle"
  BY <1>1, <1>4 DEF AttemptStage
<1>6. Breaker!FailAttempt
  BY <1>1, <1>3, <1>5 DEF Breaker!FailAttempt
<1>7. BreakerInv'
  BY <1>4 DEF BreakerInv, OpenInside, PastLatch
<1> QED
  BY <1>6, <1>7 DEF KeepsBreaker, Breaker!Automatic

\* Every other statement of RunCycle is a step of the breaker, or none.
LEMMA RunCycleKeepsBreaker ==
    ASSUME BreakerInv, TypeOK', RunCycle(Loop)
    PROVE  KeepsBreaker
<1>0. Loop \in Procs /\ pc \in [Procs -> Labels]
  BY WatchdogAssumption DEF Procs, BreakerInv, TypeOK
<1>1. CASE \/ BeginCycle(Loop) \/ CheckGate(Loop) \/ ProbeDesktop(Loop) \/ SetFailed(Loop)
           \/ GaugeBackend(Loop) \/ Look(Loop) \/ DesktopUnknown(Loop) \/ ReapOrphans(Loop)
           \/ RelaunchDesktop(Loop) \/ BackendLiveOnly(Loop) \/ BackendSeenReady(Loop)
           \/ SetBackoff(Loop) \/ StopDesktop(Loop) \/ StartDesktop(Loop) \/ ReadLeaseAgain(Loop)
  <2> USE <1>0 DEF Goto, Return, Quietly, StageOf, PastLatch
  <2>1. \E l \in Labels : Quietly(l)
    <3>1. CASE BeginCycle(Loop)
      BY <3>1 DEF BeginCycle, Labels
    <3>2. CASE CheckGate(Loop)
      BY <3>2 DEF CheckGate, Labels
    <3>3. CASE ProbeDesktop(Loop)
      BY <3>3 DEF ProbeDesktop, Labels
    <3>4. CASE SetFailed(Loop)
      BY <3>4 DEF SetFailed, Labels
    <3>5. CASE GaugeBackend(Loop)
      BY <3>5 DEF GaugeBackend, Labels
    <3>6. CASE Look(Loop)
      BY <3>6 DEF Look, Labels
    <3>7. CASE DesktopUnknown(Loop)
      BY <3>7 DEF DesktopUnknown, Labels
    <3>8. CASE ReapOrphans(Loop)
      BY <3>8 DEF ReapOrphans, Labels
    <3>9. CASE RelaunchDesktop(Loop)
      BY <3>9 DEF RelaunchDesktop, Labels
    <3>10. CASE BackendLiveOnly(Loop)
      BY <3>10 DEF BackendLiveOnly, Labels
    <3>11. CASE BackendSeenReady(Loop)
      BY <3>11 DEF BackendSeenReady, Labels
    <3>12. CASE SetBackoff(Loop)
      BY <3>12 DEF SetBackoff, Labels
    <3>13. CASE StopDesktop(Loop)
      BY <3>13 DEF StopDesktop, Labels
    <3>14. CASE StartDesktop(Loop)
      BY <3>14 DEF StartDesktop, Labels
    <3>15. CASE ReadLeaseAgain(Loop)
      BY <3>15 DEF ReadLeaseAgain, Labels
    <3> QED
      BY ONLY <1>1, <3>1, <3>2, <3>3, <3>4, <3>5, <3>6, <3>7, <3>8, <3>9, <3>10, <3>11,
         <3>12, <3>13, <3>14, <3>15
  <2> QED
    BY ONLY <2>1, QuietSteps, BreakerInv, TypeOK'
<1>2. CASE CheckLatch(Loop)
  <2>1. UNCHANGED tracker /\ AttemptStage = "idle" /\ AttemptStage' = "idle"
    BY <1>0, <1>2 DEF CheckLatch, Goto, AttemptStage
  <2>2. BreakerInv'
    BY <1>0, <1>2 DEF CheckLatch, Goto, BreakerInv, OpenInside, PastLatch
  <2> QED
    BY <2>1, <2>2 DEF KeepsBreaker, Breaker!breaker, AttemptCount
<1>3. CASE BackendMissing(Loop)
  <2>1. CASE CanAttempt(tracker, now[Loop])
    <3>1. /\ UNCHANGED tracker /\ ~tracker.failed
          /\ pc[Loop] \in {"decide", "reread"} /\ pc'[Loop] = "command"
      BY <1>0, <1>3, <2>1 DEF BackendMissing, Goto, CanAttempt
    <3>2. Breaker!Try
      BY <3>1 DEF Breaker!Try, AttemptStage, AttemptCount
    <3>3. BreakerInv'
      BY <3>1 DEF BreakerInv, OpenInside
    <3> QED
      BY <3>2, <3>3 DEF KeepsBreaker, Breaker!Automatic
  <2>2. CASE ~CanAttempt(tracker, now[Loop])
    <3>1. Quietly("idle")
      BY <1>0, <1>3, <2>2 DEF BackendMissing, Goto, Return, Quietly, StageOf, PastLatch
    <3> QED
      BY <3>1, QuietSteps
  <2> QED
    BY <2>1, <2>2
<1>4. CASE Recheck(Loop)
  <2>1. UNCHANGED tracker /\ pc[Loop] = "recheck" /\ pc'[Loop] \in {"healthy", "count"}
    BY <1>0, <1>4 DEF Recheck, Goto
  <2>2. CASE pc'[Loop] = "count"
    <3>1. Quietly("count")
      BY <2>1, <2>2 DEF Quietly, StageOf, PastLatch
    <3> QED
      BY <3>1, QuietSteps
  <2>3. CASE pc'[Loop] = "healthy"
    <3>1. Breaker!Recover
      BY <2>1, <2>3 DEF Breaker!Recover, AttemptStage, AttemptCount
    <3>2. BreakerInv'
      BY <2>1, <2>3 DEF BreakerInv, OpenInside, PastLatch
    <3> QED
      BY <3>1, <3>2 DEF KeepsBreaker, Breaker!Automatic
  <2> QED
    BY <2>1, <2>2, <2>3
<1>5. CASE CountFailure(Loop)
  BY <1>5, CountFailureFails
<1>6. CASE MarkReady(Loop)
  <2>1. /\ pc[Loop] = "healthy" /\ pc'[Loop] = "settle"
        /\ tracker' = Cleared /\ ~tracker.failed /\ tracker.failed \in BOOLEAN
    BY <1>0, <1>6 DEF MarkReady, Goto, BreakerInv, OpenInside, PastLatch, TypeOK, IsTracker
  <2>2. AttemptCount(tracker') = 0 /\ ~tracker'.failed /\ tracker'.failed \in BOOLEAN
    BY <2>1, NewTrackerTyped DEF Cleared, NewRestartTracker
  <2>3. Breaker!BecomeWell
    BY <2>1, <2>2 DEF Breaker!BecomeWell, AttemptStage
  <2>4. BreakerInv'
    BY <2>2 DEF BreakerInv, OpenInside
  <2> QED
    BY <2>3, <2>4 DEF KeepsBreaker, Breaker!Automatic
<1>7. CASE Settle(Loop)
  <2>1. UNCHANGED tracker /\ pc[Loop] = "settle" /\ pc'[Loop] = "idle"
    BY <1>0, <1>7 DEF Settle, Return, Goto
  <2>2. Breaker!Rest
    BY <2>1 DEF Breaker!Rest, AttemptStage, AttemptCount
  <2>3. BreakerInv'
    BY <2>1 DEF BreakerInv, OpenInside, PastLatch
  <2> QED
    BY <2>2, <2>3 DEF KeepsBreaker, Breaker!Automatic
<1>8. CASE CallsOf(Loop)
  BY <1>0, <1>8, CallsQuiet
<1> QED
  BY ONLY RunCycle(Loop), <1>1, <1>2, <1>3, <1>4, <1>5, <1>6, <1>7, <1>8
     DEF RunCycle, KeepBackend, RecoverBackend, LastResortBackend, CallsOf

\* The prewarm goroutine and the operators are nowhere in the breaker.
LEMMA PrewarmKeepsBreaker ==
    ASSUME BreakerInv, TypeOK', Prewarm
    PROVE  KeepsBreaker
<1>0. Prewarmer \in Procs /\ Prewarmer # Loop
  BY WatchdogAssumption DEF Procs
<1>1. CASE PrewarmBegins
  BY <1>0, <1>1, OthersQuiet DEF PrewarmBegins
<1>2. CASE CallsOf(Prewarmer)
  BY <1>0, <1>2, CallsQuiet
<1>3. CASE PrewarmEnds
  BY <1>0, <1>3, OthersQuiet DEF PrewarmEnds
<1> QED
  BY ONLY Prewarm, <1>1, <1>2, <1>3 DEF Prewarm, CallsOf

\* A command runs in a goroutine of its own and leaves the tracker alone.
LEMMA CommandKeepsBreaker ==
    ASSUME BreakerInv, TypeOK', NEW o \in Operators, Command(o)
    PROVE  KeepsBreaker
<1>0. o \in Procs /\ o # Loop
  BY WatchdogAssumption DEF Procs
<1>1. CASE OperatorStopsBackend(o) \/ OperatorMovesDesktop(o)
  <2>1. Quietly(pc[Loop])
    BY <1>1 DEF OperatorStopsBackend, OperatorMovesDesktop, Quietly
  <2> QED
    BY <2>1, QuietSteps
<1>2. CASE BeginWarmRestart(o) \/ BumpEpoch(o) \/ DrainAndStop(o) \/ EndWarmRestart(o)
  <2>1. UNCHANGED tracker /\ \E l \in Labels : Goto(o, l)
    BY <1>2 DEF BeginWarmRestart, BumpEpoch, DrainAndStop, EndWarmRestart, Labels
  <2> QED
    BY <1>0, <2>1, OthersQuiet
<1>3. CASE CallsOf(o)
  BY <1>0, <1>3, CallsQuiet
<1> QED
  BY ONLY Command(o), <1>1, <1>2, <1>3 DEF Command, WarmRestart, OperatorStartsBackend, CallsOf

\* Nor is the environment, but for the operator's resume, which is the reset. Time
\* drops no attempt: that is left to the next count.
LEMMA EnvironmentKeepsBreaker ==
    ASSUME BreakerInv, TypeOK', Environment, ~Resume
    PROVE  KeepsBreaker
<1>1. CASE Pause \/ ToggleSuppress \/ ReportAnomaly \/ DesktopMoves \/ BackendMoves \/ LeaseMoves
  <2>1. Quietly(pc[Loop])
    BY <1>1 DEF Pause, ToggleSuppress, ReportAnomaly, DesktopMoves, BackendMoves, LeaseMoves, Quietly
  <2> QED
    BY <2>1, QuietSteps
<1>2. CASE Tick
  <2>1. tracker' = Aged(tracker) /\ UNCHANGED pc
    BY <1>2 DEF Tick
  <2>2. AttemptCount(tracker') = AttemptCount(tracker) /\ tracker'.failed = tracker.failed
    BY <2>1, AgedFacts DEF BreakerInv, TypeOK
  <2>3. AttemptStage' = AttemptStage
    BY <2>1 DEF AttemptStage
  <2>4. BreakerInv'
    BY <2>1, <2>2 DEF BreakerInv, OpenInside
  <2> QED
    BY <2>2, <2>3, <2>4 DEF KeepsBreaker, Breaker!breaker
<1> QED
  BY <1>1, <1>2 DEF Environment

\* A resume is the reset.
LEMMA ResumeResets ==
    ASSUME BreakerInv, TypeOK', Resume
    PROVE  BreakerInv' /\ Breaker!Reset
<1>1. tracker' = Cleared /\ UNCHANGED pc
  BY DEF Resume
<1>2. AttemptCount(tracker') = 0 /\ tracker'.failed = FALSE
  BY <1>1, NewTrackerTyped DEF Cleared, NewRestartTracker
<1>3. AttemptStage' = AttemptStage
  BY <1>1 DEF AttemptStage
<1> QED
  BY <1>2, <1>3 DEF BreakerInv, OpenInside, Breaker!Reset

\* Any step but a resume is an automatic step of the breaker, or none.
LEMMA NextKeepsBreaker ==
    ASSUME Cyclers = {Loop}, BreakerInv, [Next]_vars
    PROVE  Resume \/ KeepsBreaker
<1>1. TypeOK'
  BY NextTyped DEF BreakerInv
<1>2. CASE UNCHANGED vars
  <2>1. Quietly(pc[Loop])
    BY <1>2 DEF vars, Quietly
  <2> QED
    BY <1>1, <2>1, QuietSteps
<1>3. CASE Next
  BY <1>1, <1>3, RunCycleKeepsBreaker, PrewarmKeepsBreaker, CommandKeepsBreaker,
     EnvironmentKeepsBreaker DEF Next
<1> QED
  BY <1>2, <1>3

\* The breaker's invariant is inductive.
LEMMA BreakerInvKept ==
    ASSUME Cyclers = {Loop}, BreakerInv, [Next]_vars
    PROVE  BreakerInv'
<1>1. TypeOK'
  BY NextTyped DEF BreakerInv
<1> QED
  BY <1>1, NextKeepsBreaker, ResumeResets DEF KeepsBreaker

\* At the start the loop is idle and the breaker closed.
LEMMA InitBreaker == Init => BreakerInv /\ Breaker!BreakerInit
<1> SUFFICES ASSUME Init PROVE BreakerInv /\ Breaker!BreakerInit
  OBVIOUS
<1>1. TypeOK
  BY InitTyped
<1>2. AttemptCount(tracker) = 0 /\ tracker.failed = FALSE
  BY NewTrackerTyped DEF Init, NewRestartTracker
<1>3. pc[Loop] = "idle"
  BY WatchdogAssumption DEF Init, Procs
<1> QED
  BY <1>1, <1>2, <1>3 DEF BreakerInv, OpenInside, Breaker!BreakerInit, AttemptStage

\* Cycles run by the loop alone implement CircuitBreaker: RunCycle attempts nothing
\* against the latch, counts each failure once, latches exactly at the budget and leaves
\* the latch to the operator. One healthy observation forgets the failures, as in the code.
THEOREM LoopIsABreaker ==
    ASSUME Cyclers = {Loop}
    PROVE  Spec => BreakerKept
<1>1. Init => BreakerInv /\ Breaker!BreakerInit
  BY InitBreaker
<1>2. BreakerInv /\ [Next]_vars => BreakerInv'
  BY BreakerInvKept
<1>3. BreakerInv /\ [Next]_vars => [Breaker!BreakerNext]_(Breaker!breaker)
  <2> SUFFICES ASSUME BreakerInv, [Next]_vars
               PROVE  [Breaker!BreakerNext]_(Breaker!breaker)
    OBVIOUS
  <2>1. TypeOK'
    BY NextTyped DEF BreakerInv
  <2>2. Breaker!Reset \/ KeepsBreaker
    BY <2>1, NextKeepsBreaker, ResumeResets
  <2> QED
    BY ONLY <2>2 DEF KeepsBreaker, Breaker!BreakerNext
<1> QED
  BY <1>1, <1>2, <1>3, PTL DEF Spec, BreakerKept, Breaker!BreakerSpec

\* What the breaker does by itself never closes it.
LEMMA AutomaticKeepsTripped ==
    ASSUME [Breaker!Automatic]_(Breaker!breaker), tracker.failed
    PROVE  tracker'.failed
BY DEF Breaker!Automatic, Breaker!breaker, Breaker!Try, Breaker!FailAttempt, Breaker!Recover,
       Breaker!BecomeWell, Breaker!Rest

\* Only the operator's resume opens the latch (SetPaused), whatever else goes on.
THEOREM OnlyResumeUnlatches ==
    ASSUME Cyclers = {Loop}
    PROVE  Spec => LatchHolds
<1>1. Init => BreakerInv
  BY InitBreaker
<1>2. BreakerInv /\ [Next]_vars => BreakerInv'
  BY BreakerInvKept
<1>3. BreakerInv /\ [Next]_vars => [tracker.failed /\ ~tracker'.failed => Resume]_vars
  BY NextKeepsBreaker, AutomaticKeepsTripped DEF KeepsBreaker
<1> QED
  BY <1>1, <1>2, <1>3, PTL DEF Spec, LatchHolds

------------------------------------------------------------------------------
(* A recovery that is under way was allowed, and still is.                    *)

\* With the loop alone, what RecoveryAllowed says is about the loop.
LoopAllowed ==
    /\ pc[Loop] \in Gated => CanAttempt(tracker, 0)
    /\ pc[Loop] \in LastResort => ~tracker.failed

\* The loop sets out neither to recover nor for the last resort, in a step that leaves
\* the tracker alone.
SetsNotOut ==
    /\ UNCHANGED tracker
    /\ pc'[Loop] \in Gated => pc[Loop] \in Gated
    /\ pc'[Loop] \in LastResort => pc[Loop] \in LastResort

\* A goroutine other than the loop sets nobody out.
LEMMA OthersSetNotOut ==
    ASSUME TypeOK, NEW p \in Procs, p # Loop, NEW l, Goto(p, l), UNCHANGED tracker
    PROVE  SetsNotOut
BY WatchdogAssumption DEF Goto, SetsNotOut, TypeOK, Procs

\* A call of EnsureHealthy is part of the recovery it was part of.
LEMMA CallsSetNotOut ==
    ASSUME TypeOK, NEW p \in Procs, CallsOf(p)
    PROVE  SetsNotOut
<1>1. UNCHANGED tracker /\ \E l \in Labels : Goto(p, l)
  BY CallsMoveOn DEF MovesOn
<1>2. CASE p # Loop
  BY <1>1, <1>2, OthersSetNotOut
<1>3. CASE p = Loop
  <2> USE <1>1, <1>3 DEF Goto, TypeOK, SetsNotOut, Gated, LastResort, EnsureHealthy,
          EnsureReuses, EnsureReplaces, EnsureSucceeds, EnsureFails, EnsureEnds
  <2>1. CASE EnsureHealthy(p, "keep", "keeping", "look", "look")
    BY <2>1
  <2>2. CASE EnsureHealthy(p, "recover", "recovering", "recheck", "count")
    BY <2>2
  <2>3. CASE EnsureHealthy(p, "last", "lasting", "startDesktop", "startDesktop")
    BY <2>3
  <2>4. CASE EnsureHealthy(p, "warm", "warming", "warmed", "cold")
    BY <2>4
  <2>5. CASE EnsureHealthy(p, "start", "starting", "idle", "idle")
    BY <2>5
  <2>6. CASE EnsureHealthy(p, "restart", "restarting", "restarted", "broken")
    BY <2>6
  <2>7. CASE \/ CommandStartBackend(p, "command", "recover")
             \/ CommandStartBackend(p, "lastCommand", "last")
             \/ CommandStartBackend(p, "idle", "start")
    BY <2>7 DEF CommandStartBackend
  <2> QED
    BY ONLY CallsOf(p), <2>1, <2>2, <2>3, <2>4, <2>5, <2>6, <2>7 DEF CallsOf
<1> QED
  BY <1>2, <1>3

\* The loop sets out to recover only when CanAttempt says so, with a clock reading
\* that is not ahead of the present; a counted failure ends the recovery, and leads to
\* the last resort only if it has not set the latch.
LEMMA RunCycleAllowed ==
    ASSUME BreakerInv, LoopAllowed, RunCycle(Loop)
    PROVE  LoopAllowed'
<1>0. /\ Loop \in Procs /\ pc \in [Procs -> Labels] /\ now[Loop] \in -MaxStale .. 0
      /\ IsTracker(tracker)
  BY WatchdogAssumption DEF Procs, BreakerInv, TypeOK
<1>1. CASE \/ BeginCycle(Loop) \/ CheckGate(Loop) \/ ProbeDesktop(Loop) \/ SetFailed(Loop)
           \/ Look(Loop) \/ DesktopUnknown(Loop) \/ ReapOrphans(Loop) \/ RelaunchDesktop(Loop)
           \/ BackendLiveOnly(Loop) \/ ReadLeaseAgain(Loop) \/ BackendSeenReady(Loop)
           \/ StartDesktop(Loop) \/ CheckLatch(Loop) \/ Recheck(Loop)
           \/ MarkReady(Loop) \/ Settle(Loop)
  <2>1. pc'[Loop] \notin Gated \cup LastResort
    BY <1>0, <1>1
       DEF BeginCycle, CheckGate, ProbeDesktop, SetFailed, Look, DesktopUnknown, ReapOrphans,
           RelaunchDesktop, BackendLiveOnly, ReadLeaseAgain, BackendSeenReady, StartDesktop,
           CheckLatch, Recheck, MarkReady, Settle, Goto, Return, Gated, LastResort
  <2> QED
    BY <2>1 DEF LoopAllowed
<1>2. CASE GaugeBackend(Loop) \/ BackendMissing(Loop)
  <2>1. /\ UNCHANGED tracker /\ (pc'[Loop] \in Gated => CanAttempt(tracker, now[Loop]))
        /\ pc'[Loop] \notin LastResort
    BY <1>0, <1>2 DEF GaugeBackend, BackendMissing, Goto, Return, Gated, LastResort
  <2>2. tracker.nextAt \in Int
    BY <1>0, PolicyAssumption DEF IsTracker, Instants, Past, Longest
  <2> QED
    BY <1>0, <2>1, <2>2, PolicyAssumption DEF LoopAllowed, CanAttempt
<1>3. CASE CountFailure(Loop)
  <2>1. tracker' = RecordFailure(tracker, now[Loop]) /\ ~tracker.failed
    BY <1>3 DEF CountFailure, BreakerInv, OpenInside, PastLatch
  <2>2. /\ AttemptCount(tracker') \in Nat
        /\ tracker'.failed = (AttemptCount(tracker') >= MaxRestarts)
    BY <1>0, <2>1, RecordFailureFacts, AttemptCountType
  <2>3. pc'[Loop] \in {"failed", "exhausted", "backoff"}
    BY <1>0, <1>3 DEF CountFailure, Goto
  <2>4. CASE AttemptCount(tracker') >= MaxRestarts
    <3>1. pc'[Loop] = "failed"
      BY <1>0, <1>3, <2>4 DEF CountFailure, Goto
    <3> QED
      BY <3>1 DEF LoopAllowed, Gated, LastResort
  <2>5. CASE ~(AttemptCount(tracker') >= MaxRestarts)
    BY <2>2, <2>3, <2>5 DEF LoopAllowed, Gated
  <2> QED
    BY <2>4, <2>5
<1>4. CASE SetBackoff(Loop) \/ StopDesktop(Loop)
  <2>1. SetsNotOut
    BY <1>0, <1>4 DEF SetBackoff, StopDesktop, Goto, Return, SetsNotOut, Gated, LastResort
  <2> QED
    BY <2>1 DEF SetsNotOut, LoopAllowed
<1>5. CASE CallsOf(Loop)
  BY <1>0, <1>5, CallsSetNotOut DEF SetsNotOut, LoopAllowed, BreakerInv
<1> QED
  BY ONLY RunCycle(Loop), <1>1, <1>2, <1>3, <1>4, <1>5
     DEF RunCycle, KeepBackend, RecoverBackend, LastResortBackend, CallsOf

\* Nobody else makes a start under way a forbidden one: a resume opens gate and latch,
\* and time only lets the backoff elapse.
LEMMA OthersAllowed ==
    ASSUME TypeOK, LoopAllowed, Prewarm \/ (\E o \in Operators : Command(o)) \/ Environment
    PROVE  LoopAllowed'
<1>1. CASE Prewarm
  <2>0. Prewarmer \in Procs /\ Prewarmer # Loop
    BY WatchdogAssumption DEF Procs
  <2>1. SetsNotOut
    BY ONLY TypeOK, <2>0, <1>1, OthersSetNotOut, CallsSetNotOut
       DEF Prewarm, PrewarmBegins, PrewarmEnds, CallsOf
  <2> QED
    BY <2>1 DEF SetsNotOut, LoopAllowed
<1>2. ASSUME NEW o \in Operators, Command(o)
      PROVE  LoopAllowed'
  <2>0. o \in Procs /\ o # Loop
    BY WatchdogAssumption DEF Procs
  <2>1. CASE OperatorStopsBackend(o) \/ OperatorMovesDesktop(o)
    BY <2>1 DEF OperatorStopsBackend, OperatorMovesDesktop, LoopAllowed
  <2>2. CASE BeginWarmRestart(o) \/ BumpEpoch(o) \/ DrainAndStop(o) \/ EndWarmRestart(o)
    <3>1. UNCHANGED tracker /\ \E l \in Labels : Goto(o, l)
      BY <2>2 DEF BeginWarmRestart, BumpEpoch, DrainAndStop, EndWarmRestart, Labels
    <3> QED
      BY <2>0, <3>1, OthersSetNotOut DEF SetsNotOut, LoopAllowed
  <2>3. CASE CallsOf(o)
    BY <2>0, <2>3, CallsSetNotOut DEF SetsNotOut, LoopAllowed
  <2> QED
    BY ONLY Command(o), <2>1, <2>2, <2>3 DEF Command, WarmRestart, OperatorStartsBackend, CallsOf
<1>3. CASE Pause \/ ToggleSuppress \/ ReportAnomaly \/ DesktopMoves \/ BackendMoves \/ LeaseMoves
  BY <1>3 DEF Pause, ToggleSuppress, ReportAnomaly, DesktopMoves, BackendMoves, LeaseMoves, LoopAllowed
<1>4. CASE Resume
  <2>1. tracker' = Cleared
    BY <1>4 DEF Resume
  <2> QED
    BY <2>1, PolicyAssumption DEF LoopAllowed, CanAttempt, Cleared, NewRestartTracker, Past
<1>5. CASE Tick
  <2>1. /\ UNCHANGED pc /\ tracker'.failed = tracker.failed
        /\ tracker'.nextAt = Older(tracker.nextAt)
    BY <1>5 DEF Tick, Aged
  <2>2. tracker.nextAt \in Int
    BY PolicyAssumption DEF TypeOK, IsTracker, Instants, Past, Longest
  <2>3. 0 >= tracker.nextAt => 0 >= Older(tracker.nextAt)
    BY <2>2, PolicyAssumption DEF Older, Past
  <2> QED
    BY <2>1, <2>3 DEF LoopAllowed, CanAttempt
<1> QED
  BY <1>1, <1>2, <1>3, <1>4, <1>5 DEF Environment

\* While the loop's keep-alive call or its counted attempt starts the backend, latch and
\* backoff allow it at that moment and not merely when it last asked CanAttempt with its
\* old clock reading. The last resort, which asks nobody, is out of the backoff's reach
\* but never taken against the latch.
THEOREM RecoveryStaysAllowed ==
    ASSUME Cyclers = {Loop}
    PROVE  Spec => []RecoveryAllowed
<1>1. Init => BreakerInv /\ LoopAllowed
  BY InitBreaker, WatchdogAssumption DEF Init, LoopAllowed, Procs, Gated, LastResort
<1>2. BreakerInv /\ LoopAllowed /\ [Next]_vars => BreakerInv' /\ LoopAllowed'
  <2> SUFFICES ASSUME BreakerInv, LoopAllowed, [Next]_vars PROVE LoopAllowed'
    BY BreakerInvKept
  <2>1. CASE UNCHANGED vars
    BY <2>1 DEF vars, LoopAllowed
  <2>2. CASE Next
    BY <2>2, RunCycleAllowed, OthersAllowed DEF Next, BreakerInv
  <2> QED
    BY <2>1, <2>2
<1>3. LoopAllowed => RecoveryAllowed
  BY DEF LoopAllowed, RecoveryAllowed
<1> QED
  BY <1>1, <1>2, <1>3, PTL DEF Spec

------------------------------------------------------------------------------
(* Failures are counted the initial backoff apart.                            *)

\* Once BackendMissing has asked CanAttempt, the clock reading the failure will be counted
\* with is not before the gate, and grows old no faster than the gate does.
Trying == {"command", "recover", "recovering", "recheck", "count"}
DueWhenCounted == pc[Loop] \in Trying => now[Loop] >= tracker.nextAt

SpacingInv == Spaced(tracker) /\ GateAhead(tracker) /\ DueWhenCounted

\* A step that leaves tracker and clock reading alone and does not set the loop trying.
NotTrying ==
    UNCHANGED <<tracker, now[Loop]>> /\ (pc'[Loop] \in Trying => pc[Loop] \in Trying)

LEMMA NotTryingSpaced == ASSUME SpacingInv, NotTrying PROVE SpacingInv'
BY DEF SpacingInv, NotTrying, DueWhenCounted, Spaced, GateAhead

\* Nobody else sets the loop trying.
LEMMA OthersNotTrying ==
    ASSUME TypeOK, NEW p \in Procs, p # Loop, NEW l, Goto(p, l), UNCHANGED <<tracker, now>>
    PROVE  NotTrying
BY WatchdogAssumption DEF Goto, NotTrying, TypeOK, Procs

\* A call of EnsureHealthy is part of the attempt it was part of.
LEMMA CallsNotTrying ==
    ASSUME TypeOK, NEW p \in Procs, CallsOf(p)
    PROVE  NotTrying
<1>1. UNCHANGED <<tracker, now>> /\ \E l \in Labels : Goto(p, l)
  BY CallsMoveOn
     DEF MovesOn, CallsOf, EnsureHealthy, EnsureReuses, EnsureReplaces, EnsureSucceeds, EnsureFails,
         EnsureEnds, CommandStartBackend, cycle
<1>2. CASE p # Loop
  BY <1>1, <1>2, OthersNotTrying
<1>3. CASE p = Loop
  <2> USE <1>1, <1>3 DEF Goto, TypeOK, NotTrying, Trying, EnsureHealthy,
          EnsureReuses, EnsureReplaces, EnsureSucceeds, EnsureFails, EnsureEnds
  <2>1. CASE EnsureHealthy(p, "keep", "keeping", "look", "look")
    BY <2>1
  <2>2. CASE EnsureHealthy(p, "recover", "recovering", "recheck", "count")
    BY <2>2
  <2>3. CASE EnsureHealthy(p, "last", "lasting", "startDesktop", "startDesktop")
    BY <2>3
  <2>4. CASE EnsureHealthy(p, "warm", "warming", "warmed", "cold")
    BY <2>4
  <2>5. CASE EnsureHealthy(p, "start", "starting", "idle", "idle")
    BY <2>5
  <2>6. CASE EnsureHealthy(p, "restart", "restarting", "restarted", "broken")
    BY <2>6
  <2>7. CASE \/ CommandStartBackend(p, "command", "recover")
             \/ CommandStartBackend(p, "lastCommand", "last")
             \/ CommandStartBackend(p, "idle", "start")
    BY <2>7 DEF CommandStartBackend
  <2> QED
    BY ONLY CallsOf(p), <2>1, <2>2, <2>3, <2>4, <2>5, <2>6, <2>7 DEF CallsOf
<1> QED
  BY <1>2, <1>3

\* RunCycle sets out when the gate is open by its own clock, counts by the same clock, and
\* reads the clock anew only where it is not trying.
LEMMA RunCycleSpaced ==
    ASSUME TypeOK, SpacingInv, RunCycle(Loop)
    PROVE  SpacingInv'
<1>0. /\ Loop \in Procs /\ Loop \in Cyclers /\ pc \in [Procs -> Labels]
      /\ now \in [Cyclers -> -MaxStale .. 0] /\ now[Loop] \in -MaxStale .. 0 /\ IsTracker(tracker)
  BY WatchdogAssumption DEF Procs, TypeOK
<1>1. CASE \/ CheckGate(Loop) \/ CheckLatch(Loop) \/ SetFailed(Loop) \/ GaugeBackend(Loop)
           \/ Look(Loop) \/ DesktopUnknown(Loop) \/ ReapOrphans(Loop) \/ RelaunchDesktop(Loop)
           \/ BackendLiveOnly(Loop) \/ BackendSeenReady(Loop) \/ Recheck(Loop)
           \/ SetBackoff(Loop) \/ StopDesktop(Loop) \/ StartDesktop(Loop) \/ Settle(Loop)
           \/ ReadLeaseAgain(Loop)
  <2> USE <1>0 DEF NotTrying, Trying, Goto, Return, cycle
  <2>1. CASE CheckGate(Loop) \/ CheckLatch(Loop) \/ SetFailed(Loop) \/ GaugeBackend(Loop)
    BY <2>1, NotTryingSpaced DEF CheckGate, CheckLatch, SetFailed, GaugeBackend
  <2>2. CASE Look(Loop) \/ DesktopUnknown(Loop) \/ ReapOrphans(Loop) \/ RelaunchDesktop(Loop)
    BY <2>2, NotTryingSpaced DEF Look, DesktopUnknown, ReapOrphans, RelaunchDesktop
  <2>3. CASE BackendLiveOnly(Loop) \/ BackendSeenReady(Loop) \/ Recheck(Loop) \/ SetBackoff(Loop)
    BY <2>3, NotTryingSpaced DEF BackendLiveOnly, BackendSeenReady, Recheck, SetBackoff
  <2>4. CASE StopDesktop(Loop) \/ StartDesktop(Loop) \/ Settle(Loop) \/ ReadLeaseAgain(Loop)
    BY <2>4, NotTryingSpaced DEF StopDesktop, StartDesktop, Settle, ReadLeaseAgain
  <2> QED
    BY ONLY <1>1, <2>1, <2>2, <2>3, <2>4
<1>2. CASE BeginCycle(Loop) \/ ProbeDesktop(Loop)
  <2>1. UNCHANGED tracker /\ pc'[Loop] \in {"idle", "gate", "latch"}
    BY <1>0, <1>2 DEF BeginCycle, ProbeDesktop, Goto
  <2> QED
    BY <2>1 DEF SpacingInv, DueWhenCounted, Trying, Spaced, GateAhead
<1>3. CASE BackendMissing(Loop)
  <2>1. CASE CanAttempt(tracker, now[Loop])
    BY <1>0, <1>3, <2>1
       DEF BackendMissing, CanAttempt, SpacingInv, DueWhenCounted, Spaced, GateAhead, cycle
  <2>2. CASE ~CanAttempt(tracker, now[Loop])
    BY <1>0, <1>3, <2>2, NotTryingSpaced DEF BackendMissing, Goto, Return, NotTrying, Trying
  <2> QED
    BY <2>1, <2>2
<1>4. CASE CountFailure(Loop)
  <2>1. tracker' = RecordFailure(tracker, now[Loop]) /\ pc[Loop] = "count"
    BY <1>4 DEF CountFailure
  <2>2. Spaced(tracker') /\ GateAhead(tracker')
    BY <1>0, <2>1, RecordFailureSpaces DEF SpacingInv, DueWhenCounted, Trying
  <2>3. pc'[Loop] \in {"failed", "exhausted", "backoff"}
    BY <1>0, <1>4 DEF CountFailure, Goto
  <2> QED
    BY <2>2, <2>3 DEF SpacingInv, DueWhenCounted, Trying, Spaced, GateAhead
<1>5. CASE MarkReady(Loop)
  <2>1. tracker' = Cleared /\ pc'[Loop] = "settle"
    BY <1>0, <1>5 DEF MarkReady, Goto
  <2> QED
    BY <2>1, ClearedSpaced DEF SpacingInv, DueWhenCounted, Trying, Spaced, GateAhead
<1>6. CASE CallsOf(Loop)
  BY <1>0, <1>6, CallsNotTrying, NotTryingSpaced
<1> QED
  BY ONLY RunCycle(Loop), <1>1, <1>2, <1>3, <1>4, <1>5, <1>6
     DEF RunCycle, KeepBackend, RecoverBackend, LastResortBackend, CallsOf

\* A resume forgets the attempts; time ages them, the gate and the reading alike.
LEMMA OthersSpaced ==
    ASSUME TypeOK, TypeOK', SpacingInv, Prewarm \/ (\E o \in Operators : Command(o)) \/ Environment
    PROVE  SpacingInv'
<1>1. CASE Prewarm
  <2>0. Prewarmer \in Procs /\ Prewarmer # Loop
    BY WatchdogAssumption DEF Procs
  <2>1. NotTrying
    BY ONLY TypeOK, <2>0, <1>1, OthersNotTrying, CallsNotTrying
       DEF Prewarm, PrewarmBegins, PrewarmEnds, CallsOf, cycle
  <2> QED
    BY <2>1, NotTryingSpaced
<1>2. ASSUME NEW o \in Operators, Command(o)
      PROVE  SpacingInv'
  <2>0. o \in Procs /\ o # Loop
    BY WatchdogAssumption DEF Procs
  <2>1. CASE OperatorStopsBackend(o) \/ OperatorMovesDesktop(o)
    BY <2>1, NotTryingSpaced DEF OperatorStopsBackend, OperatorMovesDesktop, NotTrying, cycle
  <2>2. CASE BeginWarmRestart(o) \/ BumpEpoch(o) \/ DrainAndStop(o) \/ EndWarmRestart(o)
    <3>1. UNCHANGED <<tracker, now>> /\ \E l \in Labels : Goto(o, l)
      BY <2>2 DEF BeginWarmRestart, BumpEpoch, DrainAndStop, EndWarmRestart, Labels, cycle
    <3> QED
      BY <2>0, <3>1, OthersNotTrying, NotTryingSpaced
  <2>3. CASE CallsOf(o)
    BY <2>0, <2>3, CallsNotTrying, NotTryingSpaced
  <2> QED
    BY ONLY Command(o), <1>2, <2>1, <2>2, <2>3 DEF Command, WarmRestart, OperatorStartsBackend, CallsOf
<1>3. CASE Pause \/ ToggleSuppress \/ ReportAnomaly \/ DesktopMoves \/ BackendMoves \/ LeaseMoves
  BY <1>3, NotTryingSpaced
     DEF Pause, ToggleSuppress, ReportAnomaly, DesktopMoves, BackendMoves, LeaseMoves, NotTrying, cycle
<1>4. CASE Resume
  <2>1. tracker' = Cleared /\ now'[Loop] \in -MaxStale .. 0
    BY <1>4, WatchdogAssumption DEF Resume, TypeOK
  <2>2. now'[Loop] >= tracker'.nextAt
    BY <2>1, PolicyAssumption DEF Cleared, NewRestartTracker, Past
  <2> QED
    BY <2>1, <2>2, ClearedSpaced DEF SpacingInv, DueWhenCounted, Spaced, GateAhead
<1>5. CASE Tick
  <2>1. /\ UNCHANGED pc /\ tracker' = Aged(tracker) /\ tracker'.nextAt = Older(tracker.nextAt)
        /\ now'[Loop] = now[Loop] - 1
    BY <1>5, WatchdogAssumption DEF Tick, Aged, InFlight, TypeOK
  <2>2. /\ tracker.nextAt \in Int /\ now[Loop] \in Int /\ now'[Loop] \in -MaxStale .. 0
        /\ IsTracker(tracker)
    BY WatchdogAssumption, PolicyAssumption DEF TypeOK, IsTracker, Instants, Past, Longest
  <2>3. now[Loop] >= tracker.nextAt => now'[Loop] >= tracker'.nextAt
    BY <2>1, <2>2, PolicyAssumption DEF Older, Past
  <2> QED
    BY <2>1, <2>2, <2>3, AgedSpaced DEF SpacingInv, DueWhenCounted, Spaced, GateAhead
<1> QED
  BY <1>1, <1>2, <1>3, <1>4, <1>5 DEF Environment

\* Run by the loop alone, RunCycle never counts two failures closer together than the
\* initial backoff, by the readings it counts them with: a reading that is stale by the
\* time of the failure delays the next attempt less, but counts as the earlier instant.
THEOREM FailuresAreSpaced ==
    ASSUME Cyclers = {Loop}
    PROVE  Spec => []AttemptsSpaced
<1>1. Init => TypeOK /\ SpacingInv
  <2>1. ASSUME Init PROVE SpacingInv
    BY <2>1, ClearedSpaced, WatchdogAssumption
       DEF Init, SpacingInv, DueWhenCounted, Trying, Procs, Cleared
  <2> QED
    BY <2>1, InitTyped
<1>2. TypeOK /\ SpacingInv /\ [Next]_vars => TypeOK' /\ SpacingInv'
  <2> SUFFICES ASSUME TypeOK, SpacingInv, [Next]_vars PROVE SpacingInv'
    BY NextTyped
  <2>1. CASE UNCHANGED vars
    BY <2>1, NotTryingSpaced DEF vars, cycle, NotTrying
  <2>2. CASE Next
    BY <2>2, NextTyped, RunCycleSpaced, OthersSpaced DEF Next
  <2> QED
    BY <2>1, <2>2
<1>3. SpacingInv => AttemptsSpaced
  BY DEF SpacingInv, Spaced, AttemptsSpaced
<1> QED
  BY <1>1, <1>2, <1>3, PTL DEF Spec
===============================================================================
