---------------------------- MODULE Services_proofs ----------------------------
(* What the supervisor does not do to the services it watches: stop a Ready     *)
(* backend, or start more Desktops than there are cycles.                       *)
EXTENDS Watchdog_proofs

------------------------------------------------------------------------------
(* A Ready backend is spared.                                                   *)

\* Where a caller of EnsureHealthy holds spawnMu.
Starting == {"keeping", "recovering", "lasting", "warming", "starting", "restarting"}

\* Who starts a backend has the mutex, and until it is done there is none: what the
\* failure of a start takes away was not ready.
StartsAlone == \A p \in Procs : pc[p] \in Starting => spawn = p /\ managed = "down"

\* A step of p to somewhere else than a start, that readies no backend.
Elsewhere(p) ==
    /\ \E l \in Labels \ Starting : Goto(p, l)
    /\ UNCHANGED spawn /\ (managed = "down" => managed' = "down")

LEMMA ElsewhereAlone ==
    ASSUME TypeOK, StartsAlone, NEW p \in Procs, Elsewhere(p)
    PROVE  StartsAlone'
BY DEF TypeOK, StartsAlone, Elsewhere, Goto

\* EnsureHealthy starts a backend only with the mutex, and releases it when it returns.
LEMMA EnsureAlone ==
    ASSUME TypeOK, StartsAlone, NEW p \in Procs, NEW wait, NEW run \in Starting,
           NEW ok \in Labels \ Starting, NEW failed \in Labels \ Starting,
           EnsureHealthy(p, wait, run, ok, failed)
    PROVE  StartsAlone'
<1>1. CASE EnsureReuses(p, wait, ok)
  BY <1>1, ElsewhereAlone DEF EnsureReuses, Elsewhere, world
<1>2. CASE EnsureReplaces(p, wait, run)
  <2>1. \A q \in Procs : pc[q] \notin Starting
    BY <1>2, WatchdogAssumption DEF EnsureReplaces, StartsAlone
  <2> QED
    BY <1>2, <2>1 DEF EnsureReplaces, StartsAlone, Goto, TypeOK
<1>3. ASSUME NEW health, NEW l \in Labels \ Starting, EnsureEnds(p, run, health, l)
      PROVE  StartsAlone'
  <2>1. \A q \in Procs \ {p} : pc[q] \notin Starting
    BY <1>3 DEF EnsureEnds, StartsAlone
  <2>2. \A q \in Procs : pc'[q] \notin Starting
    BY <1>3, <2>1 DEF EnsureEnds, Goto, TypeOK
  <2> QED
    BY <2>2 DEF StartsAlone
<1> QED
  BY <1>1, <1>2, <1>3 DEF EnsureHealthy, EnsureSucceeds, EnsureFails

LEMMA CallsAlone ==
    ASSUME TypeOK, StartsAlone, NEW p \in Procs, CallsOf(p)
    PROVE  StartsAlone'
<1>1. CASE EnsureHealthy(p, "keep", "keeping", "look", "look")
  BY <1>1, EnsureAlone, CallLabels DEF Starting
<1>2. CASE EnsureHealthy(p, "recover", "recovering", "recheck", "count")
  BY <1>2, EnsureAlone, CallLabels DEF Starting
<1>3. CASE EnsureHealthy(p, "last", "lasting", "startDesktop", "startDesktop")
  BY <1>3, EnsureAlone, CallLabels DEF Starting
<1>4. CASE EnsureHealthy(p, "warm", "warming", "warmed", "cold")
  BY <1>4, EnsureAlone, CallLabels DEF Starting
<1>5. CASE EnsureHealthy(p, "start", "starting", "idle", "idle")
  BY <1>5, EnsureAlone, CallLabels DEF Starting
<1>6. CASE EnsureHealthy(p, "restart", "restarting", "restarted", "broken")
  BY <1>6, EnsureAlone, CallLabels DEF Starting
<1>7. CASE \/ CommandStartBackend(p, "command", "recover")
           \/ CommandStartBackend(p, "lastCommand", "last")
           \/ CommandStartBackend(p, "idle", "start")
  BY <1>7, ElsewhereAlone, CallLabels DEF CommandStartBackend, Elsewhere, Starting
<1> QED
  BY ONLY CallsOf(p), <1>1, <1>2, <1>3, <1>4, <1>5, <1>6, <1>7 DEF CallsOf

\* The statements of RunCycle that call nothing touch neither the backend nor the mutex.
LEMMA PlainElsewhere ==
    ASSUME TypeOK, NEW c \in Cyclers, Plain(c)
    PROVE  /\ UNCHANGED <<managed, spawn>>
           /\ \A p \in Procs : pc'[p] \in Starting => pc'[p] = pc[p]
<1> USE DEF TypeOK, Goto, Return, Starting, world, Procs
<1>1. CASE \/ BeginCycle(c) \/ CheckGate(c) \/ ProbeDesktop(c) \/ CheckLatch(c) \/ SetFailed(c)
           \/ GaugeBackend(c) \/ Look(c) \/ DesktopUnknown(c)
  BY <1>1 DEF BeginCycle, CheckGate, ProbeDesktop, CheckLatch, SetFailed, GaugeBackend, Look,
     DesktopUnknown
<1>2. CASE \/ ReapOrphans(c) \/ RelaunchDesktop(c) \/ BackendLiveOnly(c) \/ BackendMissing(c)
           \/ ReadLeaseAgain(c) \/ BackendSeenReady(c) \/ Recheck(c) \/ CountFailure(c)
  BY <1>2 DEF ReapOrphans, RelaunchDesktop, BackendLiveOnly, ReadLeaseAgain, BackendMissing, BackendSeenReady,
     Recheck, CountFailure
<1>3. CASE SetBackoff(c) \/ StopDesktop(c) \/ StartDesktop(c) \/ MarkReady(c) \/ Settle(c)
  BY <1>3 DEF SetBackoff, StopDesktop, StartDesktop, MarkReady, Settle
<1> QED
  BY ONLY Plain(c), <1>1, <1>2, <1>3 DEF Plain

LEMMA CommandAlone ==
    ASSUME TypeOK, StartsAlone, NEW o \in Operators, Command(o)
    PROVE  StartsAlone'
<1>0. o \in Procs
  BY DEF Procs
<1>1. CASE CallsOf(o)
  BY <1>0, <1>1, CallsAlone
<1>2. CASE OperatorStopsBackend(o) \/ OperatorMovesDesktop(o)
  BY <1>2 DEF OperatorStopsBackend, OperatorMovesDesktop, Stopped, StartsAlone
<1>3. CASE BeginWarmRestart(o) \/ BumpEpoch(o) \/ DrainAndStop(o) \/ EndWarmRestart(o)
  <2>1. Elsewhere(o)
    BY <1>3 DEF BeginWarmRestart, BumpEpoch, DrainAndStop, EndWarmRestart, Stopped, Elsewhere, Labels,
       Starting, world
  <2> QED
    BY <1>0, <2>1, ElsewhereAlone
<1> QED
  BY ONLY Command(o), <1>1, <1>2, <1>3 DEF Command, WarmRestart, OperatorStartsBackend, CallsOf

LEMMA PrewarmAlone ==
    ASSUME TypeOK, StartsAlone, Prewarm
    PROVE  StartsAlone'
<1>0. Prewarmer \in Procs
  BY DEF Procs
<1>1. CASE PrewarmBegins \/ PrewarmEnds
  <2>1. Elsewhere(Prewarmer)
    BY <1>1 DEF PrewarmBegins, PrewarmEnds, Elsewhere, Labels, Starting, world
  <2> QED
    BY <1>0, <2>1, ElsewhereAlone
<1>2. CASE CallsOf(Prewarmer)
  BY <1>0, <1>2, CallsAlone
<1> QED
  BY ONLY Prewarm, <1>1, <1>2 DEF Prewarm, CallsOf

LEMMA EnvironmentAlone ==
    ASSUME TypeOK, StartsAlone, Environment
    PROVE  StartsAlone'
BY DEF StartsAlone, Environment, Pause, Resume, ToggleSuppress, ReportAnomaly, DesktopMoves,
   BackendMoves, LeaseMoves, Tick, world

LEMMA InitAlone == Init => StartsAlone
BY DEF Init, StartsAlone, Starting

LEMMA NextAlone == TypeOK /\ StartsAlone /\ [Next]_vars => StartsAlone'
<1> SUFFICES ASSUME TypeOK, StartsAlone, [Next]_vars PROVE StartsAlone'
  OBVIOUS
<1>1. ASSUME NEW c \in Cyclers, RunCycle(c) PROVE StartsAlone'
  <2>0. c \in Procs
    BY DEF Procs
  <2>1. CASE Plain(c)
    BY <2>1, PlainElsewhere DEF StartsAlone
  <2>2. CASE CallsOf(c)
    BY <2>0, <2>2, CallsAlone
  <2> QED
    BY <1>1, <2>1, <2>2, CycleParts
<1>2. CASE UNCHANGED vars
  BY <1>2 DEF vars, world, StartsAlone
<1> QED
  BY <1>1, <1>2, CommandAlone, PrewarmAlone, EnvironmentAlone DEF Next

\* No token drifts, and Ready is not lost and found again.
ReadyIsKept == "tokenDrift" \notin Events /\ "degrades" \notin Events

\* Which step of a call takes a backend away.
LEMMA CallsSpare ==
    ASSUME ReadyIsKept, TypeOK, StartsAlone, NEW p \in Procs, CallsOf(p),
           managed = "ready"
    PROVE  managed' = "ready"
<1>1. ASSUME NEW wait, NEW run \in Starting, NEW ok, NEW failed,
             EnsureHealthy(p, wait, run, ok, failed)
      PROVE  managed' = "ready"
  BY <1>1 DEF EnsureHealthy, EnsureReuses, EnsureReplaces, EnsureSucceeds, EnsureFails, EnsureEnds,
     StartsAlone, Replaceable, ReadyIsKept, world
<1>2. CASE \/ CommandStartBackend(p, "command", "recover")
           \/ CommandStartBackend(p, "lastCommand", "last")
           \/ CommandStartBackend(p, "idle", "start")
  BY <1>2 DEF CommandStartBackend
<1>3. {"keeping", "recovering", "lasting", "warming", "starting", "restarting"} = Starting
  BY DEF Starting
<1> QED
  BY <1>1, <1>2, <1>3 DEF CallsOf

\* Recovery, keep-alive and prewarm, however many of them there are at once, never stop
\* a Ready backend whose token is accepted: EnsureHealthy probes it again inside spawnMu,
\* and what it finds stays so until it acts on it.
THEOREM ReadyStaysUp ==
    ASSUME ReadyIsKept
    PROVE  Spec => ReadyBackendSpared
<1> DEFINE Spared == managed = "ready" /\ managed' = "down" =>
                        BackendMoves \/ \E o \in Operators : Command(o)
<1>1. TypeOK /\ StartsAlone /\ [Next]_vars => [Spared]_vars
  <2> SUFFICES ASSUME TypeOK, StartsAlone, Next, managed = "ready", managed' = "down"
               PROVE  BackendMoves \/ \E o \in Operators : Command(o)
    OBVIOUS
  <2>1. ASSUME NEW c \in Cyclers, RunCycle(c) PROVE FALSE
    BY <2>1, CycleParts, PlainElsewhere, CallsSpare DEF Procs
  <2>2. CASE Prewarm
    <3>1. CASE PrewarmBegins \/ PrewarmEnds
      BY <3>1 DEF PrewarmBegins, PrewarmEnds, world
    <3>2. CASE CallsOf(Prewarmer)
      BY <3>2, CallsSpare DEF Procs
    <3> QED
      BY ONLY <2>2, <3>1, <3>2 DEF Prewarm, CallsOf
  <2>3. CASE Environment
    BY <2>3 DEF Environment, Pause, Resume, ToggleSuppress, ReportAnomaly, DesktopMoves,
       LeaseMoves, Tick, world
  <2> QED
    BY <2>1, <2>2, <2>3 DEF Next
<1> QED
  BY <1>1, InitTyped, NextTyped, InitAlone, NextAlone, PTL DEF Spec, ReadyBackendSpared

------------------------------------------------------------------------------
(* How many Desktops.                                                           *)

\* From its kill to its launch the last resort leaves Desktop stopped.
Killed == {"lastCommand", "last", "lasting", "startDesktop"}

\* The cycles that may still launch a Desktop on what they know: that they saw none, or
\* have killed it.
Pending == {c \in Cyclers : probe[c] = "down" \/ pc[c] \in Killed}

\* Desktops that run and Desktops that may still be launched are no more than the cycles:
\* a probe or a kill makes a launch possible only when none runs, and a launch uses it up.
DesktopsCounted ==
    /\ desktops + Cardinality(Pending) <= Cardinality(Cyclers)
    /\ \A c \in Cyclers : pc[c] = "relaunch" => probe[c] = "down"

\* taskkill works, and nobody but RunCycle starts Desktop.
OnlyCyclesLaunch ==
    "killFails" \notin Events /\ "userDesktop" \notin Events /\ "start_desktop" \notin Commands

\* Pending cycles are counted by a natural number.
LEMMA PendingFacts ==
    /\ IsFiniteSet(Pending) /\ Cardinality(Pending) \in Nat
    /\ Cardinality(Pending) <= Cardinality(Cyclers)
    /\ Cardinality(Cyclers) \in Nat /\ Cardinality(Cyclers) >= 1
BY CyclersFacts, FS_Subset, FS_CardinalityType, WatchdogAssumption DEF Pending

\* So they are after the step.
LEMMA PendingFactsNext ==
    Cardinality(Pending') \in Nat /\ Cardinality(Pending') <= Cardinality(Cyclers)
BY FS_Subset, FS_CardinalityType, WatchdogAssumption DEF Pending

\* Whoever launches nothing and learns nothing new keeps the count.
LEMMA NobodyLaunches ==
    ASSUME TypeOK, TypeOK', DesktopsCounted, Pending' \subseteq Pending, desktops' <= desktops
    PROVE  desktops' + Cardinality(Pending') <= Cardinality(Cyclers)
<1>1. Cardinality(Pending') \in Nat /\ Cardinality(Pending') <= Cardinality(Pending)
  BY PendingFacts, FS_Subset, FS_CardinalityType
<1>2. desktops \in Nat /\ desktops' \in Nat
  BY WatchdogAssumption DEF TypeOK
<1> QED
  BY <1>1, <1>2, PendingFacts DEF DesktopsCounted

\* Without a Desktop each cycle may go on to launch one.
LEMMA NoneRuns ==
    ASSUME TypeOK', desktops' = 0
    PROVE  desktops' + Cardinality(Pending') <= Cardinality(Cyclers)
BY PendingFacts, PendingFactsNext

\* A launch uses up what the cycle knew.
LEMMA PendingLaunches ==
    ASSUME TypeOK, TypeOK', DesktopsCounted, NEW c \in Pending, Pending' \subseteq Pending \ {c},
           desktops' <= desktops + 1
    PROVE  desktops' + Cardinality(Pending') <= Cardinality(Cyclers)
<1>1. /\ Cardinality(Pending') \in Nat
      /\ Cardinality(Pending') <= Cardinality(Pending) - 1
  BY PendingFacts, FS_RemoveElement, FS_Subset, FS_CardinalityType
<1>2. desktops \in Nat /\ desktops' \in Nat
  BY WatchdogAssumption DEF TypeOK
<1> QED
  BY <1>1, <1>2, PendingFacts DEF DesktopsCounted

\* A step of p that neither launches nor comes by the right to.
NoLaunch(p) ==
    /\ \E l \in Labels : Goto(p, l) /\ l # "relaunch" /\ (l \in Killed => pc[p] \in Killed)
    /\ probe' = probe \/ probe' = [probe EXCEPT ![p] = "unknown"]
    /\ UNCHANGED desktops

LEMMA NoLaunchCounted ==
    ASSUME TypeOK, TypeOK', DesktopsCounted, NEW p \in Procs, NoLaunch(p)
    PROVE  DesktopsCounted'
<1>1. PICK l \in Labels : Goto(p, l) /\ l # "relaunch" /\ (l \in Killed => pc[p] \in Killed)
  BY DEF NoLaunch
<1>2. \A c \in Cyclers : /\ pc'[c] = (IF c = p THEN l ELSE pc[c])
                         /\ probe'[c] = probe[c] \/ (c = p /\ probe'[c] = "unknown")
  BY <1>1 DEF Goto, TypeOK, Procs, NoLaunch
<1>3. Pending' \subseteq Pending
  BY <1>1, <1>2 DEF Pending
<1>4. desktops' <= desktops
  BY WatchdogAssumption DEF NoLaunch, TypeOK
<1> QED
  BY <1>1, <1>2, <1>3, <1>4, NobodyLaunches DEF DesktopsCounted

\* The calls of EnsureHealthy are no business of Desktop's.
LEMMA CallsLaunchNothing ==
    ASSUME TypeOK, NEW p \in Procs, CallsOf(p)
    PROVE  NoLaunch(p)
<1> USE DEF EnsureHealthy, EnsureReuses, EnsureReplaces, EnsureSucceeds, EnsureFails, EnsureEnds,
            world, cycle, Killed, NoLaunch
<1>1. CASE EnsureHealthy(p, "keep", "keeping", "look", "look")
  BY <1>1, CallLabels
<1>2. CASE EnsureHealthy(p, "recover", "recovering", "recheck", "count")
  BY <1>2, CallLabels
<1>3. CASE EnsureHealthy(p, "last", "lasting", "startDesktop", "startDesktop")
  BY <1>3, CallLabels
<1>4. CASE EnsureHealthy(p, "warm", "warming", "warmed", "cold")
  BY <1>4, CallLabels
<1>5. CASE EnsureHealthy(p, "start", "starting", "idle", "idle")
  BY <1>5, CallLabels
<1>6. CASE EnsureHealthy(p, "restart", "restarting", "restarted", "broken")
  BY <1>6, CallLabels
<1>7. CASE \/ CommandStartBackend(p, "command", "recover")
           \/ CommandStartBackend(p, "lastCommand", "last")
           \/ CommandStartBackend(p, "idle", "start")
  BY <1>7, CallLabels DEF CommandStartBackend
<1> QED
  BY ONLY CallsOf(p), <1>1, <1>2, <1>3, <1>4, <1>5, <1>6, <1>7 DEF CallsOf

\* RunCycle launches Desktop only where it has seen or made sure that there is none, and
\* forgets what it saw with the launch.
LEMMA PlainCounted ==
    ASSUME OnlyCyclesLaunch, TypeOK, TypeOK', DesktopsCounted, NEW c \in Cyclers, Plain(c)
    PROVE  DesktopsCounted'
<1>0. /\ c \in Procs /\ desktops \in Nat /\ Cyclers \subseteq Procs
      /\ pc \in [Procs -> Labels] /\ probe \in [Cyclers -> {"unknown", "down", "up"}]
  BY WatchdogAssumption DEF Procs, TypeOK
<1>1. CASE \/ BeginCycle(c) \/ CheckGate(c) \/ CheckLatch(c) \/ SetFailed(c) \/ GaugeBackend(c)
           \/ Look(c) \/ DesktopUnknown(c) \/ BackendLiveOnly(c) \/ BackendMissing(c)
           \/ ReadLeaseAgain(c) \/ BackendSeenReady(c) \/ Recheck(c) \/ CountFailure(c) \/ SetBackoff(c)
           \/ MarkReady(c) \/ Settle(c)
  <2> USE <1>0 DEF NoLaunch, Killed, Goto, Return, world, cycle, Labels
  <2>1. CASE BeginCycle(c) \/ CheckGate(c) \/ CheckLatch(c) \/ SetFailed(c) \/ GaugeBackend(c)
    <3>1. NoLaunch(c)
      BY <2>1 DEF BeginCycle, CheckGate, CheckLatch, SetFailed, GaugeBackend
    <3> QED
      BY ONLY <1>0, <3>1, TypeOK, TypeOK', DesktopsCounted, NoLaunchCounted
  <2>2. CASE \/ Look(c) \/ DesktopUnknown(c) \/ BackendLiveOnly(c) \/ BackendMissing(c)
             \/ ReadLeaseAgain(c) \/ BackendSeenReady(c)
    <3>1. NoLaunch(c)
      BY <2>2 DEF Look, DesktopUnknown, BackendLiveOnly, ReadLeaseAgain, BackendMissing, BackendSeenReady
    <3> QED
      BY ONLY <1>0, <3>1, TypeOK, TypeOK', DesktopsCounted, NoLaunchCounted
  <2>3. CASE Recheck(c) \/ CountFailure(c) \/ SetBackoff(c) \/ MarkReady(c) \/ Settle(c)
    <3>1. NoLaunch(c)
      BY <2>3 DEF Recheck, CountFailure, SetBackoff, MarkReady, Settle
    <3> QED
      BY ONLY <1>0, <3>1, TypeOK, TypeOK', DesktopsCounted, NoLaunchCounted
  <2> QED
    BY ONLY <1>1, <2>1, <2>2, <2>3
<1>2. CASE ProbeDesktop(c)
  <2>1. /\ desktops' = desktops /\ pc' = [pc EXCEPT ![c] = "latch"]
        /\ \E label : probe' = [probe EXCEPT ![c] = label] /\ (label = "down" => desktops = 0)
    BY <1>2 DEF ProbeDesktop, Goto, world
  <2>2. desktops = 0 \/ Pending' \subseteq Pending
    BY <1>0, <2>1 DEF Pending, Killed
  <2>3. desktops' + Cardinality(Pending') <= Cardinality(Cyclers)
    BY <1>0, <2>1, <2>2, NoneRuns, NobodyLaunches
  <2> QED
    BY <1>0, <2>1, <2>3 DEF DesktopsCounted
<1>3. CASE ReapOrphans(c)
  <2>1. /\ UNCHANGED <<desktops, probe>> /\ pc' = [pc EXCEPT ![c] = "relaunch"]
        /\ probe[c] = "down"
    BY <1>3 DEF ReapOrphans, Goto, cycle
  <2>2. Pending' \subseteq Pending
    BY <1>0, <2>1 DEF Pending
  <2>3. desktops' + Cardinality(Pending') <= Cardinality(Cyclers)
    BY <1>0, <2>1, <2>2, NobodyLaunches
  <2> QED
    BY <1>0, <2>1, <2>3 DEF DesktopsCounted
<1>4. CASE RelaunchDesktop(c) \/ StartDesktop(c)
  <2>1. desktops' <= desktops + 1
    BY <1>0, <1>4 DEF RelaunchDesktop, StartDesktop, Launched
  <2>2. /\ pc' = [pc EXCEPT ![c] = "idle"] /\ probe' = [probe EXCEPT ![c] = "unknown"]
        /\ pc[c] \in {"relaunch", "startDesktop"}
    BY <1>4 DEF RelaunchDesktop, StartDesktop, Return, Goto
  <2>3. c \in Pending /\ Pending' \subseteq Pending \ {c}
    BY <1>0, <2>2 DEF Pending, Killed, DesktopsCounted
  <2>4. desktops' + Cardinality(Pending') <= Cardinality(Cyclers)
    BY <2>1, <2>3, PendingLaunches
  <2> QED
    BY <1>0, <2>2, <2>4 DEF DesktopsCounted
<1>5. CASE StopDesktop(c)
  <2>1. desktops' = 0 /\ pc' = [pc EXCEPT ![c] = "lastCommand"] /\ UNCHANGED probe
    BY <1>5 DEF StopDesktop, StopDesktopTrees, OnlyCyclesLaunch, Goto, cycle
  <2> QED
    BY <1>0, <2>1, NoneRuns DEF DesktopsCounted
<1> QED
  BY ONLY Plain(c), <1>1, <1>2, <1>3, <1>4, <1>5 DEF Plain

\* A step that moves no goroutine, forgets no probe and starts no Desktop keeps the count.
LEMMA StandingCounted ==
    ASSUME TypeOK, TypeOK', DesktopsCounted, UNCHANGED <<pc, probe>>, desktops' <= desktops
    PROVE  DesktopsCounted'
<1>1. Pending' \subseteq Pending
  BY DEF Pending
<1> QED
  BY <1>1, NobodyLaunches DEF DesktopsCounted

LEMMA OthersCounted ==
    ASSUME OnlyCyclesLaunch, TypeOK, TypeOK', DesktopsCounted,
           Prewarm \/ (\E o \in Operators : Command(o)) \/ Environment
    PROVE  DesktopsCounted'
<1>0. desktops \in Nat /\ Prewarmer \in Procs
  BY WatchdogAssumption DEF TypeOK, Procs
<1>1. CASE Prewarm
  <2>1. NoLaunch(Prewarmer)
    <3>1. CASE PrewarmBegins \/ PrewarmEnds
      BY <3>1 DEF PrewarmBegins, PrewarmEnds, NoLaunch, Killed, Labels, world, cycle
    <3>2. CASE CallsOf(Prewarmer)
      BY <1>0, <3>2, CallsLaunchNothing
    <3> QED
      BY ONLY <1>1, <3>1, <3>2 DEF Prewarm, CallsOf
  <2> QED
    BY <1>0, <2>1, NoLaunchCounted
<1>2. ASSUME NEW o \in Operators, Command(o) PROVE DesktopsCounted'
  <2>0. o \in Procs
    BY DEF Procs
  <2>1. CASE CallsOf(o)
    BY <2>0, <2>1, CallsLaunchNothing, NoLaunchCounted
  <2>2. CASE OperatorStopsBackend(o)
    BY <1>0, <2>2, StandingCounted DEF OperatorStopsBackend, cycle
  <2>3. CASE OperatorMovesDesktop(o)
    <3>1. desktops' = 0 /\ UNCHANGED <<pc, probe>>
      BY <2>3 DEF OperatorMovesDesktop, StopDesktopTrees, OnlyCyclesLaunch, cycle
    <3> QED
      BY <1>0, <3>1, StandingCounted
  <2>4. CASE BeginWarmRestart(o) \/ BumpEpoch(o) \/ DrainAndStop(o) \/ EndWarmRestart(o)
    <3>1. NoLaunch(o)
      BY <2>4 DEF BeginWarmRestart, BumpEpoch, DrainAndStop, EndWarmRestart, NoLaunch, Killed,
         Labels, world, cycle
    <3> QED
      BY <2>0, <3>1, NoLaunchCounted
  <2> QED
    BY ONLY <1>2, <2>1, <2>2, <2>3, <2>4 DEF Command, WarmRestart, OperatorStartsBackend, CallsOf
<1>3. CASE Environment
  <2>1. UNCHANGED <<pc, probe>> /\ desktops' <= desktops
    BY <1>0, <1>3 DEF Environment, Pause, Resume, ToggleSuppress, ReportAnomaly, DesktopMoves,
       BackendMoves, LeaseMoves, Tick, world, cycle, OnlyCyclesLaunch
  <2> QED
    BY <2>1, StandingCounted
<1> QED
  BY <1>1, <1>2, <1>3

LEMMA NextCounted ==
    ASSUME OnlyCyclesLaunch, TypeOK, DesktopsCounted, [Next]_vars
    PROVE  DesktopsCounted'
<1>0. TypeOK' /\ desktops \in Nat
  BY NextTyped, WatchdogAssumption DEF TypeOK
<1>1. ASSUME NEW c \in Cyclers, RunCycle(c) PROVE DesktopsCounted'
  <2>1. c \in Procs
    BY DEF Procs
  <2> QED
    BY <1>0, <1>1, <2>1, CycleParts, PlainCounted, CallsLaunchNothing, NoLaunchCounted
<1>2. CASE UNCHANGED vars
  BY <1>0, <1>2, StandingCounted DEF vars, world, cycle
<1> QED
  BY <1>0, <1>1, <1>2, OthersCounted DEF Next

LEMMA InitCounted == Init => DesktopsCounted
<1> SUFFICES ASSUME Init PROVE DesktopsCounted
  OBVIOUS
<1>1. Pending = {}
  BY DEF Init, Pending, Killed, Procs
<1>2. desktops \in {0, 1} /\ \A c \in Cyclers : pc[c] # "relaunch"
  BY DEF Init, Procs
<1> QED
  BY <1>1, <1>2, PendingFacts, FS_EmptySet DEF DesktopsCounted

\* However many goroutines run cycles at once and whatever their probes miss, the backend
\* does and time brings, there are no more Desktops than cycles: each goroutine launches
\* on its own observation, and only once on each.
THEOREM DesktopsStayBounded ==
    ASSUME OnlyCyclesLaunch
    PROVE  Spec => []DesktopsBounded
<1>1. TypeOK /\ DesktopsCounted => DesktopsBounded
  <2> SUFFICES ASSUME TypeOK, DesktopsCounted PROVE DesktopsBounded
    OBVIOUS
  <2>1. desktops \in Nat
    BY WatchdogAssumption DEF TypeOK
  <2> QED
    BY <2>1, PendingFacts DEF DesktopsCounted, DesktopsBounded
<1> QED
  BY <1>1, InitTyped, NextTyped, InitCounted, NextCounted, PTL DEF Spec

\* With cycles in one goroutine, the watchdog starts Desktop only when there is none.
THEOREM NoSecondDesktop ==
    ASSUME OnlyCyclesLaunch, Cyclers = {Loop}
    PROVE  Spec => []OneDesktop
<1>1. DesktopsBounded => OneDesktop
  BY FS_Singleton DEF DesktopsBounded, OneDesktop
<1> QED
  BY <1>1, DesktopsStayBounded, PTL
===============================================================================
