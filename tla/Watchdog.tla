------------------------------ MODULE Watchdog ------------------------------
(* The supervisor: every goroutine that may run RunCycle, the prewarm         *)
(* goroutine and the operator's handlers, sharing one RestartTracker, the     *)
(* service states, the pause flag and the update gate, over the processes     *)
(* they supervise. Nothing serialises the cycles: only EnsureHealthy has a    *)
(* mutex. One step is what a goroutine does between two points where another  *)
(* one can be seen: a probe, a blocking call, a write of shared state.        *)
(*                                                                            *)
(* EnsureHealthy is modelled by its effect on the managed backend and the     *)
(* mutex it holds; RestartTracker's methods are atomic.                       *)
EXTENDS RestartPolicy

CONSTANTS
    Cyclers,        \* goroutines that call RunCycle
    Loop,           \* the one of them that runs RunLoop; the others serve /api/v1/cycle
    Operators,      \* goroutines that execute operator commands
    Prewarmer,      \* the goroutine main starts for PrewarmBackend
    NoProc,         \* nobody
    PrewarmBackend, \* cfg.PrewarmBackend
    FailThreshold,  \* cfg.FailThreshold
    Commands,       \* the commands the operators send
    Events,         \* what the environment may do, see Environment below
    MaxDesktops     \* bound: Desktop instances are not counted beyond it

Procs == Cyclers \cup Operators \cup {Prewarmer}

\* The states of a supervised service, as String prints them. setDesktopState and
\* setBackendState assign any of them: a move outside the table is only logged.
ServiceStates ==
    {"unknown", "starting", "ready", "degraded", "unresponsive",
     "stopping", "stopped", "backoff", "failed"}

ASSUME WatchdogAssumption ==
    /\ IsFiniteSet(Cyclers) /\ Loop \in Cyclers /\ Prewarmer \notin Cyclers \cup Operators
    /\ Cyclers \cap Operators = {} /\ NoProc \notin Procs
    /\ PrewarmBackend \in BOOLEAN /\ FailThreshold \in Nat \ {0}
    /\ MaxDesktops \in Nat \ {0}
    /\ Commands \subseteq {"start_backend", "stop_backend", "start_desktop",
                           "stop_desktop", "warm_restart"}

VARIABLES
    paused, suppress,           \* the pause flag; whether the update gate is active
    rendererOnly,               \* RecoveryPolicy.lastRendererOnly
    tracker, failCount,         \* the restart tracker; the last-resort counter
    desktopState, backendState, \* the two service states
    desktops,                   \* Hermes.exe instances
    managed,                    \* the backend the watchdog starts: down, live or ready
    ephemeral,                  \* a ready backend that Desktop started for itself
    lease,                      \* a fresh backend heartbeat that claims Ready: none or ready
    spawn,                      \* holder of spawnMu
    pc,                         \* where each goroutine is
    now, probe, seen            \* what each cycle remembers: its clock reading, its
                                \* Desktop probe and its backend probe

gates  == <<paused, suppress, rendererOnly>>
world  == <<desktops, managed, ephemeral, lease>>
cycle  == <<now, probe, seen>>
vars   == <<gates, tracker, failCount, desktopState, backendState, world, spawn, pc, cycle>>

Labels ==
    {"idle", "gate", "probe", "latch", "failed", "gauge", "keep", "keeping", "look", "decide",
     "reread", "relaunch", "command", "recover", "recovering", "recheck", "count", "backoff", "exhausted",
     "stopDesktop", "lastCommand", "last", "lasting", "startDesktop", "healthy", "settle",
     "prewarm", "warm", "warming", "warmed", "cold",
     "start", "starting", "intent", "drain", "restart", "restarting", "restarted", "broken"}

\* The types: counters stay within their bounds, whatever RunCycle, the operator
\* and the environment do, and each state variable holds one of the nine states.
TypeOK ==
    /\ paused \in BOOLEAN /\ suppress \in BOOLEAN /\ rendererOnly \in BOOLEAN
    /\ IsTracker(tracker) /\ failCount \in 0 .. FailThreshold
    /\ desktopState \in ServiceStates /\ backendState \in ServiceStates
    /\ desktops \in 0 .. MaxDesktops
    /\ managed \in {"down", "live", "ready"} /\ ephemeral \in BOOLEAN
    /\ lease \in {"none", "ready"}
    /\ spawn \in Procs \cup {NoProc}
    /\ pc \in [Procs -> Labels]
    /\ now \in [Cyclers -> -MaxStale .. 0]
    /\ probe \in [Cyclers -> {"unknown", "down", "up"}]
    /\ seen \in [Cyclers -> {"none", "live", "ready"}]

\* A watchdog starts in whatever world an earlier one left, perhaps in the middle of a
\* relaunch or of a start: of its own memory nothing is kept.
Init ==
    /\ paused = FALSE /\ suppress \in {b \in BOOLEAN : b => "suppress" \in Events} /\ rendererOnly = FALSE
    /\ tracker = NewRestartTracker /\ failCount = 0
    /\ desktopState = "unknown" /\ backendState = "unknown"
    /\ desktops \in {0, 1}
    /\ managed \in {m \in {"down", "live", "ready"} : m = "live" => "degrades" \in Events}
    /\ ephemeral \in {b \in BOOLEAN : b => "ephemeral" \in Events} /\ lease = "none"
    /\ spawn = NoProc
    /\ pc = [p \in Procs |-> IF p = Prewarmer /\ PrewarmBackend THEN "prewarm" ELSE "idle"]
    /\ now = [c \in Cyclers |-> 0]
    /\ probe = [c \in Cyclers |-> "unknown"] /\ seen = [c \in Cyclers |-> "none"]

Goto(p, label) == pc' = [pc EXCEPT ![p] = label]

\* A return from RunCycle. The loop's next cycle is due MaxStale after this one began.
Return(c) ==
    /\ Goto(c, "idle")
    /\ probe' = [probe EXCEPT ![c] = "unknown"] /\ seen' = [seen EXCEPT ![c] = "none"]
    /\ now' = [now EXCEPT ![c] = IF c = Loop THEN @ ELSE 0]

\* What findAnyHealthyBackend can come back with. When the WMI scan for serve
\* processes fails, only the managed backend is left to be found.
BackendSightings ==
    LET owned == IF managed = "down" THEN "none" ELSE managed
    IN  IF ephemeral THEN {"ready", owned} ELSE {owned}

\* backendReady and backendLive of a probed backend: a fresh lease counts too.
backendReady(s) == s = "ready" \/ (s = "live" /\ lease = "ready")

\* startPackagedDesktop: Hermes.exe may be missing or fail to start.
Launched == {IF desktops < MaxDesktops THEN desktops + 1 ELSE desktops}
            \cup (IF "launchFails" \in Events THEN {desktops} ELSE {})

\* stopAllDesktopProcessTrees: a wedged Desktop may survive taskkill, and a serve
\* that Desktop started dies with the tree unless it has been orphaned.
StopDesktopTrees ==
    /\ desktops' \in {0} \cup (IF "killFails" \in Events THEN {desktops} ELSE {})
    /\ ephemeral' \in {FALSE, ephemeral}

-----------------------------------------------------------------------------
(* EnsureHealthy, called at wait by p: it takes spawnMu, returns at once when *)
(* the managed backend answers and takes the session token, else stops it and *)
(* holds the mutex, at run, until a replacement answers or has failed. With   *)
(* "degrades" a backend may turn Ready after the probe and before the stop.   *)

EnsureReuses(p, wait, ok) ==
    /\ pc[p] = wait /\ spawn = NoProc /\ managed # "down"
    /\ Goto(p, ok)
    /\ UNCHANGED <<gates, tracker, failCount, desktopState, backendState, world, spawn, cycle>>

\* The managed backend was found dead, not Ready, or Ready but refusing the token.
Replaceable == managed = "ready" => "tokenDrift" \in Events \/ "degrades" \in Events

\* Mutant of EnsureReplaces: spawnMu is not taken.
EnsureReplacesUnlocked(p, wait, run) ==
    /\ pc[p] = wait /\ Replaceable
    /\ spawn' = p /\ managed' = "down" /\ Goto(p, run)
    /\ UNCHANGED <<gates, tracker, failCount, desktopState, backendState,
                   desktops, ephemeral, lease, cycle>>

EnsureReplaces(p, wait, run) ==
    /\ pc[p] = wait /\ spawn = NoProc /\ Replaceable
    /\ spawn' = p /\ managed' = "down" /\ Goto(p, run)
    /\ UNCHANGED <<gates, tracker, failCount, desktopState, backendState,
                   desktops, ephemeral, lease, cycle>>

\* Mutant of EnsureEnds: an error return leaves spawnMu locked.
EnsureEndsLocked(p, run, health, next) ==
    /\ pc[p] = run
    /\ spawn' = (IF health = "down" THEN spawn ELSE NoProc)
    /\ managed' = health /\ Goto(p, next)
    /\ UNCHANGED <<gates, tracker, failCount, desktopState, backendState,
                   desktops, ephemeral, lease, cycle>>

EnsureEnds(p, run, health, next) ==
    /\ pc[p] = run
    /\ spawn' = NoProc /\ managed' = health /\ Goto(p, next)
    /\ UNCHANGED <<gates, tracker, failCount, desktopState, backendState,
                   desktops, ephemeral, lease, cycle>>

\* waitForReadyPort waits for /api/status only.
EnsureSucceeds(p, run, ok) ==
    /\ "startsWork" \in Events
    /\ \/ EnsureEnds(p, run, "ready", ok)
       \/ "degrades" \in Events /\ EnsureEnds(p, run, "live", ok)

EnsureFails(p, run, failed) == "startsFail" \in Events /\ EnsureEnds(p, run, "down", failed)

EnsureHealthy(p, wait, run, ok, failed) ==
    \/ EnsureReuses(p, wait, ok)
    \/ EnsureReplaces(p, wait, run)
    \/ EnsureSucceeds(p, run, ok)
    \/ EnsureFails(p, run, failed)

-----------------------------------------------------------------------------
(* RunCycle, in the order of its statements.                                  *)

\* Mutant of BeginCycle: no pause check.
BeginCyclePaused(c) ==
    /\ pc[c] = "idle"
    /\ pc' = [pc EXCEPT ![c] = "gate"]
    /\ now' = [now EXCEPT ![c] = 0]
    /\ UNCHANGED <<gates, tracker, failCount, desktopState, backendState, world, spawn,
                   probe, seen>>

\* The pause check. A paused cycle only saves its state.
BeginCycle(c) ==
    /\ pc[c] = "idle"
    /\ pc' = IF paused THEN pc ELSE [pc EXCEPT ![c] = "gate"]
    /\ now' = [now EXCEPT ![c] = 0]
    /\ UNCHANGED <<gates, tracker, failCount, desktopState, backendState, world, spawn,
                   probe, seen>>

\* Mutant of CheckGate: an active gate is only logged.
CheckGateLogged(c) ==
    /\ pc[c] = "gate"
    /\ Goto(c, "probe")
    /\ UNCHANGED <<gates, tracker, failCount, desktopState, backendState, world, spawn, cycle>>

\* The update gate. A suppressed cycle probes, saves its state and returns.
CheckGate(c) ==
    /\ pc[c] = "gate"
    /\ IF suppress THEN Return(c) ELSE Goto(c, "probe") /\ UNCHANGED cycle
    /\ UNCHANGED <<gates, tracker, failCount, desktopState, backendState, world, spawn>>

\* Mutant of ProbeDesktop: a failed enumeration counts as no Desktop.
ProbeDesktopFailedIsDown(c) ==
    /\ pc[c] = "probe"
    /\ \E label \in {IF desktops = 0 THEN "down" ELSE "up"}
                    \cup (IF "probeFails" \in Events THEN {"down"} ELSE {}) :
        /\ probe' = [probe EXCEPT ![c] = label]
        /\ desktopState' = IF label = "down" THEN "stopped" ELSE "ready"
    /\ now' = [now EXCEPT ![c] = 0]
    /\ Goto(c, "latch")
    /\ UNCHANGED <<gates, tracker, failCount, backendState, world, spawn, seen>>

\* The clock is read, Desktop is probed, and desktopState follows the probe:
\* a failed enumeration is unknown, never down.
ProbeDesktop(c) ==
    /\ pc[c] = "probe"
    /\ \E label \in {IF desktops = 0 THEN "down" ELSE "up"}
                    \cup (IF "probeFails" \in Events THEN {"unknown"} ELSE {}) :
        /\ probe' = [probe EXCEPT ![c] = label]
        /\ desktopState' =
              CASE label = "unknown" -> "unknown"
                [] label = "down"    -> "stopped"
                [] label = "up" /\ desktopState \in {"unknown", "stopped", "starting", "degraded"}
                                     -> "ready"
                [] OTHER             -> desktopState
    /\ now' = [now EXCEPT ![c] = 0]
    /\ Goto(c, "latch")
    /\ UNCHANGED <<gates, tracker, failCount, backendState, world, spawn, seen>>

\* Mutant of CheckLatch: the cycle goes on with the latch set.
CheckLatchIgnored(c) ==
    /\ pc[c] = "latch"
    /\ Goto(c, "gauge")
    /\ UNCHANGED <<gates, tracker, failCount, desktopState, backendState, world, spawn, cycle>>

CheckLatch(c) ==
    /\ pc[c] = "latch"
    /\ Goto(c, IF tracker.failed THEN "failed" ELSE "gauge")
    /\ UNCHANGED <<gates, tracker, failCount, desktopState, backendState, world, spawn, cycle>>

\* Reached with the latch set, at the start of a cycle or after its own failure.
SetFailed(c) ==
    /\ pc[c] = "failed"
    /\ backendState' = "failed"
    /\ Return(c)
    /\ UNCHANGED <<gates, tracker, failCount, desktopState, world, spawn>>

\* Mutant of GaugeBackend: the tracker is not asked.
GaugeBackendUngated(c) ==
    /\ pc[c] = "gauge"
    /\ \E s \in BackendSightings :
          Goto(c, IF PrewarmBackend /\ ~backendReady(s) THEN "keep" ELSE "look")
    /\ UNCHANGED <<gates, tracker, failCount, desktopState, backendState, world, spawn, cycle>>

\* The backend is ensured unless something Ready is visible or backoff forbids it.
GaugeBackend(c) ==
    /\ pc[c] = "gauge"
    /\ IF CanAttempt(tracker, now[c])
       THEN /\ \E s \in BackendSightings :
                 Goto(c, IF PrewarmBackend /\ ~backendReady(s) THEN "keep" ELSE "look")
            /\ UNCHANGED backendState
       ELSE backendState' = "backoff" /\ Goto(c, "look")
    /\ UNCHANGED <<gates, tracker, failCount, desktopState, world, spawn, cycle>>

KeepBackend(c) == EnsureHealthy(c, "keep", "keeping", "look", "look")

Look(c) ==
    /\ pc[c] = "look"
    /\ \E s \in BackendSightings : seen' = [seen EXCEPT ![c] = s]
    /\ Goto(c, "decide")
    /\ UNCHANGED <<gates, tracker, failCount, desktopState, backendState, world, spawn, now, probe>>

\* An unknown Desktop is left alone; only backendState follows what was seen.
DesktopUnknown(c) ==
    /\ pc[c] = "decide" /\ probe[c] = "unknown"
    /\ backendState' = CASE seen[c] = "none"      -> "unresponsive"
                         [] backendReady(seen[c]) -> "ready"
                         [] OTHER                 -> "degraded"
    /\ Return(c)
    /\ UNCHANGED <<gates, tracker, failCount, desktopState, world, spawn>>

\* Desktop's own serve is reaped unless Desktop is seen running or the managed one
\* answers; the scan for candidates may fail, and so may the scan for Desktop.
ReapOrphans(c) ==
    /\ pc[c] = "decide" /\ probe[c] = "down"
    /\ ephemeral' \in IF managed = "down" /\ (desktops = 0 \/ "probeFails" \in Events)
                     THEN {FALSE, ephemeral} ELSE {ephemeral}
    /\ desktopState' = "starting"
    /\ Goto(c, "relaunch")
    /\ UNCHANGED <<gates, tracker, failCount, backendState, desktops, managed, lease, spawn, cycle>>

\* Mutant of RelaunchDesktop: Desktop waits for a ready backend.
RelaunchDesktopWhenReady(c) ==
    /\ pc[c] = "relaunch"
    /\ desktops' \in IF backendState = "ready" THEN Launched ELSE {desktops}
    /\ failCount' = 0
    /\ Return(c)
    /\ UNCHANGED <<gates, tracker, desktopState, backendState, managed, ephemeral, lease, spawn>>

RelaunchDesktop(c) ==
    /\ pc[c] = "relaunch"
    /\ desktops' \in Launched
    /\ failCount' = 0
    /\ Return(c)
    /\ UNCHANGED <<gates, tracker, desktopState, backendState, managed, ephemeral, lease, spawn>>

BackendLiveOnly(c) ==
    /\ pc[c] = "decide" /\ probe[c] = "up" /\ seen[c] = "live" /\ ~backendReady("live")
    /\ backendState' = "degraded"
    /\ Return(c)
    /\ UNCHANGED <<gates, tracker, failCount, desktopState, world, spawn>>

\* Mutant of BackendMissing: the tracker is not asked.
BackendMissingUngated(c) ==
    /\ pc[c] = "decide" /\ probe[c] = "up" /\ seen[c] = "none"
    /\ backendState' = "starting" /\ Goto(c, "command")
    /\ UNCHANGED <<gates, tracker, failCount, desktopState, world, spawn, cycle>>

\* No backend was seen, or one that was only live and whose lease has run out since it
\* was read for the branch above.
BackendMissing(c) ==
    /\ \/ pc[c] = "decide" /\ probe[c] = "up" /\ seen[c] = "none"
       \/ pc[c] = "reread" /\ ~backendReady(seen[c])
    /\ IF CanAttempt(tracker, now[c])
       THEN backendState' = "starting" /\ Goto(c, "command") /\ UNCHANGED cycle
       ELSE backendState' = "backoff" /\ Return(c)
    /\ UNCHANGED <<gates, tracker, failCount, desktopState, world, spawn>>

\* A backend that is ready only by its lease: the lease is read twice.
ReadLeaseAgain(c) ==
    /\ pc[c] = "decide" /\ probe[c] = "up" /\ seen[c] = "live" /\ backendReady(seen[c])
    /\ Goto(c, "reread")
    /\ UNCHANGED <<gates, tracker, failCount, desktopState, backendState, world, spawn, cycle>>

BackendSeenReady(c) ==
    /\ \/ pc[c] = "decide" /\ probe[c] = "up" /\ seen[c] = "ready"
       \/ pc[c] = "reread" /\ backendReady(seen[c])
    /\ Goto(c, "healthy")
    /\ UNCHANGED <<gates, tracker, failCount, desktopState, backendState, world, spawn, cycle>>

\* CommandStartBackend revokes the backend's lease before it calls EnsureHealthy.
CommandStartBackend(p, from, wait) ==
    /\ pc[p] = from
    /\ lease' = "none" /\ Goto(p, wait)
    /\ UNCHANGED <<gates, tracker, failCount, desktopState, backendState,
                   desktops, managed, ephemeral, spawn, cycle>>

RecoverBackend(c) ==
    \/ CommandStartBackend(c, "command", "recover")
    \/ EnsureHealthy(c, "recover", "recovering", "recheck", "count")

Recheck(c) ==
    /\ pc[c] = "recheck"
    /\ \E s \in BackendSightings : Goto(c, IF backendReady(s) THEN "healthy" ELSE "count")
    /\ UNCHANGED <<gates, tracker, failCount, desktopState, backendState, world, spawn, cycle>>

\* RecordFailure with the clock reading the cycle began with, and failCount++.
CountFailure(c) ==
    LET fails == IF failCount < FailThreshold THEN failCount + 1 ELSE FailThreshold
    IN  /\ pc[c] = "count"
        /\ tracker' = RecordFailure(tracker, now[c])
        /\ failCount' = fails
        /\ Goto(c, IF AttemptCount(tracker') >= MaxRestarts THEN "failed"
                   ELSE IF fails >= FailThreshold THEN "exhausted" ELSE "backoff")
        /\ UNCHANGED <<gates, desktopState, backendState, world, spawn, cycle>>

SetBackoff(c) ==
    /\ pc[c] \in {"backoff", "exhausted"}
    /\ backendState' = "backoff"
    /\ IF pc[c] = "exhausted" /\ ~rendererOnly
       THEN Goto(c, "stopDesktop") /\ UNCHANGED cycle
       ELSE Return(c)
    /\ UNCHANGED <<gates, tracker, failCount, desktopState, world, spawn>>

\* Mutant of StopDesktop: only the state is set.
StopDesktopForgotten(c) ==
    /\ pc[c] = "stopDesktop"
    /\ desktopState' = "stopping"
    /\ Goto(c, "lastCommand")
    /\ UNCHANGED <<gates, tracker, failCount, backendState, world, spawn, cycle>>

\* The last resort: stop Desktop, start the backend once more, start Desktop again
\* whatever became of either.
StopDesktop(c) ==
    /\ pc[c] = "stopDesktop"
    /\ desktopState' = "stopping"
    /\ StopDesktopTrees
    /\ Goto(c, "lastCommand")
    /\ UNCHANGED <<gates, tracker, failCount, backendState, managed, lease, spawn, cycle>>

LastResortBackend(c) ==
    \/ CommandStartBackend(c, "lastCommand", "last")
    \/ EnsureHealthy(c, "last", "lasting", "startDesktop", "startDesktop")

StartDesktop(c) ==
    /\ pc[c] = "startDesktop"
    /\ desktops' \in Launched
    /\ failCount' = 0 /\ desktopState' = "starting"
    /\ Return(c)
    /\ UNCHANGED <<gates, tracker, backendState, managed, ephemeral, lease, spawn>>

MarkReady(c) ==
    /\ pc[c] = "healthy"
    /\ failCount' = 0 /\ tracker' = Cleared
    /\ Goto(c, "settle")
    /\ UNCHANGED <<gates, desktopState, backendState, world, spawn, cycle>>

Settle(c) ==
    /\ pc[c] = "settle"
    /\ backendState' = "ready" /\ desktopState' = "ready"
    /\ Return(c)
    /\ UNCHANGED <<gates, tracker, failCount, world, spawn>>

RunCycle(c) ==
    \/ BeginCycle(c) \/ CheckGate(c) \/ ProbeDesktop(c) \/ CheckLatch(c) \/ SetFailed(c)
    \/ GaugeBackend(c) \/ KeepBackend(c) \/ Look(c) \/ DesktopUnknown(c) \/ ReapOrphans(c)
    \/ RelaunchDesktop(c) \/ BackendLiveOnly(c) \/ ReadLeaseAgain(c) \/ BackendMissing(c)
    \/ BackendSeenReady(c) \/ RecoverBackend(c) \/ Recheck(c) \/ CountFailure(c) \/ SetBackoff(c)
    \/ StopDesktop(c) \/ LastResortBackend(c) \/ StartDesktop(c) \/ MarkReady(c) \/ Settle(c)

-----------------------------------------------------------------------------
(* PrewarmBackend asks neither the pause flag, the update gate nor the latch. *)

PrewarmBegins ==
    /\ pc[Prewarmer] = "prewarm"
    /\ backendState' = "starting" /\ Goto(Prewarmer, "warm")
    /\ UNCHANGED <<gates, tracker, failCount, desktopState, world, spawn, cycle>>

PrewarmEnds ==
    /\ pc[Prewarmer] \in {"warmed", "cold"}
    /\ backendState' = IF pc[Prewarmer] = "warmed" THEN "ready" ELSE "unresponsive"
    /\ Goto(Prewarmer, "idle")
    /\ UNCHANGED <<gates, tracker, failCount, desktopState, world, spawn, cycle>>

Prewarm ==
    \/ PrewarmBegins
    \/ EnsureHealthy(Prewarmer, "warm", "warming", "warmed", "cold")
    \/ PrewarmEnds

-----------------------------------------------------------------------------
(* The operator: SetPaused, and the commands an admin may have executed.      *)

Pause ==
    /\ "pause" \in Events
    /\ paused' = TRUE
    /\ UNCHANGED <<suppress, rendererOnly, tracker, failCount, desktopState, backendState,
                   world, spawn, pc, cycle>>

\* Resume also clears the latch and takes a failed state to starting.
Resume ==
    /\ "pause" \in Events
    /\ paused' = FALSE
    /\ tracker' = Cleared
    /\ backendState' = IF backendState = "failed" THEN "starting" ELSE backendState
    /\ desktopState' = IF desktopState = "failed" THEN "starting" ELSE desktopState
    /\ UNCHANGED <<suppress, rendererOnly, failCount, world, spawn, pc, cycle>>

OperatorStartsBackend(o) ==
    \/ "start_backend" \in Commands /\ CommandStartBackend(o, "idle", "start")
    \/ EnsureHealthy(o, "start", "starting", "idle", "idle")

\* stopLocked takes bm.mu, not spawnMu: it does not wait for a start in progress. A serve
\* that BackendManager has not adopted, or without its pid, goes on.
Stopped == {"down", managed}

OperatorStopsBackend(o) ==
    /\ "stop_backend" \in Commands /\ pc[o] = "idle"
    /\ lease' = "none" /\ managed' \in Stopped
    /\ UNCHANGED <<gates, tracker, failCount, desktopState, backendState,
                   desktops, ephemeral, spawn, pc, cycle>>

OperatorMovesDesktop(o) ==
    /\ pc[o] = "idle"
    /\ \/ "start_desktop" \in Commands /\ desktops' \in Launched /\ UNCHANGED ephemeral
       \/ "stop_desktop" \in Commands /\ StopDesktopTrees
    /\ UNCHANGED <<gates, tracker, failCount, desktopState, backendState,
                   managed, lease, spawn, pc, cycle>>

\* warm_restart. The sequencer revokes the lease, drains, stops the backend if it can and
\* ensures a new one, then waits for it; while it runs, a second request returns
\* at once without an outcome, which counts as a failure.
Sequencing == {"drain", "restart", "restarting", "restarted"}

BeginWarmRestart(o) ==
    /\ "warm_restart" \in Commands /\ pc[o] = "idle"
    /\ backendState' = "stopping" /\ Goto(o, "intent")
    /\ UNCHANGED <<gates, tracker, failCount, desktopState, world, spawn, cycle>>

BumpEpoch(o) ==
    /\ pc[o] = "intent"
    /\ IF \E other \in Operators : pc[other] \in Sequencing
       THEN Goto(o, "broken") /\ UNCHANGED lease
       ELSE Goto(o, "drain") /\ lease' = "none"
    /\ UNCHANGED <<gates, tracker, failCount, desktopState, backendState,
                   desktops, managed, ephemeral, spawn, cycle>>

DrainAndStop(o) ==
    /\ pc[o] = "drain"
    /\ managed' \in Stopped /\ Goto(o, "restart")
    /\ UNCHANGED <<gates, tracker, failCount, desktopState, backendState,
                   desktops, ephemeral, lease, spawn, cycle>>

EndWarmRestart(o) ==
    /\ \/ pc[o] = "restarted" /\ managed # "down" /\ backendState' = "ready"
       \/ pc[o] = "restarted" /\ managed # "ready" /\ backendState' = "unresponsive"
       \/ pc[o] = "broken" /\ backendState' = "unresponsive"
    /\ Goto(o, "idle")
    /\ UNCHANGED <<gates, tracker, failCount, desktopState, world, spawn, cycle>>

WarmRestart(o) ==
    \/ BeginWarmRestart(o) \/ BumpEpoch(o) \/ DrainAndStop(o)
    \/ EnsureHealthy(o, "restart", "restarting", "restarted", "broken")
    \/ EndWarmRestart(o)

Command(o) ==
    \/ OperatorStartsBackend(o) \/ OperatorStopsBackend(o)
    \/ OperatorMovesDesktop(o) \/ WarmRestart(o)

-----------------------------------------------------------------------------
(* Environment: the installer, the services' reports, the processes and time. *)

\* The gate opens and closes: its file, flag, variable or TTL.
ToggleSuppress ==
    /\ "suppress" \in Events
    /\ suppress' = ~suppress
    /\ UNCHANGED <<paused, rendererOnly, tracker, failCount, desktopState, backendState,
                   world, spawn, pc, cycle>>

\* ObserveAnomaly: only the latest report counts, and nothing else clears it.
ReportAnomaly ==
    /\ "anomaly" \in Events
    /\ rendererOnly' \in BOOLEAN
    /\ UNCHANGED <<paused, suppress, tracker, failCount, desktopState, backendState,
                   world, spawn, pc, cycle>>

DesktopMoves ==
    /\ \/ "desktopExits" \in Events /\ desktops > 0 /\ desktops' = desktops - 1
       \/ "userDesktop" \in Events /\ desktops = 0 /\ desktops' = 1
    /\ UNCHANGED <<gates, tracker, failCount, desktopState, backendState,
                   managed, ephemeral, lease, spawn, pc, cycle>>

BackendMoves ==
    /\ \/ "backendDies" \in Events /\ managed' = "down" /\ UNCHANGED ephemeral
       \/ "degrades" \in Events /\ managed = "ready" /\ managed' = "live" /\ UNCHANGED ephemeral
       \/ "degrades" \in Events /\ managed = "live" /\ managed' = "ready" /\ UNCHANGED ephemeral
       \/ "ephemeral" \in Events /\ ephemeral' = (~ephemeral /\ desktops > 0) /\ UNCHANGED managed
    /\ UNCHANGED <<gates, tracker, failCount, desktopState, backendState,
                   desktops, lease, spawn, pc, cycle>>

\* A heartbeat is accepted, or the lease outlives its timeout.
LeaseMoves ==
    /\ "lease" \in Events
    /\ lease' \in {"none", "ready"}
    /\ UNCHANGED <<gates, tracker, failCount, desktopState, backendState,
                   desktops, managed, ephemeral, spawn, pc, cycle>>

InFlight(c) == c = Loop \/ pc[c] # "idle"

\* A tick, unless it would make a cycle longer, or the loop's next one later,
\* than MaxStale.
Tick ==
    /\ "time" \in Events
    /\ \A c \in Cyclers : InFlight(c) => now[c] > -MaxStale
    /\ tracker' = Aged(tracker)
    /\ now' = [c \in Cyclers |-> IF InFlight(c) THEN now[c] - 1 ELSE now[c]]
    /\ UNCHANGED <<gates, failCount, desktopState, backendState, world, spawn, pc, probe, seen>>

Environment ==
    \/ Pause \/ Resume \/ ToggleSuppress \/ ReportAnomaly
    \/ DesktopMoves \/ BackendMoves \/ LeaseMoves \/ Tick

Next ==
    \/ \E c \in Cyclers : RunCycle(c)
    \/ Prewarm
    \/ \E o \in Operators : Command(o)
    \/ Environment

Spec == Init /\ [][Next]_vars

-----------------------------------------------------------------------------
(* Safety.                                                                    *)

\* The starts of the backend that the tracker is asked about: the keep-alive call's
\* and the counted attempt's.
Gated == {"keep", "keeping", "command", "recover", "recovering"}
\* And the one that it is not: the last resort's, right after a counted failure.
LastResort == {"exhausted", "stopDesktop", "lastCommand", "last", "lasting"}

\* While the keep-alive call or a counted attempt starts the backend, latch and backoff
\* allow it at that very moment, not merely when they were asked (with a clock reading
\* that may be minutes old). The last resort ignores the backoff that the failure before
\* it has just set, but is never taken against the latch.
RecoveryAllowed ==
    \A c \in Cyclers :
        /\ pc[c] \in Gated => CanAttempt(tracker, 0)
        /\ pc[c] \in LastResort => ~tracker.failed

\* Failures of the loop are counted at least the initial backoff apart, by the clock
\* readings they are counted with: however stale these are, a crash loop does not use
\* up its budget faster. (Of instants clamped at Past nothing is known.)
AttemptsSpaced ==
    \A i, j \in DOMAIN tracker.attempts :
        LET earlier == tracker.attempts[i]
            later   == tracker.attempts[j]
        IN  i # j /\ Past < earlier /\ earlier <= later => earlier + InitialBackoff <= later

\* Cycles that were already past the latch when it fell shut overrun the budget
\* by one attempt each, however their failures interleave.
OverrunBounded == AttemptCount(tracker) <= MaxRestarts + Cardinality(Cyclers) - 1

\* Where a cycle has been let past the latch and may still count a failure, or report
\* the backend well, without looking at it again.
PastLatch ==
    {"gauge", "keep", "keeping", "look", "decide", "reread", "command", "recover",
     "recovering", "recheck", "count", "healthy"}
Overrunning == {c \in Cyclers : pc[c] \in PastLatch}

Shared == INSTANCE SharedBreaker
    WITH Budget <- MaxRestarts, Clients <- Cyclers, tripped <- tracker.failed,
         failures <- AttemptCount(tracker), inside <- Overrunning

\* Cycles that overlap share the breaker: each is let in through an open latch only,
\* counts one failure or reports one success, and nobody but they and the operator's
\* resume moves the latch.
SharedKept == Shared!SharedSpec

\* Why the overrun is bounded: the attempts in the window never reach the budget with
\* the latch open, and what is counted after it fell shut is one attempt for each cycle
\* that was past it.
LatchInv == Shared!Overrun

\* Desktop down -> relaunch is serial: no two cycles are relaunching it at once.
SerialRelaunch ==
    \A c, d \in Cyclers : pc[c] = "relaunch" /\ pc[d] = "relaunch" => c = d

\* The watchdog never has two Desktops running: every launch follows a probe
\* that found none, or a kill.
OneDesktop == desktops <= 1

\* Cycles that overlap may each launch the Desktop that each saw missing, but no more
\* than one each, however probes, exits, launches and kills interleave.
DesktopsBounded == desktops <= Cardinality(Cyclers)

\* A backend that answers as Live is left running, once prewarm has adopted or started
\* it, until it dies or an operator has it stopped: a live-only backend is degraded,
\* not restarted.
LiveBackendSpared ==
    [][ managed = "live" /\ managed' = "down" /\ pc[Prewarmer] = "idle" =>
          BackendMoves \/ \E o \in Operators : Command(o) ]_vars

\* An observation of health makes the tracker forget only failures after which the
\* backend has had the time to be Ready for ResetAfter.
ForgottenWhenStable ==
    [][ (\E c \in Cyclers : MarkReady(c)) =>
          \A i \in DOMAIN tracker.attempts :
            i \in DOMAIN tracker'.attempts \/ tracker.attempts[i] <= -ResetAfter ]_vars

\* Automatic recovery never tears down a Ready backend it did not find drifted:
\* only the backend itself or the operator takes it away.
ReadyBackendSpared ==
    [][ managed = "ready" /\ managed' = "down" =>
          BackendMoves \/ \E o \in Operators : Command(o) ]_vars

\* The Failed latch falls only by the operator's resume.
LatchHolds == [][tracker.failed /\ ~tracker'.failed => Resume]_vars

\* How far the loop is with an attempt that counts: the keep-alive call and the
\* last resort start the backend too, but no failure of theirs is counted.
AttemptStage ==
    IF pc[Loop] \in {"command", "recover", "recovering", "recheck", "count"} THEN "trying"
    ELSE IF pc[Loop] = "settle" THEN "well" ELSE "idle"

Breaker == INSTANCE CircuitBreaker
    WITH Budget <- MaxRestarts, tripped <- tracker.failed,
         failures <- AttemptCount(tracker), stage <- AttemptStage

\* RunCycle, run by the loop alone, is a circuit breaker that one healthy observation
\* resets, for all its probes, stale clock readings and the commands that run meanwhile.
BreakerKept == Breaker!BreakerSpec

-----------------------------------------------------------------------------
(* Liveness. The loop's timer fires and every goroutine that has started      *)
(* something goes on with it: probes, kills and waits all have timeouts, and  *)
(* a sync.Mutex does not starve its waiters (hence SF: the mutex disables a   *)
(* step now and then). Time passes. Nothing is assumed of the operator, of    *)
(* the /api/v1/cycle requests or of the processes.                            *)

Fairness ==
    /\ \A c \in Cyclers : SF_vars(InFlight(c) /\ RunCycle(c))
    /\ SF_vars(Prewarm)
    /\ \A o \in Operators : SF_vars(pc[o] # "idle" /\ Command(o))
    /\ WF_vars(Tick)

\* Starting the backend does not fail for ever.
StartsSometimesWork ==
    SF_vars(\E c \in Cyclers : \/ EnsureSucceeds(c, "keeping", "look")
                               \/ EnsureSucceeds(c, "recovering", "recheck")
                               \/ EnsureSucceeds(c, "lasting", "startDesktop"))

FairSpec == Spec /\ Fairness
RecoverableSpec == FairSpec /\ StartsSometimesWork

Acting == Gated \cup LastResort \cup {"relaunch", "startDesktop"}
Quiet == \A c \in Cyclers : pc[c] \notin Acting

\* A pause that lasts ends automatic recovery: what a cycle was doing runs out.
PauseQuiets == <>[]paused => <>[]Quiet

\* So does an update window.
SuppressQuiets == <>[]suppress => <>[]Quiet

\* While recovery is neither halted nor held, a dead backend comes back and so
\* does a missing Desktop.
Halted == paused \/ suppress \/ tracker.failed
BackendRecovers == <>[]~Halted => []<>(managed # "down" \/ ephemeral)
DesktopRecovers == <>[]~Halted => []<>(desktops > 0)

\* A backend whose recoveries go on failing, with no healthy observation and no
\* resume in between and nothing holding the cycles up, is latched: failures are
\* not counted for ever.
CrashLoopLatches ==
    ~( /\ []<><<\E c \in Cyclers : CountFailure(c)>>_vars
       /\ <>[](~paused /\ ~suppress)
       /\ <>[][~Resume /\ ~DesktopMoves /\ \A c \in Cyclers : ~MarkReady(c)]_vars )

=============================================================================
