# HermesDesktopwatchdog: a verification development

The watchdog is a Go program that is the sole authority for restarting two
services on a Windows machine: the packaged Hermes Desktop (`Hermes.exe`) and
the `hermes serve` backend it connects to. This directory models its control in
TLA+, checks the models with TLC and proves theorems about them with TLAPS.

    tlc -config WatchdogCommands.cfg MCWatchdog    # or any other .cfg below
    tlapm Watchdog_proofs.tla

## The system

| part (source) | state | operations | talks to |
|---|---|---|---|
| Supervisor (`watchdog.go`) | `paused`, `failCount`, `desktopState`, `backendState`, `lastState` under `w.mu` (not always taken) | `RunCycle`, `RunLoop`, `PrewarmBackend`, `SetPaused`, `State`, `saveState` | everything below |
| Restart policy (`restart_policy.go`) | `attempts`, `attemptN`, `nextAt`, `failed`, `lastOK`, no mutex | `CanAttempt`, `RecordFailure`, `MarkReady`, `ClearFailed` | called by the supervisor |
| State machine (`state_machine.go`) | none | table of moves | only logged against: the setters force the new state |
| Recovery policy (`recovery_policy.go`) | `lastRendererOnly` | `ObserveAnomaly`, `ShouldSkipFullDesktopRestart`, `Clear` (never called) | set by anomaly reports, read before the last resort |
| Commands (`commands.go`) | none | `start_/stop_backend`, `start_/stop_desktop`, `warm_restart` | supervisor and operators; backend manager, heartbeats, processes |
| Backend manager (`backend.go`) | process, pid, port, token, job under `bm.mu`; `spawnMu` serialises starts; the manifest on disk | `EnsureHealthy`, `stopLocked`, `currentHealthy`, `JobSnapshot` | processes, health probes |
| Heartbeat registry (`heartbeat.go`) | epoch and last record per service | `Ingest`, `BumpEpoch`, `FreshReady`, `FreshLive`, `LastActiveRuns` | HTTP/IPC write, supervisor and warm start read |
| Warm-start sequencer (`warm_start.go`) | one snapshot: active, phase, draining, outcome | `Run`, `finish` | heartbeats, backend manager |
| Update suppression (`update_suppress.go`) | API flag with TTL, a lock file, an environment variable | `SetAPI`, `Active`, `WriteLockFile`, `ClearLockFile` | read once per cycle |
| IPC (`ipc.go`, `ipc_dispatch.go`, pipe) | anomalies (merged by code), nonces | reports, heartbeats, commands | recovery policy, commands |
| HTTP API (`server.go`) | none | one goroutine per request: pause, resume, cycle, stop, update-suppress, heartbeat, report, command | supervisor |
| Start-up, shutdown, lock (`main.go`, `acquireLock`) | lock file, `stop` channel | starts the loop, the servers and prewarm; returns when `stop` closes | supervisor |
| Processes and probes (`process_*.go`, `health.go`, `job_object*.go`) | the operating system's | enumerate, launch, tree-kill, reap, probe `/live`, `/ready`, `/api/status` | supervisor, backend manager |

**How they run.** `main` starts the probe loop, `PrewarmBackend` and the
servers as goroutines; every HTTP or pipe request runs in one more. They share
the supervisor's fields, the tracker and the processes. `EnsureHealthy` is
serialised by `spawnMu`; *cycles are not serialised by anything*:
`POST /api/v1/cycle` runs `RunCycle` in the request's goroutine while the loop
may be in the middle of its own.

**What is hard.** A cycle reads its gates (pause, update window, latch) once and
then probes, kills and waits for up to minutes; what it decided may be stale when
it acts. It records failures with the clock reading it began with. Probes fail
and answer by halves (live, not ready). Desktop brings a backend of its own.
Launches and kills fail. The policy's latch must stop a crash loop, and stay shut
until the operator opens it. `PROJECT.json` lists the hazards one by one.

**What makes each part correct.**

- *Supervisor*: one Desktop at most; a Ready backend is never torn down by
  recovery; no recovery against latch, backoff, pause or update window (beyond
  what was under way); what is missing comes back; crash loops end.
- *Restart policy*: attempts in the window are bounded by the budget; the latch is
  set exactly when the budget is used up; the backoff stays between its bounds; failures are forgotten when the backend is well.
- *Backend manager*: one start at a time; the mutex is always released; a
  published token has just been accepted; no process it started is lost; calls converge
  on a serve that Desktop can talk to.
- *Heartbeat registry*: a heartbeat of an earlier epoch or another instance is
  never accepted; a lease is not taken for ready after its timeout.
- *Warm start*: one sequence at a time; an interrupted one is never a success;
  traffic resumes only after readiness.
- *Update suppression*: active as long as one of its three sources is.
- *IPC*: reporters never cause a command; a nonce works once.
- *Instance lock*: one watchdog at a time; a lock left behind does not keep the next one
  out. *Shutdown*: a stop request ends the watchdog.

## Modules

| module | what it is |
|---|---|
| `RestartPolicy` | the tracker as a record and each of its methods as an operator on it |
| `Watchdog` | the supervisor: variables, one action per statement group of `RunCycle`, prewarm, operator, environment; properties |
| `CircuitBreaker` | the circuit breaker that `RunCycle` makes of the restart policy, without cycles, clocks or goroutines: the abstract specification that `Watchdog` implements. One healthy observation resets it, where the documents want `ResetAfter` (below) |
| `SharedBreaker` | the weaker one that overlapping cycles make of it: who is let in before the breaker trips may still count, or close it again |
| `MCWatchdog` | `Watchdog` for TLC: the commands and events of the runs |
| `BackendManager` | `EnsureHealthy` step by step: fields, job, managed port, tokens, manifest, and everybody who interferes; properties |
| `InstanceLock` | watchdogs that start, take or respect the lock file, are stopped, crash and are started again; properties |
| `HeartbeatRegistry` | epoch and lease of one service as a record, and the registry's methods as operators on it |
| `WarmStart` | the warm-start sequencer, composed with the registry, the backend, its heartbeats and the other callers that start and stop it; properties |
| `TrafficGate` | what a warm restart does to the backend's traffic: the abstract specification that `WarmStart` implements |
| `RestartPolicy_proofs` | lemmas about the tracker's methods |
| `Watchdog_proofs` | type correctness, that overlapping cycles implement the shared breaker, and the overrun bound |
| `Services_proofs` | no more Desktops than cycles, and no Ready backend stopped |
| `Breaker_proofs` | that the loop implements the circuit breaker, what follows, and that attempts are spaced |
| `BackendManager_proofs` | types, no lost serve, no heap of starts, only verified tokens |
| `InstanceLock_proofs` | types, no second watchdog without a race, standing locks |
| `WarmStart_proofs` | every safety and action property that the run `warm` checks |

### RestartPolicy

Instants are integers relative to the present, so that time needs no clock
variable: `Aged(t)` is the tracker one tick later, and `Past` collects every
instant too old to matter, Go's zero time included (`nextAt.IsZero()` and "long
ago" cannot be told apart by `CanAttempt`). `attempts` is a function from the
numbers of the attempts to their instants: two attempts may have the same
instant, and the order of the slice is never read. `RecordFailure` is prune,
append, count and back off, with `InitialBackoff << (attemptN - 1)` wrapped to
the width of a `Duration` (`HalfRange` is 2^63 in Go) before the two clamps. Nothing in the code keeps `InitialBackoff` below
`MaxBackoff`, and nothing here does: the lower clamp comes last, so the longest backoff is `Longest`, the greater of the two.
`MarkReady` and `ClearFailed` leave the same tracker (`Cleared`): `lastOK`, which
they differ in, is read only by `RecordSuccess`, whose resets `MarkReady` repeats
unconditionally. `ResetAfter` is a constant that no action reads, for the property `ForgottenWhenStable` alone.

### Watchdog

State. `paused`, `suppress` (is any update gate active), `rendererOnly`,
`tracker`, `failCount`, `desktopState` and `backendState` are the program's.
`desktops` (instances of `Hermes.exe`), `managed` (the serve on the managed port:
down, live or ready), `ephemeral` (a ready serve that Desktop started itself) and
`lease` (whether a fresh heartbeat record claims ready) are the world. `spawn` is the
holder of `spawnMu`. `pc` says where each goroutine is; `now`, `probe` and `seen`
are the locals of each cycle.

Steps. A step runs from one point where another goroutine can be noticed to the
next: a probe, a blocking call, a write of shared state. Reading `pc` labels in
order gives `RunCycle` from top to bottom: `idle`, `gate`, `probe`, `latch`
(`failed`), `gauge` (`keep`, `keeping`), `look`, `decide` (`reread`), then one of
*unknown* (returns), *Desktop down* (`relaunch`), *live only* (returns), *missing*
(`command`, `recover`, `recovering`, `recheck`, `count`, then `failed`, `backoff` or
`exhausted`, `stopDesktop`, `lastCommand`, `last`, `lasting`, `startDesktop`) or
*ready* (`healthy`, `settle`). `Return` is every `saveState; return`. `reread` is between the two readings of the lease (lines
573 and 586) that decide on a live backend: a lease that runs out there sends a live backend into recovery.

`EnsureHealthy(p, wait, run, ok, failed)` is the call of that method by `p`:
wait for `spawnMu`; keep the managed backend if it answers and accepts the
token; else stop it, hold the mutex while the replacement starts, and leave it
ready or down. What happens to ports, tokens, the manifest and the job inside is
not visible here. A backend that is only live is kept when its `/api/status`
and the token check answer, and replaced otherwise, hence both are possible. The
stop comes after the probe, without another one: a backend that turns Ready in between is
stopped all the same, which `Replaceable` allows where backends change by themselves
(`degrades`). There, too, a start may end live and not ready, because it waits for `/api/status`.

The operator: `Pause`, `Resume` (clears the tracker, failed states become
starting), the five commands in the operators' goroutines. `warm_restart` is
reduced to what the supervisor sees of it: revoke the lease, drain and stop, start
again, outcome; a second one while the first runs gets no outcome. A command's stop ends the serve only if BackendManager has its job,
command or pid, which the supervisor's model does not know: `Stopped` allows both. `EnsureHealthy`'s own stop leaves the port free in either
case, because what still answers there is adopted or cleared.

Environment: the installer's window, anomaly reports, Desktop exiting or being
started by its user, the backend dying, degrading, recovering, the lease, time.
`Events` says which of these (and which failures: `probeFails`, `launchFails`,
`killFails`, `startsFail`, `tokenDrift`) a run has.

`Init` allows any world an earlier watchdog may have left (its own memory starts afresh),
so a watchdog that exits or crashes in the middle of a cycle and is started again is a new
behaviour: what holds of all behaviours, the liveness properties included, holds after a restart.

Abstract specification. `CircuitBreaker` has three variables and six actions: `Try`, `FailAttempt`,
`Recover`, `BecomeWell`, `Rest`, and `Reset`, the only one that closes a tripped breaker.
`Breaker == INSTANCE CircuitBreaker WITH ...` maps the latch to `tripped`, the attempts in the window to `failures`
and the loop's place to `stage` (`AttemptStage`: from the policy's go-ahead in `BackendMissing` to the
count is one attempt). The keep-alive call and the last resort start the backend too, but the policy counts
neither, so they are no attempts. `BecomeWell` forgets all failures at one healthy observation, because `MarkReady` does; that
the documents want `ResetAfter` of stable Ready first is the run `reset_after`. `BreakerKept` is the refinement, of the loop alone.
`SharedBreaker` has any number of clients, `Admit`ted while it is closed, who `Leave` with a failure, a success or neither; and
`Reset`. `Shared == INSTANCE SharedBreaker WITH ...` maps the clients inside to the cycles past the check of the latch
(`Overrunning`). `SharedKept` is the refinement, of any number of overlapping cycles: it is weaker, since a success closes a breaker that
another client has tripped (run `latch_race`), but it is all that the bound on the overrun needs.

Abstractions to keep in mind: RestartTracker's methods are atomic here, although
nothing in the code makes them so; `/live` and `/ready` are one probe with three
answers; all five kinds of anomaly are "renderer only or not"; epochs appear
only as the lease they revoke; `setDesktopState` and `setBackendState` assign.
Where the code assigns Starting and then Ready one after the other, only the
second is kept.

Bounds, all in the constants: `MaxDesktops` (instances counted), `MaxStale` (ticks
between the clock reading of a cycle and its end, or the loop's next one),
`MaxStreak` (`attemptN`); `failCount` saturates at `FailThreshold`, above which
nothing tells its values apart.

### HeartbeatRegistry

One service's entry of the two maps: `epoch`, and the record as `lease`
(`NoLease` for none). `BumpEpoch` raises the epoch and deletes the record;
`Ingest` leaves the registry alone if the heartbeat is `Refused` (another epoch,
or another instance than the record's) and else replaces the record;
`LastActiveRuns` reads it whatever its age. The envelope's validity, the claimed
state and the time of receipt are left out: nothing in a warm start reads them.

### WarmStart

State: the registry; the sequencer's snapshot (`active`, `draining`,
`resumeTraffic`, `outcome`); for each goroutine that executes `warm_restart` its
place in `Run`, the ticks to its drain deadline and its `activeAtEnd`; the
backend (how many were started so far, whether the last is up, its active runs, the epoch
it has heard of, and `owned`: whether BackendManager's job, cmd or pid leads to it); the heartbeats on the way. `asked` records, for the
properties, what had been reported when the last sequence was asked for, which
backend there was (0 if that was one it could not stop), and the runs its stop cut off although some had been reported.

`Init`: an earlier watchdog may have left a backend, with runs, and with an epoch it knows from that one. BackendManager starts with empty fields,
so it does not own that backend. `Stopped` is what `stopLocked` does: the process that job, cmd or pid leads to ends, and one that none
of them leads to goes on. `EnsureHealthy` keeps a backend that is up, whose pid it may learn from the manifest or netstat, or not.

`Run` is `Begin` (refused without effect while `active`), `Intent` (bump), `Drain` (until
no runs are reported or the deadline passes), `Drained` (the second reading, which
decides on interruption, and the wait for a checkpoint that nobody acknowledges),
`StopBackend`, `StartBackend` (`EnsureHealthy`), `WaitReady`, `ResumeTraffic`,
`Finish`; `Fail` ends it when the start fails or readiness times out, leaving
traffic held as the code does. `StopBackend`'s hook never returns an error, also when it stops nothing, so there is no
failure there. Around it, `CommandBackend` is the bump that `start_backend` and
`stop_backend` begin with (their second half is `KeepBackend` or `StopManaged`),
`KeepBackend` is keep-alive and prewarm, and `StopManaged` also stands for a backend that dies.
The backend learns the epoch when it looks, begins and ends runs (`Cooperates`:
not while traffic is held; the watchdog cannot force it), and sends heartbeats
that may be delayed, lost and delivered again.

Abstractions: a backend that is up is ready; a kill that is tried works; `EnsureHealthy` starts
at once what it starts; one backend at a time (stray serve processes belong to
`Watchdog`). A refused call's snapshot without an outcome, which
`runWarmStartCommand` takes for a failure, is in `Watchdog` (`WarmRestart`).

Abstract specification. `TrafficGate` has four variables and four actions: `Hold` (a restart begins and traffic stops), `Start`
(of a backend, by anybody), `Open` and `End`. `Gate == INSTANCE TrafficGate WITH ...` maps `active` and `resumeTraffic` to
`busy` and `open`, the backends started so far to `generation` and what the last sequence saw of them when it began to
`since` (0 if it could not be stopped, so that `Open` then asks for nothing newer); `GateKept` is the refinement. The ten steps of a sequence, the refused callers, commands, keep-alive, runs and heartbeats
are stutters, but for those four.

Bounds: `MaxRuns`, `MaxInstance`, `MaxEpoch`, `MaxSent`. `EpochLeft` keeps an epoch for
a sequence that has begun, so that the bound never blocks one; a start that `MaxInstance`
forbids is a start that fails.

### BackendManager

State. `serve` is every `hermes serve` process with its health, its token and whether the watchdog started it
and has not tried to kill it (`mine`, a history variable). `bm` has the five fields of the Go struct (`cmd`, `pid`,
`job`, whether `port` is set; `token`), `manifest` is `desktop-backend.json`. `pc` and `call` are the one call of
`EnsureHealthy` that holds `spawnMu`: a call starts from fields and manifest alone, so concurrent callers add nothing but
the order of calls. What takes `mu` alone may come between any two steps: `Stop` (the command, and the hook of a warm
restart) and `NotifyDesktop`.

Steps, in the order of the code: `Begin` (`currentHealthy`), then *kept, Ready*: `TakeToken`, `Auth`, `Publish`, or, the
token refused, `StopDrifted`, `ClearDrifted`; *kept, live*: `CheckFields`, `Republish`; else `StopStale` and `LookAtPort`:
an occupant that answers is tried (`Adopt`, `AdoptAuth`, `AdoptPublish`) or replaced (`Evict`), one that does not is
cleared (`ClearZombie`); then `PreferToken`, `Spawn`, `AwaitReady` or `GiveUp`, `Verify`, and `Announce` or `Refuse`,
`ClearRefused`.

Health: `booting`, `hung` (it has the port and answers nothing, or only `/live`), `live` (`/api/status` but not `/ready`), `ready`.
Everything that goes wrong, or that others do, spends one of `MaxDisturb` misfortunes: failing kills and port clearing, a silent
netstat, a failing start, a manifest that cannot be written, serves that die, hang and revive, squatters on the port,
rewritten manifests, operators' stops, a restart of the watchdog (its job dies with it, its other
processes do not). The bound only keeps the runs finite; `Converges` speaks of what happens after the last one.
`Unspent` keeps a token for the next generation and five are enough, so that this bound never blocks a step
of a call; the constant `Foreign` is the token of serves the watchdog did not start.

Abstractions: one managed port; the token test answers what the serve's token says (a test that fails for another
reason is a serve that hangs); a job dies as a whole; reads of the manifest do not fail by themselves;
`EnsureHealthy` of `Watchdog` is the same call by its effect there, argued in
this text and not as a checked refinement.

### InstanceLock

`at` says what has each pid: nobody, another program (`alien`), or a watchdog and its step in `acquireLock`
(`exists`, `read`, `remove`, `truncate`, `write`), `serving`, or in the release (`unlink`). `lock` is the file: absent, a
pid, or `Torn` (empty or mixed: no pid can be read from it). `stop` is each watchdog's stop channel with the goroutines that found it
open and are about to close it: the second one panics, which ends the process without releasing the lock.
`raced` is a history variable: the watchdogs whose handling of the file overlapped another's.

`os.WriteFile` is two steps, truncate and write; a file somebody has open for writing cannot be removed (Windows),
and the code ignores that error. `Crash` may come at any step, `AlienStarts` gives a free pid to another
program, `WriteFails` is a full disk. Each of these and each stop request spends one of `MaxFaults`. A run with `-once`
is to the lock a watchdog that stops by itself, and is not separate. The run does not check for deadlock: a
watchdog that serves and is asked nothing just stays.

## What the runs check

| run (cfg) | instance | shows |
|---|---|---|
| `commands` | loop, an operator with every command, leases, token drift, degradation, failing starts, kills and launches, pauses, Desktop's own serve, time | `TypeOK`, `RecoveryAllowed`, `AttemptsSpaced`, `LatchHolds`, `BreakerKept` |
| `overlap` | loop and one `/api/v1/cycle` request, deaths, failed starts and probes, anomalies, time | `OverrunBounded`, `LatchInv`, `DesktopsBounded`, `ReadyBackendSpared`, `SharedKept` |
| `live` | loop, prewarm and keep-alive, pauses, update windows, deaths, failed starts, time, fairness | `RecoveryAllowed`, `OneDesktop`, `ReadyBackendSpared` and five liveness properties |
| `relaunch_race` | loop and one request | `SerialRelaunch` fails (finding) |
| `latch_race` | loop and one request | `LatchHolds` fails (finding) |
| `reset_after` | loop | `ForgottenWhenStable` fails (finding) |
| `live_only` | loop, prewarm and keep-alive | `LiveBackendSpared` fails (finding) |
| `warm` | two callers, three backends, three epochs, one heartbeat on the way, a backend that does not cooperate, fairness | `SequenceInv`, `Replaced`, `GateKept`, `LeaseStands`, `RevokedForGood`, `SequencesEnd` |
| `warm_drain` | one caller, a cooperating backend | `SuccessDrained` fails (finding) |
| `backend` | three processes, five tokens and a foreign one, three misfortunes, fairness | `TypeOK`, `NoOrphan`, `OneStart`, `PublishedVerified`, `Converges` |
| `drift_mint` | two processes, one misfortune | `FreshAfterRefusal` fails (finding) |
| `lock` | three pids, six faults, fairness | `TypeOK`, `SoleUnlessRaced`, `LockStands`, `StopEnds`, `TakesOver` |

Safety:

- `OneDesktop`: with cycles in one goroutine, kills that work and no manual `start_desktop` or
  user, the watchdog never runs two Desktops. The run allows two instances, so that a second would show.
- `DesktopsBounded`: cycles that overlap may each launch the Desktop that each saw missing (run `relaunch_race`), but there are never more
  Desktops than goroutines that run cycles; a failed enumeration is not taken for an empty one (its mutant). The run allows three, one
  more than the bound. Kills work in both runs: what follows one that fails is not covered.
- `ReadyBackendSpared`: recovery never stops a Ready backend, though keep-alive,
  recovery and prewarm all may call `EnsureHealthy` at once. It rests on the probe
  made again *inside* `spawnMu`. Two cycles at once are in `overlap`, keep-alive, recovery and prewarm in `live`; operators' starts only in
  the theorem. Checked without token drift, in which case the
  code replaces a Ready backend on purpose, and without backends that turn Ready between
  that probe and the stop.
- `RecoveryAllowed`: while the loop's keep-alive call or its counted attempt starts the backend, latch and backoff allow it
  at that moment, although they were asked with an old clock reading. With two cyclers it would not hold (they may both set out).
  The third start, the last resort's (line 656), asks nobody: it comes right after `RecordFailure` has set the backoff, and the
  design says so (`_docs/2026-07-22_phase4-6_lifecycle_Cursor.md`, line 18). Of it the property says that it is never taken against the latch.
- `BreakerKept`: with cycles in one goroutine `RunCycle` implements `CircuitBreaker`: no attempt against the latch,
  each failure counted once, the latch set exactly at the budget and opened by nobody but the operator. How many older failures
  still count is left open there (`failures'` may shrink), and a healthy observation forgets them all, which the documents do not want.
- `LatchHolds`: only a resume opens the latch. It holds of the loop with any
  operator commands, and fails as soon as two cycles overlap.
- `AttemptsSpaced`: the loop's failures are counted at least the initial backoff apart, by the readings they are counted with, which
  may be as old as the cycle. So a crash loop does not use up its budget faster than one attempt per backoff, however stale the readings
  are. A gate that is not asked (its mutant) breaks it; two cyclers would.
- `SharedKept`: overlapping cycles implement `SharedBreaker`: nobody is let in against the latch, each cycle counts at most one
  failure or reports one success for each time it is let in, and nothing but these and a resume moves latch and window. As in
  `CircuitBreaker`, one success forgets all failures.
- `OverrunBounded` and `LatchInv`: see the proof below.

- `SequenceInv`: one warm restart at a time, however many callers ask; traffic stays
  held until it has seen the backend ready.
- `Replaced`: a sequence that resumes traffic has replaced the process that was there when
  it was asked for, though keep-alive and commands start and stop backends between
  its steps - provided BackendManager could have stopped that process when the sequence began. Without the condition it is false
  (Disagreements, 7).
- `GateKept`: the sequencer implements `TrafficGate`: whatever fails, is refused or comes between, traffic is opened only by the sequence
  under way, and a failed one leaves it held; and it is opened to a backend started after that sequence held it, under the same
  condition.
- `LeaseStands`, `RevokedForGood`: within an epoch the lease stays with the instance that took
  it; a heartbeat sent before a restart intent is never accepted after it, however late
  and often it comes. The exception is the backend that an earlier watchdog left (instance 1): epochs are not kept but start at 1
  again, so it may know one that is yet to come. Both are checked with redelivery; a single message on the way
  is enough for that, because it may outlive its sender and its epoch.

- `PublishedVerified`: a call of `EnsureHealthy` writes a token to Desktop's manifest only if a serve on the port accepted
  it in that same call, although `bm.token` is read again at the write, after others may have stopped the backend or rotated the
  manifest. It rests on `stopLocked` keeping the token (its mutant clears it).
- `NoOrphan`: a process the watchdog started and has not tried to kill is always reachable by it: through the job, a field, the
  call under way, or the port. Between `cmd.Start` and the end of the wait only a local variable and the job have it.
- `OneStart`: starts do not pile up: off the port there is at most one process that the watchdog started and has not tried to kill,
  however often starts fail, squatters take the port, and operators stop what is under way.
- `SoleUnlessRaced`: two watchdogs serve at once only if their handling of the lock overlapped another's; crashes, torn locks,
  reused pids, panics and stops never suffice. `LockStands`: a watchdog that raced with nobody serves under its own
  lock to its end.

Liveness of `BackendManager`, under weak fairness of the call's steps (each probe and wait has a timeout) and of booting processes:
`Converges`: if calls go on being made and no more goes wrong, the serve on the port answers
and takes the token in the manifest, for good, whatever port, fields and manifest held before.

Liveness of `InstanceLock`, under weak fairness of what each watchdog does and of its being started again (under any pid that stays free):
`StopEnds`: a stop that was asked for ends the watchdog, by its return or by the panic of a second one.
`TakesOver`: after the last fault a watchdog serves for good, whatever lock a crashed one left. Its two suppositions are needed: another
program that keeps the pid in the lock keeps every watchdog out, and starts that for ever overlap may for ever undo each other.

Liveness of `WarmStart`, under weak fairness of each caller's next step (each wait has
a timeout) and of time: `SequencesEnd`, also when the backend never reports the end of
its runs.

Liveness of `Watchdog`, under `FairSpec`: the loop's timer fires; a goroutine that has started a
cycle, a command or prewarm goes on with it (each probe, kill and wait has a
timeout, and a Go mutex does not starve its waiters, hence strong fairness: the
mutex can disable a step now and then); time passes. Nothing is assumed of operators,
requests, processes or of whether a start works, except in
`StartsSometimesWork`: starts that are tried again and again work again and again.

- `PauseQuiets`, `SuppressQuiets`: if a pause (an update window) lasts, cycles eventually
  stop acting, whatever was under way. What a cycle had begun goes on: that it comes to an end is all the code grants.
- `BackendRecovers`, `DesktopRecovers`: while neither paused, suppressed nor latched,
  a dead backend and a missing Desktop come back, again and again. The run has no leases, anomaly reports or degrading backends; a serve of
  Desktop's own would satisfy `BackendRecovers` too, but there is none in it.
- `CrashLoopLatches`: if failures keep being counted and neither a resume, a healthy
  observation nor Desktop's own coming and going intervenes, the latch falls: there
  cannot be infinitely many. This needs the window to span the failures: the run
  takes `Window = 4` for cycles of at most `MaxStale = 1`. With the defaults of the
  code (five attempts in ten minutes) and starts that each take their 480 s of
  timeouts, the window never holds five attempts and such a loop is *not* latched.

Why these bounds: two attempts latch (`MaxRestarts = 2`), which leaves one count
before it and one overrun after it; `Window` is chosen so that attempts age out
in some behaviours and meet in others, and in `commands` and `overlap` lets three of them meet; a backoff of one or two ticks is closed and open in
turn; one stale tick separates the clock reading from the present; two cyclers
are the smallest overlap, and the theorem covers more. In `warm`, three epochs leave room
for a sequence and another bump (a command's or a second sequence's) before or after it,
three backends for one started by the sequence and one started by others between its steps, one
tick of drain for reports that change while it waits. The safety part holds for
every bound (proved). In `backend`, three processes are an old serve, a new one and a squatter, three misfortunes for one
before, one within and one after a step that minds; in `lock`, two pids for two watchdogs that race and one for the next,
six faults for two stop requests to one watchdog, crashes and a reused pid in one behaviour. In `commands`, integers are
so narrow (`HalfRange = 4`) that the second shift of the backoff wraps, and the initial backoff exceeds the cap. Every action and
disjunct of `Next` is taken by some passing run.

### Disagreements met

1. `RunCycle` is not serial (ADR line 431 calls the loop a serial cycle): two
   cycles launch Desktop twice. Run `relaunch_race`.
2. An overlapping cycle's `MarkReady` opens the latch (ARCHITECTURE line 192: it
   stays until the operator clears). Run `latch_race`.
3. A backend that an earlier watchdog left and prewarm has adopted is known by its pid and has no `cmd`. When it is live but not
   ready, the next cycle's keep-alive call stops it (backend.go lines 361 and 371), before the branch whose comment says "Degraded, not
   restart storm" (watchdog.go line 572). Run `live_only`. A live-only backend that the watchdog started itself is kept if it answers `/api/status`
   and takes the token.
4. `warm_restart` bumps the epoch, and so deletes the report of active runs, before it
   waits for them: the drain sees none at its first poll, and a restart that cuts
   runs off is recorded as a success, where the ADR (line 214) asks for
   `interrupted`. Run `warm_drain`; the backend there even cooperates.
5. After the occupant of the managed port refused the token, the code clears its copy to "mint a fresh one"
   (backend.go line 429), and then takes the refused one from the manifest again: the new serve starts with it. Run `drift_mint`.
6. One healthy observation clears the attempts, the streak, the backoff and the latch (restart_policy.go lines 115-118), whatever
   `ResetAfter` is: the ADR (line 235: "10 minutes stable in Ready"), the flag `-reset-after-sec` (main.go line 45) and the comment above
   `MarkReady` say that the backend has to be stable for that long. Run `reset_after`. A backend that answers Ready once between two crashes
   is therefore never latched; all that is said below of the breaker is said with this reset.
7. A warm restart of a backend that BackendManager knows neither job, command nor pid of (a watchdog that has just started, or a serve it
   adopted by its port alone) stops nothing: `stopLocked` has no victim (backend.go lines 273-296), `EnsureHealthy` adopts the same process, and the
   outcome is a success. WARM-START-CONTRACT.md has "Stop managed backend" and "Start managed backend" (steps 7 and 8), the ADR "Start new
   Backend" (line 207). With `instance |-> started` in `Request`, TLC shows it by `Replaced` in eight states; the condition there is what is left.

SECURITY.md line 14 calls the lock file "robust" against duplicate instances: two starts that overlap do make two watchdogs
(without `raced` in `SoleUnlessRaced` TLC shows it); the run says instead what the lock does guarantee.

Met on the way, against no document: an initial backoff above the cap (two free flags, main.go lines 43-44) makes every backoff the initial
one, above `MaxBackoff`; the last resort starts the backend in spite of the backoff that the failure before it has just set; a backend
that survives its watchdog may know an epoch that the next one has yet to reach; a stop between the token's test and the write of the manifest publishes port 0 and pid 0
(backend.go line 366); a warm restart's `NotifyDesktop` may publish a token that no serve has, until the next call
of `EnsureHealthy`; prewarm honours neither pause, update window nor latch; a backend that learns the new epoch while it is
being drained takes the new epoch's lease (`Learn`, `SendHeartbeat`), and its
successor is refused until the next intent; a failed warm restart leaves traffic
held until another one succeeds; the last resort does not look whether its kill worked.

## What is proved

`Watchdog_proofs`, for every value of the constants that satisfies
`PolicyAssumption` and `WatchdogAssumption` (which only say that counts and durations
are natural numbers, some of them positive, that the goroutines are distinct and that there are finitely many
cyclers):

- `TypeInvariant`: `Spec => []TypeOK`, action by action.
- `CyclesShareTheBreaker`: `Spec => SharedKept`, the refinement, for any number of goroutines that run cycles at once with whatever
  interleaving, any operators, and prewarm.
- `LatchInvariant`: `Spec => []LatchInv`, and from it `Overrun`: `Spec => []OverrunBounded`: the attempts in the window stay below
  the budget plus the number of cyclers.

The refinement needs the types only. `CheckLatch` is `Admit`, and lets nobody in while the latch is set; `CountFailure` is `Fail`;
`MarkReady` is `Succeed`; a resume is `Reset`; the branches that return without counting are `GiveUp`; every other step leaves the tracker
alone and nobody past the latch, and is a stutter. Time passing removes attempts from the window only when the next one is
counted, hence the range of `failures'` in `Fail`.

The bound alone is not inductive: from a state with the bound reached and a client inside, its failure breaks it. `Overrun` of `SharedBreaker`
(which `LatchInv` is, through the mapping) excludes that state: the budget is reached only with the breaker tripped; and once it
is, failures plus those inside stay below budget plus clients, because nobody is admitted and each of those inside takes itself out with the failure
it counts. The argument (`BreakerStepBounds`) is about the six actions of `SharedBreaker`, and the refinement carries it to the
supervisor.

`RestartPolicy_proofs` gives what this rests on: `RecordFailureFacts` (well-formed,
at most one attempt more, never unlatches, latches exactly at the budget),
`AgedFacts`, what an added attempt and the passing of time do to the distances between attempts
(`RecordFailureSpaces`, `AgedSpaced`), and `BackoffBounds`: whatever the streak and however the shift wraps, the backoff is at least
`InitialBackoff`, at most `MaxBackoff` if that is not below the initial one, and else exactly the initial one.

`Breaker_proofs`, for every value of the constants with `Cyclers = {Loop}` (with two cyclers all of them fail: the
overlap is what the runs `latch_race` and `overlap` are about):

- `LoopIsABreaker`: `Spec => BreakerKept`, the refinement. `BreakerInv` adds to the types that the latch is open while the loop is
  past its check (`OpenInside`: nobody else sets it). Then each step of the loop is one of `CircuitBreaker`'s actions or,
  for most, changes nothing the breaker sees (`QuietSteps`); goroutines other than the loop leave
  it where it is (`OthersQuiet`), except for a resume, which is `Reset`.
- `OnlyResumeUnlatches`: `Spec => LatchHolds`: none of the breaker's automatic actions closes it.
- `RecoveryStaysAllowed`: `Spec => []RecoveryAllowed`: time passing only brings the next attempt nearer, and only the loop
  moves it away, by counting a failure; after which only the last resort starts the backend in the same cycle, and not if that failure latched.
- `FailuresAreSpaced`: `Spec => []AttemptsSpaced`. The attempts alone say nothing of the next one. `SpacingInv` adds that the gate
  (`nextAt`) lies at least a backoff after each attempt (`GateAhead`; `RecordFailure` sets it so, because the backoff is never below
  the initial one, however the shift wraps), and that a cycle on its way to the count has a reading not before the gate
  (`DueWhenCounted`): `BackendMissing` compared them, with the very reading it will count with.

`Services_proofs`, for every value of the constants with the side conditions that each theorem states:

- `ReadyStaysUp`: `Spec => ReadyBackendSpared`, for any number of cyclers, under `ReadyIsKept`: no token drifts (`EnsureHealthy` then
  replaces a Ready backend whose token is refused, as it should), and no backend turns Ready between the probe that found it wanting and the
  stop. `StartsAlone`: whoever is inside a start holds `spawnMu`, and until it is done there is no backend; so a start that
  fails takes away nothing that was ready.
- `DesktopsStayBounded`: `Spec => []DesktopsBounded` for any number of cyclers under `OnlyCyclesLaunch`: kills that work, and nobody but
  cycles who starts Desktop. The bound is not inductive: a launch may come with the bound reached. `DesktopsCounted`: the Desktops
  that run and the cycles that will launch one without looking again (`Pending`: they saw none, or killed what there was) are together no
  more than the cyclers. A cycle becomes pending only when it has seen none or killed all, and then the cycles are the bound; a launch
  trades one for the other; a probe that fails reads as unknown and leads to no launch.
- `NoSecondDesktop`: `Spec => []OneDesktop`, the case of one cycler (the run `relaunch_race` shows two of them launch two).

`BackendManager_proofs`, from `BackendAssumption` (there is a foreign token and another; `None` is neither token nor process):

- `BackendTyped`, `NoServeIsLost`: `Spec => []TypeOK`, `Spec => []NoOrphan`. `NoOrphan` is not inductive: that a process is reachable by
  *some* field does not say that `stopLocked` kills it. `Traced` says where exactly it is: the victim `stopLocked` would choose, on the port, or
  in the call; and that after `stopLocked` nothing is left but what is on the port.
- `StartsDoNotPileUp`: `Spec => []OneStart`, from the same: a process off the port is the victim, or what the call has started, and
  never both at once, because a call starts one only after `stopLocked`.
- `OnlyVerifiedPublished`: `Spec => PublishedVerified`. `Vetted`: from the moment a token is taken until it is published, memory
  holds the same token, because the only writers in between keep it.

`InstanceLock_proofs`, from `LockAssumption`, for any set of pids:

- `LockTyped`, `LockStandsAlways`, `NoSecondWatchdog`. Inductive together with: whoever handles the file while another does has raced
  (`Seen`); while a watchdog serves that raced with nobody, nobody else is past the test of the lock's holder (`Undisturbed`);
  who writes without a race writes into an empty file (`Emptied`). That two serve without a race would
  mean two pids in one file.

`WarmStart_proofs`, from `WarmStartAssumption` (bounds are natural numbers; callers are
any set, not even finite):

- `WarmRestartsSerial`: `Spec => []SequenceInv`, inductive as it stands: a caller begins only when
  nobody is `active`, whoever is inside is `active`, and only the one inside ends it.
- `WarmRestartReplaces`: `Spec => []Replaced`. Its invariant `Replacing` says what is known
  earlier in the sequence: the backend there was is the last one or an earlier one; before the stop (`BeforeStop`) it is down or owned, if it
  is still the last, and stays so; from the stop on, a backend that is up is a later one. If it could not be stopped, nothing is claimed.
- `IntentRevokes`: `Spec => RevokedForGood`. Its invariant `Heard`: no backend that this watchdog started has heard of
  an epoch that is yet to come, neither now nor when a heartbeat was sent; so its heartbeat of
  the current epoch was sent in it.
- `LeaseStandsInEpoch`: `Spec => LeaseStands`.
- `WarmRestartKeepsGate`: `Spec => GateKept`, the refinement. That `ResumeTraffic` is `Open` needs to know that the sequence is the active
  one, that traffic has stayed held since it began (`SequenceInv`), and that a backend was started after that or the old one could not be stopped (`Replaced`; `Opened` is
  for who is past it). Every other step is one of the gate's or changes nothing it sees.

Only model-checked: all liveness (`Converges`, `StopEnds` and `TakesOver` too), which is
beyond the prover. No module has a recursive definition, so nothing is left out on that account.

## Not modelled, and why

- *Update suppression's three sources and its TTL*: each is read or written in one step, and the supervisor's model already lets
  the gate be active at any time. *Nonces*: consumed in one step under a mutex, before the command.
  *Merging of anomalies*: it decides a line of the log. A property of these would restate the statement.
- *Data races inside `RestartTracker`*: its methods are atomic here. What a torn slice of times means is no choice the program
  makes; the overlap of cycles between the methods is what the runs have.
- *Refinement of `Watchdog`'s four-action `EnsureHealthy` by `BackendManager`*: the first knows one managed backend, the second many
  processes, ports and failures that only look like a restart to the first; the correspondence is described above.
- *Memory across restarts of the watchdog*: the latch, attempts, epochs, nonces and the API's suppression are lost; nothing
  is persisted that the code would read back.
- *The timeout of a lease* (the supervisor's model lets a lease claim anything), *Desktop's lease* (nobody reads it), *checkpoints*
  (nobody acknowledges them).
- Configuration, events and log, the state file (written, never read), routing and tokens of the HTTP API, the deep-health cache, flags,
  the WMI, netstat and taskkill plumbing, the stubs for other systems, scripts, the web page, vendored stubs.
