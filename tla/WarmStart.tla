------------------------------ MODULE WarmStart ------------------------------
(* The warm-start sequencer: several operators may ask for a warm restart of  *)
(* the backend; one at a time raises the epoch, waits for the active runs     *)
(* that heartbeats report, stops the backend, starts another and resumes      *)
(* traffic. Meanwhile the backend works and sends heartbeats, which may be    *)
(* delayed, lost and delivered twice, and the rest of the watchdog starts and *)
(* stops the backend as well.                                                 *)
EXTENDS HeartbeatRegistry, FiniteSets

CONSTANTS
    Callers,        \* goroutines that execute warm_restart
    DrainTimeout,   \* cfg.WarmDrainTimeout, in ticks
    Cooperates,     \* whether the backend takes no new runs while traffic is held
    MaxRuns,        \* bound: runs of a backend
    MaxInstance,    \* bound: backends started
    MaxEpoch,       \* bound: restart intents
    MaxSent         \* bound: heartbeats on the way

ASSUME WarmStartAssumption ==
    /\ DrainTimeout \in Nat /\ Cooperates \in BOOLEAN
    /\ MaxRuns \in Nat /\ MaxInstance \in Nat \ {0} /\ MaxEpoch \in Nat \ {0}
    /\ MaxSent \in Nat

VARIABLES
    registry,   \* the backend's epoch and lease
    snap,       \* WarmStartSnapshot: the status the sequencer shows
    pc,         \* where each caller is in Run
    left,       \* ticks to each caller's drain deadline
    atEnd,      \* activeAtEnd of each caller
    started,    \* backends started so far; the last is the one there is
    backend,    \* whether it is up, its active runs, the epoch it has heard of, and whether
                \* it is owned: up, and the job, cmd or pid of BackendManager leads to it
    sent,       \* heartbeats on the way, each with the epoch it was sent in
    asked       \* about the last sequence: the runs reported when it was asked for, the last
                \* backend then, 0 if that was one that it could not stop; and the runs it
                \* cut off although some had been reported

run     == <<pc, left, atEnd>>
process == <<started, backend>>
vars    == <<registry, snap, run, process, sent, asked>>

Labels == {"idle", "intent", "drain", "drained", "stop", "start", "ready", "resume", "finish"}
Outcomes == {"none", "success", "interrupted", "failed"}
Heartbeats == [ instance : 1 .. MaxInstance, epoch : 0 .. MaxEpoch, runs : 0 .. MaxRuns,
                at : 1 .. MaxEpoch ]

\* Every variable has its type, within the bounds.
TypeOK ==
    /\ registry \in [ epoch : 1 .. MaxEpoch,
                      lease : [ instance : 0 .. MaxInstance, epoch : 0 .. MaxEpoch,
                                runs : 0 .. MaxRuns ] ]
    /\ snap \in [ active : BOOLEAN, draining : BOOLEAN, resumeTraffic : BOOLEAN,
                  outcome : Outcomes ]
    /\ pc \in [Callers -> Labels]
    /\ left \in [Callers -> 0 .. DrainTimeout] /\ atEnd \in [Callers -> 0 .. MaxRuns]
    /\ started \in 1 .. MaxInstance
    /\ backend \in [ up : BOOLEAN, runs : 0 .. MaxRuns, knows : 0 .. MaxEpoch, owned : BOOLEAN ]
    /\ sent \subseteq Heartbeats
    /\ asked \in [ reported : 0 .. MaxRuns, instance : 0 .. MaxInstance, cut : 0 .. MaxRuns ]

\* An earlier watchdog may have left a backend, of which BackendManager knows nothing yet
\* and which may know an epoch of that watchdog's: epochs are not kept, but start at 1 again.
Init ==
    /\ registry = NewHeartbeatRegistry
    /\ snap = [active |-> FALSE, draining |-> FALSE, resumeTraffic |-> TRUE, outcome |-> "none"]
    /\ pc = [c \in Callers |-> "idle"]
    /\ left = [c \in Callers |-> 0] /\ atEnd = [c \in Callers |-> 0]
    /\ started = 1
    /\ \E up \in BOOLEAN, runs \in 0 .. MaxRuns, knows \in 0 .. MaxEpoch :
         /\ runs + knows > 0 => up
         /\ backend = [up |-> up, runs |-> runs, knows |-> knows, owned |-> FALSE]
    /\ sent = {}
    /\ asked = [reported |-> 0, instance |-> 1, cut |-> 0]

-----------------------------------------------------------------------------
(* Run, in the order of its statements.                                       *)

Goto(c, from, to) == pc[c] = from /\ pc' = [pc EXCEPT ![c] = to]

\* Bound: an epoch is left for one intent more, also after the one under way.
EpochLeft ==
    /\ registry.epoch < MaxEpoch
    /\ (\E c \in Callers : pc[c] = "intent") => registry.epoch + 1 < MaxEpoch

\* What is to be remembered of the moment a sequence is asked for.
Request ==
    [ reported |-> LastActiveRuns(registry),
      instance |-> IF backend.up /\ ~backend.owned THEN 0 ELSE started,
      cut      |-> 0 ]

\* Mutant of Begin: a sequence in progress does not stop a second one.
BeginAgain(c) ==
    /\ Goto(c, "idle", "intent")
    /\ snap' = [active |-> TRUE, draining |-> TRUE, resumeTraffic |-> FALSE, outcome |-> "none"]
    /\ asked' = Request
    /\ UNCHANGED <<registry, left, atEnd, process, sent>>

\* A call that finds a sequence active returns at once and changes nothing.
Begin(c) ==
    /\ Goto(c, "idle", "intent") /\ ~snap.active /\ EpochLeft
    /\ snap' = [active |-> TRUE, draining |-> TRUE, resumeTraffic |-> FALSE, outcome |-> "none"]
    /\ asked' = Request
    /\ UNCHANGED <<registry, left, atEnd, process, sent>>

Intent(c) ==
    /\ Goto(c, "intent", "drain") /\ registry.epoch < MaxEpoch
    /\ registry' = BumpEpoch(registry)
    /\ left' = [left EXCEPT ![c] = DrainTimeout]
    /\ UNCHANGED <<snap, atEnd, process, sent, asked>>

\* Mutant of Drain: waits for the runs without a deadline.
DrainForever(c) ==
    /\ Goto(c, "drain", "drained") /\ LastActiveRuns(registry) = 0
    /\ UNCHANGED <<registry, snap, left, atEnd, process, sent, asked>>

\* The poll ends when no runs are reported, or at the deadline.
Drain(c) ==
    /\ Goto(c, "drain", "drained") /\ (LastActiveRuns(registry) = 0 \/ left[c] = 0)
    /\ UNCHANGED <<registry, snap, left, atEnd, process, sent, asked>>

\* The reports are read once more: runs now make the outcome interrupted. Then
\* comes the wait for a checkpoint that nobody acknowledges.
Drained(c) ==
    /\ Goto(c, "drained", "stop")
    /\ atEnd' = [atEnd EXCEPT ![c] = LastActiveRuns(registry)]
    /\ UNCHANGED <<registry, snap, left, process, sent, asked>>

\* stopLocked ends the process that job, cmd or pid leads to, and forgets it. A process
\* that none of them leads to goes on.
Ended == [backend EXCEPT !.up = FALSE, !.runs = 0, !.owned = FALSE]
Stopped == IF backend.owned THEN Ended ELSE backend

\* Mutant of StopBackend: the process is forgotten but goes on.
StopBackendMissed(c) ==
    /\ Goto(c, "stop", "start")
    /\ backend' = [backend EXCEPT !.owned = FALSE]
    /\ UNCHANGED <<registry, snap, left, atEnd, started, sent, asked>>

StopBackend(c) ==
    /\ Goto(c, "stop", "start")
    /\ backend' = Stopped
    /\ asked' = [asked EXCEPT !.cut = IF asked.reported = 0 THEN 0 ELSE backend.runs - Stopped.runs]
    /\ UNCHANGED <<registry, snap, left, atEnd, started, sent>>

\* EnsureHealthy keeps a backend that is up, and may learn the pid of one it does not
\* own; else it starts one, which has yet to hear of the epoch.
EnsureHealthy ==
    IF backend.up
    THEN /\ UNCHANGED started
         /\ \E owned \in {backend.owned, TRUE} : backend' = [backend EXCEPT !.owned = owned]
    ELSE /\ started < MaxInstance /\ started' = started + 1
         /\ backend' = [up |-> TRUE, runs |-> 0, knows |-> 0, owned |-> TRUE]

StartBackend(c) ==
    /\ Goto(c, "start", "ready") /\ EnsureHealthy
    /\ UNCHANGED <<registry, snap, left, atEnd, sent, asked>>

\* WaitReady, then the events and the manifest for Desktop.
WaitReady(c) ==
    /\ Goto(c, "ready", "resume") /\ backend.up
    /\ UNCHANGED <<registry, snap, left, atEnd, process, sent, asked>>

ResumeTraffic(c) ==
    /\ Goto(c, "resume", "finish")
    /\ snap' = [snap EXCEPT !.draining = FALSE, !.resumeTraffic = TRUE]
    /\ UNCHANGED <<registry, left, atEnd, process, sent, asked>>

\* finish: a failed sequence leaves traffic held.
Finish(c) ==
    /\ Goto(c, "finish", "idle")
    /\ snap' = [ active |-> FALSE, draining |-> FALSE, resumeTraffic |-> TRUE,
                 outcome |-> IF atEnd[c] > 0 THEN "interrupted" ELSE "success" ]
    /\ UNCHANGED <<registry, left, atEnd, process, sent, asked>>

\* Mutant of Fail: a failed sequence lets traffic through again.
FailOpens(c) ==
    /\ Goto(c, "start", "idle") \/ (Goto(c, "ready", "idle") /\ ~backend.up)
    /\ snap' = [active |-> FALSE, draining |-> FALSE, resumeTraffic |-> TRUE, outcome |-> "failed"]
    /\ UNCHANGED <<registry, left, atEnd, process, sent, asked>>

Fail(c) ==
    /\ Goto(c, "start", "idle") \/ (Goto(c, "ready", "idle") /\ ~backend.up)
    /\ snap' = [snap EXCEPT !.active = FALSE, !.outcome = "failed"]
    /\ UNCHANGED <<registry, left, atEnd, process, sent, asked>>

Proceed(c) ==
    \/ Intent(c) \/ Drain(c) \/ Drained(c) \/ StopBackend(c) \/ StartBackend(c)
    \/ WaitReady(c) \/ ResumeTraffic(c) \/ Finish(c) \/ Fail(c)

-----------------------------------------------------------------------------
(* The rest of the watchdog, the backend, the messages and the clock.         *)

\* start_backend and stop_backend raise the epoch, then start the backend
\* (KeepBackend) or stop it (StopManaged): a step later, others in between.
CommandBackend ==
    /\ EpochLeft /\ registry' = BumpEpoch(registry)
    /\ UNCHANGED <<snap, run, process, sent, asked>>

\* Keep-alive and prewarm do not raise the epoch.
KeepBackend ==
    /\ EnsureHealthy
    /\ UNCHANGED <<registry, snap, run, sent, asked>>

\* A command stops the backend, or it dies.
StopManaged ==
    /\ backend' \in {Stopped, Ended}
    /\ UNCHANGED <<registry, snap, run, started, sent, asked>>

\* The backend reads the epoch on the status page.
Learn ==
    /\ backend.up /\ backend' = [backend EXCEPT !.knows = registry.epoch]
    /\ UNCHANGED <<registry, snap, run, started, sent, asked>>

BeginRun ==
    /\ backend.up /\ backend.runs < MaxRuns /\ (Cooperates => snap.resumeTraffic)
    /\ backend' = [backend EXCEPT !.runs = @ + 1]
    /\ UNCHANGED <<registry, snap, run, started, sent, asked>>

EndRun ==
    /\ backend.runs > 0 /\ backend' = [backend EXCEPT !.runs = @ - 1]
    /\ UNCHANGED <<registry, snap, run, started, sent, asked>>

SendHeartbeat ==
    /\ backend.up /\ Cardinality(sent) < MaxSent
    /\ sent' = sent \cup {[ instance |-> started, epoch |-> backend.knows,
                            runs |-> backend.runs, at |-> registry.epoch ]}
    /\ UNCHANGED <<registry, snap, run, process, asked>>

\* A delivered heartbeat may be delivered again until it is lost.
DeliverHeartbeat ==
    /\ \E m \in sent : registry' = Ingest(registry, m)
    /\ UNCHANGED <<snap, run, process, sent, asked>>

LoseHeartbeat ==
    /\ \E m \in sent : sent' = sent \ {m}
    /\ UNCHANGED <<registry, snap, run, process, asked>>

Tick ==
    /\ left' = [c \in Callers |-> IF left[c] > 0 THEN left[c] - 1 ELSE 0]
    /\ UNCHANGED <<registry, snap, pc, atEnd, process, sent, asked>>

Next ==
    \/ \E c \in Callers : Begin(c) \/ Proceed(c)
    \/ CommandBackend \/ KeepBackend \/ StopManaged
    \/ Learn \/ BeginRun \/ EndRun
    \/ SendHeartbeat \/ DeliverHeartbeat \/ LoseHeartbeat \/ Tick

\* A caller goes on with its sequence (its waits are bounded), and time passes.
Fairness == (\A c \in Callers : WF_vars(Proceed(c))) /\ WF_vars(Tick)

Spec == Init /\ [][Next]_vars
FairSpec == Spec /\ Fairness

-----------------------------------------------------------------------------
Inside == Labels \ {"idle"}
Held == Inside \ {"finish"}

\* At most one caller is in the sequence, and the snapshot says so.
OneSequence ==
    \A c \in Callers : pc[c] \in Inside =>
        snap.active /\ \A d \in Callers : pc[d] \in Inside => c = d

\* Traffic is held from the intent until the new backend has been seen ready, also
\* against callers that are refused and sequences that end meanwhile.
TrafficHeld == \A c \in Callers : pc[c] \in Held => snap.draining /\ ~snap.resumeTraffic

\* The warm restarts are serialised, and hold traffic back.
SequenceInv == TypeOK /\ OneSequence /\ TrafficHeld

\* A sequence that gets as far as resuming traffic has replaced the process that was there
\* when it was asked for, whoever else starts and stops backends - provided that
\* BackendManager could have stopped that process: one that it knows only by its port, or
\* not at all, is kept and counted as restarted.
Replaced == \A c \in Callers : pc[c] \in {"resume", "finish"} => started > asked.instance

Gate == INSTANCE TrafficGate
    WITH busy <- snap.active, open <- snap.resumeTraffic, generation <- started,
         since <- asked.instance

\* The snapshot opens traffic to a backend newer than the sequence that held it, or to the
\* one there was if that could not be stopped, and only then: refused callers, failed
\* sequences and other starts and stops open nothing.
GateKept == Gate!GateSpec

\* Within an epoch the lease stays with the instance that took it (T11).
LeaseStands ==
    [][ registry.lease # NoLease /\ registry'.epoch = registry.epoch =>
          registry'.lease.instance = registry.lease.instance ]_vars

\* A heartbeat sent before a restart intent is never accepted after it, however
\* late it comes and however often (T10) - unless its sender is the backend that an
\* earlier watchdog left: the epoch it knows from that one may be yet to come.
RevokedForGood ==
    [][ registry'.lease # registry.lease /\ registry'.lease # NoLease =>
          \E m \in sent : /\ m.at = registry.epoch \/ m.instance = 1
                          /\ registry' = Ingest(registry, m) ]_vars

\* Every sequence ends, also when the runs it waits for do not.
SequencesEnd == []<>(~snap.active)

\* When active runs had been reported as the restart was asked for, a success
\* means that none was cut off.
SuccessDrained == snap.outcome = "success" => asked.cut = 0

=============================================================================
