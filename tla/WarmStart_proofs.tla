--------------------------- MODULE WarmStart_proofs ---------------------------
(* The warm-start sequencer for any callers and bounds: warm restarts are     *)
(* serialised, and keep the gate that traffic is promised; a lease stands for *)
(* its epoch, and a restart intent revokes every heartbeat sent before it.    *)
EXTENDS WarmStart, TLAPS

\* The steps of Next, other than those of the sequencer itself.
Around ==
    \/ CommandBackend \/ KeepBackend \/ StopManaged
    \/ Learn \/ BeginRun \/ EndRun
    \/ SendHeartbeat \/ DeliverHeartbeat \/ LoseHeartbeat \/ Tick

\* Every step is a caller's, or one around the sequencer, or changes nothing.
LEMMA NextCases ==
    ASSUME [Next]_vars
    PROVE  \/ \E c \in Callers : Begin(c) \/ Proceed(c)
           \/ Around
           \/ UNCHANGED vars
BY DEF Next, Around

------------------------------------------------------------------------------
(* Type correctness.                                                           *)

\* Ingest leaves the registry in its type, and changes the lease alone.
LEMMA IngestTyped ==
    ASSUME TypeOK, NEW m \in sent
    PROVE  /\ Ingest(registry, m) \in [ epoch : 1 .. MaxEpoch,
                 lease : [ instance : 0 .. MaxInstance, epoch : 0 .. MaxEpoch,
                           runs : 0 .. MaxRuns ] ]
           /\ Ingest(registry, m).epoch = registry.epoch
<1>1. m \in Heartbeats
  BY DEF TypeOK
<1>2. [instance |-> m.instance, epoch |-> m.epoch, runs |-> m.runs] \in
        [instance : 0 .. MaxInstance, epoch : 0 .. MaxEpoch, runs : 0 .. MaxRuns]
  BY <1>1, WarmStartAssumption DEF Heartbeats
<1> QED
  BY <1>2 DEF TypeOK, Ingest

\* So does BumpEpoch, while the bound allows it.
LEMMA BumpTyped ==
    ASSUME TypeOK, registry.epoch < MaxEpoch
    PROVE  BumpEpoch(registry) \in [ epoch : 1 .. MaxEpoch,
                 lease : [ instance : 0 .. MaxInstance, epoch : 0 .. MaxEpoch,
                           runs : 0 .. MaxRuns ] ]
BY WarmStartAssumption DEF TypeOK, BumpEpoch, NoLease

Backends == [ up : BOOLEAN, runs : 0 .. MaxRuns, knows : 0 .. MaxEpoch, owned : BOOLEAN ]

\* The initial state is typed.
LEMMA InitTyped == Init => TypeOK
BY WarmStartAssumption
   DEF Init, TypeOK, NewHeartbeatRegistry, NoLease, Labels, Outcomes

\* EnsureHealthy leaves the process in its type.
LEMMA EnsureHealthyTyped ==
    ASSUME TypeOK, EnsureHealthy
    PROVE  /\ started' \in 1 .. MaxInstance
           /\ backend' \in Backends
<1> USE DEF Backends
<1>1. CASE backend.up
  BY <1>1 DEF TypeOK, EnsureHealthy
<1>2. CASE ~backend.up
  <2>1. started < MaxInstance /\ started' = started + 1
    BY <1>2 DEF EnsureHealthy
  <2>2. backend' = [up |-> TRUE, runs |-> 0, knows |-> 0, owned |-> TRUE]
    BY <1>2 DEF EnsureHealthy
  <2>3. started' \in 1 .. MaxInstance
    BY <2>1, WarmStartAssumption DEF TypeOK
  <2> QED
    BY <2>2, <2>3, WarmStartAssumption DEF TypeOK
<1> QED
  BY <1>1, <1>2

\* A backend that has ended is down, with no runs; one that is not owned is not stopped.
LEMMA StoppedTyped ==
    ASSUME TypeOK
    PROVE  /\ Ended \in Backends /\ Stopped \in Backends
           /\ ~Ended.up /\ ~Ended.owned /\ Ended.runs = 0 /\ Ended.knows = backend.knows
<1>1. 0 \in 0 .. MaxRuns
  BY WarmStartAssumption
<1>2. /\ ~Ended.up /\ ~Ended.owned /\ Ended.runs = 0 /\ Ended.knows = backend.knows
  BY Zenon DEF Ended, TypeOK
<1>3. Ended \in Backends
  BY <1>1 DEF Ended, Backends, TypeOK
<1>4. Stopped \in Backends
  BY <1>3 DEF Stopped, Backends, TypeOK
<1> QED
  BY <1>2, <1>3, <1>4

\* What a sequence remembers of the moment it is asked for is typed.
LEMMA RequestTyped ==
    ASSUME TypeOK
    PROVE  /\ Request \in [ reported : 0 .. MaxRuns, instance : 0 .. MaxInstance, cut : 0 .. MaxRuns ]
           /\ Request.instance = IF backend.up /\ ~backend.owned THEN 0 ELSE started
<1>1. LastActiveRuns(registry) \in 0 .. MaxRuns /\ 0 \in 0 .. MaxRuns
  BY WarmStartAssumption DEF LastActiveRuns, TypeOK
<1>2. (IF backend.up /\ ~backend.owned THEN 0 ELSE started) \in 0 .. MaxInstance
  BY WarmStartAssumption DEF TypeOK
<1> QED
  BY <1>1, <1>2 DEF Request

\* The runs that a stop cuts off are among those of the backend.
LEMMA CutTyped ==
    ASSUME TypeOK
    PROVE  (IF asked.reported = 0 THEN 0 ELSE backend.runs - Stopped.runs) \in 0 .. MaxRuns
<1>1. backend.runs \in 0 .. MaxRuns /\ Stopped.runs \in {0, backend.runs}
  BY StoppedTyped DEF TypeOK, Stopped
<1> QED
  BY <1>1, WarmStartAssumption

\* Each step of a caller leaves every variable in its type.
LEMMA CallerTyped ==
    ASSUME TypeOK, NEW c \in Callers, Begin(c) \/ Proceed(c)
    PROVE  TypeOK'
<1> USE DEF Goto, Labels, process, run
<1>1. CASE Begin(c)
  BY <1>1, RequestTyped DEF TypeOK, Begin, Outcomes
<1>2. CASE Intent(c)
  BY <1>2, BumpTyped, WarmStartAssumption DEF TypeOK, Intent
<1>3. CASE Drain(c)
  BY <1>3 DEF TypeOK, Drain
<1>4. CASE Drained(c)
  BY <1>4 DEF TypeOK, Drained, LastActiveRuns
<1>5. CASE StopBackend(c)
  BY <1>5, StoppedTyped, CutTyped DEF TypeOK, StopBackend, Backends
<1>6. CASE StartBackend(c)
  BY <1>6, EnsureHealthyTyped DEF TypeOK, StartBackend, Backends
<1>7. CASE WaitReady(c)
  BY <1>7 DEF TypeOK, WaitReady
<1>8. CASE ResumeTraffic(c)
  BY <1>8 DEF TypeOK, ResumeTraffic
<1>9. CASE Finish(c)
  BY <1>9 DEF TypeOK, Finish, Outcomes
<1>10. CASE Fail(c)
  BY <1>10 DEF TypeOK, Fail, Outcomes
<1> QED
  BY <1>1, <1>2, <1>3, <1>4, <1>5, <1>6, <1>7, <1>8, <1>9, <1>10 DEF Proceed

\* So does each step around the sequencer.
LEMMA AroundTyped ==
    ASSUME TypeOK, Around
    PROVE  TypeOK'
<1> USE DEF process, run
<1>1. CASE CommandBackend
  BY <1>1, BumpTyped DEF TypeOK, CommandBackend, EpochLeft
<1>2. CASE KeepBackend
  BY <1>2, EnsureHealthyTyped DEF TypeOK, KeepBackend, Backends
<1>3. CASE StopManaged
  BY <1>3, StoppedTyped DEF TypeOK, StopManaged, Backends
<1>4. CASE Learn
  BY <1>4, WarmStartAssumption DEF TypeOK, Learn
<1>5. CASE BeginRun
  BY <1>5, WarmStartAssumption DEF TypeOK, BeginRun
<1>6. CASE EndRun
  BY <1>6, WarmStartAssumption DEF TypeOK, EndRun
<1>7. CASE SendHeartbeat
  BY <1>7, WarmStartAssumption DEF TypeOK, SendHeartbeat, Heartbeats
<1>8. CASE DeliverHeartbeat
  BY <1>8, IngestTyped DEF TypeOK, DeliverHeartbeat
<1>9. CASE LoseHeartbeat
  BY <1>9 DEF TypeOK, LoseHeartbeat
<1>10. CASE Tick
  BY <1>10, WarmStartAssumption DEF TypeOK, Tick
<1> QED
  BY <1>1, <1>2, <1>3, <1>4, <1>5, <1>6, <1>7, <1>8, <1>9, <1>10 DEF Around

\* Every step leaves every variable in its type.
LEMMA NextTyped == TypeOK /\ [Next]_vars => TypeOK'
<1> SUFFICES ASSUME TypeOK, [Next]_vars
             PROVE  TypeOK'
  OBVIOUS
<1>1. CASE UNCHANGED vars
  BY <1>1 DEF TypeOK, vars, run, process
<1> QED
  BY <1>1, NextCases, CallerTyped, AroundTyped

------------------------------------------------------------------------------
(* One sequence at a time, which holds traffic.                                *)

\* A step around the sequencer leaves the callers and the snapshot alone.
LEMMA AroundOutside == Around => UNCHANGED <<snap, pc, asked>>
BY DEF Around, CommandBackend, KeepBackend, StopManaged, Learn, BeginRun, EndRun,
       SendHeartbeat, DeliverHeartbeat, LoseHeartbeat, Tick, run, process

\* A step within a sequence, which does not end it, leaves OneSequence as it is.
LEMMA InsideStays ==
    ASSUME TypeOK, OneSequence, NEW c \in Callers, pc[c] \in Inside,
           NEW to \in Labels, pc' = [pc EXCEPT ![c] = to],
           snap'.active \/ to = "idle"
    PROVE  OneSequence'
<1>1. \A d \in Callers : d # c => pc[d] \notin Inside
  BY DEF OneSequence
<1>2. pc'[c] = to /\ \A d \in Callers : d # c => pc'[d] = pc[d]
  BY DEF TypeOK
<1> QED
  BY <1>1, <1>2 DEF OneSequence, Inside

\* And TrafficHeld, if it keeps traffic held or resumes it.
LEMMA HeldStays ==
    ASSUME TypeOK, OneSequence, TrafficHeld, NEW c \in Callers, pc[c] \in Inside,
           NEW to \in Labels, pc' = [pc EXCEPT ![c] = to],
           \/ to \notin Held
           \/ pc[c] \in Held /\ UNCHANGED snap
    PROVE  TrafficHeld'
<1>1. \A d \in Callers : d # c => pc[d] \notin Held
  BY DEF OneSequence, Held
<1>2. pc'[c] = to /\ \A d \in Callers : d # c => pc'[d] = pc[d]
  BY DEF TypeOK
<1> QED
  BY <1>1, <1>2 DEF TrafficHeld

\* Each step of a caller keeps both.
LEMMA CallerSerial ==
    ASSUME TypeOK, OneSequence, TrafficHeld, NEW c \in Callers, Begin(c) \/ Proceed(c)
    PROVE  OneSequence' /\ TrafficHeld'
<1> USE DEF Goto, Labels, Inside, Held
<1>1. CASE Begin(c)
  <2>1. \A d \in Callers : pc[d] \notin Inside
    BY <1>1 DEF Begin, OneSequence
  <2>2. snap'.active /\ snap'.draining /\ ~snap'.resumeTraffic
    BY <1>1 DEF Begin
  <2>3. \A d \in Callers : d # c => pc'[d] = pc[d]
    BY <1>1 DEF Begin, TypeOK
  <2> QED
    BY <2>1, <2>2, <2>3 DEF OneSequence, TrafficHeld
<1>2. CASE Intent(c) \/ Drain(c) \/ Drained(c) \/ StopBackend(c) \/ StartBackend(c) \/ WaitReady(c)
  <2>1. UNCHANGED snap /\ pc[c] \in Held
    BY <1>2 DEF Intent, Drain, Drained, StopBackend, StartBackend, WaitReady
  <2>2. PICK to \in Labels : pc' = [pc EXCEPT ![c] = to]
    BY <1>2 DEF Intent, Drain, Drained, StopBackend, StartBackend, WaitReady
  <2>3. snap'.active
    BY <2>1 DEF OneSequence
  <2> QED
    BY <2>1, <2>2, <2>3, InsideStays, HeldStays
<1>3. CASE ResumeTraffic(c)
  <2>1. pc[c] \in Inside /\ pc' = [pc EXCEPT ![c] = "finish"]
    BY <1>3 DEF ResumeTraffic
  <2>2. snap'.active
    BY <1>3, <2>1 DEF ResumeTraffic, TypeOK, OneSequence
  <2> QED
    BY <2>1, <2>2, InsideStays, HeldStays
<1>4. CASE Finish(c) \/ Fail(c)
  <2>1. pc[c] \in Inside /\ pc' = [pc EXCEPT ![c] = "idle"]
    BY <1>4 DEF Finish, Fail
  <2> QED
    BY <2>1, InsideStays, HeldStays
<1> QED
  BY <1>1, <1>2, <1>3, <1>4 DEF Proceed

\* Warm restarts are serialised, and traffic is held until the new backend was seen
\* ready.
THEOREM WarmRestartsSerial == Spec => []SequenceInv
<1>1. Init => SequenceInv
  BY InitTyped DEF Init, SequenceInv, OneSequence, TrafficHeld, Inside, Held
<1>2. SequenceInv /\ [Next]_vars => SequenceInv'
  <2> SUFFICES ASSUME SequenceInv, [Next]_vars
               PROVE  SequenceInv'
    OBVIOUS
  <2> USE DEF SequenceInv
  <2>1. CASE \E c \in Callers : Begin(c) \/ Proceed(c)
    BY <2>1, CallerSerial, NextTyped
  <2>2. CASE UNCHANGED <<snap, pc, asked>>
    BY <2>2, NextTyped DEF OneSequence, TrafficHeld
  <2>3. UNCHANGED vars => UNCHANGED <<snap, pc, asked>>
    BY DEF vars, run
  <2> QED
    BY <2>1, <2>2, <2>3, NextCases, AroundOutside
<1> QED
  BY <1>1, <1>2, PTL DEF Spec

------------------------------------------------------------------------------
(* A sequence replaces the backend.                                            *)

BeforeStop == {"intent", "drain", "drained", "stop"}

\* What Replaced rests on: the backend to be replaced is the last or an earlier one; before
\* the stop, while it is the last and up, BackendManager can stop it, and afterwards it is
\* up no more.
Replacing ==
    /\ asked.instance <= started
    /\ \A c \in Callers :
         /\ pc[c] \in BeforeStop /\ backend.up => backend.owned \/ started > asked.instance
         /\ pc[c] = "start" /\ backend.up => started > asked.instance
         /\ pc[c] \in {"ready", "resume", "finish"} => started > asked.instance

\* What happens to the backend: it is ensured, stopped, ends, hears of the epoch, or works.
LEMMA BackendSteps ==
    ASSUME [Next]_vars
    PROVE  \/ UNCHANGED process
           \/ EnsureHealthy
           \/ started' = started /\ backend' \in {Stopped, Ended}
           \/ started' = started /\ backend' = [backend EXCEPT !.knows = registry.epoch]
           \/ started' = started /\ \E n : backend' = [backend EXCEPT !.runs = n]
<1>1. CASE Learn
  BY <1>1 DEF Learn
<1>2. CASE BeginRun
  BY <1>2 DEF BeginRun
<1>3. CASE EndRun
  BY <1>3 DEF EndRun
<1>4. CASE ~(Learn \/ BeginRun \/ EndRun)
  BY <1>4
     DEF Next, vars, process, CommandBackend, KeepBackend, StopManaged, SendHeartbeat,
         DeliverHeartbeat, LoseHeartbeat, Tick, Begin, Proceed, Intent, Drain, Drained,
         StopBackend, StartBackend, WaitReady, ResumeTraffic, Finish, Fail
<1> QED
  BY <1>1, <1>2, <1>3, <1>4

\* A backend that is up was up before the step, or is newer; it is owned if it was, or is
\* newer; it has heard of what it had heard of before, of nothing, or of the epoch.
LEMMA OnlyNewer ==
    ASSUME TypeOK, [Next]_vars
    PROVE  /\ started' >= started
           /\ backend'.up => backend.up \/ started' > started
           /\ backend'.up /\ backend.owned => backend'.owned \/ started' > started
           /\ backend'.up /\ started' > started => backend'.owned
           /\ backend'.knows \in {backend.knows, 0, registry.epoch}
           /\ started' = started \/ backend'.knows = 0
<1>1. started \in Nat
  BY WarmStartAssumption DEF TypeOK
<1>2. CASE UNCHANGED process
  BY <1>1, <1>2 DEF process
<1>3. CASE EnsureHealthy
  BY <1>1, <1>3 DEF EnsureHealthy, TypeOK
<1>4. CASE started' = started /\ backend' \in {Stopped, Ended}
  BY <1>1, <1>4, StoppedTyped DEF Stopped
<1>5. CASE started' = started /\ backend' = [backend EXCEPT !.knows = registry.epoch]
  BY <1>1, <1>5 DEF TypeOK
<1>6. CASE started' = started /\ \E n : backend' = [backend EXCEPT !.runs = n]
  BY <1>1, <1>6 DEF TypeOK
<1> QED
  BY <1>2, <1>3, <1>4, <1>5, <1>6, BackendSteps

\* Each step of a caller keeps it.
LEMMA CallerReplacing ==
    ASSUME TypeOK, TypeOK', OneSequence, Replacing, NEW c \in Callers, [Next]_vars,
           Begin(c) \/ Proceed(c)
    PROVE  Replacing'
<1> USE DEF Goto, Labels
<1>1. pc' = [pc EXCEPT ![c] = pc'[c]]
  BY DEF Proceed, Begin, Intent, Drain, Drained, StopBackend, StartBackend, WaitReady,
         ResumeTraffic, Finish, Fail, TypeOK
<1>2. \A d \in Callers : d # c => pc'[d] = pc[d]
  BY <1>1 DEF TypeOK
<1>3. CASE Begin(c)
  <2>1. \A d \in Callers : pc[d] = "idle"
    BY <1>3 DEF Begin, OneSequence, Inside, TypeOK
  <2>2. pc'[c] = "intent" /\ asked' = Request /\ UNCHANGED <<started, backend>>
    BY <1>3 DEF Begin, TypeOK, process
  <2>3. asked'.instance <= started' /\ (backend'.up => backend'.owned \/ started' > asked'.instance)
    BY <2>2, RequestTyped, WarmStartAssumption DEF TypeOK
  <2> QED
    BY <2>1, <2>2, <2>3, <1>2 DEF Replacing
<1>4. CASE Proceed(c)
  <2>1. pc[c] \in Inside
    BY <1>4 DEF Proceed, Inside, Intent, Drain, Drained, StopBackend, StartBackend, WaitReady,
                ResumeTraffic, Finish, Fail
  <2>2. \A d \in Callers : d # c => pc'[d] = "idle"
    BY <2>1, <1>2 DEF OneSequence, Inside, TypeOK
  <2>3. asked'.instance = asked.instance
    BY <1>4 DEF Proceed, Intent, Drain, Drained, StopBackend, StartBackend, WaitReady,
                ResumeTraffic, Finish, Fail, TypeOK
  <2>4. started' >= started /\ started \in Nat /\ started' \in Nat /\ asked.instance \in Nat
    BY OnlyNewer, WarmStartAssumption DEF TypeOK
  <2>5. pc'[c] = "start" /\ backend'.up => started' > asked.instance
    <3>1. pc'[c] = "start" => StopBackend(c)
      BY <1>4 DEF Proceed, Intent, Drain, Drained, StartBackend, WaitReady, ResumeTraffic,
                  Finish, Fail, TypeOK
    <3>2. StopBackend(c) => pc[c] = "stop" /\ backend' = Stopped /\ started' = started
      BY DEF StopBackend
    <3>3. Stopped.up => backend.up /\ ~backend.owned
      BY StoppedTyped DEF Stopped
    <3> QED
      BY <3>1, <3>2, <3>3 DEF Replacing, BeforeStop
  <2>8. pc'[c] \in BeforeStop /\ backend'.up => backend'.owned \/ started' > asked.instance
    <3>1. pc'[c] \in BeforeStop => pc[c] \in BeforeStop /\ UNCHANGED process
      BY <1>4 DEF Proceed, Intent, Drain, Drained, StopBackend, StartBackend, WaitReady,
                  ResumeTraffic, Finish, Fail, TypeOK, BeforeStop
    <3> QED
      BY <3>1 DEF Replacing, process
  <2>6. pc'[c] = "ready" => started' > asked.instance
    <3>1. pc'[c] = "ready" => StartBackend(c)
      BY <1>4 DEF Proceed, Intent, Drain, Drained, StopBackend, WaitReady, ResumeTraffic,
                  Finish, Fail, TypeOK
    <3>2. StartBackend(c) => pc[c] = "start" /\ (backend.up \/ started' = started + 1)
      BY DEF StartBackend, EnsureHealthy
    <3> QED
      BY <3>1, <3>2, <2>4 DEF Replacing
  <2>7. pc'[c] \in {"resume", "finish"} => pc[c] \in {"ready", "resume"}
    BY <1>4 DEF Proceed, Intent, Drain, Drained, StopBackend, StartBackend, WaitReady,
                ResumeTraffic, Finish, Fail, TypeOK
  <2> QED
    BY <2>2, <2>3, <2>4, <2>5, <2>6, <2>7, <2>8 DEF Replacing, BeforeStop
<1> QED
  BY <1>3, <1>4

\* So does each step around the sequencer.
LEMMA AroundReplacing ==
    ASSUME TypeOK, TypeOK', Replacing, [Next]_vars, Around
    PROVE  Replacing'
BY AroundOutside, OnlyNewer, WarmStartAssumption DEF Replacing, TypeOK

\* A sequence that resumes traffic has replaced the backend there was, unless that was up
\* when the sequence was asked for and BackendManager held neither job, nor command, nor
\* pid of it.
THEOREM WarmRestartReplaces == Spec => []Replaced
<1>1. Init => Replacing
  BY DEF Init, Replacing, BeforeStop
<1>2. SequenceInv /\ SequenceInv' /\ Replacing /\ [Next]_vars => Replacing'
  <2> SUFFICES ASSUME SequenceInv, SequenceInv', Replacing, [Next]_vars
               PROVE  Replacing'
    OBVIOUS
  <2>1. CASE UNCHANGED vars
    BY <2>1 DEF vars, run, process, Replacing
  <2> QED
    BY <2>1, NextCases, CallerReplacing, AroundReplacing DEF SequenceInv
<1>3. Replacing => Replaced
  BY DEF Replacing, Replaced
<1> QED
  BY <1>1, <1>2, <1>3, WarmRestartsSerial, PTL DEF Spec

------------------------------------------------------------------------------
(* The gate for traffic.                                                       *)

\* A sequence about to finish has opened the gate: finish itself changes nothing there.
Opened == \A c \in Callers : pc[c] = "finish" => snap.resumeTraffic

\* A step of the gate, or none.
GateStep == [Gate!GateNext]_(Gate!gate)

\* One more backend, or none, is all that EnsureHealthy is to the gate.
LEMMA EnsureHealthyGates ==
    ASSUME EnsureHealthy, UNCHANGED <<snap, asked>>
    PROVE  GateStep
<1>1. CASE backend.up
  BY <1>1 DEF EnsureHealthy, process, GateStep, Gate!gate
<1>2. CASE ~backend.up
  BY <1>2 DEF EnsureHealthy, GateStep, Gate!GateNext, Gate!Start
<1> QED
  BY <1>1, <1>2

\* Each step of a caller keeps Opened and is a step of the gate, or none.
LEMMA CallerGates ==
    ASSUME SequenceInv, Replaced, Opened, NEW c \in Callers, Begin(c) \/ Proceed(c)
    PROVE  Opened' /\ GateStep
<1>0. TypeOK /\ OneSequence /\ TrafficHeld
  BY DEF SequenceInv
<1>1. \A to : pc' = [pc EXCEPT ![c] = to] => pc'[c] = to /\ \A d \in Callers \ {c} : pc'[d] = pc[d]
  BY <1>0 DEF TypeOK
<1> USE DEF Goto, GateStep
<1>2. CASE Begin(c)
  <2>1. /\ ~snap.active /\ snap'.active = TRUE /\ snap'.resumeTraffic = FALSE
        /\ asked'.instance \in {0, started} /\ started' = started
    BY <1>0, <1>2, RequestTyped DEF Begin, process
  <2>2. Gate!Hold
    BY <2>1 DEF Gate!Hold
  <2>3. \A d \in Callers : pc[d] # "finish"
    BY <1>0, <2>1 DEF OneSequence, Inside, Labels
  <2> QED
    BY <1>1, <1>2, <2>2, <2>3 DEF Begin, Opened, Gate!GateNext
<1>3. CASE Intent(c) \/ Drain(c) \/ Drained(c) \/ StopBackend(c) \/ StartBackend(c) \/ WaitReady(c)
  <2>1. UNCHANGED snap /\ \E to : pc' = [pc EXCEPT ![c] = to] /\ to # "finish"
    BY <1>3 DEF Intent, Drain, Drained, StopBackend, StartBackend, WaitReady
  <2>2. Opened'
    BY <1>1, <2>1 DEF Opened
  <2>3. CASE StartBackend(c)
    BY <2>2, <2>3, EnsureHealthyGates DEF StartBackend
  <2>4. CASE Intent(c) \/ Drain(c) \/ Drained(c) \/ StopBackend(c) \/ WaitReady(c)
    <3>1. UNCHANGED <<snap, started, asked.instance>>
      BY <1>0, <2>4 DEF Intent, Drain, Drained, StopBackend, WaitReady, process, TypeOK
    <3> QED
      BY <2>2, <3>1 DEF Gate!gate
  <2> QED
    BY <1>3, <2>3, <2>4
<1>4. CASE ResumeTraffic(c)
  <2>1. snap.active = TRUE /\ snap.resumeTraffic = FALSE /\ started > asked.instance
    BY <1>0, <1>4 DEF ResumeTraffic, OneSequence, TrafficHeld, Replaced, Inside, Held, Labels, TypeOK
  <2>2. snap'.active = snap.active /\ snap'.resumeTraffic = TRUE
    BY <1>0, <1>4 DEF ResumeTraffic, TypeOK
  <2>3. Gate!Open
    BY <1>4, <2>1, <2>2 DEF ResumeTraffic, process, Gate!Open
  <2> QED
    BY <2>2, <2>3 DEF Opened, Gate!GateNext
<1>5. CASE Finish(c) \/ Fail(c)
  <2>1. /\ pc[c] \in Inside /\ pc' = [pc EXCEPT ![c] = "idle"]
        /\ UNCHANGED <<started, asked>>
    BY <1>5 DEF Finish, Fail, process, Inside, Labels
  <2>2. snap.active = TRUE
    BY <1>0, <2>1 DEF OneSequence, TypeOK
  <2>3. snap'.active = FALSE /\ snap'.resumeTraffic = snap.resumeTraffic
    <3>1. CASE Finish(c)
      BY <1>0, <3>1 DEF Finish, Opened, TypeOK
    <3>2. CASE Fail(c)
      BY <1>0, <3>2 DEF Fail, TypeOK
    <3> QED
      BY <1>5, <3>1, <3>2
  <2>4. Gate!End
    BY <2>1, <2>2, <2>3 DEF Gate!End
  <2>5. Opened'
    BY <1>1, <2>1, <2>3 DEF Opened
  <2> QED
    BY <2>4, <2>5 DEF Gate!GateNext
<1> QED
  BY <1>2, <1>3, <1>4, <1>5 DEF Proceed

\* So does each step around the sequencer.
LEMMA AroundGates ==
    ASSUME Opened, Around
    PROVE  Opened' /\ GateStep
<1>1. UNCHANGED <<snap, pc, asked>>
  BY AroundOutside
<1>2. UNCHANGED started \/ EnsureHealthy
  BY DEF Around, CommandBackend, KeepBackend, StopManaged, Learn, BeginRun, EndRun,
         SendHeartbeat, DeliverHeartbeat, LoseHeartbeat, Tick, process
<1>3. UNCHANGED started => GateStep
  BY <1>1 DEF GateStep, Gate!gate
<1> QED
  BY <1>1, <1>2, <1>3, EnsureHealthyGates DEF Opened

\* The sequencer implements the gate: traffic that was held is let through only by the one
\* sequence that held it, and to a backend that was started after that, unless the one
\* there was could not be stopped.
THEOREM WarmRestartKeepsGate == Spec => GateKept
<1>1. Init => Opened /\ Gate!GateInit
  BY DEF Init, Opened, Gate!GateInit
<1>2. SequenceInv /\ Replaced /\ Opened /\ [Next]_vars
        => Opened' /\ [Gate!GateNext]_(Gate!gate)
  <2> SUFFICES ASSUME SequenceInv, Replaced, Opened, [Next]_vars
               PROVE  Opened' /\ GateStep
    BY DEF GateStep
  <2>1. CASE UNCHANGED vars
    BY <2>1 DEF vars, run, process, Opened, GateStep, Gate!gate
  <2> QED
    BY <2>1, NextCases, CallerGates, AroundGates
<1> QED
  BY <1>1, <1>2, WarmRestartsSerial, WarmRestartReplaces, PTL DEF Spec, GateKept, Gate!GateSpec

------------------------------------------------------------------------------
(* Leases and epochs.                                                          *)

\* Only BumpEpoch and Ingest write the registry.
LEMMA RegistrySteps ==
    ASSUME [Next]_vars
    PROVE  \/ registry' = registry
           \/ registry' = BumpEpoch(registry)
           \/ UNCHANGED sent /\ \E m \in sent : registry' = Ingest(registry, m)
BY DEF Next, vars, CommandBackend, KeepBackend, StopManaged, Learn, BeginRun, EndRun,
       SendHeartbeat, DeliverHeartbeat, LoseHeartbeat, Tick, Begin, Proceed, Intent, Drain,
       Drained, StopBackend, StartBackend, WaitReady, ResumeTraffic, Finish, Fail

\* No backend that this watchdog started has heard of an epoch that is yet to come, when
\* it sent or now.
Heard ==
    /\ backend.knows <= registry.epoch \/ started = 1
    /\ \A m \in sent : /\ m.epoch <= m.at \/ m.instance = 1
                       /\ m.at <= registry.epoch

\* Each step keeps it.
LEMMA HeardStays ==
    ASSUME TypeOK, TypeOK', Heard, [Next]_vars
    PROVE  Heard'
<1>1. registry.epoch \in Nat /\ registry'.epoch \in Nat /\ registry'.epoch >= registry.epoch
  <2>1. registry.epoch \in Nat
    BY WarmStartAssumption DEF TypeOK
  <2>2. CASE registry' = BumpEpoch(registry)
    BY <2>1, <2>2 DEF BumpEpoch
  <2>3. CASE \E m \in sent : registry' = Ingest(registry, m)
    BY <2>1, <2>3, IngestTyped
  <2> QED
    BY <2>1, <2>2, <2>3, RegistrySteps
<1>2. /\ backend'.knows \in {backend.knows, 0, registry.epoch}
      /\ started' = started \/ backend'.knows = 0
  BY OnlyNewer
<1>3. \A m \in sent' :
        m \in sent \/ (m.epoch = backend.knows /\ m.at = registry.epoch /\ m.instance = started)
  BY DEF Next, vars, CommandBackend, KeepBackend, StopManaged, Learn, BeginRun, EndRun,
         SendHeartbeat, DeliverHeartbeat, LoseHeartbeat, Tick, Begin, Proceed, Intent, Drain,
         Drained, StopBackend, StartBackend, WaitReady, ResumeTraffic, Finish, Fail
<1>4. backend.knows \in Nat /\ backend'.knows \in Nat
  BY WarmStartAssumption DEF TypeOK
<1>5. \A m \in sent \cup sent' : m.at \in Nat
  BY WarmStartAssumption DEF TypeOK, Heartbeats
<1>6. \A m \in sent' : (m.epoch <= m.at \/ m.instance = 1) /\ m.at <= registry'.epoch
  BY <1>1, <1>3, <1>4, <1>5 DEF Heard
<1> QED
  BY <1>1, <1>2, <1>4, <1>6 DEF Heard

\* The epochs that have been heard of are past or current.
LEMMA HeardAlways == Spec => []Heard
<1>1. Init => Heard
  BY DEF Init, Heard, NewHeartbeatRegistry
<1>2. SequenceInv /\ SequenceInv' /\ Heard /\ [Next]_vars => Heard'
  BY HeardStays DEF SequenceInv
<1> QED
  BY <1>1, <1>2, WarmRestartsSerial, PTL DEF Spec

\* A restart intent revokes every heartbeat sent before it, however late and often
\* it is delivered, by the backends that this watchdog started.
THEOREM IntentRevokes == Spec => RevokedForGood
<1>1. SequenceInv /\ Heard /\ [Next]_vars =>
        [ registry'.lease # registry.lease /\ registry'.lease # NoLease =>
            \E m \in sent : /\ m.at = registry.epoch \/ m.instance = 1
                            /\ registry' = Ingest(registry, m) ]_vars
  <2> SUFFICES ASSUME TypeOK, Heard, [Next]_vars,
                      registry'.lease # registry.lease, registry'.lease # NoLease
               PROVE  \E m \in sent : /\ m.at = registry.epoch \/ m.instance = 1
                                      /\ registry' = Ingest(registry, m)
    BY DEF SequenceInv
  <2>1. registry' # registry /\ registry' # BumpEpoch(registry)
    BY DEF BumpEpoch
  <2>2. PICK m \in sent : registry' = Ingest(registry, m)
    BY <2>1, RegistrySteps
  <2>3. m.epoch = registry.epoch
    BY <2>1, <2>2 DEF Ingest, Refused
  <2>4. m.at \in Nat /\ registry.epoch \in Nat
    BY WarmStartAssumption DEF TypeOK, Heartbeats
  <2>5. m.at = registry.epoch \/ m.instance = 1
    BY <2>3, <2>4 DEF Heard
  <2> QED
    BY <2>2, <2>5
<1> QED
  BY <1>1, WarmRestartsSerial, HeardAlways, PTL DEF Spec, RevokedForGood

\* Within an epoch the lease stays with the instance that took it.
THEOREM LeaseStandsInEpoch == Spec => LeaseStands
<1>1. SequenceInv /\ [Next]_vars =>
        [ registry.lease # NoLease /\ registry'.epoch = registry.epoch =>
            registry'.lease.instance = registry.lease.instance ]_vars
  <2> SUFFICES ASSUME TypeOK, [Next]_vars,
                      registry.lease # NoLease, registry'.epoch = registry.epoch
               PROVE  registry'.lease.instance = registry.lease.instance
    BY DEF SequenceInv
  <2>1. registry.epoch \in Nat
    BY WarmStartAssumption DEF TypeOK
  <2>2. registry' # BumpEpoch(registry)
    BY <2>1 DEF BumpEpoch
  <2>3. CASE \E m \in sent : registry' = Ingest(registry, m)
    <3>1. PICK m \in sent : registry' = Ingest(registry, m)
      BY <2>3
    <3>2. CASE Refused(registry, m)
      BY <3>1, <3>2 DEF Ingest
    <3>3. CASE ~Refused(registry, m)
      BY <3>1, <3>3 DEF Ingest, Refused, TypeOK
    <3> QED
      BY <3>2, <3>3
  <2> QED
    BY <2>2, <2>3, RegistrySteps
<1> QED
  BY <1>1, WarmRestartsSerial, PTL DEF Spec, LeaseStands

=============================================================================
