-------------------------- MODULE HeartbeatRegistry --------------------------
(* The registry of leases, for one service: the current epoch, which every    *)
(* restart intent raises, and the last heartbeat accepted in it.              *)
EXTENDS Integers

\* The lease of nobody: no record in the map. Instances are numbered from 1.
NoLease == [instance |-> 0, epoch |-> 0, runs |-> 0]

NewHeartbeatRegistry == [epoch |-> 1, lease |-> NoLease]

\* A restart intent: the lease is revoked with the epoch it was taken in.
BumpEpoch(r) == [epoch |-> r.epoch + 1, lease |-> NoLease]

\* Mutants of Refused: the epoch, or the instance, is not compared.
RefusedByInstance(r, m) == r.lease # NoLease /\ m.instance # r.lease.instance
RefusedByEpoch(r, m) == m.epoch # r.epoch

\* A heartbeat of another epoch, or of another instance than the lease's: a process
\* that took over within the epoch is taken for a reuse of the pid.
Refused(r, m) ==
    \/ m.epoch # r.epoch
    \/ r.lease # NoLease /\ m.instance # r.lease.instance

Ingest(r, m) ==
    IF Refused(r, m) THEN r
    ELSE [r EXCEPT !.lease = [instance |-> m.instance, epoch |-> m.epoch, runs |-> m.runs]]

\* The runs last reported, however long ago; none if there is no lease.
LastActiveRuns(r) == r.lease.runs

=============================================================================
