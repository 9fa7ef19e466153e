----------------------------- MODULE TrafficGate -----------------------------
(* What a warm restart does to the traffic of the backend: restarts come one  *)
(* at a time, each closes the gate as it begins, and the gate is opened only  *)
(* by the restart that is on. Where the backend there was could be stopped,   *)
(* it is opened to one started after it was closed; the documents promise     *)
(* that without the condition. A restart that fails leaves the gate closed.   *)
(* Backends may be started, and by anybody, at any time.                      *)
EXTENDS Naturals

VARIABLES
    busy,           \* a warm restart is on
    open,           \* whether traffic may flow
    generation,     \* backends started so far
    since           \* the generation when the gate was last closed, 0 if that one was up
                    \* and could not be stopped

gate == <<busy, open, generation, since>>

GateInit == busy = FALSE /\ open = TRUE /\ since = generation

Hold ==
    /\ ~busy /\ busy' = TRUE
    /\ open' = FALSE /\ since' \in {0, generation}
    /\ UNCHANGED generation

Start == generation' = generation + 1 /\ UNCHANGED <<busy, open, since>>

Open ==
    /\ busy /\ ~open /\ generation > since
    /\ open' = TRUE
    /\ UNCHANGED <<busy, generation, since>>

End == busy /\ busy' = FALSE /\ UNCHANGED <<open, generation, since>>

GateNext == Hold \/ Start \/ Open \/ End

GateSpec == GateInit /\ [][GateNext]_gate
===============================================================================
