---------------------------- MODULE CircuitBreaker ----------------------------
(* The circuit breaker that RunCycle makes of the crash-loop policy, without   *)
(* cycles, clocks, probes or goroutines: recovery is attempted only while the  *)
(* breaker is closed, every attempt that fails is counted once, the breaker    *)
(* trips exactly when the budget is used up, and only a reset closes it again. *)
(* It is not quite the documented one. There, failures count until the backend *)
(* has been Ready for ResetAfter; here one healthy observation forgets them    *)
(* all (BecomeWell), which Watchdog's ForgottenWhenStable shows.               *)
EXTENDS Naturals

CONSTANT Budget     \* failures that trip the breaker

VARIABLES
    tripped,        \* recovery is halted
    failures,       \* failed attempts that still count
    stage           \* idle, trying (an attempt is under way) or well (recovered)

breaker == <<tripped, failures, stage>>

BreakerInit == tripped = FALSE /\ failures = 0 /\ stage = "idle"

Try ==
    /\ stage = "idle" /\ ~tripped
    /\ stage' = "trying"
    /\ UNCHANGED <<tripped, failures>>

\* Failures that are too old may be forgotten when a new one is counted.
FailAttempt ==
    /\ stage = "trying" /\ ~tripped
    /\ stage' = "idle"
    /\ failures' \in 1 .. failures + 1
    /\ tripped' = (failures' >= Budget)

Recover ==
    /\ stage = "trying"
    /\ stage' = "idle"
    /\ UNCHANGED <<tripped, failures>>

\* A backend that is seen healthy once, for however short a time, wipes the slate clean,
\* but does not close a tripped breaker.
BecomeWell ==
    /\ stage = "idle" /\ ~tripped
    /\ stage' = "well" /\ failures' = 0
    /\ UNCHANGED tripped

Rest ==
    /\ stage = "well"
    /\ stage' = "idle"
    /\ UNCHANGED <<tripped, failures>>

Reset == tripped' = FALSE /\ failures' = 0 /\ UNCHANGED stage

\* What recovery does by itself, none of which closes a tripped breaker.
Automatic == Try \/ FailAttempt \/ Recover \/ BecomeWell \/ Rest

BreakerNext == Automatic \/ Reset

BreakerSpec == BreakerInit /\ [][BreakerNext]_breaker
===============================================================================
