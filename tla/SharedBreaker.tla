---------------------------- MODULE SharedBreaker ----------------------------
(* CircuitBreaker shared by any number of clients, none of whom waits for     *)
(* another: a client is admitted while the breaker is closed and, once        *)
(* inside, does not look at it again. It leaves with one failure, with one    *)
(* observation of health that forgets all failures, whoever has tripped the   *)
(* breaker in the meantime, or with neither.                                  *)
EXTENDS Naturals, FiniteSets

CONSTANTS
    Budget,         \* failures that trip the breaker
    Clients         \* who attempts recovery

VARIABLES
    tripped,        \* nobody is admitted
    failures,       \* failed attempts that still count
    inside          \* the clients admitted that have not left

shared == <<tripped, failures, inside>>

SharedInit == tripped = FALSE /\ failures = 0 /\ inside = {}

Admit(c) ==
    /\ ~tripped /\ inside' = inside \cup {c}
    /\ UNCHANGED <<tripped, failures>>

Leave(c) == c \in inside /\ inside' = inside \ {c}

GiveUp(c) == Leave(c) /\ UNCHANGED <<tripped, failures>>

\* Failures that are too old may be forgotten when a new one is counted.
Fail(c) ==
    /\ Leave(c)
    /\ failures' \in 1 .. failures + 1
    /\ tripped' = (tripped \/ failures' >= Budget)

\* The documents want health to last for ResetAfter first.
Succeed(c) == Leave(c) /\ tripped' = FALSE /\ failures' = 0

Reset == tripped' = FALSE /\ failures' = 0 /\ UNCHANGED inside

SharedNext ==
    \/ \E c \in Clients : Admit(c) \/ GiveUp(c) \/ Fail(c) \/ Succeed(c)
    \/ Reset

SharedSpec == SharedInit /\ [][SharedNext]_shared

\* The breaker trips when the budget is used up, and what it lets through after that
\* are the attempts of those inside.
Overrun ==
    /\ failures >= Budget => tripped
    /\ tripped => failures + Cardinality(inside) < Budget + Cardinality(Clients)
===============================================================================
