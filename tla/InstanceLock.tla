------------------------------ MODULE InstanceLock ------------------------------
(* How watchdogs are started and stopped: the lock file that is to keep a second *)
(* one from running, taken by main before it starts anything and released when   *)
(* the stop channel closes. A watchdog may die at any step, and its pid may be   *)
(* given to another program or to the next watchdog.                             *)
EXTENDS Naturals

CONSTANTS
    Pids,     \* the pids that watchdogs get
    NoFile,   \* there is no watchdog.lock
    Torn,     \* it holds no pid: it was truncated, or two writers mixed
    MaxFaults \* bound: failures, stop requests and pids reused in a behaviour

ASSUME LockAssumption == NoFile \notin Pids /\ Torn \notin Pids /\ NoFile # Torn /\ MaxFaults \in Nat

VARIABLES
    at,       \* what has each pid: nobody, another program, or a watchdog at that step
    lock,     \* watchdog.lock: NoFile, Torn, or the pid in it
    stop,     \* of each watchdog: whether the stop channel is closed, and how many
              \* goroutines have found it open and are to close it
    raced,    \* history: the watchdogs whose handling of the lock overlapped another's
    left      \* the faults there may still be

vars == <<at, lock, stop, raced, left>>

\* The steps between which another watchdog may handle the file.
Handling == {"exists", "read", "remove", "truncate", "write", "unlink"}

Running == [closed |-> FALSE, closers |-> 0]

Serves(p) == at[p] \in {"serving", "unlink"}

\* The types; stops are asked of watchdogs that have the lock.
TypeOK ==
    /\ at \in [Pids -> Handling \cup {"free", "alien", "serving"}]
    /\ lock \in Pids \cup {NoFile, Torn}
    /\ stop \in [Pids -> [closed : BOOLEAN, closers : 0 .. MaxFaults]]
    /\ raced \in SUBSET Pids
    /\ left \in 0 .. MaxFaults
    /\ \A p \in Pids : stop[p] # Running => Serves(p)

\* An earlier watchdog may have left its lock.
Init ==
    /\ at = [p \in Pids |-> "free"] /\ lock \in Pids \cup {NoFile, Torn}
    /\ stop = [p \in Pids |-> Running] /\ raced = {} /\ left = MaxFaults

Fault == left > 0 /\ left' = left - 1

Others(p) == {q \in Pids \ {p} : at[q] \in Handling}

Go(p, from, to) == at[p] = from /\ at' = [at EXCEPT ![p] = to]

\* From outside to a step that handles the lock.
Enters(p, from, to) ==
    /\ Go(p, from, to)
    /\ raced' = IF Others(p) = {} THEN raced ELSE raced \cup Others(p) \cup {p}

\* The process ends.
Ends(p) ==
    /\ at' = [at EXCEPT ![p] = "free"]
    /\ stop' = [stop EXCEPT ![p] = Running]
    /\ raced' = raced \ {p}

\* processAlive asks for any process with the pid.
Alive(p) == p \in Pids /\ at[p] # "free"

\* A file that another watchdog is writing cannot be removed; the error is ignored.
Removes(p) == lock' = IF \E q \in Pids \ {p} : at[q] = "write" THEN lock ELSE NoFile

-----------------------------------------------------------------------------
(* acquireLock.                                                               *)

Start(p) == Enters(p, "free", "exists") /\ UNCHANGED <<lock, stop, left>>

Exists(p) ==
    /\ Go(p, "exists", IF lock = NoFile THEN "truncate" ELSE "read")
    /\ UNCHANGED <<lock, stop, raced, left>>

\* Mutant of Read: a watchdog that holds the lock is not respected.
ReadIgnored(p) ==
    /\ Go(p, "read", "remove")
    /\ UNCHANGED <<lock, stop, raced, left>>

\* A second mutant of Read: a lock is respected without asking for the process.
ReadTrusted(p) ==
    /\ at[p] = "read"
    /\ IF lock \in Pids THEN Ends(p) ELSE Go(p, "read", "remove") /\ UNCHANGED <<stop, raced>>
    /\ UNCHANGED <<lock, left>>

\* Another process with the pid in the lock: this one exits.
Read(p) ==
    /\ at[p] = "read"
    /\ IF Alive(lock) THEN Ends(p) ELSE Go(p, "read", "remove") /\ UNCHANGED <<stop, raced>>
    /\ UNCHANGED <<lock, left>>

Remove(p) ==
    /\ Go(p, "remove", "truncate") /\ Removes(p)
    /\ UNCHANGED <<stop, raced, left>>

\* os.WriteFile opens and truncates, then writes.
Truncate(p) ==
    /\ Go(p, "truncate", "write") /\ lock' = Torn
    /\ UNCHANGED <<stop, raced, left>>

\* Over what another one has written since, a shorter text leaves a tail.
Write(p) ==
    /\ Go(p, "write", "serving")
    /\ \/ lock' = p
       \/ lock \in Pids /\ lock' = Torn
    /\ UNCHANGED <<stop, raced, left>>

WriteFails(p) ==
    /\ at[p] \in {"truncate", "write"} /\ Ends(p) /\ Fault
    /\ UNCHANGED lock

-----------------------------------------------------------------------------
(* The end.                                                                   *)

\* Mutant of AskStop: the server is up before the lock is taken.
AskStopEarly(p) ==
    /\ at[p] \notin {"free", "alien"} /\ ~stop[p].closed /\ Fault
    /\ stop' = [stop EXCEPT ![p].closers = @ + 1]
    /\ UNCHANGED <<at, lock, raced>>

\* handleStop: a goroutine tests the channel and closes it.
AskStop(p) ==
    /\ Serves(p) /\ ~stop[p].closed /\ Fault
    /\ stop' = [stop EXCEPT ![p].closers = @ + 1]
    /\ UNCHANGED <<at, lock, raced>>

\* Mutant of CloseStop: nobody closes the channel.
CloseStopForgotten(p) ==
    /\ Serves(p) /\ stop[p].closers > 0
    /\ stop' = [stop EXCEPT ![p].closers = @ - 1]
    /\ UNCHANGED <<at, raced, lock, left>>

\* Closed by another one since the test: the second close panics.
CloseStop(p) ==
    /\ Serves(p) /\ stop[p].closers > 0
    /\ IF stop[p].closed THEN Ends(p)
       ELSE /\ stop' = [stop EXCEPT ![p] = [closed |-> TRUE, closers |-> @.closers - 1]]
            /\ UNCHANGED <<at, raced>>
    /\ UNCHANGED <<lock, left>>

\* Mutant of Release: the lock is removed whoever wrote it.
ReleaseAny(p) ==
    /\ stop[p].closed /\ at[p] = "serving"
    /\ IF lock # NoFile THEN Enters(p, "serving", "unlink") /\ UNCHANGED stop ELSE Ends(p)
    /\ UNCHANGED <<lock, left>>

\* main returns: the deferred release removes the lock if it has the own pid.
Release(p) ==
    /\ stop[p].closed /\ at[p] = "serving"
    /\ IF lock = p THEN Enters(p, "serving", "unlink") /\ UNCHANGED stop ELSE Ends(p)
    /\ UNCHANGED <<lock, left>>

Unlink(p) ==
    /\ at[p] = "unlink" /\ Removes(p) /\ Ends(p)
    /\ UNCHANGED left

-----------------------------------------------------------------------------
(* The system.                                                                *)

Crash(p) ==
    /\ at[p] \notin {"free", "alien"} /\ Ends(p) /\ Fault
    /\ UNCHANGED lock

\* Another program gets the pid, and exits.
AlienStarts(p) == Go(p, "free", "alien") /\ Fault /\ UNCHANGED <<lock, stop, raced>>
AlienExits(p)  == Go(p, "alien", "free") /\ UNCHANGED <<lock, stop, raced, left>>

\* What a watchdog does by itself.
Proceeds(p) ==
    \/ Exists(p) \/ Read(p) \/ Remove(p) \/ Truncate(p) \/ Write(p)
    \/ CloseStop(p) \/ Release(p) \/ Unlink(p)

Next ==
    \E p \in Pids :
        \/ Start(p) \/ Proceeds(p) \/ WriteFails(p) \/ AskStop(p) \/ Crash(p)
        \/ AlienStarts(p) \/ AlienExits(p)

Spec == Init /\ [][Next]_vars

-----------------------------------------------------------------------------

\* Two watchdogs serve at once only if one of them handled the lock while another one
\* did: crashes, torn files, reused pids and stops alone never make a second one.
SoleUnlessRaced ==
    \A p, q \in Pids : Serves(p) /\ Serves(q) /\ p # q => p \in raced \/ q \in raced

\* A watchdog that raced with nobody serves under its own lock, so that every later
\* start sees it and only its own stop, or the next start after its crash, removes it.
LockStands == \A p \in Pids : Serves(p) /\ p \notin raced => lock = p

\* A process that is scheduled goes on. Whoever starts the watchdog starts it again,
\* and not always under the same pid.
Fairness == \A p \in Pids : WF_vars(Proceeds(p)) /\ WF_vars(Start(p))

FairSpec == Spec /\ Fairness

\* A stop that was asked for ends the watchdog, by main's return or by the panic of a
\* second one.
StopEnds == \A p \in Pids : stop[p].closers > 0 \/ stop[p].closed ~> ~Serves(p)

\* After the last fault a watchdog serves for good, whatever lock an earlier one left,
\* unless another program keeps the pid in it or starts keep overlapping.
Serving == \E p \in Pids : at[p] = "serving"
Spaced  == \A p, q \in Pids : at[p] \in Handling /\ at[q] \in Handling => p = q
TakesOver == <>[]Spaced /\ (\A p \in Pids : []<>(at[p] # "alien")) => <>[]Serving
===============================================================================
