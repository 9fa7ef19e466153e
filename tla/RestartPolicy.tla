---------------------------- MODULE RestartPolicy ----------------------------
(* The crash-loop policy: how many failed recoveries fit in a sliding window, *)
(* how long to back off after each, and when recovery halts for the operator. *)
(*                                                                            *)
(* Instants are integers relative to the present: 0 is now, -3 is three ticks *)
(* ago, 2 is two ticks ahead. Older(at) is the same instant seen one tick     *)
(* later. Past stands for every instant too old to matter, and for Go's zero  *)
(* time.Time: no window reaches it and no backoff gate at Past is closed.     *)
EXTENDS Integers, FiniteSets

CONSTANTS
    MaxRestarts,     \* attempts inside Window that latch Failed
    Window,          \* sliding window, in ticks
    InitialBackoff,  \* first backoff, in ticks
    MaxBackoff,      \* cap of the backoff, in ticks; nothing keeps it above the first
    ResetAfter,      \* ticks of Ready after which failures are to be forgotten
    HalfRange,       \* a Duration is an integer in -HalfRange .. HalfRange - 1 (2^63 in Go)
    MaxStale,        \* bound: ticks a cycle may last after it read the clock
    MaxStreak        \* bound: attemptN is not counted beyond it

ASSUME PolicyAssumption ==
    /\ MaxRestarts \in Nat \ {0} /\ Window \in Nat \ {0}
    /\ InitialBackoff \in Nat \ {0} /\ MaxBackoff \in Nat \ {0} /\ ResetAfter \in Nat \ {0}
    /\ HalfRange \in Nat \ {0} /\ MaxStale \in Nat /\ MaxStreak \in Nat \ {0}

Past == -(MaxStale + Window)
\* The longest backoff: the second clamp lifts it to the first even above the cap.
Longest == IF MaxBackoff < InitialBackoff THEN InitialBackoff ELSE MaxBackoff
Instants == Past .. Longest
Older(at) == IF at = Past THEN Past ELSE at - 1

\* attempts numbers the failed recoveries that prune has not dropped and gives
\* each its instant. The code keeps them in a slice whose order nothing reads.
IsTracker(t) ==
    /\ t \in [ attempts : {t.attempts}, attemptN : 0 .. MaxStreak,
               nextAt : Instants, failed : BOOLEAN ]
    /\ t.attempts \in [DOMAIN t.attempts -> Instants]
    /\ DOMAIN t.attempts \subseteq Nat /\ IsFiniteSet(DOMAIN t.attempts)

AttemptCount(t) == Cardinality(DOMAIN t.attempts)

\* Mutant of Prune: compares with now, not with the start of the window.
PruneOlder(attempts, now) ==
    [i \in {j \in DOMAIN attempts : attempts[j] > now} |-> attempts[i]]

\* prune: keeps the attempts strictly inside the window that ends at now.
Prune(attempts, now) ==
    [i \in {j \in DOMAIN attempts : attempts[j] > now - Window} |-> attempts[i]]

\* append: the attempt takes a number that is not in use.
Appended(attempts, now) ==
    LET i == CHOOSE i \in 1 .. Cardinality(DOMAIN attempts) + 1 : i \notin DOMAIN attempts
    IN  [j \in DOMAIN attempts \cup {i} |-> IF j = i THEN now ELSE attempts[j]]

\* A Duration as Go's << leaves it.
Wrapped(x) == ((x + HalfRange) % (2 * HalfRange)) - HalfRange

\* Mutant of Backoff: a shift that wrapped is not clamped from below.
BackoffUnclamped(attemptN) ==
    LET shifted == Wrapped(InitialBackoff * 2^(attemptN - 1))
    IN  IF shifted > MaxBackoff THEN MaxBackoff ELSE shifted

\* InitialBackoff << (attemptN - 1), clamped from above and then from below.
Backoff(attemptN) ==
    LET shifted == Wrapped(InitialBackoff * 2^(attemptN - 1))
        capped  == IF shifted > MaxBackoff THEN MaxBackoff ELSE shifted
    IN  IF capped < InitialBackoff THEN InitialBackoff ELSE capped

------------------------------------------------------------------------------

NewRestartTracker ==
    [attempts |-> << >>, attemptN |-> 0, nextAt |-> Past, failed |-> FALSE]

CanAttempt(t, now) == ~t.failed /\ now >= t.nextAt

\* Mutant of RecordFailure: latches one attempt too late.
RecordFailureLate(t, now) ==
    LET attempts == Appended(Prune(t.attempts, now), now)
        attemptN == IF t.attemptN < MaxStreak THEN t.attemptN + 1 ELSE MaxStreak
    IN  [ attempts |-> attempts,
          attemptN |-> attemptN,
          nextAt   |-> now + Backoff(attemptN),
          failed   |-> t.failed \/ Cardinality(DOMAIN attempts) > MaxRestarts ]

RecordFailure(t, now) ==
    LET attempts == Appended(Prune(t.attempts, now), now)
        attemptN == IF t.attemptN < MaxStreak THEN t.attemptN + 1 ELSE MaxStreak
    IN  [ attempts |-> attempts,
          attemptN |-> attemptN,
          nextAt   |-> now + Backoff(attemptN),
          failed   |-> t.failed \/ Cardinality(DOMAIN attempts) >= MaxRestarts ]

\* ClearFailed; and MarkReady, whose own assignments cover every field that the
\* RecordSuccess it calls may reset (lastOK is read nowhere else): they wait for no
\* ResetAfter.
Cleared == NewRestartTracker

\* One tick passes: every instant the tracker holds is one tick older.
Aged(t) ==
    [ attempts |-> [i \in DOMAIN t.attempts |-> Older(t.attempts[i])],
      attemptN |-> t.attemptN,
      nextAt   |-> Older(t.nextAt),
      failed   |-> t.failed ]

==============================================================================
