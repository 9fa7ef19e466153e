------------------------- MODULE RestartPolicy_proofs -------------------------
(* What the tracker's operations return, for every value of the constants.     *)
EXTENDS RestartPolicy, FiniteSetTheorems, TLAPS

\* Whatever the streak and the width of the shift, the backoff is at least the initial
\* one, and at most the cap unless the initial one exceeds it, which no code excludes:
\* then every backoff is the initial one.
THEOREM BackoffBounds ==
    ASSUME NEW n \in Nat \ {0}
    PROVE  /\ Backoff(n) \in InitialBackoff .. Longest
           /\ InitialBackoff <= MaxBackoff => Backoff(n) <= MaxBackoff
           /\ InitialBackoff >= MaxBackoff => Backoff(n) = InitialBackoff
<1> DEFINE x == InitialBackoff * 2^(n - 1)
<1>1. x \in Int
  <2>1. n - 1 \in Nat
    OBVIOUS
  <2>2. 2^(n - 1) \in Int
    BY <2>1
  <2> QED
    BY <2>2, PolicyAssumption
<1> HIDE DEF x
<1>2. Wrapped(x) \in Int
  <2>1. 2 * HalfRange \in Int /\ 2 * HalfRange > 0 /\ x + HalfRange \in Int
    BY <1>1, PolicyAssumption
  <2>2. (x + HalfRange) % (2 * HalfRange) \in Int
    BY <2>1
  <2> QED
    BY <2>2, PolicyAssumption DEF Wrapped
<1>3. Backoff(n) = LET capped == IF Wrapped(x) > MaxBackoff THEN MaxBackoff ELSE Wrapped(x)
                   IN  IF capped < InitialBackoff THEN InitialBackoff ELSE capped
  BY DEF Backoff, x
<1> QED
  BY <1>2, <1>3, PolicyAssumption DEF Longest

\* Instants are integers, and ageing one leaves an instant.
LEMMA InstantFacts ==
    /\ Past \in Int /\ Past < -MaxStale /\ Past < 0
    /\ Past \in Instants /\ -MaxStale .. 0 \subseteq Instants
    /\ \A at \in Instants : Older(at) \in Instants
BY PolicyAssumption DEF Instants, Longest, Past, Older

\* A new tracker is well-formed and has no attempts.
LEMMA NewTrackerTyped ==
    IsTracker(NewRestartTracker) /\ AttemptCount(NewRestartTracker) = 0
BY InstantFacts, FS_EmptySet, PolicyAssumption
   DEF IsTracker, NewRestartTracker, AttemptCount

\* Some number in 1 .. n + 1 is not among n attempts.
LEMMA FreeNumber ==
    ASSUME NEW D, IsFiniteSet(D)
    PROVE  \E i \in 1 .. Cardinality(D) + 1 : i \notin D
<1>1. Cardinality(D) \in Nat
  BY FS_CardinalityType
<1>2. Cardinality(1 .. Cardinality(D) + 1) = Cardinality(D) + 1
  BY <1>1, FS_Interval
<1>3. ~(1 .. Cardinality(D) + 1 \subseteq D)
  BY <1>1, <1>2, FS_Subset
<1> QED
  BY <1>3

\* prune and append leave one attempt more than prune alone.
LEMMA PrunedAndAppended ==
    ASSUME NEW t, IsTracker(t), NEW at \in -MaxStale .. 0
    PROVE  LET a == Appended(Prune(t.attempts, at), at)
           IN  /\ a \in [DOMAIN a -> Instants]
               /\ DOMAIN a \subseteq Nat /\ IsFiniteSet(DOMAIN a)
               /\ Cardinality(DOMAIN a) \in Nat \ {0}
               /\ Cardinality(DOMAIN a) <= AttemptCount(t) + 1
<1> DEFINE D == DOMAIN t.attempts
           p == Prune(t.attempts, at)
           P == DOMAIN p
           i == CHOOSE i \in 1 .. Cardinality(P) + 1 : i \notin P
           a == Appended(p, at)
<1>1. D \subseteq Nat /\ IsFiniteSet(D) /\ t.attempts \in [D -> Instants]
  BY DEF IsTracker
<1>2. P \subseteq D /\ p = [j \in P |-> t.attempts[j]]
  BY DEF Prune
<1>3. IsFiniteSet(P) /\ Cardinality(P) \in Nat /\ Cardinality(P) <= Cardinality(D)
  BY <1>1, <1>2, FS_Subset, FS_CardinalityType
<1>4. i \in 1 .. Cardinality(P) + 1 /\ i \notin P
  BY <1>3, FreeNumber
<1> HIDE DEF P, p, D
<1>5. a = [j \in P \cup {i} |-> IF j = i THEN at ELSE p[j]]
  BY DEF Appended, P
<1> HIDE DEF i
<1>6. a \in [P \cup {i} -> Instants] /\ DOMAIN a = P \cup {i}
  <2>1. \A j \in P : p[j] \in Instants
    BY <1>1, <1>2
  <2>2. at \in Instants
    BY InstantFacts
  <2> QED
    BY <1>5, <2>1, <2>2
<1>7. IsFiniteSet(P \cup {i}) /\ Cardinality(P \cup {i}) = Cardinality(P) + 1
  BY <1>3, <1>4, FS_AddElement
<1>8. P \cup {i} \subseteq Nat
  BY <1>1, <1>2, <1>3, <1>4
<1>9. Cardinality(D) \in Nat
  BY <1>1, FS_CardinalityType
<1> QED
  BY <1>3, <1>6, <1>7, <1>8, <1>9 DEF AttemptCount, D, p

\* RecordFailure keeps the tracker well-formed, holds this attempt and at most one more than before,
\* never unlatches, and latches exactly when the budget is reached.
LEMMA RecordFailureFacts ==
    ASSUME NEW t, IsTracker(t), NEW at \in -MaxStale .. 0
    PROVE  LET r == RecordFailure(t, at)
           IN  /\ IsTracker(r)
               /\ AttemptCount(r) \in Nat \ {0} /\ AttemptCount(r) <= AttemptCount(t) + 1
               /\ r.failed = (t.failed \/ AttemptCount(r) >= MaxRestarts)
<1> DEFINE a == Appended(Prune(t.attempts, at), at)
           n == IF t.attemptN < MaxStreak THEN t.attemptN + 1 ELSE MaxStreak
           r == RecordFailure(t, at)
<1>1. r = [attempts |-> a, attemptN |-> n, nextAt |-> at + Backoff(n),
           failed |-> t.failed \/ Cardinality(DOMAIN a) >= MaxRestarts]
  BY DEF RecordFailure
<1>2. /\ a \in [DOMAIN a -> Instants] /\ DOMAIN a \subseteq Nat /\ IsFiniteSet(DOMAIN a)
      /\ Cardinality(DOMAIN a) \in Nat \ {0} /\ Cardinality(DOMAIN a) <= AttemptCount(t) + 1
  BY PrunedAndAppended
<1>3. n \in 0 .. MaxStreak /\ n \in Nat \ {0}
  BY PolicyAssumption DEF IsTracker
<1> HIDE DEF a, n
<1>4. at + Backoff(n) \in Instants
  BY <1>3, BackoffBounds, PolicyAssumption DEF Instants, Longest, Past
<1>5. AttemptCount(r) = Cardinality(DOMAIN a) /\ r.failed = (t.failed \/ AttemptCount(r) >= MaxRestarts)
  BY <1>1 DEF AttemptCount
<1>6. IsTracker(r)
  <2>1. t.failed \in BOOLEAN
    BY DEF IsTracker
  <2> QED
    BY <1>1, <1>2, <1>3, <1>4, <2>1 DEF IsTracker
<1> QED
  BY <1>2, <1>5, <1>6

\* Time ages the attempts and drops none.
LEMMA AgedFacts ==
    ASSUME NEW t, IsTracker(t)
    PROVE  /\ IsTracker(Aged(t)) /\ AttemptCount(Aged(t)) = AttemptCount(t)
           /\ Aged(t).failed = t.failed
<1> DEFINE a == [i \in DOMAIN t.attempts |-> Older(t.attempts[i])]
<1>1. Aged(t) = [attempts |-> a, attemptN |-> t.attemptN, nextAt |-> Older(t.nextAt),
                 failed |-> t.failed]
  BY DEF Aged
<1>2. /\ DOMAIN t.attempts \subseteq Nat /\ IsFiniteSet(DOMAIN t.attempts)
      /\ t.attempts \in [DOMAIN t.attempts -> Instants]
      /\ t.nextAt \in Instants /\ t.attemptN \in 0 .. MaxStreak /\ t.failed \in BOOLEAN
  BY DEF IsTracker
<1>3. a \in [DOMAIN t.attempts -> Instants] /\ DOMAIN a = DOMAIN t.attempts
  BY <1>2, InstantFacts
<1> HIDE DEF a
<1> QED
  BY <1>1, <1>2, <1>3, InstantFacts DEF IsTracker, AttemptCount

------------------------------------------------------------------------------
(* How far apart the attempts of a tracker are.                                *)

\* Any two attempts are the initial backoff apart (of instants at Past nothing is known).
Spaced(t) ==
    \A i, j \in DOMAIN t.attempts :
        LET earlier == t.attempts[i]
            later   == t.attempts[j]
        IN  i # j /\ Past < earlier /\ earlier <= later => earlier + InitialBackoff <= later

\* The next attempt is due no earlier than that after any of them.
GateAhead(t) ==
    \A i \in DOMAIN t.attempts :
        Past < t.attempts[i] => t.attempts[i] + InitialBackoff <= t.nextAt

LEMMA ClearedSpaced == Spaced(Cleared) /\ GateAhead(Cleared)
BY DEF Spaced, GateAhead, Cleared, NewRestartTracker

\* What RecordFailure leaves: the attempt it counts, and of the others only old ones.
LEMMA RecordFailureHolds ==
    ASSUME NEW t, IsTracker(t), NEW at \in -MaxStale .. 0
    PROVE  LET r == RecordFailure(t, at)
           IN  /\ \E i : \A j \in DOMAIN r.attempts :
                     \/ j = i /\ r.attempts[j] = at
                     \/ j # i /\ j \in DOMAIN t.attempts /\ r.attempts[j] = t.attempts[j]
               /\ at + InitialBackoff <= r.nextAt /\ r.nextAt \in Int
<1> DEFINE p == Prune(t.attempts, at)
           i == CHOOSE i \in 1 .. Cardinality(DOMAIN p) + 1 : i \notin DOMAIN p
           n == IF t.attemptN < MaxStreak THEN t.attemptN + 1 ELSE MaxStreak
           r == RecordFailure(t, at)
<1>1. r.attempts = Appended(p, at) /\ r.nextAt = at + Backoff(n)
  BY DEF RecordFailure
<1>2. Appended(p, at) = [j \in DOMAIN p \cup {i} |-> IF j = i THEN at ELSE p[j]]
  BY DEF Appended
<1>3. DOMAIN p \subseteq DOMAIN t.attempts /\ \A j \in DOMAIN p : p[j] = t.attempts[j]
  BY DEF Prune
<1>4. Backoff(n) \in InitialBackoff .. Longest
  <2>1. n \in Nat \ {0}
    BY PolicyAssumption DEF IsTracker
  <2> HIDE DEF n
  <2> QED
    BY <2>1, BackoffBounds
<1> HIDE DEF p, i, n, r
<1>5. \A j \in DOMAIN r.attempts :
        \/ j = i /\ r.attempts[j] = at
        \/ j # i /\ j \in DOMAIN t.attempts /\ r.attempts[j] = t.attempts[j]
  BY <1>1, <1>2, <1>3
<1>6. at + InitialBackoff <= r.nextAt /\ r.nextAt \in Int
  BY <1>1, <1>4, PolicyAssumption DEF Longest
<1> QED
  BY <1>5, <1>6 DEF r

\* A failure counted by a clock that has reached the gate is the backoff after all others.
LEMMA RecordFailureSpaces ==
    ASSUME NEW t, IsTracker(t), Spaced(t), GateAhead(t),
           NEW at \in -MaxStale .. 0, at >= t.nextAt
    PROVE  Spaced(RecordFailure(t, at)) /\ GateAhead(RecordFailure(t, at))
<1> DEFINE r == RecordFailure(t, at)
<1>1. /\ at + InitialBackoff <= r.nextAt /\ r.nextAt \in Int /\ Past < at
      /\ at \in Int /\ InitialBackoff \in Int /\ InitialBackoff > 0 /\ t.nextAt \in Int /\ Past \in Int
  BY RecordFailureHolds, PolicyAssumption, InstantFacts DEF IsTracker, Instants
<1>2. PICK i : \A j \in DOMAIN r.attempts :
                 \/ j = i /\ r.attempts[j] = at
                 \/ j # i /\ j \in DOMAIN t.attempts /\ r.attempts[j] = t.attempts[j]
  BY RecordFailureHolds
<1>3. \A j \in DOMAIN t.attempts :
        t.attempts[j] \in Int /\ (Past < t.attempts[j] => t.attempts[j] + InitialBackoff <= at)
  <2> TAKE j \in DOMAIN t.attempts
  <2>1. t.attempts[j] \in Int
    BY PolicyAssumption, InstantFacts DEF IsTracker, Instants
  <2> QED
    BY <1>1, <2>1 DEF GateAhead
<1> HIDE DEF r
<1>4. GateAhead(r)
  BY <1>1, <1>2, <1>3 DEF GateAhead
<1>5. Spaced(r)
  <2> SUFFICES ASSUME NEW j \in DOMAIN r.attempts, NEW k \in DOMAIN r.attempts, j # k,
                      Past < r.attempts[j], r.attempts[j] <= r.attempts[k]
               PROVE  r.attempts[j] + InitialBackoff <= r.attempts[k]
    BY DEF Spaced
  <2>1. CASE j = i
    BY <1>1, <1>2, <1>3, <2>1
  <2>2. CASE k = i
    BY <1>1, <1>2, <1>3, <2>2
  <2>3. CASE j # i /\ k # i
    BY <1>2, <2>3 DEF Spaced
  <2> QED
    BY <2>1, <2>2, <2>3
<1> QED
  BY <1>4, <1>5 DEF r

\* Time keeps them apart.
LEMMA AgedSpaced ==
    ASSUME NEW t, IsTracker(t), Spaced(t), GateAhead(t)
    PROVE  Spaced(Aged(t)) /\ GateAhead(Aged(t))
<1> DEFINE r == Aged(t)
<1>1. /\ DOMAIN r.attempts = DOMAIN t.attempts /\ r.nextAt = Older(t.nextAt)
      /\ \A i \in DOMAIN r.attempts : r.attempts[i] = Older(t.attempts[i])
  BY DEF Aged
<1>2. /\ t.nextAt \in Int /\ \A i \in DOMAIN t.attempts : t.attempts[i] \in Int
      /\ Past <= t.nextAt /\ \A i \in DOMAIN t.attempts : Past <= t.attempts[i]
      /\ Past \in Int /\ InitialBackoff \in Int /\ InitialBackoff > 0
  BY PolicyAssumption, InstantFacts DEF IsTracker, Instants
<1> HIDE DEF r
<1>3. GateAhead(r)
  BY <1>1, <1>2 DEF GateAhead, Older
<1>4. Spaced(r)
  <2> SUFFICES ASSUME NEW j \in DOMAIN r.attempts, NEW k \in DOMAIN r.attempts, j # k,
                      Past < r.attempts[j], r.attempts[j] <= r.attempts[k]
               PROVE  r.attempts[j] + InitialBackoff <= r.attempts[k]
    BY DEF Spaced
  <2>1. /\ Past < t.attempts[j] /\ r.attempts[j] = t.attempts[j] - 1
        /\ t.attempts[j] <= t.attempts[k] /\ r.attempts[k] = t.attempts[k] - 1
    BY <1>1, <1>2 DEF Older
  <2>2. t.attempts[j] + InitialBackoff <= t.attempts[k]
    BY <1>1, <2>1 DEF Spaced
  <2> QED
    BY <1>1, <1>2, <2>1, <2>2
<1> QED
  BY <1>3, <1>4 DEF r

==============================================================================
