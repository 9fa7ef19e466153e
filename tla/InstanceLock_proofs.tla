-------------------------- MODULE InstanceLock_proofs --------------------------
(* What the lock file guarantees, for any number of watchdogs and faults.       *)
EXTENDS InstanceLock, TLAPS

\* A goroutine that is to close the channel has used up one fault.
Budget == \A p \in Pids : stop[p].closers + left <= MaxFaults

\* Who handles the file while another one does has raced.
Seen == \A p, q \in Pids : at[p] \in Handling /\ at[q] \in Handling /\ p # q => p \in raced

\* While a watchdog serves that has raced with nobody, nobody else is past the test of
\* the process that holds the lock.
Undisturbed ==
    \A p, q \in Pids : Serves(p) /\ p \notin raced /\ p # q =>
        at[q] \notin {"remove", "truncate", "write", "unlink"}

\* Who writes without a race writes into an empty file.
Emptied == \A p \in Pids : at[p] = "write" /\ p \notin raced => lock = Torn

Handled == Seen /\ Undisturbed /\ Emptied /\ LockStands

LockInv == TypeOK /\ Budget /\ Handled

LEMMA InitLock == Init => LockInv
BY LockAssumption
   DEF Init, LockInv, TypeOK, Budget, Handled, Seen, Undisturbed, Emptied, LockStands, Running,
       Handling, Serves

------------------------------------------------------------------------------
(* The types.                                                                 *)

LEMMA EndsTyped ==
    ASSUME TypeOK, NEW p \in Pids, Ends(p)
    PROVE  /\ at' \in [Pids -> Handling \cup {"free", "alien", "serving"}]
           /\ stop' \in [Pids -> [closed : BOOLEAN, closers : 0 .. MaxFaults]]
           /\ raced' \in SUBSET Pids
           /\ \A q \in Pids : stop'[q] # Running => Serves(q)'
<1>1. Running \in [closed : BOOLEAN, closers : 0 .. MaxFaults]
  BY LockAssumption DEF Running
<1>2. stop' \in [Pids -> [closed : BOOLEAN, closers : 0 .. MaxFaults]]
  BY <1>1 DEF TypeOK, Ends
<1>3. stop'[p] = Running /\ \A q \in Pids \ {p} : stop'[q] = stop[q] /\ at'[q] = at[q]
  BY DEF TypeOK, Ends
<1> QED
  BY <1>2, <1>3 DEF TypeOK, Ends, Serves

LEMMA GoTyped ==
    ASSUME TypeOK, NEW p \in Pids, NEW from, NEW to \in Handling \cup {"free", "alien", "serving"},
           Go(p, from, to), UNCHANGED stop, from \in {"serving", "unlink"} => to \in {"serving", "unlink"}
    PROVE  /\ at' \in [Pids -> Handling \cup {"free", "alien", "serving"}]
           /\ \A q \in Pids : stop'[q] # Running => Serves(q)'
BY DEF TypeOK, Go, Serves

LEMMA NextTyped ==
    ASSUME TypeOK, Budget, NEW p \in Pids,
           \/ Start(p) \/ Proceeds(p) \/ WriteFails(p) \/ AskStop(p) \/ Crash(p)
           \/ AlienStarts(p) \/ AlienExits(p)
    PROVE  TypeOK' /\ Budget'
<1>0. /\ Fault => left' \in 0 .. MaxFaults /\ left' < left
      /\ left \in 0 .. MaxFaults /\ left \in Nat /\ MaxFaults \in Nat
  BY LockAssumption DEF TypeOK, Fault
<1>1. ASSUME NEW q \in Pids, Ends(q), left' \in 0 .. MaxFaults, left' <= left PROVE Budget'
  <2>1. stop'[q].closers = 0 /\ \A r \in Pids \ {q} : stop'[r] = stop[r]
    BY <1>1 DEF TypeOK, Ends, Running
  <2>2. \A r \in Pids : stop[r].closers \in Nat
    BY DEF TypeOK
  <2> QED
    BY <1>0, <1>1, <2>1, <2>2 DEF Budget
<1>2. ASSUME UNCHANGED stop, left' \in 0 .. MaxFaults, left' <= left PROVE Budget'
  BY <1>0, <1>2 DEF TypeOK, Budget
<1>3. CASE Start(p)
  <2>1. Go(p, "free", "exists") /\ raced' \in SUBSET Pids
    BY <1>3 DEF Start, Enters, Others, TypeOK
  <2> QED
    BY <1>0, <1>2, <1>3, <2>1, GoTyped DEF Start, TypeOK, Handling
<1>4. CASE Exists(p) \/ Remove(p) \/ Truncate(p) \/ Write(p) \/ AlienStarts(p) \/ AlienExits(p)
  <2>1. PICK from, to \in Handling \cup {"free", "alien", "serving"} :
          Go(p, from, to) /\ from \notin {"serving", "unlink"}
    BY <1>4 DEF Exists, Remove, Truncate, Write, AlienStarts, AlienExits, Handling
  <2>2. lock' \in Pids \cup {NoFile, Torn}
    BY <1>4 DEF Exists, Remove, Removes, Truncate, Write, AlienStarts, AlienExits, TypeOK
  <2>3. UNCHANGED <<stop, raced>> /\ left' \in 0 .. MaxFaults /\ left' <= left
    BY <1>0, <1>4 DEF Exists, Remove, Truncate, Write, AlienStarts, AlienExits, TypeOK
  <2> QED
    BY <1>2, <2>1, <2>2, <2>3, GoTyped DEF TypeOK
<1>5. CASE Ends(p) /\ lock' \in Pids \cup {NoFile, Torn} /\ left' \in 0 .. MaxFaults /\ left' <= left
  BY <1>1, <1>5, EndsTyped DEF TypeOK
<1>6. CASE Go(p, "read", "remove") /\ UNCHANGED <<lock, stop, raced, left>>
  BY <1>0, <1>2, <1>6, GoTyped DEF TypeOK, Handling
<1>7. CASE AskStop(p)
  <2>1. stop'[p] = [closed |-> stop[p].closed, closers |-> stop[p].closers + 1]
    BY <1>7 DEF AskStop, TypeOK
  <2>2. stop[p].closers + 1 + left' <= MaxFaults
    BY <1>7 DEF AskStop, Fault, Budget, TypeOK
  <2>3. stop'[p] \in [closed : BOOLEAN, closers : 0 .. MaxFaults] /\ stop'[p].closers + left' <= MaxFaults
    BY <1>0, <1>7, <2>1, <2>2 DEF AskStop, TypeOK
  <2>4. \A q \in Pids \ {p} : stop'[q] = stop[q]
    BY <1>7 DEF AskStop, TypeOK
  <2> QED
    BY <1>0, <1>7, <2>3, <2>4 DEF AskStop, TypeOK, Budget, Serves
<1>8. CASE CloseStop(p) /\ ~stop[p].closed
  <2>1. stop'[p] = [closed |-> TRUE, closers |-> stop[p].closers - 1] /\ stop[p].closers > 0
    BY <1>8 DEF CloseStop, TypeOK
  <2>2. stop'[p] \in [closed : BOOLEAN, closers : 0 .. MaxFaults] /\ stop'[p].closers + left <= MaxFaults
    BY <1>0, <2>1 DEF TypeOK, Budget
  <2>3. \A q \in Pids \ {p} : stop'[q] = stop[q]
    BY <1>8 DEF CloseStop, TypeOK
  <2> QED
    BY <1>0, <1>8, <2>2, <2>3 DEF CloseStop, TypeOK, Budget, Serves
<1>9. CASE Release(p) /\ lock = p
  <2>1. Go(p, "serving", "unlink") /\ UNCHANGED <<lock, stop, left>> /\ raced' \in SUBSET Pids
    BY <1>9 DEF Release, Enters, Others, TypeOK
  <2> QED
    BY <1>0, <1>2, <2>1, GoTyped DEF TypeOK, Handling
<1>10. CASE WriteFails(p) \/ Crash(p)
  BY <1>0, <1>5, <1>10 DEF WriteFails, Crash, TypeOK
<1>11. CASE Read(p)
  BY <1>0, <1>5, <1>6, <1>11 DEF Read, TypeOK
<1>12. CASE Unlink(p) \/ (CloseStop(p) /\ stop[p].closed) \/ (Release(p) /\ lock # p)
  BY <1>0, <1>5, <1>12 DEF Unlink, Removes, CloseStop, Release, TypeOK
<1> QED
  BY ONLY \/ Start(p) \/ Proceeds(p) \/ WriteFails(p) \/ AskStop(p) \/ Crash(p)
          \/ AlienStarts(p) \/ AlienExits(p),
          <1>3, <1>4, <1>7, <1>8, <1>9, <1>10, <1>11, <1>12
     DEF Proceeds

------------------------------------------------------------------------------
(* The lock.                                                                  *)

\* A process that ends takes nothing from the others but, at most, its own lock.
LEMMA EndsKeeps ==
    ASSUME LockInv, NEW p \in Pids, Ends(p),
           \A q \in Pids \ {p} : (Serves(q) \/ at[q] = "write") /\ q \notin raced => lock' = lock
    PROVE  Handled'
<1>1. /\ at'[p] = "free" /\ \A q \in Pids \ {p} : at'[q] = at[q]
      /\ raced' = raced \ {p}
  BY DEF Ends, LockInv, TypeOK
<1> QED
  BY <1>1 DEF LockInv, Handled, Seen, Undisturbed, Emptied, LockStands, Serves, Handling

\* A step of the handling that overlaps nobody's, or does not count.
LEMMA StartKeeps ==
    ASSUME LockInv, NEW p \in Pids, Start(p)
    PROVE  Handled'
<1>1. at'[p] = "exists" /\ \A q \in Pids \ {p} : at'[q] = at[q]
  BY DEF Start, Enters, Go, LockInv, TypeOK
<1>2. raced \subseteq raced' /\ (Others(p) # {} => Others(p) \cup {p} \subseteq raced')
  BY DEF Start, Enters
<1>3. lock' = lock
  BY DEF Start
<1> QED
  BY <1>1, <1>2, <1>3 DEF LockInv, Handled, Seen, Undisturbed, Emptied, LockStands, Serves, Handling, Others

LEMMA ReleaseKeeps ==
    ASSUME LockInv, NEW p \in Pids, Release(p), lock = p
    PROVE  Handled'
<1>0. p # NoFile /\ at[p] = "serving"
  BY LockAssumption DEF Release
<1>1. at'[p] = "unlink" /\ \A q \in Pids \ {p} : at'[q] = at[q]
  BY DEF Release, Enters, Go, LockInv, TypeOK
<1>2. raced \subseteq raced' /\ (Others(p) # {} => Others(p) \cup {p} \subseteq raced')
  BY DEF Release, Enters
<1>3. lock' = lock
  BY DEF Release
<1> QED
  BY <1>0, <1>1, <1>2, <1>3 DEF LockInv, Handled, Seen, Undisturbed, Emptied, LockStands, Serves, Handling, Others

\* The steps of acquireLock up to the test of the process change nothing for those that
\* serve, and who serves without a race is seen by the test.
LEMMA ReadKeeps ==
    ASSUME LockInv, NEW p \in Pids, Exists(p) \/ (Read(p) /\ ~Alive(lock))
    PROVE  Handled'
<1>1. PICK from \in {"exists", "read"}, to \in {"read", "remove", "truncate"} :
        /\ at[p] = from /\ at'[p] = to /\ (\A q \in Pids \ {p} : at'[q] = at[q])
        /\ UNCHANGED <<lock, raced>>
        /\ to = "read" \/ ~Alive(lock)
  BY LockAssumption DEF Exists, Read, Go, Alive, LockInv, TypeOK
<1>2. \A q \in Pids : Serves(q) /\ q \notin raced => Alive(lock)
  BY DEF LockInv, Handled, LockStands, Alive, Serves
<1> QED
  BY <1>1, <1>2 DEF LockInv, Handled, Seen, Undisturbed, Emptied, LockStands, Serves, Handling

\* The steps after it.
LEMMA WriteKeeps ==
    ASSUME LockInv, NEW p \in Pids, Remove(p) \/ Truncate(p) \/ Write(p)
    PROVE  Handled'
<1>1. /\ at[p] \in {"remove", "truncate", "write"} /\ \A q \in Pids \ {p} : at'[q] = at[q]
      /\ at'[p] \in {"truncate", "write", "serving"} /\ UNCHANGED raced
      /\ at'[p] = "serving" => Write(p) /\ at[p] = "write"
  BY DEF Remove, Truncate, Write, Go, LockInv, TypeOK
<1>2. \A q \in Pids \ {p} : Serves(q) => q \in raced
  BY <1>1 DEF LockInv, Handled, Undisturbed
<1>3. ASSUME at'[p] = "serving", p \notin raced
      PROVE  lock' = p /\ \A q \in Pids \ {p} : at[q] \notin Handling
  <2>1. \A q \in Pids \ {p} : at[q] \notin Handling
    BY <1>1, <1>3 DEF LockInv, Handled, Seen, Handling
  <2>2. lock = Torn
    BY <1>1, <1>3 DEF LockInv, Handled, Emptied
  <2> QED
    BY <1>1, <1>3, <2>1, <2>2, LockAssumption DEF Write
<1>4. at'[p] = "write" => lock' = Torn
  BY <1>1 DEF Remove, Truncate, Write, Go, LockInv, TypeOK
<1>5. \A q \in Pids \ {p} : at[q] = "write" => q \in raced
  BY <1>1 DEF LockInv, Handled, Seen, Handling
<1> QED
  BY <1>1, <1>2, <1>3, <1>4, <1>5
     DEF LockInv, Handled, Seen, Undisturbed, Emptied, LockStands, Serves, Handling

LEMMA NextLock == LockInv /\ [Next]_vars => LockInv'
<1> SUFFICES ASSUME LockInv, [Next]_vars PROVE LockInv'
  OBVIOUS
<1>1. CASE UNCHANGED vars
  BY <1>1 DEF vars, LockInv, TypeOK, Budget, Handled, Seen, Undisturbed, Emptied, LockStands, Serves
<1>2. CASE Next
  <2>1. PICK p \in Pids : \/ Start(p) \/ Proceeds(p) \/ WriteFails(p) \/ AskStop(p) \/ Crash(p)
                          \/ AlienStarts(p) \/ AlienExits(p)
    BY <1>2 DEF Next
  <2>2. TypeOK' /\ Budget'
    BY <2>1, NextTyped DEF LockInv
  <2> SUFFICES Handled'
    BY <2>2 DEF LockInv
  <2>3. CASE UNCHANGED <<at, raced, lock>>
    BY <2>3 DEF LockInv, Handled, Seen, Undisturbed, Emptied, LockStands, Serves
  <2>4. CASE AlienStarts(p) \/ AlienExits(p)
    <3>1. /\ at[p] \in {"free", "alien"} /\ at'[p] \in {"free", "alien"}
          /\ \A q \in Pids \ {p} : at'[q] = at[q]
      BY <2>4 DEF AlienStarts, AlienExits, Go, LockInv, TypeOK
    <3>2. UNCHANGED <<lock, raced>>
      BY <2>4 DEF AlienStarts, AlienExits
    <3> QED
      BY <3>1, <3>2 DEF LockInv, Handled, Seen, Undisturbed, Emptied, LockStands, Serves, Handling
  <2>5. CASE Ends(p) /\ lock' = lock
    BY <2>5, EndsKeeps
  <2>6. CASE Unlink(p)
    <3>1. \A q \in Pids \ {p} : Serves(q) \/ at[q] = "write" => q \in raced
      BY <2>6 DEF Unlink, LockInv, Handled, Seen, Undisturbed, Handling
    <3> QED
      BY <2>6, <3>1, EndsKeeps DEF Unlink
  <2> QED
    BY <2>1, <2>3, <2>4, <2>5, <2>6, StartKeeps, ReleaseKeeps, ReadKeeps, WriteKeeps
       DEF Proceeds, Read, WriteFails, AskStop, Crash, CloseStop, Release
<1> QED
  BY <1>1, <1>2

LEMMA LockInvariant == Spec => []LockInv
BY InitLock, NextLock, PTL DEF Spec

\* The types, and that a stop is asked only of a watchdog that has the lock.
THEOREM LockTyped == Spec => []TypeOK
<1>1. LockInv => TypeOK
  BY DEF LockInv
<1> QED
  BY <1>1, LockInvariant, PTL

\* A watchdog that raced with nobody serves under its own lock.
THEOREM LockStandsAlways == Spec => []LockStands
<1>1. LockInv => LockStands
  BY DEF LockInv, Handled
<1> QED
  BY <1>1, LockInvariant, PTL

\* Crashes, torn files, reused pids and stops never make a second watchdog: it takes
\* two that handle the lock at the same time.
THEOREM NoSecondWatchdog == Spec => []SoleUnlessRaced
<1>1. LockInv => SoleUnlessRaced
  BY DEF LockInv, Handled, LockStands, SoleUnlessRaced
<1> QED
  BY <1>1, LockInvariant, PTL
==============================================================================
