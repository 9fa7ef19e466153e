---------------------------- MODULE BackendManager ----------------------------
(* The backend manager: EnsureHealthy keeps one serve on the managed port and   *)
(* publishes its session token, while operators and warm restarts stop it or    *)
(* republish, other serves take the port, other tools write the manifest, and   *)
(* the watchdog itself dies and is started again.                               *)
(*                                                                              *)
(* spawnMu serialises the calls of EnsureHealthy and a call keeps nothing but   *)
(* the fields and the manifest for the next one: the call modelled is the one   *)
(* that holds the mutex. One step is what it does between two points where mu   *)
(* is free or something is asked of a process.                                  *)
EXTENDS Naturals

CONSTANTS
    Ids,        \* process ids; one may be given out again while only the manifest has it
    Tokens,     \* session tokens
    Foreign,    \* the token of the serves the watchdog did not start
    None,       \* no process, no token
    MaxDisturb  \* bound: failures and interferences in a behaviour

ASSUME BackendAssumption ==
    /\ Foreign \in Tokens /\ Tokens # {Foreign} /\ None \notin Ids /\ None \notin Tokens
    /\ MaxDisturb \in Nat

VARIABLES
    serve,      \* every serve process: dead, booting, hung (it holds the port but neither
                \* /ready nor /api/status answers), live (not /ready) or ready; whether the
                \* watchdog started it and has not tried to kill it yet
    bm,         \* the fields of BackendManager; port: whether it is set
    manifest,   \* desktop-backend.json, or NoManifest
    pc,         \* where the call is
    call,       \* its locals: the pid, the token it tries, the token a serve accepted
    around      \* whether a warm restart has its backend and is still to tell Desktop;
                \* the failures and interferences left

vars == <<serve, bm, manifest, pc, call, around>>

Dead       == [health |-> "dead", token |-> None, mine |-> FALSE]
Stopped    == [cmd |-> None, pid |-> None, port |-> FALSE, job |-> None]
NoManifest == [token |-> None, pid |-> None]
NoCall     == [own |-> None, token |-> None, accepted |-> None]

Labels ==
    {"idle", "take", "auth", "publish", "drift", "undrift", "fields", "republish", "stop", "look",
     "adopt", "adoptAuth", "adoptPublish", "evict", "zombie", "prefer", "spawn", "await",
     "verify", "refuse", "unrefuse", "announce"}

OnPort == {i \in Ids : serve[i].health \in {"hung", "live", "ready"}}

\* The types; a running serve has a token, and at most one holds the managed port.
TypeOK ==
    /\ serve \in [Ids -> [ health : {"dead", "booting", "hung", "live", "ready"},
                           token : Tokens \cup {None}, mine : BOOLEAN ]]
    /\ \A i \in Ids : serve[i].health = "dead" <=> serve[i].token = None
    /\ \A i, j \in OnPort : i = j
    /\ bm \in [ fields : [ cmd : Ids \cup {None}, pid : Ids \cup {None}, port : BOOLEAN,
                           job : Ids \cup {None} ], token : Tokens \cup {None} ]
    /\ manifest \in [token : Tokens \cup {None}, pid : Ids \cup {None}]
    /\ pc \in Labels
    /\ call \in [ own : Ids \cup {None}, token : Tokens \cup {None}, accepted : Tokens \cup {None} ]
    /\ around \in [due : BOOLEAN, left : 0 .. MaxDisturb]

\* An earlier watchdog, Desktop or somebody else may have left a serve and a manifest.
First == CHOOSE i \in Ids : TRUE
Old   == CHOOSE t \in Tokens : t # Foreign

Init ==
    /\ serve \in { [i \in Ids |-> IF i = First THEN s ELSE Dead] :
                   s \in {Dead} \cup [ health : {"booting", "hung", "live", "ready"},
                                      token : {Foreign}, mine : {FALSE} ] }
    /\ manifest \in [token : {Foreign, Old}, pid : Ids \cup {None}] \cup {NoManifest}
    /\ bm = [fields |-> Stopped, token |-> None]
    /\ pc = "idle" /\ call = NoCall /\ around = [due |-> FALSE, left |-> MaxDisturb]

-----------------------------------------------------------------------------
(* What EnsureHealthy asks of the processes.                                  *)

Alive(i) == i \in Ids /\ serve[i].health # "dead"

\* currentHealthy's /ready, quickBackendReady, testBackendAuth.
SeenReady  == \E i \in Ids : serve[i].health = "ready"
Answers    == \E i \in Ids : serve[i].health \in {"live", "ready"}
Accepts(t) == \E i \in Ids : serve[i].health \in {"live", "ready"} /\ serve[i].token = t /\ t # None

\* A failure of the system, or an interference: one of those there may be.
Misfortune(due) == around.left > 0 /\ around' = [due |-> due, left |-> around.left - 1]

Killed(S) == [i \in Ids |-> IF i \in S THEN Dead ELSE serve[i]]

\* stopLocked on these fields kills the job, else the process started, else the one
\* adopted. A job dies as a whole, but taskkill may give up on a process.
Victim(fields) ==
    IF fields.job # None THEN fields.job ELSE IF fields.cmd # None THEN fields.cmd ELSE fields.pid

KillsVictim(fields)  == serve' = Killed({Victim(fields)})
SparesVictim(fields) ==
    /\ fields.job = None /\ Alive(Victim(fields))
    /\ serve' = [serve EXCEPT ![Victim(fields)].mine = FALSE]

\* Mutant of Unset: the token is forgotten with the rest.
UnsetAll(token) == bm' = [fields |-> Stopped, token |-> None]

\* The token stays.
Unset(token) == bm' = [fields |-> Stopped, token |-> token]

StopLocked(fields, token) ==
    /\ Unset(token)
    /\ \/ KillsVictim(fields) /\ UNCHANGED around
       \/ SparesVictim(fields) /\ Misfortune(around.due)

\* waitManagedPortCleared succeeds, or not: whoever answers is seen to be still
\* there, a hung one only while netstat works.
PortCleared == serve' = Killed(OnPort) /\ UNCHANGED around
PortStays(seen) ==
    OnPort # {} /\ (Answers => seen) /\ UNCHANGED serve /\ Misfortune(around.due)

\* A generated token is one that nobody has. Bound: there is one.
Unspent == {t \in Tokens \ {Foreign} : /\ \A i \in Ids : serve[i].token # t
                                       /\ t \notin {bm.token, manifest.token, call.token}}
Fresh == CHOOSE t \in Unspent : TRUE

-----------------------------------------------------------------------------
(* EnsureHealthy, in the order of its statements.                             *)

Go(from, to) == pc = from /\ pc' = to
Return(from) == Go(from, "idle") /\ call' = NoCall

\* publishManifestLocked; the call thereby succeeds, written or not.
Publishes(token, pid) ==
    \/ manifest' = [token |-> token, pid |-> pid] /\ around' = [around EXCEPT !.due = TRUE]
    \/ UNCHANGED manifest /\ Misfortune(TRUE)

\* currentHealthy: the fields are read and the port is probed. A stop between the two
\* is a stop before or after both.
Begin ==
    /\ Go("idle", IF bm.fields.port /\ (bm.fields.pid # None => Alive(bm.fields.pid)) /\ SeenReady
                  THEN "take" ELSE "fields")
    /\ call' = [NoCall EXCEPT !.own = bm.fields.pid]
    /\ UNCHANGED <<serve, bm, manifest, around>>

\* The manifest's token goes before the one in memory.
Preferred == IF manifest.token # None THEN manifest.token ELSE bm.token

TakeToken ==
    /\ Go("take", "auth")
    /\ bm' = [bm EXCEPT !.token = Preferred]
    /\ call' = [call EXCEPT !.token = Preferred]
    /\ UNCHANGED <<serve, manifest, around>>

\* testBackendAuth at a label: on to yes or, the token refused, to no.
Ask(from, yes, no) ==
    /\ IF Accepts(call.token)
       THEN Go(from, yes) /\ call' = [call EXCEPT !.accepted = call.token]
       ELSE Go(from, no) /\ UNCHANGED call
    /\ UNCHANGED <<serve, bm, manifest, around>>

Auth == Ask("auth", "publish", "drift")

\* publishManifestLocked writes the token there is in memory by now.
Publish ==
    /\ Return("publish")
    /\ Publishes(bm.token, call.own)
    /\ UNCHANGED <<serve, bm>>

StopDrifted ==
    /\ Go("drift", "undrift")
    /\ StopLocked(bm.fields, bm.token)
    /\ UNCHANGED <<manifest, call>>

\* Whether the port was cleared is not looked at.
ClearDrifted ==
    /\ Go("undrift", "fields")
    /\ PortCleared \/ PortStays(TRUE)
    /\ UNCHANGED <<bm, manifest, call>>

\* A serve that the watchdog started, that is not Ready but answers and takes the token.
CheckFields ==
    LET kept == /\ bm.fields.cmd # None /\ bm.fields.port /\ Alive(bm.fields.pid)
                /\ Accepts(bm.token)
    IN  /\ Go("fields", IF kept THEN "republish" ELSE "stop")
        /\ call' = IF kept THEN [call EXCEPT !.token = bm.token, !.accepted = bm.token] ELSE call
        /\ UNCHANGED <<serve, bm, manifest, around>>

Republish ==
    /\ Return("republish")
    /\ Publishes(bm.token, bm.fields.pid)
    /\ UNCHANGED <<serve, bm>>

\* Mutant of StopStale: a serve that does not answer is not worth a kill.
StopStaleMissed ==
    /\ Go("stop", "look")
    /\ Unset(bm.token)
    /\ UNCHANGED <<serve, manifest, call, around>>

StopStale ==
    /\ Go("stop", "look")
    /\ StopLocked(bm.fields, bm.token)
    /\ UNCHANGED <<manifest, call>>

\* Mutant of LookAtPort: a listener that does not answer is left to the new serve.
LookAtPortAnswering ==
    /\ Go("look", IF Answers THEN "adopt" ELSE "prefer")
    /\ UNCHANGED <<serve, bm, manifest, call, around>>

\* Who is on the port. netstat may time out and show nobody.
LookAtPort ==
    /\ \/ Go("look", IF Answers THEN "adopt" ELSE IF OnPort # {} THEN "zombie" ELSE "prefer")
          /\ UNCHANGED around
       \/ OnPort # {} /\ ~Answers /\ Go("look", "prefer") /\ Misfortune(around.due)
    /\ UNCHANGED <<serve, bm, manifest, call>>

\* What the manifest says of the serve on the port becomes the watchdog's.
Adopt ==
    LET pid == IF Alive(manifest.pid) THEN manifest.pid ELSE bm.fields.pid
    IN  /\ Go("adopt", "adoptAuth")
        /\ bm' = [ fields |-> [bm.fields EXCEPT !.port = TRUE, !.pid = pid],
                   token |-> Preferred ]
        /\ call' = [call EXCEPT !.own = pid, !.token = Preferred]
        /\ UNCHANGED <<serve, manifest, around>>

AdoptAuth == Ask("adoptAuth", "adoptPublish", "evict")

\* Without a pid it is the listener's, if netstat shows one.
AdoptPublish ==
    \E pid \in IF call.own # None THEN {call.own} ELSE OnPort \cup {None} :
        /\ Return("adoptPublish")
        /\ bm' = [bm EXCEPT !.fields.pid = pid]
        /\ Publishes(bm.token, pid)
        /\ UNCHANGED serve

\* The occupant refused the token, or there is none to try: it is replaced.
Evict ==
    \/ /\ Go("evict", "prefer")
       /\ PortCleared \/ PortStays(FALSE)
       /\ bm' = [ fields |-> [bm.fields EXCEPT !.port = FALSE, !.pid = None], token |-> None ]
       /\ UNCHANGED <<manifest, call>>
    \/ /\ Return("evict")
       /\ PortStays(TRUE)
       /\ manifest' = NoManifest
       /\ UNCHANGED bm

ClearZombie ==
    \/ /\ Go("zombie", "prefer")
       /\ PortCleared \/ PortStays(FALSE)
       /\ UNCHANGED <<bm, manifest, call>>
    \/ /\ Return("zombie")
       /\ PortStays(TRUE)
       /\ manifest' = NoManifest
       /\ UNCHANGED bm

\* Mutant of PreferToken: with nothing to prefer none is generated.
PreferTokenBare ==
    /\ Go("prefer", "spawn")
    /\ call' = [call EXCEPT !.token = IF bm.token # None THEN bm.token ELSE manifest.token]
    /\ UNCHANGED <<serve, bm, manifest, around>>

\* buildServeCommand: the token in memory, else the manifest's, else a fresh one.
PreferToken ==
    /\ Go("prefer", "spawn") /\ Unspent # {}
    /\ call' = [call EXCEPT !.token = IF bm.token # None THEN bm.token
                                      ELSE IF manifest.token # None THEN manifest.token ELSE Fresh]
    /\ UNCHANGED <<serve, bm, manifest, around>>

\* What the call has started and not yet published.
InCall == {"await", "verify", "announce", "refuse"}
Started == IF pc \in InCall THEN {call.own} ELSE {}

Unused(i) == serve[i] = Dead /\ i \notin {bm.fields.cmd, bm.fields.pid, bm.fields.job} \cup Started

\* cmd.Start. The job may not be made; cmd and pid are not set yet.
Spawn ==
    /\ Go("spawn", "await")
    /\ \E i \in Ids :
        /\ Unused(i)
        /\ serve' = [serve EXCEPT ![i] = [health |-> "booting", token |-> call.token, mine |-> TRUE]]
        /\ call' = [call EXCEPT !.own = i]
        /\ \E job \in {i, None} : bm' = [bm EXCEPT !.fields.job = job]
    /\ UNCHANGED <<manifest, around>>

SpawnFails ==
    /\ Return("spawn") /\ Misfortune(around.due)
    /\ manifest' = NoManifest
    /\ UNCHANGED <<serve, bm>>

\* waitForReadyPort: whoever answers on the port will do.
AwaitReady ==
    /\ Go("await", "verify") /\ Answers
    /\ UNCHANGED <<serve, bm, manifest, call, around>>

Recorded == [bm.fields EXCEPT !.cmd = call.own, !.pid = call.own]

\* Mutant of GiveUp: what was started is not recorded before the stop.
GiveUpUnrecorded ==
    /\ Return("await") /\ ~Answers
    /\ IF serve[call.own].health = "booting"
       THEN KillsVictim(bm.fields) /\ Unset(bm.token) /\ Misfortune(around.due)
       ELSE StopLocked(bm.fields, bm.token)
    /\ manifest' = NoManifest

\* The process has exited, or both timeouts have passed; sooner or later the latter is
\* bad luck if it is still on its way.
GiveUp ==
    /\ Return("await") /\ ~Answers
    /\ IF serve[call.own].health = "booting"
       THEN /\ KillsVictim(Recorded) \/ SparesVictim(Recorded)
            /\ Unset(bm.token) /\ Misfortune(around.due)
       ELSE StopLocked(Recorded, bm.token)
    /\ manifest' = NoManifest

Verify == Ask("verify", "announce", "refuse")

Refuse ==
    /\ Go("refuse", "unrefuse")
    /\ StopLocked(Recorded, None)
    /\ manifest' = NoManifest
    /\ UNCHANGED call

ClearRefused ==
    /\ Return("unrefuse")
    /\ PortCleared \/ PortStays(TRUE)
    /\ UNCHANGED <<bm, manifest>>

Announce ==
    /\ Return("announce")
    /\ bm' = [fields |-> [Recorded EXCEPT !.port = TRUE], token |-> call.token]
    /\ Publishes(call.token, call.own)
    /\ UNCHANGED serve

\* The steps of a call that has begun.
EnsureHealthy ==
    \/ TakeToken \/ Auth \/ Publish \/ StopDrifted \/ ClearDrifted \/ CheckFields \/ Republish
    \/ StopStale \/ LookAtPort \/ Adopt \/ AdoptAuth \/ AdoptPublish \/ Evict \/ ClearZombie
    \/ PreferToken \/ Spawn \/ SpawnFails \/ AwaitReady \/ GiveUp \/ Verify \/ Refuse
    \/ ClearRefused \/ Announce

-----------------------------------------------------------------------------
(* Everybody else.                                                            *)

\* stop_backend, and the StopBackend hook of a warm restart: mu is enough.
Stop ==
    /\ KillsVictim(bm.fields) \/ SparesVictim(bm.fields)
    /\ Unset(bm.token)
    /\ UNCHANGED <<manifest, pc, call>>
    /\ Misfortune(around.due)

\* The NotifyDesktop hook, after a start that succeeded, without spawnMu: by now there
\* may be no token any more, and one is generated.
NotifyDesktop ==
    LET token == IF bm.token = None THEN Fresh ELSE bm.token
    IN  /\ around.due /\ Misfortune(FALSE) /\ Unspent # {}
        /\ bm' = [fields |-> [bm.fields EXCEPT !.port = TRUE], token |-> token]
        /\ manifest' \in {manifest, [token |-> token, pid |-> bm.fields.pid]}
        /\ UNCHANGED <<serve, pc, call>>

\* A process comes up, with or without /ready; the port taken, it exits.
Boot(i) ==
    /\ serve[i].health = "booting"
    /\ \E health \in {"live", "ready"} :
          serve' = IF OnPort = {} THEN [serve EXCEPT ![i].health = health] ELSE Killed({i})
    /\ UNCHANGED <<bm, manifest, pc, call, around>>

\* It dies, hangs, becomes or ceases to be ready.
ServeMoves(i) ==
    /\ \/ Alive(i) /\ serve' = Killed({i})
       \/ i \in OnPort /\ \E health \in {"hung", "live", "ready"} :
              serve' = [serve EXCEPT ![i].health = health]
    /\ UNCHANGED <<bm, manifest, pc, call>>
    /\ Misfortune(around.due)

\* Somebody else's serve comes up on the free port. Bound: an id is left.
Squat ==
    /\ OnPort = {} /\ \E i, j \in Ids : i # j /\ Unused(i) /\ Unused(j)
    /\ LET i == CHOOSE i \in Ids : Unused(i)
       IN  serve' = [serve EXCEPT ![i] = [health |-> "ready", token |-> Foreign, mine |-> FALSE]]
    /\ UNCHANGED <<bm, manifest, pc, call>>
    /\ Misfortune(around.due)

\* Desktop or other tooling writes or removes the manifest.
Rewrite ==
    /\ \/ manifest' = NoManifest
       \/ manifest' = [token |-> Foreign, pid |-> None]
       \/ \E i \in OnPort : manifest' = [token |-> serve[i].token, pid |-> i]
    /\ UNCHANGED <<serve, bm, pc, call>>
    /\ Misfortune(around.due)

\* The watchdog dies, with its job, and another one is started.
Restart ==
    /\ serve' = [i \in Ids |-> IF i = bm.fields.job THEN Dead ELSE [serve[i] EXCEPT !.mine = FALSE]]
    /\ bm' = [fields |-> Stopped, token |-> None]
    /\ pc' = "idle" /\ call' = NoCall /\ Misfortune(FALSE)
    /\ UNCHANGED manifest

Disturb ==
    \/ Stop \/ NotifyDesktop \/ Squat \/ Rewrite \/ Restart
    \/ \E i \in Ids : ServeMoves(i)

Next == Begin \/ EnsureHealthy \/ Disturb \/ \E i \in Ids : Boot(i)

Spec == Init /\ [][Next]_vars

-----------------------------------------------------------------------------

\* A token reaches Desktop only after a serve on the port accepted it in this very
\* call, whatever stops, restarts and rotations come between the test and the write.
PublishedVerified ==
    [][ EnsureHealthy /\ manifest' \notin {manifest, NoManifest} =>
          manifest'.token = call.accepted /\ call.accepted # None ]_vars

\* No serve the watchdog started is lost before it has tried to kill it: the job, the
\* fields or the call under way leads to it, or it holds the port, where the next call
\* finds it. Otherwise nobody would ever stop it.
Known == {bm.fields.job, bm.fields.cmd, bm.fields.pid} \cup OnPort \cup Started
NoOrphan == \A i \in Ids : serve[i].mine => i \in Known

\* Starts do not pile up: off the port there is at most one serve that the watchdog
\* started and has not tried to kill, however often starts fail, the port is lost and
\* operators stop what is under way.
OneStart == \A i, j \in Ids \ OnPort : serve[i].mine /\ serve[j].mine => i = j

\* A serve is not started with the token that the call saw refused: a token tried
\* before that point was.
FreshAfterRefusal == [][PreferToken => call.token = None \/ call'.token # call.token]_vars

\* A call that has begun goes on to its end, and a process that is booting comes up.
Fairness ==
    /\ WF_vars(EnsureHealthy)
    /\ \A i \in Ids : WF_vars(Boot(i))

FairSpec == Spec /\ Fairness

\* The serve on the port answers and takes the token that Desktop reads.
Served == Answers /\ Accepts(manifest.token)

\* When no more goes wrong and it is called again and again, EnsureHealthy arrives there
\* for good, whatever the port, the manifest and the fields hold.
Converges == []<><<Begin>>_vars => <>[]Served
===============================================================================
