------------------------- MODULE BackendManager_proofs -------------------------
(* What EnsureHealthy starts and publishes, for any number of processes, tokens,  *)
(* failures and interferences.                                                    *)
EXTENDS BackendManager, TLAPS

Health == {"dead", "booting", "hung", "live", "ready"}
Serves == [health : Health, token : Tokens \cup {None}, mine : BOOLEAN]

\* The part of TypeOK that is about the processes.
ServeOK ==
    /\ serve \in [Ids -> Serves]
    /\ \A i \in Ids : serve[i].health = "dead" <=> serve[i].token = None
    /\ \A i, j \in OnPort : i = j

Mine == {i \in Ids : serve[i].mine}

\* A step that starts nothing, takes no serve off the port alive and rids the watchdog
\* of the processes of S.
Rids(S) == ServeOK' /\ Mine' \subseteq Mine \ S /\ Mine' \cap OnPort \subseteq OnPort'

LEMMA DeadServe == Dead \in Serves /\ Dead.health = "dead" /\ Dead.token = None /\ ~Dead.mine
BY DEF Dead, Serves, Health

LEMMA KilledRids ==
    ASSUME NEW S, ServeOK, serve' = Killed(S)
    PROVE  Rids(S)
BY DeadServe DEF Rids, Mine, OnPort, Killed, ServeOK

LEMMA SparesRids ==
    ASSUME NEW f, ServeOK, SparesVictim(f)
    PROVE  Rids({Victim(f)})
<1> DEFINE v == Victim(f)
<1>1. v \in Ids /\ serve' = [serve EXCEPT ![v].mine = FALSE]
  BY DEF SparesVictim, Alive
<1> HIDE DEF v
<1>2. /\ serve' \in [Ids -> Serves]
      /\ \A i \in Ids : serve'[i].health = serve[i].health /\ serve'[i].token = serve[i].token
      /\ \A i \in Ids \ {v} : serve'[i] = serve[i]
      /\ serve'[v].mine = FALSE
  BY <1>1 DEF ServeOK, Serves
<1> QED
  BY <1>2 DEF Rids, Mine, OnPort, ServeOK, v

\* stopLocked forgets the process only after it has tried to kill it.
LEMMA StopRids ==
    ASSUME NEW f, ServeOK, KillsVictim(f) \/ SparesVictim(f)
    PROVE  Rids({Victim(f)})
BY KilledRids, SparesRids DEF KillsVictim

LEMMA IdleRids ==
    ASSUME ServeOK, UNCHANGED serve
    PROVE  Rids({})
BY DEF Rids, Mine, OnPort, ServeOK

LEMMA PortRids ==
    ASSUME NEW b, ServeOK, PortCleared \/ PortStays(b)
    PROVE  Rids({})
<1>1. CASE PortCleared
  <2>1. Rids(OnPort)
    BY <1>1, KilledRids DEF PortCleared
  <2> QED
    BY <2>1 DEF Rids
<1> QED
  BY <1>1, IdleRids DEF PortStays

\* What the processes do by themselves.
LEMMA BootRids ==
    ASSUME NEW i \in Ids, ServeOK, Boot(i)
    PROVE  Rids({})
<1>1. CASE serve' = Killed({i})
  <2>1. Rids({i})
    BY <1>1, KilledRids
  <2> QED
    BY <2>1 DEF Rids
<1>2. ASSUME NEW h \in {"live", "ready"}, OnPort = {}, serve' = [serve EXCEPT ![i].health = h]
      PROVE  Rids({})
  <2>1. /\ serve' \in [Ids -> Serves] /\ serve'[i].health = h
        /\ \A j \in Ids : serve'[j].mine = serve[j].mine /\ serve'[j].token = serve[j].token
        /\ \A j \in Ids \ {i} : serve'[j] = serve[j]
    BY <1>2 DEF ServeOK, Serves, Health
  <2>2. serve[i].health = "booting"
    BY DEF Boot
  <2> QED
    BY <1>2, <2>1, <2>2 DEF Rids, Mine, OnPort, ServeOK
<1> QED
  BY <1>1, <1>2 DEF Boot

LEMMA ServeMovesRids ==
    ASSUME NEW i \in Ids, ServeOK, ServeMoves(i)
    PROVE  Rids({})
<1>1. CASE serve' = Killed({i})
  <2>1. Rids({i})
    BY <1>1, KilledRids
  <2> QED
    BY <2>1 DEF Rids
<1>2. ASSUME NEW h \in {"hung", "live", "ready"}, i \in OnPort, serve' = [serve EXCEPT ![i].health = h]
      PROVE  Rids({})
  <2>1. /\ serve' \in [Ids -> Serves] /\ serve'[i].health = h
        /\ \A j \in Ids : serve'[j].mine = serve[j].mine /\ serve'[j].token = serve[j].token
        /\ \A j \in Ids \ {i} : serve'[j] = serve[j]
    BY <1>2 DEF ServeOK, Serves, Health
  <2> QED
    BY <1>2, <2>1 DEF Rids, Mine, OnPort, ServeOK
<1> QED
  BY <1>1, <1>2 DEF ServeMoves

LEMMA SquatRids ==
    ASSUME ServeOK, Squat
    PROVE  Rids({})
<1>1. \E j \in Ids : Unused(j)
  BY DEF Squat
<1>2. PICK j \in Ids : /\ serve[j] = Dead
                       /\ serve' = [serve EXCEPT ![j] = [health |-> "ready", token |-> Foreign,
                                                         mine |-> FALSE]]
  <2>1. Unused(CHOOSE j \in Ids : Unused(j)) /\ (CHOOSE j \in Ids : Unused(j)) \in Ids
    BY <1>1
  <2> QED
    BY <2>1 DEF Squat, Unused
<1>3. OnPort = {}
  BY DEF Squat
<1> QED
  BY <1>2, <1>3, BackendAssumption DEF Rids, Mine, OnPort, Dead, ServeOK, Serves, Health

------------------------------------------------------------------------------
(* The types.                                                                 *)

Pids == Ids \cup {None}
Held == Tokens \cup {None}
Fields == [cmd : Pids, pid : Pids, port : BOOLEAN, job : Pids]

Managers  == [fields : Fields, token : Held]
Manifests == [token : Held, pid : Pids]
Calls     == [own : Pids, token : Held, accepted : Held]
Arounds   == [due : BOOLEAN, left : 0 .. MaxDisturb]

RestOK ==
    bm \in Managers /\ manifest \in Manifests /\ pc \in Labels /\ call \in Calls /\ around \in Arounds

LEMMA TypeParts == TypeOK <=> ServeOK /\ RestOK
BY DEF TypeOK, ServeOK, RestOK, Serves, Health, Pids, Held, Fields, Managers, Manifests, Calls, Arounds

LEMMA Constants ==
    /\ Stopped \in Fields /\ NoManifest \in Manifests /\ NoCall \in Calls
    /\ \A f \in Fields, t \in Held : [fields |-> f, token |-> t] \in Managers
    /\ \A t \in Held, p \in Pids : [token |-> t, pid |-> p] \in Manifests
    /\ None \in Pids /\ None \in Held
BY DEF Stopped, NoManifest, NoCall, Fields, Managers, Manifests, Calls, Pids, Held

LEMMA PartsTyped ==
    ASSUME RestOK
    PROVE  /\ bm.fields \in Fields /\ bm.token \in Held
           /\ bm.fields.pid \in Pids /\ bm.fields.cmd \in Pids /\ bm.fields.job \in Pids
           /\ manifest.token \in Held /\ manifest.pid \in Pids
           /\ call.own \in Pids /\ call.token \in Held
           /\ Preferred \in Held
BY DEF RestOK, Managers, Manifests, Calls, Fields, Preferred

LEMMA InitTyped == Init => TypeOK
<1> SUFFICES ASSUME Init PROVE ServeOK /\ RestOK
  BY TypeParts
<1>1. Old \in Tokens
  BY BackendAssumption DEF Old
<1>2. RestOK
  <2>1. around \in Arounds
    BY BackendAssumption DEF Init, Arounds
  <2>2. manifest \in Manifests
    BY <1>1, BackendAssumption, Constants DEF Init, Manifests, Pids, Held
  <2> QED
    BY <2>1, <2>2, Constants DEF Init, RestOK, Labels
<1>3. PICK s : /\ serve = [i \in Ids |-> IF i = First THEN s ELSE Dead]
               /\ s \in {Dead} \cup [ health : {"booting", "hung", "live", "ready"},
                                     token : {Foreign}, mine : {FALSE} ]
  BY DEF Init
<1>4. s \in Serves /\ (s.health = "dead" <=> s.token = None)
  BY <1>3, DeadServe, BackendAssumption DEF Serves, Health
<1>5. ServeOK
  BY <1>3, <1>4, DeadServe DEF ServeOK, OnPort
<1> QED
  BY <1>2, <1>5

LEMMA MisfortuneTyped ==
    ASSUME RestOK, NEW due \in BOOLEAN, Misfortune(due)
    PROVE  around' \in Arounds
BY BackendAssumption DEF RestOK, Misfortune, Arounds

LEMMA StopTyped ==
    ASSUME RestOK, NEW f, NEW t \in Held, StopLocked(f, t)
    PROVE  bm' \in Managers /\ around' \in Arounds
<1>1. around.due \in BOOLEAN /\ around \in Arounds
  BY DEF RestOK, Arounds
<1> QED
  BY <1>1, MisfortuneTyped, Constants DEF StopLocked, Unset

LEMMA PortTyped ==
    ASSUME RestOK, NEW b, PortCleared \/ PortStays(b)
    PROVE  around' \in Arounds
<1>1. around.due \in BOOLEAN /\ around \in Arounds
  BY DEF RestOK, Arounds
<1> QED
  BY <1>1, MisfortuneTyped DEF PortCleared, PortStays

LEMMA PublishTyped ==
    ASSUME RestOK, NEW t \in Held, NEW p \in Pids, Publishes(t, p)
    PROVE  manifest' \in Manifests /\ around' \in Arounds
<1>1. CASE UNCHANGED manifest /\ Misfortune(TRUE)
  BY <1>1, MisfortuneTyped DEF RestOK
<1>2. CASE manifest' = [token |-> t, pid |-> p] /\ around' = [around EXCEPT !.due = TRUE]
  BY <1>2, Constants DEF RestOK, Arounds
<1> QED
  BY <1>1, <1>2 DEF Publishes

\* The call's own steps, without the processes.
LEMMA CallTyped ==
    ASSUME RestOK, Begin \/ EnsureHealthy
    PROVE  RestOK'
<1> USE DEF RestOK, Go, Return, Labels
<1>0. around.due \in BOOLEAN
  BY DEF Arounds
<1>1. CASE Begin
  <2>1. [NoCall EXCEPT !.own = bm.fields.pid] \in Calls
    BY PartsTyped, Constants DEF Calls
  <2> QED
    BY <1>1, <2>1 DEF Begin
<1>2. CASE TakeToken
  <2>1. [bm EXCEPT !.token = Preferred] \in Managers /\ [call EXCEPT !.token = Preferred] \in Calls
    BY PartsTyped DEF Managers, Calls
  <2> QED
    BY <1>2, <2>1 DEF TakeToken
<1>3. CASE CheckFields
  <2>1. [call EXCEPT !.token = bm.token, !.accepted = bm.token] \in Calls
    BY PartsTyped DEF Calls
  <2> QED
    BY <1>3, <2>1 DEF CheckFields
<1>4. CASE Auth \/ AdoptAuth \/ Verify
  <2>1. [call EXCEPT !.accepted = call.token] \in Calls
    BY PartsTyped DEF Calls
  <2> QED
    BY <1>4, <2>1 DEF Auth, AdoptAuth, Verify, Ask
<1>5. CASE Publish \/ Republish
  BY <1>5, PublishTyped, PartsTyped, Constants DEF Publish, Republish
<1>6. CASE StopDrifted \/ StopStale
  <2>1. bm' \in Managers /\ around' \in Arounds
    BY <1>6, StopTyped, PartsTyped DEF StopDrifted, StopStale
  <2> QED
    BY <1>6, <2>1 DEF StopDrifted, StopStale
<1>7. CASE ClearDrifted
  BY <1>7, PortTyped DEF ClearDrifted
<1>8. CASE ClearRefused
  BY <1>8, PortTyped, Constants DEF ClearRefused
<1>9. CASE LookAtPort \/ AwaitReady
  BY <1>0, <1>9, MisfortuneTyped DEF LookAtPort, AwaitReady
<1>10. CASE SpawnFails
  BY <1>0, <1>10, MisfortuneTyped, Constants DEF SpawnFails
<1>11. CASE Adopt
  <2>1. PICK pid \in Pids : /\ bm' = [ fields |-> [bm.fields EXCEPT !.port = TRUE, !.pid = pid],
                                       token |-> Preferred ]
                             /\ call' = [call EXCEPT !.own = pid, !.token = Preferred]
    BY <1>11, PartsTyped DEF Adopt
  <2>2. [bm.fields EXCEPT !.port = TRUE, !.pid = pid] \in Fields
    BY PartsTyped DEF Fields
  <2>3. [call EXCEPT !.own = pid, !.token = Preferred] \in Calls
    BY PartsTyped DEF Calls
  <2> QED
    BY <1>11, <2>1, <2>2, <2>3, PartsTyped, Constants DEF Adopt
<1>12. CASE AdoptPublish
  <2>1. PICK pid \in Pids : bm' = [bm EXCEPT !.fields.pid = pid] /\ Publishes(bm.token, pid)
    BY <1>12, PartsTyped, Constants DEF AdoptPublish, OnPort, Pids
  <2>2. [bm.fields EXCEPT !.pid = pid] \in Fields
    BY PartsTyped DEF Fields
  <2>3. bm' \in Managers
    BY <2>1, <2>2 DEF Managers
  <2> QED
    BY <1>12, <2>1, <2>3, PublishTyped, PartsTyped, Constants DEF AdoptPublish
<1>13. CASE Evict
  <2>1. around' \in Arounds
    BY <1>13, PortTyped DEF Evict
  <2>2. [bm.fields EXCEPT !.port = FALSE, !.pid = None] \in Fields
    BY PartsTyped, Constants DEF Fields
  <2>3. bm' \in Managers
    BY <1>13, <2>2, Constants DEF Evict
  <2> QED
    BY <1>13, <2>1, <2>3, Constants DEF Evict
<1>14. CASE ClearZombie
  <2>1. around' \in Arounds
    BY <1>14, PortTyped DEF ClearZombie
  <2> QED
    BY <1>14, <2>1, Constants DEF ClearZombie
<1>15. CASE PreferToken
  <2>1. Fresh \in Held
    BY <1>15 DEF PreferToken, Fresh, Unspent, Held
  <2>2. PICK t \in Held : call' = [call EXCEPT !.token = t]
    BY <1>15, <2>1, PartsTyped DEF PreferToken
  <2> QED
    BY <1>15, <2>2 DEF PreferToken, Calls
<1>16. CASE Spawn
  <2>1. PICK i \in Pids, job \in Pids : /\ call' = [call EXCEPT !.own = i]
                                         /\ bm' = [bm EXCEPT !.fields.job = job]
    BY <1>16 DEF Spawn, Pids
  <2>2. [bm.fields EXCEPT !.job = job] \in Fields
    BY PartsTyped DEF Fields
  <2>3. bm' \in Managers /\ call' \in Calls
    BY <2>1, <2>2 DEF Managers, Calls
  <2> QED
    BY <1>16, <2>3 DEF Spawn
<1>17. CASE GiveUp
  <2>1. around' \in Arounds /\ bm' = [fields |-> Stopped, token |-> bm.token]
    BY <1>0, <1>17, MisfortuneTyped DEF GiveUp, StopLocked, Unset
  <2> QED
    BY <1>17, <2>1, PartsTyped, Constants DEF GiveUp
<1>18. CASE Refuse
  <2>1. bm' \in Managers /\ around' \in Arounds
    BY <1>18, StopTyped, Constants DEF Refuse
  <2> QED
    BY <1>18, <2>1, Constants DEF Refuse
<1>19. CASE Announce
  <2>1. [Recorded EXCEPT !.port = TRUE] \in Fields
    BY PartsTyped DEF Recorded, Fields
  <2> QED
    BY <1>19, <2>1, PublishTyped, PartsTyped, Constants DEF Announce
<1> QED
  BY ONLY Begin \/ EnsureHealthy, <1>1, <1>2, <1>3, <1>4, <1>5, <1>6, <1>7, <1>8, <1>9, <1>10, <1>11,
          <1>12, <1>13, <1>14, <1>15, <1>16, <1>17, <1>18, <1>19
     DEF EnsureHealthy

LEMMA DisturbTyped ==
    ASSUME ServeOK, RestOK, Disturb \/ \E i \in Ids : Boot(i)
    PROVE  RestOK'
<1> USE DEF RestOK
<1>0. around.due \in BOOLEAN /\ Old \in Tokens
  BY BackendAssumption DEF Arounds, Old
<1>1. CASE Stop
  BY <1>0, <1>1, MisfortuneTyped, PartsTyped, Constants DEF Stop, Unset
<1>2. CASE NotifyDesktop
  <2>1. PICK t \in Held : /\ bm' = [fields |-> [bm.fields EXCEPT !.port = TRUE], token |-> t]
                          /\ manifest' \in {manifest, [token |-> t, pid |-> bm.fields.pid]}
    BY <1>2, PartsTyped DEF NotifyDesktop, Fresh, Unspent, Held
  <2>2. [bm.fields EXCEPT !.port = TRUE] \in Fields
    BY PartsTyped DEF Fields
  <2> QED
    BY <1>2, <2>1, <2>2, MisfortuneTyped, PartsTyped, Constants DEF NotifyDesktop
<1>3. CASE Squat \/ \E i \in Ids : ServeMoves(i)
  BY <1>0, <1>3, MisfortuneTyped DEF Squat, ServeMoves
<1>4. CASE \E i \in Ids : Boot(i)
  BY <1>4 DEF Boot
<1>5. CASE Restart
  BY <1>5, MisfortuneTyped, Constants DEF Restart, Labels
<1>6. CASE Rewrite
  <2>1. \A i \in OnPort : i \in Pids /\ serve[i].token \in Held
    BY DEF ServeOK, Serves, OnPort, Pids, Held
  <2>2. Foreign \in Held
    BY BackendAssumption DEF Held
  <2>3. manifest' \in Manifests
    BY <1>6, <2>1, <2>2, Constants DEF Rewrite
  <2> QED
    BY <1>0, <1>6, <2>3, MisfortuneTyped DEF Rewrite
<1> QED
  BY <1>1, <1>2, <1>3, <1>4, <1>5, <1>6 DEF Disturb

------------------------------------------------------------------------------
(* What becomes of the processes.                                             *)

\* The labels at which stopLocked has been called and nothing has been started since.
Cleared == {"look", "adopt", "adoptAuth", "adoptPublish", "evict", "zombie", "prefer", "spawn"}

\* Where each serve is that the watchdog started: on the port, in the fields as what
\* stopLocked kills, or in the call as what it has just started.
Traced ==
    /\ pc \in Cleared => Mine \subseteq OnPort
    /\ pc \in InCall => /\ call.own \in Ids /\ bm.fields.job \in {None, call.own}
                        /\ Mine \subseteq OnPort \cup {call.own}
    /\ pc \notin InCall => Mine \subseteq OnPort \cup {Victim(bm.fields)}

\* A serve is started with a token.
Tokened == pc = "spawn" => call.token # None

\* The token that a serve accepted is still the one in memory.
Vetted ==
    /\ pc \in {"auth", "publish", "republish", "adoptAuth", "adoptPublish"} /\ call.token # None =>
         bm.token = call.token
    /\ pc \in {"publish", "republish", "adoptPublish", "announce"} =>
         call.accepted = call.token /\ call.token # None

BackendInv == ServeOK /\ RestOK /\ Traced /\ Tokened /\ Vetted

LEMMA InitInv == Init => BackendInv
<1> SUFFICES ASSUME Init PROVE BackendInv
  OBVIOUS
<1>1. ServeOK /\ RestOK
  BY InitTyped, TypeParts
<1>2. Mine = {}
  <2>1. PICK s : /\ serve = [i \in Ids |-> IF i = First THEN s ELSE Dead]
                 /\ s \in {Dead} \cup [ health : {"booting", "hung", "live", "ready"},
                                       token : {Foreign}, mine : {FALSE} ]
    BY DEF Init
  <2>2. ~s.mine
    BY <2>1, DeadServe
  <2> QED
    BY <2>1, <2>2, DeadServe DEF Mine
<1>3. pc = "idle"
  BY DEF Init
<1> QED
  BY <1>1, <1>2, <1>3 DEF BackendInv, Traced, Tokened, Vetted, Cleared, InCall

\* The serve of the call under way is what stopLocked kills once it is recorded.
LEMMA RecordedVictim ==
    ASSUME RestOK, Traced, pc \in InCall
    PROVE  Victim(Recorded) = call.own
BY BackendAssumption, PartsTyped DEF Traced, Recorded, Victim, RestOK, Managers, Fields

\* A call's step that starts nothing: it rids the watchdog of what it no longer knows.
LEMMA CallTraced ==
    ASSUME BackendInv, Begin \/ EnsureHealthy, ~Spawn
    PROVE  ServeOK' /\ Traced'
<1> USE DEF BackendInv, Go, Return, Cleared, InCall
<1>1. CASE Begin \/ TakeToken \/ Auth \/ Publish \/ CheckFields \/ Republish
  <2>1. Rids({})
    BY <1>1, IdleRids DEF Begin, TakeToken, Auth, Ask, Publish, CheckFields, Republish
  <2>2. Victim(bm'.fields) = Victim(bm.fields)
    BY <1>1 DEF RestOK, Managers, Begin, TakeToken, Auth, Ask, Publish, CheckFields, Republish
  <2>3. pc \notin Cleared \cup InCall /\ pc' \notin Cleared \cup InCall
    BY <1>1 DEF Begin, TakeToken, Auth, Ask, Publish, CheckFields, Republish
  <2> QED
    BY <2>1, <2>2, <2>3 DEF Rids, Traced
<1>2. CASE StopDrifted \/ StopStale
  <2>1. Rids({Victim(bm.fields)})
    BY <1>2, StopRids DEF StopDrifted, StopStale, StopLocked
  <2>2. pc \notin InCall /\ pc' \notin InCall
    BY <1>2 DEF StopDrifted, StopStale
  <2> QED
    BY <2>1, <2>2 DEF Rids, Traced
<1>3. CASE ClearDrifted \/ ClearRefused
  <2>1. Rids({})
    BY <1>3, PortRids DEF ClearDrifted, ClearRefused
  <2>2. bm' = bm /\ pc \notin Cleared \cup InCall /\ pc' \notin Cleared \cup InCall
    BY <1>3 DEF ClearDrifted, ClearRefused
  <2> QED
    BY <2>1, <2>2 DEF Rids, Traced
<1>4. CASE LookAtPort \/ Adopt \/ AdoptAuth \/ AdoptPublish \/ Evict \/ ClearZombie \/ PreferToken \/ SpawnFails
  <2>1. Rids({})
    BY <1>4, IdleRids, PortRids
       DEF LookAtPort, Adopt, AdoptAuth, Ask, AdoptPublish, Evict, ClearZombie, PreferToken,
           SpawnFails, PortStays
  <2>2. pc \in Cleared /\ pc' \notin InCall
    BY <1>4 DEF LookAtPort, Adopt, AdoptAuth, Ask, AdoptPublish, Evict, ClearZombie, PreferToken, SpawnFails
  <2> QED
    BY <2>1, <2>2 DEF Rids, Traced
<1>5. CASE AwaitReady \/ Verify
  <2>1. Rids({})
    BY <1>5, IdleRids DEF AwaitReady, Verify, Ask
  <2>2. bm' = bm /\ call'.own = call.own /\ pc \in InCall /\ pc' \in InCall
    BY <1>5 DEF AwaitReady, Verify, Ask, RestOK, Calls
  <2> QED
    BY <2>1, <2>2 DEF Rids, Traced
<1>6. CASE GiveUp \/ Refuse
  <2>1. pc \in InCall /\ pc' \notin Cleared \cup InCall
    BY <1>6 DEF GiveUp, Refuse
  <2>2. Rids({Victim(Recorded)})
    BY <1>6, StopRids DEF GiveUp, Refuse, StopLocked
  <2> QED
    BY <2>1, <2>2, RecordedVictim DEF Rids, Traced
<1>7. CASE Announce
  <2>1. Rids({}) /\ pc \in InCall /\ pc' \notin Cleared \cup InCall
    BY <1>7, IdleRids DEF Announce
  <2>2. Victim(bm'.fields) = call.own
    <3>1. Victim([Recorded EXCEPT !.port = TRUE]) = Victim(Recorded)
      BY PartsTyped DEF Victim, Recorded, Fields
    <3> QED
      BY <1>7, <2>1, <3>1, RecordedVictim DEF Announce
  <2> QED
    BY <2>1, <2>2 DEF Rids, Traced
<1> QED
  BY ONLY Begin \/ EnsureHealthy, ~Spawn, <1>1, <1>2, <1>3, <1>4, <1>5, <1>6, <1>7 DEF EnsureHealthy

\* What is started is the call's until it is published or killed.
LEMMA SpawnTraced ==
    ASSUME BackendInv, Spawn
    PROVE  ServeOK' /\ Traced'
<1> USE DEF BackendInv
<1>1. PICK i \in Ids :
        /\ serve[i] = Dead
        /\ serve' = [serve EXCEPT ![i] = [health |-> "booting", token |-> call.token, mine |-> TRUE]]
        /\ call' = [call EXCEPT !.own = i]
        /\ \E job \in {i, None} : bm' = [bm EXCEPT !.fields.job = job]
  BY DEF Spawn, Unused
<1>2. call.token \in Tokens
  BY PartsTyped DEF Tokened, Spawn, Go, Held
<1>3. pc = "spawn" /\ pc' = "await" /\ call'.own = i
  BY <1>1 DEF Spawn, Go, RestOK, Calls
<1>4. /\ serve'[i] = [health |-> "booting", token |-> call.token, mine |-> TRUE]
      /\ \A j \in Ids \ {i} : serve'[j] = serve[j]
      /\ serve' \in [Ids -> Serves]
  BY <1>1, <1>2 DEF ServeOK, Serves, Health
<1>5. OnPort' = OnPort /\ Mine' = Mine \cup {i}
  BY <1>1, <1>4 DEF OnPort, Mine, Dead
<1>6. ServeOK'
  BY <1>2, <1>4, <1>5, BackendAssumption DEF ServeOK
<1>7. bm'.fields.job \in {None, i}
  BY <1>1 DEF RestOK, Managers, Fields
<1> QED
  BY <1>3, <1>5, <1>6, <1>7 DEF Traced, Cleared, InCall

LEMMA DisturbTraced ==
    ASSUME BackendInv, Disturb \/ \E i \in Ids : Boot(i)
    PROVE  ServeOK' /\ Traced'
<1> USE DEF BackendInv
<1>1. CASE NotifyDesktop \/ Squat \/ Rewrite \/ (\E i \in Ids : ServeMoves(i)) \/ \E i \in Ids : Boot(i)
  <2>1. Rids({})
    BY <1>1, IdleRids, SquatRids, ServeMovesRids, BootRids DEF NotifyDesktop, Rewrite
  <2>2. pc' = pc /\ call' = call
    BY <1>1 DEF NotifyDesktop, Squat, Rewrite, ServeMoves, Boot
  <2>3. Victim(bm'.fields) = Victim(bm.fields) /\ bm'.fields.job = bm.fields.job
    <3>1. CASE bm' = bm
      BY <3>1
    <3>2. CASE bm'.fields = [bm.fields EXCEPT !.port = TRUE]
      BY <3>2, PartsTyped DEF Victim, Fields
    <3>3. NotifyDesktop => bm'.fields = [bm.fields EXCEPT !.port = TRUE]
      BY DEF NotifyDesktop
    <3>4. NotifyDesktop \/ bm' = bm
      BY <1>1 DEF Squat, Rewrite, ServeMoves, Boot
    <3> QED
      BY <3>1, <3>2, <3>3, <3>4
  <2> QED
    BY <2>1, <2>2, <2>3 DEF Rids, Traced
<1>2. CASE Stop
  <2>1. Rids({Victim(bm.fields)})
    BY <1>2, StopRids DEF Stop
  <2>2. pc' = pc /\ call' = call /\ bm'.fields.job = None
    BY <1>2 DEF Stop, Unset, Stopped
  <2> QED
    BY <2>1, <2>2 DEF Rids, Traced
<1>3. CASE Restart
  <2>1. \A i \in Ids : serve'[i] \in Serves /\ serve'[i].mine = FALSE
    BY <1>3, DeadServe DEF Restart, ServeOK, Serves
  <2>2. \A i \in Ids : serve'[i] = Dead \/ /\ serve'[i].health = serve[i].health
                                           /\ serve'[i].token = serve[i].token
    BY <1>3 DEF Restart, ServeOK, Serves
  <2>3. ServeOK' /\ Mine' = {}
    BY <1>3, <2>1, <2>2, DeadServe DEF Restart, ServeOK, Mine, OnPort
  <2> QED
    BY <1>3, <2>3 DEF Restart, Traced, Cleared, InCall
<1> QED
  BY <1>1, <1>2, <1>3 DEF Disturb

------------------------------------------------------------------------------
(* What becomes of the token.                                                 *)

LEMMA CallVetted ==
    ASSUME BackendInv, Begin \/ EnsureHealthy
    PROVE  Tokened' /\ Vetted'
<1> USE DEF BackendInv, Go, Return, Tokened, Vetted, RestOK
<1>1. CASE TakeToken \/ Adopt
  <2>1. TakeToken => bm'.token = Preferred /\ call'.token = Preferred
    BY DEF TakeToken, Managers, Calls
  <2>2. Adopt => bm'.token = Preferred /\ call'.token = Preferred
    BY DEF Adopt, Calls
  <2>3. pc' \in {"auth", "adoptAuth"}
    BY <1>1 DEF TakeToken, Adopt
  <2> QED
    BY <1>1, <2>1, <2>2, <2>3
<1>2. CASE Auth \/ AdoptAuth \/ Verify
  BY <1>2 DEF Auth, AdoptAuth, Verify, Ask, Accepts, Calls
<1>3. CASE CheckFields
  BY <1>3 DEF CheckFields, Accepts, Calls
<1>4. CASE PreferToken
  <2>1. Fresh \in Tokens
    BY <1>4 DEF PreferToken, Fresh, Unspent
  <2> QED
    BY <1>4, <2>1, BackendAssumption DEF PreferToken, Calls
<1>5. CASE Begin \/ Publish \/ StopDrifted \/ ClearDrifted \/ Republish \/ StopStale \/ LookAtPort
           \/ AdoptPublish \/ Evict \/ ClearZombie \/ Spawn \/ SpawnFails \/ AwaitReady \/ GiveUp
           \/ Refuse \/ ClearRefused \/ Announce
  <2>1. pc' \in {"idle", "take", "undrift", "fields", "look", "adopt", "evict", "zombie", "prefer",
                 "await", "verify", "unrefuse"}
    BY <1>5 DEF Begin, Publish, StopDrifted, ClearDrifted, Republish, StopStale, LookAtPort,
                AdoptPublish, Evict, ClearZombie, Spawn, SpawnFails, AwaitReady, GiveUp, Refuse,
                ClearRefused, Announce
  <2> QED
    BY <2>1
<1> QED
  BY ONLY Begin \/ EnsureHealthy, <1>1, <1>2, <1>3, <1>4, <1>5 DEF EnsureHealthy

LEMMA DisturbVetted ==
    ASSUME BackendInv, Disturb \/ \E i \in Ids : Boot(i)
    PROVE  Tokened' /\ Vetted'
<1> USE DEF BackendInv, Tokened, Vetted, RestOK
<1>1. CASE Restart
  BY <1>1 DEF Restart
<1>2. CASE ~Restart
  <2>1. CASE NotifyDesktop
    BY <2>1 DEF NotifyDesktop
  <2>2. CASE Stop
    BY <2>2 DEF Stop, Unset
  <2>3. CASE UNCHANGED <<bm, pc, call>>
    BY <2>3
  <2> QED
    BY <1>2, <2>1, <2>2, <2>3 DEF Disturb, Squat, Rewrite, ServeMoves, Boot
<1> QED
  BY <1>1, <1>2

LEMMA NextInv == BackendInv /\ [Next]_vars => BackendInv'
<1> SUFFICES ASSUME BackendInv, [Next]_vars PROVE BackendInv'
  OBVIOUS
<1>1. CASE Begin \/ EnsureHealthy
  BY <1>1, CallTyped, CallTraced, SpawnTraced, CallVetted DEF BackendInv
<1>2. CASE Disturb \/ \E i \in Ids : Boot(i)
  BY <1>2, DisturbTyped, DisturbTraced, DisturbVetted DEF BackendInv
<1>3. CASE UNCHANGED vars
  BY <1>3 DEF vars, BackendInv, ServeOK, RestOK, Traced, Tokened, Vetted, OnPort, Mine, Victim
<1> QED
  BY <1>1, <1>2, <1>3 DEF Next

LEMMA Invariant == Spec => []BackendInv
BY InitInv, NextInv, PTL DEF Spec

\* The types of TypeOK, and at most one serve on the managed port.
THEOREM BackendTyped == Spec => []TypeOK
<1>1. BackendInv => TypeOK
  BY TypeParts DEF BackendInv
<1> QED
  BY <1>1, Invariant, PTL

\* No serve that the watchdog started is lost before it has tried to kill it, whatever
\* fails, stops, restarts or comes between the steps of a call.
THEOREM NoServeIsLost == Spec => []NoOrphan
<1>1. BackendInv => NoOrphan
  <2> SUFFICES ASSUME BackendInv, NEW i \in Ids, i \in Mine PROVE i \in Known
    BY DEF NoOrphan, Mine
  <2>1. CASE pc \in InCall
    BY <2>1 DEF BackendInv, Traced, Known, Started
  <2>2. CASE pc \notin InCall
    BY <2>2 DEF BackendInv, Traced, Known, Victim
  <2> QED
    BY <2>1, <2>2
<1> QED
  BY <1>1, Invariant, PTL

\* Off the port there is at most one serve that the watchdog started and has not tried
\* to kill: what a call has just started, or what stopLocked would kill.
THEOREM StartsDoNotPileUp == Spec => []OneStart
<1>1. BackendInv => OneStart
  <2> SUFFICES ASSUME BackendInv
               PROVE  \E one : Mine \ OnPort \subseteq {one}
    BY DEF OneStart, Mine
  <2>1. CASE pc \in InCall
    BY <2>1 DEF BackendInv, Traced
  <2>2. CASE pc \notin InCall
    BY <2>2 DEF BackendInv, Traced
  <2> QED
    BY <2>1, <2>2
<1> QED
  BY <1>1, Invariant, PTL

\* A call writes a token to Desktop's manifest only after a serve on the port accepted
\* it in this very call.
THEOREM OnlyVerifiedPublished == Spec => PublishedVerified
<1> DEFINE OK == EnsureHealthy /\ manifest' \notin {manifest, NoManifest} =>
                   manifest'.token = call.accepted /\ call.accepted # None
<1>1. BackendInv /\ [Next]_vars => [OK]_vars
  <2> SUFFICES ASSUME BackendInv, EnsureHealthy, manifest' \notin {manifest, NoManifest}
               PROVE  manifest'.token = call.accepted /\ call.accepted # None
    OBVIOUS
  <2>1. Publish \/ Republish \/ AdoptPublish \/ Announce
    BY DEF EnsureHealthy, TakeToken, Auth, StopDrifted, ClearDrifted, CheckFields, StopStale,
           LookAtPort, Adopt, AdoptAuth, Ask, Evict, ClearZombie, PreferToken, Spawn, SpawnFails,
           AwaitReady, GiveUp, Verify, Refuse, ClearRefused
  <2>2. pc \in {"publish", "republish", "adoptPublish", "announce"}
    BY <2>1 DEF Publish, Republish, AdoptPublish, Announce, Go, Return
  <2>3. ASSUME NEW t, NEW p, Publishes(t, p)
        PROVE  manifest'.token = t
    <3>1. manifest' = [token |-> t, pid |-> p]
      BY <2>3 DEF Publishes
    <3> QED
      BY <3>1
  <2>4. manifest'.token = IF pc = "announce" THEN call.token ELSE bm.token
    BY <2>1, <2>3 DEF Publish, Republish, AdoptPublish, Announce, Go, Return
  <2> QED
    BY <2>2, <2>4 DEF BackendInv, Vetted
<1> QED
  BY <1>1, Invariant, PTL DEF Spec, PublishedVerified
==============================================================================
