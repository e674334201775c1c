-------------------------- MODULE RetirementProofs --------------------------
(***************************************************************************)
(* Proofs about the retirement of idle dogs and the periodic save of       *)
(* Application, with every fault and any maps, for as long as no           *)
(* retirement throws (NeverThrows); and that none does where all maps have *)
(* one name, so that there is one session, and no database write fails.    *)
(***************************************************************************)
EXTENDS ApplicationProofs

(* A dog whose player is not yet there is not in a session. *)
LEMMA NewDog ==
    ASSUME Consistent, NEW t, ~HasPlayer(t)
    PROVE  \A m \in Maps : \A i \in DOMAIN dogs[m] : dogs[m][i] # t
  BY DEF Consistent, DogInv, DogsHavePlayers, HasPlayer

(* A dog on the list from the place of the handler on has a player, a session,
   and a dog in it. *)
LEMMA LiveDogPlays ==
    ASSUME Consistent, NEW t \in player_tokens
    PROVE  /\ HasPlayer(t)
           /\ \E j \in DOMAIN sessions : DogIn(t, sessions[j])
<1>1. PICK p \in DOMAIN players_table : players_table[p].token = t
  BY DEF Consistent, DogInv, TokensHavePlayers, HasPlayer
<1> DEFINE m == players_table[p].session
<1>2. DogIn(t, m)
  BY <1>1 DEF Consistent, DogInv, LivePlayersPlay
<1>3. m \in Maps /\ DOMAIN dogs[m] # {}
  BY <1>2 DEF Consistent, TypeOK, PlayersType, Player, DogIn
<1>4. PICK j \in DOMAIN sessions : sessions[j] = m
  BY <1>3 DEF Consistent, DogInv, DogsInSessions
<1> QED BY <1>1, <1>2, <1>4 DEF HasPlayer

(* Nothing is listed at the start. *)
LEMMA OrderlyInit == Init => Orderly
  BY EmptyMemoryType
  DEF Init, NoDogs, Orderly, SessionsOnce, ListedIdle, ListedOnce, ListedBelow, UniqueDogs

(* A new player joins a session of the list, or one that was not there. *)
LEMMA AddPlayerOrderly ==
    ASSUME Consistent, Orderly, NEW t \in Tokens, ~HasPlayer(t),
           NEW m \in Maps, NEW moving, AddPlayer(t, m, moving),
           phase = "idle", UNCHANGED <<to_retirement, phase>>
    PROVE  Orderly'
<1>1. PICK s \in Maps : SessionFor(m, s) /\ AddDogToSession(t, s)
  BY DEF AddPlayer
<1>2. SessionsOnce'
  <2>1. sessions \in Seq(Maps)
    BY DEF Consistent, TypeOK, SessionsType
  <2>2. CASE \E i \in DOMAIN sessions : sessions[i] = s
    BY <1>1, <2>2 DEF AddDogToSession, Orderly, SessionsOnce
  <2>3. CASE \A i \in DOMAIN sessions : sessions[i] # s
    <3>1. sessions' = Append(sessions, s)
      BY <1>1, <2>3 DEF AddDogToSession
    <3>2. \A i \in DOMAIN sessions' :
            \/ i \in DOMAIN sessions /\ sessions'[i] = sessions[i]
            \/ i = Len(sessions) + 1 /\ sessions'[i] = s
      BY <2>1, <3>1
    <3> QED
      BY <2>3, <3>2 DEF Orderly, SessionsOnce
  <2> QED BY <2>2, <2>3
<1>3. UniqueDogs'
  <2> SUFFICES ASSUME NEW n \in Maps, NEW i \in DOMAIN dogs'[n],
                      NEW j \in DOMAIN dogs'[n], dogs'[n][i] = dogs'[n][j]
               PROVE  i = j
    BY DEF UniqueDogs
  <2>1. \A k \in DOMAIN dogs'[n] :
          \/ k = count_add_dogs[n] /\ dogs'[n][k] = t
          \/ k \in DOMAIN dogs[n] /\ dogs'[n][k] = dogs[n][k]
    BY <1>1 DEF AddDogToSession, Put, Consistent, TypeOK, SessionsType
  <2>2. \A k \in DOMAIN dogs[n] : dogs[n][k] # t
    BY NewDog
  <2> QED BY <2>1, <2>2 DEF Orderly, UniqueDogs
<1>4. DOMAIN to_retirement' = {} /\ to_retirement' = << >> /\ phase' = "idle"
  BY DEF Orderly
<1> QED BY <1>2, <1>3, <1>4 DEF Orderly, ListedIdle, ListedOnce, ListedBelow

(* A tick lists dogs that stand long enough, each once. *)
LEMMA UpdateOrderly ==
    ASSUME Consistent, Orderly, UpdatePlayerState
    PROVE  Orderly'
<1>1. /\ phase = "update" /\ phase' = "update" /\ at \in DOMAIN sessions /\ at' = at
      /\ sessions[at] \in Maps
      /\ UNCHANGED <<sessions, dogs, player_tokens>>
  <2>1. /\ phase = "update" /\ phase' = phase /\ at <= Len(sessions) /\ at' = at
        /\ UNCHANGED <<sessions, dogs, player_tokens>>
    BY DEF UpdatePlayerState, Working, sessionVars, playerVars
  <2>2. sessions \in Seq(Maps) /\ Len(sessions) \in Nat /\ at \in Nat /\ at >= 1
    BY <2>1 DEF Consistent, TypeOK, HandlerType, SessionsType
  <2>3. at \in DOMAIN sessions
    BY <2>1, <2>2
  <2> QED BY <2>1, <2>2, <2>3
<1> DEFINE here == dogs[sessions[at]]
<1>2. PICK d \in DOMAIN here :
        /\ d >= from /\ from' = d + 1
        /\ IF Stands(here[d])
           THEN /\ dog' = [dog EXCEPT ![here[d]].stay =
                              AtMost(StayFor(here[d]), RetirementTime)]
                /\ to_retirement' =
                      IF Retires(here[d]) THEN Append(to_retirement, here[d])
                                          ELSE to_retirement
           ELSE UNCHANGED <<dog, to_retirement>>
  BY <1>1 DEF UpdatePlayerState, Least
<1>3. PICK t \in Tokens : t = here[d]
  BY <1>1 DEF Consistent, TypeOK, SessionsType
<1>4. DOMAIN here \subseteq Nat /\ from \in Nat
  BY <1>1 DEF Consistent, TypeOK, SessionsType, HandlerType
<1>5. \A i \in DOMAIN to_retirement : to_retirement[i] # t
  <2> SUFFICES ASSUME NEW i \in DOMAIN to_retirement, to_retirement[i] = t
               PROVE  FALSE
    OBVIOUS
  <2>1. PICK k \in DOMAIN sessions : \E e \in DOMAIN dogs[sessions[k]] :
          (k < at \/ (k = at /\ e < from)) /\ dogs[sessions[k]][e] = t
    BY <1>1 DEF Orderly, ListedBelow
  <2>2. PICK e \in DOMAIN dogs[sessions[k]] :
          (k < at \/ (k = at /\ e < from)) /\ dogs[sessions[k]][e] = t
    BY <2>1
  <2>3. k = at
    <3>1. sessions[k] \in Maps
      BY DEF Consistent, TypeOK, SessionsType
    <3>2. PICK p \in DOMAIN players_table :
            /\ players_table[p] = [token |-> t, session |-> sessions[k]]
            /\ \A q \in DOMAIN players_table : players_table[q].token = t => q = p
      BY <2>2, <3>1 DEF Consistent, DogInv, DogsHavePlayers
    <3>3. PICK q \in DOMAIN players_table :
            players_table[q] = [token |-> t, session |-> sessions[at]]
      BY <1>1, <1>3 DEF Consistent, DogInv, DogsHavePlayers
    <3>4. q = p
      BY <3>2, <3>3
    <3>5. sessions[k] = sessions[at]
      BY <3>2, <3>3, <3>4
    <3> QED
      BY <1>1, <3>5 DEF Orderly, SessionsOnce
  <2>4. e \in DOMAIN here /\ here[e] = t /\ e < from
    BY <1>1, <1>4, <2>2, <2>3 DEF Consistent, TypeOK, HandlerType
  <2>5. e = d
    BY <1>1, <1>3, <2>4 DEF Orderly, UniqueDogs
  <2> QED BY <1>2, <1>4, <2>4, <2>5
<1>6. t \in player_tokens
  <2>1. PICK p \in DOMAIN players_table : players_table[p].token = t
    BY <1>1, <1>3 DEF Consistent, DogInv, DogsHavePlayers
  <2> QED BY <2>1, <1>5 DEF Consistent, GhostInv, GhostsPending
<1>7. /\ \A u \in Tokens : u # t => dog'[u] = dog[u]
      /\ Stands(t) => /\ dog'[t].moving = FALSE
                      /\ dog'[t].stay = AtMost(StayFor(t), RetirementTime)
      /\ to_retirement' = to_retirement
           \/ /\ to_retirement' = Append(to_retirement, t)
              /\ Stands(t) /\ Retires(t)
  <2>1. dog \in [Tokens -> [moving : BOOLEAN, stay : 0 .. RetirementTime]]
    BY DEF Consistent, TypeOK, SessionsType
  <2>2. CASE Stands(t)
    <3>1. dog' = [dog EXCEPT ![t].stay = AtMost(StayFor(t), RetirementTime)]
      BY <1>2, <1>3, <2>2
    <3>2. dog'[t] = [dog[t] EXCEPT !.stay = AtMost(StayFor(t), RetirementTime)]
      BY <2>1, <3>1
    <3>3. dog[t].moving = FALSE
      BY <2>1, <2>2 DEF Stands
    <3> QED BY <1>2, <1>3, <2>1, <2>2, <3>1, <3>2, <3>3
  <2>3. CASE ~Stands(t)
    BY <1>2, <1>3, <2>3
  <2> QED BY <2>2, <2>3
<1>8. StayFor(t) \in Int
  BY DEF StayFor, Consistent, TypeOK, SessionsType, HandlerType
<1>9. /\ to_retirement \in Seq(Tokens) /\ Len(to_retirement) \in Nat
      /\ DOMAIN to_retirement = 1 .. Len(to_retirement)
  BY DEF Consistent, TypeOK, HandlerType
<1>10. \A i \in DOMAIN to_retirement' :
         \/ i \in DOMAIN to_retirement /\ to_retirement'[i] = to_retirement[i]
         \/ /\ i = Len(to_retirement) + 1 /\ to_retirement'[i] = t
            /\ Stands(t) /\ Retires(t)
  BY <1>7, <1>9
<1>11. ListedIdle'
  <2> SUFFICES ASSUME NEW i \in DOMAIN to_retirement'
               PROVE  /\ to_retirement'[i] \in player_tokens
                      /\ ~dog'[to_retirement'[i]].moving
                      /\ dog'[to_retirement'[i]].stay >= RetirementTime
    BY <1>1 DEF ListedIdle
  <2>1. CASE i \in DOMAIN to_retirement /\ to_retirement'[i] = to_retirement[i]
    <3>1. to_retirement[i] \in Tokens /\ to_retirement[i] # t
      BY <2>1, <1>5, <1>9
    <3> QED BY <2>1, <3>1, <1>1, <1>7 DEF Orderly, ListedIdle
  <2>2. CASE to_retirement'[i] = t /\ Stands(t) /\ Retires(t)
    BY <2>2, <1>6, <1>7, <1>8, TimeAssumption DEF Retires, AtMost
  <2> QED BY <1>10, <2>1, <2>2
<1>12. ListedOnce'
  <2> SUFFICES ASSUME NEW i \in DOMAIN to_retirement', NEW j \in DOMAIN to_retirement',
                      to_retirement'[i] = to_retirement'[j]
               PROVE  i = j
    BY DEF ListedOnce
  <2> QED BY <1>5, <1>10 DEF Orderly, ListedOnce
<1>13. ListedBelow'
  <2> SUFFICES ASSUME NEW i \in DOMAIN to_retirement'
               PROVE  \E k \in DOMAIN sessions : \E e \in DOMAIN dogs[sessions[k]] :
                         /\ k < at \/ (k = at /\ e < from')
                         /\ dogs[sessions[k]][e] = to_retirement'[i]
    BY <1>1 DEF ListedBelow
  <2>1. CASE i \in DOMAIN to_retirement /\ to_retirement'[i] = to_retirement[i]
    <3>1. PICK k \in DOMAIN sessions : \E e \in DOMAIN dogs[sessions[k]] :
            (k < at \/ (k = at /\ e < from)) /\ dogs[sessions[k]][e] = to_retirement[i]
      BY <2>1, <1>1 DEF Orderly, ListedBelow
    <3>2. PICK e \in DOMAIN dogs[sessions[k]] :
            (k < at \/ (k = at /\ e < from)) /\ dogs[sessions[k]][e] = to_retirement[i]
      BY <3>1
    <3>3. k < at \/ (k = at /\ e < from')
      <4>1. CASE k < at
        BY <4>1
      <4>2. CASE k = at /\ e < from
        BY <4>2, <1>2, <1>4
      <4> QED BY <3>2, <4>1, <4>2
    <3> QED BY <2>1, <3>2, <3>3
  <2>2. CASE to_retirement'[i] = t
    <3>1. d < from'
      BY <1>2, <1>4
    <3> QED BY <2>2, <3>1, <1>1, <1>3
  <2> QED BY <1>10, <2>1, <2>2
<1> QED BY <1>1, <1>11, <1>12, <1>13 DEF Orderly, UniqueDogs, SessionsOnce

(* DeleteDog takes the token of its place off the game, and no other. *)
LEMMA DeleteOrderly ==
    ASSUME Consistent, Orderly, DeleteDog
    PROVE  Orderly'
<1>1. /\ phase = "delete" /\ phase' = "retire" /\ at' = at + 1
      /\ at \in DOMAIN to_retirement /\ DOMAIN to_retirement \subseteq Nat
      /\ player_tokens' = player_tokens \ {Retiree}
      /\ UNCHANGED <<sessions, dog, to_retirement>>
      /\ DeleteDogUpTo(Retiree, Len(sessions) + 1)
  BY DEF DeleteDog, EraseToken, Working, Consistent, TypeOK, HandlerType
<1>2. ListedIdle'
  <2> SUFFICES ASSUME NEW i \in DOMAIN to_retirement, i >= at + 1
               PROVE  /\ to_retirement[i] \in player_tokens \ {Retiree}
                      /\ ~dog[to_retirement[i]].moving
                      /\ dog[to_retirement[i]].stay >= RetirementTime
    BY <1>1 DEF ListedIdle
  <2>1. i >= at /\ i # at
    BY <1>1
  <2> QED BY <1>1, <2>1 DEF Orderly, ListedIdle, ListedOnce, Retiree
<1>3. UniqueDogs'
  BY <1>1, DeleteDogUpToEffect DEF Orderly, UniqueDogs
<1> QED BY <1>1, <1>2, <1>3 DEF Orderly, SessionsOnce, ListedOnce, ListedBelow

(* With one map name DeleteDog never throws: the one session has the dog. *)
LEMMA NoThrow ==
    ASSUME OneName, OneSessionPerName, Consistent, Orderly, DeleteDogThrows
    PROVE  FALSE
<1>1. PICK k \in DOMAIN sessions : ~DogIn(Retiree, sessions[k])
  BY DEF DeleteDogThrows
<1>2. phase = "delete" /\ at \in DOMAIN to_retirement
  BY DEF DeleteDogThrows, Working, Consistent, TypeOK, HandlerType
<1>3. Retiree \in player_tokens
  BY <1>2 DEF Orderly, ListedIdle, Retiree, Consistent, TypeOK, HandlerType
<1>4. PICK j \in DOMAIN sessions : DogIn(Retiree, sessions[j])
  BY <1>3, LiveDogPlays
<1>5. sessions[k] = sessions[j]
  <2>1. sessions[k] \in Maps /\ sessions[j] \in Maps
    BY DEF Consistent, TypeOK, SessionsType
  <2> QED BY <2>1 DEF OneName, OneSessionPerName
<1> QED BY <1>1, <1>4, <1>5

(* Every step but an exception keeps the list in order. *)
LEMMA OrderlyStep ==
    Consistent /\ Orderly /\ [Next]_vars /\ [~Throws]_vars => Orderly'
<1> SUFFICES ASSUME Consistent, Orderly, [Next]_vars, [~Throws]_vars PROVE Orderly'
  OBVIOUS
<1>1. ASSUME NEW t \in Tokens, NEW m \in Maps, JoinGame(t, m) PROVE Orderly'
  <2>1. ~HasPlayer(t)
    BY <1>1 DEF JoinGame, HasPlayer, Consistent, RosterInv, OnlyIssued
  <2> QED BY <1>1, <2>1, AddPlayerOrderly DEF JoinGame, Serving, tickVars
<1>2. ASSUME UploadPlayer PROVE Orderly'
  <2>1. PICK i \in DOMAIN file :
          /\ i \in {j \in DOMAIN file : j >= from}
          /\ AddPlayer(file[i].token, file[i].map, file[i].moving)
    BY <1>2 DEF UploadPlayer, Least
  <2>2. /\ file[i].token \in Tokens /\ file[i].map \in Maps
        /\ DOMAIN file \subseteq Nat /\ from \in Nat
    BY DEF Consistent, TypeOK, DiskType, SavedPlayer, HandlerType
  <2>3. ~HasPlayer(file[i].token)
    BY <1>2, <2>1, <2>2
    DEF UploadPlayer, HasPlayer, Consistent, RosterInv, UniqueSaved, LoadedBelow
  <2>4. phase = "idle" /\ UNCHANGED <<to_retirement, phase>>
    BY <1>2 DEF UploadPlayer, Consistent, TypeOK, HandlerType
  <2> QED BY <2>1, <2>2, <2>3, <2>4, AddPlayerOrderly
<1>3. ASSUME UpdatePlayerState PROVE Orderly'
  BY <1>3, UpdateOrderly
<1>4. ASSUME DeleteDog PROVE Orderly'
  BY <1>4, DeleteOrderly
<1>7. ASSUME Down PROVE Orderly'
  BY <1>7, EmptyMemoryType
  DEF Down, EndTick, NoDogs, Orderly, SessionsOnce, ListedIdle, ListedOnce, ListedBelow,
      UniqueDogs
<1>8. ASSUME UNCHANGED <<sessions, dogs>>, to_retirement' = << >> PROVE Orderly'
  BY <1>8 DEF Orderly, SessionsOnce, ListedIdle, ListedOnce, ListedBelow, UniqueDogs
<1>9. ASSUME NEW t, NEW dir, ChangeMoveDirection(t, dir) PROVE Orderly'
  BY <1>8, <1>9 DEF ChangeMoveDirection, Serving, Orderly, sessionVars
<1>10. ASSUME NEW d, Tick(d) PROVE Orderly'
  BY <1>8, <1>10 DEF Tick, Serving, Orderly, sessionVars
<1>11. ASSUME EndRetirement PROVE Orderly'
  BY <1>8, <1>11 DEF EndRetirement, ClearRetired, sessionVars
<1>12. ASSUME SaveIfDue PROVE Orderly'
  BY <1>8, <1>12 DEF SaveIfDue, Working, Orderly, sessionVars
<1>13. ASSUME EndUpload PROVE Orderly'
  BY <1>8, <1>13
  DEF EndUpload, Orderly, sessionVars, Consistent, TypeOK, HandlerType
<1>14. ASSUME NextSession PROVE Orderly'
  <2>1. /\ phase = "update" /\ phase' = "update" /\ at \in Nat /\ at' = at + 1
        /\ DOMAIN sessions \subseteq Nat
        /\ UNCHANGED <<player_tokens, sessions, dogs, dog, to_retirement>>
    BY <1>14
    DEF NextSession, Working, playerVars, sessionVars, Consistent, TypeOK, HandlerType,
        SessionsType
  <2>2. \A k \in DOMAIN sessions : k < at \/ k = at => k < at'
    BY <2>1
  <2>3. ListedBelow'
    BY <2>1, <2>2 DEF Orderly, ListedBelow
  <2> QED BY <2>1, <2>3 DEF Orderly, SessionsOnce, ListedIdle, ListedOnce, UniqueDogs
<1>15. ASSUME SendDogToRetirement PROVE Orderly'
  BY <1>15
  DEF SendDogToRetirement, GoTo, Working, playerVars, sessionVars, Orderly, SessionsOnce,
      ListedIdle, ListedOnce, ListedBelow, UniqueDogs
<1>16. ASSUME SaveDogRecord PROVE Orderly'
  BY <1>16
  DEF SaveDogRecord, Working, playerVars, sessionVars, Orderly, SessionsOnce, ListedIdle,
      ListedOnce, ListedBelow, UniqueDogs
<1>17. ASSUME UNCHANGED <<playerVars, sessionVars, dog, to_retirement, tickVars>>
       PROVE  Orderly'
  BY <1>17
  DEF playerVars, sessionVars, tickVars, Orderly, SessionsOnce, ListedIdle, ListedOnce,
      ListedBelow, UniqueDogs
<1>18. ASSUME Signal \/ Start PROVE Orderly'
  BY <1>17, <1>18 DEF Signal, Start
<1>19. ASSUME UNCHANGED vars PROVE Orderly'
  BY <1>17, <1>19 DEF vars
<1> QED
  BY <1>1, <1>2, <1>3, <1>4, <1>7, <1>9, <1>10, <1>11, <1>12,
     <1>13, <1>14, <1>15, <1>16, <1>18, <1>19
  DEF Next, Request, StartTick, TickStep, Retirement, Upload,
      NullPlayer, Exit, Crash, Throws

NeverThrows == [][~Throws]_vars

(* Until a retirement throws, the list is in order in every reachable state,
   with any sessions, crashes, signals and failing saves. *)
THEOREM AlwaysOrderly == Spec /\ NeverThrows => []Orderly
<1>1. Init => Orderly
  BY OrderlyInit
<1>2. Consistent /\ Orderly /\ [Next]_vars /\ [~Throws]_vars => Orderly'
  BY OrderlyStep
<1> QED BY <1>1, <1>2, AlwaysConsistent, PTL DEF Spec, NeverThrows

(* With one map name, and so one session, and a database that works, no
   retirement ever throws. *)
THEOREM QuietNeverThrows == Quiet => (Spec => NeverThrows)
<1> SUFFICES ASSUME Quiet PROVE Spec => NeverThrows
  OBVIOUS
<1>1. Init => Orderly
  BY OrderlyInit
<1>2. Consistent /\ Reloads /\ Orderly /\ [Next]_vars => [~Throws]_vars
  BY NoThrow DEF Throws, WriteToBDFails, Quiet, Reloads
<1>3. Consistent /\ Orderly /\ [Next]_vars /\ [~Throws]_vars => Orderly'
  BY OrderlyStep
<1> QED BY <1>1, <1>2, <1>3, AlwaysConsistent, AlwaysReloads, PTL DEF Spec, NeverThrows

(* Until a retirement throws, SaveDogRecord never reads through a null player. *)
THEOREM RetireesAlwaysExist == Spec /\ NeverThrows => []RetireesExist
<1>1. Consistent /\ Orderly => RetireesExist
  <2> SUFFICES ASSUME Consistent, Orderly, phase = "retire",
                      NEW i \in DOMAIN to_retirement, i >= at
               PROVE  HasPlayer(to_retirement[i])
    BY DEF RetireesExist
  <2> QED BY LiveDogPlays DEF Orderly, ListedIdle
<1> QED BY <1>1, AlwaysConsistent, AlwaysOrderly, PTL

(* And no dog is recorded as retired unless it stands, and has stood for the
   retirement time. *)
THEOREM RecordsAlwaysIdle == Spec /\ NeverThrows => RecordsOnlyIdle
<1> DEFINE RecordsIdle ==
      \A t \in Tokens : records'[t] # records[t]
                          => ~dog[t].moving /\ dog[t].stay >= RetirementTime
<1>1. Consistent /\ Orderly /\ [Next]_vars /\ [~Throws]_vars => [RecordsIdle]_vars
  <2> SUFFICES ASSUME Consistent, Orderly, Next, ~Throws PROVE RecordsIdle
    OBVIOUS
  <2>1. CASE SaveDogRecord
    <3>1. /\ at \in DOMAIN to_retirement /\ at >= at
          /\ \A t \in Tokens : t # Retiree => records'[t] = records[t]
      BY <2>1
      DEF SaveDogRecord, AddRecord, Working, Consistent, TypeOK, HandlerType,
          DiskType
    <3> QED BY <3>1 DEF Orderly, ListedIdle, Retiree
  <2>2. CASE UNCHANGED records
    BY <2>2
  <2>3. SaveDogRecord \/ UNCHANGED records
    <3>1. ASSUME NEW t, NEW m, JoinGame(t, m) PROVE UNCHANGED records
      BY <3>1 DEF JoinGame, diskVars
    <3>2. ASSUME NEW t, NEW dir, ChangeMoveDirection(t, dir) PROVE UNCHANGED records
      BY <3>2 DEF ChangeMoveDirection, diskVars
    <3>3. ASSUME NEW d, Tick(d) PROVE UNCHANGED records
      BY <3>3 DEF Tick, diskVars
    <3>4. ~WriteToBDFails
      BY DEF Throws
    <3> QED BY <3>1, <3>2, <3>3, <3>4
            DEF Next, Request, StartTick, TickStep, Retirement, Upload,
                UpdatePlayerState, NextSession, SendDogToRetirement, DeleteDog,
                DeleteDogThrows, EndRetirement, SaveIfDue, Signal, Start,
                UploadPlayer, EndUpload, NullPlayer, Exit, Crash, Down, diskVars,
                vars
  <2> QED BY <2>1, <2>2, <2>3
<1> QED BY <1>1, AlwaysConsistent, AlwaysOrderly, PTL DEF Spec, NeverThrows, RecordsOnlyIdle

(***************************************************************************)
(* Periodic saves.                                                         *)
(***************************************************************************)

(* The server has a state file and a save period, no tick is longer than the
   period, twice the period is an int, and saves succeed. *)
Saves ==
    /\ HasStateFile /\ "save" \notin Faults
    /\ SavePeriod > 0 /\ 2 * SavePeriod <= IntSpan
    /\ \A d \in Deltas : d <= SavePeriod

(* A tick that gets to its end saves when the period has passed. *)
LEMMA PunctualStep ==
    Saves /\ Consistent /\ Punctual /\ [Next]_vars /\ [~Throws]_vars => Punctual'
<1> SUFFICES ASSUME Saves, Consistent, Punctual, [Next]_vars, [~Throws]_vars
             PROVE  Punctual'
  OBVIOUS
<1>1. ASSUME NEW d \in Deltas, Tick(d) PROVE Punctual'
  <2>1. /\ unsaved \in Nat /\ current_time \in Nat /\ d \in Nat /\ SavePeriod \in Nat
        /\ unsaved <= current_time
    BY <1>1, TimeAssumption
    DEF Tick, Serving, Punctual, Consistent, TypeOK, HandlerType
  <2>2. unsaved' <= current_time + d
    BY <1>1, <2>1 DEF Tick, AtMost
  <2> QED BY <1>1, <2>2 DEF Tick, Punctual
<1>2. ASSUME SaveIfDue PROVE Punctual'
  <2>1. /\ current_time \in 0 .. (SavePeriod - 1) /\ delta \in 1 .. SavePeriod
        /\ unsaved \in Nat /\ unsaved <= current_time + delta
        /\ SavePeriod \in Nat \ {0} /\ IntSpan \in Nat /\ 2 * SavePeriod <= IntSpan
    BY <1>2, TimeAssumption
    DEF SaveIfDue, Working, Punctual, Saves, Consistent, TypeOK, HandlerType
  <2>2. Elapsed = current_time + delta
    <3> DEFINE n == current_time + delta + IntSpan
               s == 2 * IntSpan
    <3>1. n \in Nat /\ s \in Nat /\ s > 0 /\ n < s
      BY <2>1
    <3>2. n % s = n
      <4> HIDE DEF n, s
      <4> QED BY <3>1
    <3> QED BY <2>1, <3>2 DEF Elapsed, Wrap
  <2>3. /\ phase' = "idle"
        /\ IF Elapsed >= SavePeriod
           THEN current_time' = Elapsed - SavePeriod /\ unsaved' = 0
           ELSE current_time' = Elapsed /\ unsaved' = unsaved
    BY <1>2 DEF SaveIfDue, SaveDue, EndTick, Saves
  <2> QED BY <2>1, <2>2, <2>3 DEF Punctual
<1>3. ASSUME EndRetirement PROVE Punctual'
  BY <1>3 DEF EndRetirement, GoTo, Working, Saves, Punctual
<1>4. ASSUME Down PROVE Punctual'
  BY <1>4, TimeAssumption DEF Down, EndTick, Saves, Punctual
<1>6. ASSUME UNCHANGED <<current_time, unsaved, delta>>,
             phase = "idle" <=> phase' = "idle"
      PROVE  Punctual'
  BY <1>6 DEF Punctual
<1>7. ASSUME NEW t, NEW m, JoinGame(t, m) PROVE Punctual'
  BY <1>6, <1>7 DEF JoinGame, tickVars
<1>8. ASSUME NEW t, NEW dir, ChangeMoveDirection(t, dir) PROVE Punctual'
  BY <1>6, <1>8 DEF ChangeMoveDirection, tickVars
<1>9. ASSUME \/ UpdatePlayerState \/ NextSession \/ SendDogToRetirement
             \/ SaveDogRecord \/ DeleteDog
      PROVE  Punctual'
  BY <1>6, <1>9
  DEF UpdatePlayerState, NextSession, SendDogToRetirement, SaveDogRecord,
      DeleteDog, GoTo, Working
<1>10. ASSUME Signal \/ Start \/ UploadPlayer \/ EndUpload PROVE Punctual'
  BY <1>6, <1>10 DEF Signal, Start, UploadPlayer, EndUpload, tickVars
<1>11. ASSUME UNCHANGED vars PROVE Punctual'
  BY <1>6, <1>11 DEF vars, tickVars
<1> QED
  BY <1>1, <1>2, <1>3, <1>4, <1>7, <1>8, <1>9, <1>10, <1>11
  DEF Next, Request, StartTick, TickStep, Retirement, Upload,
      NullPlayer, Exit, Crash, Throws

(* Until a retirement throws, with ticks no longer than the period, the last
   checkpoint is younger than the save period between any two ticks. *)
THEOREM AlwaysSavedInTime == Saves => (Spec /\ NeverThrows => []SavedInTime)
<1> SUFFICES ASSUME Saves PROVE Spec /\ NeverThrows => []SavedInTime
  OBVIOUS
<1>1. Init => Punctual
  BY TimeAssumption DEF Init, Punctual, Saves
<1>2. Consistent /\ Punctual /\ [Next]_vars /\ [~Throws]_vars => Punctual'
  BY PunctualStep
<1>3. Consistent /\ Punctual => SavedInTime
  <2> SUFFICES ASSUME Consistent, Punctual, phase = "idle"
               PROVE  unsaved < SavePeriod
    BY DEF SavedInTime, Serving
  <2>1. /\ unsaved \in Nat /\ SavePeriod \in Nat /\ unsaved <= current_time
        /\ current_time \in 0 .. (SavePeriod - 1)
    BY TimeAssumption DEF Punctual, Consistent, TypeOK, HandlerType
  <2> QED BY <2>1
<1> QED BY <1>1, <1>2, <1>3, AlwaysConsistent, PTL DEF Spec, NeverThrows

(***************************************************************************)
(* The life of a player.                                                   *)
(***************************************************************************)

(* Some retirement throws, or the server crashes or is stopped. *)
Disturbs == Throws \/ Signal \/ Crash
NeverDisturbed == [][~Disturbs]_vars

(* Who plays has no row, but for the player that is being deleted; who has left
   has one row; and the process is the first, which found no checkpoint. *)
Counted ==
    /\ server \in {"loading", "running"}
    /\ server = "loading" => DOMAIN file = {}
    /\ \A t \in Tokens :
          /\ HasPlayer(t) => records[t] = IF phase = "delete" /\ t = Retiree THEN 1 ELSE 0
          /\ ~HasPlayer(t) => records[t] = IF t \in DOMAIN issued THEN 1 ELSE 0

Lives == [t \in Tokens |-> Life(t)]

(* The life of a player is told by its row, its place in the table and whether
   it has joined. *)
LEMMA SameLife ==
    ASSUME NEW t \in Tokens, HasPlayer(t)' <=> HasPlayer(t),
           records'[t] = records[t], t \in DOMAIN issued' <=> t \in DOMAIN issued
    PROVE  Life(t)' = Life(t)
  BY DEF Life

(* A step that keeps those keeps both the count and all lives. *)
LEMMA NothingHappens ==
    ASSUME Counted, UNCHANGED <<players_table, records, issued>>,
           phase' # "delete", phase # "delete",
           server' \in {"loading", "running"},
           server' = "loading" => server = "loading" /\ file' = file
    PROVE  Counted' /\ Lives' = Lives
  BY DEF Counted, HasPlayer, Lives, Life

(* A join: a token that no player has and no row has been written of. *)
LEMMA JoinBegins ==
    ASSUME Consistent, Counted, NEW t \in Tokens, NEW m \in Maps,
           JoinGame(t, m)
    PROVE  Counted' /\ OneLife!Join(t)
<1>1. /\ phase = "idle" /\ phase' = "idle" /\ server = "running" /\ server' = "running"
      /\ t \notin DOMAIN issued /\ DOMAIN issued' = DOMAIN issued \cup {t}
      /\ UNCHANGED records /\ AddPlayer(t, m, FALSE)
  BY DEF JoinGame, Serving, tickVars, diskVars, Put
<1>2. ~HasPlayer(t)
  BY <1>1 DEF HasPlayer, Consistent, RosterInv, OnlyIssued
<1>3. HasPlayer(t)' /\ \A u \in Tokens : u # t => (HasPlayer(u)' <=> HasPlayer(u))
  BY <1>1, AddPlayerTable DEF HasPlayer, Consistent
<1>4. Counted'
  BY <1>1, <1>2, <1>3 DEF Counted
<1>5. Life(t) = "out" /\ Life(t)' = "playing"
  BY <1>1, <1>2, <1>3 DEF Life, Counted
<1>6. \A u \in Tokens : u # t => Life(u)' = Life(u)
  BY <1>1, <1>3, SameLife
<1>7. Lives[t] = "out" /\ Lives' = [Lives EXCEPT ![t] = "playing"]
  BY <1>5, <1>6 DEF Lives
<1> QED BY <1>4, <1>7 DEF OneLife!Join, OneLife!Goes, Lives

(* A retirement: the row of a player that has none yet. *)
LEMMA RecordOnce ==
    ASSUME Consistent, Counted, SaveDogRecord
    PROVE  Counted' /\ \E t \in Tokens : OneLife!Record(t)
<1>0. PICK t \in Tokens : t = Retiree
  BY DEF SaveDogRecord, Working, Retiree, Consistent, TypeOK, HandlerType
<1>1. /\ phase = "retire" /\ phase' = "delete" /\ at \in DOMAIN to_retirement
      /\ UNCHANGED <<players_table, server, file, issued, at, to_retirement>>
      /\ HasPlayer(t) /\ AddRecord(t)
  BY <1>0 DEF SaveDogRecord, Working, playerVars, Consistent, TypeOK, HandlerType
<1>3. Retiree' = t
  BY <1>0, <1>1 DEF Retiree
<1>4. records[t] = 0
  BY <1>1 DEF Counted
<1>5. records'[t] = 1 /\ \A u \in Tokens : u # t => records'[u] = records[u]
  <2>1. records' = [records EXCEPT ![t] = AtMost(@ + 1, MaxRecords)]
    BY <1>1 DEF AddRecord
  <2>2. AtMost(0 + 1, MaxRecords) = 1
    BY OptionAssumption DEF AtMost
  <2> QED BY <1>4, <2>1, <2>2 DEF Consistent, TypeOK, DiskType
<1>6. \A u \in Tokens : HasPlayer(u)' <=> HasPlayer(u)
  BY <1>1 DEF HasPlayer
<1>7. Counted'
  BY <1>1, <1>3, <1>5, <1>6 DEF Counted
<1>8. Life(t) = "playing" /\ Life(t)' = "recorded"
  BY <1>1, <1>4, <1>5, <1>6 DEF Life
<1>9. \A u \in Tokens : u # t => Life(u)' = Life(u)
  BY <1>1, <1>5, <1>6, SameLife
<1>10. Lives[t] = "playing" /\ Lives' = [Lives EXCEPT ![t] = "recorded"]
  BY <1>8, <1>9 DEF Lives
<1> QED BY <1>7, <1>10 DEF OneLife!Record, OneLife!Goes, Lives

(* And then the player leaves the table. *)
LEMMA LeaveRecorded ==
    ASSUME Consistent, Orderly, Counted, DeleteDog
    PROVE  Counted' /\ \E t \in Tokens : OneLife!Leave(t)
<1>0. PICK t \in Tokens : t = Retiree
  BY DEF DeleteDog, Working, Retiree, Consistent, TypeOK, HandlerType
<1>1. /\ phase = "delete" /\ phase' = "retire" /\ at \in DOMAIN to_retirement
      /\ UNCHANGED <<server, file, issued, records>>
      /\ players_table' = WithoutPlayer(t)
  BY <1>0 DEF DeleteDog, Working, diskVars, Consistent, TypeOK, HandlerType
<1>2. t \in player_tokens
  BY <1>0, <1>1 DEF Orderly, ListedIdle, Retiree, Consistent, TypeOK, HandlerType
<1>3. HasPlayer(t)
  BY <1>2, LiveDogPlays
<1>4. ~HasPlayer(t)' /\ \A u \in Tokens : u # t => (HasPlayer(u)' <=> HasPlayer(u))
  BY <1>1 DEF HasPlayer, WithoutPlayer, Restrict
<1>5. records[t] = 1 /\ t \in DOMAIN issued
  BY <1>0, <1>1, <1>3 DEF Counted, HasPlayer, Consistent, RosterInv, OnlyIssued
<1>6. \A u \in Tokens : u # t /\ HasPlayer(u) => records[u] = 0
  BY <1>0, <1>1 DEF Counted
<1>7. Counted'
  BY <1>1, <1>4, <1>5, <1>6 DEF Counted
<1>8. Life(t) = "recorded" /\ Life(t)' = "gone"
  BY <1>1, <1>3, <1>4, <1>5 DEF Life
<1>9. \A u \in Tokens : u # t => Life(u)' = Life(u)
  BY <1>1, <1>4, SameLife
<1>10. Lives[t] = "recorded" /\ Lives' = [Lives EXCEPT ![t] = "gone"]
  BY <1>8, <1>9 DEF Lives
<1> QED BY <1>7, <1>10 DEF OneLife!Leave, OneLife!Goes, Lives

(* Every step is a step of one life, or none. *)
LEMMA LifeStep ==
    Consistent /\ Orderly /\ Counted /\ [Next]_vars /\ [~Disturbs]_vars
        => Counted' /\ [OneLife!Next]_Lives
<1> SUFFICES ASSUME Consistent, Orderly, Counted, [Next]_vars, [~Disturbs]_vars
             PROVE  Counted' /\ [OneLife!Next]_Lives
  OBVIOUS
<1>1. ASSUME NEW t \in Tokens, NEW m \in Maps, JoinGame(t, m)
      PROVE  Counted' /\ OneLife!Next
  BY <1>1, JoinBegins DEF OneLife!Next
<1>2. ASSUME SaveDogRecord PROVE Counted' /\ OneLife!Next
  BY <1>2, RecordOnce DEF OneLife!Next
<1>3. ASSUME DeleteDog PROVE Counted' /\ OneLife!Next
  BY <1>3, LeaveRecorded DEF OneLife!Next
<1> DEFINE Same == Counted' /\ Lives' = Lives
<1>4. ASSUME NEW t, NEW dir, ChangeMoveDirection(t, dir) PROVE Same
  BY <1>4, NothingHappens
  DEF ChangeMoveDirection, Serving, playerVars, tickVars, diskVars
<1>5. ASSUME NEW d, Tick(d) PROVE Same
  BY <1>5, NothingHappens DEF Tick, Serving, playerVars, diskVars
<1>6. ASSUME \/ UpdatePlayerState \/ NextSession \/ SendDogToRetirement
             \/ EndRetirement \/ SaveIfDue
      PROVE  Same
  <2>1. server = "running" /\ server' = "running"
    BY <1>6
    DEF UpdatePlayerState, NextSession, SendDogToRetirement, EndRetirement,
        SaveIfDue, Working, Counted
  <2> QED BY <1>6, <2>1, NothingHappens
          DEF UpdatePlayerState, NextSession, SendDogToRetirement,
              EndRetirement, SaveIfDue, Working, GoTo, EndTick, playerVars, diskVars
<1>7. ASSUME EndUpload PROVE Same
  <2>1. phase = "idle" /\ phase' = "idle" /\ server' = "running"
    BY <1>7 DEF EndUpload, Consistent, TypeOK, HandlerType
  <2> QED BY <1>7, <2>1, NothingHappens DEF EndUpload, playerVars, diskVars
<1>8. \/ ~WriteToBDFails /\ ~Signal /\ ~Crash /\ ~DeleteDogThrows
      \/ UNCHANGED vars
  BY DEF Disturbs, Throws
<1>9. ~Exit /\ ~Start /\ ~UploadPlayer
  BY DEF Exit, Start, UploadPlayer, Least, Counted
<1>10. ~NullPlayer
  <2> SUFFICES ASSUME NullPlayer PROVE FALSE
    OBVIOUS
  <2>1. phase = "retire" /\ at \in DOMAIN to_retirement /\ ~HasPlayer(Retiree)
    BY DEF NullPlayer, Working, Consistent, TypeOK, HandlerType
  <2>2. Retiree \in player_tokens
    BY <2>1 DEF Orderly, ListedIdle, Retiree, Consistent, TypeOK, HandlerType
  <2> QED BY <2>1, <2>2, LiveDogPlays
<1>11. ASSUME UNCHANGED vars PROVE Same
  BY <1>11
  DEF vars, playerVars, tickVars, diskVars, Counted, HasPlayer, Retiree, Lives, Life
<1> QED
  BY <1>1, <1>2, <1>3, <1>4, <1>5, <1>6, <1>7, <1>8, <1>9, <1>10, <1>11
  DEF Next, Request, StartTick, TickStep, Retirement, Upload

(* As long as no retirement throws and the server goes on, every player of any
   number joins, plays, is recorded once and leaves for good. *)
THEOREM PlayersLiveOnce == Spec /\ NeverDisturbed => LivesOnce
<1>1. Init => Counted /\ OneLife!Init
  BY DEF Init, Counted, EmptyMap, HasPlayer, OneLife!Init, Life
<1>2. Consistent /\ Orderly /\ Counted /\ [Next]_vars /\ [~Disturbs]_vars
        => Counted' /\ [OneLife!Next]_Lives
  BY LifeStep
<1>3. [~Disturbs]_vars => [~Throws]_vars
  BY DEF Disturbs
<1> QED
  BY <1>1, <1>2, <1>3, AlwaysConsistent, AlwaysOrderly, PTL
  DEF Spec, NeverThrows, NeverDisturbed, LivesOnce, OneLife!Spec, Lives

(* With one map name, a database that works, no crash and no signal nothing
   disturbs the server: what is proved above then holds of all it does. *)
THEOREM QuietIsInOrder ==
    Quiet => (Spec => []RetireesExist /\ RecordsOnlyIdle
                      /\ ({"crash", "signal"} \cap Faults = {} => LivesOnce))
<1> SUFFICES ASSUME Quiet
             PROVE  Spec => []RetireesExist /\ RecordsOnlyIdle
                            /\ ({"crash", "signal"} \cap Faults = {} => LivesOnce)
  OBVIOUS
<1>1. Spec => []RetireesExist /\ RecordsOnlyIdle
  BY QuietNeverThrows, RetireesAlwaysExist, RecordsAlwaysIdle, PTL
<1>2. CASE {"crash", "signal"} \cap Faults = {}
  <2>1. [~Throws]_vars => [~Disturbs]_vars
    BY <1>2 DEF Disturbs, Signal, Crash
  <2>2. Spec => NeverDisturbed
    BY <2>1, QuietNeverThrows, PTL DEF NeverThrows, NeverDisturbed
  <2> QED
    BY <1>1, <2>2, PlayersLiveOnce, PTL
<1>3. CASE {"crash", "signal"} \cap Faults # {}
  BY <1>1, <1>3
<1> QED BY <1>2, <1>3
=============================================================================
