------------------------- MODULE ApplicationProofs -------------------------
(***************************************************************************)
(* Proofs about Application, for every set of tokens and maps, every       *)
(* period and retirement time, and with any of the faults.                 *)
(***************************************************************************)
EXTENDS Application, SequenceTheorems, TLAPS

(***************************************************************************)
(* The map operations.                                                     *)
(***************************************************************************)

(* Put keeps every other entry. *)
LEMMA PutProperties ==
    ASSUME NEW f, NEW k, NEW v
    PROVE  /\ DOMAIN Put(f, k, v) = DOMAIN f \cup {k}
           /\ Put(f, k, v)[k] = v
           /\ \A x \in DOMAIN f : x # k => Put(f, k, v)[x] = f[x]
  BY DEF Put

(* Put gives a function of the same range with one value more. *)
LEMMA PutType ==
    ASSUME NEW S, NEW f, f \in [DOMAIN f -> S], NEW k, NEW v \in S
    PROVE  Put(f, k, v) \in [DOMAIN Put(f, k, v) -> S]
  BY DEF Put

(* Restrict forgets entries and changes none. *)
LEMMA RestrictType ==
    ASSUME NEW S, NEW f, f \in [DOMAIN f -> S], NEW D, D \subseteq DOMAIN f
    PROVE  /\ DOMAIN Restrict(f, D) = D
           /\ \A x \in D : Restrict(f, D)[x] = f[x]
           /\ Restrict(f, D) \in [DOMAIN Restrict(f, D) -> S]
  BY DEF Restrict

(* The conversion to int gives an int. *)
LEMMA WrapType ==
    ASSUME NEW n \in Int
    PROVE  Wrap(n) \in (-IntSpan) .. (IntSpan - 1)
<1>1. IntSpan \in Nat \ {0}  BY TimeAssumption
<1> DEFINE S == 2 * IntSpan
<1>2. S \in Nat \ {0} /\ n + IntSpan \in Int  BY <1>1
<1>3. (n + IntSpan) % S \in 0 .. (S - 1)
  <2> HIDE DEF S
  <2>1. \A a \in Int : a % S \in 0 .. (S - 1)  BY <1>2
  <2> QED BY <2>1, <1>2
<1> QED BY <1>1, <1>3 DEF Wrap
(***************************************************************************)
(* Type correctness.                                                       *)
(***************************************************************************)

(* The empty memory of a process that has just begun is well typed. *)
LEMMA EmptyMemoryType ==
    /\ \A S : EmptyMap \in [DOMAIN EmptyMap -> S]
    /\ DOMAIN EmptyMap = {}
    /\ NewDogs \in [Tokens -> [moving : BOOLEAN, stay : 0 .. RetirementTime]]
    /\ NoCounts \in [Maps -> Nat]
  BY TimeAssumption DEF EmptyMap, NewDogs, NoCounts

(* The initial state is well typed. *)
LEMMA TypeInit == Init => TypeOK
<1> SUFFICES ASSUME Init PROVE TypeOK
  OBVIOUS
<1>1. PlayersType
  BY EmptyMemoryType DEF Init, PlayersType
<1>2. SessionsType
  BY EmptyMemoryType DEF Init, SessionsType, NoDogs, NoCounts
<1>3. HandlerType
  BY TimeAssumption DEF Init, HandlerType
<1>4. DiskType
  BY EmptyMemoryType, OptionAssumption DEF Init, DiskType
<1> QED BY <1>1, <1>2, <1>3, <1>4 DEF TypeOK

(* Adding a player, on a join or from a checkpoint, keeps the types of the
   players and of the sessions. *)
LEMMA AddPlayerType ==
    ASSUME TypeOK, NEW t \in Tokens, NEW m \in Maps, NEW moving \in BOOLEAN,
           AddPlayer(t, m, moving)
    PROVE  PlayersType' /\ SessionsType'
<1>1. PICK s \in Maps : AddDogToSession(t, s) /\ NewPlayer(t, s)
  BY DEF AddPlayer
<1>2. PlayersType'
  <2> DEFINE p == [token |-> t, session |-> s]
  <2>1. p \in Player
    BY DEF Player
  <2>2. players_table' = Put(players_table, count_players, p)
        /\ count_players' = count_players + 1
    BY <1>1 DEF NewPlayer
  <2>3. players_table' \in [DOMAIN players_table' -> Player]
    BY <2>1, <2>2, PutType DEF TypeOK, PlayersType
  <2>4. DOMAIN players_table' \subseteq 0 .. (count_players' - 1)
    <3>1. DOMAIN players_table' = DOMAIN players_table \cup {count_players}
      BY <2>2, PutProperties
    <3> QED BY <2>2, <3>1 DEF TypeOK, PlayersType
  <2> QED BY <2>2, <2>3, <2>4 DEF TypeOK, PlayersType, AddPlayer, InsertToken
<1>3. SessionsType'
  <2>1. sessions' \in Seq(Maps)
    BY <1>1 DEF AddDogToSession, TypeOK, SessionsType
  <2>2. count_add_dogs' \in [Maps -> Nat]
    BY <1>1 DEF AddDogToSession, TypeOK, SessionsType
  <2>3. dogs' = [n \in Maps |-> dogs'[n]]
    BY <1>1 DEF AddDogToSession, TypeOK, SessionsType
  <2>4. ASSUME NEW n \in Maps
        PROVE  /\ DOMAIN dogs'[n] \subseteq 0 .. (count_add_dogs'[n] - 1)
               /\ dogs'[n] \in [DOMAIN dogs'[n] -> Tokens]
    <3>1. CASE n = s
      <4>1. dogs'[n] = Put(dogs[n], count_add_dogs[n], t)
            /\ count_add_dogs'[n] = count_add_dogs[n] + 1
        BY <1>1, <3>1 DEF AddDogToSession, TypeOK, SessionsType
      <4>2. DOMAIN dogs'[n] \subseteq 0 .. (count_add_dogs'[n] - 1)
        <5>1. DOMAIN dogs'[n] = DOMAIN dogs[n] \cup {count_add_dogs[n]}
          BY <4>1 DEF Put
        <5> QED BY <4>1, <5>1 DEF TypeOK, SessionsType
      <4>3. dogs'[n] \in [DOMAIN dogs'[n] -> Tokens]
        BY <4>1, PutType, SMTT(20) DEF TypeOK, SessionsType
      <4> QED BY <4>2, <4>3
    <3>2. CASE n # s
      <4>1. dogs'[n] = dogs[n] /\ count_add_dogs'[n] = count_add_dogs[n]
        BY <1>1, <3>2 DEF AddDogToSession, TypeOK, SessionsType
      <4> QED BY <4>1 DEF TypeOK, SessionsType
    <3> QED BY <3>1, <3>2
  <2>5. dog' \in [Tokens -> [moving : BOOLEAN, stay : 0 .. RetirementTime]]
    BY TimeAssumption DEF AddPlayer, TypeOK, SessionsType
  <2> QED BY <2>1, <2>2, <2>3, <2>4, <2>5 DEF SessionsType
<1> QED BY <1>2, <1>3

(* Removing a dog from the sessions keeps their types. *)
LEMMA DeleteDogType ==
    ASSUME TypeOK, NEW t \in Tokens, NEW k \in Nat, DeleteDogUpTo(t, k),
           UNCHANGED <<sessions, count_add_dogs, dog>>
    PROVE  SessionsType'
<1>1. ASSUME NEW n \in Maps
      PROVE  /\ DOMAIN dogs'[n] \subseteq DOMAIN dogs[n]
             /\ dogs'[n] \in [DOMAIN dogs'[n] -> Tokens]
  <2>1. dogs'[n] = WithoutDog(t, n) \/ dogs'[n] = dogs[n]
    BY DEF DeleteDogUpTo
  <2>2. dogs[n] \in [DOMAIN dogs[n] -> Tokens]
    BY DEF TypeOK, SessionsType
  <2> DEFINE D == {i \in DOMAIN dogs[n] : dogs[n][i] # t}
  <2>3. /\ DOMAIN Restrict(dogs[n], D) = D
        /\ Restrict(dogs[n], D) \in [DOMAIN Restrict(dogs[n], D) -> Tokens]
    BY <2>2, RestrictType, ZenonT(30)
  <2> QED BY <2>1, <2>2, <2>3 DEF WithoutDog
<1>2. dogs' = [n \in Maps |-> dogs'[n]]
  BY DEF DeleteDogUpTo
<1> QED BY <1>1, <1>2 DEF TypeOK, SessionsType
(* SaveGameState writes a well-typed checkpoint. *)
LEMMA CheckpointType ==
    ASSUME TypeOK
    PROVE  /\ DOMAIN Checkpoint = DOMAIN players_table
           /\ Checkpoint \in [DOMAIN Checkpoint -> SavedPlayer]
<1>1. \A i \in DOMAIN players_table :
        /\ players_table[i].token \in Tokens /\ players_table[i].session \in Maps
        /\ dog[players_table[i].token].moving \in BOOLEAN
  BY DEF TypeOK, PlayersType, SessionsType, Player
<1> QED BY <1>1 DEF Checkpoint, SavedPlayer

(* The effect of a save on the disk. *)
LEMMA SaveType ==
    ASSUME TypeOK, UNCHANGED <<records, issued>>,
           UNCHANGED file \/ SaveGameState
    PROVE  DiskType'
<1>1. CASE UNCHANGED file
  BY <1>1 DEF TypeOK, DiskType
<1>2. CASE SaveGameState
  <2>1. DOMAIN file' \subseteq Nat
    BY <1>2, CheckpointType DEF SaveGameState, TypeOK, PlayersType
  <2>2. file' \in [DOMAIN file' -> SavedPlayer]
    BY <1>2, CheckpointType DEF SaveGameState
  <2> QED BY <2>1, <2>2 DEF TypeOK, DiskType
<1> QED BY <1>1, <1>2

(* A new row keeps the table of records well typed. *)
LEMMA AddRecordType ==
    ASSUME TypeOK, NEW t, AddRecord(t)
    PROVE  records' \in [Tokens -> 0 .. MaxRecords]
<1>1. records \in [Tokens -> 0 .. MaxRecords]
  BY DEF TypeOK, DiskType
<1>2. \A n \in 0 .. MaxRecords : AtMost(n + 1, MaxRecords) \in 0 .. MaxRecords
  BY OptionAssumption DEF AtMost
<1>3. \A u \in Tokens :
        records'[u] = IF u = t THEN AtMost(records[u] + 1, MaxRecords) ELSE records[u]
  BY <1>1 DEF AddRecord
<1>4. records' = [u \in Tokens |-> records'[u]]
  BY <1>1 DEF AddRecord
<1> QED BY <1>1, <1>2, <1>3, <1>4

(* Every step of the application keeps the types. *)
LEMMA TypeStep == TypeOK /\ [Next]_vars => TypeOK'
<1> SUFFICES ASSUME TypeOK, [Next]_vars PROVE TypeOK'
  OBVIOUS
<1>1. ASSUME NEW t \in Tokens, NEW m \in Maps, JoinGame(t, m) PROVE TypeOK'
  <2>1. PlayersType' /\ SessionsType'
    BY <1>1, AddPlayerType DEF JoinGame
  <2>2. HandlerType'
    BY <1>1 DEF JoinGame, tickVars, HandlerType, TypeOK
  <2>3. issued' \in [DOMAIN issued' -> Maps] /\ DOMAIN issued' \subseteq Tokens
    <3>1. issued' = Put(issued, t, m)
      BY <1>1 DEF JoinGame
    <3>2. DOMAIN issued' = DOMAIN issued \cup {t}
      BY <3>1, PutProperties
    <3>3. issued' \in [DOMAIN issued' -> Maps]
      BY <3>1, PutType DEF TypeOK, DiskType
    <3> QED BY <3>2, <3>3 DEF TypeOK, DiskType
  <2>4. DiskType'
    BY <1>1, <2>3 DEF JoinGame, diskVars, TypeOK, DiskType
  <2> QED BY <2>1, <2>2, <2>3, <2>4 DEF TypeOK
<1>2. ASSUME NEW t \in Tokens, NEW dir, ChangeMoveDirection(t, dir) PROVE TypeOK'
  <2>1. PlayersType'
    BY <1>2 DEF ChangeMoveDirection, playerVars, PlayersType, TypeOK
  <2>2. dog' \in [Tokens -> [moving : BOOLEAN, stay : 0 .. RetirementTime]]
    BY <1>2, TimeAssumption DEF ChangeMoveDirection, SessionsType, TypeOK
  <2>3. SessionsType'
    BY <1>2, <2>2 DEF ChangeMoveDirection, sessionVars, SessionsType, TypeOK
  <2>4. HandlerType'
    BY <1>2 DEF ChangeMoveDirection, tickVars, HandlerType, TypeOK
  <2>5. DiskType'
    BY <1>2 DEF ChangeMoveDirection, diskVars, DiskType, TypeOK
  <2> QED BY <2>1, <2>2, <2>3, <2>4, <2>5 DEF TypeOK
<1>3. ASSUME NEW d \in Deltas, Tick(d) PROVE TypeOK'
  <2>1. PlayersType'
    BY <1>3 DEF Tick, playerVars, PlayersType, TypeOK
  <2>2. SessionsType'
    BY <1>3 DEF Tick, sessionVars, SessionsType, TypeOK
  <2>3. HandlerType'
    BY <1>3, TimeAssumption DEF Tick, Serving, AtMost, HandlerType, TypeOK
  <2>4. DiskType'
    BY <1>3 DEF Tick, diskVars, DiskType, TypeOK
  <2> QED BY <2>1, <2>2, <2>3, <2>4 DEF TypeOK
<1>4. ASSUME UpdatePlayerState PROVE TypeOK'
  <2>1. at \in 1 .. Len(sessions) /\ sessions[at] \in Maps
    BY <1>4 DEF UpdatePlayerState, Working, TypeOK, HandlerType, SessionsType
  <2>2. \A i \in DOMAIN dogs[sessions[at]] :
          i \in Nat /\ dogs[sessions[at]][i] \in Tokens
    BY <2>1 DEF TypeOK, SessionsType
  <2>3. PICK i \in Nat, t \in Tokens :
          /\ from' = i + 1
          /\ IF Stands(t)
             THEN /\ dog' = [dog EXCEPT ![t].stay =
                                AtMost(StayFor(t), RetirementTime)]
                  /\ to_retirement' =
                        IF Retires(t) THEN Append(to_retirement, t)
                                      ELSE to_retirement
             ELSE UNCHANGED <<dog, to_retirement>>
    BY <1>4, <2>2 DEF UpdatePlayerState
  <2>4. AtMost(StayFor(t), RetirementTime) \in 0 .. RetirementTime
    <3>1. StayFor(t) \in Nat
      BY TimeAssumption, SMTT(20) DEF TypeOK, SessionsType, HandlerType, StayFor
    <3> QED BY <3>1, TimeAssumption DEF AtMost
  <2>5. dog' \in [Tokens -> [moving : BOOLEAN, stay : 0 .. RetirementTime]]
    <3>1. CASE Stands(t)
      <4>1. dog' = [dog EXCEPT ![t] =
                       [moving |-> dog[t].moving,
                        stay |-> AtMost(StayFor(t), RetirementTime)]]
        BY <2>3, <3>1 DEF TypeOK, SessionsType
      <4> QED BY <2>4, <4>1 DEF TypeOK, SessionsType
    <3>2. CASE ~Stands(t)
      BY <2>3, <3>2 DEF TypeOK, SessionsType
    <3> QED BY <3>1, <3>2
  <2>6. to_retirement' \in Seq(Tokens)
    <3>1. to_retirement' \in {to_retirement, Append(to_retirement, t)}
      BY <2>3
    <3> QED BY <3>1 DEF TypeOK, HandlerType
  <2>7. PlayersType'
    BY <1>4 DEF UpdatePlayerState, playerVars, TypeOK, PlayersType
  <2>8. SessionsType'
    BY <1>4, <2>5 DEF UpdatePlayerState, sessionVars, TypeOK, SessionsType
  <2>9. HandlerType'
    BY <1>4, <2>1, <2>3, <2>6 DEF UpdatePlayerState, Working, TypeOK,
       HandlerType
  <2>10. DiskType'
    BY <1>4 DEF UpdatePlayerState, diskVars, TypeOK, DiskType
  <2> QED BY <2>7, <2>8, <2>9, <2>10 DEF TypeOK
<1>5. ASSUME NextSession PROVE TypeOK'
  <2>1. PlayersType'
    BY <1>5 DEF NextSession, playerVars, PlayersType, TypeOK
  <2>2. SessionsType'
    BY <1>5 DEF NextSession, sessionVars, SessionsType, TypeOK
  <2>3. HandlerType'
    BY <1>5 DEF NextSession, Working, HandlerType, TypeOK
  <2>4. DiskType'
    BY <1>5 DEF NextSession, diskVars, DiskType, TypeOK
  <2> QED BY <2>1, <2>2, <2>3, <2>4 DEF TypeOK
<1>6. ASSUME SendDogToRetirement PROVE TypeOK'
  <2>1. PlayersType'
    BY <1>6 DEF SendDogToRetirement, playerVars, PlayersType, TypeOK
  <2>2. SessionsType'
    BY <1>6 DEF SendDogToRetirement, sessionVars, SessionsType, TypeOK
  <2>3. HandlerType'
    BY <1>6 DEF SendDogToRetirement, GoTo, Working, HandlerType, TypeOK
  <2>4. DiskType'
    BY <1>6 DEF SendDogToRetirement, diskVars, DiskType, TypeOK
  <2> QED BY <2>1, <2>2, <2>3, <2>4 DEF TypeOK
<1>7. ASSUME SaveDogRecord PROVE TypeOK'
  <2>1. PlayersType'
    BY <1>7 DEF SaveDogRecord, playerVars, PlayersType, TypeOK
  <2>2. SessionsType'
    BY <1>7 DEF SaveDogRecord, sessionVars, SessionsType, TypeOK
  <2>3. HandlerType'
    BY <1>7 DEF SaveDogRecord, Working, HandlerType, TypeOK
  <2>4. records' \in [Tokens -> 0 .. MaxRecords]
    BY <1>7, AddRecordType DEF SaveDogRecord
  <2>5. DiskType'
    BY <1>7, <2>4 DEF SaveDogRecord, TypeOK, DiskType
  <2> QED BY <2>1, <2>2, <2>3, <2>4, <2>5 DEF TypeOK
<1>8. ASSUME WriteToBDFails PROVE TypeOK'
  <2>1. PlayersType'
    BY <1>8 DEF WriteToBDFails, playerVars, PlayersType, TypeOK
  <2>2. SessionsType'
    BY <1>8 DEF WriteToBDFails, sessionVars, SessionsType, TypeOK
  <2>3. HandlerType'
    BY <1>8 DEF WriteToBDFails, EndTick, Working, HandlerType, TypeOK
  <2>4. records' \in [Tokens -> 0 .. MaxRecords]
    BY <1>8, AddRecordType DEF WriteToBDFails, TypeOK, DiskType
  <2>5. DiskType'
    BY <1>8, <2>4 DEF WriteToBDFails, TypeOK, DiskType
  <2> QED BY <2>1, <2>2, <2>3, <2>4, <2>5 DEF TypeOK
<1>9. ASSUME Down PROVE TypeOK'
  <2>1. PlayersType'
    BY <1>9, EmptyMemoryType DEF Down, PlayersType
  <2>2. SessionsType'
    BY <1>9, EmptyMemoryType DEF Down, SessionsType, NoDogs, NoCounts
  <2>3. HandlerType'
    BY <1>9, TimeAssumption DEF Down, EndTick, HandlerType, TypeOK
  <2>4. DiskType'
    BY <1>9 DEF Down, diskVars, DiskType, TypeOK
  <2> QED BY <2>1, <2>2, <2>3, <2>4 DEF TypeOK
<1>10. ASSUME DeleteDog PROVE TypeOK'
  <2>1. Retiree \in Tokens /\ Len(sessions) + 1 \in Nat
    BY <1>10, SMTT(20) DEF DeleteDog, Working, Retiree, TypeOK, HandlerType, SessionsType
  <2>2. SessionsType'
    BY <1>10, <2>1, DeleteDogType DEF DeleteDog
  <2>3. /\ players_table' \in [DOMAIN players_table' -> Player]
        /\ DOMAIN players_table' \subseteq DOMAIN players_table
    BY <1>10 DEF DeleteDog, WithoutPlayer, Restrict, TypeOK, PlayersType
  <2>4. PlayersType'
    BY <1>10, <2>3 DEF DeleteDog, EraseToken, TypeOK, PlayersType
  <2>5. HandlerType'
    BY <1>10 DEF DeleteDog, Working, HandlerType, TypeOK
  <2>6. DiskType'
    BY <1>10 DEF DeleteDog, diskVars, DiskType, TypeOK
  <2> QED BY <2>1, <2>2, <2>3, <2>4, <2>5, <2>6 DEF TypeOK
<1>11. ASSUME DeleteDogThrows PROVE TypeOK'
  <2>1. Retiree \in Tokens
    BY <1>11 DEF DeleteDogThrows, Working, Retiree, TypeOK, HandlerType
  <2>2. PICK k \in DOMAIN sessions : DeleteDogUpTo(Retiree, k)
    BY <1>11 DEF DeleteDogThrows
  <2>3. k \in Nat
    BY DEF TypeOK, SessionsType
  <2>4. SessionsType'
    BY <1>11, <2>1, <2>2, <2>3, DeleteDogType DEF DeleteDogThrows
  <2>5. PlayersType'
    BY <1>11 DEF DeleteDogThrows, EraseToken, TypeOK, PlayersType
  <2>6. HandlerType'
    BY <1>11 DEF DeleteDogThrows, EndTick, Working, HandlerType, TypeOK
  <2>7. DiskType'
    BY <1>11 DEF DeleteDogThrows, diskVars, DiskType, TypeOK
  <2> QED BY <2>1, <2>2, <2>3, <2>4, <2>5, <2>6, <2>7 DEF TypeOK
<1>12. ASSUME EndRetirement PROVE TypeOK'
  <2>1. PlayersType'
    BY <1>12 DEF EndRetirement, playerVars, PlayersType, TypeOK
  <2>2. SessionsType'
    BY <1>12 DEF EndRetirement, sessionVars, SessionsType, TypeOK
  <2>3. HandlerType'
    BY <1>12 DEF EndRetirement, ClearRetired, GoTo, EndTick, Working,
       HandlerType, TypeOK
  <2>4. DiskType'
    BY <1>12 DEF EndRetirement, diskVars, DiskType, TypeOK
  <2> QED BY <2>1, <2>2, <2>3, <2>4 DEF TypeOK
<1>13. ASSUME SaveIfDue PROVE TypeOK'
  <2>1. PlayersType'
    BY <1>13 DEF SaveIfDue, playerVars, PlayersType, TypeOK
  <2>2. SessionsType'
    BY <1>13 DEF SaveIfDue, sessionVars, SessionsType, TypeOK
  <2>3. Elapsed \in (-IntSpan) .. (IntSpan - 1)
    BY WrapType, TimeAssumption, SMTT(20) DEF Elapsed, TypeOK, HandlerType
  <2>4. current_time' \in (-IntSpan) .. (IntSpan - 1)
    BY <1>13, <2>3, TimeAssumption DEF SaveIfDue, SaveDue
  <2>5. HandlerType'
    BY <1>13, <2>4, TimeAssumption DEF SaveIfDue, EndTick, Working,
       HandlerType, TypeOK
  <2>6. DiskType'
    BY <1>13, SaveType DEF SaveIfDue
  <2> QED BY <2>1, <2>2, <2>3, <2>4, <2>5, <2>6 DEF TypeOK
<1>14. ASSUME Signal PROVE TypeOK'
  <2>1. PlayersType'
    BY <1>14 DEF Signal, playerVars, PlayersType, TypeOK
  <2>2. SessionsType'
    BY <1>14 DEF Signal, sessionVars, SessionsType, TypeOK
  <2>3. HandlerType'
    BY <1>14 DEF Signal, tickVars, HandlerType, TypeOK
  <2>4. DiskType'
    BY <1>14, SaveType DEF Signal
  <2> QED BY <2>1, <2>2, <2>3, <2>4 DEF TypeOK
<1>15. ASSUME Start PROVE TypeOK'
  <2>1. PlayersType'
    BY <1>15 DEF Start, playerVars, PlayersType, TypeOK
  <2>2. SessionsType'
    BY <1>15 DEF Start, sessionVars, SessionsType, TypeOK
  <2>3. HandlerType'
    BY <1>15 DEF Start, tickVars, HandlerType, TypeOK
  <2>4. DiskType'
    BY <1>15 DEF Start, diskVars, DiskType, TypeOK
  <2> QED BY <2>1, <2>2, <2>3, <2>4 DEF TypeOK
<1>16. ASSUME UploadPlayer PROVE TypeOK'
  <2>1. PICK i \in DOMAIN file :
          AddPlayer(file[i].token, file[i].map, file[i].moving) /\ from' = i + 1
    BY <1>16 DEF UploadPlayer
  <2>2. /\ file[i].token \in Tokens /\ file[i].map \in Maps
        /\ file[i].moving \in BOOLEAN /\ i \in Nat
    BY DEF TypeOK, DiskType, SavedPlayer
  <2>3. PlayersType' /\ SessionsType'
    BY <2>1, <2>2, AddPlayerType
  <2>4. HandlerType'
    BY <1>16, <2>1, <2>2 DEF UploadPlayer, TypeOK, HandlerType
  <2>5. DiskType'
    BY <1>16 DEF UploadPlayer, diskVars, TypeOK, DiskType
  <2> QED BY <2>3, <2>4, <2>5 DEF TypeOK
<1>17. ASSUME EndUpload PROVE TypeOK'
  <2>1. PlayersType'
    BY <1>17 DEF EndUpload, playerVars, PlayersType, TypeOK
  <2>2. SessionsType'
    BY <1>17 DEF EndUpload, sessionVars, SessionsType, TypeOK
  <2>3. HandlerType'
    BY <1>17 DEF EndUpload, HandlerType, TypeOK
  <2>4. DiskType'
    BY <1>17 DEF EndUpload, diskVars, DiskType, TypeOK
  <2> QED BY <2>1, <2>2, <2>3, <2>4 DEF TypeOK
<1>18. ASSUME UNCHANGED vars PROVE TypeOK'
  BY <1>18 DEF vars, playerVars, sessionVars, tickVars, diskVars,
               TypeOK, PlayersType, SessionsType, HandlerType, DiskType
<1> QED
  BY <1>1, <1>2, <1>3, <1>4, <1>5, <1>6, <1>7, <1>8, <1>9, <1>10, <1>11, <1>12,
     <1>13, <1>14, <1>15, <1>16, <1>17, <1>18
  DEF Next, Request, StartTick, TickStep, Retirement, Upload,
      NullPlayer, Exit, Crash

(* Every variable has its type in every reachable state. *)
THEOREM TypeCorrect == Spec => []TypeOK
<1>1. Init => TypeOK
  BY TypeInit
<1>2. TypeOK /\ [Next]_vars => TypeOK'
  BY TypeStep
<1> QED BY <1>1, <1>2, PTL DEF Spec
(***************************************************************************)
(* The roster: tokens tell players apart.                                  *)
(***************************************************************************)

(* A join with a new token, or a loaded player that is not yet there. *)
LEMMA AddPlayerTable ==
    ASSUME TypeOK, NEW t \in Tokens, NEW m, NEW moving, AddPlayer(t, m, moving)
    PROVE  /\ count_players \notin DOMAIN players_table
           /\ DOMAIN players_table' = DOMAIN players_table \cup {count_players}
           /\ players_table'[count_players].token = t
           /\ \A p \in DOMAIN players_table : players_table'[p] = players_table[p]
           /\ player_tokens' = player_tokens \cup {t}
<1>1. count_players \notin DOMAIN players_table
  BY DEF TypeOK, PlayersType
<1>2. PICK s \in Maps : NewPlayer(t, s)
  BY DEF AddPlayer
<1> DEFINE v == [token |-> t, session |-> s]
<1>3. players_table' = Put(players_table, count_players, v)
  BY <1>2 DEF NewPlayer
<1> HIDE DEF v
<1>4. /\ DOMAIN players_table' = DOMAIN players_table \cup {count_players}
      /\ players_table'[count_players] = v
      /\ \A p \in DOMAIN players_table :
            p # count_players => players_table'[p] = players_table[p]
  BY <1>3 DEF Put
<1> QED BY <1>1, <1>4 DEF v, AddPlayer, InsertToken

(* A token that no player has keeps the tokens apart. *)
LEMMA AddPlayerUnique ==
    ASSUME TypeOK, UniqueTokens, NEW t \in Tokens, ~HasPlayer(t),
           NEW m, NEW moving, AddPlayer(t, m, moving)
    PROVE  UniqueTokens'
<1> SUFFICES ASSUME NEW p \in DOMAIN players_table', NEW q \in DOMAIN players_table',
                    players_table'[p].token = players_table'[q].token
             PROVE  p = q
  BY DEF UniqueTokens
<1>1. \A r \in DOMAIN players_table : players_table[r].token # t
  BY DEF HasPlayer
<1>2. \A r \in DOMAIN players_table' :
        \/ r = count_players /\ players_table'[r].token = t
        \/ r \in DOMAIN players_table /\ players_table'[r] = players_table[r]
  BY AddPlayerTable
<1> QED BY <1>1, <1>2 DEF UniqueTokens

(* Init has no players and no checkpoint. *)
LEMMA RosterInit == Init => RosterInv
  BY EmptyMemoryType
  DEF Init, RosterInv, UniqueTokens, UniqueSaved, OnlyIssued, LoadedBelow

(* A checkpoint has the tokens of the players. *)
LEMMA SaveRoster ==
    ASSUME RosterInv, server' \notin {"down", "loading"},
           UNCHANGED <<players_table, issued>>,
           UNCHANGED file \/ SaveGameState
    PROVE  RosterInv'
<1>1. CASE UNCHANGED file
  BY <1>1 DEF RosterInv, UniqueTokens, UniqueSaved, OnlyIssued, LoadedBelow
<1>2. CASE SaveGameState
  <2>1. /\ DOMAIN file' = DOMAIN players_table
        /\ \A i \in DOMAIN players_table : file'[i].token = players_table[i].token
    BY <1>2 DEF SaveGameState, Checkpoint
  <2>2. UniqueSaved' /\ OnlyIssued'
    BY <2>1 DEF RosterInv, UniqueTokens, UniqueSaved, OnlyIssued
  <2> QED BY <2>2 DEF RosterInv, UniqueTokens, LoadedBelow
<1> QED BY <1>1, <1>2

(* Every step keeps the roster. *)
LEMMA RosterStep == TypeOK /\ RosterInv /\ [Next]_vars => RosterInv'
<1> SUFFICES ASSUME TypeOK, RosterInv, [Next]_vars PROVE RosterInv'
  OBVIOUS
<1>1. ASSUME NEW t \in Tokens, NEW m \in Maps, JoinGame(t, m) PROVE RosterInv'
  <2>1. ~HasPlayer(t)
    BY <1>1 DEF JoinGame, HasPlayer, RosterInv, OnlyIssued
  <2>2. UniqueTokens'
    BY <1>1, <2>1, AddPlayerUnique DEF JoinGame, RosterInv
  <2>3. DOMAIN issued' = DOMAIN issued \cup {t}
    BY <1>1, PutProperties DEF JoinGame
  <2>4. OnlyIssued'
    BY <1>1, <2>3, AddPlayerTable DEF JoinGame, RosterInv, OnlyIssued, diskVars
  <2> QED BY <1>1, <2>2, <2>4
          DEF JoinGame, Serving, diskVars, RosterInv, UniqueSaved, LoadedBelow
<1>2. ASSUME UploadPlayer PROVE RosterInv'
  <2>1. PICK i \in DOMAIN file :
          /\ i \in {j \in DOMAIN file : j >= from}
          /\ AddPlayer(file[i].token, file[i].map, file[i].moving)
          /\ from' = i + 1
    BY <1>2 DEF UploadPlayer, Least
  <2>2. file[i].token \in Tokens /\ DOMAIN file \subseteq Nat /\ from \in Nat
    BY DEF TypeOK, DiskType, SavedPlayer, HandlerType
  <2>3. ~HasPlayer(file[i].token)
    BY <1>2, <2>1, <2>2
    DEF UploadPlayer, HasPlayer, RosterInv, UniqueSaved, LoadedBelow
  <2>4. UniqueTokens'
    BY <2>1, <2>2, <2>3, AddPlayerUnique DEF RosterInv
  <2>5. UNCHANGED <<server, file, issued>>
    BY <1>2 DEF UploadPlayer, diskVars
  <2>6. OnlyIssued'
    BY <2>1, <2>2, <2>5, AddPlayerTable DEF RosterInv, OnlyIssued
  <2>7. LoadedBelow'
    <3> SUFFICES ASSUME NEW p \in DOMAIN players_table'
                 PROVE  \E j \in DOMAIN file :
                          j < i + 1 /\ file[j].token = players_table'[p].token
      BY <2>1, <2>5 DEF LoadedBelow
    <3>1. \/ players_table'[p].token = file[i].token
          \/ p \in DOMAIN players_table /\ players_table'[p] = players_table[p]
      BY <2>1, <2>2, AddPlayerTable
    <3>2. CASE players_table'[p].token = file[i].token
      BY <2>2, <3>2
    <3>3. CASE p \in DOMAIN players_table /\ players_table'[p] = players_table[p]
      <4>1. PICK j \in DOMAIN file :
              j < from /\ file[j].token = players_table[p].token
        BY <1>2, <3>3 DEF UploadPlayer, RosterInv, LoadedBelow
      <4> QED BY <2>1, <2>2, <3>3, <4>1
    <3> QED BY <3>1, <3>2, <3>3
  <2> QED BY <2>4, <2>5, <2>6, <2>7 DEF RosterInv, UniqueSaved
<1>3. ASSUME DeleteDog PROVE RosterInv'
  <2>1. /\ DOMAIN players_table' \subseteq DOMAIN players_table
        /\ \A p \in DOMAIN players_table' : players_table'[p] = players_table[p]
    BY <1>3 DEF DeleteDog, WithoutPlayer, Restrict
  <2>2. UniqueTokens' /\ OnlyIssued'
    BY <1>3, <2>1 DEF DeleteDog, diskVars, RosterInv, UniqueTokens, OnlyIssued
  <2> QED BY <1>3, <2>2
          DEF DeleteDog, Working, diskVars, RosterInv, UniqueSaved, LoadedBelow
<1>4. ASSUME SaveIfDue \/ Signal PROVE RosterInv'
  BY <1>4, SaveRoster
  DEF SaveIfDue, Signal, Working, playerVars
<1>5. ASSUME Down PROVE RosterInv'
  BY <1>5, EmptyMemoryType
  DEF Down, diskVars, RosterInv, UniqueTokens, UniqueSaved, OnlyIssued, LoadedBelow
<1>6. ASSUME Start \/ EndUpload PROVE RosterInv'
  BY <1>6
  DEF Start, EndUpload, playerVars, tickVars, diskVars,
      RosterInv, UniqueTokens, UniqueSaved, OnlyIssued, LoadedBelow
<1>7. ASSUME UNCHANGED <<players_table, file, issued>>,
             \/ server' \notin {"down", "loading"}
             \/ UNCHANGED <<server, from>>
      PROVE  RosterInv'
  BY <1>7 DEF RosterInv, UniqueTokens, UniqueSaved, OnlyIssued, LoadedBelow
<1>8. ASSUME NEW t, NEW dir, ChangeMoveDirection(t, dir) PROVE RosterInv'
  BY <1>7, <1>8 DEF ChangeMoveDirection, Serving, playerVars, diskVars
<1>9. ASSUME NEW d, Tick(d) PROVE RosterInv'
  BY <1>7, <1>9 DEF Tick, Serving, playerVars, diskVars
<1>10. ASSUME \/ UpdatePlayerState \/ NextSession \/ SendDogToRetirement
              \/ EndRetirement
       PROVE  RosterInv'
  BY <1>7, <1>10
  DEF UpdatePlayerState, NextSession, SendDogToRetirement, EndRetirement,
      Working, playerVars, diskVars
<1>11. ASSUME SaveDogRecord \/ WriteToBDFails \/ DeleteDogThrows
       PROVE  RosterInv'
  BY <1>7, <1>11
  DEF SaveDogRecord, WriteToBDFails, DeleteDogThrows, Working, playerVars, diskVars
<1>12. ASSUME UNCHANGED vars PROVE RosterInv'
  BY <1>7, <1>12 DEF vars, playerVars, tickVars, diskVars
<1> QED
  BY <1>1, <1>2, <1>3, <1>4, <1>5, <1>6, <1>8, <1>9, <1>10, <1>11, <1>12
  DEF Next, Request, StartTick, TickStep, Retirement, Upload,
      NullPlayer, Exit, Crash
(***************************************************************************)
(* Tokens, players and dogs belong together.                               *)
(***************************************************************************)

(* A new player gets a dog in its session, and nobody else loses one. *)
LEMMA AddPlayerDogs ==
    ASSUME TypeOK, RosterInv, DogInv, UniqueTokens',
           NEW t \in Tokens, ~HasPlayer(t), NEW m \in Maps, NEW moving,
           AddPlayer(t, m, moving)
    PROVE  DogInv'
<1>1. PICK s \in Maps : AddDogToSession(t, s) /\ NewPlayer(t, s)
  BY DEF AddPlayer
<1>2. /\ count_players \notin DOMAIN players_table
      /\ DOMAIN players_table' = DOMAIN players_table \cup {count_players}
      /\ players_table'[count_players] = [token |-> t, session |-> s]
      /\ \A p \in DOMAIN players_table : players_table'[p] = players_table[p]
      /\ player_tokens' = player_tokens \cup {t}
  BY <1>1, AddPlayerTable DEF NewPlayer, Put
<1>3. count_add_dogs[s] \notin DOMAIN dogs[s]
  BY DEF TypeOK, SessionsType
<1>4. /\ dogs'[s] = Put(dogs[s], count_add_dogs[s], t)
      /\ \A n \in Maps : n # s => dogs'[n] = dogs[n]
  BY <1>1 DEF AddDogToSession, TypeOK, SessionsType
<1>5. /\ DOMAIN dogs'[s] = DOMAIN dogs[s] \cup {count_add_dogs[s]}
      /\ dogs'[s][count_add_dogs[s]] = t
      /\ \A i \in DOMAIN dogs[s] : dogs'[s][i] = dogs[s][i]
  BY <1>3, <1>4 DEF Put
<1>6. \A n \in Maps : \A i \in DOMAIN dogs[n] :
        i \in DOMAIN dogs'[n] /\ dogs'[n][i] = dogs[n][i]
  BY <1>4, <1>5
<1>7. \A n \in Maps : \A i \in DOMAIN dogs'[n] :
        \/ n = s /\ dogs'[n][i] = t
        \/ i \in DOMAIN dogs[n] /\ dogs'[n][i] = dogs[n][i]
  BY <1>4, <1>5
<1>8. DogsInSessions'
  <2>1. \A n \in Maps : (\E j \in DOMAIN sessions : sessions[j] = n) \/ n = s
                          => \E j \in DOMAIN sessions' : sessions'[j] = n
    <3>1. sessions \in Seq(Maps)
      BY DEF TypeOK, SessionsType
    <3>2. CASE sessions' = sessions /\ \E j \in DOMAIN sessions : sessions[j] = s
      BY <3>2
    <3>3. CASE sessions' = Append(sessions, s)
      <4>1. /\ DOMAIN sessions' = 1 .. (Len(sessions) + 1)
            /\ DOMAIN sessions = 1 .. Len(sessions) /\ Len(sessions) \in Nat
            /\ \A j \in DOMAIN sessions : sessions'[j] = sessions[j]
            /\ sessions'[Len(sessions) + 1] = s
        BY <3>1, <3>3
      <4> QED BY <4>1
    <3> QED BY <1>1, <3>2, <3>3 DEF AddDogToSession
  <2>2. \A n \in Maps : DOMAIN dogs'[n] # {} => n = s \/ DOMAIN dogs[n] # {}
    BY <1>4
  <2> QED BY <2>1, <2>2 DEF DogsInSessions, DogInv
<1>9. DogsHavePlayers'
  <2> SUFFICES ASSUME NEW n \in Maps, NEW i \in DOMAIN dogs'[n]
               PROVE  \E p \in DOMAIN players_table' :
                        players_table'[p] = [token |-> dogs'[n][i], session |-> n]
    BY DEF DogsHavePlayers, UniqueTokens
  <2>1. CASE n = s /\ dogs'[n][i] = t
    BY <2>1, <1>2
  <2>2. CASE i \in DOMAIN dogs[n] /\ dogs'[n][i] = dogs[n][i]
    BY <2>2, <1>2 DEF DogInv, DogsHavePlayers
  <2> QED BY <2>1, <2>2, <1>7
<1>10. TokensHavePlayers'
  BY <1>2 DEF DogInv, TokensHavePlayers, HasPlayer
<1>11. LivePlayersPlay'
  <2> SUFFICES ASSUME NEW p \in DOMAIN players_table',
                      players_table'[p].token \in player_tokens'
               PROVE  \E i \in DOMAIN dogs'[players_table'[p].session] :
                        dogs'[players_table'[p].session][i]
                            = players_table'[p].token
    BY DEF LivePlayersPlay, DogIn
  <2>1. CASE p = count_players
    BY <2>1, <1>2, <1>5 DEF DogIn
  <2>2. CASE p \in DOMAIN players_table
    <3>1. players_table'[p] = players_table[p] /\ players_table[p].token # t
      BY <2>2, <1>2 DEF HasPlayer
    <3>2. players_table[p].token \in player_tokens /\ players_table[p].session \in Maps
      BY <2>2, <3>1, <1>2 DEF TypeOK, PlayersType, Player
    <3>3. DogIn(players_table[p].token, players_table[p].session)
      BY <2>2, <3>2 DEF DogInv, LivePlayersPlay
    <3> QED BY <3>1, <3>2, <3>3, <1>6 DEF DogIn
  <2> QED BY <2>1, <2>2, <1>2
<1> QED BY <1>8, <1>9, <1>10, <1>11 DEF DogInv

(* DeleteDog of the sessions removes dogs of t and no other. *)
LEMMA DeleteDogUpToEffect ==
    ASSUME NEW t, NEW k, DeleteDogUpTo(t, k)
    PROVE  \A n \in Maps :
             /\ DOMAIN dogs'[n] \subseteq DOMAIN dogs[n]
             /\ \A i \in DOMAIN dogs'[n] : dogs'[n][i] = dogs[n][i]
             /\ \A i \in DOMAIN dogs[n] : dogs[n][i] # t => i \in DOMAIN dogs'[n]
<1> SUFFICES ASSUME NEW n \in Maps
             PROVE  /\ DOMAIN dogs'[n] \subseteq DOMAIN dogs[n]
                    /\ \A i \in DOMAIN dogs'[n] : dogs'[n][i] = dogs[n][i]
                    /\ \A i \in DOMAIN dogs[n] :
                          dogs[n][i] # t => i \in DOMAIN dogs'[n]
  OBVIOUS
<1>1. dogs'[n] = WithoutDog(t, n) \/ dogs'[n] = dogs[n]
  BY DEF DeleteDogUpTo
<1>2. CASE dogs'[n] = WithoutDog(t, n)
  BY <1>2 DEF WithoutDog, Restrict
<1>3. CASE dogs'[n] = dogs[n]
  BY <1>3
<1> QED BY <1>1, <1>2, <1>3

(* The dog, the token and the player of t are gone, and no others. *)
LEMMA DeleteDogDogs ==
    ASSUME TypeOK, RosterInv, DogInv, DeleteDog
    PROVE  DogInv'
<1> DEFINE t == Retiree
<1>1. /\ player_tokens' = player_tokens \ {t}
      /\ DeleteDogUpTo(t, Len(sessions) + 1)
      /\ players_table' = WithoutPlayer(t)
      /\ UNCHANGED sessions
  BY DEF DeleteDog, EraseToken
<1> HIDE DEF t
<1>2. \A n \in Maps :
        /\ DOMAIN dogs'[n] \subseteq DOMAIN dogs[n]
        /\ \A i \in DOMAIN dogs'[n] : dogs'[n][i] = dogs[n][i]
        /\ \A i \in DOMAIN dogs[n] : dogs[n][i] # t => i \in DOMAIN dogs'[n]
  BY <1>1, DeleteDogUpToEffect
<1>3. \A p : p \in DOMAIN players_table'
               <=> p \in DOMAIN players_table /\ players_table[p].token # t
  BY <1>1 DEF WithoutPlayer, Restrict
<1>4. \A p \in DOMAIN players_table' : players_table'[p] = players_table[p]
  BY <1>1 DEF WithoutPlayer, Restrict
<1>5. \A n \in Maps : \A i \in DOMAIN dogs'[n] : dogs[n][i] # t
  <2> SUFFICES ASSUME NEW n \in Maps, NEW i \in DOMAIN dogs'[n]
               PROVE  dogs[n][i] # t
    OBVIOUS
  <2>1. PICK j \in DOMAIN sessions : sessions[j] = n
    BY <1>2 DEF DogInv, DogsInSessions
  <2>2. j \in 1 .. (Len(sessions) + 1 - 1)
    BY DEF TypeOK, SessionsType
  <2>3. dogs'[n] = WithoutDog(t, n)
    BY <1>1, <2>1, <2>2 DEF DeleteDogUpTo
  <2> QED BY <2>3 DEF WithoutDog, Restrict
<1>6. DogsInSessions'
  BY <1>1, <1>2 DEF DogInv, DogsInSessions
<1>7. DogsHavePlayers'
  <2> SUFFICES ASSUME NEW n \in Maps, NEW i \in DOMAIN dogs'[n]
               PROVE  \E p \in DOMAIN players_table' :
                        /\ players_table'[p] = [token |-> dogs'[n][i], session |-> n]
                        /\ \A q \in DOMAIN players_table' :
                              players_table'[q].token = dogs'[n][i] => q = p
    BY DEF DogsHavePlayers
  <2>1. i \in DOMAIN dogs[n] /\ dogs'[n][i] = dogs[n][i] /\ dogs[n][i] # t
    BY <1>2, <1>5
  <2>2. PICK p \in DOMAIN players_table :
          /\ players_table[p] = [token |-> dogs[n][i], session |-> n]
          /\ \A q \in DOMAIN players_table :
                players_table[q].token = dogs[n][i] => q = p
    BY <2>1 DEF DogInv, DogsHavePlayers
  <2> QED BY <2>1, <2>2, <1>3, <1>4
<1>8. TokensHavePlayers'
  BY <1>1, <1>3, <1>4 DEF DogInv, TokensHavePlayers, HasPlayer
<1>9. LivePlayersPlay'
  <2> SUFFICES ASSUME NEW p \in DOMAIN players_table',
                      players_table'[p].token \in player_tokens'
               PROVE  \E i \in DOMAIN dogs'[players_table'[p].session] :
                        dogs'[players_table'[p].session][i]
                            = players_table'[p].token
    BY DEF LivePlayersPlay, DogIn
  <2>1. /\ p \in DOMAIN players_table /\ players_table'[p] = players_table[p]
        /\ players_table[p].token # t /\ players_table[p].token \in player_tokens
        /\ players_table[p].session \in Maps
    BY <1>1, <1>3, <1>4 DEF TypeOK, PlayersType, Player
  <2>2. DogIn(players_table[p].token, players_table[p].session)
    BY <2>1 DEF DogInv, LivePlayersPlay
  <2> QED BY <2>1, <2>2, <1>2 DEF DogIn
<1> QED BY <1>6, <1>7, <1>8, <1>9 DEF DogInv

(* When DeleteDog throws, t has lost its token, and its dog in some sessions. *)
LEMMA DeleteDogThrowsDogs ==
    ASSUME TypeOK, DogInv, DeleteDogThrows
    PROVE  DogInv'
<1> DEFINE t == Retiree
<1>1. PICK k \in DOMAIN sessions : DeleteDogUpTo(t, k)
  BY DEF DeleteDogThrows
<1>2. /\ player_tokens' = player_tokens \ {t}
      /\ UNCHANGED <<players_table, sessions>>
  BY DEF DeleteDogThrows, EraseToken
<1> HIDE DEF t
<1>3. \A n \in Maps :
        /\ DOMAIN dogs'[n] \subseteq DOMAIN dogs[n]
        /\ \A i \in DOMAIN dogs'[n] : dogs'[n][i] = dogs[n][i]
        /\ \A i \in DOMAIN dogs[n] : dogs[n][i] # t => i \in DOMAIN dogs'[n]
  BY <1>1, DeleteDogUpToEffect
<1>4. DogsInSessions'
  BY <1>2, <1>3 DEF DogInv, DogsInSessions
<1>5. DogsHavePlayers'
  <2> SUFFICES ASSUME NEW n \in Maps, NEW i \in DOMAIN dogs'[n]
               PROVE  \E p \in DOMAIN players_table :
                        /\ players_table[p] = [token |-> dogs'[n][i], session |-> n]
                        /\ \A q \in DOMAIN players_table :
                              players_table[q].token = dogs'[n][i] => q = p
    BY <1>2 DEF DogsHavePlayers
  <2> QED BY <1>3 DEF DogInv, DogsHavePlayers
<1>6. TokensHavePlayers'
  BY <1>2 DEF DogInv, TokensHavePlayers, HasPlayer
<1>7. LivePlayersPlay'
  <2> SUFFICES ASSUME NEW p \in DOMAIN players_table,
                      players_table[p].token \in player_tokens,
                      players_table[p].token # t
               PROVE  \E i \in DOMAIN dogs'[players_table[p].session] :
                        dogs'[players_table[p].session][i] = players_table[p].token
    BY <1>2 DEF LivePlayersPlay, DogIn
  <2>1. players_table[p].session \in Maps
    BY DEF TypeOK, PlayersType, Player
  <2>2. DogIn(players_table[p].token, players_table[p].session)
    BY DEF DogInv, LivePlayersPlay
  <2> QED BY <2>1, <2>2, <1>2, <1>3 DEF DogIn
<1> QED BY <1>4, <1>5, <1>6, <1>7 DEF DogInv

(* There are no dogs in the memory of a new process. *)
LEMMA DogInit == Init => DogInv
  BY EmptyMemoryType
  DEF Init, NoDogs, DogInv, DogsInSessions, DogsHavePlayers, TokensHavePlayers,
      LivePlayersPlay

(* Every step keeps tokens, players and dogs together. *)
LEMMA DogStep ==
    TypeOK /\ RosterInv /\ RosterInv' /\ DogInv /\ [Next]_vars => DogInv'
<1> SUFFICES ASSUME TypeOK, RosterInv, RosterInv', DogInv, [Next]_vars
             PROVE  DogInv'
  OBVIOUS
<1>1. ASSUME NEW t \in Tokens, NEW m \in Maps, JoinGame(t, m) PROVE DogInv'
  <2>1. ~HasPlayer(t)
    BY <1>1 DEF JoinGame, HasPlayer, RosterInv, OnlyIssued
  <2> QED BY <1>1, <2>1, AddPlayerDogs DEF JoinGame, RosterInv
<1>2. ASSUME UploadPlayer PROVE DogInv'
  <2>1. PICK i \in DOMAIN file :
          /\ i \in {j \in DOMAIN file : j >= from}
          /\ AddPlayer(file[i].token, file[i].map, file[i].moving)
    BY <1>2 DEF UploadPlayer, Least
  <2>2. /\ file[i].token \in Tokens /\ file[i].map \in Maps
        /\ DOMAIN file \subseteq Nat /\ from \in Nat
    BY DEF TypeOK, DiskType, SavedPlayer, HandlerType
  <2>3. ~HasPlayer(file[i].token)
    BY <1>2, <2>1, <2>2
    DEF UploadPlayer, HasPlayer, RosterInv, UniqueSaved, LoadedBelow
  <2> QED BY <2>1, <2>2, <2>3, AddPlayerDogs DEF RosterInv
<1>3. ASSUME DeleteDog PROVE DogInv'
  BY <1>3, DeleteDogDogs
<1>4. ASSUME DeleteDogThrows PROVE DogInv'
  BY <1>4, DeleteDogThrowsDogs
<1>5. ASSUME Down PROVE DogInv'
  BY <1>5, EmptyMemoryType
  DEF Down, NoDogs, DogInv, DogsInSessions, DogsHavePlayers, TokensHavePlayers,
      LivePlayersPlay
<1>6. ASSUME UNCHANGED <<players_table, player_tokens, sessions, dogs>>
      PROVE  DogInv'
  BY <1>6
  DEF DogInv, DogsInSessions, DogsHavePlayers, TokensHavePlayers, LivePlayersPlay,
      HasPlayer, DogIn
<1>7. ASSUME NEW t, NEW dir, ChangeMoveDirection(t, dir) PROVE DogInv'
  BY <1>6, <1>7 DEF ChangeMoveDirection, playerVars, sessionVars
<1>8. ASSUME NEW d, Tick(d) PROVE DogInv'
  BY <1>6, <1>8 DEF Tick, playerVars, sessionVars
<1>9. ASSUME \/ UpdatePlayerState \/ NextSession \/ SendDogToRetirement
             \/ SaveDogRecord \/ WriteToBDFails \/ EndRetirement
      PROVE  DogInv'
  BY <1>6, <1>9
  DEF UpdatePlayerState, NextSession, SendDogToRetirement, SaveDogRecord,
      WriteToBDFails, EndRetirement, playerVars, sessionVars
<1>10. ASSUME SaveIfDue \/ Signal \/ Start \/ EndUpload PROVE DogInv'
  BY <1>6, <1>10
  DEF SaveIfDue, Signal, Start, EndUpload, playerVars, sessionVars
<1>11. ASSUME UNCHANGED vars PROVE DogInv'
  BY <1>6, <1>11 DEF vars, playerVars, sessionVars
<1> QED
  BY <1>1, <1>2, <1>3, <1>4, <1>5, <1>7, <1>8, <1>9, <1>10, <1>11
  DEF Next, Request, StartTick, TickStep, Retirement, Upload,
      NullPlayer, Exit, Crash

(***************************************************************************)
(* A player without a token awaits its retirement.                         *)
(***************************************************************************)

(* Nobody is there yet. *)
LEMMA GhostInit == Init => GhostInv
  BY EmptyMemoryType DEF Init, GhostInv, RetiredGone, GhostsPending

(* Every step keeps the players without a token on the list, and the passed
   part of the list without players. *)
LEMMA GhostStep == TypeOK /\ GhostInv /\ [Next]_vars => GhostInv'
<1> SUFFICES ASSUME TypeOK, GhostInv, [Next]_vars PROVE GhostInv'
  OBVIOUS
<1>1. ASSUME NEW t \in Tokens, NEW m, NEW moving, AddPlayer(t, m, moving),
             UNCHANGED <<to_retirement, phase>>, phase = "idle"
      PROVE  GhostInv'
  <2>1. GhostsPending'
    BY <1>1, AddPlayerTable DEF GhostInv, GhostsPending
  <2> QED BY <1>1, <2>1 DEF GhostInv, RetiredGone
<1>2. ASSUME NEW t \in Tokens, NEW m \in Maps, JoinGame(t, m) PROVE GhostInv'
  BY <1>1, <1>2 DEF JoinGame, Serving, tickVars
<1>3. ASSUME UploadPlayer PROVE GhostInv'
  <2>1. PICK i \in DOMAIN file : AddPlayer(file[i].token, file[i].map, file[i].moving)
    BY <1>3 DEF UploadPlayer
  <2>2. file[i].token \in Tokens
    BY DEF TypeOK, DiskType, SavedPlayer
  <2>3. phase = "idle" /\ UNCHANGED <<to_retirement, phase>>
    BY <1>3 DEF UploadPlayer, TypeOK, HandlerType
  <2> QED BY <1>1, <2>1, <2>2, <2>3
<1>4. ASSUME UpdatePlayerState PROVE GhostInv'
  <2>1. phase' = "update" /\ UNCHANGED <<players_table, player_tokens>>
    BY <1>4 DEF UpdatePlayerState, Working, playerVars
  <2>2. at \in 1 .. Len(sessions) /\ sessions[at] \in Maps
    BY <1>4 DEF UpdatePlayerState, Working, TypeOK, HandlerType, SessionsType
  <2>3. PICK t \in Tokens : to_retirement' \in {to_retirement, Append(to_retirement, t)}
    BY <1>4, <2>2 DEF UpdatePlayerState, TypeOK, SessionsType
  <2>4. \A i \in DOMAIN to_retirement :
          i \in DOMAIN to_retirement' /\ to_retirement'[i] = to_retirement[i]
    BY <2>3, SMTT(20) DEF TypeOK, HandlerType
  <2> QED BY <2>1, <2>4 DEF GhostInv, RetiredGone, GhostsPending
<1>5. ASSUME SendDogToRetirement PROVE GhostInv'
  <2>1. at' = 1 /\ UNCHANGED <<players_table, player_tokens, to_retirement>>
    BY <1>5 DEF SendDogToRetirement, GoTo, playerVars
  <2>2. \A i \in DOMAIN to_retirement : ~(i < 1)
    BY DEF TypeOK, HandlerType
  <2> QED BY <2>1, <2>2 DEF GhostInv, RetiredGone, GhostsPending
<1>6. ASSUME SaveDogRecord PROVE GhostInv'
  BY <1>6
  DEF SaveDogRecord, Working, playerVars, GhostInv, RetiredGone, GhostsPending,
      HasPlayer
<1>7. ASSUME DeleteDog PROVE GhostInv'
  <2> DEFINE t == Retiree
  <2>1. /\ player_tokens' = player_tokens \ {t}
        /\ players_table' = WithoutPlayer(t)
        /\ at' = at + 1
        /\ UNCHANGED to_retirement
    BY <1>7 DEF DeleteDog, EraseToken
  <2>2. /\ phase = "delete" /\ at \in Nat
        /\ DOMAIN to_retirement \subseteq Nat
    BY <1>7 DEF DeleteDog, Working, TypeOK, HandlerType
  <2>3. \A p \in DOMAIN players_table' :
          /\ p \in DOMAIN players_table /\ players_table'[p] = players_table[p]
          /\ players_table[p].token # t
    BY <2>1 DEF WithoutPlayer, Restrict
  <2>4. RetiredGone'
    <3> SUFFICES ASSUME NEW i \in DOMAIN to_retirement, i < at + 1,
                        NEW p \in DOMAIN players_table',
                        players_table'[p].token = to_retirement[i]
                 PROVE  FALSE
      BY <2>1 DEF RetiredGone, HasPlayer
    <3>1. CASE i < at
      BY <3>1, <2>2, <2>3 DEF GhostInv, RetiredGone, HasPlayer
    <3>2. CASE i = at
      BY <3>2, <2>3 DEF Retiree
    <3> QED BY <3>1, <3>2, <2>2
  <2>5. GhostsPending'
    BY <2>1, <2>3 DEF GhostInv, GhostsPending
  <2> QED BY <2>4, <2>5 DEF GhostInv
<1>8. ASSUME DeleteDogThrows PROVE GhostInv'
  <2>1. /\ player_tokens' = player_tokens \ {Retiree}
        /\ phase' = "idle"
        /\ UNCHANGED <<players_table, to_retirement>>
    BY <1>8 DEF DeleteDogThrows, EraseToken, EndTick
  <2>2. at \in DOMAIN to_retirement
    BY <1>8 DEF DeleteDogThrows, Working, TypeOK, HandlerType
  <2> QED BY <2>1, <2>2 DEF GhostInv, RetiredGone, GhostsPending, Retiree
<1>9. ASSUME EndRetirement PROVE GhostInv'
  <2>1. /\ phase' \in {"save", "idle"}
        /\ UNCHANGED <<players_table, player_tokens>>
    BY <1>9 DEF EndRetirement, GoTo, EndTick, playerVars
  <2>2. \A i \in DOMAIN to_retirement : ~HasPlayer(to_retirement[i])
    BY <1>9
    DEF EndRetirement, Working, GhostInv, RetiredGone, TypeOK, HandlerType
  <2>3. \A p \in DOMAIN players_table : players_table[p].token \in player_tokens
    BY <2>2 DEF GhostInv, GhostsPending, HasPlayer
  <2> QED BY <2>1, <2>3 DEF GhostInv, RetiredGone, GhostsPending
<1>10. ASSUME Down PROVE GhostInv'
  BY <1>10, EmptyMemoryType DEF Down, EndTick, GhostInv, RetiredGone, GhostsPending
<1>11. ASSUME UNCHANGED <<players_table, player_tokens, to_retirement>>,
              \/ phase' \notin {"retire", "delete"}
              \/ UNCHANGED <<phase, at>>
       PROVE  GhostInv'
  BY <1>11 DEF GhostInv, RetiredGone, GhostsPending, HasPlayer
<1>12. ASSUME NEW t, NEW dir, ChangeMoveDirection(t, dir) PROVE GhostInv'
  BY <1>11, <1>12 DEF ChangeMoveDirection, playerVars, tickVars
<1>13. ASSUME NEW d, Tick(d) PROVE GhostInv'
  BY <1>11, <1>13 DEF Tick, playerVars
<1>14. ASSUME NextSession \/ WriteToBDFails \/ SaveIfDue PROVE GhostInv'
  BY <1>11, <1>14
  DEF NextSession, WriteToBDFails, SaveIfDue, EndTick, Working, playerVars
<1>15. ASSUME Signal \/ Start \/ EndUpload PROVE GhostInv'
  BY <1>11, <1>15 DEF Signal, Start, EndUpload, playerVars, tickVars
<1>16. ASSUME UNCHANGED vars PROVE GhostInv'
  BY <1>11, <1>16 DEF vars, playerVars, tickVars
<1> QED
  BY <1>2, <1>3, <1>4, <1>5, <1>6, <1>7, <1>8, <1>9, <1>10, <1>12, <1>13, <1>14,
     <1>15, <1>16
  DEF Next, Request, StartTick, TickStep, Retirement, Upload,
      NullPlayer, Exit, Crash

(***************************************************************************)
(* The theorem.                                                            *)
(***************************************************************************)

(* Who plays, with which token and which dog, is consistent in every reachable
   state: also in the middle of a tick, after an exception that cut a
   retirement short, and after a crash and a restart. *)
THEOREM AlwaysConsistent == Spec => []Consistent
<1>1. Init => Consistent
  BY TypeInit, RosterInit, DogInit, GhostInit DEF Consistent
<1>2. Consistent /\ [Next]_vars => Consistent'
  BY TypeStep, RosterStep, DogStep, GhostStep DEF Consistent
<1> QED BY <1>1, <1>2, PTL DEF Spec

(* So a handler that has checked a token has its player, a tick finds the one
   player of every dog, and who has lost its token is still to be removed. *)
THEOREM PlayersAlwaysAgree == Spec => []PlayersAgree
<1>1. Consistent => PlayersAgree
  BY DEF Consistent, DogInv, GhostInv, PlayersAgree
<1> QED BY <1>1, AlwaysConsistent, PTL

(***************************************************************************)
(* Joins.                                                                  *)
(***************************************************************************)

(* Where no two maps have the same name, as src/data/config.json has them. *)
DistinctNames == \A m, n \in Maps : SameName(m, n) => m = n

(* Players and saved players are where their join asked them to be. *)
Joined ==
    /\ JoinsRequestedMap
    /\ \A i \in DOMAIN file : file[i].map = issued[file[i].token]

(* Then AddSession finds or makes the session of the very map. *)
LEMMA AddPlayerJoins ==
    ASSUME DistinctNames, TypeOK, NEW t \in Tokens, NEW m \in Maps, NEW moving,
           AddPlayer(t, m, moving)
    PROVE  \A p \in DOMAIN players_table' :
              \/ p \in DOMAIN players_table /\ players_table'[p] = players_table[p]
              \/ players_table'[p] = [token |-> t, session |-> m]
<1>1. PICK s \in Maps : SessionFor(m, s) /\ NewPlayer(t, s)
  BY DEF AddPlayer
<1>2. s = m
  <2>1. CASE \E i \in DOMAIN sessions : SameName(sessions[i], m) /\ s = sessions[i]
    BY <2>1 DEF DistinctNames, TypeOK, SessionsType
  <2> QED BY <1>1, <2>1 DEF SessionFor, Least
<1> QED BY <1>1, <1>2 DEF NewPlayer, Put

(* Every step keeps them there. *)
LEMMA JoinedStep ==
    DistinctNames /\ Consistent /\ Joined /\ [Next]_vars => Joined'
<1> SUFFICES ASSUME DistinctNames, Consistent, Joined, [Next]_vars PROVE Joined'
  OBVIOUS
<1> USE DEF Joined, JoinsRequestedMap
<1>1. ASSUME NEW t \in Tokens, NEW m \in Maps, JoinGame(t, m) PROVE Joined'
  <2>1. /\ t \notin DOMAIN issued /\ issued' = Put(issued, t, m)
        /\ AddPlayer(t, m, FALSE) /\ UNCHANGED file
    BY <1>1 DEF JoinGame, diskVars
  <2>2. issued'[t] = m /\ \A u \in DOMAIN issued : issued'[u] = issued[u]
    BY <2>1 DEF Put
  <2>3. \A p \in DOMAIN players_table' :
          players_table'[p].session = issued'[players_table'[p].token]
    <3> SUFFICES ASSUME NEW p \in DOMAIN players_table'
                 PROVE  players_table'[p].session = issued'[players_table'[p].token]
      OBVIOUS
    <3>1. CASE p \in DOMAIN players_table /\ players_table'[p] = players_table[p]
      BY <2>2, <3>1 DEF Consistent, RosterInv, OnlyIssued
    <3>2. CASE players_table'[p] = [token |-> t, session |-> m]
      BY <2>2, <3>2
    <3> QED BY <2>1, <3>1, <3>2, AddPlayerJoins, ZenonT(30) DEF Consistent
  <2>4. \A i \in DOMAIN file' : file'[i].map = issued'[file'[i].token]
    BY <2>1, <2>2 DEF Consistent, RosterInv, OnlyIssued
  <2> QED BY <2>3, <2>4
<1>2. ASSUME UploadPlayer PROVE Joined'
  <2>1. PICK i \in DOMAIN file : AddPlayer(file[i].token, file[i].map, file[i].moving)
    BY <1>2 DEF UploadPlayer, Least
  <2>2. file[i].token \in Tokens /\ file[i].map \in Maps
    BY DEF Consistent, TypeOK, DiskType, SavedPlayer
  <2> QED BY <1>2, <2>1, <2>2, AddPlayerJoins DEF UploadPlayer, diskVars, Consistent
<1>3. ASSUME SaveGameState, UNCHANGED <<players_table, issued>> PROVE Joined'
  BY <1>3 DEF SaveGameState, Checkpoint
<1>4. ASSUME UNCHANGED <<players_table, file, issued>> PROVE Joined'
  BY <1>4
<1>5. ASSUME SaveIfDue PROVE Joined'
  BY <1>3, <1>4, <1>5 DEF SaveIfDue, playerVars
<1>6. ASSUME Signal PROVE Joined'
  BY <1>3, <1>4, <1>6 DEF Signal, playerVars
<1>7. ASSUME DeleteDog PROVE Joined'
  BY <1>7 DEF DeleteDog, WithoutPlayer, Restrict, diskVars
<1>8. ASSUME Down PROVE Joined'
  BY <1>8 DEF Down, EmptyMap, diskVars
<1>9. ASSUME NEW t, NEW dir, ChangeMoveDirection(t, dir) PROVE Joined'
  BY <1>4, <1>9 DEF ChangeMoveDirection, playerVars, diskVars
<1>10. ASSUME NEW d, Tick(d) PROVE Joined'
  BY <1>4, <1>10 DEF Tick, playerVars, diskVars
<1>11. ASSUME \/ UpdatePlayerState \/ NextSession \/ SendDogToRetirement
              \/ SaveDogRecord \/ WriteToBDFails \/ DeleteDogThrows
              \/ EndRetirement \/ Start \/ EndUpload
       PROVE  Joined'
  BY <1>4, <1>11
  DEF UpdatePlayerState, NextSession, SendDogToRetirement, SaveDogRecord,
      WriteToBDFails, DeleteDogThrows, EndRetirement, Start, EndUpload,
      playerVars, diskVars
<1>12. ASSUME UNCHANGED vars PROVE Joined'
  BY <1>4, <1>12 DEF vars, playerVars, diskVars
<1> QED
  BY <1>1, <1>2, <1>5, <1>6, <1>7, <1>8, <1>9, <1>10, <1>11, <1>12
  DEF Next, Request, StartTick, TickStep, Retirement, Upload,
      NullPlayer, Exit, Crash

(* Where map names differ, every player is in the session of the map that its
   join asked for, also after any number of restarts. *)
THEOREM JoinsAlwaysHonoured == DistinctNames => (Spec => []JoinsRequestedMap)
<1> SUFFICES ASSUME DistinctNames PROVE Spec => []JoinsRequestedMap
  OBVIOUS
<1>1. Init => Joined
  BY DEF Init, Joined, JoinsRequestedMap, EmptyMap
<1>2. Consistent /\ Joined /\ [Next]_vars => Joined'
  BY JoinedStep
<1>3. Joined => JoinsRequestedMap
  BY DEF Joined
<1> QED BY <1>1, <1>2, <1>3, AlwaysConsistent, PTL DEF Spec

-----------------------------------------------------------------------------
(***************************************************************************)
(* Nobody leaves without a record, whatever the database does.             *)
(***************************************************************************)

(* The dog that is deleted next has its row. *)
RetireeRecorded == phase = "delete" => records[Retiree] > 0

(* A player who is there stays, or is the one who is deleted, or the process
   ends. *)
Stays(t) == HasPlayer(t) => HasPlayer(t)'
NobodyUnrecorded ==
    \A t \in Tokens : HasPlayer(t) /\ ~HasPlayer(t)' /\ server' # "down" => records[t] > 0

LEMMA AddPlayerStays ==
    ASSUME TypeOK, NEW t \in Tokens, NEW m, NEW moving, AddPlayer(t, m, moving)
    PROVE  \A u \in Tokens : Stays(u)
BY AddPlayerTable DEF Stays, HasPlayer

LEMMA RecordedStep ==
    TypeOK /\ RetireeRecorded /\ [Next]_vars => RetireeRecorded' /\ NobodyUnrecorded
<1> SUFFICES ASSUME TypeOK, RetireeRecorded, [Next]_vars
             PROVE  RetireeRecorded' /\ NobodyUnrecorded
  OBVIOUS
<1>1. ASSUME UNCHANGED players_table PROVE NobodyUnrecorded
  BY <1>1 DEF NobodyUnrecorded, HasPlayer
<1>2. ASSUME phase' # "delete" PROVE RetireeRecorded'
  BY <1>2 DEF RetireeRecorded
<1>3. ASSUME UNCHANGED <<phase, at, to_retirement, records>> PROVE RetireeRecorded'
  BY <1>3 DEF RetireeRecorded, Retiree
<1>4. ASSUME NEW t \in Tokens, NEW m \in Maps, JoinGame(t, m)
      PROVE  RetireeRecorded' /\ NobodyUnrecorded
  <2>1. \A u \in Tokens : Stays(u)
    BY <1>4, AddPlayerStays DEF JoinGame
  <2> QED BY <1>3, <1>4, <2>1 DEF JoinGame, tickVars, diskVars, NobodyUnrecorded, Stays
<1>5. ASSUME UploadPlayer PROVE RetireeRecorded' /\ NobodyUnrecorded
  <2>1. PICK i \in DOMAIN file : AddPlayer(file[i].token, file[i].map, file[i].moving)
    BY <1>5 DEF UploadPlayer, Least
  <2>2. file[i].token \in Tokens
    BY DEF TypeOK, DiskType, SavedPlayer
  <2>3. \A u \in Tokens : Stays(u)
    BY <2>1, <2>2, AddPlayerStays
  <2> QED BY <1>3, <1>5, <2>3 DEF UploadPlayer, diskVars, NobodyUnrecorded, Stays
<1>6. ASSUME SaveDogRecord PROVE RetireeRecorded' /\ NobodyUnrecorded
  <2>1. Retiree' = Retiree /\ Retiree \in Tokens
    BY <1>6 DEF SaveDogRecord, Retiree, Working, TypeOK, HandlerType
  <2>2. records'[Retiree] > 0
    <3>1. /\ records[Retiree] \in Nat
          /\ records'[Retiree] = AtMost(records[Retiree] + 1, MaxRecords)
      BY <1>6, <2>1 DEF SaveDogRecord, AddRecord, TypeOK, DiskType
    <3> QED BY <3>1, OptionAssumption DEF AtMost
  <2> QED BY <1>1, <1>6, <2>1, <2>2 DEF SaveDogRecord, RetireeRecorded, playerVars
<1>7. ASSUME DeleteDog PROVE RetireeRecorded' /\ NobodyUnrecorded
  <2>1. records[Retiree] > 0
    BY <1>7 DEF DeleteDog, Working, RetireeRecorded
  <2>2. \A u \in Tokens : u # Retiree => Stays(u)
    BY <1>7 DEF DeleteDog, WithoutPlayer, Restrict, Stays, HasPlayer
  <2> QED BY <1>2, <1>7, <2>1, <2>2 DEF DeleteDog, NobodyUnrecorded, Stays
<1>8. ASSUME Down PROVE RetireeRecorded' /\ NobodyUnrecorded
  BY <1>2, <1>8 DEF Down, EndTick, NobodyUnrecorded
<1>9. ASSUME NEW t, NEW dir, ChangeMoveDirection(t, dir)
      PROVE  RetireeRecorded' /\ NobodyUnrecorded
  BY <1>1, <1>3, <1>9 DEF ChangeMoveDirection, playerVars, tickVars, diskVars
<1>10. ASSUME NEW d, Tick(d) PROVE RetireeRecorded' /\ NobodyUnrecorded
  BY <1>1, <1>2, <1>10 DEF Tick, playerVars
<1>11. ASSUME \/ UpdatePlayerState \/ NextSession \/ SendDogToRetirement
              \/ WriteToBDFails \/ DeleteDogThrows \/ EndRetirement \/ SaveIfDue
       PROVE  RetireeRecorded' /\ NobodyUnrecorded
  <2>1. phase' # "delete"
    BY <1>11 DEF UpdatePlayerState, NextSession, SendDogToRetirement, WriteToBDFails,
        DeleteDogThrows, EndRetirement, SaveIfDue, Working, GoTo, EndTick
  <2>2. UNCHANGED players_table
    BY <1>11 DEF UpdatePlayerState, NextSession, SendDogToRetirement, WriteToBDFails,
        DeleteDogThrows, EndRetirement, SaveIfDue, playerVars
  <2> QED BY <1>1, <1>2, <2>1, <2>2
<1>12. ASSUME Signal \/ Start \/ EndUpload PROVE RetireeRecorded' /\ NobodyUnrecorded
  BY <1>1, <1>3, <1>12 DEF Signal, Start, EndUpload, playerVars, tickVars, diskVars
<1>13. ASSUME UNCHANGED vars PROVE RetireeRecorded' /\ NobodyUnrecorded
  BY <1>1, <1>3, <1>13 DEF vars, playerVars, tickVars, diskVars
<1> QED
  BY <1>4, <1>5, <1>6, <1>7, <1>8, <1>9, <1>10, <1>11, <1>12, <1>13
  DEF Next, Request, StartTick, TickStep, Retirement, Upload, NullPlayer, Exit, Crash

(* A player leaves a running server only when the database has a row of it,
   also when writes fail, sessions lack the dog, and signals come. *)
THEOREM NobodyLeavesUnrecorded == Spec => LeavesWithRecord
<1>1. Init => TypeOK /\ RetireeRecorded
  BY TypeInit DEF Init, RetireeRecorded
<1>2. TypeOK /\ RetireeRecorded /\ [Next]_vars
        => TypeOK' /\ RetireeRecorded' /\ NobodyUnrecorded
  BY TypeStep, RecordedStep
<1>3. NobodyUnrecorded =>
        (\A t \in Tokens :
            HasPlayer(t) /\ ~HasPlayer(t)' /\ server' # "down" => records[t] > 0)
  BY DEF NobodyUnrecorded
<1> QED BY <1>1, <1>2, <1>3, PTL DEF Spec, LeavesWithRecord

-----------------------------------------------------------------------------
(***************************************************************************)
(* A checkpoint is loaded as what it is.                                   *)
(***************************************************************************)

(* The session of a new player is the one of its name, which may be new. *)
LEMMA AddPlayerSession ==
    ASSUME TypeOK, OneSessionPerName, PlayersInSessions,
           NEW t \in Tokens, NEW m \in Maps, NEW moving, AddPlayer(t, m, moving)
    PROVE  \E s \in Maps :
              /\ SessionFor(m, s)
              /\ NewPlayer(t, s)
              /\ Range(sessions') = Range(sessions) \cup {s}
              /\ OneSessionPerName'
              /\ PlayersInSessions'
<1>1. PICK s \in Maps : SessionFor(m, s) /\ AddDogToSession(t, s) /\ NewPlayer(t, s)
  BY DEF AddPlayer
<1>2. sessions \in Seq(Maps)
  BY DEF TypeOK, SessionsType
<1>3. CASE \E i \in DOMAIN sessions : sessions[i] = s
  <2>1. sessions' = sessions
    BY <1>1, <1>3 DEF AddDogToSession
  <2>2. Range(sessions') = Range(sessions) \cup {s}
    BY <1>3, <2>1 DEF Range
  <2>3. OneSessionPerName'
    BY <2>1 DEF OneSessionPerName
  <2>4. PlayersInSessions'
    BY <1>1, <2>2 DEF PlayersInSessions, NewPlayer, Put
  <2> QED BY <1>1, <2>2, <2>3, <2>4
<1>4. CASE \A i \in DOMAIN sessions : sessions[i] # s
  <2>1. sessions' = Append(sessions, s)
    BY <1>1, <1>4 DEF AddDogToSession
  <2>2. /\ DOMAIN sessions' = DOMAIN sessions \cup {Len(sessions) + 1}
        /\ sessions'[Len(sessions) + 1] = s
        /\ \A i \in DOMAIN sessions : sessions'[i] = sessions[i]
    BY <1>2, <2>1
  <2>3. Range(sessions') = Range(sessions) \cup {s}
    BY <2>2 DEF Range
  <2>4. s = m /\ \A i \in DOMAIN sessions : ~SameName(sessions[i], m)
    BY <1>1, <1>4 DEF SessionFor
  <2>5. OneSessionPerName'
    BY <2>2, <2>4 DEF OneSessionPerName, SameName
  <2>6. PlayersInSessions'
    BY <1>1, <2>3 DEF PlayersInSessions, NewPlayer, Put
  <2> QED BY <1>1, <2>3, <2>5, <2>6
<1> QED BY <1>3, <1>4

(* A saved player comes into the session of its map, and would be saved as it
   is; those that were loaded before it stay as they were. *)
LEMMA UploadLoadsAlike ==
    ASSUME Consistent, Reloads, UploadPlayer
    PROVE  Reloads'
<1> USE DEF Consistent
<1>1. PICK i \in DOMAIN file :
        /\ Least({j \in DOMAIN file : j >= from}, i)
        /\ AddPlayer(file[i].token, file[i].map, file[i].moving)
        /\ from' = i + 1
  BY DEF UploadPlayer
<1> DEFINE t == file[i].token
           m == file[i].map
<1>2. t \in Tokens /\ m \in Maps /\ file[i] \in SavedPlayer
  BY DEF TypeOK, DiskType, SavedPlayer
<1>3. PICK s \in Maps :
        /\ SessionFor(m, s)
        /\ NewPlayer(t, s)
        /\ Range(sessions') = Range(sessions) \cup {s}
        /\ OneSessionPerName'
        /\ PlayersInSessions'
  BY <1>1, <1>2, AddPlayerSession DEF Reloads
<1>4. /\ server = "loading" /\ file' = file
      /\ Range(sessions) \subseteq {file[j].map : j \in DOMAIN file}
      /\ Range(Checkpoint) = {file[j] : j \in {k \in DOMAIN file : k < from}}
  BY DEF UploadPlayer, diskVars, Reloads, LoadedAlike
<1>5. s = m
  <2>1. CASE \E k \in DOMAIN sessions : SameName(sessions[k], m) /\ s = sessions[k]
    <3>1. PICK j \in DOMAIN file : s = file[j].map /\ SameName(file[j].map, m)
      BY <1>4, <2>1 DEF Range
    <3> QED BY <3>1 DEF Reloads, OneSavedPerName
  <2> QED BY <1>3, <2>1 DEF SessionFor, Least
<1>6. i \in Nat /\ from \in Nat /\ DOMAIN file \subseteq Nat /\ i >= from
      /\ \A j \in DOMAIN file : j >= from => i <= j
  BY <1>1 DEF TypeOK, DiskType, HandlerType, Least
<1>7. {j \in DOMAIN file : j < from'} = {j \in DOMAIN file : j < from} \cup {i}
  BY <1>1, <1>6
<1>8. \A p \in DOMAIN players_table : players_table[p].token # t
  <2> SUFFICES ASSUME NEW p \in DOMAIN players_table, players_table[p].token = t
               PROVE  FALSE
    OBVIOUS
  <2>1. PICK j \in DOMAIN file : j < from /\ file[j].token = t
    BY <1>4 DEF RosterInv, LoadedBelow
  <2>2. j = i
    BY <2>1 DEF RosterInv, UniqueSaved
  <2> QED BY <1>6, <2>1, <2>2
<1>9. Range(Checkpoint') = Range(Checkpoint) \cup {file[i]}
  <2>1. /\ DOMAIN players_table' = DOMAIN players_table \cup {count_players}
        /\ players_table'[count_players] = [token |-> t, session |-> m]
        /\ \A p \in DOMAIN players_table : players_table'[p] = players_table[p]
    BY <1>2, <1>3, <1>5 DEF NewPlayer, Put, TypeOK, PlayersType
  <2>2. /\ dog'[t].moving = file[i].moving
        /\ \A u \in Tokens : u # t => dog'[u] = dog[u]
    BY <1>1, <1>2 DEF AddPlayer, TypeOK, SessionsType
  <2>3. Checkpoint'[count_players] = file[i]
    <3>1. Checkpoint'[count_players] = [token |-> t, map |-> m, moving |-> file[i].moving]
      BY <2>1, <2>2 DEF Checkpoint
    <3> QED BY <1>2, <3>1 DEF SavedPlayer
  <2>4. \A p \in DOMAIN players_table : Checkpoint'[p] = Checkpoint[p]
    <3> SUFFICES ASSUME NEW p \in DOMAIN players_table
                 PROVE  Checkpoint'[p] = Checkpoint[p]
      OBVIOUS
    <3>1. players_table[p].token \in Tokens
      BY DEF TypeOK, PlayersType, Player
    <3>2. dog'[players_table[p].token] = dog[players_table[p].token]
      BY <1>8, <2>2, <3>1
    <3> QED BY <2>1, <3>2 DEF Checkpoint
  <2>5. DOMAIN Checkpoint' = DOMAIN players_table' /\ DOMAIN Checkpoint = DOMAIN players_table
    BY DEF Checkpoint
  <2> HIDE DEF Checkpoint
  <2>6. \A x : x \in Range(Checkpoint') <=> x \in Range(Checkpoint) \cup {file[i]}
    BY <2>1, <2>3, <2>4, <2>5 DEF Range
  <2> QED BY <2>6
<1>10. LoadedAlike'
  <2>1. Range(sessions') \subseteq {file'[j].map : j \in DOMAIN file'}
    BY <1>3, <1>4, <1>5
  <2>2. Range(Checkpoint') = {file'[j] : j \in {k \in DOMAIN file' : k < from'}}
    BY <1>4, <1>7, <1>9
  <2> QED BY <2>1, <2>2 DEF LoadedAlike
<1>11. OneSavedPerName'
  BY <1>4 DEF Reloads, OneSavedPerName
<1> QED BY <1>3, <1>10, <1>11 DEF Reloads

(* A checkpoint has one map of each name, as the sessions it is taken from. *)
LEMMA SavedPerName ==
    ASSUME OneSessionPerName, PlayersInSessions, SaveGameState
    PROVE  OneSavedPerName'
<1>1. \A i \in DOMAIN file' :
        i \in DOMAIN players_table /\ file'[i].map = players_table[i].session
  BY DEF SaveGameState, Checkpoint
<1> QED BY <1>1 DEF OneSavedPerName, OneSessionPerName, PlayersInSessions, Range

(* Nobody is there yet. *)
LEMMA ReloadsInit == Init => Reloads
<1> SUFFICES ASSUME Init PROVE Reloads
  OBVIOUS
<1>1. OneSessionPerName /\ OneSavedPerName /\ PlayersInSessions
  BY DEF Init, EmptyMap, OneSessionPerName, OneSavedPerName, PlayersInSessions
<1>2. Range(sessions) = {} /\ Range(Checkpoint) = {} /\ DOMAIN file = {}
  BY DEF Init, EmptyMap, Checkpoint, Range
<1> QED BY <1>1, <1>2 DEF Reloads, LoadedAlike

LEMMA ReloadsStep == Consistent /\ Reloads /\ [Next]_vars => Reloads'
<1> SUFFICES ASSUME Consistent, Reloads, [Next]_vars PROVE Reloads'
  OBVIOUS
<1>1. ASSUME OneSessionPerName', PlayersInSessions', UNCHANGED file,
             server' \notin {"down", "loading"}
      PROVE  Reloads'
  BY <1>1 DEF Reloads, OneSavedPerName, LoadedAlike
<1>2. ASSUME UNCHANGED <<sessions, players_table>>
      PROVE  OneSessionPerName' /\ PlayersInSessions'
  BY <1>2 DEF Reloads, OneSessionPerName, PlayersInSessions
<1>3. ASSUME NEW t \in Tokens, NEW m \in Maps, JoinGame(t, m) PROVE Reloads'
  <2>1. AddPlayer(t, m, FALSE) /\ UNCHANGED file /\ server' = "running"
    BY <1>3 DEF JoinGame, Serving, diskVars
  <2>2. OneSessionPerName' /\ PlayersInSessions'
    BY <2>1, AddPlayerSession DEF Consistent, Reloads
  <2> QED BY <1>1, <2>1, <2>2
<1>4. ASSUME DeleteDog \/ DeleteDogThrows PROVE Reloads'
  <2>1. /\ UNCHANGED <<sessions, file>> /\ server' \in {"running", "stopping"}
        /\ \A p \in DOMAIN players_table' :
              p \in DOMAIN players_table /\ players_table'[p] = players_table[p]
    BY <1>4
    DEF DeleteDog, DeleteDogThrows, Working, WithoutPlayer, Restrict, diskVars
  <2>2. OneSessionPerName' /\ PlayersInSessions'
    BY <2>1 DEF Reloads, OneSessionPerName, PlayersInSessions
  <2> QED BY <1>1, <2>1, <2>2
<1>5. ASSUME SaveIfDue \/ Signal PROVE Reloads'
  <2>1. /\ UNCHANGED <<sessions, players_table>>
        /\ server' \in {"running", "stopping"}
        /\ SaveGameState \/ UNCHANGED file
    BY <1>5 DEF SaveIfDue, Signal, Working, playerVars, sessionVars
  <2>2. OneSavedPerName'
    BY <2>1, SavedPerName DEF Reloads, OneSavedPerName
  <2> QED BY <1>2, <2>1, <2>2 DEF Reloads, LoadedAlike
<1>6. ASSUME Down PROVE Reloads'
  <2>1. OneSessionPerName' /\ OneSavedPerName' /\ PlayersInSessions'
    BY <1>6
    DEF Down, EmptyMap, diskVars, Reloads, OneSessionPerName, OneSavedPerName,
        PlayersInSessions
  <2>2. Range(sessions') = {} /\ Range(Checkpoint') = {}
    BY <1>6 DEF Down, EmptyMap, Checkpoint, Range
  <2>3. from' = 0 /\ UNCHANGED file /\ DOMAIN file \subseteq Nat
    BY <1>6 DEF Down, EndTick, diskVars, Consistent, TypeOK, DiskType
  <2>4. \A j \in DOMAIN file' : ~(j < from')
    BY <2>3
  <2> QED BY <2>1, <2>2, <2>4 DEF Reloads, LoadedAlike
<1>7. ASSUME UNCHANGED <<sessions, players_table, dog, from, file>>,
             server \in {"down", "loading"} \/ server' \notin {"down", "loading"}
      PROVE  Reloads'
  <2>1. Checkpoint' = Checkpoint
    BY <1>7 DEF Checkpoint
  <2>2. LoadedAlike'
    BY <1>7, <2>1 DEF Reloads, LoadedAlike
  <2> QED BY <1>2, <1>7, <2>2 DEF Reloads, OneSavedPerName
<1>8. ASSUME Start PROVE Reloads'
  BY <1>7, <1>8 DEF Start, playerVars, sessionVars, tickVars, diskVars
<1>9. ASSUME EndUpload PROVE Reloads'
  BY <1>1, <1>2, <1>9 DEF EndUpload, playerVars, sessionVars, diskVars
<1>10. ASSUME NEW t, NEW dir, ChangeMoveDirection(t, dir) PROVE Reloads'
  BY <1>1, <1>2, <1>10
  DEF ChangeMoveDirection, Serving, playerVars, sessionVars, diskVars
<1>11. ASSUME NEW d, Tick(d) PROVE Reloads'
  BY <1>1, <1>2, <1>11 DEF Tick, Serving, playerVars, sessionVars, diskVars
<1>12. ASSUME \/ UpdatePlayerState \/ NextSession \/ SendDogToRetirement
              \/ SaveDogRecord \/ WriteToBDFails \/ EndRetirement
       PROVE  Reloads'
  <2>1. /\ UNCHANGED <<sessions, players_table, file>>
        /\ server' \in {"running", "stopping"}
    BY <1>12
    DEF UpdatePlayerState, NextSession, SendDogToRetirement, SaveDogRecord,
        WriteToBDFails, EndRetirement, Working, playerVars, sessionVars, diskVars
  <2> QED BY <1>1, <1>2, <2>1
<1>13. ASSUME UNCHANGED vars PROVE Reloads'
  <2>1. UNCHANGED <<sessions, players_table, dog, from, file, server>>
    BY <1>13 DEF vars, playerVars, sessionVars, tickVars, diskVars
  <2> QED BY <1>7, <2>1
<1> QED
  BY <1>3, <1>4, <1>5, <1>6, <1>8, <1>9, <1>10, <1>11, <1>12, <1>13, UploadLoadsAlike
  DEF Next, Request, StartTick, TickStep, Retirement, Upload,
      NullPlayer, Exit, Crash

LEMMA AlwaysReloads == Spec => []Reloads
<1>1. Init => Reloads
  BY ReloadsInit
<1>2. Consistent /\ Reloads /\ [Next]_vars => Reloads'
  BY ReloadsStep
<1> QED BY <1>1, <1>2, AlwaysConsistent, PTL DEF Spec

(* What a process has loaded when it begins to serve would be saved as the very
   checkpoint it was loaded from: whoever joined, left, was cut short in its
   retirement or crashed before, and whatever maps share a name. *)
THEOREM CheckpointAlwaysLoadedAlike == Spec => CheckpointRestored
<1> DEFINE LoadedAll == server = "loading" /\ server' = "running"
                           => Range(Checkpoint') = Range(file)
<1>1. Consistent /\ Reloads /\ [Next]_vars => LoadedAll
  <2> SUFFICES ASSUME Consistent, Reloads, [Next]_vars,
                      server = "loading", server' = "running"
               PROVE  Range(Checkpoint') = Range(file)
    OBVIOUS
  <2>1. CASE EndUpload
    <3>1. Checkpoint' = Checkpoint
      BY <2>1 DEF EndUpload, playerVars, sessionVars, Checkpoint
    <3>2. \A j \in DOMAIN file : j < from
      BY <2>1 DEF EndUpload
    <3>3. Range(Checkpoint) = {file[i] : i \in {j \in DOMAIN file : j < from}}
      BY DEF Reloads, LoadedAlike
    <3> QED BY <3>1, <3>2, <3>3 DEF Range
  <2>2. CASE ~EndUpload
    <3>1. CASE Upload \/ Signal \/ Exit \/ Crash \/ Start \/ UNCHANGED vars
      BY <2>2, <3>1
      DEF Upload, UploadPlayer, Signal, Exit, Crash, Down, Start, vars
    <3>2. CASE Request
      BY <3>2 DEF Request, JoinGame, ChangeMoveDirection, Serving
    <3>3. CASE StartTick
      BY <3>3 DEF StartTick, Tick, Serving
    <3>4. CASE TickStep
      BY <3>4
      DEF TickStep, Retirement, UpdatePlayerState, NextSession, SendDogToRetirement,
          SaveDogRecord, WriteToBDFails, NullPlayer, DeleteDog, DeleteDogThrows,
          EndRetirement, SaveIfDue, Working
    <3> QED BY <3>1, <3>2, <3>3, <3>4 DEF Next
  <2> QED BY <2>1, <2>2
<1> QED BY <1>1, AlwaysConsistent, AlwaysReloads, PTL DEF Spec, CheckpointRestored
=============================================================================
