---------------------------- MODULE Application ----------------------------
(***************************************************************************)
(* The game application (app.cpp, app_model.cpp and the session list of    *)
(* model.cpp): who plays, with which token, in which session; how a tick   *)
(* retires idle dogs into the database and saves a checkpoint; and how the *)
(* server stops, crashes and comes back.                                   *)
(*                                                                         *)
(* Handlers run one at a time on the API strand.  A request is one action; *)
(* a tick (UpdateWorldState) is a sequence of actions, one per call that   *)
(* has an effect another party can see (a database write, a file) or that  *)
(* can throw, so that the signal handler, which is not on the strand, and  *)
(* a crash can come between them.                                          *)
(*                                                                         *)
(* A dog is named by the token of its player.  Its position, bag and score *)
(* are the matter of GameSession.                                          *)
(***************************************************************************)
EXTENDS Integers, Sequences, FiniteSets, Functions

CONSTANTS
    Tokens,          \* the tokens that joins may draw
    Maps,            \* the ids of the configured maps
    MapName,         \* the name of each map
    RetirementTime,  \* dogRetirementTime
    Deltas,          \* the time steps of a tick
    SavePeriod,      \* --save-state-period
    HasStateFile,    \* --state-file was given
    IntSpan,         \* int holds -IntSpan .. IntSpan - 1
    MaxRecords,      \* bound: rows of one player are counted up to here
    MaxPending,      \* bound: no tick starts with a longer retirement list
    Faults           \* what may go wrong, a subset of FaultKinds

FaultKinds == {"db", "save", "crash", "signal"}

ASSUME MapsAssumption == MapName \in [Maps -> STRING]
ASSUME TimeAssumption ==
    /\ RetirementTime \in Nat \ {0}
    /\ Deltas \subseteq Nat \ {0}
    /\ SavePeriod \in Nat
    /\ IntSpan \in Nat \ {0}
ASSUME OptionAssumption ==
    /\ HasStateFile \in BOOLEAN
    /\ MaxRecords \in Nat \ {0}
    /\ MaxPending \in Nat
    /\ Faults \subseteq FaultKinds

VARIABLES
    players_table,   \* Players: id -> token and session of a player
    count_players,   \* Players: the next id
    player_tokens,   \* Application: the tokens HasToken accepts
    sessions,        \* Game: the maps that have a session, oldest first
    dogs,            \* GameSession: per map, dog id -> token
    count_add_dogs,  \* GameSession: per map, the next dog id
    dog,             \* Dog: per token, whether it moves and its stay_time
    to_retirement,   \* Application: tokens to retire
    current_time,    \* Application: time since the last save
    server,          \* what the process is doing
    phase,           \* where the handler on the strand is
    at,              \* its place in the sessions, or in to_retirement
    from,            \* the least dog id, or saved player, still to visit
    delta,           \* the time step of the current tick
    records,         \* database: rows written for each token
    file,            \* disk: the checkpoint, in the order of its players
    issued,          \* history: token -> the map its join asked for
    unsaved          \* history: game time since the last checkpoint

playerVars  == <<players_table, count_players, player_tokens>>
sessionVars == <<sessions, dogs, count_add_dogs>>
tickVars    == <<phase, at, from, delta>>
diskVars    == <<records, file>>
vars == <<playerVars, sessionVars, dog, to_retirement, current_time, server,
          tickVars, diskVars, issued, unsaved>>

-----------------------------------------------------------------------------
EmptyMap == [x \in {} |-> x]

(* The map f after f[k] = v. *)
Put(f, k, v) == [x \in DOMAIN f \cup {k} |-> IF x = k THEN v ELSE f[x]]

Least(S, i) == i \in S /\ \A j \in S : i <= j

AtMost(n, bound) == IF n > bound THEN bound ELSE n

(* Conversion of a sum to int. *)
Wrap(n) == ((n + IntSpan) % (2 * IntSpan)) - IntSpan

HasPlayer(t) == \E i \in DOMAIN players_table : players_table[i].token = t

DogIn(t, m) == \E i \in DOMAIN dogs[m] : dogs[m][i] = t

Serving == server = "running" /\ phase = "idle"

(* The strand goes on with the handler it has begun after ioc.stop(). *)
Working(p) == server \in {"running", "stopping"} /\ phase = p

-----------------------------------------------------------------------------
(* Game::AddSession looks for a session by the name of its map, and Players
   gives the next id. *)

(* Mutant: any session will do. *)
AnySession(m, n) == TRUE
SameName(m, n) == MapName[m] = MapName[n]

(* s is the first session with the name of m, or else a new one. *)
SessionFor(m, s) ==
    \/ \E i \in DOMAIN sessions :
          /\ Least({j \in DOMAIN sessions : SameName(sessions[j], m)}, i)
          /\ s = sessions[i]
    \/ /\ \A i \in DOMAIN sessions : ~SameName(sessions[i], m)
       /\ s = m

(* Mutant: the ids of dogs are not counted. *)
AddDogNoCount(t, s) ==
    /\ sessions' = IF \E i \in DOMAIN sessions : sessions[i] = s
                   THEN sessions ELSE Append(sessions, s)
    /\ dogs' = [dogs EXCEPT ![s] = Put(@, count_add_dogs[s], t)]
    /\ UNCHANGED count_add_dogs

AddDogToSession(t, s) ==
    /\ sessions' = IF \E i \in DOMAIN sessions : sessions[i] = s
                   THEN sessions ELSE Append(sessions, s)
    /\ dogs' = [dogs EXCEPT ![s] = Put(@, count_add_dogs[s], t)]
    /\ count_add_dogs' = [count_add_dogs EXCEPT ![s] = @ + 1]

NewPlayer(t, s) ==
    /\ players_table' = Put(players_table, count_players,
                            [token |-> t, session |-> s])
    /\ count_players' = count_players + 1

InsertToken(t) == player_tokens' = player_tokens \cup {t}

AddPlayer(t, m, moving) ==
    /\ \E s \in Maps : SessionFor(m, s) /\ AddDogToSession(t, s) /\ NewPlayer(t, s)
    /\ dog' = [dog EXCEPT ![t] = [moving |-> moving, stay |-> 0]]
    /\ InsertToken(t)

-----------------------------------------------------------------------------
(* Requests.  A request with a wrong name, map or token changes nothing. *)

JoinGame(t, m) ==
    /\ Serving
    /\ t \notin DOMAIN issued
    /\ AddPlayer(t, m, FALSE)
    /\ issued' = Put(issued, t, m)
    /\ UNCHANGED <<to_retirement, current_time, server, tickVars, diskVars,
                   unsaved>>

(* "": stop; U, D, L, R: move; any other text: forget the stay, stop. *)
ChangeMoveDirection(t, dir) ==
    /\ Serving
    /\ t \in player_tokens
    /\ dog' = [dog EXCEPT ![t] =
                  [moving |-> dir = "move",
                   stay   |-> IF dir = "stop" THEN @.stay ELSE 0]]
    /\ UNCHANGED <<playerVars, sessionVars, to_retirement, current_time,
                   server, tickVars, diskVars, issued, unsaved>>

-----------------------------------------------------------------------------
(* A tick. *)

GoTo(p) == phase' = p /\ at' = 1 /\ from' = 0 /\ delta' = delta

EndTick == phase' = "idle" /\ at' = 0 /\ from' = 0 /\ delta' = 0

Tick(d) ==
    /\ Serving
    /\ Len(to_retirement) <= MaxPending
    /\ phase' = "update" /\ at' = 1 /\ from' = 0 /\ delta' = d
    /\ unsaved' = AtMost(unsaved + d, SavePeriod)
    /\ UNCHANGED <<playerVars, sessionVars, dog, to_retirement, current_time,
                   server, diskVars, issued>>

StayFor(t) == dog[t].stay + delta

(* Mutant: every dog is taken to stand still. *)
StandsAlways(t) == TRUE
Stands(t) == ~dog[t].moving

(* Mutant: "==" for ">=". *)
RetiresExactly(t) == StayFor(t) = RetirementTime
Retires(t) == StayFor(t) >= RetirementTime

(* One turn of the loop over GetDogs(), with UpdatePlayerState: a dog that
   stands gets older.  FindByDogPtr finds a player by DogsHavePlayers. *)

UpdatePlayerState ==
    /\ Working("update")
    /\ at <= Len(sessions)
    /\ LET here == dogs[sessions[at]]
       IN  \E i \in DOMAIN here :
              /\ Least({j \in DOMAIN here : j >= from}, i)
              /\ from' = i + 1
              /\ LET t == here[i]
                 IN  IF Stands(t)
                     THEN /\ dog' = [dog EXCEPT ![t].stay =
                                        AtMost(StayFor(t), RetirementTime)]
                          /\ to_retirement' =
                                IF Retires(t) THEN Append(to_retirement, t)
                                              ELSE to_retirement
                     ELSE UNCHANGED <<dog, to_retirement>>
    /\ UNCHANGED <<playerVars, sessionVars, current_time, server, phase, at,
                   delta, diskVars, issued, unsaved>>

NextSession ==
    /\ Working("update")
    /\ at <= Len(sessions)
    /\ \A j \in DOMAIN dogs[sessions[at]] : j < from
    /\ at' = at + 1 /\ from' = 0
    /\ UNCHANGED <<playerVars, sessionVars, dog, to_retirement, current_time,
                   server, phase, delta, diskVars, issued, unsaved>>

SendDogToRetirement ==
    /\ Working("update")
    /\ at > Len(sessions)
    /\ GoTo("retire")
    /\ UNCHANGED <<playerVars, sessionVars, dog, to_retirement, current_time,
                   server, diskVars, issued, unsaved>>

Retiree == to_retirement[at]

AddRecord(t) == records' = [records EXCEPT ![t] = AtMost(@ + 1, MaxRecords)]

SaveDogRecord ==
    /\ Working("retire")
    /\ at <= Len(to_retirement)
    /\ HasPlayer(Retiree)
    /\ AddRecord(Retiree)
    /\ phase' = "delete"
    /\ UNCHANGED <<playerVars, sessionVars, dog, to_retirement, current_time,
                   server, at, from, delta, file, issued, unsaved>>

(* Mutant: the exception is caught where it is thrown, and the dog deleted. *)
WriteToBDIgnored ==
    /\ "db" \in Faults
    /\ Working("retire")
    /\ at <= Len(to_retirement)
    /\ HasPlayer(Retiree)
    /\ UNCHANGED records \/ AddRecord(Retiree)
    /\ phase' = "delete"
    /\ UNCHANGED <<playerVars, sessionVars, dog, to_retirement, current_time,
                   server, at, from, delta, file, issued, unsaved>>

(* WriteToBD throws; the row may have been committed.  The exception leaves
   UpdateWorldState and is swallowed by the caller on the strand. *)
WriteToBDFails ==
    /\ "db" \in Faults
    /\ Working("retire")
    /\ at <= Len(to_retirement)
    /\ HasPlayer(Retiree)
    /\ UNCHANGED records \/ AddRecord(Retiree)
    /\ EndTick
    /\ UNCHANGED <<playerVars, sessionVars, dog, to_retirement, current_time,
                   server, file, issued, unsaved>>

WithoutDog(t, m) ==
    Restrict(dogs[m], {i \in DOMAIN dogs[m] : dogs[m][i] # t})

WithoutPlayer(t) ==
    Restrict(players_table,
             {i \in DOMAIN players_table : players_table[i].token # t})

(* GameSession::DeleteDog of every session in turn, until the first session k
   that does not have the dog: there ptr_to_id.at throws. *)
DeleteDogUpTo(t, k) ==
    /\ \A i \in 1 .. (k - 1) : DogIn(t, sessions[i])
    /\ dogs' = [m \in Maps |-> IF \E i \in 1 .. (k - 1) : sessions[i] = m
                               THEN WithoutDog(t, m) ELSE dogs[m]]

(* Mutant: the token stays valid. *)
KeepToken(t) == UNCHANGED player_tokens
EraseToken(t) == player_tokens' = player_tokens \ {t}

(* Mutant: the dog loses its token and stays where it is. *)
DeleteDogOnlyToken ==
    /\ Working("delete")
    /\ EraseToken(Retiree)
    /\ phase' = "retire"
    /\ at' = at + 1
    /\ UNCHANGED <<players_table, count_players, sessionVars, dog,
                   to_retirement, current_time, server, from, delta, diskVars,
                   issued, unsaved>>

DeleteDog ==
    /\ Working("delete")
    /\ EraseToken(Retiree)
    /\ DeleteDogUpTo(Retiree, Len(sessions) + 1)
    /\ players_table' = WithoutPlayer(Retiree)
    /\ phase' = "retire"
    /\ at' = at + 1
    /\ UNCHANGED <<count_players, sessions, count_add_dogs, dog, to_retirement,
                   current_time, server, from, delta, diskVars, issued, unsaved>>

DeleteDogThrows ==
    /\ Working("delete")
    /\ EraseToken(Retiree)
    /\ \E k \in DOMAIN sessions :
          /\ DeleteDogUpTo(Retiree, k)
          /\ ~DogIn(Retiree, sessions[k])
    /\ EndTick
    /\ UNCHANGED <<players_table, count_players, sessions, count_add_dogs, dog,
                   to_retirement, current_time, server, diskVars, issued, unsaved>>

(* Mutant: the list is not cleared. *)
KeepRetired == UNCHANGED to_retirement
ClearRetired == to_retirement' = << >>

EndRetirement ==
    /\ Working("retire")
    /\ at > Len(to_retirement)
    /\ ClearRetired
    /\ IF HasStateFile THEN GoTo("save") ELSE EndTick
    /\ UNCHANGED <<playerVars, sessionVars, dog, current_time, server, diskVars,
                   issued, unsaved>>

-----------------------------------------------------------------------------
(* Checkpoints. *)

(* What SaveGameState writes of each player: DogRepr has the speed of the dog
   and not its stay_time; PlayerPrep has the map of its session. *)
Checkpoint ==
    [i \in DOMAIN players_table |->
        LET p == players_table[i]
        IN  [token |-> p.token, map |-> p.session, moving |-> dog[p.token].moving]]

SaveGameState == file' = Checkpoint

Elapsed == Wrap(current_time + delta)

(* Mutant: ">" for ">=". *)
SaveOverdue == Elapsed > SavePeriod
SaveDue == Elapsed >= SavePeriod

(* The end of UpdateWorldState; a failing save is printed and forgotten. *)
SaveIfDue ==
    /\ Working("save")
    /\ IF SaveDue
       THEN /\ current_time' = Elapsed - SavePeriod
            /\ \/ SaveGameState /\ unsaved' = 0
               \/ "save" \in Faults /\ UNCHANGED <<file, unsaved>>
       ELSE current_time' = Elapsed /\ UNCHANGED <<file, unsaved>>
    /\ EndTick
    /\ UNCHANGED <<playerVars, sessionVars, dog, to_retirement, server, records,
                   issued>>

(* SIGINT or SIGTERM.  The handler runs on the io_context, not on the strand:
   it may find a tick half done. *)
Signal ==
    /\ "signal" \in Faults
    /\ server = "running"
    /\ \/ IF HasStateFile THEN SaveGameState ELSE UNCHANGED file
       \/ "save" \in Faults /\ UNCHANGED file
    /\ server' = "stopping"
    /\ UNCHANGED <<playerVars, sessionVars, dog, to_retirement, current_time,
                   tickVars, records, issued, unsaved>>

-----------------------------------------------------------------------------
(* The end of a process, and the next one. *)

NoDogs   == [m \in Maps |-> EmptyMap]
NoCounts == [m \in Maps |-> 0]
NewDogs  == [t \in Tokens |-> [moving |-> FALSE, stay |-> 0]]

(* The process ends, and its memory with it. *)
Down ==
    /\ server' = "down"
    /\ players_table' = EmptyMap /\ count_players' = 0 /\ player_tokens' = {}
    /\ sessions' = << >> /\ dogs' = NoDogs /\ count_add_dogs' = NoCounts
    /\ dog' = NewDogs
    /\ to_retirement' = << >> /\ current_time' = 0 /\ unsaved' = 0
    /\ EndTick
    /\ UNCHANGED <<diskVars, issued>>

(* FindByToken returned null and SaveDogRecord reads through it. *)
NullPlayer ==
    /\ Working("retire")
    /\ at <= Len(to_retirement)
    /\ ~HasPlayer(Retiree)
    /\ Down

Exit == server = "stopping" /\ phase = "idle" /\ Down

Crash == "crash" \in Faults /\ server # "down" /\ Down

Start ==
    /\ server = "down"
    /\ server' = "loading"
    /\ UNCHANGED <<playerVars, sessionVars, dog, to_retirement, current_time,
                   tickVars, diskVars, issued, unsaved>>

(* One turn of the loop of UploadGameState.  The saved id is not used. *)
UploadPlayer ==
    /\ server = "loading"
    /\ \E i \in DOMAIN file :
          /\ Least({j \in DOMAIN file : j >= from}, i)
          /\ AddPlayer(file[i].token, file[i].map, file[i].moving)
          /\ from' = i + 1
    /\ UNCHANGED <<to_retirement, current_time, server, phase, at, delta,
                   diskVars, issued, unsaved>>

(* Mutant: the last player is left out. *)
EndUploadEarly ==
    /\ server = "loading"
    /\ \A j \in DOMAIN file : j <= from
    /\ server' = "running"
    /\ from' = 0
    /\ UNCHANGED <<playerVars, sessionVars, dog, to_retirement, current_time,
                   phase, at, delta, diskVars, issued, unsaved>>

EndUpload ==
    /\ server = "loading"
    /\ \A j \in DOMAIN file : j < from
    /\ server' = "running"
    /\ from' = 0
    /\ UNCHANGED <<playerVars, sessionVars, dog, to_retirement, current_time,
                   phase, at, delta, diskVars, issued, unsaved>>

-----------------------------------------------------------------------------
Init ==
    /\ server = "loading"
    /\ players_table = EmptyMap /\ count_players = 0 /\ player_tokens = {}
    /\ sessions = << >> /\ dogs = NoDogs /\ count_add_dogs = NoCounts
    /\ dog = NewDogs
    /\ to_retirement = << >> /\ current_time = 0 /\ unsaved = 0
    /\ phase = "idle" /\ at = 0 /\ from = 0 /\ delta = 0
    /\ records = [t \in Tokens |-> 0]
    /\ file = EmptyMap
    /\ issued = EmptyMap

Request ==
    \E t \in Tokens :
        \/ \E m \in Maps : JoinGame(t, m)
        \/ \E dir \in {"stop", "move", "other"} : ChangeMoveDirection(t, dir)

StartTick == \E d \in Deltas : Tick(d)

Retirement ==
    \/ SaveDogRecord \/ WriteToBDFails \/ NullPlayer
    \/ DeleteDog \/ DeleteDogThrows \/ EndRetirement

TickStep ==
    \/ UpdatePlayerState \/ NextSession \/ SendDogToRetirement
    \/ Retirement
    \/ SaveIfDue

Upload == UploadPlayer \/ EndUpload

Next ==
    \/ Request
    \/ StartTick
    \/ TickStep
    \/ Signal \/ Exit \/ Crash \/ Start
    \/ Upload

Spec == Init /\ [][Next]_vars

(* A handler that has begun goes on, main goes on loading, and the ticker
   re-arms itself after every tick (Ticker::OnTick). *)
LiveSpec == Spec /\ WF_vars(TickStep) /\ WF_vars(Upload) /\ WF_vars(StartTick)
-----------------------------------------------------------------------------
Player == [token : Tokens, session : Maps]
SavedPlayer == [token : Tokens, map : Maps, moving : BOOLEAN]

PlayersType ==
    /\ count_players \in Nat
    /\ DOMAIN players_table \subseteq 0 .. (count_players - 1)
    /\ players_table \in [DOMAIN players_table -> Player]
    /\ player_tokens \subseteq Tokens

SessionsType ==
    /\ sessions \in Seq(Maps)
    /\ count_add_dogs \in [Maps -> Nat]
    /\ dogs = [m \in Maps |-> dogs[m]]
    /\ \A m \in Maps :
          /\ DOMAIN dogs[m] \subseteq 0 .. (count_add_dogs[m] - 1)
          /\ dogs[m] \in [DOMAIN dogs[m] -> Tokens]
    /\ dog \in [Tokens -> [moving : BOOLEAN, stay : 0 .. RetirementTime]]

HandlerType ==
    /\ server \in {"down", "loading", "running", "stopping"}
    /\ phase \in {"idle", "update", "retire", "delete", "save"}
    /\ at \in Nat /\ from \in Nat /\ delta \in Nat
    /\ to_retirement \in Seq(Tokens)
    /\ phase \in {"update", "retire", "delete"} => at >= 1
    /\ phase = "delete" => at <= Len(to_retirement)
    /\ server \in {"down", "loading"} => phase = "idle"
    /\ current_time \in (-IntSpan) .. (IntSpan - 1)
    /\ unsaved \in 0 .. SavePeriod

DiskType ==
    /\ records \in [Tokens -> 0 .. MaxRecords]
    /\ DOMAIN file \subseteq Nat
    /\ file \in [DOMAIN file -> SavedPlayer]
    /\ DOMAIN issued \subseteq Tokens
    /\ issued \in [DOMAIN issued -> Maps]

(* Every variable has its type: ids are below their counters, the cursor of a
   handler is within what it goes over, and current_time_ fits an int. *)
TypeOK == PlayersType /\ SessionsType /\ HandlerType /\ DiskType

(* A token that HasToken accepts has a player, so GetSession and
   GetPlayerByToken do not read through a null pointer in a handler that has
   checked the token, wherever a tick was cut short by an exception. *)
TokensHavePlayers == \A t \in player_tokens : HasPlayer(t)

(* A dog in a session has exactly one player, and it is a player of that
   session: FindByDogPtr and FindByToken in a tick find the right one. *)
DogsHavePlayers ==
    \A m \in Maps : \A i \in DOMAIN dogs[m] :
        \E p \in DOMAIN players_table :
            /\ players_table[p] = [token |-> dogs[m][i], session |-> m]
            /\ \A q \in DOMAIN players_table :
                  players_table[q].token = dogs[m][i] => q = p

(* A player who can still send requests has a dog in its session: a tick
   will move it, and retire it in the end. *)
LivePlayersPlay ==
    \A p \in DOMAIN players_table :
        players_table[p].token \in player_tokens
            => DogIn(players_table[p].token, players_table[p].session)

(* A player that has lost its token (DeleteDog erases the token first, and may
   throw after that) is still on the retirement list: nothing else would ever
   remove it from the table and from the checkpoints. *)
GhostsPending ==
    \A p \in DOMAIN players_table :
        \/ players_table[p].token \in player_tokens
        \/ \E i \in DOMAIN to_retirement :
              to_retirement[i] = players_table[p].token

(* Tokens, players and dogs agree wherever a tick was cut short, and after a
   crash and a restart: none of them is found without the others that a
   handler goes on to read. *)
PlayersAgree == TokensHavePlayers /\ DogsHavePlayers /\ LivePlayersPlay /\ GhostsPending

(* SaveDogRecord finds the player of each token on the retirement list: the
   list has no token twice and none of a player that is gone. *)
RetireesExist ==
    phase = "retire" => \A i \in DOMAIN to_retirement :
                            i >= at => HasPlayer(to_retirement[i])

(* Only a dog that stands, and has stood for the retirement time, is retired:
   nothing moved it between the tick that listed it and the write. *)
RecordsOnlyIdle ==
    [][\A t \in Tokens :
          records'[t] # records[t]
              => ~dog[t].moving /\ dog[t].stay >= RetirementTime]_vars

(* While the server runs, a player leaves the table only once a record of it
   is in the database, also when the database fails. *)
LeavesWithRecord ==
    [][\A t \in Tokens :
          HasPlayer(t) /\ ~HasPlayer(t)' /\ server' # "down"
              => records[t] > 0]_vars

(* Where a player is in its life, as in PlayerLife; "twice" and "lost" are no
   part of it. *)
Life(t) ==
    IF records[t] > 1 THEN "twice"
    ELSE IF HasPlayer(t) THEN IF records[t] = 0 THEN "playing" ELSE "recorded"
    ELSE IF records[t] = 1 THEN "gone"
    ELSE IF t \in DOMAIN issued THEN "lost" ELSE "out"

(* Without faults a player that joins plays, is recorded once and leaves then,
   never to return: the detailed steps of a tick implement PlayerLife. *)
OneLife == INSTANCE PlayerLife WITH life <- [t \in Tokens |-> Life(t)]
LivesOnce == OneLife!Spec

(* Between ticks the last checkpoint is younger than the save period. *)
SavedInTime ==
    Serving /\ HasStateFile /\ SavePeriod > 0 => unsaved < SavePeriod

(* A player is in the session of the map its join asked for, also after a
   restart. *)
JoinsRequestedMap ==
    \A p \in DOMAIN players_table :
        players_table[p].session = issued[players_table[p].token]

(* The state that UploadGameState builds would be saved as the very checkpoint
   it was built from: the same players, in the same sessions, moving alike. *)
CheckpointRestored ==
    [][server = "loading" /\ server' = "running"
          => Range(Checkpoint') = Range(file)]_vars

(* A restart keeps the id that the join of a player returned. *)
PlayerIdsKept ==
    [][server = "loading" /\ server' = "running"
          => \A i \in DOMAIN file :
                i \in DOMAIN players_table'
                /\ players_table'[i].token = file[i].token]_vars

(* Without a save period the state is saved only when the server is stopped by
   hand. *)
SavedOnlyByHand ==
    [][SavePeriod = 0 /\ file' # file => server' = "stopping"]_vars

(* After a stop by a signal the file holds the state the server stopped in. *)
StopSaved ==
    [][server = "stopping" /\ server' = "down"
          => Range(file) = Range(Checkpoint)]_vars

(* No player grows old in the game: it leaves, or a request of its own sets
   its stay_time back to zero, again and again. *)
IdleLeave ==
    \A t \in Tokens : []<>(~HasPlayer(t) \/ dog[t].stay = 0)

-----------------------------------------------------------------------------
(* Why the invariants above hold: the inductive invariant of the proofs. *)

(* Tokens tell players apart, in memory and in the checkpoint; they were all
   drawn by some join; and what a process has loaded so far is the part of the
   checkpoint below its cursor. *)
UniqueTokens ==
    \A p, q \in DOMAIN players_table :
        players_table[p].token = players_table[q].token => p = q
UniqueSaved ==
    \A i, j \in DOMAIN file : file[i].token = file[j].token => i = j
OnlyIssued ==
    /\ \A p \in DOMAIN players_table : players_table[p].token \in DOMAIN issued
    /\ \A i \in DOMAIN file : file[i].token \in DOMAIN issued
LoadedBelow ==
    server \in {"down", "loading"} =>
        \A p \in DOMAIN players_table :
            \E i \in DOMAIN file :
                i < from /\ file[i].token = players_table[p].token
RosterInv == UniqueTokens /\ UniqueSaved /\ OnlyIssued /\ LoadedBelow

(* Dogs are only in sessions of the list, so that DeleteDog reaches them. *)
DogsInSessions ==
    \A m \in Maps : DOMAIN dogs[m] # {} => \E i \in DOMAIN sessions : sessions[i] = m
DogInv == DogsInSessions /\ DogsHavePlayers /\ TokensHavePlayers /\ LivePlayersPlay

(* The players of the tokens that a retirement has passed are gone. *)
RetiredGone ==
    phase \in {"retire", "delete"} =>
        \A i \in DOMAIN to_retirement : i < at => ~HasPlayer(to_retirement[i])
GhostInv == RetiredGone /\ GhostsPending

(* Together: who plays, with which token and which dog, is consistent in every
   state, in the middle of a tick and after any exception, crash or restart. *)
Consistent == TypeOK /\ RosterInv /\ DogInv /\ GhostInv

(* Sessions differ in the names of their maps, in memory and in the checkpoint;
   every player is in a session of the list. *)
OneSessionPerName ==
    \A i, j \in DOMAIN sessions : SameName(sessions[i], sessions[j]) => sessions[i] = sessions[j]
OneSavedPerName ==
    \A i, j \in DOMAIN file : SameName(file[i].map, file[j].map) => file[i].map = file[j].map
PlayersInSessions ==
    \A p \in DOMAIN players_table : players_table[p].session \in Range(sessions)

(* A process that loads has the sessions of saved players only, and would save
   just what the checkpoint has below the cursor. *)
LoadedAlike ==
    server \in {"down", "loading"} =>
        /\ Range(sessions) \subseteq {file[i].map : i \in DOMAIN file}
        /\ Range(Checkpoint) = {file[i] : i \in {j \in DOMAIN file : j < from}}
Reloads == OneSessionPerName /\ OneSavedPerName /\ PlayersInSessions /\ LoadedAlike

(* A retirement that ends in an exception.  With one map name and a database
   that works there is none. *)
Throws == WriteToBDFails \/ DeleteDogThrows
OneName == \A m, n \in Maps : SameName(m, n)
Quiet == OneName /\ "db" \notin Faults

(* The tokens on the list, from its place on, are of players that are there
   and whose dogs stand since the retirement time; no token is there twice;
   and a tick lists the dogs behind its cursor only. *)
ListedIdle ==
    \A i \in DOMAIN to_retirement :
        phase = "update" \/ i >= at =>
            /\ to_retirement[i] \in player_tokens
            /\ ~dog[to_retirement[i]].moving
            /\ dog[to_retirement[i]].stay >= RetirementTime
ListedOnce ==
    \A i, j \in DOMAIN to_retirement : to_retirement[i] = to_retirement[j] => i = j
ListedBelow ==
    phase = "update" =>
        \A i \in DOMAIN to_retirement :
            \E k \in DOMAIN sessions : \E d \in DOMAIN dogs[sessions[k]] :
                /\ k < at \/ (k = at /\ d < from)
                /\ dogs[sessions[k]][d] = to_retirement[i]
UniqueDogs ==
    \A m \in Maps : \A i, j \in DOMAIN dogs[m] : dogs[m][i] = dogs[m][j] => i = j
SessionsOnce == \A i, j \in DOMAIN sessions : sessions[i] = sessions[j] => i = j
Orderly ==
    /\ SessionsOnce
    /\ phase \in {"idle", "save"} => to_retirement = << >>
    /\ ListedIdle /\ ListedOnce /\ ListedBelow /\ UniqueDogs

(* The time since the last checkpoint is in current_time_, and below the save
   period when no tick is longer than it. *)
Punctual ==
    /\ current_time \in 0 .. (SavePeriod - 1)
    /\ phase = "idle" => unsaved <= current_time
    /\ phase # "idle" => unsaved <= current_time + delta /\ delta \in Deltas
=============================================================================
