----------------------------- MODULE GameSession -----------------------------
(***************************************************************************)
(* One session of the game (GameSession and Dog of model.cpp, and the part *)
(* of a tick in app.cpp that concerns them): trophies appear on the map,   *)
(* dogs that pass them put them into their bags, bring them to an office   *)
(* and are retired with a record; a checkpoint is written at the end of a  *)
(* tick, or piece by piece by the signal handler while ticks and joins go  *)
(* on, and loaded by the next process.                                     *)
(*                                                                         *)
(* Positions are left out: FindGatherEvents may report any dog at any item *)
(* or office, in any order, each pair once in a tick.  Which dogs retire,  *)
(* and when a checkpoint is due, is the matter of Application: here a dog  *)
(* may be retired by any tick in which it met nothing, and any tick may    *)
(* save.  A tick takes one unit of time.                                   *)
(***************************************************************************)
EXTENDS Integers, Sequences, FiniteSets, FiniteSetsExt, SequencesExt, Functions

CONSTANTS
    Tokens,     \* the players; a dog is named by the token of its player
    Trophies,   \* bound: every trophy that may ever be made
    TypeOf,     \* the type of each trophy
    Offices,    \* the offices of the map
    Capacity,   \* bag_capacity_
    MaxTime,    \* bound: times are counted up to here
    Faults      \* what may go wrong, a subset of FaultKinds

FaultKinds == {"crash", "signal"}

ASSUME SessionAssumption ==
    /\ TypeOf \in [Trophies -> Nat]
    /\ Capacity \in Nat
    /\ MaxTime \in Nat
    /\ Faults \subseteq FaultKinds
    /\ Tokens \cap {"none", "map", "gone"} = {}

VARIABLES
    dogs,              \* token -> the dog: bag, score, played_time (and age)
    trophy,            \* GameSession: id -> trophy on the map
    trophy_added,      \* GameSession: the next id
    events,            \* the gathering events of this tick that were handled
    collected_trophy,  \* the ids collected in this tick
    phase,             \* where the tick is
    server,            \* what the process is doing
    saving,            \* what the signal handler has read of the session
    records,           \* database: token -> score, played time (and age)
    file,              \* disk: the checkpoint
    made,              \* history: the trophies made so far
    torn               \* history: loaded from a checkpoint that a tick has torn

sessionVars == <<dogs, trophy, trophy_added>>
tickVars    == <<events, collected_trophy, phase>>
historyVars == <<made, torn>>
processVars == <<server, saving>>
vars == <<sessionVars, tickVars, processVars, records, file, historyVars>>

-----------------------------------------------------------------------------
EmptyMap == [x \in {} |-> x]

Put(f, k, v) == [x \in DOMAIN f \cup {k} |-> IF x = k THEN v ELSE f[x]]

(* age is history: the game time from the join of the player on. *)
NewDog == [bag |-> << >>, score |-> 0, played |-> 0, age |-> 0]

Serving == server = "running" /\ phase = "idle"

(* The strand goes on with the handler it has begun after ioc.stop(). *)
Working(p) == server \in {"running", "stopping"} /\ phase = p

JoinGame(t) ==
    /\ Serving
    /\ t \notin DOMAIN dogs \cup DOMAIN records \cup DOMAIN file.dogs
    /\ dogs' = Put(dogs, t, NewDog)
    /\ UNCHANGED <<trophy, trophy_added, tickVars, processVars, records, file, historyVars>>

-----------------------------------------------------------------------------
(* What a save reads of a dog: DogRepr has its bag and score, no played_time. *)
DogRepr(d) == [bag |-> d.bag, score |-> d.score, age |-> d.age]

(* SaveGameState lists the players, then copies the trophies, then WriteGameDate
   reads the dogs through the pointers of the players.  On the strand that is
   one step; the signal handler takes a step for each. *)
NotSaving ==
    [step |-> "none", players |-> {}, trophy |-> EmptyMap, dogs |-> EmptyMap, torn |-> FALSE]

Unread(t) == t \in saving.players \ DOMAIN saving.dogs

ReadDog(t) == [saving EXCEPT !.dogs = Put(@, t, DogRepr(dogs[t]))]

(* A trophy that is in the copy already is seen in a bag as well. *)
ReadTwice(t) == saving.step = "dogs" /\ Unread(t)

-----------------------------------------------------------------------------
(* A tick: every dog plays a little longer, then meets things on its way. *)

AtMost(n, bound) == IF n > bound THEN bound ELSE n

Older(d) == [d EXCEPT !.played = AtMost(@ + 1, MaxTime),
                      !.age = AtMost(@ + 1, MaxTime)]

Tick ==
    /\ Serving
    /\ dogs' = [t \in DOMAIN dogs |-> Older(dogs[t])]
    /\ phase' = "gather"
    /\ UNCHANGED <<trophy, trophy_added, events, collected_trophy, processVars,
                   records, file, historyVars>>

(* Mutant: ">=" for ">". *)
HasRoomForOneMore(t) == Capacity >= Len(dogs[t].bag)
HasMoreCapacity(t) == Capacity > Len(dogs[t].bag)

MayTake(t, i) == i \notin collected_trophy /\ HasMoreCapacity(t)

(* Mutant: the bag gets the id in place of the trophy. *)
MeetItemById(t, i) ==
    IF MayTake(t, i)
    THEN /\ dogs' = [dogs EXCEPT ![t].bag = Append(@, i)]
         /\ collected_trophy' = collected_trophy \cup {i}
    ELSE UNCHANGED <<dogs, collected_trophy>>

MeetItem(t, i) ==
    IF MayTake(t, i)
    THEN /\ dogs' = [dogs EXCEPT ![t].bag = Append(@, trophy[i])]
         /\ collected_trophy' = collected_trophy \cup {i}
    ELSE UNCHANGED <<dogs, collected_trophy>>

BagScore(bag) == FoldLeft(LAMBDA sum, x : sum + TypeOf[x], 0, bag)

(* Mutant: the bag is not emptied. *)
ReturnTrophyKeepsBag(t) ==
    dogs' = [dogs EXCEPT ![t].score = @ + BagScore(dogs[t].bag)]
ReturnTrophyToOffice(t) ==
    dogs' = [dogs EXCEPT ![t].score = @ + BagScore(dogs[t].bag),
                         ![t].bag = << >>]

(* One turn of the loop over the events, in the order of their times. *)
GatherItem(t, i) ==
    /\ Working("gather")
    /\ t \in DOMAIN dogs /\ i \in DOMAIN trophy
    /\ <<t, i>> \notin events
    /\ MeetItem(t, i)
    /\ events' = events \cup {<<t, i>>}
    /\ saving' = [saving EXCEPT !.torn = @ \/ (ReadTwice(t) /\ MayTake(t, i))]
    /\ UNCHANGED <<trophy, trophy_added, phase, server, records, file, historyVars>>

GatherOffice(t, o) ==
    /\ Working("gather")
    /\ t \in DOMAIN dogs
    /\ <<t, o>> \notin events
    /\ ReturnTrophyToOffice(t)
    /\ events' = events \cup {<<t, o>>}
    /\ UNCHANGED <<trophy, trophy_added, collected_trophy, phase, processVars,
                   records, file, historyVars>>

(* Mutant: collected trophies stay on the map. *)
KeepCollected == trophy
RemoveTrophies == Restrict(trophy, DOMAIN trophy \ collected_trophy)

EndGather ==
    /\ Working("gather")
    /\ trophy' = RemoveTrophies
    /\ collected_trophy' = {}
    /\ phase' = "loot"
    /\ UNCHANGED <<dogs, trophy_added, events, processVars, records, file, historyVars>>

(* LootGenerator::Generate returns a part of the shortage. *)
Shortage == 0 .. (Cardinality(DOMAIN dogs) - Cardinality(DOMAIN trophy))

NextId == trophy_added

(* Nothing is made when no dog is short of a trophy.  A new trophy takes the
   next id, and the place of any trophy that has it. *)
UpdateTrophyState ==
    /\ Working("loot")
    /\ \/ \E n \in Shortage : \E new \in [1 .. n -> Trophies \ made] :
             /\ IsInjective(new)
             /\ trophy' = [i \in DOMAIN trophy \cup (NextId .. (NextId + n - 1)) |->
                              IF i \in NextId .. (NextId + n - 1)
                              THEN new[i - NextId + 1] ELSE trophy[i]]
             /\ trophy_added' = trophy_added + n
             /\ made' = made \cup Range(new)
       \/ /\ Cardinality(DOMAIN dogs) <= Cardinality(DOMAIN trophy)
          /\ UNCHANGED <<trophy, trophy_added, made>>
    /\ phase' = "retire"
    /\ UNCHANGED <<dogs, events, collected_trophy, processVars, records, file, torn>>

(* SaveDogRecord and DeleteDog: what the dog carries goes with it.  It stays in
   dog_base_ as it is, where a save that has listed its player will read it. *)
Retire(t) ==
    /\ Working("retire")
    /\ t \in DOMAIN dogs
    /\ \A e \in events : e[1] # t
    /\ records' = Put(records, t, [score |-> dogs[t].score,
                                   played |-> dogs[t].played,
                                   age |-> dogs[t].age])
    /\ dogs' = Restrict(dogs, DOMAIN dogs \ {t})
    /\ saving' = IF Unread(t) THEN ReadDog(t) ELSE saving
    /\ UNCHANGED <<trophy, trophy_added, tickVars, server, file, historyVars>>

-----------------------------------------------------------------------------
(* Checkpoints. *)

NoFile == [dogs |-> EmptyMap, trophy |-> EmptyMap, torn |-> FALSE]

(* Mutant: the score is left out. *)
RestoreScoreless(r) == [bag |-> r.bag, score |-> 0, played |-> 0, age |-> r.age]
RestoreDog(r) == [bag |-> r.bag, score |-> r.score, played |-> 0, age |-> r.age]

Checkpoint ==
    [dogs   |-> [t \in DOMAIN dogs |-> DogRepr(dogs[t])],
     trophy |-> trophy,
     torn   |-> torn]

SaveGameState == file' = Checkpoint

EndTick ==
    /\ Working("retire")
    /\ phase' = "idle" /\ events' = {}
    /\ SaveGameState \/ UNCHANGED file
    /\ UNCHANGED <<sessionVars, collected_trophy, processVars, records, historyVars>>

(* Bound: a session restored from a torn checkpoint is not stopped by a signal
   again.  Its trophies may multiply, and with them the scores, without end. *)
TornBound == ~torn

(* SIGINT or SIGTERM: the handler is not on the strand and finds ticks half
   done.  What it has not read yet goes on changing. *)
Signal ==
    /\ "signal" \in Faults
    /\ server = "running" /\ saving.step = "none"
    /\ TornBound
    /\ saving' = [saving EXCEPT !.step = "trophies", !.players = DOMAIN dogs]
    /\ UNCHANGED <<sessionVars, tickVars, server, records, file, historyVars>>

CopyTrophies ==
    /\ saving.step = "trophies"
    /\ saving' = [saving EXCEPT !.step = "dogs", !.trophy = trophy,
                                !.torn = collected_trophy # {}]
    /\ UNCHANGED <<sessionVars, tickVars, server, records, file, historyVars>>

CopyDog(t) ==
    /\ saving.step = "dogs"
    /\ Unread(t)
    /\ saving' = ReadDog(t)
    /\ UNCHANGED <<sessionVars, tickVars, server, records, file, historyVars>>

WriteAndStop ==
    /\ saving.step = "dogs"
    /\ \A t \in saving.players : ~Unread(t)
    /\ file' = [dogs |-> saving.dogs, trophy |-> saving.trophy, torn |-> saving.torn]
    /\ server' = "stopping"
    /\ saving' = NotSaving
    /\ UNCHANGED <<sessionVars, tickVars, records, historyVars>>

Down ==
    /\ server' = "down" /\ saving' = NotSaving
    /\ dogs' = EmptyMap /\ trophy' = EmptyMap /\ trophy_added' = 0
    /\ events' = {} /\ collected_trophy' = {} /\ phase' = "idle"
    /\ UNCHANGED <<records, file, historyVars>>

Exit == server = "stopping" /\ phase = "idle" /\ Down

Crash == "crash" \in Faults /\ server # "down" /\ Down

AddTrophies(f) == trophy' = f /\ trophy_added' = Cardinality(DOMAIN f)

(* The next process loads the checkpoint; without a player it has no session
   to put the trophies in.  Every AddTrophyOnMap counts one. *)
UploadGameState ==
    /\ server = "down"
    /\ server' = "running"
    /\ dogs' = [t \in DOMAIN file.dogs |-> RestoreDog(file.dogs[t])]
    /\ AddTrophies(IF DOMAIN file.dogs = {} THEN EmptyMap ELSE file.trophy)
    /\ torn' = file.torn
    /\ UNCHANGED <<tickVars, saving, records, file, made>>

-----------------------------------------------------------------------------
Init ==
    /\ dogs = EmptyMap /\ trophy = EmptyMap /\ trophy_added = 0
    /\ events = {} /\ collected_trophy = {} /\ phase = "idle"
    /\ server = "running" /\ saving = NotSaving
    /\ records = EmptyMap
    /\ file = NoFile
    /\ made = {} /\ torn = FALSE

Gather ==
    \E t \in Tokens :
        \/ \E i \in DOMAIN trophy : GatherItem(t, i)
        \/ \E o \in Offices : GatherOffice(t, o)

Next ==
    \/ \E t \in Tokens : JoinGame(t) \/ Retire(t) \/ CopyDog(t)
    \/ Tick \/ Gather \/ EndGather \/ UpdateTrophyState \/ EndTick
    \/ Signal \/ CopyTrophies \/ WriteAndStop
    \/ Exit \/ Crash \/ UploadGameState

Spec == Init /\ [][Next]_vars
-----------------------------------------------------------------------------
Dog == [bag : Seq(Trophies), score : Nat, played : Nat, age : Nat]
SavedDog == [bag : Seq(Trophies), score : Nat, age : Nat]

(* Every variable has its type. *)
TypeOK ==
    /\ DOMAIN dogs \subseteq Tokens /\ dogs \in [DOMAIN dogs -> Dog]
    /\ DOMAIN trophy \subseteq Nat /\ trophy \in [DOMAIN trophy -> Trophies]
    /\ trophy_added \in Nat
    /\ collected_trophy \subseteq DOMAIN trophy
    /\ events \subseteq Tokens \X (Nat \cup Offices)
    /\ phase \in {"idle", "gather", "loot", "retire"}
    /\ server \in {"running", "stopping", "down"}
    /\ saving.step \in {"none", "trophies", "dogs"} /\ saving.torn \in BOOLEAN
    /\ DOMAIN saving.dogs \subseteq saving.players /\ saving.players \subseteq Tokens
    /\ saving.dogs \in [DOMAIN saving.dogs -> SavedDog]
    /\ DOMAIN saving.trophy \subseteq Nat
    /\ saving.trophy \in [DOMAIN saving.trophy -> Trophies]
    /\ DOMAIN records \subseteq Tokens
    /\ records \in [DOMAIN records -> [score : Nat, played : Nat, age : Nat]]
    /\ file = [dogs |-> file.dogs, trophy |-> file.trophy, torn |-> file.torn]
    /\ torn \in BOOLEAN /\ file.torn \in BOOLEAN
    /\ DOMAIN file.dogs \subseteq Tokens
    /\ file.dogs \in [DOMAIN file.dogs -> SavedDog]
    /\ DOMAIN file.trophy \subseteq Nat
    /\ file.trophy \in [DOMAIN file.trophy -> Trophies]
    /\ made \subseteq Trophies

InBag(x, t) == \E k \in DOMAIN dogs[t].bag : dogs[t].bag[k] = x
OnMap(x) == \E i \in DOMAIN trophy \ collected_trophy : trophy[i] = x

(* A trophy is in one place only, the map, or one place in one bag, although a
   trophy stays on the map until the events of the tick have been handled, and
   a process may have come back from a checkpoint. *)
NoTrophyTwice ==
    /\ \A x \in Trophies, t \in DOMAIN dogs : InBag(x, t) =>
          /\ ~OnMap(x)
          /\ \A u \in DOMAIN dogs : InBag(x, u) => u = t
          /\ IsInjective(dogs[t].bag)
    /\ IsInjective(trophy)

(* A crash and a restart do not change that.  Only a checkpoint of the signal
   handler may have a trophy twice: when it copies the map while a tick has
   collected and not yet removed, or a dog that it has not read yet takes what
   it has copied. *)
TrophiesOnce == torn \/ NoTrophyTwice

(* No bag, in memory or in the checkpoint, holds more than it may: Restore
   throws "Failed to put bag content" on a larger one, and no player of the
   checkpoint would be loaded any more. *)
BagsRestorable ==
    /\ \A t \in DOMAIN dogs : Len(dogs[t].bag) <= Capacity
    /\ \A t \in DOMAIN file.dogs : Len(file.dogs[t].bag) <= Capacity

(* A trophy that a running server has on the map leaves it only because a dog
   has collected it in this tick. *)
TrophyTaken ==
    [][server # "down" /\ server' # "down" =>
          \A i \in DOMAIN trophy :
              trophy[i] \notin Range(trophy') => i \in collected_trophy]_vars

(* A process that has loaded a checkpoint with players would save it again:
   every bag, every score and all trophies are there. *)
CheckpointRestored ==
    [][server = "down" /\ server' = "running" /\ DOMAIN file.dogs # {}
          => Checkpoint' = file]_vars

(* The record of a player tells all the time it has played. *)
PlayTimeRecorded ==
    \A t \in DOMAIN records : records[t].played = records[t].age

-----------------------------------------------------------------------------
(* The place of a trophy and the score of a player, as in TrophyLedger. *)
Where(x) ==
    IF \E t \in DOMAIN dogs : InBag(x, t)
    THEN CHOOSE t \in DOMAIN dogs : InBag(x, t)
    ELSE IF OnMap(x) THEN "map"
    ELSE IF x \in made THEN "gone" ELSE "none"

Score(t) ==
    IF t \in DOMAIN dogs THEN dogs[t].score
    ELSE IF t \in DOMAIN records THEN records[t].score ELSE 0

Ledger == INSTANCE TrophyLedger WITH
    where <- [x \in Trophies |-> Where(x)],
    score <- [t \in Tokens |-> Score(t)]

(* Until its process ends, a session keeps the promises of TrophyLedger, also
   while a signal handler saves it: one dog takes a trophy, delivers it once, scores
   its type, and the score of a player outlives its dog, in the records. *)
LedgerKept == Ledger!Spec

-----------------------------------------------------------------------------
(* Why BagsRestorable and TrophiesOnce hold: the inductive invariant of the
   proofs, which does not look at scores. *)

Bags == {bag \in Seq(Trophies) : Len(bag) <= Capacity}

TrophyMap(f) == IsFiniteSet(DOMAIN f) /\ f \in [DOMAIN f -> Trophies]

DogsShaped ==
    \A t \in DOMAIN dogs :
        DOMAIN dogs[t] = {"bag", "score", "played", "age"} /\ dogs[t].bag \in Bags
SavedShaped(saved) ==
    \A t \in DOMAIN saved :
        DOMAIN saved[t] = {"bag", "score", "age"} /\ saved[t].bag \in Bags

(* No bag anywhere, in memory, in the file or in a copy, is too full. *)
Shaped ==
    /\ DogsShaped /\ SavedShaped(file.dogs) /\ SavedShaped(saving.dogs)
    /\ TrophyMap(trophy) /\ TrophyMap(file.trophy) /\ TrophyMap(saving.trophy)
    /\ trophy_added \in Nat
    /\ collected_trophy \subseteq DOMAIN trophy
    /\ DOMAIN saving = {"step", "players", "trophy", "dogs", "torn"}
    /\ saving.torn \in BOOLEAN

(* Where the handlers on and off the strand are. *)
Phases ==
    /\ phase # "gather" => collected_trophy = {}
    /\ server = "down" => phase = "idle"
    /\ saving.step \in {"none", "trophies", "dogs"}
    /\ saving.step = "none" => saving = NotSaving
    /\ saving.step # "none" => server = "running" /\ ~torn
    /\ \A t \in saving.players : Unread(t) => t \in DOMAIN dogs

(* A trophy that is somewhere has been made, so that no new one is it. *)
MadeSoFar ==
    /\ Range(trophy) \cup Range(file.trophy) \cup Range(saving.trophy) \subseteq made
    /\ \A t \in DOMAIN dogs : Range(dogs[t].bag) \subseteq made
    /\ \A t \in DOMAIN file.dogs : Range(file.dogs[t].bag) \subseteq made
    /\ \A t \in DOMAIN saving.dogs : Range(saving.dogs[t].bag) \subseteq made

Disjoint(S, T) == S \cap T = {}

(* The bags of these dogs hold each trophy once, and none that lies there. *)
OnceIn(ds, lying) ==
    /\ \A t \in DOMAIN ds : IsInjective(ds[t].bag) /\ Disjoint(Range(ds[t].bag), lying)
    /\ \A t, u \in DOMAIN ds : t # u => Disjoint(Range(ds[t].bag), Range(ds[u].bag))

Lying == {trophy[i] : i \in DOMAIN trophy \ collected_trophy}

OnceInGame == IsInjective(trophy) /\ OnceIn(dogs, Lying)
OnceInFile == IsInjective(file.trophy) /\ OnceIn(file.dogs, Range(file.trophy))

(* What a save has read stays apart from what the game has of it, but for the
   bag of the same dog; and from what it is still going to read. *)
OnceInSave ==
    /\ OnceIn(saving.dogs, Lying)
    /\ \A u \in DOMAIN saving.dogs, t \in DOMAIN dogs :
          t # u => Disjoint(Range(saving.dogs[u].bag), Range(dogs[t].bag))
    /\ saving.step = "dogs" /\ ~saving.torn =>
          /\ IsInjective(saving.trophy)
          /\ OnceIn(saving.dogs, Range(saving.trophy))
          /\ \A t \in saving.players :
                Unread(t) => Disjoint(Range(dogs[t].bag), Range(saving.trophy))

Once ==
    /\ MadeSoFar
    /\ ~torn => OnceInGame /\ OnceInSave
    /\ ~file.torn => OnceInFile
=============================================================================
