------------------------------- MODULE World -------------------------------
(***************************************************************************)
(* A session with its map: GameSession, whose dogs may meet anything at    *)
(* any time, put on roads.  Each of its actions gets the conditions that   *)
(* GameSession leaves open: a tick moves every dog along the roads (app.cpp *)
(* UpdatePlayerState), the events are those of FindGatherEvents in their   *)
(* order, the LootGenerator says how many trophies come, and a dog leaves  *)
(* that has stood for RetirementTime.  Faults, checkpoints and the rest of *)
(* the server are in the other modules.                                    *)
(*                                                                         *)
(* A tick takes one unit of time; Speed is the way of one tick.            *)
(***************************************************************************)
EXTENDS Roads, Collisions, FiniteSets, Functions

CONSTANTS
    Tokens, Trophies, TypeOf, Capacity,     \* as in GameSession
    MapRoads,          \* the roads of the map, in their order
    OfficeAt,          \* the position of each office
    Speed,             \* speed_ of the map
    RetirementTime,    \* dog_retirement_time
    Longest,           \* bound: the time without loot is counted up to here
    Percent,           \* of the shortage, after each time without loot
    OtherSessions,     \* whether other sessions use the generator as well
    RandomPosition,    \* random_position_: dogs start anywhere on the first road
    Turns,             \* bound: the directions that players ask for
    Spots              \* bound: the points that chance may choose

ASSUME SessionAssumption ==
    /\ TypeOf \in [Trophies -> Nat] /\ Capacity \in Nat
    /\ Tokens \cap {"none", "map", "gone"} = {}
    /\ IsFiniteSet(Trophies) /\ IsFiniteSet(DOMAIN OfficeAt)
    /\ DOMAIN OfficeAt \cap Nat = {}        \* the ids of trophies are numbers
ASSUME WorldAssumption ==
    /\ Len(MapRoads) > 0 /\ MapRoads \in Seq(Road)
    /\ \A o \in DOMAIN OfficeAt : OfficeAt[o] \in Point
    /\ Speed \in Int                    \* the loader takes any number
    /\ RetirementTime \in Nat
    /\ Longest \in Nat /\ Percent \in [0 .. Longest -> 0 .. 100]
    /\ {OtherSessions, RandomPosition} \subseteq BOOLEAN
    /\ Turns \subseteq Directions
    /\ Spots \subseteq Point

VARIABLES
    dogs, trophy, trophy_added, events, collected_trophy, phase, records, made,
    server, saving, file, torn,  \* of GameSession, they stay as they are
    pos,                 \* Dog: where it is
    speed,               \* Dog: where it goes to
    stay,                \* Dog: stay_time
    was,                 \* Gatherer: where the dog was when the tick began
    place,               \* Trophy: where it lies on the map
    time_without_loot,   \* LootGenerator
    hungry               \* history: ticks in a row that left the session short

sessionVars == <<dogs, trophy, trophy_added, events, collected_trophy, phase,
                 records, made, server, saving, file, torn>>
dogVars  == <<pos, speed, stay, was>>
lootVars == <<place, time_without_loot, hungry>>
vars == <<sessionVars, dogVars, lootVars>>

NoMap == [x \in {} |-> x]

Session == INSTANCE GameSession WITH
    Offices <- DOMAIN OfficeAt, MaxTime <- 0, Faults <- {}

Put(f, k, v) == [x \in DOMAIN f \cup {k} |-> IF x = k THEN v ELSE f[x]]
Without(f, k) == Restrict(f, DOMAIN f \ {k})

-----------------------------------------------------------------------------
(* Requests, between two ticks. *)

Between(p, a, b) ==
    /\ Lesser(a.x, b.x) <= p.x /\ p.x <= Greater(a.x, b.x)
    /\ Lesser(a.y, b.y) <= p.y /\ p.y <= Greater(a.y, b.y)

StartPositions ==
    IF RandomPosition
    THEN {p \in Spots : Between(p, MapRoads[1].start, MapRoads[1].end)}
    ELSE {MapRoads[1].start}

JoinGame(t) ==
    /\ Session!JoinGame(t)
    /\ \E p \in StartPositions : pos' = Put(pos, t, p)
    /\ speed' = Put(speed, t, ZEROSPEED)
    /\ stay' = Put(stay, t, 0)
    /\ UNCHANGED <<was, lootVars>>

(* Any text but the empty one ends the time that a dog has been idle, one that
   names no direction and so stops it as well. *)
ChangeMoveDirection(t, dir) ==
    /\ phase = "idle" /\ t \in DOMAIN dogs
    /\ speed' = [speed EXCEPT ![t] = GetSpeedDirection(dir, Speed)]
    /\ stay' = [stay EXCEPT ![t] = IF dir = "" THEN @ ELSE 0]
    /\ UNCHANGED <<sessionVars, pos, was, lootVars>>

-----------------------------------------------------------------------------
(* A tick. *)

Stands(t) == speed[t] = ZEROSPEED

(* UpdatePlayerState, for every dog of the session. *)
Tick ==
    /\ Session!Tick
    /\ was' = pos
    /\ pos' = [t \in DOMAIN dogs |->
                 IF Stands(t) THEN pos[t] ELSE GetDogNewPosition(MapRoads, pos[t], speed[t])]
    /\ stay' = [t \in DOMAIN dogs |->
                  IF Stands(t) THEN Lesser(stay[t] + 1, RetirementTime) ELSE stay[t]]
    /\ UNCHANGED <<speed, lootVars>>

(* FindGatherEvents.  A trophy or an office is met by a dog once. *)
PlaceOf(e) == IF e[2] \in DOMAIN trophy THEN place[trophy[e[2]]] ELSE OfficeAt[e[2]]

GatherEvents ==
    {e \in (DOMAIN dogs) \X (DOMAIN trophy) : MeetsItem(was[e[1]], pos[e[1]], PlaceOf(e))}
    \cup
    {e \in (DOMAIN dogs) \X (DOMAIN OfficeAt) : MeetsOffice(was[e[1]], pos[e[1]], PlaceOf(e))}

Result(e) == TryCollectPoint(was[e[1]], pos[e[1]], PlaceOf(e))

(* std::sort leaves the order of events of one time open. *)
IsNextEvent(e) ==
    /\ e \in GatherEvents \ events
    /\ \A f \in GatherEvents \ events : ~SortByTime(Result(f), Result(e))

Gather(t, x) ==
    /\ phase = "gather"
    /\ IsNextEvent(<<t, x>>)
    /\ \/ x \in DOMAIN trophy /\ Session!GatherItem(t, x)
       \/ x \in DOMAIN OfficeAt /\ Session!GatherOffice(t, x)
    /\ UNCHANGED <<dogVars, lootVars>>

(* Mutant: what was collected still lies there. *)
PlacesKept == place
PlacesLeft == Restrict(place, Range(trophy'))

EndGather ==
    /\ phase = "gather"
    /\ GatherEvents \subseteq events
    /\ Session!EndGather
    /\ place' = PlacesLeft
    /\ UNCHANGED <<dogVars, time_without_loot, hungry>>

-----------------------------------------------------------------------------
(* Loot. *)

LootShortage == Cardinality(DOMAIN dogs) - Cardinality(DOMAIN trophy)

(* What the generator has of time without loot when the session is asked: the
   sessions before it add their time, or reset all of it by a trophy of theirs. *)
TimesBefore == IF OtherSessions THEN 0 .. Longest ELSE {time_without_loot}

(* LootGenerator::Generate with the random generator that it has by default. *)
Generate(time) == (LootShortage * Percent[time] + 50) \div 100

(* Mutant: the time is not kept when nothing was made. *)
ForgetTime(time, generated) == 0
TimeAfter(time, generated) == IF generated > 0 THEN 0 ELSE time

LootSpots == {p \in Spots : GetRoadAtPoint(MapRoads, p) # {}}

(* Only a session with fewer trophies than dogs asks the generator.  Bound:
   no more trophies come than there are left in Trophies. *)
UpdateTrophyState ==
    /\ phase = "loot"
    /\ Session!UpdateTrophyState
    /\ \E spots \in [made' \ made -> LootSpots] :
          place' = [x \in DOMAIN place \cup DOMAIN spots |->
                       IF x \in DOMAIN spots THEN spots[x] ELSE place[x]]
    /\ IF LootShortage > 0
       THEN \E before \in TimesBefore :
              LET time == Lesser(before + 1, Longest)
                  left == Cardinality(Trophies \ made)
              IN  /\ trophy_added' - trophy_added = Lesser(Generate(time), left)
                  /\ time_without_loot' = TimeAfter(time, Generate(time))
       ELSE UNCHANGED time_without_loot
    /\ hungry' = IF LootShortage > 0 /\ trophy_added' = trophy_added
                 THEN Lesser(hungry + 1, Longest + 1) ELSE 0
    /\ UNCHANGED dogVars

-----------------------------------------------------------------------------
(* Retirement, and the end of the tick. *)

(* to_retirement *)
Retires(t) == Stands(t) /\ stay[t] >= RetirementTime

Retire(t) ==
    /\ Session!Retire(t)
    /\ Retires(t)
    /\ pos' = Without(pos, t) /\ was' = Without(was, t)
    /\ speed' = Without(speed, t) /\ stay' = Without(stay, t)
    /\ UNCHANGED lootVars

EndTick ==
    /\ UNCHANGED file /\ Session!EndTick
    /\ \A t \in DOMAIN dogs : ~Retires(t)
    /\ was' = NoMap
    /\ UNCHANGED <<pos, speed, stay, lootVars>>

Init ==
    /\ Session!Init
    /\ pos = NoMap /\ speed = NoMap /\ stay = NoMap /\ was = NoMap
    /\ place = NoMap /\ time_without_loot = 0 /\ hungry = 0

Meet == \E t \in DOMAIN dogs : \E x \in DOMAIN trophy \cup DOMAIN OfficeAt : Gather(t, x)

Request == \E t \in Tokens : JoinGame(t) \/ \E dir \in Turns : ChangeMoveDirection(t, dir)

Next ==
    \/ Request
    \/ Tick \/ Meet \/ EndGather \/ UpdateTrophyState
    \/ (\E t \in Tokens : Retire(t)) \/ EndTick

Spec == Init /\ [][Next]_vars
-----------------------------------------------------------------------------
(* Every dog of the session has a place, a speed and a stay time. *)
DogsPlaced ==
    /\ DOMAIN pos = DOMAIN dogs /\ DOMAIN speed = DOMAIN dogs /\ DOMAIN stay = DOMAIN dogs
    /\ \A t \in DOMAIN dogs :
          /\ pos[t] \in Point
          /\ \E dir \in Directions : speed[t] = GetSpeedDirection(dir, Speed)
          /\ stay[t] \in 0 .. RetirementTime

(* Every variable has its type. *)
TypeOK ==
    /\ Session!TypeOK
    /\ DogsPlaced
    /\ was # NoMap => DOMAIN was = DOMAIN dogs
    /\ DOMAIN place = Range(trophy) /\ \A x \in DOMAIN place : place[x] \in Point
    /\ time_without_loot \in 0 .. Longest /\ hungry \in 0 .. Longest + 1

(* A dog is on some road, always: route is not empty when GetDogNewPosition
   takes its last element (app.cpp:199), however the roads cross, overlap or
   end, and wherever earlier ticks have put the dog. *)
DogsOnRoads == \A t \in DOMAIN dogs : GetRoadAtPoint(MapRoads, pos[t]) # {}

(* A tick never takes a dog over what is not road: the way from where it was to
   where it is lies on one road. *)
KeepsToRoads ==
    [][\A t \in DOMAIN dogs \cap DOMAIN dogs' :
          GetRoadAtPoint(MapRoads, pos[t]) \cap GetRoadAtPoint(MapRoads, pos'[t]) # {}]_vars

(* What a player sees of a way along an axis: how far down the way a thing
   lies, and how far beside it. *)
Ahead(t, c) ==
    IF was[t].y = pos[t].y
    THEN IF was[t].x <= pos[t].x THEN c.x - was[t].x ELSE was[t].x - c.x
    ELSE IF was[t].y <= pos[t].y THEN c.y - was[t].y ELSE was[t].y - c.y
Beside(t, c) == IF was[t].y = pos[t].y THEN Size(c.y - pos[t].y) ELSE Size(c.x - pos[t].x)
Way(t) == Distance(was[t], pos[t])
Passes(t, c, reach) ==
    was[t] # pos[t] /\ Ahead(t, c) \in 0 .. Way(t) /\ Beside(t, c) <= reach

PassesItem(t, i) ==
    Passes(t, place[trophy[i]], DOG_COLLIDER_SIZE + ITEM_COLLIDER_SIZE)
PassesOffice(t, o) ==
    Passes(t, OfficeAt[o], DOG_COLLIDER_SIZE + OFFICE_COLLIDER_SIZE)

(* What a tick has gathered, when the loop over its events ends.  A dog with room
   in its bag has left no trophy that it passed, unless it came to an office there
   or later; and a dog that came to an office has in its bag only what it passed
   there or later.  (At one and the same place either may come first.) *)
LeavesNothing(t) ==
    Session!HasMoreCapacity(t) =>
        \A i \in DOMAIN trophy' :
            PassesItem(t, i) =>
                \E o \in DOMAIN OfficeAt :
                    /\ PassesOffice(t, o)
                    /\ Ahead(t, place[trophy[i]]) <= Ahead(t, OfficeAt[o])
KeepsNothing(t) ==
    \A o \in DOMAIN OfficeAt, x \in Range(dogs[t].bag) :
        PassesOffice(t, o) =>
            \E i \in DOMAIN trophy :
                /\ trophy[i] = x /\ PassesItem(t, i)
                /\ Ahead(t, OfficeAt[o]) <= Ahead(t, place[x])
TakesWhatItPasses ==
    [][phase = "gather" /\ phase' = "loot" =>
          \A t \in DOMAIN dogs : LeavesNothing(t) /\ KeepsNothing(t)]_vars

(* A dog meets things in the order in which they lie on its way, and of two
   dogs that both go as far as their speed takes them the nearer one is asked
   first: a trophy goes to another one only when the nearer has no room. *)
MetInOrder ==
    [][\A e \in events' \ events : \A f \in GatherEvents \ events' :
          (f[1] = e[1] \/ (Way(e[1]) = Speed /\ Way(f[1]) = Speed))
             => Ahead(e[1], PlaceOf(e)) <= Ahead(f[1], PlaceOf(f))]_vars

(* A session that stays short of trophies gets some before long, although the
   time counts only while it is short, and a tick that brings nothing must not
   lose it; unless other sessions take the time of the generator. *)
LootComes == made = Trophies \/ hungry < Longest
LootInTime == OtherSessions \/ LootComes

(* A dog that a tick has not moved is one that stands.  The code does not keep
   this: is_collised is never true (app.cpp:201), and a dog at the border of its
   road goes on, without ever being idle. *)
StoppedStands ==
    phase = "gather" => \A t \in DOMAIN dogs : pos[t] = was[t] => Stands(t)

-----------------------------------------------------------------------------
(* Why the invariants above hold: the inductive invariant of the proofs. *)

DogsThere == DOMAIN dogs \subseteq Tokens /\ IsFiniteSet(DOMAIN dogs)

TrophiesPlaced == DOMAIN place = Range(trophy) /\ \A x \in DOMAIN place : place[x] \in Point

(* In a tick every dog has gone along one axis; between ticks nobody has a way
   behind, and nothing is left to be handled. *)
WaysStraight ==
    IF phase = "idle" THEN was = NoMap /\ events = {}
    ELSE /\ DOMAIN was = DOMAIN dogs
         /\ \A t \in DOMAIN dogs :
               was[t] \in Point /\ (was[t].x = pos[t].x \/ was[t].y = pos[t].y)

(* Only what was met has been handled, for each dog the nearer before the
   farther. *)
NotAfter(t, x, y) == Ahead(t, PlaceOf(<<t, x>>)) <= Ahead(t, PlaceOf(<<t, y>>))
OnlyMetHandled == phase = "gather" => events \subseteq GatherEvents
HandledInOrder ==
    phase = "gather" =>
        \A e \in events, f \in GatherEvents \ events :
            e[1] = f[1] => NotAfter(e[1], e[2], f[2])

(* A trophy that was met is collected, or the bag of its dog was full, and is,
   unless the dog came to an office there or later. *)
TakenOrFull ==
    phase = "gather" =>
        \A t \in DOMAIN dogs, i \in DOMAIN trophy :
            <<t, i>> \in events =>
                \/ i \in collected_trophy
                \/ ~Session!HasMoreCapacity(t)
                \/ \E o \in DOMAIN OfficeAt : <<t, o>> \in events /\ NotAfter(t, i, o)

(* What a dog has that was at an office, it has met there or later. *)
BagSinceOffice ==
    phase = "gather" =>
        \A t \in DOMAIN dogs, o \in DOMAIN OfficeAt :
            <<t, o>> \in events =>
                \A k \in DOMAIN dogs[t].bag :
                    \E i \in DOMAIN trophy :
                        /\ trophy[i] = dogs[t].bag[k]
                        /\ <<t, i>> \in events /\ NotAfter(t, o, i)

(* Whoever is short of a trophy gets one by the longest time without loot; the
   time is at least that of the ticks that left the session short. *)
LootIsSure == Longest > 0 /\ Percent[Longest] >= 50
LootTimed ==
    \/ OtherSessions \/ made = Trophies
    \/ hungry <= time_without_loot /\ hungry < Longest
=============================================================================
