------------------------------- MODULE MCWorld -------------------------------
(* Instances of World for TLC. *)
EXTENDS World, TLC

CONSTANTS t1, t2, o1, ring, bone

TwoTokens   == {t1, t2}
TwoTrophies == {ring, bone}
OfOneType   == [x \in TwoTrophies |-> 0]

At(x, y) == [x |-> x, y |-> y]

Config == INSTANCE Loader WITH Unit <- 20

Whole(n)  == [value |-> n, double |-> FALSE]
Double(n) == [value |-> n, double |-> TRUE]

(* A corner: one unit to the west, then one to the south, and an office where they
   meet, so that a dog passes trophies before it on the one road and after it on the
   other.  Its dogs have the speed of their map, in twentieths as in Roads. *)
CornerMap ==
    [id |-> "corner", name |-> "Corner", buildings |-> << >>,
     roads |-> << [x0 |-> 1, y0 |-> 0, x1 |-> 0], [x0 |-> 0, y0 |-> 0, y1 |-> 1] >>,
     offices |-> << [id |-> o1, x |-> 0, y |-> 0, offsetX |-> 5, offsetY |-> 0] >>,
     lootTypes |-> << "key", "wallet" >>,
     dogSpeed |-> Double(16), bagCapacity |-> Whole(1)]
CornerConfig ==
    [maps |-> << CornerMap >>, dogRetirementTime |-> Double(1), defaultDogSpeed |-> Whole(5),
     lootGeneratorConfig |-> [period |-> Double(5), probability |-> Double(1)]]

Game     == Config!LoadGame(CornerConfig)
Corner   == Game.maps[1].roads
InTheCorner == Game.maps[1].offices
OnCorner == Game.maps[1].speed
Patience == Game.retirement

(* Whatever is written of a road, it is loaded as one that World can take. *)
RoadInfos ==
    UNION {[keys -> {-1, 0, 2}] : keys \in {{"x0", "y0"} \cup more : more \in SUBSET {"x1", "y1"}}}
ASSUME RoadsLoad == \A info \in RoadInfos : Config!GetRoad(info) \in Road

(* The corner map loads, with the default capacity; it does not with a capacity
   of 2.0, or with another map of its id. *)
ASSUME ConfigLoads == ~Config!Refused(CornerConfig) /\ Game.maps[1].capacity = 3
ASSUME OthersDoNot ==
    \A other \in {[CornerMap EXCEPT !.id = "other", !.bagCapacity = Double(2)],
                 [CornerMap EXCEPT !.name = "Other"]} :
        Config!Refused([CornerConfig EXCEPT !.maps = << CornerMap, other >>])

(* Two spots to start from, which may hold trophies as well, one that a dog
   just reaches at the end of its way, and one beside all roads. *)
SomeSpots == {At(20, 0), At(12, 0), At(4, 6), At(40, 0)}

SlowLoot == [time \in 0 .. 2 |-> IF time = 2 THEN 50 ELSE 0]
WestSouthStop == {"L", "D", "", "0"}
=============================================================================
