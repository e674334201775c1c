------------------------------- MODULE Loader -------------------------------
(***************************************************************************)
(* What the configuration file makes of the game (json_loader.cpp,         *)
(* Map::AddOffice and Game::AddMap of model.cpp).  A json object is a      *)
(* function on its keys, a number has a value and tells whether it was     *)
(* written as a double.                                                    *)
(*                                                                         *)
(* A missing key that is read with at(), a key of another kind, or a name  *)
(* that is there twice throws, and the server does not start (Refused).    *)
(* Coordinates are whole numbers, a length of the model is one part of     *)
(* Unit of theirs; speeds are counted in such lengths from the start.      *)
(***************************************************************************)
EXTENDS Roads, FiniteSets

CONSTANT Unit

Has(obj, key) == key \in DOMAIN obj

(* if_double() is null for a number without a point: it counts as missing. *)
HasDouble(obj, key) == Has(obj, key) /\ obj[key].double

DoubleOr(default, obj, key) == IF HasDouble(obj, key) THEN obj[key].value ELSE default

DefaultDogSpeed(config) == DoubleOr(Unit, config, "defaultDogSpeed")
DogSpeed(config, map)   == DoubleOr(DefaultDogSpeed(config), map, "dogSpeed")

DogRetirementTime(config) == DoubleOr(60, config, "dogRetirementTime")

(* The capacity is looked for as a double and read as an integer: a whole
   number is passed over, and another one throws. *)
CapacityRefused(obj, key) == HasDouble(obj, key)
BagCapacity(config, map) == 3

-----------------------------------------------------------------------------
Scaled(x, y) == [x |-> x * Unit, y |-> y * Unit]

(* Without x1 and y1 the road is a point at (0, 0), wherever it should begin. *)
GetRoad(info) ==
    IF Has(info, "x1")
    THEN [start |-> Scaled(info["x0"], info["y0"]), end |-> Scaled(info["x1"], info["y0"])]
    ELSE IF Has(info, "y1")
    THEN [start |-> Scaled(info["x0"], info["y0"]), end |-> Scaled(info["x0"], info["y1"])]
    ELSE [start |-> Scaled(0, 0), end |-> Scaled(0, 0)]

(* The offset of an office is kept for the client; a dog meets the office at
   its position. *)
GetOffice(info) == Scaled(info["x"], info["y"])

IdsDiffer(infos) == \A i, j \in DOMAIN infos : infos[i]["id"] = infos[j]["id"] => i = j

LoadMap(config, map) ==
    [roads    |-> [i \in DOMAIN map["roads"] |-> GetRoad(map["roads"][i])],
     offices  |-> [id \in {map["offices"][i]["id"] : i \in DOMAIN map["offices"]} |->
                     GetOffice(map["offices"][CHOOSE i \in DOMAIN map["offices"] :
                                                map["offices"][i]["id"] = id])],
     speed    |-> DogSpeed(config, map),
     capacity |-> BagCapacity(config, map),
     types    |-> Len(map["lootTypes"])]

Lacks(obj, keys) == ~(keys \subseteq DOMAIN obj)

(* as_double() throws on a number without a point. *)
LootConfigRefused(loot) == ~HasDouble(loot, "period") \/ ~HasDouble(loot, "probability")

MapRefused(map) ==
    \/ Lacks(map, {"id", "name", "roads", "buildings", "offices", "lootTypes"})
    \/ CapacityRefused(map, "bagCapacity")
    \/ \E i \in DOMAIN map["roads"] : Lacks(map["roads"][i], {"x0", "y0"})
    \/ \E i \in DOMAIN map["buildings"] : Lacks(map["buildings"][i], {"x", "y", "w", "h"})
    \/ \E i \in DOMAIN map["offices"] :
          Lacks(map["offices"][i], {"id", "x", "y", "offsetX", "offsetY"})
    \/ ~IdsDiffer(map["offices"])

Refused(config) ==
    \/ Lacks(config, {"lootGeneratorConfig", "maps"})
    \/ CapacityRefused(config, "defaultBagCapacity")
    \/ LootConfigRefused(config["lootGeneratorConfig"])
    \/ \E i \in DOMAIN config["maps"] : MapRefused(config["maps"][i])
    \/ ~IdsDiffer(config["maps"])

(* The retirement time is in seconds, the period is taken as milliseconds. *)
LoadGame(config) ==
    [maps       |-> [i \in DOMAIN config["maps"] |-> LoadMap(config, config["maps"][i])],
     retirement |-> DogRetirementTime(config),
     loot       |-> [interval    |-> config["lootGeneratorConfig"]["period"].value,
                     probability |-> config["lootGeneratorConfig"]["probability"].value]]
=============================================================================
