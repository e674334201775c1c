------------------------------- MODULE Roads -------------------------------
(***************************************************************************)
(* The roads of a map and how far a dog gets on them (Road, Map::          *)
(* GetRoadAtPoint and Dog::GetMaxMovePosition of model.cpp,                *)
(* GetDogNewPosition of app.cpp).  Roads are horizontal or vertical, cross *)
(* and overlap; a road is as wide as its border on either side.            *)
(*                                                                         *)
(* Lengths are counted in twentieths of a unit of the map, of which        *)
(* BORDER_WIDTH, 0.4, is a whole number; the code has them in doubles.     *)
(***************************************************************************)
EXTENDS Integers, Sequences

Point == [x : Int, y : Int]

BORDER_WIDTH == 8

Road == {r \in [start : Point, end : Point] :
            r.start.x = r.end.x \/ r.start.y = r.end.y}

Lesser(a, b)  == IF a < b THEN a ELSE b
Greater(a, b) == IF a > b THEN a ELSE b

GetBorderRoad(road) ==
    [low  |-> [x |-> Lesser(road.start.x, road.end.x) - BORDER_WIDTH,
               y |-> Lesser(road.start.y, road.end.y) - BORDER_WIDTH],
     high |-> [x |-> Greater(road.start.x, road.end.x) + BORDER_WIDTH,
               y |-> Greater(road.start.y, road.end.y) + BORDER_WIDTH]]

IsPointOnRoad(road, p) ==
    LET border == GetBorderRoad(road) IN
    /\ border.low.x <= p.x /\ p.x <= border.high.x
    /\ border.low.y <= p.y /\ p.y <= border.high.y

GetRoadAtPoint(roads, p) == {k \in DOMAIN roads : IsPointOnRoad(roads[k], p)}

-----------------------------------------------------------------------------
(* Speeds: GetSpeedDirection of api_handler.cpp; north is up, where y falls.  "0"
   is any text that names no direction. *)
Directions == {"U", "D", "L", "R", "", "0"}

GetSpeedDirection(dir, spd) ==
    [h |-> IF dir = "L" THEN -spd ELSE IF dir = "R" THEN spd ELSE 0,
     v |-> IF dir = "U" THEN -spd ELSE IF dir = "D" THEN spd ELSE 0]

ZEROSPEED == [h |-> 0, v |-> 0]

(* How far a dog gets in a tick on one road: its speed, or the border. *)
GetMaxMovePosition(road, p, speed) ==
    LET border == GetBorderRoad(road) IN
    IF speed.v = 0
    THEN [p EXCEPT !.x = IF speed.h > 0 THEN Lesser(p.x + speed.h, border.high.x)
                                        ELSE Greater(p.x + speed.h, border.low.x)]
    ELSE [p EXCEPT !.y = IF speed.v > 0 THEN Lesser(p.y + speed.v, border.high.y)
                                        ELSE Greater(p.y + speed.v, border.low.y)]

Size(n) == IF n < 0 THEN -n ELSE n

Distance(p, q) == Size(p.x - q.x) + Size(p.y - q.y)

(* Mutant: the dog is not stopped at the border. *)
Unbounded(roads, p, speed) ==
    [x |-> p.x + speed.h, y |-> p.y + speed.v]

(* The longest of the ways over the roads that meet at p. *)
GetDogNewPosition(roads, p, speed) ==
    LET ways == {GetMaxMovePosition(roads[k], p, speed) : k \in GetRoadAtPoint(roads, p)} IN
    CHOOSE to \in ways : \A w \in ways : Distance(p, w) <= Distance(p, to)
=============================================================================
