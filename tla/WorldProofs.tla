---------------------------- MODULE WorldProofs ----------------------------
(***************************************************************************)
(* Proofs about World for every map of horizontal and vertical roads,      *)
(* every speed and every set of points that chance may choose.             *)
(*                                                                         *)
(* Movement: a way ends on the road on which it began (StaysOnRoad), there *)
(* is a longest of the ways from a point on a road (NewPositionOnRoad).    *)
(* The session: World is a GameSession (IsGameSession), whose theorems are *)
(* cited from GameSessionProofs.  A tick: what TryCollectPoint computes on *)
(* a way along an axis (OnAxis) is how far ahead and how far beside a      *)
(* thing lies, so that events are sorted, met in order and none missed.    *)
(* Loot, and what the loader makes of a configuration.                     *)
(***************************************************************************)
EXTENDS World, FiniteSetTheorems, WellFoundedInduction, TLAPS

Velocity == [h : Int, v : Int]

-----------------------------------------------------------------------------
(* Roads. *)

(* The border is around the road. *)
LEMMA BorderAround ==
  ASSUME NEW road \in Road
  PROVE  LET border == GetBorderRoad(road) IN
         /\ border.low \in Point /\ border.high \in Point
         /\ border.low.x <= road.start.x /\ road.start.x <= border.high.x
         /\ border.low.y <= road.start.y /\ road.start.y <= border.high.y
         /\ border.low.x <= road.end.x /\ road.end.x <= border.high.x
         /\ border.low.y <= road.end.y /\ road.end.y <= border.high.y
  BY DEF Road, Point, GetBorderRoad, Lesser, Greater, BORDER_WIDTH

(* On one road a dog stays on it, and goes no farther than its speed. *)
LEMMA StaysOnRoad ==
  ASSUME NEW road \in Road, NEW p \in Point, NEW vel \in Velocity,
         IsPointOnRoad(road, p)
  PROVE  LET to == GetMaxMovePosition(road, p, vel) IN
         /\ to \in Point
         /\ IsPointOnRoad(road, to)
         /\ to.x = p.x \/ to.y = p.y
         /\ Distance(p, to) \in Nat
         /\ Distance(p, to) <= Size(vel.h) + Size(vel.v)
<1> DEFINE border == GetBorderRoad(road)
           to == GetMaxMovePosition(road, p, vel)
<1>1. border.low \in Point /\ border.high \in Point
  BY BorderAround
<1>2. /\ border.low.x <= p.x /\ p.x <= border.high.x
      /\ border.low.y <= p.y /\ p.y <= border.high.y
  BY DEF IsPointOnRoad
<1> HIDE DEF border
<1>3. CASE vel.v = 0
  <2>1. to = [p EXCEPT !.x = IF vel.h > 0 THEN Lesser(p.x + vel.h, border.high.x)
                                          ELSE Greater(p.x + vel.h, border.low.x)]
    BY <1>3 DEF GetMaxMovePosition, border
  <2>2. to \in Point /\ to.y = p.y
    BY <1>1, <2>1 DEF Point, Velocity, Lesser, Greater
  <2>3. /\ border.low.x <= to.x /\ to.x <= border.high.x
        /\ Size(p.x - to.x) \in Nat /\ Size(p.x - to.x) <= Size(vel.h)
    BY <1>1, <1>2, <2>1 DEF Point, Velocity, Lesser, Greater, Size
  <2> QED
    BY <1>2, <1>3, <2>2, <2>3 DEF IsPointOnRoad, border, Distance, Size, Point, Velocity
<1>4. CASE vel.v # 0
  <2>1. to = [p EXCEPT !.y = IF vel.v > 0 THEN Lesser(p.y + vel.v, border.high.y)
                                          ELSE Greater(p.y + vel.v, border.low.y)]
    BY <1>4 DEF GetMaxMovePosition, border
  <2>2. to \in Point /\ to.x = p.x
    BY <1>1, <2>1 DEF Point, Velocity, Lesser, Greater
  <2>3. /\ border.low.y <= to.y /\ to.y <= border.high.y
        /\ Size(p.y - to.y) \in Nat /\ Size(p.y - to.y) <= Size(vel.v)
    BY <1>1, <1>2, <2>1 DEF Point, Velocity, Lesser, Greater, Size
  <2> QED
    BY <1>2, <1>4, <2>2, <2>3 DEF IsPointOnRoad, border, Distance, Size, Point, Velocity
<1> QED
  BY <1>3, <1>4

LEMMA LeastExists ==
  ASSUME NEW T, T \subseteq Nat, T # {}
  PROVE  \E x \in T : \A y \in T : x <= y
<1> DEFINE R == OpToRel(<, Nat)
<1>1. IsWellFoundedOn(R, Nat)
  BY NatLessThanWellFounded
<1>2. \A x, y \in Nat : y < x => <<y, x>> \in R
  BY DEF OpToRel
<1> HIDE DEF R
<1>3. PICK x \in T : \A y \in T : <<y, x>> \notin R
  BY <1>1, WFMin, Zenon
<1>4. ASSUME NEW y \in T PROVE x <= y
  <2>1. x \in Nat /\ y \in Nat /\ ~(y < x)
    BY <1>2, <1>3, <1>4
  <2> QED
    BY <2>1
<1> QED
  BY <1>4

(* Of ways that have a common bound one is the longest. *)
LEMMA LongestExists ==
  ASSUME NEW p, NEW ways, ways # {}, NEW bound \in Nat,
         \A w \in ways : Distance(p, w) \in Nat /\ Distance(p, w) <= bound
  PROVE  \E to \in ways : \A w \in ways : Distance(p, w) <= Distance(p, to)
<1> DEFINE D(w) == Distance(p, w)
           Rest == {bound - D(w) : w \in ways}
<1>1. \A w \in ways : D(w) \in Nat /\ D(w) <= bound
  OBVIOUS
<1> HIDE DEF D
<1>2. Rest \subseteq Nat /\ Rest # {}
  BY <1>1
<1>3. PICK r \in Rest : \A s \in Rest : r <= s
  BY <1>2, LeastExists
<1>4. PICK to \in ways : r = bound - D(to)
  BY <1>3
<1>5. \A w \in ways : D(w) <= D(to)
  <2> SUFFICES ASSUME NEW w \in ways PROVE D(w) <= D(to)
    OBVIOUS
  <2>1. bound - D(to) <= bound - D(w)
    BY <1>3, <1>4
  <2>2. D(w) \in Nat /\ D(to) \in Nat
    BY <1>1
  <2> QED
    BY <2>1, <2>2
<1> QED
  BY <1>5 DEF D

(* From a point on some road the new position is a point, on one of the roads
   that meet at the old one: route is not empty, and what is taken from it is
   a position of the road it was computed for. *)
LEMMA NewPositionOnRoad ==
  ASSUME NEW roads \in Seq(Road), NEW p \in Point, NEW vel \in Velocity,
         GetRoadAtPoint(roads, p) # {}
  PROVE  LET to == GetDogNewPosition(roads, p, vel) IN
         /\ to \in Point
         /\ to.x = p.x \/ to.y = p.y
         /\ GetRoadAtPoint(roads, p) \cap GetRoadAtPoint(roads, to) # {}
<1> DEFINE ways == {GetMaxMovePosition(roads[k], p, vel) : k \in GetRoadAtPoint(roads, p)}
           to == GetDogNewPosition(roads, p, vel)
           bound == Size(vel.h) + Size(vel.v)
<1>1. \A k \in GetRoadAtPoint(roads, p) : roads[k] \in Road /\ IsPointOnRoad(roads[k], p)
  BY DEF GetRoadAtPoint
<1>2. bound \in Nat
  BY DEF Size, Velocity
<1>3. ways # {}
  OBVIOUS
<1>4. \A w \in ways : Distance(p, w) \in Nat /\ Distance(p, w) <= bound
  BY <1>1, StaysOnRoad
<1> HIDE DEF ways, bound
<1>5. \E w \in ways : \A v \in ways : Distance(p, v) <= Distance(p, w)
  BY <1>2, <1>3, <1>4, LongestExists
<1>6. to \in ways
  BY <1>5 DEF GetDogNewPosition, ways
<1>7. PICK k \in GetRoadAtPoint(roads, p) : to = GetMaxMovePosition(roads[k], p, vel)
  BY <1>6 DEF ways
<1> HIDE DEF to
<1>8. to \in Point /\ IsPointOnRoad(roads[k], to) /\ (to.x = p.x \/ to.y = p.y)
  BY <1>1, <1>7, StaysOnRoad
<1>9. k \in GetRoadAtPoint(roads, to)
  BY <1>8 DEF GetRoadAtPoint
<1> QED
  BY <1>7, <1>8, <1>9 DEF to

-----------------------------------------------------------------------------
(* Dogs. *)

WorldInv == DogsPlaced /\ DogsOnRoads

LEMMA SpeedsAreVelocities ==
  ASSUME NEW dir \in Directions
  PROVE  GetSpeedDirection(dir, Speed) \in Velocity
<1> DEFINE H == IF dir = "L" THEN -Speed ELSE IF dir = "R" THEN Speed ELSE 0
           V == IF dir = "U" THEN -Speed ELSE IF dir = "D" THEN Speed ELSE 0
<1>1. Speed \in Int /\ -Speed \in Int /\ 0 \in Int
  BY WorldAssumption
<1>2. H \in Int /\ V \in Int
  BY <1>1, Zenon
<1> HIDE DEF H, V
<1>3. [h |-> H, v |-> V] \in Velocity
  BY <1>2 DEF Velocity
<1> QED
  BY <1>3, Zenon DEF GetSpeedDirection, H, V

LEMMA StandingIsADirection == ZEROSPEED = GetSpeedDirection("", Speed)
  BY DEF ZEROSPEED, GetSpeedDirection

(* Dogs start on the first road, wherever chance puts them. *)
LEMMA StartsOnRoad ==
  ASSUME NEW p \in StartPositions
  PROVE  p \in Point /\ GetRoadAtPoint(MapRoads, p) # {}
<1>1. 1 \in DOMAIN MapRoads /\ MapRoads[1] \in Road
  BY WorldAssumption
<1>2. p \in Point /\ Between(p, MapRoads[1].start, MapRoads[1].end)
  BY <1>1, WorldAssumption DEF StartPositions, Between, Road, Point, Lesser, Greater
<1>3. IsPointOnRoad(MapRoads[1], p)
  BY <1>1, <1>2
  DEF IsPointOnRoad, Between, GetBorderRoad, Road, Point, Lesser, Greater, BORDER_WIDTH
<1> QED
  BY <1>1, <1>2, <1>3 DEF GetRoadAtPoint

(* What GameSession does with the dogs, as far as places are concerned. *)
LEMMA JoinAddsDog ==
  ASSUME NEW t \in Tokens, Session!JoinGame(t)
  PROVE  DOMAIN dogs' = DOMAIN dogs \cup {t}
  BY DEF Session!JoinGame, Session!Put

LEMMA RetireDropsDog ==
  ASSUME NEW t \in Tokens, Session!Retire(t)
  PROVE  DOMAIN dogs' = (DOMAIN dogs) \ {t}
  BY DEF Session!Retire, Session!Restrict, Restrict

LEMMA OthersKeepDogs ==
  ASSUME \/ Session!Tick
         \/ \E t, x : Session!GatherItem(t, x) \/ Session!GatherOffice(t, x)
         \/ Session!EndGather \/ Session!UpdateTrophyState \/ Session!EndTick
  PROVE  DOMAIN dogs' = DOMAIN dogs
<1>1. CASE Session!Tick
  BY <1>1 DEF Session!Tick
<1>2. ASSUME NEW t, NEW x, Session!GatherItem(t, x) PROVE DOMAIN dogs' = DOMAIN dogs
  BY <1>2 DEF Session!GatherItem, Session!MeetItem
<1>3. ASSUME NEW t, NEW x, Session!GatherOffice(t, x) PROVE DOMAIN dogs' = DOMAIN dogs
  BY <1>3 DEF Session!GatherOffice, Session!ReturnTrophyToOffice
<1>4. CASE Session!EndGather
  BY <1>4 DEF Session!EndGather
<1>5. CASE Session!UpdateTrophyState
  BY <1>5 DEF Session!UpdateTrophyState
<1>6. CASE Session!EndTick
  BY <1>6 DEF Session!EndTick, Session!sessionVars
<1> QED
  BY <1>1, <1>2, <1>3, <1>4, <1>5, <1>6

(* A dog that moves gets from a road to the same road. *)
LEMMA TickMovesOnRoad ==
  ASSUME WorldInv, Tick, NEW t \in DOMAIN dogs
  PROVE  /\ pos'[t] \in Point
         /\ pos'[t].x = pos[t].x \/ pos'[t].y = pos[t].y
         /\ GetRoadAtPoint(MapRoads, pos[t]) \cap GetRoadAtPoint(MapRoads, pos'[t]) # {}
<1>1. pos[t] \in Point /\ GetRoadAtPoint(MapRoads, pos[t]) # {}
  BY DEF WorldInv, DogsPlaced, DogsOnRoads
<1>2. CASE Stands(t)
  <2>1. pos'[t] = pos[t]
    BY <1>2 DEF Tick
  <2> QED
    BY <1>1, <2>1
<1>3. CASE ~Stands(t)
  <2>1. pos'[t] = GetDogNewPosition(MapRoads, pos[t], speed[t])
    BY <1>3 DEF Tick
  <2>2. speed[t] \in Velocity
    BY SpeedsAreVelocities DEF WorldInv, DogsPlaced
  <2> QED
    BY <1>1, <2>1, <2>2, NewPositionOnRoad, WorldAssumption
<1> QED
  BY <1>2, <1>3

LEMMA StepPlaced == WorldInv /\ [Next]_vars => DogsPlaced'
<1> SUFFICES ASSUME WorldInv, [Next]_vars PROVE DogsPlaced'
  OBVIOUS
<1> USE WorldAssumption
<1>1. ASSUME NEW t \in Tokens, JoinGame(t) PROVE DogsPlaced'
  <2>1. PICK p \in StartPositions : pos' = Put(pos, t, p)
    BY <1>1 DEF JoinGame
  <2>2. p \in Point
    BY StartsOnRoad
  <2>3. DOMAIN dogs' = DOMAIN dogs \cup {t}
    BY <1>1, JoinAddsDog DEF JoinGame
  <2>4. speed' = Put(speed, t, ZEROSPEED) /\ stay' = Put(stay, t, 0)
    BY <1>1 DEF JoinGame
  <2>5. "" \in Directions
    BY DEF Directions
  <2>6. 0 \in 0 .. RetirementTime
    OBVIOUS
  <2> QED
    BY <2>1, <2>2, <2>3, <2>4, <2>5, <2>6, StandingIsADirection DEF WorldInv, DogsPlaced, Put
<1>2. ASSUME NEW t \in Tokens, NEW dir \in Turns, ChangeMoveDirection(t, dir)
      PROVE  DogsPlaced'
  <2>1. /\ speed' = [speed EXCEPT ![t] = GetSpeedDirection(dir, Speed)]
        /\ stay' = [stay EXCEPT ![t] = IF dir = "" THEN stay[t] ELSE 0]
        /\ dogs' = dogs /\ pos' = pos
    BY <1>2 DEF ChangeMoveDirection, sessionVars
  <2>2. dir \in Directions /\ 0 \in 0 .. RetirementTime
    OBVIOUS
  <2>3. DOMAIN speed' = DOMAIN dogs' /\ DOMAIN stay' = DOMAIN dogs' /\ DOMAIN pos' = DOMAIN dogs'
    BY <2>1 DEF WorldInv, DogsPlaced
  <2>4. \A u \in DOMAIN dogs : stay'[u] \in 0 .. RetirementTime
    BY <2>1, <2>2 DEF WorldInv, DogsPlaced
  <2>5. \A u \in DOMAIN dogs : \E d \in Directions : speed'[u] = GetSpeedDirection(d, Speed)
    BY <2>1, <2>2 DEF WorldInv, DogsPlaced
  <2> QED
    BY <2>1, <2>3, <2>4, <2>5 DEF WorldInv, DogsPlaced
<1>3. CASE Tick
  <2>1. DOMAIN dogs' = DOMAIN dogs /\ speed' = speed
    BY <1>3, OthersKeepDogs DEF Tick
  <2>2. DOMAIN pos' = DOMAIN dogs /\ DOMAIN stay' = DOMAIN dogs
    BY <1>3 DEF Tick
  <2>3. ASSUME NEW t \in DOMAIN dogs PROVE stay'[t] \in 0 .. RetirementTime
    <3>1. stay[t] \in 0 .. RetirementTime
      BY DEF WorldInv, DogsPlaced
    <3> QED
      BY <1>3, <3>1 DEF Tick, Lesser
  <2> QED
    BY <1>3, <2>1, <2>2, <2>3, TickMovesOnRoad DEF WorldInv, DogsPlaced
<1>4. ASSUME NEW t \in Tokens, Retire(t) PROVE DogsPlaced'
  <2>1. DOMAIN dogs' = (DOMAIN dogs) \ {t}
    BY <1>4, RetireDropsDog DEF Retire
  <2> QED
    BY <1>4, <2>1 DEF Retire, Without, Restrict, WorldInv, DogsPlaced
<1>5. ASSUME DOMAIN dogs' = DOMAIN dogs, UNCHANGED <<pos, speed, stay>> PROVE DogsPlaced'
  BY <1>5 DEF WorldInv, DogsPlaced
<1>6. CASE Meet
  BY <1>5, <1>6, OthersKeepDogs DEF Meet, Gather, dogVars
<1>7. CASE EndGather
  BY <1>5, <1>7, OthersKeepDogs DEF EndGather, dogVars
<1>8. CASE UpdateTrophyState
  BY <1>5, <1>8, OthersKeepDogs DEF UpdateTrophyState, dogVars
<1>9. CASE EndTick
  BY <1>5, <1>9, OthersKeepDogs DEF EndTick
<1>10. CASE UNCHANGED vars
  BY <1>5, <1>10 DEF vars, sessionVars, dogVars
<1> QED
  BY <1>1, <1>2, <1>3, <1>4, <1>6, <1>7, <1>8, <1>9, <1>10 DEF Next, Request

(* Dogs that are there before and after a step share a road with themselves. *)
LEMMA StepKeepsToRoads ==
  ASSUME WorldInv, [Next]_vars, NEW t \in DOMAIN dogs, t \in DOMAIN dogs'
  PROVE  GetRoadAtPoint(MapRoads, pos[t]) \cap GetRoadAtPoint(MapRoads, pos'[t]) # {}
<1> DEFINE Common == GetRoadAtPoint(MapRoads, pos[t]) \cap GetRoadAtPoint(MapRoads, pos'[t]) # {}
<1>1. ASSUME pos'[t] = pos[t] PROVE Common
  BY <1>1 DEF WorldInv, DogsOnRoads
<1>2. CASE Tick
  BY <1>2, TickMovesOnRoad
<1>3. ASSUME NEW u \in Tokens, JoinGame(u) PROVE pos'[t] = pos[t]
  <2>1. t # u /\ t \in DOMAIN pos
    BY <1>3 DEF JoinGame, Session!JoinGame, WorldInv, DogsPlaced
  <2> QED
    BY <1>3, <2>1 DEF JoinGame, Put
<1>4. ASSUME NEW u \in Tokens, Retire(u) PROVE pos'[t] = pos[t]
  <2>1. t # u /\ t \in DOMAIN pos
    BY <1>4, RetireDropsDog DEF Retire, WorldInv, DogsPlaced
  <2> QED
    BY <1>4, <2>1 DEF Retire, Without, Restrict
<1>5. ASSUME \/ Meet \/ EndGather \/ UpdateTrophyState \/ EndTick \/ UNCHANGED vars
             \/ \E u \in Tokens, dir \in Turns : ChangeMoveDirection(u, dir)
      PROVE  pos' = pos
  BY <1>5 DEF Meet, Gather, EndGather, UpdateTrophyState, EndTick, ChangeMoveDirection,
              vars, dogVars
<1> QED
  BY <1>1, <1>2, <1>3, <1>4, <1>5 DEF Next, Request

LEMMA StepOnRoads == WorldInv /\ [Next]_vars => DogsOnRoads'
<1> SUFFICES ASSUME WorldInv, [Next]_vars, NEW t \in DOMAIN dogs'
             PROVE  GetRoadAtPoint(MapRoads, pos'[t]) # {}
  BY DEF DogsOnRoads
<1>1. CASE t \in DOMAIN dogs
  BY <1>1, StepKeepsToRoads
<1>2. ASSUME t \notin DOMAIN dogs, NEW u \in Tokens, JoinGame(u)
      PROVE  GetRoadAtPoint(MapRoads, pos'[t]) # {}
  <2>1. PICK p \in StartPositions : pos' = Put(pos, u, p)
    BY <1>2 DEF JoinGame
  <2>2. t = u
    BY <1>2, JoinAddsDog DEF JoinGame
  <2>3. pos'[t] = p
    BY <2>1, <2>2 DEF Put
  <2> QED
    BY <2>3, StartsOnRoad
<1>3. ASSUME t \notin DOMAIN dogs PROVE \E u \in Tokens : JoinGame(u)
  <2>1. DOMAIN dogs' # DOMAIN dogs
    BY <1>3
  <2>2. \A u \in Tokens : ~Retire(u)
    BY <1>3, RetireDropsDog DEF Retire
  <2>3. ~(Tick \/ Meet \/ EndGather \/ UpdateTrophyState \/ EndTick)
    BY <2>1, OthersKeepDogs DEF Tick, Meet, Gather, EndGather, UpdateTrophyState, EndTick
  <2>4. ~UNCHANGED vars /\ \A u \in Tokens, dir \in Turns : ~ChangeMoveDirection(u, dir)
    BY <2>1 DEF vars, sessionVars, ChangeMoveDirection
  <2> QED
    BY <2>2, <2>3, <2>4 DEF Next, Request
<1> QED
  BY <1>1, <1>2, <1>3

LEMMA AlwaysWorldInv == Spec => []WorldInv
<1>1. Init => WorldInv
  <2> SUFFICES ASSUME Init PROVE WorldInv
    OBVIOUS
  <2>1. dogs = Session!EmptyMap /\ pos = NoMap /\ speed = NoMap /\ stay = NoMap
    BY DEF Init, Session!Init
  <2> QED
    BY <2>1 DEF WorldInv, DogsPlaced, DogsOnRoads, Session!EmptyMap, NoMap
<1>2. WorldInv /\ [Next]_vars => WorldInv'
  BY StepPlaced, StepOnRoads DEF WorldInv
<1> QED
  BY <1>1, <1>2, PTL DEF Spec

(* Every dog of the session has a place, a speed of one of the directions and a
   stay time. *)
THEOREM DogsAlwaysPlaced == Spec => []DogsPlaced
<1>1. WorldInv => DogsPlaced
  BY DEF WorldInv
<1> QED
  BY <1>1, AlwaysWorldInv, PTL

(* GetDogNewPosition always has a road to choose from, on every map. *)
THEOREM DogsAlwaysOnRoads == Spec => []DogsOnRoads
<1>1. WorldInv => DogsOnRoads
  BY DEF WorldInv
<1> QED
  BY <1>1, AlwaysWorldInv, PTL

(* No tick takes a dog off the road on which it was, on every map. *)
THEOREM DogsKeepToRoads == Spec => KeepsToRoads
<1>1. WorldInv /\ [Next]_vars
        => [\A t \in (DOMAIN dogs) \cap (DOMAIN dogs') :
               GetRoadAtPoint(MapRoads, pos[t]) \cap GetRoadAtPoint(MapRoads, pos'[t]) # {}]_vars
  BY StepKeepsToRoads
<1> QED
  BY <1>1, AlwaysWorldInv, PTL DEF Spec, KeepsToRoads

-----------------------------------------------------------------------------
(* The session. *)

(* GameSession with what is proved about it; what World calls Session has the
   same definitions. *)
Proved == INSTANCE GameSessionProofs WITH
    Offices <- DOMAIN OfficeAt, MaxTime <- 0, Faults <- {}

(* What the theorems of GameSessionProofs assume of the constants. *)
LEMMA SessionAssumed ==
  /\ TypeOf \in [Trophies -> Nat]
  /\ Capacity \in Nat
  /\ 0 \in Nat
  /\ {} \subseteq Proved!FaultKinds
  /\ Tokens \cap {"none", "map", "gone"} = {}
  BY SessionAssumption

LEMMA SameVars == Session!vars = Proved!vars
  BY DEF Session!vars, Proved!vars, Session!sessionVars, Proved!sessionVars,
         Session!tickVars, Proved!tickVars, Session!processVars, Proved!processVars,
         Session!historyVars, Proved!historyVars

LEMMA SameInit == Session!Init => Proved!Init
  BY DEF Session!Init, Proved!Init, Session!EmptyMap, Proved!EmptyMap,
         Session!NotSaving, Proved!NotSaving, Session!NoFile, Proved!NoFile

LEMMA SameScore == ASSUME NEW bag PROVE Session!BagScore(bag) = Proved!BagScore(bag)
<1>1. \A S : Session!Max(S) = Proved!Max(S)
  BY DEF Session!Max, Proved!Max
<1> QED
  BY <1>1 DEF Session!BagScore, Proved!BagScore, Session!FoldLeft, Proved!FoldLeft,
              Session!MapThenFoldSet, Proved!MapThenFoldSet

LEMMA SameGather ==
  ASSUME NEW t, NEW x
  PROVE  /\ Session!GatherItem(t, x) => Proved!GatherItem(t, x)
         /\ Session!GatherOffice(t, x) => Proved!GatherOffice(t, x)
<1> USE DEF Session!Working, Proved!Working, Session!processVars, Proved!processVars,
            Session!historyVars, Proved!historyVars
<1>1. Session!GatherItem(t, x) => Proved!GatherItem(t, x)
  BY DEF Session!GatherItem, Proved!GatherItem, Session!MeetItem, Proved!MeetItem,
         Session!MayTake, Proved!MayTake, Session!HasMoreCapacity, Proved!HasMoreCapacity,
         Session!ReadTwice, Proved!ReadTwice, Session!Unread, Proved!Unread
<1>2. Session!GatherOffice(t, x) => Proved!GatherOffice(t, x)
  BY SameScore
  DEF Session!GatherOffice, Proved!GatherOffice,
      Session!ReturnTrophyToOffice, Proved!ReturnTrophyToOffice
<1> QED
  BY <1>1, <1>2

LEMMA SameTickSteps ==
  /\ Session!Tick => Proved!Tick
  /\ Session!EndGather => Proved!EndGather
  /\ Session!UpdateTrophyState => Proved!UpdateTrophyState
  /\ Session!EndTick => Proved!EndTick
<1> USE DEF Session!Working, Proved!Working, Session!sessionVars, Proved!sessionVars,
            Session!tickVars, Proved!tickVars, Session!processVars, Proved!processVars,
            Session!historyVars, Proved!historyVars
<1>1. Session!Tick => Proved!Tick
  BY DEF Session!Tick, Proved!Tick, Session!Serving, Proved!Serving,
         Session!Older, Proved!Older, Session!AtMost, Proved!AtMost
<1>2. Session!EndGather => Proved!EndGather
  BY DEF Session!EndGather, Proved!EndGather, Session!RemoveTrophies, Proved!RemoveTrophies,
         Session!Restrict, Proved!Restrict
<1>3. Session!UpdateTrophyState => Proved!UpdateTrophyState
  BY DEF Session!UpdateTrophyState, Proved!UpdateTrophyState, Session!Shortage, Proved!Shortage,
         Session!NextId, Proved!NextId, Session!Cardinality, Proved!Cardinality,
         Session!IsFiniteSet, Proved!IsFiniteSet, Session!IsInjective, Proved!IsInjective,
         Session!Range, Proved!Range
<1>4. Session!EndTick => Proved!EndTick
  BY DEF Session!EndTick, Proved!EndTick, Session!SaveGameState, Proved!SaveGameState,
         Session!Checkpoint, Proved!Checkpoint, Session!DogRepr, Proved!DogRepr
<1> QED
  BY <1>1, <1>2, <1>3, <1>4

LEMMA SamePlayers ==
  ASSUME NEW t
  PROVE  /\ Session!JoinGame(t) => Proved!JoinGame(t)
         /\ Session!Retire(t) => Proved!Retire(t)
<1> USE DEF Session!Put, Proved!Put, Session!tickVars, Proved!tickVars,
            Session!processVars, Proved!processVars, Session!historyVars, Proved!historyVars
<1>1. Session!JoinGame(t) => Proved!JoinGame(t)
  BY DEF Session!JoinGame, Proved!JoinGame, Session!Serving, Proved!Serving,
         Session!NewDog, Proved!NewDog
<1>2. Session!Retire(t) => Proved!Retire(t)
  BY DEF Session!Retire, Proved!Retire, Session!Working, Proved!Working,
         Session!Restrict, Proved!Restrict, Session!Unread, Proved!Unread,
         Session!ReadDog, Proved!ReadDog, Session!DogRepr, Proved!DogRepr
<1> QED
  BY <1>1, <1>2

(* The dogs are those of players, and finitely many. *)
LEMMA StepDogsThere == DogsThere /\ [Next]_vars => DogsThere'
<1> SUFFICES ASSUME DogsThere, [Next]_vars PROVE DogsThere'
  OBVIOUS
<1>1. ASSUME NEW t \in Tokens, JoinGame(t) PROVE DogsThere'
  <2>1. DOMAIN dogs' = DOMAIN dogs \cup {t}
    BY <1>1, JoinAddsDog DEF JoinGame
  <2> QED
    BY <2>1, FS_AddElement DEF DogsThere
<1>2. ASSUME NEW t \in Tokens, Retire(t) PROVE DogsThere'
  <2>1. DOMAIN dogs' = (DOMAIN dogs) \ {t}
    BY <1>2, RetireDropsDog DEF Retire
  <2> QED
    BY <2>1, FS_RemoveElement DEF DogsThere
<1>3. ASSUME DOMAIN dogs' = DOMAIN dogs PROVE DogsThere'
  BY <1>3 DEF DogsThere
<1>4. CASE Tick \/ Meet \/ EndGather \/ UpdateTrophyState \/ EndTick
  BY <1>3, <1>4, OthersKeepDogs DEF Tick, Meet, Gather, EndGather, UpdateTrophyState, EndTick
<1>5. ASSUME \/ UNCHANGED vars
             \/ \E t \in Tokens, dir \in Turns : ChangeMoveDirection(t, dir)
      PROVE  DogsThere'
  BY <1>3, <1>5 DEF vars, sessionVars, ChangeMoveDirection
<1> QED
  BY <1>1, <1>2, <1>4, <1>5 DEF Next, Request

LEMMA AlwaysDogsThere == Spec => []DogsThere
<1>1. Init => DogsThere
  BY FS_EmptySet DEF Init, Session!Init, Session!EmptyMap, DogsThere
<1> QED
  BY <1>1, StepDogsThere, PTL DEF Spec

(* Every step of World is one of GameSession, or none. *)
LEMMA StepOfSession == DogsThere /\ [Next]_vars => [Proved!Next]_Proved!vars
<1> SUFFICES ASSUME DogsThere, [Next]_vars PROVE [Proved!Next]_Proved!vars
  OBVIOUS
<1>1. ASSUME NEW t \in Tokens, JoinGame(t) \/ Retire(t) PROVE Proved!Next
  BY <1>1, SamePlayers DEF JoinGame, Retire, Proved!Next
<1>2. CASE Tick \/ EndGather \/ UpdateTrophyState \/ EndTick
  BY <1>2, SameTickSteps DEF Tick, EndGather, UpdateTrophyState, EndTick, Proved!Next
<1>3. CASE Meet
  <2>1. PICK t \in DOMAIN dogs, x \in DOMAIN trophy \cup DOMAIN OfficeAt : Gather(t, x)
    BY <1>3 DEF Meet
  <2>2. t \in Tokens
    BY DEF DogsThere
  <2>3. Proved!Gather
    BY <2>1, <2>2, SameGather DEF Gather, Proved!Gather
  <2> QED
    BY <2>3 DEF Proved!Next
<1>4. ASSUME \/ UNCHANGED vars
             \/ \E t \in Tokens, dir \in Turns : ChangeMoveDirection(t, dir)
      PROVE  UNCHANGED Proved!vars
  BY <1>4
  DEF vars, sessionVars, ChangeMoveDirection, Proved!vars, Proved!sessionVars, Proved!tickVars,
      Proved!processVars, Proved!historyVars
<1> QED
  BY <1>1, <1>2, <1>3, <1>4 DEF Next, Request

(* The session of World is a GameSession without faults: what is proved there
   of dogs that may meet anything holds of dogs on roads. *)
LEMMA IsGameSession == Spec => Proved!Spec
<1>1. Init => Proved!Init
  BY SameInit DEF Init
<1> QED
  BY <1>1, StepOfSession, AlwaysDogsThere, PTL DEF Spec, Proved!Spec

(* The places of trophies and the scores of players, as TrophyLedger sees them,
   are the same in both. *)
LEMMA SameWhere ==
  [x \in Trophies |-> Session!Where(x)] = [x \in Trophies |-> Proved!Where(x)]
  BY DEF Session!Where, Proved!Where, Session!OnMap, Proved!OnMap, Session!InBag, Proved!InBag

LEMMA SameWhereThen ==
  [x \in Trophies |-> Session!Where(x)]' = [x \in Trophies |-> Proved!Where(x)]'
  BY DEF Session!Where, Proved!Where, Session!OnMap, Proved!OnMap, Session!InBag, Proved!InBag

LEMMA SameScores ==
  [t \in Tokens |-> Session!Score(t)] = [t \in Tokens |-> Proved!Score(t)]
  BY DEF Session!Score, Proved!Score

LEMMA SameScoresThen ==
  [t \in Tokens |-> Session!Score(t)]' = [t \in Tokens |-> Proved!Score(t)]'
  BY DEF Session!Score, Proved!Score

LEMMA SameHeld ==
  ASSUME NEW t
  PROVE  /\ Session!Ledger!Held(t) = Proved!Ledger!Held(t)
         /\ Session!Ledger!Clear(t) = Proved!Ledger!Clear(t)
<1>1. Session!Ledger!Held(t) = Proved!Ledger!Held(t)
  BY SameWhere DEF Session!Ledger!Held, Proved!Ledger!Held
<1>2. Session!Ledger!Clear(t) = Proved!Ledger!Clear(t)
  BY SameWhere DEF Session!Ledger!Clear, Proved!Ledger!Clear
<1> QED
  BY <1>1, <1>2

LEMMA SameCount ==
  ASSUME NEW S PROVE Session!Ledger!Cardinality(S) = Proved!Ledger!Cardinality(S)
  BY DEF Session!Ledger!Cardinality, Proved!Ledger!Cardinality,
         Session!Ledger!IsFiniteSet, Proved!Ledger!IsFiniteSet

LEMMA SameSum ==
  ASSUME NEW S
  PROVE  Session!Ledger!MapThenSumSet(LAMBDA x : TypeOf[x], S)
            = Proved!Ledger!MapThenSumSet(LAMBDA x : TypeOf[x], S)
  BY DEF Session!Ledger!MapThenSumSet, Proved!Ledger!MapThenSumSet,
         Session!Ledger!MapThenFoldSet, Proved!Ledger!MapThenFoldSet

LEMMA SameLedgerStep ==
  [Proved!Ledger!Next]_Proved!Ledger!ledgerVars => [Session!Ledger!Next]_Session!Ledger!ledgerVars
<1> USE SameWhere, SameScores, SameWhereThen, SameScoresThen
<1>1. \A S \in SUBSET Trophies : Proved!Ledger!Appear(S) => Session!Ledger!Appear(S)
  BY DEF Session!Ledger!Appear, Proved!Ledger!Appear
<1>2. \A x \in Trophies, t \in Tokens : Proved!Ledger!Take(x, t) => Session!Ledger!Take(x, t)
  BY SameHeld, SameCount DEF Session!Ledger!Take, Proved!Ledger!Take
<1>3. \A t \in Tokens : Proved!Ledger!Leave(t) => Session!Ledger!Leave(t)
  BY SameHeld DEF Session!Ledger!Leave, Proved!Ledger!Leave
<1>4. ASSUME NEW t \in Tokens, Proved!Ledger!Deliver(t) PROVE Session!Ledger!Deliver(t)
  <2>1. Session!Ledger!Held(t) = Proved!Ledger!Held(t)
    BY SameHeld
  <2>2. Session!Ledger!Clear(t) = Proved!Ledger!Clear(t)
    BY SameHeld
  <2>3. Session!Ledger!MapThenSumSet(LAMBDA x : TypeOf[x], Session!Ledger!Held(t))
          = Proved!Ledger!MapThenSumSet(LAMBDA x : TypeOf[x], Proved!Ledger!Held(t))
    BY <2>1, SameSum
  <2> QED
    BY <1>4, <2>2, <2>3 DEF Session!Ledger!Deliver, Proved!Ledger!Deliver
<1>5. Proved!Ledger!Next => Session!Ledger!Next
  BY <1>1, <1>2, <1>3, <1>4 DEF Session!Ledger!Next, Proved!Ledger!Next
<1>6. UNCHANGED Proved!Ledger!ledgerVars => UNCHANGED Session!Ledger!ledgerVars
  BY DEF Session!Ledger!ledgerVars, Proved!Ledger!ledgerVars
<1> QED
  BY <1>5, <1>6

(* On every map, at every speed, dogs keep the promises of TrophyLedger. *)
THEOREM WorldKeepsLedger == Spec => Session!LedgerKept
<1>1. Proved!Spec => Proved!LedgerKept
  <2>1. {} = {}
    OBVIOUS
  <2> QED
    BY <2>1, Proved!FaultlessGoesOn, Proved!SessionKeepsLedger, SessionAssumed, PTL
<1>2. Proved!Ledger!Init => Session!Ledger!Init
  BY SameWhere, SameScores DEF Proved!Ledger!Init, Session!Ledger!Init
<1> QED
  BY <1>1, <1>2, SameLedgerStep, IsGameSession, PTL
  DEF Proved!LedgerKept, Session!LedgerKept, Proved!Ledger!Spec, Session!Ledger!Spec

-----------------------------------------------------------------------------
(* Types. *)

(* What is known of a session that nothing disturbs. *)
LEMMA AlwaysLedgerInv == Spec => []Proved!LedgerInv
<1>1. {} = {}
  OBVIOUS
<1>2. Proved!Spec => []Proved!LedgerInv
  BY <1>1, Proved!FaultlessGoesOn, Proved!AlwaysLedgerInv, SessionAssumed, PTL
<1> QED
  BY <1>2, IsGameSession, PTL

LEMMA SessionKnown ==
  ASSUME Proved!LedgerInv
  PROVE  /\ DOMAIN trophy \subseteq Nat /\ IsFiniteSet(DOMAIN trophy)
         /\ collected_trophy \subseteq DOMAIN trophy
         /\ phase # "gather" => collected_trophy = {}
         /\ made \subseteq Trophies
         /\ trophy_added \in Nat
<1>1. IsFiniteSet(DOMAIN trophy)
  BY DEF Proved!LedgerInv, Proved!Fit, Proved!Shaped, Proved!TrophyMap,
         Proved!IsFiniteSet, IsFiniteSet
<1>2. DOMAIN trophy \subseteq Nat /\ made \subseteq Trophies
  BY DEF Proved!LedgerInv, Proved!Typed, Proved!TickTyped
<1>3. collected_trophy \subseteq DOMAIN trophy /\ trophy_added \in Nat
  BY DEF Proved!LedgerInv, Proved!Fit, Proved!Shaped
<1>4. phase # "gather" => collected_trophy = {}
  BY DEF Proved!LedgerInv, Proved!Fit, Proved!Phases
<1> QED
  BY <1>1, <1>2, <1>3, <1>4

LEMMA LootAppears ==
  ASSUME Proved!LedgerInv, Session!UpdateTrophyState
  PROVE  Range(trophy') = Range(trophy) \cup (made' \ made) /\ made \subseteq made'
<1>1. Proved!UpdateTrophyState
  BY SameTickSteps
<1>2. /\ Proved!Lying' = Proved!Lying \cup (made' \ made) /\ made \subseteq made'
      /\ Proved!Lying = Proved!Range(trophy) /\ Proved!Lying' = Proved!Range(trophy')
  BY <1>1, Proved!NewTrophiesLie, SessionAssumed
<1> QED
  BY <1>2 DEF Proved!Range, Range

(* Every trophy on the map, and nothing else, has a place. *)
LEMMA StepTrophiesPlaced ==
  Proved!LedgerInv /\ TrophiesPlaced /\ [Next]_vars => TrophiesPlaced'
<1> SUFFICES ASSUME Proved!LedgerInv, TrophiesPlaced, [Next]_vars PROVE TrophiesPlaced'
  OBVIOUS
<1>1. ASSUME UNCHANGED <<trophy, place>> PROVE TrophiesPlaced'
  BY <1>1 DEF TrophiesPlaced
<1>2. CASE UpdateTrophyState
  <2>1. PICK spots \in [made' \ made -> LootSpots] :
          place' = [x \in DOMAIN place \cup DOMAIN spots |->
                      IF x \in DOMAIN spots THEN spots[x] ELSE place[x]]
    BY <1>2 DEF UpdateTrophyState
  <2>2. \A x \in DOMAIN spots : spots[x] \in Point
    BY WorldAssumption DEF LootSpots
  <2>3. Range(trophy') = Range(trophy) \cup (made' \ made)
    BY <1>2, LootAppears DEF UpdateTrophyState
  <2> QED
    BY <2>1, <2>2, <2>3 DEF TrophiesPlaced
<1>3. CASE EndGather
  <2>1. place' = Restrict(place, Range(trophy'))
    BY <1>3 DEF EndGather, PlacesLeft
  <2>2. Range(trophy') \subseteq Range(trophy)
    BY <1>3 DEF EndGather, Session!EndGather, Session!RemoveTrophies, Session!Restrict, Range
  <2> QED
    BY <2>1, <2>2 DEF TrophiesPlaced, Restrict
<1>4. CASE Request \/ Tick \/ Meet \/ (\E t \in Tokens : Retire(t)) \/ EndTick \/ UNCHANGED vars
  <2>1. UNCHANGED trophy
    BY <1>4
    DEF Request, JoinGame, ChangeMoveDirection, Tick, Meet, Gather, Retire, EndTick, vars, sessionVars,
        Session!JoinGame, Session!Tick, Session!GatherItem, Session!GatherOffice, Session!Retire,
        Session!EndTick, Session!sessionVars
  <2>2. UNCHANGED place
    BY <1>4
    DEF Request, JoinGame, ChangeMoveDirection, Tick, Meet, Gather, Retire, EndTick, vars, lootVars
  <2> QED
    BY <1>1, <2>1, <2>2
<1> QED
  BY <1>2, <1>3, <1>4 DEF Next

(* What a session step does to the tick that is going on. *)
LEMMA StepOfTick ==
  /\ \A t : Session!JoinGame(t) => phase = "idle" /\ UNCHANGED <<phase, events>>
  /\ Session!Tick => phase = "idle" /\ phase' = "gather" /\ UNCHANGED <<events, trophy>>
  /\ Session!EndGather => phase = "gather" /\ phase' = "loot"
  /\ Session!UpdateTrophyState => phase = "loot" /\ phase' = "retire"
  /\ \A t : Session!Retire(t) => phase = "retire" /\ UNCHANGED <<phase, events>>
  /\ Session!EndTick => phase = "retire" /\ phase' = "idle" /\ events' = {}
<1>1. \A t : Session!JoinGame(t) => phase = "idle" /\ UNCHANGED <<phase, events>>
  BY DEF Session!JoinGame, Session!Serving, Session!tickVars
<1>2. Session!Tick => phase = "idle" /\ phase' = "gather" /\ UNCHANGED <<events, trophy>>
  BY DEF Session!Tick, Session!Serving
<1>3. Session!EndGather => phase = "gather" /\ phase' = "loot"
  BY DEF Session!EndGather, Session!Working
<1>4. Session!UpdateTrophyState => phase = "loot" /\ phase' = "retire"
  BY DEF Session!UpdateTrophyState, Session!Working
<1>5. \A t : Session!Retire(t) => phase = "retire" /\ UNCHANGED <<phase, events>>
  BY DEF Session!Retire, Session!Working, Session!tickVars
<1>6. Session!EndTick => phase = "retire" /\ phase' = "idle" /\ events' = {}
  BY DEF Session!EndTick, Session!Working
<1> QED
  BY <1>1, <1>2, <1>3, <1>4, <1>5, <1>6

(* A dog goes along one axis in a tick. *)
LEMMA StepWaysStraight == WorldInv /\ WaysStraight /\ [Next]_vars => WaysStraight'
<1> SUFFICES ASSUME WorldInv, WaysStraight, [Next]_vars PROVE WaysStraight'
  OBVIOUS
<1>1. ASSUME UNCHANGED <<phase, events, was, pos>>, phase # "idle" => DOMAIN dogs' = DOMAIN dogs
      PROVE  WaysStraight'
  BY <1>1 DEF WaysStraight
<1>2. ASSUME DOMAIN dogs' = DOMAIN dogs, UNCHANGED <<was, pos>>, phase # "idle", phase' # "idle"
      PROVE  WaysStraight'
  BY <1>2 DEF WaysStraight
<1>3. ASSUME NEW t \in Tokens, JoinGame(t) PROVE WaysStraight'
  BY <1>3, StepOfTick DEF JoinGame, WaysStraight
<1>4. ASSUME NEW t \in Tokens, NEW dir \in Turns, ChangeMoveDirection(t, dir) PROVE WaysStraight'
  BY <1>1, <1>4 DEF ChangeMoveDirection, sessionVars
<1>5. CASE Tick
  <2>1. /\ DOMAIN dogs' = DOMAIN dogs /\ was' = pos /\ phase' = "gather"
        /\ DOMAIN pos = DOMAIN dogs
    BY <1>5, OthersKeepDogs, StepOfTick DEF Tick, WorldInv, DogsPlaced
  <2>2. \A t \in DOMAIN dogs : pos[t] \in Point /\ (pos'[t].x = pos[t].x \/ pos'[t].y = pos[t].y)
    BY <1>5, TickMovesOnRoad DEF WorldInv, DogsPlaced
  <2> QED
    BY <2>1, <2>2 DEF WaysStraight
<1>6. CASE Meet
  <2>1. UNCHANGED <<was, pos>> /\ phase = "gather" /\ phase' = "gather"
    BY <1>6 DEF Meet, Gather, dogVars, Session!GatherItem, Session!GatherOffice
  <2>2. DOMAIN dogs' = DOMAIN dogs
    BY <1>6, OthersKeepDogs DEF Meet, Gather
  <2> QED
    BY <1>2, <2>1, <2>2
<1>7. CASE EndGather \/ UpdateTrophyState
  BY <1>2, <1>7, OthersKeepDogs, StepOfTick DEF EndGather, UpdateTrophyState, dogVars
<1>8. ASSUME NEW t \in Tokens, Retire(t) PROVE WaysStraight'
  <2>1. DOMAIN dogs' = (DOMAIN dogs) \ {t} /\ phase = "retire" /\ phase' = "retire"
    BY <1>8, RetireDropsDog, StepOfTick DEF Retire
  <2>2. was' = Without(was, t) /\ pos' = Without(pos, t) /\ DOMAIN pos = DOMAIN dogs
    BY <1>8 DEF Retire, WorldInv, DogsPlaced
  <2> QED
    BY <2>1, <2>2 DEF WaysStraight, Without, Restrict
<1>9. CASE EndTick
  BY <1>9, StepOfTick DEF EndTick, WaysStraight
<1>10. CASE UNCHANGED vars
  BY <1>1, <1>10 DEF vars, sessionVars, dogVars
<1> QED
  BY <1>3, <1>4, <1>5, <1>6, <1>7, <1>8, <1>9, <1>10 DEF Next, Request

(* The generator counts up to Longest, the history one further. *)
LootCounted == time_without_loot \in 0 .. Longest /\ hungry \in 0 .. Longest + 1

LEMMA StepLootCounted == LootCounted /\ [Next]_vars => LootCounted'
<1> SUFFICES ASSUME LootCounted, [Next]_vars PROVE LootCounted'
  OBVIOUS
<1>1. Longest \in Nat
  BY WorldAssumption
<1>2. CASE UpdateTrophyState
  <2>1. hungry' \in {Lesser(hungry + 1, Longest + 1), 0}
    BY <1>2 DEF UpdateTrophyState
  <2>2. hungry' \in 0 .. Longest + 1
    BY <1>1, <2>1 DEF Lesser, LootCounted
  <2>3. CASE LootShortage > 0
    <3>1. PICK before \in TimesBefore :
            \E generated :
               time_without_loot' = TimeAfter(Lesser(before + 1, Longest), generated)
      BY <1>2, <2>3 DEF UpdateTrophyState
    <3>2. before \in 0 .. Longest
      BY <3>1 DEF TimesBefore, LootCounted
    <3>3. time_without_loot' \in {0, Lesser(before + 1, Longest)}
      BY <3>1 DEF TimeAfter
    <3> QED
      BY <1>1, <2>2, <3>2, <3>3 DEF Lesser, LootCounted
  <2>4. CASE ~(LootShortage > 0)
    BY <1>2, <2>2, <2>4 DEF UpdateTrophyState, LootCounted
  <2> QED
    BY <2>3, <2>4
<1>3. CASE ~UpdateTrophyState
  <2>1. UNCHANGED <<time_without_loot, hungry>>
    BY <1>3
    DEF Next, Request, JoinGame, ChangeMoveDirection, Tick, Meet, Gather, EndGather, Retire, EndTick,
        vars, lootVars
  <2> QED
    BY <2>1 DEF LootCounted
<1> QED
  BY <1>2, <1>3

LEMMA AlwaysTyped == Spec => [](TrophiesPlaced /\ WaysStraight /\ LootCounted)
<1>1. Init => TrophiesPlaced /\ WaysStraight /\ LootCounted
  <2> SUFFICES ASSUME Init PROVE TrophiesPlaced /\ WaysStraight /\ LootCounted
    OBVIOUS
  <2>1. /\ trophy = Session!EmptyMap /\ phase = "idle" /\ events = {}
        /\ was = NoMap /\ place = NoMap /\ time_without_loot = 0 /\ hungry = 0
    BY DEF Init, Session!Init
  <2>2. DOMAIN place = Range(trophy)
    BY <2>1 DEF Session!EmptyMap, NoMap, Range
  <2> QED
    BY <2>1, <2>2, WorldAssumption DEF TrophiesPlaced, WaysStraight, LootCounted, NoMap
<1> QED
  BY <1>1, StepTrophiesPlaced, StepWaysStraight, StepLootCounted,
     AlwaysLedgerInv, AlwaysWorldInv, PTL DEF Spec

(* Every variable of the session and of its map has its type. *)
THEOREM WorldTypeCorrect == Spec => []TypeOK
<1>1. Proved!Spec => []Proved!TypeOK
  BY Proved!SessionTypeCorrect, SessionAssumed, PTL
<1>2. Proved!TypeOK => Session!TypeOK
  BY DEF Proved!TypeOK, Session!TypeOK, Proved!Dog, Session!Dog, Proved!SavedDog, Session!SavedDog
<1>3. Session!TypeOK /\ WorldInv /\ TrophiesPlaced /\ WaysStraight /\ LootCounted => TypeOK
  BY DEF TypeOK, WorldInv, TrophiesPlaced, WaysStraight, LootCounted
<1> QED
  BY <1>1, <1>2, <1>3, IsGameSession, AlwaysWorldInv, AlwaysTyped, PTL

-----------------------------------------------------------------------------
(* What is met on a way. *)

LEMMA CancelFactor ==
  ASSUME NEW a \in Int, NEW b \in Int, NEW k \in Int, k > 0
  PROVE  a * k <= b * k <=> a <= b
<1>1. ASSUME a <= b PROVE a * k <= b * k
  BY <1>1
<1>2. ASSUME b < a PROVE b * k < a * k
  <2>1. a - b \in Int /\ a - b > 0
    BY <1>2
  <2>2. (a - b) * k > 0
    BY <2>1
  <2>3. (a - b) * k = a * k - b * k
    OBVIOUS
  <2> QED
    BY <2>2, <2>3
<1> QED
  BY <1>1, <1>2

(* Along and beside a way that follows an axis, counted from its beginning. *)
AheadOn(a, b, c) ==
  IF a.y = b.y
  THEN IF a.x <= b.x THEN c.x - a.x ELSE a.x - c.x
  ELSE IF a.y <= b.y THEN c.y - a.y ELSE a.y - c.y
BesideOf(a, b, c) == IF a.y = b.y THEN Size(c.y - b.y) ELSE Size(c.x - b.x)

LEMMA WayType ==
  ASSUME NEW a \in Point, NEW b \in Point, NEW c \in Point
  PROVE  /\ Distance(a, b) \in Nat /\ AheadOn(a, b, c) \in Int /\ BesideOf(a, b, c) \in Nat
         /\ a # b => Distance(a, b) > 0
  BY DEF Point, Distance, Size, AheadOn, BesideOf

(* What TryCollectPoint computes for such a way. *)
LEMMA OnAxis ==
  ASSUME NEW a \in Point, NEW b \in Point, NEW c \in Point, a.x = b.x \/ a.y = b.y
  PROVE  LET result == TryCollectPoint(a, b, c)
             way == Distance(a, b)
         IN  /\ result.along = AheadOn(a, b, c) * way
             /\ result.length2 = way * way
             /\ result.aside2 = (BesideOf(a, b, c) * BesideOf(a, b, c)) * (way * way)
<1> DEFINE ux == c.x - a.x
           uy == c.y - a.y
           vx == b.x - a.x
           vy == b.y - a.y
           result == TryCollectPoint(a, b, c)
           way == Distance(a, b)
           side == BesideOf(a, b, c)
<1>1. ux \in Int /\ uy \in Int /\ vx \in Int /\ vy \in Int
  BY DEF Point
<1>2. /\ result.along = ux * vx + uy * vy
      /\ result.length2 = vx * vx + vy * vy
      /\ result.aside2 = (ux * ux + uy * uy) * (vx * vx + vy * vy)
                           - (ux * vx + uy * vy) * (ux * vx + uy * vy)
  BY DEF TryCollectPoint
<1>3. CASE a.y = b.y
  <2>1. vy = 0
    BY <1>3 DEF Point
  <2>2. way = Size(vx) /\ side = Size(uy)
    BY <1>3 DEF Point, Distance, BesideOf, Size
  <2>3. AheadOn(a, b, c) = IF vx >= 0 THEN ux ELSE -ux
    BY <1>3 DEF Point, AheadOn
  <2> HIDE DEF ux, uy, vx, vy, result, way, side
  <2>4. result.along = ux * vx /\ result.length2 = vx * vx
    BY <1>1, <1>2, <2>1
  <2>5. result.aside2 = (ux * ux + uy * uy) * (vx * vx) - (ux * vx) * (ux * vx)
    BY <1>1, <1>2, <2>1
  <2>6. result.aside2 = (uy * uy) * (vx * vx)
    BY <1>1, <2>5
  <2>7. way * way = vx * vx /\ side * side = uy * uy
    BY <1>1, <2>2 DEF Size
  <2>8. AheadOn(a, b, c) * way = ux * vx
    BY <1>1, <2>2, <2>3 DEF Size
  <2> QED
    BY <2>4, <2>6, <2>7, <2>8 DEF result, way, side
<1>4. CASE a.y # b.y
  <2>1. vx = 0
    BY <1>4 DEF Point
  <2>2. way = Size(vy) /\ side = Size(ux)
    BY <1>4 DEF Point, Distance, BesideOf, Size
  <2>3. AheadOn(a, b, c) = IF vy >= 0 THEN uy ELSE -uy
    BY <1>4 DEF Point, AheadOn
  <2> HIDE DEF ux, uy, vx, vy, result, way, side
  <2>4. result.along = uy * vy /\ result.length2 = vy * vy
    BY <1>1, <1>2, <2>1
  <2>5. result.aside2 = (ux * ux + uy * uy) * (vy * vy) - (uy * vy) * (uy * vy)
    BY <1>1, <1>2, <2>1
  <2>6. result.aside2 = (ux * ux) * (vy * vy)
    BY <1>1, <2>5
  <2>7. way * way = vy * vy /\ side * side = ux * ux
    BY <1>1, <2>2 DEF Size
  <2>8. AheadOn(a, b, c) * way = uy * vy
    BY <1>1, <2>2, <2>3 DEF Size
  <2> QED
    BY <2>4, <2>6, <2>7, <2>8 DEF result, way, side
<1> QED
  BY <1>3, <1>4

(* A thing is met when it lies on the way, no farther beside it than the reach. *)
LEMMA MetIsPassed ==
  ASSUME NEW a \in Point, NEW b \in Point, NEW c \in Point, a.x = b.x \/ a.y = b.y,
         NEW reach \in Nat
  PROVE  Met(a, b, c, reach) <=>
            a # b /\ AheadOn(a, b, c) \in 0 .. Distance(a, b) /\ BesideOf(a, b, c) <= reach
<1> DEFINE ahead == AheadOn(a, b, c)
           way == Distance(a, b)
           side == BesideOf(a, b, c)
           result == TryCollectPoint(a, b, c)
<1> SUFFICES ASSUME a # b
             PROVE  IsCollected(result, reach) <=> ahead \in 0 .. way /\ side <= reach
  BY DEF Met
<1>1. way \in Nat /\ ahead \in Int /\ side \in Nat /\ way > 0
  BY WayType
<1>2. /\ result.along = ahead * way /\ result.length2 = way * way
      /\ result.aside2 = (side * side) * (way * way)
  BY OnAxis
<1> HIDE DEF ahead, way, side, result
<1>3. 0 <= ahead * way <=> 0 <= ahead
  <2>1. 0 * way <= ahead * way <=> 0 <= ahead
    BY <1>1, CancelFactor
  <2> QED
    BY <1>1, <2>1
<1>4. ahead * way <= way * way <=> ahead <= way
  BY <1>1, CancelFactor
<1>5. (side * side) * (way * way) <= (reach * reach) * (way * way) <=> side * side <= reach * reach
  <2>1. way * way \in Int /\ way * way > 0 /\ side * side \in Int /\ reach * reach \in Int
    BY <1>1
  <2> QED
    BY <2>1, CancelFactor
<1>6. side * side <= reach * reach <=> side <= reach
  <2>1. ASSUME side <= reach PROVE side * side <= reach * reach
    <3>1. side * side <= reach * side /\ side * reach <= reach * reach
      BY <1>1, <2>1
    <3> QED
      BY <1>1, <3>1
  <2>2. ASSUME reach < side PROVE reach * reach < side * side
    <3>1. reach * reach <= side * reach
      BY <1>1, <2>2
    <3>2. reach * side < side * side
      BY <1>1, <2>2
    <3> QED
      BY <1>1, <3>1, <3>2
  <2> QED
    BY <1>1, <2>1, <2>2
<1> QED
  BY <1>1, <1>2, <1>3, <1>4, <1>5, <1>6 DEF IsCollected

LEMMA WaysAre ==
  ASSUME NEW t, NEW c
  PROVE  /\ Ahead(t, c) = AheadOn(was[t], pos[t], c)
         /\ Beside(t, c) = BesideOf(was[t], pos[t], c)
         /\ Way(t) = Distance(was[t], pos[t])
  BY DEF Ahead, Beside, Way, AheadOn, BesideOf

(* While things are met, each of them is some place, and the ways are such
   that the lemmas above apply. *)
LEMMA WhatIsMet ==
  ASSUME WorldInv, TrophiesPlaced, WaysStraight, phase # "idle",
         NEW t \in DOMAIN dogs, NEW x \in DOMAIN trophy \cup DOMAIN OfficeAt
  PROVE  /\ PlaceOf(<<t, x>>) \in Point
         /\ was[t] \in Point /\ pos[t] \in Point
         /\ was[t].x = pos[t].x \/ was[t].y = pos[t].y
<1>1. was[t] \in Point /\ pos[t] \in Point /\ (was[t].x = pos[t].x \/ was[t].y = pos[t].y)
  BY DEF WorldInv, DogsPlaced, WaysStraight
<1>2. CASE x \in DOMAIN trophy
  <2>1. trophy[x] \in DOMAIN place
    BY <1>2 DEF TrophiesPlaced, Range
  <2> QED
    BY <1>1, <1>2, <2>1 DEF PlaceOf, TrophiesPlaced
<1>3. CASE x \notin DOMAIN trophy
  BY <1>1, <1>3, WorldAssumption DEF PlaceOf
<1> QED
  BY <1>2, <1>3

(* What the events are sorted by. *)
LEMMA OnItsWay ==
  ASSUME WorldInv, TrophiesPlaced, WaysStraight, phase # "idle",
         NEW t \in DOMAIN dogs, NEW x \in DOMAIN trophy \cup DOMAIN OfficeAt, was[t] # pos[t]
  PROVE  /\ Way(t) \in Nat /\ Way(t) > 0 /\ Ahead(t, PlaceOf(<<t, x>>)) \in Int
         /\ Result(<<t, x>>).along = Ahead(t, PlaceOf(<<t, x>>)) * Way(t)
         /\ Result(<<t, x>>).length2 = Way(t) * Way(t)
<1> DEFINE c == PlaceOf(<<t, x>>)
<1>1. c \in Point /\ was[t] \in Point /\ pos[t] \in Point
  BY WhatIsMet
<1>2. was[t].x = pos[t].x \/ was[t].y = pos[t].y
  BY WhatIsMet
<1>3. Result(<<t, x>>) = TryCollectPoint(was[t], pos[t], c)
  BY DEF Result
<1> HIDE DEF c
<1>4. Ahead(t, c) = AheadOn(was[t], pos[t], c) /\ Way(t) = Distance(was[t], pos[t])
  BY WaysAre
<1>5. Way(t) \in Nat /\ Way(t) > 0 /\ Ahead(t, c) \in Int
  BY <1>1, <1>4, WayType
<1>6. Result(<<t, x>>).along = Ahead(t, c) * Way(t) /\ Result(<<t, x>>).length2 = Way(t) * Way(t)
  BY <1>1, <1>2, <1>3, <1>4, OnAxis
<1> QED
  BY <1>5, <1>6 DEF c

(* An event is a pair of a dog and a thing that it meets. *)
LEMMA EventIsMet ==
  ASSUME NEW e \in GatherEvents
  PROVE  \E t \in DOMAIN dogs, x \in DOMAIN trophy \cup DOMAIN OfficeAt :
            e = <<t, x>> /\ was[t] # pos[t]
  BY DEF GatherEvents, MeetsItem, MeetsOffice, Met

(* What is not sorted behind lies no farther down a way of the same length. *)
LEMMA InOrder ==
  ASSUME WorldInv, TrophiesPlaced, WaysStraight, phase # "idle",
         NEW e \in GatherEvents, NEW f \in GatherEvents,
         ~SortByTime(Result(f), Result(e)), Way(e[1]) = Way(f[1])
  PROVE  Ahead(e[1], PlaceOf(e)) <= Ahead(f[1], PlaceOf(f))
<1>1. PICK t \in DOMAIN dogs, x \in DOMAIN trophy \cup DOMAIN OfficeAt :
        e = <<t, x>> /\ was[t] # pos[t]
  BY EventIsMet
<1>2. PICK u \in DOMAIN dogs, y \in DOMAIN trophy \cup DOMAIN OfficeAt :
        f = <<u, y>> /\ was[u] # pos[u]
  BY EventIsMet
<1> DEFINE w == Way(t)
           a == Ahead(t, PlaceOf(e))
           b == Ahead(u, PlaceOf(f))
<1>3. /\ w \in Nat /\ w > 0 /\ a \in Int
      /\ Result(e).along = a * w /\ Result(e).length2 = w * w
  BY <1>1, OnItsWay
<1>4. /\ b \in Int
      /\ Result(f).along = b * Way(u) /\ Result(f).length2 = Way(u) * Way(u)
  BY <1>2, OnItsWay
<1>5. Way(u) = w
  BY <1>1, <1>2
<1> HIDE DEF w, a, b
<1>6. ~((b * w) * (w * w) < (a * w) * (w * w))
  BY <1>3, <1>4, <1>5 DEF SortByTime
<1>7. a * (w * (w * w)) <= b * (w * (w * w))
  <2>1. (a * w) * (w * w) = a * (w * (w * w)) /\ (b * w) * (w * w) = b * (w * (w * w))
    BY <1>3, <1>4
  <2>2. a * (w * (w * w)) \in Int /\ b * (w * (w * w)) \in Int
    BY <1>3, <1>4
  <2> QED
    BY <1>6, <2>1, <2>2
<1>8. w * (w * w) \in Int /\ w * (w * w) > 0
  BY <1>3
<1>9. a <= b
  BY <1>3, <1>4, <1>7, <1>8, CancelFactor
<1> QED
  BY <1>1, <1>2, <1>9 DEF a, b

(* Only a meeting makes an event. *)
LEMMA OnlyMeetMakesEvents ==
  ASSUME [Next]_vars, ~Meet
  PROVE  events' \subseteq events
<1>1. ASSUME NEW t \in Tokens, JoinGame(t) \/ Retire(t) PROVE events' = events
  BY <1>1, StepOfTick DEF JoinGame, Retire
<1>2. ASSUME \/ UNCHANGED vars
             \/ \E t \in Tokens, dir \in Turns : ChangeMoveDirection(t, dir)
      PROVE  events' = events
  BY <1>2 DEF vars, sessionVars, ChangeMoveDirection
<1>3. CASE Tick \/ EndTick
  BY <1>3, StepOfTick DEF Tick, EndTick
<1>4. CASE EndGather \/ UpdateTrophyState
  BY <1>4 DEF EndGather, UpdateTrophyState, Session!EndGather, Session!UpdateTrophyState
<1> QED
  BY <1>1, <1>2, <1>3, <1>4 DEF Next, Request

(* What a meeting does, beside what GameSession says of it. *)
LEMMA MeetingMeets ==
  ASSUME NEW t, NEW x, Gather(t, x)
  PROVE  /\ phase = "gather" /\ phase' = "gather"
         /\ <<t, x>> \in GatherEvents
         /\ events' = events \cup {<<t, x>>}
         /\ DOMAIN dogs' = DOMAIN dogs
         /\ UNCHANGED <<trophy, was, pos, place>>
<1>1. DOMAIN dogs' = DOMAIN dogs
  BY OthersKeepDogs DEF Gather
<1> QED
  BY <1>1 DEF Gather, IsNextEvent, dogVars, lootVars, Session!GatherItem, Session!GatherOffice

OrderKept ==
  \A e \in events' \ events : \A f \in GatherEvents \ events' :
     (f[1] = e[1] \/ (Way(e[1]) = Speed /\ Way(f[1]) = Speed))
        => Ahead(e[1], PlaceOf(e)) <= Ahead(f[1], PlaceOf(f))

LEMMA StepOrderKept ==
  WorldInv /\ TrophiesPlaced /\ WaysStraight /\ [Next]_vars => OrderKept
<1> SUFFICES ASSUME WorldInv, TrophiesPlaced, WaysStraight, [Next]_vars,
                    NEW e \in events' \ events, NEW f \in GatherEvents \ events',
                    f[1] = e[1] \/ (Way(e[1]) = Speed /\ Way(f[1]) = Speed)
             PROVE  Ahead(e[1], PlaceOf(e)) <= Ahead(f[1], PlaceOf(f))
  BY DEF OrderKept
<1>1. Meet
  BY OnlyMeetMakesEvents
<1>2. PICK t \in DOMAIN dogs, x \in DOMAIN trophy \cup DOMAIN OfficeAt : Gather(t, x)
  BY <1>1 DEF Meet
<1>3. events' = events \cup {<<t, x>>} /\ phase = "gather" /\ <<t, x>> \in GatherEvents
  BY <1>2, MeetingMeets
<1>4. e = <<t, x>> /\ f \in GatherEvents \ events
  BY <1>3
<1>5. ~SortByTime(Result(f), Result(e))
  BY <1>2, <1>4 DEF Gather, IsNextEvent
<1>6. Way(e[1]) = Way(f[1])
  OBVIOUS
<1> QED
  BY <1>3, <1>4, <1>5, <1>6, InOrder

(* A dog meets what lies on its way from the near to the far end, and of two
   dogs with the whole of a way behind them the nearer one comes first: the
   comparison of fractions in the code does that without dividing. *)
THEOREM ThingsMetInOrder == Spec => MetInOrder
<1>1. OrderKept =>
        \A e \in events' \ events : \A f \in GatherEvents \ events' :
           (f[1] = e[1] \/ (Way(e[1]) = Speed /\ Way(f[1]) = Speed))
              => Ahead(e[1], PlaceOf(e)) <= Ahead(f[1], PlaceOf(f))
  BY DEF OrderKept
<1> QED
  BY <1>1, StepOrderKept, AlwaysWorldInv, AlwaysTyped, PTL DEF Spec, MetInOrder

-----------------------------------------------------------------------------
(* The events can be sorted. *)

(* std::sort asks that what it compares by is a strict weak ordering. *)
Sorts(E) ==
  /\ \A e \in E : ~SortByTime(Result(e), Result(e))
  /\ \A e, f, g \in E :
        SortByTime(Result(e), Result(f)) /\ SortByTime(Result(f), Result(g))
           => SortByTime(Result(e), Result(g))
  /\ \A e, f, g \in E :
        ~SortByTime(Result(e), Result(f)) /\ ~SortByTime(Result(f), Result(g))
           => ~SortByTime(Result(e), Result(g))

IsPart(r) == r.along \in Int /\ r.length2 \in Int /\ r.length2 > 0

(* Parts of ways are compared without dividing. *)
LEMMA PartsOrdered ==
  ASSUME NEW r1, NEW r2, NEW r3, IsPart(r1), IsPart(r2), IsPart(r3),
         ~SortByTime(r1, r2), ~SortByTime(r2, r3)
  PROVE  ~SortByTime(r1, r3)
<1> DEFINE a1 == r1.along
           a2 == r2.along
           a3 == r3.along
           n1 == r1.length2
           n2 == r2.length2
           n3 == r3.length2
<1>1. /\ a1 \in Int /\ a2 \in Int /\ a3 \in Int
      /\ n1 \in Int /\ n2 \in Int /\ n3 \in Int
      /\ n1 > 0 /\ n2 > 0 /\ n3 > 0
  BY DEF IsPart
<1>2. ~(a1 * n2 < a2 * n1) /\ ~(a2 * n3 < a3 * n2)
  BY DEF SortByTime
<1>3. SUFFICES a3 * n1 <= a1 * n3
  <2> HIDE DEF a1, a2, a3, n1, n2, n3
  <2>1. a3 * n1 \in Int /\ a1 * n3 \in Int
    BY <1>1
  <2>2. ASSUME a3 * n1 <= a1 * n3 PROVE ~(a1 * n3 < a3 * n1)
    BY <2>1, <2>2
  <2> QED
    BY <2>2 DEF SortByTime, a1, a3, n1, n3
<1> HIDE DEF a1, a2, a3, n1, n2, n3
<1>4. /\ a2 * n1 \in Int /\ a1 * n2 \in Int /\ a3 * n2 \in Int /\ a2 * n3 \in Int
      /\ a3 * n1 \in Int /\ a1 * n3 \in Int
  BY <1>1
<1>5. a2 * n1 <= a1 * n2 /\ a3 * n2 <= a2 * n3
  BY <1>2, <1>4
<1>6. (a3 * n2) * n1 <= (a2 * n3) * n1
  BY <1>1, <1>4, <1>5, CancelFactor
<1>7. (a2 * n1) * n3 <= (a1 * n2) * n3
  BY <1>1, <1>4, <1>5, CancelFactor
<1>8. /\ (a3 * n2) * n1 = (a3 * n1) * n2
      /\ (a2 * n3) * n1 = (a2 * n1) * n3
      /\ (a1 * n2) * n3 = (a1 * n3) * n2
  BY <1>1
<1>9. (a3 * n1) * n2 <= (a1 * n3) * n2
  <2> DEFINE x == (a3 * n1) * n2
             y == (a2 * n1) * n3
             z == (a1 * n3) * n2
  <2>1. x \in Int /\ y \in Int /\ z \in Int
    BY <1>1, <1>4
  <2>2. x <= y /\ y <= z
    BY <1>6, <1>7, <1>8
  <2> HIDE DEF x, y, z
  <2>3. x <= z
    BY <2>1, <2>2
  <2> QED
    BY <2>3 DEF x, z
<1> QED
  BY <1>1, <1>4, <1>9, CancelFactor

(* Of two parts one at most is before the other. *)
LEMMA PartsApart ==
  ASSUME NEW r1, NEW r2, IsPart(r1), IsPart(r2), SortByTime(r1, r2)
  PROVE  ~SortByTime(r2, r1)
<1> DEFINE x == r1.along * r2.length2
           y == r2.along * r1.length2
<1>1. x \in Int /\ y \in Int
  BY DEF IsPart
<1>2. x < y
  BY DEF SortByTime
<1> HIDE DEF x, y
<1>3. ~(y < x)
  BY <1>1, <1>2
<1> QED
  BY <1>3 DEF SortByTime, x, y

LEMMA EventsAreParts ==
  ASSUME WorldInv, TrophiesPlaced, WaysStraight, phase # "idle", NEW e \in GatherEvents
  PROVE  IsPart(Result(e))
<1>1. PICK t \in DOMAIN dogs, x \in DOMAIN trophy \cup DOMAIN OfficeAt :
        e = <<t, x>> /\ was[t] # pos[t]
  BY EventIsMet
<1> DEFINE w == Way(t)
           a == Ahead(t, PlaceOf(<<t, x>>))
<1>2. /\ w \in Nat /\ w > 0 /\ a \in Int
      /\ Result(e).along = a * w /\ Result(e).length2 = w * w
  BY <1>1, OnItsWay
<1> HIDE DEF w, a
<1>3. a * w \in Int /\ w * w \in Int /\ w * w > 0
  BY <1>2
<1> QED
  BY <1>2, <1>3 DEF IsPart

LEMMA EventsSort ==
  ASSUME WorldInv, TrophiesPlaced, WaysStraight, phase # "idle"
  PROVE  Sorts(GatherEvents)
<1>1. \A e \in GatherEvents : IsPart(Result(e))
  BY EventsAreParts
<1>2. ASSUME NEW e \in GatherEvents PROVE ~SortByTime(Result(e), Result(e))
  BY <1>1, PartsApart
<1>3. ASSUME NEW e \in GatherEvents, NEW f \in GatherEvents, NEW g \in GatherEvents,
             ~SortByTime(Result(e), Result(f)), ~SortByTime(Result(f), Result(g))
      PROVE  ~SortByTime(Result(e), Result(g))
  BY <1>1, <1>3, PartsOrdered
<1>4. ASSUME NEW e \in GatherEvents, NEW f \in GatherEvents, NEW g \in GatherEvents,
             SortByTime(Result(e), Result(f)), SortByTime(Result(f), Result(g))
      PROVE  SortByTime(Result(e), Result(g))
  <2>1. ~SortByTime(Result(g), Result(f))
    BY <1>1, <1>4, PartsApart
  <2> QED
    BY <1>3, <1>4, <2>1
<1> QED
  BY <1>2, <1>3, <1>4 DEF Sorts

(* Some event of finitely many is before no other: the one that the fewest are
   before. *)
LEMMA FirstExists ==
  ASSUME NEW E, IsFiniteSet(E), E # {}, Sorts(E)
  PROVE  \E e \in E : \A f \in E : ~SortByTime(Result(f), Result(e))
<1> DEFINE Before(e) == {f \in E : SortByTime(Result(f), Result(e))}
           T == {Cardinality(Before(e)) : e \in E}
<1>1. \A e \in E : IsFiniteSet(Before(e)) /\ Cardinality(Before(e)) \in Nat
  BY FS_Subset, FS_CardinalityType
<1>2. T \subseteq Nat /\ T # {}
  BY <1>1
<1>3. PICK n \in T : \A m \in T : n <= m
  BY <1>2, LeastExists
<1>4. PICK e \in E : n = Cardinality(Before(e))
  BY <1>3
<1>5. ASSUME NEW f \in E, SortByTime(Result(f), Result(e)) PROVE FALSE
  <2>1. Before(f) \subseteq Before(e)
    BY <1>5 DEF Sorts
  <2>2. f \in Before(e) /\ f \notin Before(f)
    BY <1>5 DEF Sorts
  <2>3. /\ Cardinality(Before(f)) <= Cardinality(Before(e))
        /\ Cardinality(Before(f)) # Cardinality(Before(e))
    <3> HIDE DEF Before
    <3> QED
      BY <1>1, <2>1, <2>2, FS_Subset
  <2>4. Cardinality(Before(e)) <= Cardinality(Before(f))
    BY <1>3, <1>4
  <2>5. Cardinality(Before(e)) \in Nat /\ Cardinality(Before(f)) \in Nat
    BY <1>1
  <2> QED
    BY <2>3, <2>4, <2>5
<1> QED
  BY <1>5

LEMMA EventsFinite ==
  ASSUME DogsThere, Proved!LedgerInv
  PROVE  IsFiniteSet(GatherEvents)
<1>1. IsFiniteSet(DOMAIN trophy \cup DOMAIN OfficeAt)
  BY SessionKnown, SessionAssumption, FS_Union
<1>2. IsFiniteSet((DOMAIN dogs) \X (DOMAIN trophy \cup DOMAIN OfficeAt))
  BY <1>1, FS_Product DEF DogsThere
<1>3. GatherEvents \subseteq (DOMAIN dogs) \X (DOMAIN trophy \cup DOMAIN OfficeAt)
  BY DEF GatherEvents
<1> QED
  BY <1>2, <1>3, FS_Subset

GatheringGoesOn ==
  phase = "gather" =>
     /\ Sorts(GatherEvents)
     /\ ~(GatherEvents \subseteq events) => \E e \in GatherEvents : IsNextEvent(e)

(* SortByTime is an ordering as std::sort asks for, on whatever is met in a
   tick, although it compares parts of ways of different lengths; so there is
   always a next event until all are handled. *)
THEOREM EventsAlwaysSorted == Spec => []GatheringGoesOn
<1>1. DogsThere /\ Proved!LedgerInv /\ WorldInv /\ TrophiesPlaced /\ WaysStraight
        => GatheringGoesOn
  <2> SUFFICES ASSUME DogsThere, Proved!LedgerInv, WorldInv, TrophiesPlaced, WaysStraight,
                      phase = "gather"
               PROVE  /\ Sorts(GatherEvents)
                      /\ ~(GatherEvents \subseteq events)
                            => \E e \in GatherEvents : IsNextEvent(e)
    BY DEF GatheringGoesOn
  <2>1. Sorts(GatherEvents)
    BY EventsSort
  <2>2. ASSUME ~(GatherEvents \subseteq events)
        PROVE  \E e \in GatherEvents : IsNextEvent(e)
    <3> DEFINE E == GatherEvents \ events
    <3>1. E # {} /\ IsFiniteSet(E)
      BY <2>2, EventsFinite, FS_Subset
    <3>2. Sorts(E)
      BY <2>1 DEF Sorts
    <3>3. PICK e \in E : \A f \in E : ~SortByTime(Result(f), Result(e))
      <4> HIDE DEF E
      <4> QED
        BY <3>1, <3>2, FirstExists
    <3> QED
      BY <3>3 DEF IsNextEvent
  <2> QED
    BY <2>1, <2>2
<1> QED
  BY <1>1, AlwaysDogsThere, AlwaysLedgerInv, AlwaysWorldInv, AlwaysTyped, PTL

-----------------------------------------------------------------------------
(* What is passed is taken. *)

Takes == OnlyMetHandled /\ HandledInOrder /\ TakenOrFull /\ BagSinceOffice

(* A dog passes what it meets, and the other way round. *)
LEMMA PassesIsMet ==
  ASSUME WorldInv, TrophiesPlaced, WaysStraight, phase # "idle",
         NEW t \in DOMAIN dogs, NEW c \in Point, NEW reach \in Nat
  PROVE  Passes(t, c, reach) <=> Met(was[t], pos[t], c, reach)
<1>1. was[t] \in Point /\ pos[t] \in Point /\ (was[t].x = pos[t].x \/ was[t].y = pos[t].y)
  BY DEF WorldInv, DogsPlaced, WaysStraight
<1> QED
  BY <1>1, WaysAre, MetIsPassed DEF Passes

LEMMA PassesItemIsEvent ==
  ASSUME WorldInv, TrophiesPlaced, WaysStraight, phase # "idle",
         NEW t \in DOMAIN dogs, NEW i \in DOMAIN trophy, i \notin DOMAIN OfficeAt
  PROVE  /\ PassesItem(t, i) <=> <<t, i>> \in GatherEvents
         /\ PlaceOf(<<t, i>>) = place[trophy[i]]
<1>1. place[trophy[i]] \in Point
  BY DEF TrophiesPlaced, Range
<1>2. DOG_COLLIDER_SIZE + ITEM_COLLIDER_SIZE \in Nat
  BY DEF DOG_COLLIDER_SIZE, ITEM_COLLIDER_SIZE
<1>3. PassesItem(t, i) <=> MeetsItem(was[t], pos[t], place[trophy[i]])
  BY <1>1, <1>2, PassesIsMet DEF PassesItem, MeetsItem
<1> QED
  BY <1>3 DEF GatherEvents, PlaceOf

LEMMA PassesOfficeIsEvent ==
  ASSUME WorldInv, TrophiesPlaced, WaysStraight, phase # "idle",
         NEW t \in DOMAIN dogs, NEW o \in DOMAIN OfficeAt, o \notin DOMAIN trophy
  PROVE  /\ PassesOffice(t, o) <=> <<t, o>> \in GatherEvents
         /\ PlaceOf(<<t, o>>) = OfficeAt[o]
<1>1. OfficeAt[o] \in Point /\ DOG_COLLIDER_SIZE + OFFICE_COLLIDER_SIZE \in Nat
  BY WorldAssumption DEF DOG_COLLIDER_SIZE, OFFICE_COLLIDER_SIZE
<1>2. PassesOffice(t, o) <=> MeetsOffice(was[t], pos[t], OfficeAt[o])
  BY <1>1, PassesIsMet DEF PassesOffice, MeetsOffice
<1> QED
  BY <1>2 DEF GatherEvents, PlaceOf

(* Bags are sequences of trophies. *)
LEMMA BagsKnown ==
  ASSUME Proved!LedgerInv, NEW t \in DOMAIN dogs
  PROVE  /\ dogs[t] = [bag |-> dogs[t].bag, score |-> dogs[t].score,
                       played |-> dogs[t].played, age |-> dogs[t].age]
         /\ dogs[t].bag \in Seq(Trophies) /\ dogs \in [DOMAIN dogs -> Proved!Dog]
  BY DEF Proved!LedgerInv, Proved!Typed, Proved!DogsTyped, Proved!Dog

(* What a meeting does to bags. *)
LEMMA BagsAtItem ==
  ASSUME Proved!LedgerInv, NEW t \in DOMAIN dogs, NEW x, NEW u \in DOMAIN dogs,
         Session!GatherItem(t, x)
  PROVE  \/ dogs'[u].bag = dogs[u].bag
         \/ /\ u = t /\ dogs'[u].bag = Append(dogs[u].bag, trophy[x])
            /\ Session!HasMoreCapacity(u)
<1>1. dogs \in [DOMAIN dogs -> Proved!Dog]
  BY BagsKnown
<1>2. CASE Session!MayTake(t, x)
  <2>1. dogs' = [dogs EXCEPT ![t].bag = Append(dogs[t].bag, trophy[x])]
    BY <1>2 DEF Session!GatherItem, Session!MeetItem
  <2>2. CASE u = t
    BY <1>1, <1>2, <2>1, <2>2 DEF Session!MayTake, Proved!Dog
  <2>3. CASE u # t
    BY <2>1, <2>3
  <2> QED
    BY <2>2, <2>3
<1>3. CASE ~Session!MayTake(t, x)
  BY <1>3 DEF Session!GatherItem, Session!MeetItem
<1> QED
  BY <1>2, <1>3

LEMMA BagsAtOffice ==
  ASSUME Proved!LedgerInv, NEW t \in DOMAIN dogs, NEW x, NEW u \in DOMAIN dogs,
         Session!GatherOffice(t, x)
  PROVE  /\ collected_trophy' = collected_trophy
         /\ u = t => dogs'[u].bag = << >>
         /\ u # t => dogs'[u].bag = dogs[u].bag
<1>1. dogs \in [DOMAIN dogs -> Proved!Dog]
  BY BagsKnown
<1> QED
  BY <1>1 DEF Session!GatherOffice, Session!ReturnTrophyToOffice, Proved!Dog

(* What a meeting with a trophy leaves: the trophy is collected, or the bag is
   full. *)
LEMMA MetItem ==
  ASSUME NEW t, NEW x, Session!GatherItem(t, x)
  PROVE  /\ collected_trophy \subseteq collected_trophy'
         /\ x \in collected_trophy' \/ ~Session!HasMoreCapacity(t)'
<1>1. CASE Session!MayTake(t, x)
  BY <1>1 DEF Session!GatherItem, Session!MeetItem
<1>2. CASE ~Session!MayTake(t, x)
  BY <1>2 DEF Session!GatherItem, Session!MeetItem, Session!MayTake, Session!HasMoreCapacity
<1> QED
  BY <1>1, <1>2

(* Nothing moves while things are met. *)
LEMMA OrderStays ==
  ASSUME UNCHANGED <<trophy, was, pos, place>>
  PROVE  \A t, x, y : NotAfter(t, x, y)' <=> NotAfter(t, x, y)
BY DEF NotAfter, Ahead, PlaceOf

(* A meeting, as the lemmas below need it. *)
LEMMA NextMeeting ==
  ASSUME Proved!LedgerInv, WorldInv, TrophiesPlaced, WaysStraight, Takes,
         NEW t \in DOMAIN dogs, NEW x \in DOMAIN trophy \cup DOMAIN OfficeAt, Gather(t, x)
  PROVE  /\ phase = "gather" /\ phase' = "gather" /\ DOMAIN dogs' = DOMAIN dogs
         /\ events' = events \cup {<<t, x>>} /\ GatherEvents' = GatherEvents
         /\ DOMAIN trophy' = DOMAIN trophy /\ trophy' = trophy
         /\ \A u, y, z : NotAfter(u, y, z)' <=> NotAfter(u, y, z)
         /\ \A y : <<t, y>> \in events => NotAfter(t, y, x)
         /\ \/ x \in DOMAIN trophy /\ x \notin DOMAIN OfficeAt /\ Session!GatherItem(t, x)
            \/ x \in DOMAIN OfficeAt /\ x \notin DOMAIN trophy /\ Session!GatherOffice(t, x)
<1>1. /\ phase = "gather" /\ phase' = "gather" /\ <<t, x>> \in GatherEvents
      /\ events' = events \cup {<<t, x>>}
      /\ DOMAIN dogs' = DOMAIN dogs
      /\ UNCHANGED <<trophy, was, pos, place>>
  BY MeetingMeets
<1>2. GatherEvents' = GatherEvents
  BY <1>1 DEF GatherEvents, PlaceOf
<1>3. <<t, x>> \notin events
  BY DEF Gather, IsNextEvent
<1>4. ASSUME NEW y, <<t, y>> \in events PROVE NotAfter(t, y, x)
  <2> DEFINE e == <<t, y>>
             f == <<t, x>>
  <2>1. e[1] = f[1] => NotAfter(e[1], e[2], f[2])
    BY <1>1, <1>3, <1>4 DEF Takes, HandledInOrder
  <2> QED
    BY <2>1
<1>5. DOMAIN OfficeAt \cap DOMAIN trophy = {}
  BY SessionKnown, SessionAssumption
<1> QED
  BY <1>1, <1>2, <1>4, <1>5, OrderStays DEF Gather

(* The next meeting is the first of those that are left. *)
LEMMA MeetKeepsOrder ==
  ASSUME Proved!LedgerInv, WorldInv, TrophiesPlaced, WaysStraight, Takes, [Next]_vars,
         NEW t \in DOMAIN dogs, NEW x \in DOMAIN trophy \cup DOMAIN OfficeAt, Gather(t, x)
  PROVE  OnlyMetHandled' /\ HandledInOrder'
<1>1. /\ phase = "gather" /\ events' = events \cup {<<t, x>>}
      /\ GatherEvents' = GatherEvents
      /\ \A u, y, z : NotAfter(u, y, z)' <=> NotAfter(u, y, z)
  BY NextMeeting
<1>2. <<t, x>> \in GatherEvents /\ <<t, x>> \notin events
  BY MeetingMeets DEF Gather, IsNextEvent
<1>3. ASSUME NEW e \in events', NEW f \in GatherEvents \ events', e[1] = f[1]
      PROVE  NotAfter(e[1], e[2], f[2])
  <2>1. CASE e \in events
    BY <1>1, <1>3, <2>1 DEF Takes, HandledInOrder
  <2>2. CASE e = <<t, x>>
    <3>1. Ahead(e[1], PlaceOf(e)) <= Ahead(f[1], PlaceOf(f))
      BY <1>1, <1>2, <1>3, <2>2, StepOrderKept DEF OrderKept
    <3>2. f = <<f[1], f[2]>> /\ e = <<e[1], e[2]>>
      BY <2>2 DEF GatherEvents
    <3> QED
      BY <1>3, <3>1, <3>2 DEF NotAfter
  <2> QED
    BY <1>1, <2>1, <2>2
<1>4. HandledInOrder'
  BY <1>1, <1>3 DEF HandledInOrder
<1> QED
  BY <1>1, <1>2, <1>4 DEF Takes, OnlyMetHandled

LEMMA MeetTakes ==
  ASSUME Proved!LedgerInv, WorldInv, TrophiesPlaced, WaysStraight, Takes,
         NEW t \in DOMAIN dogs, NEW x \in DOMAIN trophy \cup DOMAIN OfficeAt, Gather(t, x)
  PROVE  TakenOrFull'
<1> DEFINE Kept(u, i) ==
      \/ i \in collected_trophy
      \/ ~Session!HasMoreCapacity(u)
      \/ \E o \in DOMAIN OfficeAt : <<u, o>> \in events /\ NotAfter(u, i, o)
<1>1. /\ phase = "gather" /\ DOMAIN dogs' = DOMAIN dogs /\ DOMAIN trophy' = DOMAIN trophy
      /\ events' = events \cup {<<t, x>>}
      /\ \A u, y, z : NotAfter(u, y, z)' <=> NotAfter(u, y, z)
      /\ \A y : <<t, y>> \in events => NotAfter(t, y, x)
      /\ \/ x \in DOMAIN trophy /\ x \notin DOMAIN OfficeAt /\ Session!GatherItem(t, x)
         \/ x \in DOMAIN OfficeAt /\ x \notin DOMAIN trophy /\ Session!GatherOffice(t, x)
  BY NextMeeting
<1>2. ASSUME NEW u \in DOMAIN dogs, NEW i \in DOMAIN trophy, <<u, i>> \in events,
             dogs'[u].bag = dogs[u].bag, collected_trophy \subseteq collected_trophy'
      PROVE  Kept(u, i)'
  <2>1. Kept(u, i)
    BY <1>1, <1>2 DEF Takes, TakenOrFull
  <2>2. Session!HasMoreCapacity(u)' <=> Session!HasMoreCapacity(u)
    BY <1>2 DEF Session!HasMoreCapacity
  <2> QED
    BY <1>1, <1>2, <2>1, <2>2
<1>3. ASSUME NEW u \in DOMAIN dogs, NEW i \in DOMAIN trophy, <<u, i>> \in events'
      PROVE  Kept(u, i)'
  <2>1. CASE x \notin DOMAIN OfficeAt /\ Session!GatherItem(t, x)
    <3>1. CASE u = t /\ i = x
      BY <2>1, <3>1, MetItem
    <3>2. CASE <<u, i>> \in events
      <4>1. collected_trophy \subseteq collected_trophy'
        BY <2>1, MetItem
      <4>2. CASE dogs'[u].bag = dogs[u].bag
        BY <1>2, <3>2, <4>1, <4>2
      <4>3. CASE /\ u = t /\ dogs'[u].bag = Append(dogs[u].bag, trophy[x])
                 /\ Session!HasMoreCapacity(u)
        BY <1>1, <2>1, <3>2, <4>1, <4>3 DEF Takes, TakenOrFull
      <4> QED
        BY <2>1, <4>2, <4>3, BagsAtItem
    <3> QED
      BY <1>1, <1>3, <3>1, <3>2
  <2>2. CASE x \in DOMAIN OfficeAt /\ x \notin DOMAIN trophy /\ Session!GatherOffice(t, x)
    <3>1. <<u, i>> \in events
      BY <1>1, <1>3, <2>2
    <3>2. CASE u = t
      BY <1>1, <2>2, <3>1, <3>2
    <3>3. CASE u # t
      BY <1>2, <2>2, <3>1, <3>3, BagsAtOffice
    <3> QED
      BY <3>2, <3>3
  <2> QED
    BY <1>1, <2>1, <2>2
<1> QED
  BY <1>1, <1>3 DEF TakenOrFull

LEMMA MeetEmpties ==
  ASSUME Proved!LedgerInv, WorldInv, TrophiesPlaced, WaysStraight, Takes,
         NEW t \in DOMAIN dogs, NEW x \in DOMAIN trophy \cup DOMAIN OfficeAt, Gather(t, x)
  PROVE  BagSinceOffice'
<1>1. /\ phase = "gather" /\ DOMAIN dogs' = DOMAIN dogs /\ trophy' = trophy
      /\ events' = events \cup {<<t, x>>}
      /\ \A u, y, z : NotAfter(u, y, z)' <=> NotAfter(u, y, z)
      /\ \A y : <<t, y>> \in events => NotAfter(t, y, x)
      /\ \/ x \in DOMAIN trophy /\ x \notin DOMAIN OfficeAt /\ Session!GatherItem(t, x)
         \/ x \in DOMAIN OfficeAt /\ x \notin DOMAIN trophy /\ Session!GatherOffice(t, x)
  BY NextMeeting
<1>2. ASSUME NEW u \in DOMAIN dogs, NEW o \in DOMAIN OfficeAt, <<u, o>> \in events',
             NEW k \in DOMAIN dogs'[u].bag
      PROVE  \E i \in DOMAIN trophy :
                /\ trophy[i] = dogs'[u].bag[k]
                /\ <<u, i>> \in events' /\ NotAfter(u, o, i)
  <2>1. ASSUME <<u, o>> \in events, NEW m \in DOMAIN dogs[u].bag
        PROVE  \E i \in DOMAIN trophy :
                  /\ trophy[i] = dogs[u].bag[m]
                  /\ <<u, i>> \in events' /\ NotAfter(u, o, i)
    BY <1>1, <2>1 DEF Takes, BagSinceOffice
  <2>2. CASE x \notin DOMAIN OfficeAt /\ x \in DOMAIN trophy /\ Session!GatherItem(t, x)
    <3>1. <<u, o>> \in events
      BY <1>1, <1>2, <2>2
    <3>2. CASE dogs'[u].bag = dogs[u].bag
      BY <1>2, <2>1, <3>1, <3>2
    <3>3. CASE u = t /\ dogs'[u].bag = Append(dogs[u].bag, trophy[x])
      <4>1. dogs[u].bag \in Seq(Trophies)
        BY BagsKnown
      <4>2. \/ k \in DOMAIN dogs[u].bag /\ dogs'[u].bag[k] = dogs[u].bag[k]
            \/ dogs'[u].bag[k] = trophy[x]
        BY <1>2, <3>3, <4>1
      <4>3. NotAfter(u, o, x) /\ <<u, x>> \in events'
        BY <1>1, <3>1, <3>3
      <4> QED
        BY <2>1, <2>2, <3>1, <4>2, <4>3
    <3> QED
      BY <2>2, <3>2, <3>3, BagsAtItem
  <2>3. CASE x \in DOMAIN OfficeAt /\ Session!GatherOffice(t, x)
    <3>1. u # t
      BY <1>2, <2>3, BagsAtOffice
    <3>2. <<u, o>> \in events /\ dogs'[u].bag = dogs[u].bag
      BY <1>1, <1>2, <2>3, <3>1, BagsAtOffice
    <3> QED
      BY <1>2, <2>1, <3>2
  <2> QED
    BY <1>1, <2>2, <2>3
<1> QED
  BY <1>1, <1>2 DEF BagSinceOffice

LEMMA StepTakes ==
  Proved!LedgerInv /\ WorldInv /\ TrophiesPlaced /\ WaysStraight /\ Takes /\ [Next]_vars => Takes'
<1> SUFFICES ASSUME Proved!LedgerInv, WorldInv, TrophiesPlaced, WaysStraight, Takes, [Next]_vars
             PROVE  Takes'
  OBVIOUS
<1>1. ASSUME phase' # "gather" \/ events' = {} PROVE Takes'
  BY <1>1 DEF Takes, OnlyMetHandled, HandledInOrder, TakenOrFull, BagSinceOffice
<1>2. CASE Request \/ EndGather \/ UpdateTrophyState \/ EndTick \/ \E t \in Tokens : Retire(t)
  <2>1. phase' # "gather"
    BY <1>2, StepOfTick
    DEF Request, JoinGame, ChangeMoveDirection, sessionVars, EndGather, UpdateTrophyState,
        EndTick, Retire
  <2> QED
    BY <1>1, <2>1
<1>3. CASE Tick
  <2>1. phase' = "gather" /\ events' = {}
    BY <1>3, StepOfTick DEF Tick, WaysStraight
  <2> QED
    BY <1>1, <2>1
<1>4. CASE Meet
  <2>1. PICK t \in DOMAIN dogs, x \in DOMAIN trophy \cup DOMAIN OfficeAt : Gather(t, x)
    BY <1>4 DEF Meet
  <2> QED
    BY <2>1, MeetKeepsOrder, MeetTakes, MeetEmpties DEF Takes
<1>5. CASE UNCHANGED vars
  <2>1. UNCHANGED <<dogs, trophy, events, collected_trophy, phase, pos, was, place>>
    BY <1>5 DEF vars, sessionVars, dogVars, lootVars
  <2>2. GatherEvents' = GatherEvents /\ \A t, x, y : NotAfter(t, x, y)' <=> NotAfter(t, x, y)
    BY <2>1, OrderStays DEF GatherEvents, PlaceOf
  <2>3. OnlyMetHandled' /\ HandledInOrder'
    BY <2>1, <2>2 DEF Takes, OnlyMetHandled, HandledInOrder
  <2>4. TakenOrFull' /\ BagSinceOffice'
    BY <2>1, <2>2 DEF Takes, TakenOrFull, BagSinceOffice, Session!HasMoreCapacity
  <2> QED
    BY <2>3, <2>4 DEF Takes
<1> QED
  BY <1>2, <1>3, <1>4, <1>5 DEF Next

(* When all that was met has been handled. *)
LEMMA TickTakes ==
  ASSUME Proved!LedgerInv, WorldInv, TrophiesPlaced, WaysStraight, Takes, EndGather,
         NEW t \in DOMAIN dogs
  PROVE  LeavesNothing(t) /\ KeepsNothing(t)
<1>1. /\ phase = "gather" /\ GatherEvents = events
      /\ DOMAIN trophy' = DOMAIN trophy \ collected_trophy
  BY StepOfTick
  DEF EndGather, Session!EndGather, Session!RemoveTrophies, Session!Restrict, Takes,
      OnlyMetHandled
<1>2. DOMAIN OfficeAt \cap DOMAIN trophy = {}
  BY SessionKnown, SessionAssumption
<1>3. ASSUME NEW i \in DOMAIN trophy
      PROVE  /\ PassesItem(t, i) <=> <<t, i>> \in events
             /\ PlaceOf(<<t, i>>) = place[trophy[i]]
  BY <1>1, <1>2, PassesItemIsEvent
<1>4. ASSUME NEW o \in DOMAIN OfficeAt
      PROVE  /\ PassesOffice(t, o) <=> <<t, o>> \in events
             /\ PlaceOf(<<t, o>>) = OfficeAt[o]
  BY <1>1, <1>2, PassesOfficeIsEvent
<1>5. LeavesNothing(t)
  <2> SUFFICES ASSUME Session!HasMoreCapacity(t), NEW i \in DOMAIN trophy', PassesItem(t, i)
               PROVE  \E o \in DOMAIN OfficeAt :
                         /\ PassesOffice(t, o)
                         /\ Ahead(t, place[trophy[i]]) <= Ahead(t, OfficeAt[o])
    BY DEF LeavesNothing
  <2>1. i \in DOMAIN trophy /\ i \notin collected_trophy /\ <<t, i>> \in events
    BY <1>1, <1>3
  <2>2. PICK o \in DOMAIN OfficeAt : <<t, o>> \in events /\ NotAfter(t, i, o)
    BY <1>1, <2>1 DEF Takes, TakenOrFull
  <2> QED
    BY <1>3, <1>4, <2>1, <2>2 DEF NotAfter
<1>6. KeepsNothing(t)
  <2> SUFFICES ASSUME NEW o \in DOMAIN OfficeAt, NEW x \in Range(dogs[t].bag), PassesOffice(t, o)
               PROVE  \E i \in DOMAIN trophy :
                         /\ trophy[i] = x /\ PassesItem(t, i)
                         /\ Ahead(t, OfficeAt[o]) <= Ahead(t, place[x])
    BY DEF KeepsNothing
  <2>1. PICK k \in DOMAIN dogs[t].bag : x = dogs[t].bag[k]
    BY DEF Range
  <2>2. PICK i \in DOMAIN trophy :
            trophy[i] = x /\ <<t, i>> \in events /\ NotAfter(t, o, i)
    BY <1>1, <1>4, <2>1 DEF Takes, BagSinceOffice
  <2> QED
    BY <1>3, <1>4, <2>2 DEF NotAfter
<1> QED
  BY <1>5, <1>6

(* On every map, what a dog has passed in a tick is taken if its bag has room at
   the end, but for what it passed no later than its last office; and after an
   office nothing is left in its bag that it passed before. *)
THEOREM DogsTakeWhatTheyPass == Spec => TakesWhatItPasses
<1>1. Init => Takes
  <2>1. Init => phase = "idle"
    BY DEF Init, Session!Init
  <2> QED
    BY <2>1 DEF Takes, OnlyMetHandled, HandledInOrder, TakenOrFull, BagSinceOffice
<1>2. /\ Proved!LedgerInv /\ WorldInv /\ TrophiesPlaced /\ WaysStraight /\ Takes
      /\ [Next]_vars
      => (phase = "gather" /\ phase' = "loot" =>
             \A t \in DOMAIN dogs : LeavesNothing(t) /\ KeepsNothing(t))
  <2> SUFFICES ASSUME Proved!LedgerInv, WorldInv, TrophiesPlaced, WaysStraight, Takes,
                      [Next]_vars, phase = "gather", phase' = "loot"
               PROVE  \A t \in DOMAIN dogs : LeavesNothing(t) /\ KeepsNothing(t)
    OBVIOUS
  <2>1. EndGather
    <3>1. ~Tick /\ ~UpdateTrophyState /\ ~EndTick /\ ~(\E t \in Tokens : Retire(t)) /\ ~Request
      BY StepOfTick DEF Tick, UpdateTrophyState, EndTick, Retire, Request, JoinGame,
                        ChangeMoveDirection
    <3>2. ~Meet
      BY MeetingMeets DEF Meet
    <3>3. ~UNCHANGED vars
      BY DEF vars, sessionVars
    <3> QED
      BY <3>1, <3>2, <3>3 DEF Next
  <2> QED
    BY <2>1, TickTakes
<1> QED
  BY <1>1, <1>2, StepTakes, AlwaysLedgerInv, AlwaysWorldInv, AlwaysTyped, PTL
  DEF Spec, TakesWhatItPasses

-----------------------------------------------------------------------------
(* Loot comes. *)

(* By the longest time without loot a shortage of one is enough. *)
LEMMA SureByLongest ==
  ASSUME LootIsSure, LootShortage \in Int, LootShortage > 0
  PROVE  Generate(Longest) \in Int /\ Generate(Longest) >= 1
<1>1. Percent[Longest] \in Nat /\ Percent[Longest] >= 50
  <2>1. Longest \in 0 .. Longest /\ Percent \in [0 .. Longest -> 0 .. 100]
    BY WorldAssumption
  <2>2. Percent[Longest] \in 0 .. 100
    BY <2>1
  <2> QED
    BY <2>2 DEF LootIsSure
<1> DEFINE p == Percent[Longest]
           made50 == LootShortage * p
<1>2. made50 \in Int /\ made50 >= 50
  <2> HIDE DEF p
  <2>1. 1 * p <= LootShortage * p
    BY <1>1, CancelFactor DEF p
  <2> QED
    BY <1>1, <2>1 DEF p
<1> HIDE DEF made50
<1>3. (made50 + 50) \div 100 \in Int /\ (made50 + 50) \div 100 >= 1
  BY <1>2
<1> QED
  BY <1>3 DEF Generate, made50

LEMMA StepLootTimed ==
  ASSUME LootIsSure, DogsThere, Proved!LedgerInv, Proved!LedgerInv', LootCounted, LootTimed,
         [Next]_vars
  PROVE  LootTimed'
<1>1. CASE UpdateTrophyState
  <2> SUFFICES ASSUME ~OtherSessions, made' # Trophies
               PROVE  hungry' <= time_without_loot' /\ hungry' < Longest
    BY DEF LootTimed
  <2>1. made \subseteq made' /\ made' \subseteq Trophies
    <3>1. made \subseteq made'
      BY <1>1, LootAppears DEF UpdateTrophyState
    <3>2. made' \subseteq Trophies
      BY DEF Proved!LedgerInv, Proved!Typed, Proved!TickTyped
    <3> QED
      BY <3>1, <3>2
  <2>2. made # Trophies
    BY <2>1
  <2>3. /\ hungry <= time_without_loot /\ hungry < Longest
        /\ time_without_loot \in 0 .. Longest /\ hungry \in Nat
        /\ Longest \in Nat /\ Longest > 0
    BY <2>2, WorldAssumption DEF LootTimed, LootCounted, LootIsSure
  <2>4. LootShortage \in Int
    BY SessionKnown, FS_CardinalityType DEF LootShortage, DogsThere
  <2> DEFINE left == Cardinality(Trophies \ made)
             time == Lesser(time_without_loot + 1, Longest)
  <2>5. left \in Nat /\ left > 0
    <3>1. IsFiniteSet(Trophies \ made) /\ Trophies \ made # {}
      BY <2>2, SessionAssumption, SessionKnown, FS_Subset
    <3> QED
      BY <3>1, FS_CardinalityType, FS_EmptySet
  <2>6. trophy_added \in Nat
    BY SessionKnown
  <2>7. CASE LootShortage > 0
    <3>1. /\ trophy_added' - trophy_added = Lesser(Generate(time), left)
          /\ time_without_loot' = TimeAfter(time, Generate(time))
      BY <1>1, <2>7 DEF UpdateTrophyState, TimesBefore
    <3>2. hungry' = IF trophy_added' = trophy_added THEN Lesser(hungry + 1, Longest + 1) ELSE 0
      BY <1>1, <2>7 DEF UpdateTrophyState
    <3> HIDE DEF left
    <3>3. CASE Generate(time) > 0
      <4>1. trophy_added' # trophy_added
        BY <2>5, <2>6, <3>1, <3>3 DEF Lesser
      <4> QED
        BY <2>3, <3>1, <3>2, <3>3, <4>1 DEF TimeAfter
    <3>4. CASE ~(Generate(time) > 0)
      <4>1. time # Longest
        <5> HIDE DEF time
        <5>1. Generate(Longest) \in Int /\ Generate(Longest) >= 1
          BY <2>4, <2>7, SureByLongest
        <5>2. CASE time = Longest
          BY <3>4, <5>1, <5>2
        <5> QED
          BY <5>2
      <4>2. time = time_without_loot + 1 /\ time < Longest
        BY <2>3, <4>1 DEF Lesser
      <4>3. time_without_loot' = time_without_loot + 1
        BY <3>1, <3>4, <4>2 DEF TimeAfter
      <4>4. hungry' \in {hungry + 1, 0}
        BY <2>3, <3>2 DEF Lesser
      <4> QED
        BY <2>3, <4>2, <4>3, <4>4
    <3> QED
      BY <3>3, <3>4
  <2>8. CASE ~(LootShortage > 0)
    BY <1>1, <2>3, <2>8 DEF UpdateTrophyState
  <2> QED
    BY <2>7, <2>8
<1>2. CASE ~UpdateTrophyState
  <2>1. UNCHANGED <<time_without_loot, hungry>>
    BY <1>2
    DEF Next, Request, JoinGame, ChangeMoveDirection, Tick, Meet, Gather, EndGather, Retire, EndTick,
        vars, lootVars
  <2>2. UNCHANGED made
    BY <1>2
    DEF Next, Request, JoinGame, ChangeMoveDirection, Tick, Meet, Gather, EndGather, Retire, EndTick,
        vars, sessionVars, Session!JoinGame, Session!Tick, Session!GatherItem, Session!GatherOffice,
        Session!EndGather, Session!Retire, Session!EndTick, Session!historyVars
  <2> QED
    BY <2>1, <2>2 DEF LootTimed
<1> QED
  BY <1>1, <1>2

(* Where the longest time makes a trophy sure, and the session has the generator
   to itself, it is not left short for that long, however many its dogs and
   whatever came in between. *)
THEOREM LootAlwaysInTime == LootIsSure => (Spec => []LootInTime)
<1> SUFFICES ASSUME LootIsSure PROVE Spec => []LootInTime
  OBVIOUS
<1>1. Init => LootTimed
  BY DEF Init, LootTimed, LootIsSure
<1>2. LootTimed => LootInTime
  BY DEF LootTimed, LootInTime, LootComes
<1>3. DogsThere /\ Proved!LedgerInv /\ Proved!LedgerInv' /\ LootCounted /\ LootTimed /\ [Next]_vars
        => LootTimed'
  BY StepLootTimed
<1> QED
  BY <1>1, <1>2, <1>3, AlwaysDogsThere, AlwaysLedgerInv, AlwaysTyped, PTL DEF Spec

-----------------------------------------------------------------------------
(* The configuration.  World takes the maps that the loader lets pass: twenty
   of its lengths are one unit of the map, as in Roads. *)

Config == INSTANCE Loader WITH Unit <- 20

(* A json object that is read by as_int64, where it is read. *)
WholeAt(obj, keys) == \A key \in keys \cap DOMAIN obj : obj[key] \in Int

(* The arrays of a map, and the numbers in them. *)
IsMapInfo(map) ==
    /\ map["roads"] \in Seq(Range(map["roads"]))
    /\ \A i \in DOMAIN map["roads"] : WholeAt(map["roads"][i], {"x0", "y0", "x1", "y1"})
    /\ \A i \in DOMAIN map["offices"] : WholeAt(map["offices"][i], {"x", "y"})

LEMMA ScaledIsPoint ==
  ASSUME NEW x \in Int, NEW y \in Int
  PROVE  Config!Scaled(x, y) \in Point
  BY DEF Config!Scaled, Point

LEMMA RoadLoads ==
  ASSUME NEW info, {"x0", "y0"} \subseteq DOMAIN info, WholeAt(info, {"x0", "y0", "x1", "y1"})
  PROVE  Config!GetRoad(info) \in Road
<1>1. info["x0"] \in Int /\ info["y0"] \in Int
  BY DEF WholeAt
<1>2. CASE Config!Has(info, "x1")
  <2>1. info["x1"] \in Int
    BY <1>2 DEF WholeAt, Config!Has
  <2>2. Config!GetRoad(info) = [start |-> Config!Scaled(info["x0"], info["y0"]),
                                end |-> Config!Scaled(info["x1"], info["y0"])]
    BY <1>2 DEF Config!GetRoad
  <2>3. Config!Scaled(info["x0"], info["y0"]).y = Config!Scaled(info["x1"], info["y0"]).y
    BY DEF Config!Scaled
  <2> QED
    BY <1>1, <2>1, <2>2, <2>3, ScaledIsPoint DEF Road
<1>3. CASE ~Config!Has(info, "x1") /\ Config!Has(info, "y1")
  <2>1. info["y1"] \in Int
    BY <1>3 DEF WholeAt, Config!Has
  <2>2. Config!GetRoad(info) = [start |-> Config!Scaled(info["x0"], info["y0"]),
                                end |-> Config!Scaled(info["x0"], info["y1"])]
    BY <1>3 DEF Config!GetRoad
  <2>3. Config!Scaled(info["x0"], info["y0"]).x = Config!Scaled(info["x0"], info["y1"]).x
    BY DEF Config!Scaled
  <2> QED
    BY <1>1, <2>1, <2>2, <2>3, ScaledIsPoint DEF Road
<1>4. CASE ~Config!Has(info, "x1") /\ ~Config!Has(info, "y1")
  <2>1. Config!GetRoad(info) = [start |-> Config!Scaled(0, 0), end |-> Config!Scaled(0, 0)]
    BY <1>4 DEF Config!GetRoad
  <2> QED
    BY <2>1, ScaledIsPoint DEF Road
<1> QED
  BY <1>2, <1>3, <1>4

(* Every map of a configuration that is not refused has the roads that World
   assumes, as many as were written; and every office is where it was written,
   none hidden by another one. *)
THEOREM LoadedMapsFit ==
  ASSUME NEW config, ~Config!Refused(config), NEW m \in DOMAIN config["maps"],
         IsMapInfo(config["maps"][m])
  PROVE  LET info == config["maps"][m]
             loaded == Config!LoadGame(config).maps[m]
         IN  /\ loaded.roads \in Seq(Road)
             /\ Len(loaded.roads) = Len(info["roads"])
             /\ \A i \in DOMAIN info["offices"] :
                   loaded.offices[info["offices"][i]["id"]]
                      = Config!GetOffice(info["offices"][i])
             /\ \A o \in DOMAIN loaded.offices : loaded.offices[o] \in Point
<1> DEFINE info == config["maps"][m]
           roads == info["roads"]
           offices == info["offices"]
           loaded == Config!LoadGame(config).maps[m]
           Ids == {offices[i]["id"] : i \in DOMAIN offices}
           IndexOf(id) == CHOOSE i \in DOMAIN offices : offices[i]["id"] = id
<1>1. ~Config!MapRefused(info)
  BY DEF Config!Refused
<1>2. loaded = Config!LoadMap(config, info)
  BY DEF Config!LoadGame
<1> HIDE DEF loaded
<1>3. /\ loaded.roads = [i \in DOMAIN roads |-> Config!GetRoad(roads[i])]
      /\ loaded.offices = [id \in Ids |-> Config!GetOffice(offices[IndexOf(id)])]
  BY <1>2 DEF Config!LoadMap
<1>4. \A i \in DOMAIN roads : Config!GetRoad(roads[i]) \in Road
  <2> SUFFICES ASSUME NEW i \in DOMAIN roads PROVE Config!GetRoad(roads[i]) \in Road
    OBVIOUS
  <2>1. {"x0", "y0"} \subseteq DOMAIN roads[i]
    BY <1>1 DEF Config!MapRefused, Config!Lacks
  <2>2. WholeAt(roads[i], {"x0", "y0", "x1", "y1"})
    BY DEF IsMapInfo
  <2> QED
    BY <2>1, <2>2, RoadLoads
<1>5. loaded.roads \in Seq(Road) /\ Len(loaded.roads) = Len(roads)
  <2>1. Len(roads) \in Nat /\ DOMAIN roads = 1 .. Len(roads)
    BY DEF IsMapInfo
  <2> DEFINE Read(i) == Config!GetRoad(roads[i])
  <2>2. loaded.roads = [i \in 1 .. Len(roads) |-> Read(i)]
    BY <1>3, <2>1
  <2>3. \A i \in 1 .. Len(roads) : Read(i) \in Road
    BY <1>4, <2>1
  <2> HIDE DEF Read
  <2>4. loaded.roads \in [1 .. Len(roads) -> Road]
    BY <2>2, <2>3
  <2> QED
    BY <2>1, <2>4
<1>6. \A i \in DOMAIN offices : Config!GetOffice(offices[i]) \in Point
  <2> SUFFICES ASSUME NEW i \in DOMAIN offices PROVE Config!GetOffice(offices[i]) \in Point
    OBVIOUS
  <2>1. {"x", "y"} \subseteq DOMAIN offices[i]
    BY <1>1 DEF Config!MapRefused, Config!Lacks
  <2>2. WholeAt(offices[i], {"x", "y"})
    BY DEF IsMapInfo
  <2>3. offices[i]["x"] \in Int /\ offices[i]["y"] \in Int
    BY <2>1, <2>2 DEF WholeAt
  <2> QED
    BY <2>3, ScaledIsPoint DEF Config!GetOffice
<1>7. \A i, j \in DOMAIN offices : offices[i]["id"] = offices[j]["id"] => i = j
  BY <1>1 DEF Config!MapRefused, Config!IdsDiffer
<1>8. \A i \in DOMAIN offices : IndexOf(offices[i]["id"]) = i
  BY <1>7
<1> HIDE DEF IndexOf
<1>9. \A i \in DOMAIN offices :
        loaded.offices[offices[i]["id"]] = Config!GetOffice(offices[i])
  BY <1>3, <1>8
<1>10. \A o \in DOMAIN loaded.offices : loaded.offices[o] \in Point
  <2>1. \A o \in DOMAIN loaded.offices : \E i \in DOMAIN offices : o = offices[i]["id"]
    BY <1>3
  <2> QED
    BY <1>6, <1>9, <2>1
<1> QED
  BY <1>5, <1>9, <1>10 DEF loaded
=============================================================================
