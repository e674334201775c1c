----------------------------- MODULE Collisions -----------------------------
(***************************************************************************)
(* What a dog meets on its way (collision_detector.cpp): TryCollectPoint   *)
(* projects a thing on the way from a to b, IsCollected compares the       *)
(* square of its distance with that of the reach, FindGatherEvents sorts   *)
(* what was met by the part of the way at which it was.  Fractions are     *)
(* kept as they are, over the square of the length of the way.             *)
(***************************************************************************)
EXTENDS Integers

DOG_COLLIDER_SIZE    == 6      \* 0.3, in twentieths as in Roads
OFFICE_COLLIDER_SIZE == 5      \* 0.25
ITEM_COLLIDER_SIZE   == 0

(* proj_ratio is along / length2, sq_distance is aside2 / length2. *)
TryCollectPoint(a, b, c) ==
    LET u == [x |-> c.x - a.x, y |-> c.y - a.y]
        v == [x |-> b.x - a.x, y |-> b.y - a.y]
        u_dot_v == u.x * v.x + u.y * v.y
        u_len2  == u.x * u.x + u.y * u.y
        v_len2  == v.x * v.x + v.y * v.y
    IN  [along |-> u_dot_v, length2 |-> v_len2,
         aside2 |-> u_len2 * v_len2 - u_dot_v * u_dot_v]

(* Mutant: a thing right at the end of the way is not met. *)
IsCollectedBeforeEnd(result, reach) ==
    /\ 0 <= result.along /\ result.along < result.length2
    /\ result.aside2 <= reach * reach * result.length2
IsCollected(result, reach) ==
    /\ 0 <= result.along /\ result.along <= result.length2
    /\ result.aside2 <= reach * reach * result.length2

Met(a, b, c, reach) == a # b /\ IsCollected(TryCollectPoint(a, b, c), reach)

MeetsItem(a, b, c)   == Met(a, b, c, DOG_COLLIDER_SIZE + ITEM_COLLIDER_SIZE)
MeetsOffice(a, b, c) == Met(a, b, c, DOG_COLLIDER_SIZE + OFFICE_COLLIDER_SIZE)

(* Mutant: things are met in the opposite order. *)
SortByTimeReversed(r1, r2) == r2.along * r1.length2 < r1.along * r2.length2
SortByTime(r1, r2) == r1.along * r2.length2 < r2.along * r1.length2
=============================================================================
