----------------------------- MODULE PlayerLife -----------------------------
(***************************************************************************)
(* The life of a player of the game: it joins, plays until it has been idle *)
(* for too long, is recorded in the database, once, and only then leaves;  *)
(* it does not come back.  Application implements this specification where *)
(* no retirement throws and the server neither crashes nor is stopped.     *)
(***************************************************************************)
CONSTANT Tokens

VARIABLE life   \* of each player

Init == life = [t \in Tokens |-> "out"]

(* A player goes from one part of its life to the next. *)
Goes(t, from, to) == life[t] = from /\ life' = [life EXCEPT ![t] = to]

Join(t)   == Goes(t, "out", "playing")
Record(t) == Goes(t, "playing", "recorded")
Leave(t)  == Goes(t, "recorded", "gone")

Next == \E t \in Tokens : Join(t) \/ Record(t) \/ Leave(t)

Spec == Init /\ [][Next]_life
=============================================================================
