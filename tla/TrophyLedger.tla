---------------------------- MODULE TrophyLedger ----------------------------
(***************************************************************************)
(* What the players of a session may rely on: every trophy is in one place *)
(* at a time.  It appears on the map, one dog takes it, and that dog brings *)
(* it to an office once, which raises its score by the type of the trophy, *)
(* or leaves the game with it.  A score changes in no other way and stays  *)
(* what it was when the dog leaves.  GameSession implements this           *)
(* specification while the server neither crashes nor is stopped.          *)
(***************************************************************************)
EXTENDS Integers, FiniteSets, FiniteSetsExt

CONSTANTS
    Tokens,     \* the players
    Trophies,   \* every trophy that may ever appear
    TypeOf,     \* the type of each trophy
    Capacity    \* how many trophies a dog carries

VARIABLES
    where,      \* the place of each trophy: nowhere yet, the map, a dog, gone
    score       \* the score of each player

ledgerVars == <<where, score>>

Held(t) == {x \in Trophies : where[x] = t}

Init ==
    /\ where = [x \in Trophies |-> "none"]
    /\ score = [t \in Tokens |-> 0]

Appear(S) ==
    /\ \A x \in S : where[x] = "none"
    /\ where' = [x \in Trophies |-> IF x \in S THEN "map" ELSE where[x]]
    /\ UNCHANGED score

Take(x, t) ==
    /\ where[x] = "map"
    /\ Cardinality(Held(t)) < Capacity
    /\ where' = [where EXCEPT ![x] = t]
    /\ UNCHANGED score

Clear(t) == [x \in Trophies |-> IF where[x] = t THEN "gone" ELSE where[x]]

Deliver(t) ==
    /\ where' = Clear(t)
    /\ score' = [score EXCEPT
                    ![t] = @ + MapThenSumSet(LAMBDA x : TypeOf[x], Held(t))]

Leave(t) == where' = Clear(t) /\ UNCHANGED score

Next ==
    \/ \E S \in SUBSET Trophies : Appear(S)
    \/ \E t \in Tokens :
          \/ \E x \in Trophies : Take(x, t)
          \/ Deliver(t)
          \/ Leave(t)

Spec == Init /\ [][Next]_ledgerVars
=============================================================================
