--------------------------- MODULE MCGameSession ---------------------------
(* Instances of GameSession for TLC. *)
EXTENDS GameSession, TLC

CONSTANTS t1, t2, o1, ring, bone, key

TwoTokens    == {t1, t2}
OneOffice    == {o1}
TwoTrophies  == {ring, bone}
SomeTrophies == {ring, bone, key}
TypesOfSome  == [x \in SomeTrophies |-> IF x = ring THEN 0 ELSE IF x = bone THEN 1 ELSE 2]

OfOneType    == [x \in TwoTrophies |-> 1]

(* Players are alike, and so are trophies of one type. *)
Symmetry == Permutations(TwoTokens) \cup Permutations(TwoTrophies)

NoFaults    == {}
CrashFaults == {"crash"}
StopFaults  == {"signal"}
BothFaults  == FaultKinds
=============================================================================
