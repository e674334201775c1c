--------------------------- MODULE MCApplication ---------------------------
(* Instances of Application for TLC. *)
EXTENDS Application, TLC

CONSTANTS t1, t2, t3, m1, m2

TwoTokens   == {t1, t2}
ThreeTokens == {t1, t2, t3}

OneMap      == {m1}
TwoMaps     == {m1, m2}
TownName    == [m \in {m1} |-> "Town"]
TwoNames    == m1 :> "Town" @@ m2 :> "Beach"
SharedName  == m1 :> "Town" @@ m2 :> "Town"

ShortSteps  == {1, 2}
LongSteps   == {5}

NoFaults    == {}
DbFaults    == {"db"}
CrashFaults == {"crash"}
StopFaults  == {"signal"}
AllFaults   == FaultKinds

(* Tokens are random: the players are alike. *)
Symmetry == Permutations(TwoTokens)
Symmetry3 == Permutations(ThreeTokens)
=============================================================================
