------------------------- MODULE GameSessionProofs -------------------------
(***************************************************************************)
(* Proofs about GameSession, for any number of players, trophies, offices  *)
(* and places in a bag, with crashes and with a signal handler that saves  *)
(* while the game goes on.                                                 *)
(*                                                                         *)
(* Fit: no bag is ever too full to be restored.  Once: no trophy is ever   *)
(* in two places, but for one cause, which is named.  Typed: the types,    *)
(* which need that a sum of values over a bag is a number.  A process that *)
(* has loaded a checkpoint would save the same again.  LedgerInv: until    *)
(* its process ends, the session implements TrophyLedger, with its scores. *)
(***************************************************************************)
EXTENDS GameSession, FiniteSetTheorems, TLAPS

(***************************************************************************)
(* Bags and maps of trophies.                                              *)
(***************************************************************************)

(* A trophy more in a bag. *)
LEMMA AppendToBag ==
    ASSUME NEW bag \in Seq(Trophies), NEW x \in Trophies
    PROVE  /\ Append(bag, x) \in Seq(Trophies)
           /\ Len(Append(bag, x)) = Len(bag) + 1
           /\ Range(Append(bag, x)) = Range(bag) \cup {x}
           /\ IsInjective(bag) /\ x \notin Range(bag) => IsInjective(Append(bag, x))
<1>1. /\ Append(bag, x) \in Seq(Trophies) /\ Len(bag) \in Nat
      /\ Len(Append(bag, x)) = Len(bag) + 1
      /\ DOMAIN bag = 1 .. Len(bag)
      /\ DOMAIN Append(bag, x) = 1 .. (Len(bag) + 1)
      /\ \A k \in 1 .. Len(bag) : Append(bag, x)[k] = bag[k]
      /\ Append(bag, x)[Len(bag) + 1] = x
  OBVIOUS
<1>2. \A k \in DOMAIN Append(bag, x) : k \in DOMAIN bag \/ k = Len(bag) + 1
  BY <1>1
<1>3. DOMAIN bag \subseteq DOMAIN Append(bag, x) /\ Len(bag) + 1 \in DOMAIN Append(bag, x)
  BY <1>1
<1>4. Range(Append(bag, x)) = Range(bag) \cup {x}
  BY <1>1, <1>2, <1>3 DEF Range
<1>5. ASSUME IsInjective(bag), x \notin Range(bag) PROVE IsInjective(Append(bag, x))
  BY <1>1, <1>2, <1>5 DEF IsInjective, Range
<1> QED BY <1>1, <1>4, <1>5

(* An empty bag holds nothing. *)
LEMMA NoTrophies ==
    << >> \in Bags /\ Range(<< >>) = {} /\ IsInjective(<< >>)
<1>1. << >> \in Seq(Trophies) /\ Len(<< >>) = 0 /\ DOMAIN << >> = {}
  OBVIOUS
<1>2. << >> \in Bags
  BY <1>1, SessionAssumption DEF Bags
<1>3. Range(<< >>) = {} /\ IsInjective(<< >>)
  BY <1>1 DEF Range, IsInjective
<1> QED BY <1>2, <1>3

(* The empty map. *)
LEMMA EmptyTrophyMap ==
    /\ DOMAIN EmptyMap = {} /\ TrophyMap(EmptyMap)
    /\ Range(EmptyMap) = {} /\ IsInjective(EmptyMap)
  BY FS_EmptySet DEF EmptyMap, TrophyMap, Range, IsInjective

(* A part of a map of trophies. *)
LEMMA PartOfMap ==
    ASSUME NEW f, TrophyMap(f), NEW D, D \subseteq DOMAIN f
    PROVE  /\ DOMAIN Restrict(f, D) = D /\ TrophyMap(Restrict(f, D))
           /\ Range(Restrict(f, D)) = {f[i] : i \in D}
           /\ IsInjective(f) => IsInjective(Restrict(f, D))
<1>1. IsFiniteSet(D)
  BY FS_Subset DEF TrophyMap
<1> QED BY <1>1 DEF Restrict, TrophyMap, Range, IsInjective

(***************************************************************************)
(* Sums.                                                                   *)
(***************************************************************************)

(* A natural number of units for every element of S, and how many they are. *)
Units(s, g) == {u \in s \X Nat : u[2] \in 1 .. g[u[1]]}
Total(s, g) == Cardinality(Units(s, g))

(* Units of finitely many elements are finitely many, and those of one element
   more are as many more as it has. *)
LEMMA UnitsFinite ==
    ASSUME NEW s, IsFiniteSet(s), NEW g, \A x \in s : g[x] \in Nat
    PROVE  IsFiniteSet(Units(s, g)) /\ Total(s, g) \in Nat
<1> DEFINE Of(x) == {x} \X (1 .. g[x])
           All == {Of(x) : x \in s}
<1>1. IsFiniteSet(All)
  <2> DEFINE f == [x \in s |-> Of(x)]
  <2> HIDE DEF Of
  <2>1. f \in Surjection(s, All)
    BY DEF Surjection
  <2> HIDE DEF f
  <2> QED BY <2>1, FS_Surjection
<1>2. ASSUME NEW T \in All PROVE IsFiniteSet(T)
  <2>1. PICK x \in s : T = Of(x)
    BY <1>2
  <2>2. 1 \in Int /\ g[x] \in Int
    OBVIOUS
  <2>3. IsFiniteSet(1 .. g[x]) /\ IsFiniteSet({x})
    BY <2>2, FS_Interval, FS_Singleton
  <2> QED BY <2>1, <2>3, FS_Product
<1>3. IsFiniteSet(UNION All)
  <2> HIDE DEF All
  <2> QED BY <1>1, <1>2, FS_UNION
<1>4. Units(s, g) \subseteq UNION All
  BY DEF Units
<1>5. IsFiniteSet(Units(s, g))
  BY <1>3, <1>4, FS_Subset
<1> QED BY <1>5, FS_CardinalityType DEF Total

LEMMA TotalOfOneMore ==
    ASSUME NEW s, IsFiniteSet(s), NEW g, \A x \in s : g[x] \in Nat, NEW x \in s
    PROVE  Total(s, g) = g[x] + Total(s \ {x}, g)
<1> DEFINE of == {x} \X (1 .. g[x])
           rest == Units(s \ {x}, g)
<1>1. IsFiniteSet(of) /\ Cardinality(of) = g[x]
  <2> DEFINE one == {x}
             many == 1 .. g[x]
  <2>1. g[x] \in Nat
    OBVIOUS
  <2>2. IsFiniteSet(many) /\ Cardinality(many) = g[x]
    <3> DEFINE n == g[x]
    <3>1. n \in Nat
      OBVIOUS
    <3> HIDE DEF n
    <3>2. 1 \in Int /\ n \in Int
      BY <3>1
    <3>3. /\ IsFiniteSet(1 .. n)
          /\ Cardinality(1 .. n) = IF 1 > n THEN 0 ELSE n - 1 + 1
      BY <3>2, FS_Interval, Zenon
    <3>4. Cardinality(1 .. n) = n
      BY <3>1, <3>3
    <3> QED BY <3>3, <3>4 DEF n
  <2>3. IsFiniteSet(one) /\ Cardinality(one) = 1
    BY FS_Singleton
  <2> HIDE DEF one, many
  <2>4. /\ IsFiniteSet(one \X many)
        /\ Cardinality(one \X many) = Cardinality(one) * Cardinality(many)
    BY <2>2, <2>3, FS_Product
  <2>5. IsFiniteSet(one \X many) /\ Cardinality(one \X many) = g[x]
    BY <2>1, <2>2, <2>3, <2>4
  <2> QED BY <2>5 DEF one, many
<1>2. IsFiniteSet(rest) /\ Cardinality(rest) \in Nat
  <2>1. IsFiniteSet(s \ {x})
    BY FS_Subset
  <2> QED BY <2>1, UnitsFinite DEF Total
<1>3. Units(s, g) = of \cup rest /\ of \cap rest = {}
  BY DEF Units
<1> HIDE DEF of, rest
<1>4. Cardinality(of \cup rest) = Cardinality(of) + Cardinality(rest) - Cardinality({})
  BY <1>1, <1>2, <1>3, FS_Union
<1>5. Total(s, g) = g[x] + Cardinality(rest)
  BY <1>1, <1>2, <1>3, <1>4, FS_EmptySet DEF Total
<1> QED BY <1>5 DEF rest, Total

LEMMA TotalOfNone == ASSUME NEW g PROVE Total({}, g) = 0
<1>1. Units({}, g) = {}
  BY DEF Units
<1> QED BY <1>1, FS_EmptySet DEF Total

(* A function that adds up, one element after the other in any order, is the
   total: a least set for which it is not, there is none. *)
LEMMA AddsUpToTotal ==
    ASSUME NEW S, IsFiniteSet(S), NEW g, \A x \in S : g[x] \in Nat, NEW F, F[{}] = 0,
           \A s \in SUBSET S : s # {} =>
              \E x \in s : F[s \ {x}] \in Nat => F[s] = g[x] + F[s \ {x}]
    PROVE  F[S] = Total(S, g)
<1> DEFINE Bad == {s \in SUBSET S : F[s] # Total(s, g)}
<1> SUFFICES ASSUME Bad # {} PROVE FALSE
  OBVIOUS
<1> DEFINE R == StrictSubsetOrdering(S)
<1>1. IsWellFoundedOn(R, FiniteSubsetsOf(S))
  BY FS_StrictSubsetOrderingWellFounded
<1>2. Bad \subseteq FiniteSubsetsOf(S)
  BY FS_FiniteSubsetsOfFinite
<1>3. PICK s \in Bad : \A r \in Bad : ~(<<r, s>> \in R)
  <2> HIDE DEF R, Bad
  <2> QED BY <1>1, <1>2, WFMin
<1>4. s \in SUBSET S /\ F[s] # Total(s, g)
  BY <1>3
<1>5. s # {}
  BY <1>4, TotalOfNone
<1>6. PICK x \in s : F[s \ {x}] \in Nat => F[s] = g[x] + F[s \ {x}]
  BY <1>4, <1>5
<1>7. F[s \ {x}] = Total(s \ {x}, g)
  <2>1. s \ {x} \in SUBSET S /\ <<s \ {x}, s>> \in R
    BY <1>4, <1>6 DEF StrictSubsetOrdering
  <2>2. s \ {x} \notin Bad
    BY <1>3, <2>1
  <2> QED BY <2>1, <2>2
<1>8. IsFiniteSet(s) /\ IsFiniteSet(s \ {x})
  BY <1>4, FS_Subset
<1>9. Total(s \ {x}, g) \in Nat /\ Total(s, g) = g[x] + Total(s \ {x}, g)
  BY <1>4, <1>6, <1>8, UnitsFinite, TotalOfOneMore
<1> QED BY <1>4, <1>6, <1>7, <1>9

(* What MapThenSumSet computes. *)
LEMMA SumIsTotal ==
    ASSUME NEW S, IsFiniteSet(S), NEW g, \A x \in S : g[x] \in Nat
    PROVE  MapThenSumSet(LAMBDA x : g[x], S) = Total(S, g)
<1> DEFINE Adds(f) ==
               f = [s \in SUBSET S |->
                      IF s = {} THEN 0
                      ELSE g[CHOOSE x \in s : TRUE] + f[s \ {CHOOSE x \in s : TRUE}]]
           F == CHOOSE f : Adds(f)
           W == [s \in SUBSET S |-> Total(s, g)]
<1>1. MapThenSumSet(LAMBDA x : g[x], S) = F[S]
  BY DEF MapThenSumSet, MapThenFoldSet
<1>2. \A s \in SUBSET S : s # {} => (CHOOSE x \in s : TRUE) \in s
  OBVIOUS
<1>3. Adds(W)
  <2>1. ASSUME NEW s \in SUBSET S
        PROVE  Total(s, g) = IF s = {} THEN 0
                 ELSE g[CHOOSE x \in s : TRUE] + W[s \ {CHOOSE x \in s : TRUE}]
    <3>1. CASE s = {}
      BY <3>1, TotalOfNone
    <3>2. CASE s # {}
      <4> DEFINE x == CHOOSE x \in s : TRUE
      <4>1. x \in s
        BY <3>2
      <4> HIDE DEF x
      <4>2. IsFiniteSet(s)
        BY FS_Subset
      <4>3. Total(s, g) = g[x] + Total(s \ {x}, g)
        BY <4>1, <4>2, TotalOfOneMore
      <4> QED BY <3>2, <4>3 DEF x
    <3> QED BY <3>1, <3>2
  <2> QED BY <2>1
<1>4. Adds(F)
  <2> HIDE DEF Adds
  <2> QED BY <1>3
<1> HIDE DEF W, F
<1>5. F[{}] = 0
  BY <1>4
<1>6. ASSUME NEW s \in SUBSET S, s # {}
      PROVE  \E x \in s : F[s \ {x}] \in Nat => F[s] = g[x] + F[s \ {x}]
  <2>1. F[s] = g[CHOOSE x \in s : TRUE] + F[s \ {CHOOSE x \in s : TRUE}]
    BY <1>4, <1>6
  <2> QED BY <1>2, <1>6, <2>1
<1> QED BY <1>1, <1>5, <1>6, AddsUpToTotal

(* The last of some numbers. *)
LEMMA LastOf ==
    ASSUME NEW n \in Nat, NEW s, s \subseteq 1 .. n, s # {}
    PROVE  Max(s) \in s
<1> DEFINE Rest == {n - k : k \in s}
           R == OpToRel(<, Nat)
<1>1. IsWellFoundedOn(R, Nat)
  BY NatLessThanWellFounded
<1>2. \A x, y \in Nat : y < x => <<y, x>> \in R
  BY DEF OpToRel
<1>3. Rest \subseteq Nat /\ Rest # {}
  <2>1. \A k \in s : k \in 1 .. n
    OBVIOUS
  <2>2. \A k \in s : n - k \in Nat
    BY <2>1
  <2> QED BY <2>2
<1> HIDE DEF R
<1>4. PICK r \in Rest : \A q \in Rest : <<q, r>> \notin R
  <2> HIDE DEF Rest
  <2> QED BY <1>1, <1>3, WFMin, Zenon
<1>5. PICK k \in s : r = n - k
  BY <1>4
<1>6. \A j \in s : k >= j
  <2> SUFFICES ASSUME NEW j \in s PROVE k >= j
    OBVIOUS
  <2>1. ~(n - j < n - k)
    BY <1>2, <1>3, <1>4, <1>5
  <2>2. j \in Int /\ k \in Int
    OBVIOUS
  <2> QED BY <2>1, <2>2
<1> QED BY <1>6 DEF Max

(* What BagScore computes: a unit of score for every unit of every place. *)
LEMMA BagScoreIsTotal ==
    ASSUME NEW bag \in Seq(Trophies)
    PROVE  BagScore(bag) = Total(DOMAIN bag, [k \in DOMAIN bag |-> TypeOf[bag[k]]])
<1> DEFINE S == DOMAIN bag
           g == [k \in S |-> TypeOf[bag[k]]]
           Adds(f) ==
               f = [s \in SUBSET S |->
                      IF s = {} THEN 0 ELSE f[s \ {Max(s)}] + TypeOf[bag[Max(s)]]]
           F == CHOOSE f : Adds(f)
           W == [s \in SUBSET S |-> Total(s, g)]
<1>1. BagScore(bag) = F[S]
  BY DEF BagScore, FoldLeft, MapThenFoldSet
<1>2. Len(bag) \in Nat /\ S = 1 .. Len(bag) /\ IsFiniteSet(S)
  <2>1. Len(bag) \in Nat /\ S = 1 .. Len(bag)
    OBVIOUS
  <2> QED BY <2>1, FS_Interval
<1>3. \A k \in S : g[k] = TypeOf[bag[k]] /\ g[k] \in Nat
  BY SessionAssumption
<1> HIDE DEF S, g
<1>4. \A s \in SUBSET S : s # {} => Max(s) \in s
  BY <1>2, LastOf
<1>5. Adds(W)
  <2>1. ASSUME NEW s \in SUBSET S
        PROVE  Total(s, g) = IF s = {} THEN 0 ELSE W[s \ {Max(s)}] + TypeOf[bag[Max(s)]]
    <3>1. CASE s = {}
      BY <3>1, TotalOfNone
    <3>2. CASE s # {}
      <4>1. Max(s) \in s
        BY <1>4, <3>2
      <4>2. IsFiniteSet(s) /\ IsFiniteSet(s \ {Max(s)})
        BY <1>2, FS_Subset
      <4>3. Total(s, g) = g[Max(s)] + Total(s \ {Max(s)}, g)
        BY <1>3, <4>1, <4>2, TotalOfOneMore
      <4>4. Total(s \ {Max(s)}, g) \in Nat
        BY <1>3, <4>2, UnitsFinite
      <4> QED BY <1>3, <3>2, <4>1, <4>3, <4>4
    <3> QED BY <3>1, <3>2
  <2> QED BY <2>1
<1>6. Adds(F)
  <2> HIDE DEF Adds
  <2> QED BY <1>5
<1> HIDE DEF W, F
<1>7. F[{}] = 0
  BY <1>6
<1>8. ASSUME NEW s \in SUBSET S, s # {}
      PROVE  \E x \in s : F[s \ {x}] \in Nat => F[s] = g[x] + F[s \ {x}]
  <2>1. F[s] = F[s \ {Max(s)}] + TypeOf[bag[Max(s)]]
    BY <1>6, <1>8
  <2>2. Max(s) \in s /\ g[Max(s)] = TypeOf[bag[Max(s)]] /\ g[Max(s)] \in Nat
    BY <1>3, <1>4, <1>8
  <2>3. \A a, b \in Nat : a + b = b + a
    OBVIOUS
  <2>4. F[s \ {Max(s)}] \in Nat => F[s] = g[Max(s)] + F[s \ {Max(s)}]
    BY <2>1, <2>2, <2>3
  <2> QED BY <2>2, <2>4
<1>9. F[S] = Total(S, g)
  <2>1. \A k \in S : g[k] \in Nat
    BY <1>3
  <2> QED BY <1>2, <1>7, <1>8, <2>1, AddsUpToTotal
<1> QED BY <1>1, <1>9 DEF S, g

(* A score is a natural number. *)
LEMMA BagScoreType ==
    ASSUME NEW bag \in Seq(Trophies)
    PROVE  BagScore(bag) \in Nat
<1>1. Len(bag) \in Nat /\ DOMAIN bag = 1 .. Len(bag) /\ \A k \in DOMAIN bag : TypeOf[bag[k]] \in Nat
  BY SessionAssumption
<1>2. IsFiniteSet(DOMAIN bag)
  BY <1>1, FS_Interval
<1> QED BY <1>1, <1>2, BagScoreIsTotal, UnitsFinite

(* The score of a bag that holds no trophy twice is the sum of their types. *)
LEMMA BagScoreIsSum ==
    ASSUME NEW bag \in Seq(Trophies), IsInjective(bag)
    PROVE  /\ BagScore(bag) = MapThenSumSet(LAMBDA x : TypeOf[x], Range(bag))
           /\ IsFiniteSet(Range(bag)) /\ Cardinality(Range(bag)) = Len(bag)
<1> DEFINE S == DOMAIN bag
           g == [k \in S |-> TypeOf[bag[k]]]
           T == Range(bag)
<1>1. Len(bag) \in Nat /\ S = 1 .. Len(bag)
  OBVIOUS
<1>2. IsFiniteSet(S) /\ Cardinality(S) = Len(bag)
  BY <1>1, FS_Interval, SMTT(20)
<1>3. T \subseteq Trophies
  BY DEF Range
<1>4. bag \in Bijection(S, T)
  BY DEF Range, Bijection, Injection, Surjection, IsInjective
<1>5. IsFiniteSet(T) /\ Cardinality(T) = Len(bag)
  BY <1>2, <1>4, FS_Bijection DEF ExistsBijection
<1>6. \A k \in S : g[k] \in Nat /\ bag[k] \in T /\ g[k] = TypeOf[bag[k]]
  BY SessionAssumption DEF Range
<1>7. \A x \in T : TypeOf[x] \in Nat
  BY <1>3, SessionAssumption
<1> HIDE DEF g
<1>8. Total(S, g) = Total(T, TypeOf)
  <2> DEFINE f == [u \in Units(S, g) |-> <<bag[u[1]], u[2]>>]
  <2>1. f \in Bijection(Units(S, g), Units(T, TypeOf))
    <3>1. \A u \in Units(S, g) : f[u] \in Units(T, TypeOf)
      BY <1>6 DEF Units
    <3>2. \A u, v \in Units(S, g) : f[u] = f[v] => u = v
      BY DEF Units, IsInjective
    <3>3. ASSUME NEW w \in Units(T, TypeOf) PROVE \E u \in Units(S, g) : f[u] = w
      <4>1. PICK k \in S : w[1] = bag[k]
        BY DEF Units, Range
      <4>2. <<k, w[2]>> \in Units(S, g)
        BY <1>6, <4>1 DEF Units
      <4>3. f[<<k, w[2]>>] = <<bag[k], w[2]>>
        BY <4>2
      <4>4. w = <<w[1], w[2]>>
        BY DEF Units
      <4> QED BY <4>1, <4>2, <4>3, <4>4
    <3> HIDE DEF f
    <3>4. f \in [Units(S, g) -> Units(T, TypeOf)]
      BY <3>1 DEF f
    <3> QED BY <3>2, <3>3, <3>4 DEF Bijection, Injection, Surjection, IsInjective
  <2>2. IsFiniteSet(Units(S, g))
    BY <1>2, <1>6, UnitsFinite
  <2> QED BY <2>1, <2>2, FS_Bijection DEF ExistsBijection, Total
<1>9. BagScore(bag) = Total(S, g)
  BY BagScoreIsTotal DEF g
<1>10. MapThenSumSet(LAMBDA x : TypeOf[x], T) = Total(T, TypeOf)
  BY <1>5, <1>7, SumIsTotal
<1> QED BY <1>5, <1>8, <1>9, <1>10

(***************************************************************************)
(* What the actions do to dogs and copies.                                 *)
(***************************************************************************)

(* The bag of one dog changes, and no shape. *)
LEMMA NewBag ==
    ASSUME DogsShaped, NEW t \in DOMAIN dogs, NEW bag \in Bags,
           dogs' = [dogs EXCEPT ![t].bag = bag]
    PROVE  /\ DOMAIN dogs' = DOMAIN dogs /\ DogsShaped'
           /\ dogs'[t].bag = bag
           /\ \A u \in DOMAIN dogs : u # t => dogs'[u] = dogs[u]
<1>1. DOMAIN dogs' = DOMAIN dogs /\ \A u \in DOMAIN dogs : u # t => dogs'[u] = dogs[u]
  OBVIOUS
<1>2. dogs'[t] = [dogs[t] EXCEPT !.bag = bag]
  OBVIOUS
<1>3. DOMAIN dogs'[t] = DOMAIN dogs[t] /\ dogs'[t].bag = bag
  BY <1>2 DEF DogsShaped
<1> QED BY <1>1, <1>3 DEF DogsShaped

(* An office empties the bag of one dog. *)
LEMMA OfficeEmpties ==
    ASSUME DogsShaped, NEW t \in DOMAIN dogs, ReturnTrophyToOffice(t)
    PROVE  /\ DOMAIN dogs' = DOMAIN dogs /\ DogsShaped'
           /\ dogs'[t].bag = << >>
           /\ \A u \in DOMAIN dogs : u # t => dogs'[u] = dogs[u]
<1>1. DOMAIN dogs' = DOMAIN dogs /\ \A u \in DOMAIN dogs : u # t => dogs'[u] = dogs[u]
  BY DEF ReturnTrophyToOffice
<1>2. PICK score : dogs'[t] = [dogs[t] EXCEPT !.score = score, !.bag = << >>]
  BY DEF ReturnTrophyToOffice
<1>3. DOMAIN dogs'[t] = DOMAIN dogs[t] /\ dogs'[t].bag = << >>
  BY <1>2 DEF DogsShaped
<1>4. dogs'[t].bag \in Bags
  <2>1. << >> \in Bags
    BY NoTrophies
  <2> QED BY <1>3, <2>1
<1>5. \A u \in DOMAIN dogs' : DOMAIN dogs'[u] = {"bag", "score", "played", "age"} /\ dogs'[u].bag \in Bags
  BY <1>1, <1>3, <1>4, Zenon DEF DogsShaped
<1> QED BY <1>1, <1>3, <1>5 DEF DogsShaped

(* A dog that is read is in the copy from then on, as it is. *)
LEMMA ReadEffect ==
    ASSUME Shaped, NEW t \in DOMAIN dogs, saving' = ReadDog(t)
    PROVE  /\ DOMAIN saving' = DOMAIN saving
           /\ saving'.step = saving.step /\ saving'.players = saving.players
           /\ saving'.trophy = saving.trophy /\ saving'.torn = saving.torn
           /\ DOMAIN saving'.dogs = DOMAIN saving.dogs \cup {t}
           /\ saving'.dogs[t].bag = dogs[t].bag
           /\ \A u \in DOMAIN saving.dogs : u # t => saving'.dogs[u] = saving.dogs[u]
           /\ SavedShaped(saving'.dogs)
<1>1. saving' = [saving EXCEPT !.dogs = Put(saving.dogs, t, DogRepr(dogs[t]))]
  BY DEF ReadDog
<1>2. /\ DOMAIN saving' = DOMAIN saving
      /\ saving'.step = saving.step /\ saving'.players = saving.players
      /\ saving'.trophy = saving.trophy /\ saving'.torn = saving.torn
      /\ saving'.dogs = Put(saving.dogs, t, DogRepr(dogs[t]))
  BY <1>1 DEF Shaped
<1>3. DOMAIN DogRepr(dogs[t]) = {"bag", "score", "age"} /\ DogRepr(dogs[t]).bag = dogs[t].bag
  BY DEF DogRepr
<1>4. /\ DOMAIN saving'.dogs = DOMAIN saving.dogs \cup {t}
      /\ saving'.dogs[t] = DogRepr(dogs[t])
      /\ \A u \in DOMAIN saving.dogs : u # t => saving'.dogs[u] = saving.dogs[u]
  BY <1>2 DEF Put
<1>5. SavedShaped(saving'.dogs)
  BY <1>3, <1>4 DEF Shaped, SavedShaped, DogsShaped
<1> QED BY <1>2, <1>3, <1>4, <1>5

(* No dog is read of a save that has not begun. *)
LEMMA NothingUnread ==
    ASSUME Phases, saving.step = "none"
    PROVE  saving = NotSaving /\ \A t : ~Unread(t)
  BY DEF Phases, NotSaving, Unread

(* New trophies take the next ids. *)
LEMMA LootShape ==
    ASSUME Shaped, NEW n \in Shortage, NEW new \in [1 .. n -> Trophies \ made],
           trophy' = [i \in DOMAIN trophy \cup (NextId .. (NextId + n - 1)) |->
                         IF i \in NextId .. (NextId + n - 1)
                         THEN new[i - NextId + 1] ELSE trophy[i]]
    PROVE  /\ TrophyMap(trophy') /\ DOMAIN trophy \subseteq DOMAIN trophy'
           /\ n \in Nat
           /\ \A i \in DOMAIN trophy' :
                 \/ i \in DOMAIN trophy /\ trophy'[i] = trophy[i]
                 \/ /\ i \in Int /\ i - NextId + 1 \in 1 .. n
                    /\ trophy'[i] = new[i - NextId + 1]
<1>1. n \in Nat /\ NextId \in Nat
  BY DEF Shortage, Shaped, NextId
<1>2. \A i \in NextId .. (NextId + n - 1) : i \in Int /\ i - NextId + 1 \in 1 .. n
  BY <1>1
<1> DEFINE ids == NextId .. (NextId + n - 1)
<1>3. IsFiniteSet(DOMAIN trophy \cup ids)
  <2>1. NextId \in Int /\ NextId + n - 1 \in Int
    BY <1>1
  <2>2. IsFiniteSet(ids)
    BY <2>1, FS_Interval
  <2>3. IsFiniteSet(DOMAIN trophy)
    BY DEF Shaped, TrophyMap
  <2> HIDE DEF ids
  <2> QED BY <2>2, <2>3, FS_Union
<1>4. \A i \in ids : new[i - NextId + 1] \in Trophies
  BY <1>2
<1> HIDE DEF ids
<1>5. /\ DOMAIN trophy' = DOMAIN trophy \cup ids
      /\ \A i \in DOMAIN trophy' :
            trophy'[i] = IF i \in ids THEN new[i - NextId + 1] ELSE trophy[i]
      /\ trophy' = [i \in DOMAIN trophy' |-> trophy'[i]]
  BY DEF ids
<1>6. TrophyMap(trophy')
  BY <1>3, <1>4, <1>5 DEF Shaped, TrophyMap
<1> QED BY <1>1, <1>2, <1>5, <1>6 DEF ids

Fit == Shaped /\ Phases

(* One turn of the loop over the events. *)
LEMMA GatherFit ==
    ASSUME Fit, Gather
    PROVE  Fit'
<1>1. ASSUME NEW t, NEW i, GatherItem(t, i) PROVE Fit'
  <2>1. /\ t \in DOMAIN dogs /\ i \in DOMAIN trophy /\ phase = "gather"
        /\ UNCHANGED <<trophy, trophy_added, phase, server, file, torn>>
        /\ MeetItem(t, i)
    BY <1>1 DEF GatherItem, Working, historyVars
  <2>2. \E b \in BOOLEAN : saving' = [saving EXCEPT !.torn = b]
    <3>1. saving.torn \/ (ReadTwice(t) /\ MayTake(t, i)) \in BOOLEAN
      BY DEF Fit, Shaped, ReadTwice, MayTake
    <3> QED BY <1>1 DEF GatherItem
  <2>3. /\ DOMAIN saving' = DOMAIN saving /\ saving'.torn \in BOOLEAN
        /\ saving'.step = saving.step /\ saving'.players = saving.players
        /\ saving'.trophy = saving.trophy /\ saving'.dogs = saving.dogs
    BY <2>2 DEF Fit, Shaped
  <2>4. DOMAIN dogs' = DOMAIN dogs /\ DogsShaped' /\ collected_trophy' \subseteq DOMAIN trophy
    <3>1. CASE MayTake(t, i)
      <4> DEFINE bag == Append(dogs[t].bag, trophy[i])
      <4>1. dogs[t].bag \in Seq(Trophies) /\ Len(dogs[t].bag) <= Capacity
        BY <2>1 DEF Fit, Shaped, DogsShaped, Bags
      <4>2. trophy[i] \in Trophies
        BY <2>1 DEF Fit, Shaped, TrophyMap
      <4>3. bag \in Bags
        BY <3>1, <4>1, <4>2, AppendToBag, SessionAssumption
        DEF Bags, MayTake, HasMoreCapacity
      <4>4. /\ dogs' = [dogs EXCEPT ![t].bag = bag]
            /\ collected_trophy' = collected_trophy \cup {i}
        BY <2>1, <3>1 DEF MeetItem
      <4> HIDE DEF bag
      <4> QED BY <2>1, <4>3, <4>4, NewBag DEF Fit, Shaped
    <3>2. CASE ~MayTake(t, i)
      BY <2>1, <3>2 DEF MeetItem, Fit, Shaped, DogsShaped
    <3> QED BY <3>1, <3>2
  <2>5. Shaped'
    BY <2>1, <2>3, <2>4 DEF Fit, Shaped
  <2>6. saving.step = "none" => saving' = saving
    <3> SUFFICES ASSUME saving.step = "none" PROVE saving' = saving
      OBVIOUS
    <3>1. ~ReadTwice(t)
      BY DEF ReadTwice
    <3>2. saving' = [saving EXCEPT !.torn = saving.torn \/ FALSE]
      BY <1>1, <3>1 DEF GatherItem
    <3>3. saving.torn = FALSE /\ saving = NotSaving
      BY NothingUnread DEF Fit, NotSaving
    <3> QED BY <3>2, <3>3 DEF NotSaving
  <2>7. Phases'
    BY <2>1, <2>3, <2>4, <2>6 DEF Fit, Phases, Unread
  <2> QED BY <2>5, <2>7 DEF Fit
<1>2. ASSUME NEW t, NEW o, GatherOffice(t, o) PROVE Fit'
  <2>1. /\ t \in DOMAIN dogs /\ ReturnTrophyToOffice(t)
        /\ UNCHANGED <<trophy, trophy_added, collected_trophy, phase, server, saving, file, torn>>
    BY <1>2 DEF GatherOffice, processVars, historyVars
  <2>2. DOMAIN dogs' = DOMAIN dogs /\ DogsShaped'
    BY <2>1, OfficeEmpties DEF Fit, Shaped
  <2> QED BY <2>1, <2>2 DEF Fit, Shaped, Phases, Unread
<1> QED BY <1>1, <1>2 DEF Gather

(* What stays of the memory of a process that has ended. *)
LEMMA DownFit ==
    ASSUME Fit, Down
    PROVE  Fit'
<1>1. /\ dogs' = EmptyMap /\ trophy' = EmptyMap /\ trophy_added' = 0
      /\ collected_trophy' = {} /\ phase' = "idle" /\ saving' = NotSaving
      /\ file' = file
  BY DEF Down
<1>2. DOMAIN NotSaving = {"step", "players", "trophy", "dogs", "torn"}
  BY DEF NotSaving
<1>3. /\ NotSaving.step = "none" /\ NotSaving.players = {} /\ NotSaving.trophy = EmptyMap
      /\ NotSaving.dogs = EmptyMap /\ NotSaving.torn = FALSE
  BY DEF NotSaving
<1> QED
  BY <1>1, <1>2, <1>3, EmptyTrophyMap
  DEF Fit, Shaped, Phases, DogsShaped, SavedShaped
(* A process that has loaded a checkpoint. *)
LEMMA UploadFit ==
    ASSUME Fit, UploadGameState
    PROVE  Fit'
<1> DEFINE lying == IF DOMAIN file.dogs = {} THEN EmptyMap ELSE file.trophy
<1>1. /\ server = "down" /\ server' = "running"
      /\ dogs' = [t \in DOMAIN file.dogs |-> RestoreDog(file.dogs[t])]
      /\ trophy' = lying /\ trophy_added' = Cardinality(DOMAIN lying)
      /\ UNCHANGED <<collected_trophy, phase, saving, file>>
  BY DEF UploadGameState, AddTrophies, tickVars
<1>2. TrophyMap(lying)
  BY EmptyTrophyMap DEF Fit, Shaped
<1>3. Cardinality(DOMAIN lying) \in Nat
  BY <1>2, FS_CardinalityType DEF TrophyMap
<1> HIDE DEF lying
<1>4. DogsShaped'
  BY <1>1 DEF RestoreDog, DogsShaped, Fit, Shaped, SavedShaped
<1>5. phase = "idle" /\ saving.step = "none" /\ saving = NotSaving /\ collected_trophy = {}
  BY <1>1 DEF Fit, Phases
<1>6. Shaped'
  BY <1>1, <1>2, <1>3, <1>4, <1>5 DEF Fit, Shaped
<1>7. Phases'
  BY <1>1, <1>5 DEF Phases, NotSaving
<1> QED BY <1>6, <1>7 DEF Fit

(* A tick and its end, and what else happens on the strand. *)
LEMMA StrandFit ==
    ASSUME Fit,
           \/ (\E t \in Tokens : JoinGame(t)) \/ Tick \/ EndGather
           \/ UpdateTrophyState \/ EndTick
    PROVE  Fit'
<1>1. ASSUME NEW t \in Tokens, JoinGame(t) PROVE Fit'
  <2>1. /\ dogs' = Put(dogs, t, NewDog) /\ phase = "idle"
        /\ UNCHANGED <<trophy, trophy_added, collected_trophy, phase, server, saving,
                        file, torn>>
    BY <1>1 DEF JoinGame, Serving, tickVars, processVars, historyVars
  <2>2. DOMAIN NewDog = {"bag", "score", "played", "age"} /\ NewDog.bag = << >>
    BY DEF NewDog
  <2>3. DOMAIN dogs' = DOMAIN dogs \cup {t} /\ DogsShaped'
    BY <2>1, <2>2, NoTrophies DEF Put, Fit, Shaped, DogsShaped
  <2> QED BY <2>1, <2>3 DEF Fit, Shaped, Phases, Unread
<1>2. ASSUME Tick PROVE Fit'
  <2>1. /\ dogs' = [t \in DOMAIN dogs |-> Older(dogs[t])]
        /\ phase = "idle" /\ phase' = "gather" /\ server = "running"
        /\ UNCHANGED <<trophy, trophy_added, collected_trophy, server, saving, file, torn>>
    BY <1>2 DEF Tick, Serving, processVars, historyVars
  <2>2. \A t \in DOMAIN dogs :
          DOMAIN Older(dogs[t]) = DOMAIN dogs[t] /\ Older(dogs[t]).bag = dogs[t].bag
    BY DEF Older, Fit, Shaped, DogsShaped
  <2>3. DOMAIN dogs' = DOMAIN dogs /\ DogsShaped'
    BY <2>1, <2>2 DEF Fit, Shaped, DogsShaped
  <2> QED BY <2>1, <2>3 DEF Fit, Shaped, Phases, Unread
<1>3. ASSUME EndGather PROVE Fit'
  <2>1. /\ phase = "gather" /\ phase' = "loot" /\ collected_trophy' = {}
        /\ server \in {"running", "stopping"}
        /\ trophy' = Restrict(trophy, DOMAIN trophy \ collected_trophy)
        /\ UNCHANGED <<dogs, trophy_added, server, saving, file, torn>>
    BY <1>3 DEF EndGather, RemoveTrophies, Working, processVars, historyVars
  <2>2. TrophyMap(trophy')
    BY <2>1, PartOfMap DEF Fit, Shaped
  <2> QED BY <2>1, <2>2 DEF Fit, Shaped, Phases, Unread, DogsShaped
<1>4. ASSUME UpdateTrophyState PROVE Fit'
  <2>1. /\ phase = "loot" /\ phase' = "retire" /\ server \in {"running", "stopping"}
        /\ UNCHANGED <<dogs, collected_trophy, server, saving, file, torn>>
    BY <1>4 DEF UpdateTrophyState, Working, processVars
  <2>2. TrophyMap(trophy') /\ trophy_added' \in Nat /\ DOMAIN trophy \subseteq DOMAIN trophy'
    <3>1. CASE UNCHANGED <<trophy, trophy_added>>
      BY <3>1 DEF Fit, Shaped
    <3>2. CASE ~UNCHANGED <<trophy, trophy_added>>
      <4>1. PICK n \in Shortage :
              \E new \in [1 .. n -> Trophies \ made] :
                /\ trophy' = [i \in DOMAIN trophy \cup (NextId .. (NextId + n - 1)) |->
                                IF i \in NextId .. (NextId + n - 1)
                                THEN new[i - NextId + 1] ELSE trophy[i]]
                /\ trophy_added' = trophy_added + n
        BY <1>4, <3>2 DEF UpdateTrophyState
      <4>2. /\ TrophyMap(trophy') /\ DOMAIN trophy \subseteq DOMAIN trophy'
            /\ n \in Nat
        BY <4>1, LootShape DEF Fit
      <4> QED BY <4>1, <4>2 DEF Fit, Shaped
    <3> QED BY <3>1, <3>2
  <2> QED BY <2>1, <2>2 DEF Fit, Shaped, Phases, Unread, DogsShaped
<1>5. ASSUME EndTick PROVE Fit'
  <2>1. /\ phase = "retire" /\ phase' = "idle" /\ server \in {"running", "stopping"}
        /\ SaveGameState \/ UNCHANGED file
        /\ UNCHANGED <<dogs, trophy, trophy_added, collected_trophy, server, saving, torn>>
    BY <1>5 DEF EndTick, Working, sessionVars, processVars, historyVars
  <2>2. SavedShaped(file'.dogs) /\ TrophyMap(file'.trophy)
    <3>1. CASE SaveGameState
      <4>1. /\ file'.dogs = [t \in DOMAIN dogs |-> DogRepr(dogs[t])]
            /\ file'.trophy = trophy
        BY <3>1 DEF SaveGameState, Checkpoint
      <4> QED BY <4>1 DEF DogRepr, Fit, Shaped, DogsShaped, SavedShaped
    <3> QED BY <2>1, <3>1 DEF Fit, Shaped
  <2> QED BY <2>1, <2>2 DEF Fit, Shaped, Phases, Unread, DogsShaped
<1> QED BY <1>1, <1>2, <1>3, <1>4, <1>5

(* The signal handler, and a dog that leaves while it saves. *)
LEMMA SaveFit ==
    ASSUME Fit,
           \/ (\E t \in Tokens : Retire(t) \/ CopyDog(t))
           \/ Signal \/ CopyTrophies \/ WriteAndStop
    PROVE  Fit'
<1>1. ASSUME NEW t \in Tokens, Retire(t) PROVE Fit'
  <2>1. /\ t \in DOMAIN dogs /\ dogs' = Restrict(dogs, DOMAIN dogs \ {t})
        /\ saving' = IF Unread(t) THEN ReadDog(t) ELSE saving
        /\ UNCHANGED <<trophy, trophy_added, collected_trophy, phase, server, file, torn>>
    BY <1>1 DEF Retire, tickVars, historyVars
  <2>2. DOMAIN dogs' = DOMAIN dogs \ {t} /\ DogsShaped'
    BY <2>1 DEF Restrict, Fit, Shaped, DogsShaped
  <2>3. CASE Unread(t)
    <3>1. saving.step # "none"
      BY <2>3, NothingUnread DEF Fit
    <3>2. saving' = ReadDog(t)
      BY <2>1, <2>3
    <3> QED BY <2>1, <2>2, <3>1, <3>2, ReadEffect DEF Fit, Shaped, Phases, Unread
  <2>4. CASE ~Unread(t)
    BY <2>1, <2>2, <2>4 DEF Fit, Shaped, Phases, Unread
  <2> QED BY <2>3, <2>4
<1>2. ASSUME NEW t \in Tokens, CopyDog(t) PROVE Fit'
  <2>1. /\ saving.step = "dogs" /\ Unread(t) /\ saving' = ReadDog(t)
        /\ UNCHANGED <<dogs, trophy, trophy_added, collected_trophy, phase, server, file, torn>>
    BY <1>2 DEF CopyDog, sessionVars, tickVars, historyVars
  <2>2. t \in DOMAIN dogs
    BY <2>1 DEF Fit, Phases, Unread
  <2> QED BY <2>1, <2>2, ReadEffect DEF Fit, Shaped, Phases, Unread, DogsShaped
<1>3. ASSUME Signal \/ CopyTrophies PROVE Fit'
  <2>1. UNCHANGED <<dogs, trophy, trophy_added, collected_trophy, phase, server, file, torn>>
    BY <1>3 DEF Signal, CopyTrophies, sessionVars, tickVars, historyVars
  <2>2. CASE Signal
    <3>1. /\ saving = NotSaving /\ server = "running" /\ ~torn
          /\ saving' = [NotSaving EXCEPT !.step = "trophies", !.players = DOMAIN dogs]
      BY <2>2 DEF Signal, TornBound, Fit, Phases
    <3>2. saving' = [step |-> "trophies", players |-> DOMAIN dogs, trophy |-> EmptyMap,
                     dogs |-> EmptyMap, torn |-> FALSE]
      BY <3>1 DEF NotSaving
    <3> QED BY <2>1, <3>1, <3>2, EmptyTrophyMap
            DEF Fit, Shaped, Phases, Unread, DogsShaped, SavedShaped
  <2>3. CASE CopyTrophies
    <3>1. /\ saving.step = "trophies"
          /\ saving' = [saving EXCEPT !.step = "dogs", !.trophy = trophy,
                                      !.torn = collected_trophy # {}]
      BY <2>3 DEF CopyTrophies
    <3>2. /\ DOMAIN saving' = DOMAIN saving /\ saving'.step = "dogs"
          /\ saving'.trophy = trophy /\ saving'.torn \in BOOLEAN
          /\ saving'.dogs = saving.dogs /\ saving'.players = saving.players
      BY <3>1 DEF Fit, Shaped
    <3> QED BY <2>1, <3>1, <3>2 DEF Fit, Shaped, Phases, Unread, DogsShaped
  <2> QED BY <1>3, <2>2, <2>3
<1>4. ASSUME WriteAndStop PROVE Fit'
  <2>1. /\ saving.step = "dogs" /\ saving' = NotSaving /\ server' = "stopping"
        /\ file'.dogs = saving.dogs /\ file'.trophy = saving.trophy
        /\ UNCHANGED <<dogs, trophy, trophy_added, collected_trophy, phase, torn>>
    BY <1>4 DEF WriteAndStop, sessionVars, tickVars, historyVars
  <2> QED BY <2>1, EmptyTrophyMap
          DEF Fit, Shaped, Phases, Unread, DogsShaped, SavedShaped, NotSaving
<1> QED BY <1>1, <1>2, <1>3, <1>4

LEMMA FitStep == Fit /\ [Next]_vars => Fit'
<1> SUFFICES ASSUME Fit, [Next]_vars PROVE Fit'
  OBVIOUS
<1>1. ASSUME UNCHANGED vars PROVE Fit'
  BY <1>1 DEF vars, sessionVars, tickVars, processVars, historyVars, Fit, Shaped,
              Phases, Unread, DogsShaped
<1> QED BY <1>1, GatherFit, DownFit, UploadFit, StrandFit, SaveFit DEF Next, Exit, Crash

LEMMA AlwaysFit == Spec => []Fit
<1>1. Init => Fit
  <2> SUFFICES ASSUME Init PROVE Fit
    OBVIOUS
  <2>1. /\ file.dogs = EmptyMap /\ file.trophy = EmptyMap
        /\ DOMAIN NotSaving = {"step", "players", "trophy", "dogs", "torn"}
        /\ NotSaving.step = "none" /\ NotSaving.players = {}
        /\ NotSaving.trophy = EmptyMap /\ NotSaving.dogs = EmptyMap
        /\ NotSaving.torn = FALSE
    BY DEF Init, NoFile, NotSaving
  <2> QED BY <2>1, EmptyTrophyMap
          DEF Init, Fit, Shaped, Phases, DogsShaped, SavedShaped, Unread
<1> QED BY <1>1, FitStep, PTL DEF Spec

(* No bag is ever above its capacity, in memory or in a checkpoint, whoever has
   written it and whenever: Restore never throws. *)
THEOREM BagsAlwaysRestorable == Spec => []BagsRestorable
<1>1. Fit => BagsRestorable
  BY DEF Fit, Shaped, DogsShaped, SavedShaped, Bags, BagsRestorable
<1> QED BY <1>1, AlwaysFit, PTL

(***************************************************************************)
(* Every trophy in one place.                                              *)
(***************************************************************************)

(* Bags that stay apart do so beside less. *)
LEMMA OnceBesideLess ==
    ASSUME NEW ds, NEW lying, OnceIn(ds, lying), NEW less, less \subseteq lying
    PROVE  OnceIn(ds, less)
  BY DEF OnceIn, Disjoint

(* The same bags, or some of them, under other names of the dogs' data. *)
LEMMA OnceSameBags ==
    ASSUME NEW ds, NEW lying, OnceIn(ds, lying), NEW new, DOMAIN new \subseteq DOMAIN ds,
           \A t \in DOMAIN new : new[t].bag = ds[t].bag
    PROVE  OnceIn(new, lying)
  BY DEF OnceIn

(* A bag that is apart from the others joins them. *)
LEMMA OnceOneMore ==
    ASSUME NEW ds, NEW lying, OnceIn(ds, lying), NEW t, NEW new,
           DOMAIN new \subseteq DOMAIN ds \cup {t},
           \A u \in DOMAIN new : u # t => new[u].bag = ds[u].bag,
           IsInjective(new[t].bag), Disjoint(Range(new[t].bag), lying),
           \A u \in DOMAIN ds : u # t => Disjoint(Range(ds[u].bag), Range(new[t].bag))
    PROVE  OnceIn(new, lying)
<1>1. \A u \in DOMAIN new : u = t \/ (u \in DOMAIN ds /\ new[u].bag = ds[u].bag)
  OBVIOUS
<1>2. \A u \in DOMAIN new : IsInjective(new[u].bag) /\ Disjoint(Range(new[u].bag), lying)
  BY <1>1 DEF OnceIn
<1>3. \A u, v \in DOMAIN new : u # v => Disjoint(Range(new[u].bag), Range(new[v].bag))
  <2> SUFFICES ASSUME NEW u \in DOMAIN new, NEW v \in DOMAIN new, u # v
               PROVE  Disjoint(Range(new[u].bag), Range(new[v].bag))
    OBVIOUS
  <2>1. CASE u # t /\ v # t
    BY <1>1, <2>1 DEF OnceIn
  <2>2. CASE u = t
    BY <1>1, <2>2 DEF Disjoint
  <2>3. CASE v = t
    BY <1>1, <2>3
  <2> QED BY <2>1, <2>2, <2>3
<1> QED BY <1>2, <1>3 DEF OnceIn

(* A dog takes what lies on the map. *)
LEMMA TakeOnce ==
    ASSUME Fit, Once, NEW t, NEW i, GatherItem(t, i), MayTake(t, i)
    PROVE  Once'
<1> DEFINE x == trophy[i]
<1>1. /\ t \in DOMAIN dogs /\ i \in DOMAIN trophy \ collected_trophy
      /\ dogs' = [dogs EXCEPT ![t].bag = Append(@, x)]
      /\ collected_trophy' = collected_trophy \cup {i}
      /\ saving' = [saving EXCEPT !.torn = @ \/ ReadTwice(t)]
      /\ UNCHANGED <<trophy, file, made, torn>>
  BY DEF GatherItem, MeetItem, MayTake, historyVars
<1>2. /\ x \in Trophies /\ x \in Lying /\ x \in made
      /\ dogs[t].bag \in Seq(Trophies)
  BY <1>1
  DEF Fit, Shaped, TrophyMap, DogsShaped, Bags, Lying, Once, MadeSoFar, Range
<1>3. /\ DOMAIN saving = {"step", "players", "trophy", "dogs", "torn"}
      /\ saving.torn \in BOOLEAN /\ ReadTwice(t) \in BOOLEAN
  BY DEF Fit, Shaped, ReadTwice
<1>4. /\ saving'.step = saving.step /\ saving'.players = saving.players
      /\ saving'.trophy = saving.trophy /\ saving'.dogs = saving.dogs
      /\ saving'.torn = (saving.torn \/ ReadTwice(t))
  BY <1>1, <1>3
<1>5. /\ DOMAIN dogs' = DOMAIN dogs
      /\ \A u \in DOMAIN dogs : u # t => dogs'[u] = dogs[u]
      /\ dogs'[t].bag = Append(dogs[t].bag, x)
  <2>1. DOMAIN dogs' = DOMAIN dogs /\ \A u \in DOMAIN dogs : u # t => dogs'[u] = dogs[u]
    BY <1>1
  <2>2. dogs'[t] = [dogs[t] EXCEPT !.bag = Append(dogs[t].bag, x)]
    BY <1>1
  <2>3. "bag" \in DOMAIN dogs[t]
    BY <1>1 DEF Fit, Shaped, DogsShaped
  <2> QED BY <2>1, <2>2, <2>3
<1>6. Range(dogs'[t].bag) = Range(dogs[t].bag) \cup {x}
  BY <1>2, <1>5, AppendToBag
<1>7. MadeSoFar'
  BY <1>1, <1>2, <1>4, <1>5, <1>6 DEF Once, MadeSoFar
<1>8. Lying' \subseteq Lying
  BY <1>1 DEF Lying
<1>9. ASSUME ~torn PROVE OnceInGame' /\ OnceInSave'
  <2>1. OnceInGame /\ OnceInSave
    BY <1>9 DEF Once
  <2>2. x \notin Lying'
    BY <1>1, <2>1 DEF Lying, OnceInGame, IsInjective
  <2>3. \A u \in DOMAIN dogs : x \notin Range(dogs[u].bag)
    BY <1>2, <2>1 DEF OnceInGame, OnceIn, Disjoint
  <2>4. IsInjective(dogs'[t].bag)
    <3>1. IsInjective(dogs[t].bag)
      BY <1>1, <2>1 DEF OnceInGame, OnceIn
    <3>2. x \notin Range(dogs[t].bag)
      BY <1>1, <2>3
    <3> HIDE DEF x
    <3>3. IsInjective(Append(dogs[t].bag, x))
      BY <1>2, <3>1, <3>2, AppendToBag
    <3> QED BY <1>5, <3>3
  <2>5. OnceIn(dogs, Lying')
    BY <1>8, <2>1, OnceBesideLess DEF OnceInGame
  <2>6. Disjoint(Range(dogs'[t].bag), Lying')
    BY <1>1, <1>6, <2>2, <2>5 DEF OnceIn, Disjoint
  <2>7. \A u \in DOMAIN dogs : u # t => Disjoint(Range(dogs[u].bag), Range(dogs'[t].bag))
    BY <1>1, <1>6, <2>3, <2>5, ZenonT(30) DEF OnceIn, Disjoint
  <2>8. OnceIn(dogs', Lying')
    BY <1>1, <1>5, <2>4, <2>5, <2>6, <2>7, OnceOneMore
  <2>9. OnceInGame'
    BY <1>1, <2>1, <2>8 DEF OnceInGame
  <2>10. \A u \in DOMAIN saving.dogs : x \notin Range(saving.dogs[u].bag)
    BY <1>2, <2>1 DEF OnceInSave, OnceIn, Disjoint
  <2>11. \A u \in DOMAIN saving.dogs, v \in DOMAIN dogs :
           v # u => Disjoint(Range(saving.dogs[u].bag), Range(dogs'[v].bag))
    BY <1>5, <1>6, <2>1, <2>10 DEF OnceInSave, Disjoint
  <2>12. OnceIn(saving.dogs, Lying')
    BY <1>8, <2>1, OnceBesideLess DEF OnceInSave
  <2>13. ASSUME saving.step = "dogs", ~saving'.torn
         PROVE  /\ IsInjective(saving.trophy)
                /\ OnceIn(saving.dogs, Range(saving.trophy))
                /\ \A u \in saving.players :
                      Unread(u) => Disjoint(Range(dogs'[u].bag), Range(saving.trophy))
    <3>1. ~saving.torn /\ ~Unread(t)
      BY <1>3, <1>4, <2>13 DEF ReadTwice
    <3>2. \A u \in saving.players : Unread(u) => u # t /\ u \in DOMAIN dogs
      BY <3>1 DEF Fit, Phases
    <3> QED BY <1>5, <2>1, <2>13, <3>1, <3>2 DEF OnceInSave
  <2>14. OnceInSave'
    BY <1>4, <1>5, <2>11, <2>12, <2>13 DEF OnceInSave, Unread
  <2> QED BY <2>9, <2>14
<1>10. ~file.torn => OnceInFile'
  BY <1>1 DEF Once, OnceInFile
<1> QED BY <1>1, <1>7, <1>9, <1>10 DEF Once
(* Bags stay or are emptied, dogs come with nothing or leave, and nothing new
   lies on the map. *)
LEMMA FewerOnce ==
    ASSUME Once, Fit', UNCHANGED <<file, made, torn>>,
           saving'.step = saving.step, saving'.players = saving.players,
           saving'.trophy = saving.trophy, saving'.dogs = saving.dogs,
           saving'.torn = saving.torn,
           \A u \in DOMAIN dogs' :
              dogs'[u].bag = << >> \/ (u \in DOMAIN dogs /\ dogs'[u].bag = dogs[u].bag),
           Lying' \subseteq Lying, Range(trophy') \subseteq Range(trophy),
           IsInjective(trophy) => IsInjective(trophy')
    PROVE  Once'
<1>1. \A u \in DOMAIN dogs' :
         \/ Range(dogs'[u].bag) = {} /\ IsInjective(dogs'[u].bag)
         \/ u \in DOMAIN dogs /\ dogs'[u].bag = dogs[u].bag
  BY NoTrophies
<1>2. MadeSoFar'
  BY <1>1 DEF Once, MadeSoFar
<1>3. ASSUME ~torn PROVE OnceInGame' /\ OnceInSave'
  <2>1. OnceInGame /\ OnceInSave
    BY <1>3 DEF Once
  <2>2. OnceIn(dogs', Lying')
    BY <1>1, <2>1 DEF OnceInGame, OnceIn, Disjoint
  <2>3. OnceIn(saving.dogs, Lying')
    BY <2>1, OnceBesideLess DEF OnceInSave
  <2>4. \A u \in saving.players : Unread(u) => u \in DOMAIN dogs'
    BY DEF Fit, Phases, Unread
  <2>5. \A u \in DOMAIN saving.dogs, v \in DOMAIN dogs' :
          v # u => Disjoint(Range(saving.dogs[u].bag), Range(dogs'[v].bag))
    BY <1>1, <2>1 DEF OnceInSave, Disjoint
  <2>6. ASSUME saving.step = "dogs", ~saving.torn
        PROVE  \A u \in saving.players :
                  Unread(u) => Disjoint(Range(dogs'[u].bag), Range(saving.trophy))
    BY <1>1, <2>1, <2>4, <2>6 DEF OnceInSave, Disjoint
  <2> QED BY <2>1, <2>2, <2>3, <2>5, <2>6 DEF OnceInGame, OnceInSave, Unread
<1>4. ~file.torn => OnceInFile'
  BY DEF Once, OnceInFile
<1> QED BY <1>2, <1>3, <1>4 DEF Once

(* New trophies are none that is or has been anywhere. *)
LEMMA LootOnce ==
    ASSUME Fit, Once, Fit', UpdateTrophyState
    PROVE  Once'
<1>1. UNCHANGED <<dogs, collected_trophy, saving, file, torn>>
  BY DEF UpdateTrophyState, processVars
<1>2. CASE UNCHANGED <<trophy, made>>
  <2>1. Lying' = Lying
    BY <1>1, <1>2 DEF Lying
  <2> QED BY <1>1, <1>2, <2>1, FewerOnce
<1>3. CASE ~UNCHANGED <<trophy, made>>
  <2>1. PICK n \in Shortage :
          \E new \in [1 .. n -> Trophies \ made] :
            /\ IsInjective(new)
            /\ trophy' = [i \in DOMAIN trophy \cup (NextId .. (NextId + n - 1)) |->
                            IF i \in NextId .. (NextId + n - 1)
                            THEN new[i - NextId + 1] ELSE trophy[i]]
            /\ made' = made \cup Range(new)
    BY <1>3 DEF UpdateTrophyState
  <2>2. PICK new \in [1 .. n -> Trophies \ made] :
            /\ IsInjective(new)
            /\ trophy' = [i \in DOMAIN trophy \cup (NextId .. (NextId + n - 1)) |->
                            IF i \in NextId .. (NextId + n - 1)
                            THEN new[i - NextId + 1] ELSE trophy[i]]
            /\ made' = made \cup Range(new)
    BY <2>1
  <2> DEFINE fresh == Range(new)
  <2>3. fresh \cap made = {} /\ made' = made \cup fresh
    BY <2>2 DEF Range
  <2>4. \A i \in DOMAIN trophy' :
          \/ i \in DOMAIN trophy /\ trophy'[i] = trophy[i]
          \/ i \in Int /\ i - NextId + 1 \in 1 .. n /\ trophy'[i] = new[i - NextId + 1]
    BY <2>2, LootShape DEF Fit
  <2>5. \A i \in DOMAIN trophy' :
          trophy'[i] \in fresh \/ (i \in DOMAIN trophy /\ trophy'[i] = trophy[i])
    BY <2>2, <2>4 DEF Range
  <2>6. Lying' \subseteq Lying \cup fresh /\ Range(trophy') \subseteq Range(trophy) \cup fresh
    BY <1>1, <2>5 DEF Lying, Range
  <2>7. ASSUME IsInjective(trophy) PROVE IsInjective(trophy')
    <3> SUFFICES ASSUME NEW i \in DOMAIN trophy', NEW j \in DOMAIN trophy',
                        trophy'[i] = trophy'[j]
                 PROVE  i = j
      BY DEF IsInjective
    <3>1. \A k \in DOMAIN trophy : trophy[k] \notin fresh
      BY <2>3 DEF Once, MadeSoFar, Range
    <3>2. CASE trophy'[i] \in fresh
      <4>1. /\ i \in Int /\ i - NextId + 1 \in 1 .. n /\ trophy'[i] = new[i - NextId + 1]
            /\ j \in Int /\ j - NextId + 1 \in 1 .. n /\ trophy'[j] = new[j - NextId + 1]
        BY <2>4, <3>1, <3>2
      <4>2. i - NextId + 1 = j - NextId + 1 /\ NextId \in Int
        BY <2>2, <4>1 DEF IsInjective, Fit, Shaped, NextId
      <4> QED BY <4>1, <4>2
    <3>3. CASE trophy'[i] \notin fresh
      BY <2>5, <2>7, <3>3 DEF IsInjective
    <3> QED BY <3>2, <3>3
  <2> HIDE DEF fresh
  <2>8. MadeSoFar'
    BY <1>1, <2>3, <2>6 DEF Once, MadeSoFar
  <2>9. ASSUME NEW ds, NEW lying, OnceIn(ds, lying), NEW more, more \subseteq lying \cup fresh,
               \A t \in DOMAIN ds : Range(ds[t].bag) \subseteq made
        PROVE  OnceIn(ds, more)
    BY <2>3, <2>9 DEF OnceIn, Disjoint
  <2>10. ASSUME ~torn PROVE OnceInGame' /\ OnceInSave'
    <3>1. OnceInGame /\ OnceInSave
      BY <2>10 DEF Once
    <3>2. OnceIn(dogs, Lying') /\ OnceIn(saving.dogs, Lying')
      BY <2>6, <2>9, <3>1 DEF OnceInGame, OnceInSave, Once, MadeSoFar
    <3> QED BY <1>1, <2>7, <3>1, <3>2 DEF OnceInGame, OnceInSave, Unread
  <2>11. ~file.torn => OnceInFile'
    BY <1>1 DEF Once, OnceInFile
  <2> QED BY <1>1, <2>8, <2>10, <2>11 DEF Once
<1> QED BY <1>2, <1>3

(* A dog is read, and may have left the session. *)
LEMMA ReadOnce ==
    ASSUME Fit, Once, Fit', NEW t \in DOMAIN dogs, Unread(t), saving' = ReadDog(t),
           DOMAIN dogs' \subseteq DOMAIN dogs,
           \A u \in DOMAIN dogs' : dogs'[u] = dogs[u],
           UNCHANGED <<trophy, collected_trophy, file, made, torn>>
    PROVE  Once'
<1>1. /\ saving'.step = saving.step /\ saving'.players = saving.players
      /\ saving'.trophy = saving.trophy /\ saving'.torn = saving.torn
      /\ DOMAIN saving'.dogs = DOMAIN saving.dogs \cup {t}
      /\ saving'.dogs[t].bag = dogs[t].bag
      /\ \A u \in DOMAIN saving.dogs : u # t => saving'.dogs[u] = saving.dogs[u]
  BY ReadEffect DEF Fit
<1>2. Lying' = Lying
  BY DEF Lying
<1>3. MadeSoFar'
  BY <1>1 DEF Once, MadeSoFar
<1>4. t \in saving.players /\ t \notin DOMAIN saving.dogs
  BY DEF Unread
<1>5. ASSUME ~torn PROVE OnceInGame' /\ OnceInSave'
  <2>1. OnceInGame /\ OnceInSave
    BY <1>5 DEF Once
  <2>2. OnceInGame'
    BY <1>2, <2>1, OnceSameBags DEF OnceInGame
  <2>3. ASSUME NEW lying, OnceIn(saving.dogs, lying), Disjoint(Range(dogs[t].bag), lying)
        PROVE  OnceIn(saving'.dogs, lying)
    <3>1. \A u \in DOMAIN saving.dogs :
            u # t => Disjoint(Range(saving.dogs[u].bag), Range(saving'.dogs[t].bag))
      BY <1>1, <2>1 DEF OnceInSave
    <3>2. IsInjective(saving'.dogs[t].bag) /\ Disjoint(Range(saving'.dogs[t].bag), lying)
      BY <1>1, <2>1, <2>3 DEF OnceInGame, OnceIn
    <3>3. \A u \in DOMAIN saving'.dogs : u # t => saving'.dogs[u].bag = saving.dogs[u].bag
      BY <1>1
    <3>4. DOMAIN saving'.dogs \subseteq DOMAIN saving.dogs \cup {t}
      BY <1>1
    <3> QED BY <2>3, <3>1, <3>2, <3>3, <3>4, OnceOneMore
  <2>4. OnceIn(saving'.dogs, Lying')
    BY <1>2, <2>1, <2>3 DEF OnceInSave, OnceInGame, OnceIn
  <2>5. \A u \in DOMAIN saving'.dogs, v \in DOMAIN dogs' :
          v # u => Disjoint(Range(saving'.dogs[u].bag), Range(dogs'[v].bag))
    <3> SUFFICES ASSUME NEW u \in DOMAIN saving'.dogs, NEW v \in DOMAIN dogs', v # u
                 PROVE  Disjoint(Range(saving'.dogs[u].bag), Range(dogs'[v].bag))
      OBVIOUS
    <3>1. CASE u = t
      BY <1>1, <2>1, <3>1 DEF OnceInGame, OnceIn
    <3>2. CASE u # t
      BY <1>1, <2>1, <3>2 DEF OnceInSave
    <3> QED BY <3>1, <3>2
  <2>6. ASSUME saving.step = "dogs", ~saving.torn
        PROVE  /\ OnceIn(saving'.dogs, Range(saving.trophy))
               /\ \A u \in saving.players :
                     Unread(u)' => Disjoint(Range(dogs'[u].bag), Range(saving.trophy))
    <3>1. OnceIn(saving'.dogs, Range(saving.trophy))
      BY <1>4, <2>1, <2>3, <2>6 DEF OnceInSave
    <3>2. \A u \in saving.players : Unread(u)' => Unread(u) /\ u \in DOMAIN dogs'
      BY <1>1 DEF Unread, Fit, Phases
    <3> QED BY <2>1, <2>6, <3>1, <3>2 DEF OnceInSave
  <2>7. OnceInSave'
    BY <1>1, <2>1, <2>4, <2>5, <2>6 DEF OnceInSave
  <2> QED BY <2>2, <2>7
<1>6. ~file.torn => OnceInFile'
  BY DEF Once, OnceInFile
<1> QED BY <1>3, <1>5, <1>6 DEF Once
(* The other steps of the strand. *)
LEMMA StrandOnce ==
    ASSUME Fit, Once, Fit',
           \/ (\E t \in Tokens : JoinGame(t)) \/ Tick \/ Gather \/ EndGather \/ EndTick
    PROVE  Once'
<1>1. ASSUME NEW t \in Tokens, JoinGame(t) PROVE Once'
  <2>1. /\ dogs' = Put(dogs, t, NewDog) /\ t \notin DOMAIN dogs
        /\ UNCHANGED <<trophy, collected_trophy, saving, file, made, torn>>
    BY <1>1 DEF JoinGame, tickVars, processVars, historyVars
  <2>2. \A u \in DOMAIN dogs' :
          dogs'[u].bag = << >> \/ (u \in DOMAIN dogs /\ dogs'[u].bag = dogs[u].bag)
    BY <2>1 DEF Put, NewDog
  <2> QED BY <2>1, <2>2, FewerOnce DEF Lying
<1>2. ASSUME Tick PROVE Once'
  <2>1. /\ dogs' = [t \in DOMAIN dogs |-> Older(dogs[t])]
        /\ UNCHANGED <<trophy, collected_trophy, saving, file, made, torn>>
    BY <1>2 DEF Tick, processVars, historyVars
  <2>2. \A u \in DOMAIN dogs' : u \in DOMAIN dogs /\ dogs'[u].bag = dogs[u].bag
    BY <2>1 DEF Older, Fit, Shaped, DogsShaped
  <2> QED BY <2>1, <2>2, FewerOnce DEF Lying
<1>3. ASSUME NEW t, NEW i, GatherItem(t, i) PROVE Once'
  <2>1. CASE MayTake(t, i)
    BY <1>3, <2>1, TakeOnce
  <2>2. CASE ~MayTake(t, i)
    <3>1. UNCHANGED <<dogs, trophy, collected_trophy, file, made, torn>>
      BY <1>3, <2>2 DEF GatherItem, MeetItem, historyVars
    <3>2. saving' = [saving EXCEPT !.torn = saving.torn \/ FALSE]
      BY <1>3, <2>2 DEF GatherItem
    <3>3. DOMAIN saving = {"step", "players", "trophy", "dogs", "torn"}
      BY DEF Fit, Shaped
    <3>4. saving.torn \in BOOLEAN /\ (saving.torn \/ FALSE) = saving.torn
      BY DEF Fit, Shaped
    <3>5. /\ saving'.step = saving.step /\ saving'.players = saving.players
          /\ saving'.trophy = saving.trophy /\ saving'.dogs = saving.dogs
      BY <3>2, <3>3
    <3>6. saving'.torn = saving.torn
      BY <3>2, <3>3, <3>4
    <3>7. Lying' = Lying
      BY <3>1 DEF Lying
    <3> QED BY <3>1, <3>5, <3>6, <3>7, FewerOnce
  <2> QED BY <2>1, <2>2
<1>4. ASSUME NEW t, NEW o, GatherOffice(t, o) PROVE Once'
  <2>1. /\ t \in DOMAIN dogs /\ ReturnTrophyToOffice(t)
        /\ UNCHANGED <<trophy, collected_trophy, saving, file, made, torn>>
    BY <1>4 DEF GatherOffice, processVars, historyVars
  <2>2. \A u \in DOMAIN dogs' :
          dogs'[u].bag = << >> \/ (u \in DOMAIN dogs /\ dogs'[u].bag = dogs[u].bag)
    BY <2>1, OfficeEmpties DEF Fit, Shaped
  <2> QED BY <2>1, <2>2, FewerOnce DEF Lying
<1>5. ASSUME EndGather PROVE Once'
  <2> DEFINE D == DOMAIN trophy \ collected_trophy
  <2>1. /\ collected_trophy' = {} /\ trophy' = Restrict(trophy, D)
        /\ UNCHANGED <<dogs, saving, file, made, torn>>
    BY <1>5 DEF EndGather, RemoveTrophies, processVars, historyVars
  <2>2. /\ DOMAIN trophy' = D /\ \A i \in D : trophy'[i] = trophy[i]
        /\ IsInjective(trophy) => IsInjective(trophy')
    BY <2>1, PartOfMap DEF Fit, Shaped, Restrict
  <2>3. Lying' \subseteq Lying /\ Range(trophy') \subseteq Range(trophy)
    BY <2>1, <2>2 DEF Lying, Range
  <2> QED BY <2>1, <2>2, <2>3, FewerOnce
<1>6. ASSUME EndTick PROVE Once'
  <2>1. /\ collected_trophy = {}
        /\ SaveGameState \/ UNCHANGED file
        /\ UNCHANGED <<dogs, trophy, collected_trophy, saving, made, torn>>
    BY <1>6 DEF EndTick, Working, sessionVars, processVars, historyVars, Fit, Phases
  <2>2. CASE UNCHANGED file
    BY <2>1, <2>2, FewerOnce DEF Lying
  <2>3. CASE SaveGameState
    <3>1. /\ file'.dogs = [t \in DOMAIN dogs |-> DogRepr(dogs[t])]
          /\ file'.trophy = trophy /\ file'.torn = torn
      BY <2>3 DEF SaveGameState, Checkpoint
    <3>2. DOMAIN file'.dogs = DOMAIN dogs /\ \A t \in DOMAIN dogs : file'.dogs[t].bag = dogs[t].bag
      BY <3>1 DEF DogRepr
    <3>3. Lying = Range(trophy) /\ Lying' = Lying
      <4>1. Lying' = Lying
        BY <2>1 DEF Lying
      <4>2. DOMAIN trophy \ collected_trophy = DOMAIN trophy
        BY <2>1
      <4>3. Lying = {trophy[i] : i \in DOMAIN trophy}
        BY <4>2 DEF Lying
      <4> QED BY <4>1, <4>3 DEF Range
    <3>4. ASSUME ~torn PROVE OnceInFile'
      <4>1. IsInjective(trophy) /\ OnceIn(dogs, Range(trophy))
        BY <3>3, <3>4 DEF Once, OnceInGame
      <4>2. OnceIn(file'.dogs, Range(trophy))
        BY <3>2, <4>1, OnceSameBags
      <4> QED BY <3>1, <4>1, <4>2 DEF OnceInFile
    <3>5. MadeSoFar'
      BY <2>1, <3>1, <3>2 DEF Once, MadeSoFar
    <3>6. ~torn => OnceInGame' /\ OnceInSave'
      BY <2>1, <3>3 DEF Once, OnceInGame, OnceInSave, Unread
    <3> QED BY <2>1, <3>1, <3>4, <3>5, <3>6 DEF Once
  <2> QED BY <2>1, <2>2, <2>3
<1> QED BY <1>1, <1>2, <1>3, <1>4, <1>5, <1>6 DEF Gather

(* The signal handler, and a dog that leaves while it saves. *)
LEMMA SaveOnce ==
    ASSUME Fit, Once, Fit',
           \/ (\E t \in Tokens : Retire(t) \/ CopyDog(t))
           \/ Signal \/ CopyTrophies \/ WriteAndStop
    PROVE  Once'
<1>1. ASSUME NEW t \in Tokens, Retire(t) PROVE Once'
  <2>1. /\ t \in DOMAIN dogs /\ dogs' = Restrict(dogs, DOMAIN dogs \ {t})
        /\ saving' = IF Unread(t) THEN ReadDog(t) ELSE saving
        /\ UNCHANGED <<trophy, collected_trophy, file, made, torn>>
    BY <1>1 DEF Retire, tickVars, historyVars
  <2>2. DOMAIN dogs' \subseteq DOMAIN dogs /\ \A u \in DOMAIN dogs' : dogs'[u] = dogs[u]
    BY <2>1 DEF Restrict
  <2>3. CASE Unread(t)
    BY <2>1, <2>2, <2>3, ReadOnce
  <2>4. CASE ~Unread(t)
    BY <2>1, <2>2, <2>4, FewerOnce DEF Lying
  <2> QED BY <2>3, <2>4
<1>2. ASSUME NEW t \in Tokens, CopyDog(t) PROVE Once'
  <2>1. /\ Unread(t) /\ saving' = ReadDog(t)
        /\ UNCHANGED <<dogs, trophy, collected_trophy, file, made, torn>>
    BY <1>2 DEF CopyDog, sessionVars, tickVars, historyVars
  <2>2. t \in DOMAIN dogs
    BY <2>1 DEF Fit, Phases, Unread
  <2> QED BY <2>1, <2>2, ReadOnce
<1>3. ASSUME Signal \/ CopyTrophies PROVE Once'
  <2>1. UNCHANGED <<dogs, trophy, collected_trophy, file, made, torn>>
    BY <1>3 DEF Signal, CopyTrophies, sessionVars, tickVars, historyVars
  <2>2. Lying' = Lying /\ (collected_trophy = {} => Lying = Range(trophy))
    BY <2>1 DEF Lying, Range
  <2>3. CASE Signal
    <3>1. /\ saving = NotSaving
          /\ saving' = [NotSaving EXCEPT !.step = "trophies", !.players = DOMAIN dogs]
      BY <2>3 DEF Signal, Fit, Phases
    <3>2. /\ saving'.step = "trophies" /\ saving'.trophy = EmptyMap
          /\ saving'.dogs = EmptyMap
      BY <3>1 DEF NotSaving
    <3>3. MadeSoFar'
      BY <2>1, <3>2, EmptyTrophyMap DEF Once, MadeSoFar
    <3>4. ~torn => OnceInGame' /\ OnceInSave'
      BY <2>1, <2>2, <3>2, EmptyTrophyMap DEF Once, OnceInGame, OnceInSave, OnceIn
    <3> QED BY <2>1, <3>3, <3>4 DEF Once, OnceInFile
  <2>4. CASE CopyTrophies
    <3>1. /\ saving'.step = "dogs" /\ saving'.trophy = trophy
          /\ saving'.torn = (collected_trophy # {})
          /\ saving'.dogs = saving.dogs /\ saving'.players = saving.players
      BY <2>4 DEF CopyTrophies, Fit, Shaped
    <3>2. MadeSoFar'
      BY <2>1, <3>1 DEF Once, MadeSoFar
    <3>3. ASSUME ~torn PROVE OnceInGame' /\ OnceInSave'
      <4>1. OnceInGame /\ OnceInSave
        BY <3>3 DEF Once
      <4>2. ASSUME collected_trophy = {}
            PROVE  /\ IsInjective(trophy) /\ OnceIn(saving.dogs, Range(trophy))
                   /\ \A t \in saving.players :
                         Unread(t) => Disjoint(Range(dogs[t].bag), Range(trophy))
        BY <2>2, <4>1, <4>2 DEF OnceInGame, OnceInSave, OnceIn, Fit, Phases
      <4> QED BY <2>1, <2>2, <3>1, <4>1, <4>2 DEF OnceInGame, OnceInSave, Unread
    <3> QED BY <2>1, <3>2, <3>3 DEF Once, OnceInFile
  <2> QED BY <1>3, <2>3, <2>4
<1>4. ASSUME WriteAndStop PROVE Once'
  <2>1. /\ saving.step = "dogs" /\ saving' = NotSaving
        /\ file'.dogs = saving.dogs /\ file'.trophy = saving.trophy
        /\ file'.torn = saving.torn
        /\ UNCHANGED <<dogs, trophy, collected_trophy, made, torn>>
    BY <1>4 DEF WriteAndStop, sessionVars, tickVars, historyVars
  <2>2. ~torn
    BY <2>1 DEF Fit, Phases
  <2>3. Lying' = Lying
    BY <2>1 DEF Lying
  <2>4. /\ saving'.step = "none" /\ saving'.trophy = EmptyMap
        /\ saving'.dogs = EmptyMap
    BY <2>1 DEF NotSaving
  <2>5. MadeSoFar'
    BY <2>1, <2>4, EmptyTrophyMap DEF Once, MadeSoFar
  <2>6. OnceInGame' /\ OnceInSave'
    BY <2>1, <2>2, <2>3, <2>4, EmptyTrophyMap DEF Once, OnceInGame, OnceInSave, OnceIn
  <2>7. ~saving.torn => OnceInFile'
    BY <2>1, <2>2 DEF Once, OnceInSave, OnceInFile
  <2> QED BY <2>1, <2>5, <2>6, <2>7 DEF Once
<1> QED BY <1>1, <1>2, <1>3, <1>4

(* The end of a process, and the next one. *)
LEMMA RestartOnce ==
    ASSUME Fit, Once, Fit', Down \/ UploadGameState
    PROVE  Once'
<1>1. CASE Down
  <2>1. /\ dogs' = EmptyMap /\ trophy' = EmptyMap /\ saving' = NotSaving
        /\ UNCHANGED <<file, made, torn>>
    BY <1>1 DEF Down, historyVars
  <2>2. /\ saving'.step = "none" /\ saving'.trophy = EmptyMap /\ saving'.dogs = EmptyMap
    BY <2>1 DEF NotSaving
  <2>3. MadeSoFar'
    BY <2>1, <2>2, EmptyTrophyMap DEF Once, MadeSoFar
  <2>4. OnceInGame' /\ OnceInSave'
    BY <2>1, <2>2, EmptyTrophyMap DEF OnceInGame, OnceInSave, OnceIn
  <2> QED BY <2>1, <2>3, <2>4 DEF Once, OnceInFile
<1>2. CASE UploadGameState
  <2>1. /\ server = "down" /\ torn' = file.torn
        /\ dogs' = [t \in DOMAIN file.dogs |-> RestoreDog(file.dogs[t])]
        /\ trophy' = IF DOMAIN file.dogs = {} THEN EmptyMap ELSE file.trophy
        /\ UNCHANGED <<collected_trophy, phase, saving, file, made>>
    BY <1>2 DEF UploadGameState, AddTrophies, tickVars
  <2>2. saving = NotSaving /\ collected_trophy = {}
    BY <2>1 DEF Fit, Phases
  <2>3. /\ saving'.step = "none" /\ saving'.trophy = EmptyMap /\ saving'.dogs = EmptyMap
    BY <2>1, <2>2 DEF NotSaving
  <2>4. /\ DOMAIN dogs' = DOMAIN file.dogs
        /\ \A t \in DOMAIN dogs' : dogs'[t].bag = file.dogs[t].bag
    BY <2>1 DEF RestoreDog
  <2>5. Range(trophy') \subseteq Range(file.trophy) /\ Lying' = Range(trophy')
    BY <2>1, <2>2, EmptyTrophyMap DEF Lying, Range
  <2>6. MadeSoFar'
    BY <2>1, <2>3, <2>4, <2>5, EmptyTrophyMap DEF Once, MadeSoFar
  <2>7. ASSUME ~file.torn PROVE OnceInGame' /\ OnceInSave'
    <3>1. IsInjective(file.trophy) /\ OnceIn(file.dogs, Range(file.trophy))
      BY <2>7 DEF Once, OnceInFile
    <3>2. IsInjective(trophy')
      BY <2>1, <3>1, EmptyTrophyMap
    <3>3. OnceIn(file.dogs, Range(trophy'))
      BY <2>5, <3>1, OnceBesideLess
    <3>4. OnceIn(dogs', Lying')
      BY <2>4, <2>5, <3>3, OnceSameBags
    <3> QED BY <2>3, <3>2, <3>4, EmptyTrophyMap DEF OnceInGame, OnceInSave, OnceIn
  <2> QED BY <2>1, <2>6, <2>7 DEF Once, OnceInFile
<1> QED BY <1>1, <1>2

LEMMA OnceStep == Fit /\ Once /\ Fit' /\ [Next]_vars => Once'
<1> SUFFICES ASSUME Fit, Once, Fit', [Next]_vars PROVE Once'
  OBVIOUS
<1>1. ASSUME UNCHANGED vars PROVE Once'
  <2>1. UNCHANGED <<dogs, trophy, collected_trophy, saving, file, made, torn>>
    BY <1>1 DEF vars, sessionVars, tickVars, processVars, historyVars
  <2> QED BY <2>1, FewerOnce DEF Lying
<1> QED BY <1>1, LootOnce, StrandOnce, SaveOnce, RestartOnce DEF Next, Exit, Crash

LEMMA AlwaysOnce == Spec => []Once
<1>1. Init => Once
  <2> SUFFICES ASSUME Init PROVE Once
    OBVIOUS
  <2>1. /\ dogs = EmptyMap /\ trophy = EmptyMap /\ saving.step = "none"
        /\ file.dogs = EmptyMap /\ file.trophy = EmptyMap
        /\ saving.trophy = EmptyMap /\ saving.dogs = EmptyMap
    BY DEF Init, NoFile, NotSaving
  <2>2. MadeSoFar
    BY <2>1, EmptyTrophyMap DEF MadeSoFar
  <2>3. OnceInGame /\ OnceInFile /\ OnceInSave
    BY <2>1, EmptyTrophyMap DEF OnceInGame, OnceInFile, OnceInSave, OnceIn
  <2> QED BY <2>2, <2>3 DEF Once
<1> QED BY <1>1, OnceStep, AlwaysFit, PTL DEF Spec

(* Every trophy is in one place, the map or one place in one bag, through any
   number of ticks, crashes, signals and restarts, unless a signal handler that
   saved beside a tick has read it twice. *)
THEOREM TrophiesAlwaysOnce == Spec => []TrophiesOnce
<1>1. Once => TrophiesOnce
  <2> SUFFICES ASSUME OnceInGame PROVE NoTrophyTwice
    BY DEF Once, TrophiesOnce
  <2>1. \A x : OnMap(x) <=> x \in Lying
    BY DEF OnMap, Lying
  <2>2. \A x, t : InBag(x, t) <=> x \in Range(dogs[t].bag)
    BY DEF InBag, Range
  <2> QED BY <2>1, <2>2 DEF NoTrophyTwice, OnceInGame, OnceIn, Disjoint
<1> QED BY <1>1, AlwaysOnce, PTL

(***************************************************************************)
(* Types, beside the shapes of Fit.                                        *)
(***************************************************************************)

DogsTyped == DOMAIN dogs \subseteq Tokens /\ dogs \in [DOMAIN dogs -> Dog]

TickTyped ==
    /\ DOMAIN trophy \subseteq Nat
    /\ events \subseteq Tokens \X (Nat \cup Offices)
    /\ phase \in {"idle", "gather", "loot", "retire"}
    /\ server \in {"running", "stopping", "down"}
    /\ made \subseteq Trophies

SavingTyped ==
    /\ DOMAIN saving.dogs \subseteq saving.players /\ saving.players \subseteq Tokens
    /\ saving.dogs \in [DOMAIN saving.dogs -> SavedDog]
    /\ DOMAIN saving.trophy \subseteq Nat

RecordsTyped ==
    /\ DOMAIN records \subseteq Tokens
    /\ records \in [DOMAIN records -> [score : Nat, played : Nat, age : Nat]]

FileTyped ==
    /\ file = [dogs |-> file.dogs, trophy |-> file.trophy, torn |-> file.torn]
    /\ torn \in BOOLEAN /\ file.torn \in BOOLEAN
    /\ DOMAIN file.dogs \subseteq Tokens
    /\ file.dogs \in [DOMAIN file.dogs -> SavedDog]
    /\ DOMAIN file.trophy \subseteq Nat

Typed == DogsTyped /\ TickTyped /\ SavingTyped /\ RecordsTyped /\ FileTyped

LEMMA TypeOfParts == Fit /\ Typed => TypeOK
<1> SUFFICES ASSUME Fit, Typed PROVE TypeOK
  OBVIOUS
<1>1. /\ trophy \in [DOMAIN trophy -> Trophies] /\ trophy_added \in Nat
      /\ collected_trophy \subseteq DOMAIN trophy
      /\ file.trophy \in [DOMAIN file.trophy -> Trophies]
      /\ saving.trophy \in [DOMAIN saving.trophy -> Trophies]
  BY DEF Fit, Shaped, TrophyMap
<1>2. saving.torn \in BOOLEAN
  BY DEF Fit, Shaped
<1>3. saving.step \in {"none", "trophies", "dogs"}
  BY DEF Fit, Phases
<1> QED BY <1>1, <1>2, <1>3, Zenon
        DEF TypeOK, Typed, DogsTyped, TickTyped, SavingTyped, RecordsTyped, FileTyped

(* Dogs and what is saved of them. *)
LEMMA DogTypes ==
    /\ NewDog \in Dog
    /\ \A d \in Dog : Older(d) \in Dog /\ DogRepr(d) \in SavedDog
    /\ \A r \in SavedDog : RestoreDog(r) \in Dog /\ DogRepr(RestoreDog(r)) = r
<1>1. NewDog \in Dog
  BY DEF NewDog, Dog
<1>2. \A n \in Nat : AtMost(n + 1, MaxTime) \in Nat
  BY SessionAssumption DEF AtMost
<1>3. ASSUME NEW d \in Dog PROVE Older(d) \in Dog
  <2>1. d.played \in Nat /\ d.age \in Nat
    BY DEF Dog
  <2> DEFINE played == AtMost(d.played + 1, MaxTime)
             age == AtMost(d.age + 1, MaxTime)
  <2>2. played \in Nat /\ age \in Nat
    BY <1>2, <2>1
  <2>3. Older(d) = [d EXCEPT !.played = played, !.age = age]
    BY DEF Older
  <2> HIDE DEF played, age
  <2> QED BY <2>2, <2>3 DEF Dog
<1>4. \A d \in Dog : DogRepr(d) \in SavedDog
  BY DEF Dog, SavedDog, DogRepr
<1>5. \A r \in SavedDog : RestoreDog(r) \in Dog /\ DogRepr(RestoreDog(r)) = r
  BY DEF Dog, SavedDog, DogRepr, RestoreDog
<1> QED BY <1>1, <1>3, <1>4, <1>5

LEMMA DogsTypedStep == Fit /\ Typed /\ [Next]_vars => DogsTyped'
<1> SUFFICES ASSUME Fit, Typed, [Next]_vars PROVE DogsTyped'
  OBVIOUS
<1>1. ASSUME NEW t \in Tokens, JoinGame(t) PROVE DogsTyped'
  <2>1. dogs' = Put(dogs, t, NewDog)
    BY <1>1 DEF JoinGame
  <2> QED BY <2>1, DogTypes DEF Put, Typed, DogsTyped
<1>2. ASSUME NEW t \in Tokens, Retire(t) PROVE DogsTyped'
  <2>1. dogs' = Restrict(dogs, DOMAIN dogs \ {t})
    BY <1>2 DEF Retire
  <2> QED BY <2>1 DEF Restrict, Typed, DogsTyped
<1>3. ASSUME Tick PROVE DogsTyped'
  <2>1. dogs' = [t \in DOMAIN dogs |-> Older(dogs[t])]
    BY <1>3 DEF Tick
  <2> QED BY <2>1, DogTypes DEF Typed, DogsTyped
<1>4. ASSUME NEW t \in Tokens, NEW i \in DOMAIN trophy, GatherItem(t, i) PROVE DogsTyped'
  <2>1. t \in DOMAIN dogs /\ MeetItem(t, i)
    BY <1>4 DEF GatherItem
  <2>2. CASE MayTake(t, i)
    <3>1. dogs' = [dogs EXCEPT ![t].bag = Append(dogs[t].bag, trophy[i])]
      BY <2>1, <2>2 DEF MeetItem
    <3>2. dogs[t] \in Dog /\ trophy[i] \in Trophies
      BY <2>1 DEF Fit, Shaped, TrophyMap, Typed, DogsTyped
    <3>3. dogs[t].bag \in Seq(Trophies)
      BY <3>2 DEF Dog
    <3> DEFINE bag == Append(dogs[t].bag, trophy[i])
    <3>4. bag \in Seq(Trophies)
      BY <3>2, <3>3, AppendToBag
    <3> HIDE DEF bag
    <3>5. [dogs[t] EXCEPT !.bag = bag] \in Dog
      BY <3>2, <3>4 DEF Dog
    <3>6. dogs' = [dogs EXCEPT ![t] = [dogs[t] EXCEPT !.bag = bag]]
      BY <3>1 DEF bag
    <3> QED BY <3>5, <3>6 DEF Typed, DogsTyped
  <2>3. CASE ~MayTake(t, i)
    BY <2>1, <2>3 DEF MeetItem, Typed, DogsTyped
  <2> QED BY <2>2, <2>3
<1>5. ASSUME NEW t \in Tokens, NEW o \in Offices, GatherOffice(t, o) PROVE DogsTyped'
  <2>1. t \in DOMAIN dogs /\ ReturnTrophyToOffice(t)
    BY <1>5 DEF GatherOffice
  <2>2. dogs[t] \in Dog
    BY <2>1 DEF Typed, DogsTyped
  <2>3. dogs[t].bag \in Seq(Trophies) /\ dogs[t].score \in Nat
    BY <2>2 DEF Dog
  <2> DEFINE score == dogs[t].score + BagScore(dogs[t].bag)
  <2>4. score \in Nat
    BY <2>3, BagScoreType
  <2> DEFINE bag == << >>
  <2>5. dogs' = [dogs EXCEPT ![t] = [dogs[t] EXCEPT !.score = score, !.bag = bag]]
    BY <2>1 DEF ReturnTrophyToOffice
  <2>6. bag \in Seq(Trophies)
    OBVIOUS
  <2> HIDE DEF score, bag
  <2>7. [dogs[t] EXCEPT !.score = score, !.bag = bag] \in Dog
    BY <2>2, <2>4, <2>6 DEF Dog
  <2> QED BY <2>5, <2>7 DEF Typed, DogsTyped
<1>6. ASSUME UploadGameState PROVE DogsTyped'
  <2>1. dogs' = [t \in DOMAIN file.dogs |-> RestoreDog(file.dogs[t])]
    BY <1>6 DEF UploadGameState
  <2> QED BY <2>1, DogTypes DEF Typed, FileTyped, DogsTyped
<1>7. ASSUME Down PROVE DogsTyped'
  BY <1>7 DEF Down, DogsTyped, EmptyMap
<1>8. ASSUME dogs' = dogs PROVE DogsTyped'
  BY <1>8 DEF Typed, DogsTyped
<1>9. ASSUME \/ \E t \in Tokens : CopyDog(t)
             \/ EndGather \/ UpdateTrophyState \/ EndTick \/ Signal \/ CopyTrophies
             \/ WriteAndStop \/ UNCHANGED vars
      PROVE  dogs' = dogs
  BY <1>9 DEF CopyDog, EndGather, UpdateTrophyState, EndTick, Signal, CopyTrophies,
              WriteAndStop, vars, sessionVars
<1> QED BY <1>1, <1>2, <1>3, <1>4, <1>5, <1>6, <1>7, <1>8, <1>9 DEF Next, Gather, Exit, Crash

LEMMA TickTypedStep == Fit /\ Typed /\ [Next]_vars => TickTyped'
<1> SUFFICES ASSUME Fit, Typed, [Next]_vars PROVE TickTyped'
  OBVIOUS
<1>1. /\ DOMAIN trophy \subseteq Nat /\ events \subseteq Tokens \X (Nat \cup Offices)
      /\ phase \in {"idle", "gather", "loot", "retire"}
      /\ server \in {"running", "stopping", "down"} /\ made \subseteq Trophies
  BY DEF Typed, TickTyped
<1>2. ASSUME NEW t \in Tokens, NEW i \in DOMAIN trophy, GatherItem(t, i) PROVE TickTyped'
  <2>1. /\ events' = events \cup {<<t, i>>}
        /\ UNCHANGED <<trophy, phase, server, made>>
    BY <1>2 DEF GatherItem, historyVars
  <2> QED BY <1>1, <2>1 DEF TickTyped
<1>3. ASSUME NEW t \in Tokens, NEW o \in Offices, GatherOffice(t, o) PROVE TickTyped'
  <2>1. /\ events' = events \cup {<<t, o>>}
        /\ UNCHANGED <<trophy, phase, server, made>>
    BY <1>3 DEF GatherOffice, processVars, historyVars
  <2> QED BY <1>1, <2>1 DEF TickTyped
<1>4. ASSUME EndGather PROVE TickTyped'
  <2>1. /\ trophy' = Restrict(trophy, DOMAIN trophy \ collected_trophy) /\ phase' = "loot"
        /\ UNCHANGED <<events, server, made>>
    BY <1>4 DEF EndGather, RemoveTrophies, processVars, historyVars
  <2> QED BY <1>1, <2>1 DEF TickTyped, Restrict
<1>5. ASSUME UpdateTrophyState PROVE TickTyped'
  <2>1. phase' = "retire" /\ UNCHANGED <<events, server>>
    BY <1>5 DEF UpdateTrophyState, processVars
  <2>2. DOMAIN trophy' \subseteq Nat /\ made' \subseteq Trophies
    <3>1. CASE UNCHANGED <<trophy, made>>
      BY <1>1, <3>1
    <3>2. CASE ~UNCHANGED <<trophy, made>>
      <4>1. PICK n \in Shortage :
              \E new \in [1 .. n -> Trophies \ made] :
                /\ trophy' = [i \in DOMAIN trophy \cup (NextId .. (NextId + n - 1)) |->
                                IF i \in NextId .. (NextId + n - 1)
                                THEN new[i - NextId + 1] ELSE trophy[i]]
                /\ made' = made \cup Range(new)
        BY <1>5, <3>2 DEF UpdateTrophyState
      <4>2. PICK new \in [1 .. n -> Trophies \ made] :
                /\ trophy' = [i \in DOMAIN trophy \cup (NextId .. (NextId + n - 1)) |->
                                IF i \in NextId .. (NextId + n - 1)
                                THEN new[i - NextId + 1] ELSE trophy[i]]
                /\ made' = made \cup Range(new)
        BY <4>1
      <4>3. Range(new) \subseteq Trophies
        BY DEF Range
      <4>4. NextId \in Nat /\ n \in Int
        BY DEF Fit, Shaped, NextId, Shortage
      <4>5. NextId .. (NextId + n - 1) \subseteq Nat
        BY <4>4
      <4>6. DOMAIN trophy' = DOMAIN trophy \cup (NextId .. (NextId + n - 1))
        BY <4>2
      <4> QED BY <1>1, <4>2, <4>3, <4>5, <4>6
    <3> QED BY <3>1, <3>2
  <2> QED BY <1>1, <2>1, <2>2 DEF TickTyped
<1>6. ASSUME UploadGameState PROVE TickTyped'
  <2>1. /\ trophy' = IF DOMAIN file.dogs = {} THEN EmptyMap ELSE file.trophy
        /\ server' = "running" /\ UNCHANGED <<events, phase, made>>
    BY <1>6 DEF UploadGameState, AddTrophies, tickVars
  <2>2. DOMAIN trophy' \subseteq Nat
    BY <2>1, EmptyTrophyMap DEF Typed, FileTyped
  <2> QED BY <1>1, <2>1, <2>2 DEF TickTyped
<1>7. ASSUME Down PROVE TickTyped'
  BY <1>1, <1>7, EmptyTrophyMap DEF Down, TickTyped, historyVars
<1>8. ASSUME Tick PROVE TickTyped'
  BY <1>1, <1>8 DEF Tick, TickTyped, processVars, historyVars
<1>9. ASSUME EndTick PROVE TickTyped'
  BY <1>1, <1>9 DEF EndTick, TickTyped, sessionVars, processVars, historyVars
<1>10. ASSUME NEW t \in Tokens, JoinGame(t) \/ Retire(t) \/ CopyDog(t) PROVE TickTyped'
  BY <1>1, <1>10 DEF JoinGame, Retire, CopyDog, TickTyped, sessionVars, tickVars, processVars,
                     historyVars
<1>11. ASSUME Signal \/ CopyTrophies \/ WriteAndStop \/ UNCHANGED vars PROVE TickTyped'
  BY <1>1, <1>11 DEF Signal, CopyTrophies, WriteAndStop, TickTyped, vars, sessionVars,
                     tickVars, processVars, historyVars
<1> QED BY <1>2, <1>3, <1>4, <1>5, <1>6, <1>7, <1>8, <1>9, <1>10, <1>11
        DEF Next, Gather, Exit, Crash

LEMMA SavingTypedStep == Fit /\ Typed /\ [Next]_vars => SavingTyped'
<1> SUFFICES ASSUME Fit, Typed, [Next]_vars PROVE SavingTyped'
  OBVIOUS
<1> DEFINE Fine(s) ==
               /\ DOMAIN s.dogs \subseteq s.players /\ s.players \subseteq Tokens
               /\ s.dogs \in [DOMAIN s.dogs -> SavedDog]
               /\ DOMAIN s.trophy \subseteq Nat
<1>1. Fine(saving)
  BY DEF Typed, SavingTyped
<1>2. Fine(NotSaving)
  BY DEF NotSaving, EmptyMap
<1>3. ASSUME NEW t \in Tokens, Unread(t) PROVE Fine(ReadDog(t))
  <2>1. t \in DOMAIN dogs /\ t \in saving.players
    BY <1>3 DEF Fit, Phases, Unread
  <2>2. ReadDog(t) = [saving EXCEPT !.dogs = Put(saving.dogs, t, DogRepr(dogs[t]))]
    BY DEF ReadDog
  <2> DEFINE s == ReadDog(t)
  <2>3. /\ s.players = saving.players /\ s.trophy = saving.trophy
        /\ s.dogs = Put(saving.dogs, t, DogRepr(dogs[t]))
    BY <2>2 DEF Fit, Shaped
  <2>4. DogRepr(dogs[t]) \in SavedDog
    BY <2>1, DogTypes DEF Typed, DogsTyped
  <2> HIDE DEF s
  <2>5. DOMAIN s.dogs = DOMAIN saving.dogs \cup {t}
    BY <2>3 DEF Put
  <2>6. s.dogs \in [DOMAIN saving.dogs \cup {t} -> SavedDog]
    BY <1>1, <2>3, <2>4 DEF Put
  <2>7. Fine(s)
    BY <1>1, <2>1, <2>3, <2>5, <2>6
  <2> QED BY <2>7 DEF s
<1>4. ASSUME NEW s, s.dogs = saving.dogs, s.players = saving.players, s.trophy = saving.trophy
      PROVE  Fine(s)
  BY <1>1, <1>4
<1>5. ASSUME NEW t \in Tokens, Retire(t) \/ CopyDog(t) PROVE Fine(saving')
  BY <1>1, <1>3, <1>5, Zenon DEF Retire, CopyDog
<1>6. ASSUME NEW t, NEW i, GatherItem(t, i) PROVE Fine(saving')
  <2>1. PICK b : saving' = [saving EXCEPT !.torn = b]
    BY <1>6 DEF GatherItem
  <2>2. saving'.dogs = saving.dogs /\ saving'.players = saving.players /\ saving'.trophy = saving.trophy
    BY <2>1 DEF Fit, Shaped
  <2> QED BY <1>4, <2>2
<1>7. ASSUME Signal PROVE Fine(saving')
  <2>1. saving' = [saving EXCEPT !.step = "trophies", !.players = DOMAIN dogs] /\ saving = NotSaving
    BY <1>7 DEF Signal, Fit, Phases
  <2>2. saving'.dogs = EmptyMap /\ saving'.players = DOMAIN dogs /\ saving'.trophy = EmptyMap
    BY <2>1 DEF NotSaving
  <2>3. DOMAIN dogs \subseteq Tokens
    BY DEF Typed, DogsTyped
  <2> QED BY <2>2, <2>3 DEF EmptyMap
<1>8. ASSUME CopyTrophies PROVE Fine(saving')
  <2>1. saving' = [saving EXCEPT !.step = "dogs", !.trophy = trophy, !.torn = collected_trophy # {}]
    BY <1>8 DEF CopyTrophies
  <2>2. saving'.dogs = saving.dogs /\ saving'.players = saving.players /\ saving'.trophy = trophy
    BY <2>1 DEF Fit, Shaped
  <2>3. DOMAIN trophy \subseteq Nat
    BY DEF Typed, TickTyped
  <2> QED BY <1>1, <2>2, <2>3
<1>9. ASSUME WriteAndStop \/ Down PROVE Fine(saving')
  BY <1>2, <1>9 DEF WriteAndStop, Down
<1>10. ASSUME \/ \E t \in Tokens : JoinGame(t)
              \/ \E t \in Tokens, o \in Offices : GatherOffice(t, o)
              \/ Tick \/ EndGather \/ UpdateTrophyState \/ EndTick \/ UploadGameState
              \/ UNCHANGED vars
       PROVE  Fine(saving')
  <2>1. saving' = saving
    BY <1>10 DEF JoinGame, GatherOffice, Tick, EndGather, UpdateTrophyState, EndTick,
                 UploadGameState, vars, processVars
  <2> QED BY <1>1, <2>1
<1>11. Fine(saving') => SavingTyped'
  BY DEF SavingTyped
<1> HIDE DEF Fine
<1> QED BY <1>5, <1>6, <1>7, <1>8, <1>9, <1>10, <1>11 DEF Next, Gather, Exit, Crash

LEMMA RecordsTypedStep == Fit /\ Typed /\ [Next]_vars => RecordsTyped'
<1> SUFFICES ASSUME Fit, Typed, [Next]_vars PROVE RecordsTyped'
  OBVIOUS
<1>1. ASSUME NEW t \in Tokens, Retire(t) PROVE RecordsTyped'
  <2> DEFINE record == [score |-> dogs[t].score, played |-> dogs[t].played, age |-> dogs[t].age]
  <2>1. records' = Put(records, t, record) /\ t \in DOMAIN dogs
    BY <1>1 DEF Retire
  <2>2. dogs[t] \in Dog
    BY <2>1 DEF Typed, DogsTyped
  <2>3. record \in [score : Nat, played : Nat, age : Nat]
    BY <2>2 DEF Dog
  <2> HIDE DEF record
  <2> QED BY <2>1, <2>3 DEF Put, Typed, RecordsTyped
<1>2. ASSUME \/ \E t \in Tokens : JoinGame(t) \/ CopyDog(t)
             \/ \E t, x : GatherItem(t, x) \/ GatherOffice(t, x)
             \/ Tick \/ EndGather \/ UpdateTrophyState \/ EndTick
             \/ Signal \/ CopyTrophies \/ WriteAndStop
             \/ Down \/ UploadGameState \/ UNCHANGED vars
      PROVE  RecordsTyped'
  <2>1. records' = records
    BY <1>2 DEF JoinGame, CopyDog, GatherItem, GatherOffice, Tick, EndGather,
                UpdateTrophyState, EndTick, Signal, CopyTrophies, WriteAndStop, Down,
                UploadGameState, vars
  <2> QED BY <2>1 DEF Typed, RecordsTyped
<1> QED BY <1>1, <1>2 DEF Next, Gather, Exit, Crash

LEMMA FileTypedStep == Fit /\ Typed /\ [Next]_vars => FileTyped'
<1> SUFFICES ASSUME Fit, Typed, [Next]_vars PROVE FileTyped'
  OBVIOUS
<1>1. ASSUME NEW f, NEW ds, NEW tr, NEW b, f = [dogs |-> ds, trophy |-> tr, torn |-> b],
             file' = f, torn' = torn, b \in BOOLEAN, DOMAIN tr \subseteq Nat,
             DOMAIN ds \subseteq Tokens, ds \in [DOMAIN ds -> SavedDog]
      PROVE  FileTyped'
  <2>1. file'.dogs = ds /\ file'.trophy = tr /\ file'.torn = b
    BY <1>1
  <2>2. file' = [dogs |-> file'.dogs, trophy |-> file'.trophy, torn |-> file'.torn]
    BY <1>1, <2>1
  <2>3. torn \in BOOLEAN
    BY DEF Typed, FileTyped
  <2> QED BY <1>1, <2>1, <2>2, <2>3, Zenon DEF FileTyped
<1>2. ASSUME EndTick PROVE FileTyped'
  <2>1. torn' = torn /\ (file' = Checkpoint \/ file' = file)
    BY <1>2 DEF EndTick, SaveGameState, historyVars
  <2>2. CASE file' = file
    BY <2>1, <2>2, Zenon DEF Typed, FileTyped
  <2>3. CASE file' = Checkpoint
    <3> DEFINE ds == [t \in DOMAIN dogs |-> DogRepr(dogs[t])]
    <3>1. DOMAIN ds \subseteq Tokens /\ ds \in [DOMAIN ds -> SavedDog]
      BY DogTypes DEF Typed, DogsTyped
    <3>2. DOMAIN trophy \subseteq Nat
      BY DEF Typed, TickTyped
    <3>3. torn \in BOOLEAN
      BY DEF Typed, FileTyped
    <3>4. Checkpoint = [dogs |-> ds, trophy |-> trophy, torn |-> torn]
      BY DEF Checkpoint
    <3> HIDE DEF ds
    <3> QED BY <1>1, <2>1, <2>3, <3>1, <3>2, <3>3, <3>4, Zenon
  <2> QED BY <2>1, <2>2, <2>3
<1>3. ASSUME WriteAndStop PROVE FileTyped'
  <2>1. /\ file' = [dogs |-> saving.dogs, trophy |-> saving.trophy, torn |-> saving.torn]
        /\ torn' = torn
    BY <1>3 DEF WriteAndStop, historyVars
  <2>2. /\ DOMAIN saving.dogs \subseteq Tokens /\ saving.dogs \in [DOMAIN saving.dogs -> SavedDog]
        /\ DOMAIN saving.trophy \subseteq Nat
    BY DEF Typed, SavingTyped
  <2>3. saving.torn \in BOOLEAN
    BY DEF Fit, Shaped
  <2> QED BY <1>1, <2>1, <2>2, <2>3, Zenon
<1>4. ASSUME UploadGameState PROVE FileTyped'
  <2>1. file' = file /\ torn' = file.torn
    BY <1>4 DEF UploadGameState
  <2> QED BY <2>1, Zenon DEF Typed, FileTyped
<1>5. ASSUME \/ \E t \in Tokens : JoinGame(t) \/ CopyDog(t) \/ Retire(t)
             \/ \E t, x : GatherItem(t, x) \/ GatherOffice(t, x)
             \/ Tick \/ EndGather \/ UpdateTrophyState
             \/ Signal \/ CopyTrophies \/ Down \/ UNCHANGED vars
      PROVE  FileTyped'
  <2>1. file' = file /\ torn' = torn
    BY <1>5 DEF JoinGame, CopyDog, Retire, GatherItem, GatherOffice, Tick, EndGather,
                UpdateTrophyState, Signal, CopyTrophies, Down, vars, historyVars
  <2> QED BY <2>1, Zenon DEF Typed, FileTyped
<1> QED BY <1>2, <1>3, <1>4, <1>5 DEF Next, Gather, Exit, Crash

LEMMA AlwaysTyped == Spec => []Typed
<1>1. Init => Typed
  <2> SUFFICES ASSUME Init PROVE Typed
    OBVIOUS
  <2>1. DOMAIN EmptyMap = {} /\ \A S : EmptyMap \in [DOMAIN EmptyMap -> S]
    BY DEF EmptyMap
  <2>2. /\ NotSaving.dogs = EmptyMap /\ NotSaving.players = {} /\ NotSaving.trophy = EmptyMap
        /\ NoFile.dogs = EmptyMap /\ NoFile.trophy = EmptyMap /\ NoFile.torn = FALSE
        /\ NoFile = [dogs |-> NoFile.dogs, trophy |-> NoFile.trophy, torn |-> NoFile.torn]
    BY DEF NotSaving, NoFile
  <2> QED BY <2>1, <2>2
          DEF Init, Typed, DogsTyped, TickTyped, SavingTyped, RecordsTyped, FileTyped
<1>2. Fit /\ Typed /\ [Next]_vars => Typed'
  BY DogsTypedStep, TickTypedStep, SavingTypedStep, RecordsTypedStep, FileTypedStep DEF Typed
<1> QED BY <1>1, <1>2, AlwaysFit, PTL DEF Spec

(* Every variable has its type; a score, which is summed up over a bag, is a
   natural number. *)
THEOREM SessionTypeCorrect == Spec => []TypeOK
BY AlwaysFit, AlwaysTyped, TypeOfParts, PTL

(* A process that has loaded a checkpoint with players would save it again. *)
THEOREM CheckpointAlwaysRestored == Spec => CheckpointRestored
<1>1. ASSUME Fit, Typed, Next, server = "down", server' = "running"
      PROVE  UploadGameState
  <2>1. phase = "idle" /\ saving.step = "none"
    BY <1>1 DEF Fit, Phases
  <2>2. ASSUME server' = server PROVE FALSE
    BY <1>1, <2>2
  <2>3. ~Exit /\ ~Crash /\ ~WriteAndStop
    BY <1>1, <2>1 DEF Exit, Crash, Down, WriteAndStop
  <2> QED BY <1>1, <2>1, <2>2, <2>3
          DEF Next, Gather, JoinGame, Retire, CopyDog, Tick, GatherItem, GatherOffice, EndGather,
              UpdateTrophyState, EndTick, Signal, CopyTrophies, Working, Serving, processVars
<1>2. ASSUME Fit, Typed, UploadGameState, DOMAIN file.dogs # {}
      PROVE  Checkpoint' = file
  <2>1. /\ dogs' = [t \in DOMAIN file.dogs |-> RestoreDog(file.dogs[t])]
        /\ trophy' = file.trophy /\ torn' = file.torn
    BY <1>2 DEF UploadGameState, AddTrophies
  <2>2. DOMAIN dogs' = DOMAIN file.dogs
    BY <2>1
  <2>3. \A t \in DOMAIN file.dogs : DogRepr(dogs'[t]) = file.dogs[t]
    BY <1>2, <2>1, DogTypes DEF Typed, FileTyped
  <2>4. [t \in DOMAIN dogs' |-> DogRepr(dogs'[t])] = file.dogs
    BY <1>2, <2>2, <2>3 DEF Typed, FileTyped
  <2>5. Checkpoint' = [dogs |-> [t \in DOMAIN dogs' |-> DogRepr(dogs'[t])],
                       trophy |-> trophy', torn |-> torn']
    BY DEF Checkpoint, DogRepr
  <2>6. file = [dogs |-> file.dogs, trophy |-> file.trophy, torn |-> file.torn]
    BY <1>2 DEF Typed, FileTyped
  <2> QED BY <2>1, <2>4, <2>5, <2>6
<1>3. Fit /\ Typed /\ [Next]_vars =>
        [server = "down" /\ server' = "running" /\ DOMAIN file.dogs # {}
           => Checkpoint' = file]_vars
  BY <1>1, <1>2
<1> QED BY <1>3, AlwaysFit, AlwaysTyped, PTL DEF Spec, CheckpointRestored

(***************************************************************************)
(* The ledger.                                                             *)
(***************************************************************************)

(* The first process comes from no checkpoint, and uses no id twice. *)
FirstProcess == server # "down" /\ ~torn
FreshIds == \A i \in DOMAIN trophy : i < trophy_added

LedgerInv == Fit /\ Typed /\ Once /\ FirstProcess /\ FreshIds

LEMMA FirstProcessStep ==
    ASSUME LedgerInv, [Next]_vars, [~Down]_vars
    PROVE  FirstProcess'
<1>1. server # "down" /\ torn = FALSE
  BY DEF LedgerInv, FirstProcess
<1>2. CASE UNCHANGED vars
  BY <1>1, <1>2 DEF vars, processVars, historyVars, FirstProcess
<1>3. ~UploadGameState
  BY <1>1 DEF UploadGameState
<1>4. ASSUME \/ \E t \in Tokens : JoinGame(t) \/ Retire(t) \/ CopyDog(t)
             \/ \E t, x : GatherItem(t, x) \/ GatherOffice(t, x)
             \/ Tick \/ EndGather \/ UpdateTrophyState \/ EndTick \/ Signal \/ CopyTrophies
      PROVE  FirstProcess'
  <2>1. UNCHANGED <<server, torn>>
    BY <1>4 DEF JoinGame, Retire, CopyDog, GatherItem, GatherOffice, Tick, EndGather,
                UpdateTrophyState, EndTick, Signal, CopyTrophies, processVars, historyVars
  <2> QED BY <1>1, <2>1 DEF FirstProcess
<1>5. ASSUME WriteAndStop PROVE FirstProcess'
  BY <1>1, <1>5 DEF WriteAndStop, historyVars, FirstProcess
<1> QED BY <1>2, <1>3, <1>4, <1>5 DEF Next, Gather, Exit, Crash

(* New trophies lie under new ids, and hide no other. *)
LEMMA FreshIdsStep ==
    ASSUME LedgerInv, [Next]_vars, [~Down]_vars
    PROVE  FreshIds'
<1>1. server # "down" /\ DOMAIN trophy \subseteq Nat /\ trophy_added \in Nat
  BY DEF LedgerInv, FirstProcess, Typed, TickTyped, Fit, Shaped
<1>2. ~UploadGameState /\ ((~Exit /\ ~Crash) \/ UNCHANGED vars)
  BY <1>1 DEF Exit, Crash, UploadGameState
<1>3. ASSUME EndGather PROVE FreshIds'
  BY <1>3 DEF EndGather, RemoveTrophies, Restrict, LedgerInv, FreshIds
<1>4. ASSUME UpdateTrophyState PROVE FreshIds'
  <2>1. CASE UNCHANGED <<trophy, trophy_added>>
    BY <2>1 DEF LedgerInv, FreshIds
  <2>2. CASE ~UNCHANGED <<trophy, trophy_added>>
    <3>1. PICK n \in Shortage :
            /\ DOMAIN trophy' = DOMAIN trophy \cup (NextId .. (NextId + n - 1))
            /\ trophy_added' = trophy_added + n
      BY <1>4, <2>2 DEF UpdateTrophyState
    <3>2. n \in Nat
      BY DEF Shortage
    <3> QED BY <1>1, <3>1, <3>2 DEF NextId, LedgerInv, FreshIds
  <2> QED BY <2>1, <2>2
<1>5. ASSUME \/ \E t \in Tokens : JoinGame(t) \/ Retire(t) \/ CopyDog(t)
             \/ \E t, x : GatherItem(t, x) \/ GatherOffice(t, x)
             \/ Tick \/ EndTick \/ Signal \/ CopyTrophies \/ WriteAndStop \/ UNCHANGED vars
      PROVE  FreshIds'
  <2>1. UNCHANGED <<trophy, trophy_added>>
    BY <1>5 DEF JoinGame, Retire, CopyDog, GatherItem, GatherOffice, Tick, EndTick, Signal,
                CopyTrophies, WriteAndStop, vars, sessionVars
  <2> QED BY <2>1 DEF LedgerInv, FreshIds
<1> QED BY <1>2, <1>3, <1>4, <1>5 DEF Next, Gather

NeverDown == [][~Down]_vars

LEMMA AlwaysLedgerInv == Spec /\ NeverDown => []LedgerInv
<1>1. Init => FirstProcess /\ FreshIds
  BY DEF Init, FirstProcess, FreshIds, EmptyMap
<1>2. Fit /\ Typed /\ Once /\ FirstProcess /\ FreshIds <=> LedgerInv
  BY DEF LedgerInv
<1>3. LedgerInv /\ [Next]_vars /\ [~Down]_vars => FirstProcess' /\ FreshIds'
  BY FirstProcessStep, FreshIdsStep
<1> QED
  BY <1>1, <1>2, <1>3, AlwaysFit, AlwaysTyped, AlwaysOnce, PTL DEF Spec, NeverDown

(* What the ledger reads of a session. *)
Places == [x \in Trophies |-> Where(x)]
Scores == [t \in Tokens |-> Score(t)]
Carried(t) == IF t \in DOMAIN dogs THEN Range(dogs[t].bag) ELSE {}

PlacesTell ==
    /\ Places \in [Trophies -> Tokens \cup {"none", "map", "gone"}]
    /\ \A x \in Trophies :
          /\ \A t \in Tokens : Places[x] = t <=> x \in Carried(t)
          /\ Places[x] = "map" <=> x \in Lying
          /\ Places[x] = "none" <=> x \notin made

LEMMA PlacesAlwaysTell == LedgerInv => PlacesTell
<1> SUFFICES ASSUME LedgerInv, NEW x \in Trophies
             PROVE  /\ Where(x) \in Tokens \cup {"none", "map", "gone"}
                    /\ \A t \in Tokens : Where(x) = t <=> x \in Carried(t)
                    /\ Where(x) = "map" <=> x \in Lying
                    /\ Where(x) = "none" <=> x \notin made
  BY DEF PlacesTell, Places
<1>1. /\ OnceIn(dogs, Lying) /\ DOMAIN dogs \subseteq Tokens
      /\ Lying \subseteq made /\ \A t \in DOMAIN dogs : Range(dogs[t].bag) \subseteq made
  BY DEF LedgerInv, FirstProcess, Once, OnceInGame, MadeSoFar, Typed, DogsTyped, Lying, Range
<1>2. \A t : InBag(x, t) <=> x \in Range(dogs[t].bag)
  BY DEF InBag, Range
<1>3. OnMap(x) <=> x \in Lying
  BY DEF OnMap, Lying
<1>4. "none" \notin Tokens /\ "map" \notin Tokens /\ "gone" \notin Tokens
  BY SessionAssumption
<1>5. "none" # "map" /\ "none" # "gone" /\ "map" # "gone"
  OBVIOUS
<1>6. CASE \E t \in DOMAIN dogs : InBag(x, t)
  <2> DEFINE u == CHOOSE t \in DOMAIN dogs : InBag(x, t)
  <2>1. u \in DOMAIN dogs /\ x \in Range(dogs[u].bag)
    BY <1>2, <1>6
  <2>2. Where(x) = u
    BY <1>6 DEF Where
  <2> HIDE DEF u
  <2>3. x \in made /\ x \notin Lying
    BY <1>1, <2>1 DEF OnceIn, Disjoint
  <2>4. \A t \in Tokens : x \in Carried(t) <=> t = u
    BY <1>1, <2>1 DEF Carried, OnceIn, Disjoint
  <2> QED BY <1>1, <1>4, <2>1, <2>2, <2>3, <2>4
<1>7. CASE ~\E t \in DOMAIN dogs : InBag(x, t)
  <2>1. Where(x) = IF x \in Lying THEN "map" ELSE IF x \in made THEN "gone" ELSE "none"
    BY <1>3, <1>7 DEF Where
  <2>2. \A t \in Tokens : x \notin Carried(t)
    BY <1>2, <1>7 DEF Carried
  <2> QED BY <1>1, <1>4, <1>5, <2>1, <2>2
<1> QED BY <1>6, <1>7

LEMMA PlacesTellThen == LedgerInv' => PlacesTell'
BY PlacesAlwaysTell, PTL

(* What has changed no place stays in its place. *)
LEMMA Unmoved ==
    ASSUME PlacesTell, PlacesTell', NEW x \in Trophies,
           \A t \in Tokens : x \in Carried(t)' <=> x \in Carried(t),
           x \in Lying' <=> x \in Lying, x \in made' <=> x \in made
    PROVE  Places'[x] = Places[x]
BY DEF PlacesTell

(* The places after a step are a function of those before. *)
LEMMA PlacesAre ==
    ASSUME PlacesTell', NEW new, \A x \in Trophies : Places'[x] = new[x]
    PROVE  Places' = [x \in Trophies |-> new[x]]
BY DEF PlacesTell

LEMMA LedgerSums ==
    ASSUME NEW S
    PROVE  Ledger!MapThenSumSet(LAMBDA x : TypeOf[x], S) = MapThenSumSet(LAMBDA x : TypeOf[x], S)
BY DEF Ledger!MapThenSumSet, Ledger!MapThenFoldSet, MapThenSumSet, MapThenFoldSet

LEMMA LedgerCounts == ASSUME NEW S PROVE Ledger!Cardinality(S) = Cardinality(S)
BY DEF Ledger!Cardinality, Cardinality, Ledger!IsFiniteSet, IsFiniteSet

LEMMA LedgerHeld ==
    ASSUME LedgerInv, NEW t \in DOMAIN dogs
    PROVE  /\ {x \in Trophies : Places[x] = t} = Range(dogs[t].bag)
           /\ Cardinality(Range(dogs[t].bag)) = Len(dogs[t].bag)
           /\ BagScore(dogs[t].bag) = MapThenSumSet(LAMBDA x : TypeOf[x], Range(dogs[t].bag))
<1>1. dogs[t].bag \in Seq(Trophies) /\ IsInjective(dogs[t].bag) /\ t \in Tokens
  BY DEF LedgerInv, Fit, Shaped, DogsShaped, Bags, FirstProcess, Once, OnceInGame, OnceIn,
         Typed, DogsTyped
<1>2. Range(dogs[t].bag) \subseteq Trophies
  BY <1>1 DEF Range
<1>3. {x \in Trophies : Places[x] = t} = Range(dogs[t].bag)
  BY <1>1, <1>2, PlacesAlwaysTell DEF PlacesTell, Carried
<1> QED BY <1>1, <1>3, BagScoreIsSum

(* A dog takes a trophy. *)
LEMMA LedgerTake ==
    ASSUME LedgerInv, LedgerInv', NEW t \in Tokens, NEW i \in DOMAIN trophy, GatherItem(t, i),
           MayTake(t, i)
    PROVE  Ledger!Take(trophy[i], t)
<1> DEFINE x == trophy[i]
<1>1. /\ t \in DOMAIN dogs /\ i \in DOMAIN trophy \ collected_trophy
      /\ dogs' = [dogs EXCEPT ![t].bag = Append(@, x)]
      /\ collected_trophy' = collected_trophy \cup {i}
      /\ UNCHANGED <<trophy, made, records>>
  BY DEF GatherItem, MeetItem, MayTake, historyVars
<1>2. /\ x \in Trophies /\ x \in Lying /\ IsInjective(trophy)
      /\ dogs[t].bag \in Seq(Trophies) /\ DOMAIN dogs[t] = {"bag", "score", "played", "age"}
  BY <1>1 DEF LedgerInv, Fit, Shaped, TrophyMap, DogsShaped, Bags, Lying, FirstProcess, Once,
              OnceInGame
<1>3. /\ DOMAIN dogs' = DOMAIN dogs
      /\ \A u \in DOMAIN dogs : u # t => dogs'[u] = dogs[u]
      /\ dogs'[t].bag = Append(dogs[t].bag, x) /\ dogs'[t].score = dogs[t].score
  <2>1. DOMAIN dogs' = DOMAIN dogs /\ \A u \in DOMAIN dogs : u # t => dogs'[u] = dogs[u]
    BY <1>1
  <2>2. dogs'[t] = [dogs[t] EXCEPT !.bag = Append(dogs[t].bag, x)]
    BY <1>1
  <2> QED BY <1>2, <2>1, <2>2
<1>4. Range(dogs'[t].bag) = Range(dogs[t].bag) \cup {x}
  BY <1>2, <1>3, AppendToBag
<1>5. \A u : Carried(u)' = IF u = t THEN Carried(u) \cup {x} ELSE Carried(u)
  BY <1>1, <1>3, <1>4 DEF Carried
<1>6. Lying' = Lying \ {x}
  BY <1>1, <1>2 DEF Lying, IsInjective
<1>7. PlacesTell /\ PlacesTell'
  BY PlacesAlwaysTell, PlacesTellThen
<1>8. Places' = [Places EXCEPT ![x] = t]
  <2>1. Places'[x] = t
    BY <1>2, <1>5, <1>7 DEF PlacesTell
  <2>2. ASSUME NEW y \in Trophies, y # x PROVE Places'[y] = Places[y]
    <3>1. \A u \in Tokens : y \in Carried(u)' <=> y \in Carried(u)
      BY <1>5, <2>2
    <3>2. (y \in Lying' <=> y \in Lying) /\ (y \in made' <=> y \in made)
      BY <1>1, <1>6, <2>2
    <3> QED BY <1>7, <3>1, <3>2, Unmoved
  <2> QED BY <1>2, <1>7, <2>1, <2>2 DEF PlacesTell
<1>9. Scores' = Scores
  BY <1>1, <1>3 DEF Scores, Score
<1>10. Places[x] = "map"
  BY <1>2, <1>7 DEF PlacesTell
<1>11. Cardinality({y \in Trophies : Places[y] = t}) < Capacity
  <2>1. Cardinality({y \in Trophies : Places[y] = t}) = Len(dogs[t].bag)
    BY <1>1, LedgerHeld
  <2>2. Len(dogs[t].bag) < Capacity
    BY <1>2, SessionAssumption DEF MayTake, HasMoreCapacity
  <2> QED BY <2>1, <2>2
<1> HIDE DEF x
<1>12. Ledger!Take(x, t)
  BY <1>8, <1>9, <1>10, <1>11, LedgerCounts DEF Ledger!Take, Ledger!Held, Places, Scores
<1> QED BY <1>12 DEF x

(* What becomes of a dog's trophies when its bag is emptied, or it leaves. *)
LEMMA LedgerClears ==
    ASSUME LedgerInv, LedgerInv', NEW t \in Tokens, t \in DOMAIN dogs,
           UNCHANGED <<trophy, collected_trophy, made>>,
           Carried(t)' = {}, \A u \in Tokens : u # t => Carried(u)' = Carried(u)
    PROVE  Places' = Ledger!Clear(t)
<1>1. PlacesTell /\ PlacesTell'
  BY PlacesAlwaysTell, PlacesTellThen
<1>2. Lying' = Lying
  BY DEF Lying
<1>3. ASSUME NEW x \in Trophies
      PROVE  Places'[x] = IF Places[x] = t THEN "gone" ELSE Places[x]
  <2>1. CASE Places[x] = t
    <3>1. x \in Carried(t)
      BY <1>1, <2>1 DEF PlacesTell
    <3>2. \A u \in Tokens : x \notin Carried(u)'
      <4>1. \A u \in Tokens : u # t => x \notin Carried(u)
        BY <1>1, <2>1 DEF PlacesTell
      <4> QED BY <4>1
    <3>3. x \notin Lying /\ x \in made
      <4>1. Places[x] # "map" /\ Places[x] # "none"
        BY <2>1, SessionAssumption
      <4> QED BY <1>1, <4>1 DEF PlacesTell
    <3>4. Places'[x] \in Tokens \cup {"none", "map", "gone"}
      BY <1>1 DEF PlacesTell
    <3>5. Places'[x] \notin Tokens
      BY <1>1, <3>2 DEF PlacesTell
    <3>6. Places'[x] # "map" /\ Places'[x] # "none"
      BY <1>1, <1>2, <3>3 DEF PlacesTell
    <3> QED BY <2>1, <3>4, <3>5, <3>6
  <2>2. CASE Places[x] # t
    <3>1. x \notin Carried(t)
      BY <1>1, <2>2 DEF PlacesTell
    <3>2. \A u \in Tokens : x \in Carried(u)' <=> x \in Carried(u)
      BY <3>1
    <3> QED BY <1>1, <1>2, <2>2, <3>2, Unmoved
  <2> QED BY <2>1, <2>2
<1>4. Places' = [x \in Trophies |-> IF Places[x] = t THEN "gone" ELSE Places[x]]
  BY <1>1, <1>3 DEF PlacesTell
<1> QED BY <1>4 DEF Ledger!Clear, Places

(* A dog brings its bag to an office. *)
LEMMA LedgerDeliver ==
    ASSUME LedgerInv, LedgerInv', NEW t \in Tokens, NEW o \in Offices, GatherOffice(t, o)
    PROVE  Ledger!Deliver(t)
<1>1. /\ t \in DOMAIN dogs
      /\ dogs' = [dogs EXCEPT ![t].score = @ + BagScore(dogs[t].bag), ![t].bag = << >>]
      /\ UNCHANGED <<trophy, collected_trophy, made, records>>
  BY DEF GatherOffice, ReturnTrophyToOffice, historyVars
<1> DEFINE score == dogs[t].score + BagScore(dogs[t].bag)
<1>2. /\ DOMAIN dogs' = DOMAIN dogs
      /\ \A u \in DOMAIN dogs : u # t => dogs'[u] = dogs[u]
      /\ dogs'[t].bag = << >> /\ dogs'[t].score = score
  <2>1. DOMAIN dogs' = DOMAIN dogs /\ \A u \in DOMAIN dogs : u # t => dogs'[u] = dogs[u]
    BY <1>1
  <2>2. dogs'[t] = [dogs[t] EXCEPT !.score = score, !.bag = << >>]
    BY <1>1
  <2>3. DOMAIN dogs[t] = {"bag", "score", "played", "age"}
    BY <1>1 DEF LedgerInv, Fit, Shaped, DogsShaped
  <2> HIDE DEF score
  <2> QED BY <2>1, <2>2, <2>3
<1> HIDE DEF score
<1>3. Carried(t)' = {} /\ \A u \in Tokens : u # t => Carried(u)' = Carried(u)
  BY <1>1, <1>2, NoTrophies DEF Carried
<1>4. Places' = Ledger!Clear(t)
  BY <1>1, <1>3, LedgerClears
<1>5. Scores' = [Scores EXCEPT ![t] = score]
  <2>1. Score(t)' = score
    BY <1>1, <1>2 DEF Score
  <2>2. \A u \in Tokens : u # t => Score(u)' = Score(u)
    BY <1>1, <1>2 DEF Score
  <2> QED BY <2>1, <2>2 DEF Scores
<1>6. score = Scores[t] + MapThenSumSet(LAMBDA x : TypeOf[x], {x \in Trophies : Places[x] = t})
  BY <1>1, LedgerHeld DEF score, Scores, Score
<1>7. score = Scores[t]
                + Ledger!MapThenSumSet(LAMBDA x : TypeOf[x], {x \in Trophies : Places[x] = t})
  BY <1>6, LedgerSums
<1> QED BY <1>4, <1>5, <1>7 DEF Ledger!Deliver, Ledger!Held, Places, Scores

(* A dog leaves: its score is in the records. *)
LEMMA LedgerLeave ==
    ASSUME LedgerInv, LedgerInv', NEW t \in Tokens, Retire(t)
    PROVE  Ledger!Leave(t)
<1>1. /\ t \in DOMAIN dogs /\ dogs' = Restrict(dogs, DOMAIN dogs \ {t})
      /\ records' = Put(records, t, [score |-> dogs[t].score, played |-> dogs[t].played,
                                     age |-> dogs[t].age])
      /\ UNCHANGED <<trophy, collected_trophy, made>>
  BY DEF Retire, tickVars, historyVars
<1>2. DOMAIN dogs' = DOMAIN dogs \ {t} /\ \A u \in DOMAIN dogs' : dogs'[u] = dogs[u]
  BY <1>1 DEF Restrict
<1>3. Carried(t)' = {} /\ \A u \in Tokens : u # t => Carried(u)' = Carried(u)
  BY <1>1, <1>2 DEF Carried
<1>4. Places' = Ledger!Clear(t)
  BY <1>1, <1>3, LedgerClears
<1>5. /\ t \in DOMAIN records' /\ records'[t].score = dogs[t].score
      /\ \A u : u # t => (u \in DOMAIN records' <=> u \in DOMAIN records)
      /\ \A u \in DOMAIN records : u # t => records'[u] = records[u]
  BY <1>1 DEF Put
<1>6. Scores' = Scores
  BY <1>1, <1>2, <1>5 DEF Scores, Score
<1> QED BY <1>4, <1>6 DEF Ledger!Leave, Places, Scores

(* A trophy that is made lies on the map, beside those that lay there before. *)
LEMMA NewTrophiesLie ==
    ASSUME LedgerInv, UpdateTrophyState
    PROVE  /\ UNCHANGED <<dogs, collected_trophy, records>>
           /\ Lying' = Lying \cup (made' \ made) /\ made \subseteq made'
           /\ Lying = Range(trophy) /\ Lying' = Range(trophy')
<1>1. UNCHANGED <<dogs, collected_trophy, records>> /\ collected_trophy = {}
  BY DEF UpdateTrophyState, Working, LedgerInv, Fit, Phases
<1>2. Lying' = Lying \cup (made' \ made) /\ made \subseteq made'
  <2>1. CASE UNCHANGED <<trophy, made>>
    BY <1>1, <2>1 DEF Lying
  <2>2. CASE ~UNCHANGED <<trophy, made>>
    <3>1. PICK n \in Shortage :
            \E new \in [1 .. n -> Trophies \ made] :
              /\ trophy' = [i \in DOMAIN trophy \cup (NextId .. (NextId + n - 1)) |->
                              IF i \in NextId .. (NextId + n - 1)
                              THEN new[i - NextId + 1] ELSE trophy[i]]
              /\ made' = made \cup Range(new)
      BY <2>2 DEF UpdateTrophyState
    <3>2. PICK new \in [1 .. n -> Trophies \ made] :
              /\ trophy' = [i \in DOMAIN trophy \cup (NextId .. (NextId + n - 1)) |->
                              IF i \in NextId .. (NextId + n - 1)
                              THEN new[i - NextId + 1] ELSE trophy[i]]
              /\ made' = made \cup Range(new)
      BY <3>1
    <3>3. made' \ made = Range(new) /\ made \subseteq made'
      BY <3>2 DEF Range
    <3>4. n \in Nat /\ NextId \in Nat
      BY DEF Shortage, NextId, LedgerInv, Fit, Shaped
    <3> DEFINE ids == NextId .. (NextId + n - 1)
    <3>5. \A i \in DOMAIN trophy : i \notin ids
      <4>1. \A i \in DOMAIN trophy : i \in Nat /\ i < NextId
        BY DEF LedgerInv, Typed, TickTyped, FreshIds, NextId
      <4> QED BY <3>4, <4>1
    <3>6. \A k \in 1 .. n : k + NextId - 1 \in ids /\ (k + NextId - 1) - NextId + 1 = k
      BY <3>4
    <3>7. \A i \in ids : i - NextId + 1 \in 1 .. n
      BY <3>4
    <3> HIDE DEF ids
    <3>8. /\ DOMAIN trophy' = DOMAIN trophy \cup ids
          /\ \A i \in DOMAIN trophy : trophy'[i] = trophy[i]
          /\ \A i \in ids : trophy'[i] = new[i - NextId + 1]
      BY <3>2, <3>5 DEF ids
    <3>9. Lying = {trophy[i] : i \in DOMAIN trophy} /\ Lying' = {trophy'[i] : i \in DOMAIN trophy'}
      BY <1>1 DEF Lying
    <3>10. {trophy'[i] : i \in ids} = Range(new)
      <4>1. \A i \in ids : trophy'[i] \in Range(new)
        BY <3>7, <3>8 DEF Range
      <4>2. ASSUME NEW x \in Range(new) PROVE \E i \in ids : trophy'[i] = x
        <5>1. PICK k \in 1 .. n : x = new[k]
          BY DEF Range
        <5> QED BY <3>6, <3>8, <5>1
      <4> QED BY <4>1, <4>2
    <3>11. Lying' = Lying \cup Range(new)
      <4>1. Lying' = {trophy'[i] : i \in DOMAIN trophy} \cup {trophy'[i] : i \in ids}
        BY <3>8, <3>9
      <4>2. {trophy'[i] : i \in DOMAIN trophy} = Lying
        BY <3>8, <3>9
      <4> QED BY <3>10, <4>1, <4>2
    <3> QED BY <3>3, <3>11
  <2> QED BY <2>1, <2>2
<1>3. Lying = Range(trophy) /\ Lying' = Range(trophy')
  BY <1>1 DEF Lying, Range
<1> QED BY <1>1, <1>2, <1>3

(* New trophies appear on the map. *)
LEMMA LedgerAppear ==
    ASSUME LedgerInv, LedgerInv', UpdateTrophyState
    PROVE  Ledger!Appear(made' \ made)
<1>1. PlacesTell /\ PlacesTell'
  BY PlacesAlwaysTell, PlacesTellThen
<1>2. UNCHANGED <<dogs, collected_trophy, records>>
  BY NewTrophiesLie
<1>3. Lying' = Lying \cup (made' \ made) /\ made \subseteq made'
  BY NewTrophiesLie
<1>4. ASSUME NEW x \in Trophies
      PROVE  Places'[x] = IF x \in made' \ made THEN "map" ELSE Places[x]
  <2>1. CASE x \in made' \ made
    BY <1>1, <1>3, <2>1 DEF PlacesTell
  <2>2. CASE x \notin made' \ made
    <3>1. \A u \in Tokens : x \in Carried(u)' <=> x \in Carried(u)
      BY <1>2 DEF Carried
    <3>2. (x \in Lying' <=> x \in Lying) /\ (x \in made' <=> x \in made)
      BY <1>3, <2>2
    <3> QED BY <1>1, <2>2, <3>1, <3>2, Unmoved
  <2> QED BY <2>1, <2>2
<1>5. Places' = [x \in Trophies |-> IF x \in made' \ made THEN "map" ELSE Places[x]]
  BY <1>1, <1>4 DEF PlacesTell
<1>6. \A x \in made' \ made : Places[x] = "none"
  <2>1. made' \subseteq Trophies
    BY DEF LedgerInv, Typed, TickTyped
  <2> QED BY <1>1, <2>1 DEF PlacesTell
<1>7. Scores' = Scores
  BY <1>2 DEF Scores, Score
<1> QED BY <1>5, <1>6, <1>7 DEF Ledger!Appear, Places, Scores

(* What else a session does is no matter of the ledger. *)
LEMMA LedgerStutter ==
    ASSUME LedgerInv, LedgerInv',
           \A u \in DOMAIN dogs' :
              \/ u \in DOMAIN dogs /\ dogs'[u].bag = dogs[u].bag /\ dogs'[u].score = dogs[u].score
              \/ u \notin DOMAIN dogs \cup DOMAIN records /\ dogs'[u].bag = << >> /\ dogs'[u].score = 0,
           DOMAIN dogs \subseteq DOMAIN dogs',
           Lying' = Lying, UNCHANGED <<made, records>>
    PROVE  UNCHANGED <<Places, Scores>>
<1>1. PlacesTell /\ PlacesTell'
  BY PlacesAlwaysTell, PlacesTellThen
<1>2. \A u : Carried(u)' = Carried(u)
  BY NoTrophies DEF Carried
<1>3. \A x \in Trophies : Places'[x] = Places[x]
  BY <1>1, <1>2, Unmoved
<1>4. Places' = Places
  BY <1>1, <1>3 DEF PlacesTell
<1>5. \A u : Score(u)' = Score(u)
  BY DEF Score
<1>6. Scores' = Scores
  BY <1>5 DEF Scores
<1> QED BY <1>4, <1>6

LEMMA LedgerStep ==
    ASSUME LedgerInv, LedgerInv', [Next]_vars, [~Down]_vars
    PROVE  [Ledger!Next]_(Ledger!ledgerVars)
<1>1. server # "down"
  BY DEF LedgerInv, FirstProcess
<1>2. \A t \in DOMAIN dogs : DOMAIN dogs[t] = {"bag", "score", "played", "age"}
  BY DEF LedgerInv, Fit, Shaped, DogsShaped
<1>3. UNCHANGED <<Places, Scores>> => UNCHANGED Ledger!ledgerVars
  BY DEF Ledger!ledgerVars, Places, Scores
<1>4. ASSUME NEW t \in Tokens, JoinGame(t) PROVE UNCHANGED <<Places, Scores>>
  <2>1. /\ dogs' = Put(dogs, t, NewDog) /\ t \notin DOMAIN dogs \cup DOMAIN records
        /\ UNCHANGED <<trophy, collected_trophy, made, records>>
    BY <1>4 DEF JoinGame, tickVars, historyVars
  <2>2. NewDog.bag = << >> /\ NewDog.score = 0
    BY DEF NewDog
  <2>3. DOMAIN dogs' = DOMAIN dogs \cup {t} /\ dogs'[t] = NewDog
        /\ \A u \in DOMAIN dogs : dogs'[u] = dogs[u]
    BY <2>1 DEF Put
  <2>4. Lying' = Lying
    BY <2>1 DEF Lying
  <2> QED BY <2>1, <2>2, <2>3, <2>4, LedgerStutter
<1>5. ASSUME Tick PROVE UNCHANGED <<Places, Scores>>
  <2>1. /\ dogs' = [t \in DOMAIN dogs |-> Older(dogs[t])]
        /\ UNCHANGED <<trophy, collected_trophy, made, records>>
    BY <1>5 DEF Tick, historyVars
  <2>2. \A t \in DOMAIN dogs :
           Older(dogs[t]).bag = dogs[t].bag /\ Older(dogs[t]).score = dogs[t].score
    BY <1>2 DEF Older
  <2>3. DOMAIN dogs' = DOMAIN dogs /\ \A t \in DOMAIN dogs :
           dogs'[t].bag = dogs[t].bag /\ dogs'[t].score = dogs[t].score
    BY <2>1, <2>2
  <2>4. Lying' = Lying
    BY <2>1 DEF Lying
  <2> QED BY <2>1, <2>3, <2>4, LedgerStutter
<1>6. ASSUME UNCHANGED <<dogs, made, records>>, Lying' = Lying
      PROVE  UNCHANGED <<Places, Scores>>
  BY <1>6, LedgerStutter
<1>7. ASSUME EndGather PROVE UNCHANGED <<Places, Scores>>
  <2> DEFINE D == DOMAIN trophy \ collected_trophy
  <2>1. /\ collected_trophy' = {} /\ trophy' = Restrict(trophy, D)
        /\ UNCHANGED <<dogs, made, records>>
    BY <1>7 DEF EndGather, RemoveTrophies, historyVars
  <2>2. DOMAIN trophy' = D /\ \A i \in D : trophy'[i] = trophy[i]
    BY <2>1 DEF Restrict
  <2>3. Lying' = Lying
    BY <2>1, <2>2 DEF Lying
  <2> QED BY <1>6, <2>1, <2>3
<1>8. ASSUME UpdateTrophyState PROVE Ledger!Next
  <2>1. Ledger!Appear(made' \ made)
    BY <1>8, LedgerAppear
  <2>2. made' \ made \in SUBSET Trophies
    BY DEF LedgerInv, Typed, TickTyped
  <2> QED BY <2>1, <2>2 DEF Ledger!Next
<1>9. ASSUME NEW t \in Tokens, Retire(t) PROVE Ledger!Next
  BY <1>9, LedgerLeave DEF Ledger!Next
<1>10. ASSUME NEW t \in Tokens, NEW o \in Offices, GatherOffice(t, o) PROVE Ledger!Next
  BY <1>10, LedgerDeliver DEF Ledger!Next
<1>11. ASSUME NEW t \in Tokens, NEW i \in DOMAIN trophy, GatherItem(t, i)
       PROVE  Ledger!Next \/ UNCHANGED <<Places, Scores>>
  <2>1. CASE MayTake(t, i)
    <3>1. trophy[i] \in Trophies
      BY DEF LedgerInv, Fit, Shaped, TrophyMap
    <3> QED BY <1>11, <2>1, <3>1, LedgerTake DEF Ledger!Next
  <2>2. CASE ~MayTake(t, i)
    <3>1. UNCHANGED <<dogs, trophy, collected_trophy, made, records>>
      BY <1>11, <2>2 DEF GatherItem, MeetItem, historyVars
    <3>2. Lying' = Lying
      BY <3>1 DEF Lying
    <3> QED BY <1>6, <3>1, <3>2
  <2> QED BY <2>1, <2>2
<1>12. ASSUME \/ EndTick \/ Signal \/ CopyTrophies \/ WriteAndStop \/ UNCHANGED vars
              \/ \E t : CopyDog(t)
       PROVE  UNCHANGED <<Places, Scores>>
  <2>1. UNCHANGED <<dogs, trophy, collected_trophy, made, records>>
    BY <1>12 DEF EndTick, Signal, CopyTrophies, WriteAndStop, CopyDog, vars, sessionVars, tickVars,
                 historyVars
  <2>2. Lying' = Lying
    BY <2>1 DEF Lying
  <2> QED BY <1>6, <2>1, <2>2
<1>13. ~UploadGameState /\ ((~Exit /\ ~Crash) \/ UNCHANGED vars)
  BY <1>1 DEF Exit, Crash, UploadGameState
<1> QED BY <1>3, <1>4, <1>5, <1>7, <1>8, <1>9, <1>10, <1>11, <1>12, <1>13 DEF Next, Gather

LEMMA LedgerBegins == LedgerInv /\ Init => Ledger!Init
<1> SUFFICES ASSUME LedgerInv, Init PROVE Ledger!Init
  OBVIOUS
<1>1. dogs = EmptyMap /\ records = EmptyMap /\ made = {}
  BY DEF Init
<1>2. \A x \in Trophies : Places[x] = "none"
  BY <1>1, PlacesAlwaysTell DEF PlacesTell
<1>3. Places = [x \in Trophies |-> "none"]
  BY <1>2, PlacesAlwaysTell DEF PlacesTell
<1>4. \A t \in Tokens : Score(t) = 0
  BY <1>1, EmptyTrophyMap DEF Score
<1>5. Scores = [t \in Tokens |-> 0]
  BY <1>4 DEF Scores
<1> QED BY <1>3, <1>5 DEF Ledger!Init, Places, Scores

(* Until its process ends, a session implements TrophyLedger, also while a
   signal handler saves it. *)
THEOREM SessionKeepsLedger == Spec /\ NeverDown => LedgerKept
<1>1. LedgerInv /\ Init => Ledger!Init
  BY LedgerBegins
<1>2. LedgerInv /\ LedgerInv' /\ [Next]_vars /\ [~Down]_vars
        => [Ledger!Next]_(Ledger!ledgerVars)
  BY LedgerStep
<1> QED
  BY <1>1, <1>2, AlwaysLedgerInv, PTL DEF Spec, NeverDown, LedgerKept, Ledger!Spec

LEMMA StaysOnMap ==
    ASSUME LedgerInv, LedgerInv', [Next]_vars, [~Down]_vars,
           NEW i \in DOMAIN trophy, i \notin collected_trophy
    PROVE  trophy[i] \in Range(trophy')
<1>1. /\ i \in Nat /\ i < NextId /\ NextId \in Nat
      /\ server # "down"
  BY DEF LedgerInv, Typed, TickTyped, FreshIds, Fit, Shaped, NextId, FirstProcess
<1>2. ~UploadGameState /\ ((~Exit /\ ~Crash) \/ UNCHANGED vars)
  BY <1>1 DEF Exit, Crash, UploadGameState
<1>3. ASSUME i \in DOMAIN trophy', trophy'[i] = trophy[i] PROVE trophy[i] \in Range(trophy')
  BY <1>3 DEF Range
<1>4. ASSUME trophy' = trophy PROVE trophy[i] \in Range(trophy')
  BY <1>3, <1>4
<1>5. ASSUME EndGather PROVE trophy[i] \in Range(trophy')
  <2>1. i \in DOMAIN trophy' /\ trophy'[i] = trophy[i]
    BY <1>5 DEF EndGather, RemoveTrophies, Restrict
  <2> QED BY <1>3, <2>1
<1>6. ASSUME UpdateTrophyState, trophy' # trophy PROVE trophy[i] \in Range(trophy')
  <2>1. PICK n \in Shortage :
          \E new \in [1 .. n -> Trophies \ made] :
             trophy' = [j \in DOMAIN trophy \cup (NextId .. (NextId + n - 1)) |->
                          IF j \in NextId .. (NextId + n - 1)
                          THEN new[j - NextId + 1] ELSE trophy[j]]
    BY <1>6 DEF UpdateTrophyState
  <2>2. i \notin NextId .. (NextId + n - 1)
    BY <1>1
  <2>3. i \in DOMAIN trophy' /\ trophy'[i] = trophy[i]
    BY <2>1, <2>2
  <2> QED BY <1>3, <2>3
<1>7. ASSUME \/ \E t \in Tokens : JoinGame(t) \/ Retire(t) \/ CopyDog(t)
             \/ \E t, x : GatherItem(t, x) \/ GatherOffice(t, x)
             \/ Tick \/ EndTick \/ Signal \/ CopyTrophies \/ WriteAndStop \/ UNCHANGED vars
      PROVE  trophy' = trophy
  BY <1>7 DEF JoinGame, Retire, CopyDog, GatherItem, GatherOffice, Tick, EndTick, Signal,
              CopyTrophies, WriteAndStop, vars, sessionVars
<1> QED BY <1>2, <1>4, <1>5, <1>6, <1>7 DEF Next, Gather

(* Until its process ends, a trophy leaves the map only into a bag.  After a
   restart it does not: ids are used twice then, and this hides a trophy. *)
THEOREM TrophiesOnlyTaken == Spec /\ NeverDown => TrophyTaken
<1>1. LedgerInv /\ LedgerInv' /\ [Next]_vars /\ [~Down]_vars =>
        [server # "down" /\ server' # "down" =>
           \A i \in DOMAIN trophy :
              trophy[i] \notin Range(trophy') => i \in collected_trophy]_vars
  BY StaysOnMap
<1> QED BY <1>1, AlwaysLedgerInv, PTL DEF Spec, NeverDown, TrophyTaken

(* Without a signal no save runs beside the ticks. *)
Undisturbed == server = "running" /\ saving = NotSaving /\ ~torn

LEMMA UndisturbedStep ==
    ASSUME Faults = {}, Undisturbed, [Next]_vars
    PROVE  Undisturbed'
<1>1. server = "running" /\ saving = NotSaving /\ saving.step = "none" /\ torn = FALSE
  BY DEF Undisturbed, NotSaving
<1>2. \A t : ~Unread(t)
  BY <1>1 DEF Unread, NotSaving
<1>3. ~Signal /\ ~Exit /\ ~Crash /\ ~UploadGameState /\ ~CopyTrophies /\ ~WriteAndStop
  BY <1>1 DEF Signal, Exit, Crash, UploadGameState, CopyTrophies, WriteAndStop
<1>4. ASSUME NEW t, NEW i, GatherItem(t, i) PROVE UNCHANGED <<server, saving, torn>>
  <2>1. saving' = [saving EXCEPT !.torn = saving.torn \/ (ReadTwice(t) /\ MayTake(t, i))]
        /\ UNCHANGED <<server, torn>>
    BY <1>4 DEF GatherItem, historyVars
  <2>2. ~ReadTwice(t)
    BY <1>1 DEF ReadTwice
  <2>3. saving' = [NotSaving EXCEPT !.torn = FALSE \/ FALSE]
    BY <1>1, <2>1, <2>2 DEF NotSaving
  <2>4. saving' = NotSaving
    BY <2>3 DEF NotSaving
  <2> QED BY <1>1, <2>1, <2>4
<1>5. ASSUME \/ \E t \in Tokens : JoinGame(t) \/ Retire(t) \/ CopyDog(t)
             \/ \E t, o : GatherOffice(t, o)
             \/ Tick \/ EndGather \/ UpdateTrophyState \/ EndTick \/ UNCHANGED vars
      PROVE  UNCHANGED <<server, saving, torn>>
  BY <1>1, <1>2, <1>5 DEF JoinGame, Retire, CopyDog, GatherOffice, Tick, EndGather, UpdateTrophyState,
              EndTick, vars, processVars, historyVars
<1> QED BY <1>1, <1>3, <1>4, <1>5 DEF Next, Gather, Undisturbed

(* A process that nothing goes wrong with does not end. *)
THEOREM FaultlessGoesOn == Faults = {} => (Spec => NeverDown)
<1> SUFFICES ASSUME Faults = {} PROVE Spec => NeverDown
  OBVIOUS
<1>1. Init => Undisturbed
  BY DEF Init, Undisturbed
<1>2. Undisturbed /\ [Next]_vars => Undisturbed'
  BY UndisturbedStep
<1>3. Undisturbed' => ~Down
  BY DEF Undisturbed, Down
<1> QED BY <1>1, <1>2, <1>3, PTL DEF Spec, NeverDown
=============================================================================
