------------------------ MODULE ConnectionPoolProofs ------------------------
(***************************************************************************)
(* The pool keeps its promise for every number of threads and connections. *)
(***************************************************************************)
EXTENDS ConnectionPool, FiniteSetTheorems, TLAPS

(* The sets In(s) are finite, so that they can be counted. *)
LEMMA InFinite ==
    ASSUME NEW s
    PROVE  IsFiniteSet(In(s)) /\ Cardinality(In(s)) \in Nat
<1>1. IsFiniteSet(In(s))
  BY PoolAssumption, FS_Subset DEF In
<1> QED BY <1>1, FS_CardinalityType

(* One thread that goes to s joins In(s) and leaves every other set. *)
LEMMA OneMoves ==
    ASSUME TypeOK, NEW t \in Threads, NEW s \in States,
           state' = [state EXCEPT ![t] = s]
    PROVE  /\ state' \in [Threads -> States]
           /\ In(s)' = In(s) \cup {t}
           /\ \A r \in States : r # s => In(r)' = In(r) \ {t}
BY DEF TypeOK, In

(* What that does to the sizes of the sets. *)
LEMMA OneCounted ==
    ASSUME TypeOK, NEW t \in Threads, NEW r \in States, NEW s \in States,
           r # s, state[t] = r, state' = [state EXCEPT ![t] = s]
    PROVE  /\ Cardinality(In(s)') = Cardinality(In(s)) + 1
           /\ Cardinality(In(r)') = Cardinality(In(r)) - 1
           /\ \A q \in States \ {r, s} : In(q)' = In(q)
           /\ Cardinality(In(r)) >= 1
<1>1. /\ In(s)' = In(s) \cup {t} /\ In(r)' = In(r) \ {t}
      /\ \A q \in States \ {r, s} : In(q)' = In(q) \ {t}
  BY OneMoves
<1>2. t \in In(r) /\ t \notin In(s) /\ \A q \in States \ {r, s} : t \notin In(q)
  BY DEF In
<1>3. Cardinality(In(s)') = Cardinality(In(s)) + 1
  BY <1>1, <1>2, InFinite, FS_AddElement
<1>4. Cardinality(In(r)') = Cardinality(In(r)) - 1
  BY <1>1, <1>2, InFinite, FS_RemoveElement
<1>5. Cardinality(In(r)) >= 1
  <2>1. Cardinality(In(r)) # 0
    BY <1>2, InFinite, FS_EmptySet
  <2> QED BY <2>1, InFinite
<1> QED BY <1>1, <1>2, <1>3, <1>4, <1>5

-----------------------------------------------------------------------------
(* The vector, the counter and the wrappers, step by step. *)

LEMMA InitIInv == Init => IInv
<1> SUFFICES ASSUME Init PROVE IInv
  OBVIOUS
<1>1. TypeOK
  BY PoolAssumption DEF Init, TypeOK, Connections, Moved, States
<1>2. In("using") = {}
  BY DEF Init, In
<1>3. UsedCounted
  BY <1>2, FS_EmptySet DEF Init, UsedCounted, Connections, Moved
<1>4. Stacked
  BY DEF Init, Stacked, Connections, Moved
<1> QED BY <1>1, <1>3, <1>4 DEF IInv

LEMMA GetConnectionIInv ==
    ASSUME IInv, NEW t \in Threads, GetConnection(t)
    PROVE  IInv'
<1> DEFINE u == used_connections
<1>1. /\ u \in Connections /\ u \in Nat /\ pool[u] \in Connections
      /\ held[t] = Moved /\ state[t] # "using"
  <2>1. u \in Connections /\ u \in Nat
    BY PoolAssumption DEF IInv, TypeOK, GetConnection, HasFree, Connections
  <2>2. pool[u] \in Connections
    BY <2>1 DEF IInv, TypeOK, Stacked
  <2>3. state[t] # "using" /\ held[t] \notin Connections
    BY DEF IInv, UsedCounted, GetConnection, Looking
  <2> QED BY <2>1, <2>2, <2>3 DEF IInv, TypeOK
<1>2. /\ pool' = [pool EXCEPT ![u] = Moved] /\ u' = u + 1
      /\ held' = [held EXCEPT ![t] = pool[u]]
      /\ state' = [state EXCEPT ![t] = "using"]
  BY DEF GetConnection, TakeTop
<1>3. TypeOK'
  <2>1. u + 1 \in 0 .. Capacity
    BY <1>1, PoolAssumption DEF Connections
  <2> QED BY <1>1, <1>2, <2>1 DEF IInv, TypeOK, States
<1>4. UsedCounted'
  <2>1. PICK r \in States : r = state[t]
    BY DEF IInv, TypeOK
  <2>2. Cardinality(In("using")') = Cardinality(In("using")) + 1
    BY <1>1, <1>2, <2>1, OneCounted DEF IInv, States
  <2>3. \A w \in Threads : state'[w] = "using" <=> held'[w] \in Connections
    BY <1>1, <1>2 DEF IInv, TypeOK, UsedCounted
  <2> QED BY <1>2, <2>2, <2>3 DEF IInv, UsedCounted
<1>5. Stacked'
  <2>1. \A i \in Connections : i # u => pool'[i] = pool[i]
    BY <1>2 DEF IInv, TypeOK
  <2>2. pool'[u] = Moved
    BY <1>1, <1>2 DEF IInv, TypeOK
  <2>3. \A w \in Threads : w # t => held'[w] = held[w]
    BY <1>2 DEF IInv, TypeOK
  <2>4. held'[t] = pool[u]
    BY <1>2 DEF IInv, TypeOK
  <2>5. \A i \in Connections : pool'[i] = Moved <=> i < u'
    BY <1>1, <1>2, <2>1, <2>2 DEF IInv, Stacked, Connections
  <2>6. \A i, j \in Connections : pool'[i] = pool'[j] => i = j \/ pool'[i] = Moved
    BY <2>1, <2>2 DEF IInv, Stacked
  <2>7. \A v, w \in Threads : held'[v] = held'[w] => v = w \/ held'[v] = Moved
    BY <1>1, <2>3, <2>4 DEF IInv, Stacked
  <2>8. \A i \in Connections, w \in Threads : pool'[i] = held'[w] => pool'[i] = Moved
    BY <1>1, <2>1, <2>2, <2>3, <2>4 DEF IInv, Stacked
  <2> QED BY <2>5, <2>6, <2>7, <2>8 DEF Stacked
<1> QED BY <1>3, <1>4, <1>5 DEF IInv

LEMMA ReturnConnectionIInv ==
    ASSUME IInv, NEW t \in Threads, ReturnConnection(t)
    PROVE  IInv' /\ used_connections # 0
<1> DEFINE u == used_connections - 1
<1>1. /\ Cardinality(In("notifying")') = Cardinality(In("notifying")) + 1
      /\ Cardinality(In("using")') = Cardinality(In("using")) - 1
      /\ Cardinality(In("using")) >= 1
  BY OneCounted DEF IInv, States, ReturnConnection
<1>2. /\ u \in Connections /\ used_connections \in Nat /\ used_connections # 0
      /\ held[t] \in Connections /\ state[t] = "using"
  <2>1. used_connections \in 1 .. Capacity
    BY <1>1, InFinite, PoolAssumption DEF IInv, TypeOK, UsedCounted
  <2>2. u \in Connections /\ used_connections \in Nat /\ used_connections # 0
    BY <2>1, PoolAssumption DEF Connections
  <2> QED BY <2>2 DEF IInv, UsedCounted, ReturnConnection
<1>3. /\ pool' = [pool EXCEPT ![u] = held[t]] /\ used_connections' = u
      /\ held' = [held EXCEPT ![t] = Moved]
      /\ state' = [state EXCEPT ![t] = "notifying"]
  BY DEF ReturnConnection, PutBack
<1>4. TypeOK'
  <2>1. u \in 0 .. Capacity
    BY <1>2, PoolAssumption DEF Connections
  <2> QED BY <1>2, <1>3, <2>1 DEF IInv, TypeOK, States
<1>5. UsedCounted'
  <2>1. Moved \notin Connections
    BY DEF Moved, Connections
  <2>2. \A w \in Threads : state'[w] = "using" <=> held'[w] \in Connections
    BY <1>2, <1>3, <2>1 DEF IInv, TypeOK, UsedCounted
  <2> QED BY <1>1, <1>3, <2>2 DEF IInv, UsedCounted
<1>6. Stacked'
  <2>1. \A i \in Connections : i # u => pool'[i] = pool[i]
    BY <1>3 DEF IInv, TypeOK
  <2>2. pool'[u] = held[t] /\ held[t] # Moved
    BY <1>2, <1>3 DEF IInv, TypeOK, Moved, Connections
  <2>3. \A w \in Threads : w # t => held'[w] = held[w]
    BY <1>3 DEF IInv, TypeOK
  <2>4. held'[t] = Moved
    BY <1>3 DEF IInv, TypeOK
  <2>5. \A i \in Connections : pool'[i] = Moved <=> i < used_connections'
    BY <1>2, <1>3, <2>1, <2>2 DEF IInv, Stacked, Connections
  <2>6. \A i, j \in Connections : pool'[i] = pool'[j] => i = j \/ pool'[i] = Moved
    BY <2>1, <2>2 DEF IInv, Stacked
  <2>7. \A v, w \in Threads : held'[v] = held'[w] => v = w \/ held'[v] = Moved
    BY <2>3, <2>4 DEF IInv, Stacked
  <2>8. \A i \in Connections, w \in Threads : pool'[i] = held'[w] => pool'[i] = Moved
    BY <2>1, <2>2, <2>3, <2>4 DEF IInv, Stacked
  <2> QED BY <2>5, <2>6, <2>7, <2>8 DEF Stacked
<1> QED BY <1>2, <1>4, <1>5, <1>6 DEF IInv

(* Going to sleep, waking up and notifying leave the connections alone. *)
LEMMA RestIInv ==
    ASSUME IInv, UNCHANGED <<pool, used_connections, held>>,
           state' \in [Threads -> States],
           \A t \in Threads : state'[t] = "using" <=> state[t] = "using"
    PROVE  IInv'
<1>1. In("using")' = In("using")
  BY DEF In
<1>2. TypeOK'
  BY DEF IInv, TypeOK
<1>3. UsedCounted'
  BY <1>1 DEF IInv, UsedCounted
<1>4. Stacked'
  BY DEF IInv, Stacked
<1> QED BY <1>2, <1>3, <1>4 DEF IInv

LEMMA NextIInv == IInv /\ [Next]_vars => IInv'
<1> SUFFICES ASSUME IInv, [Next]_vars PROVE IInv'
  OBVIOUS
<1>1. CASE UNCHANGED vars
  BY <1>1, RestIInv DEF vars, IInv, TypeOK
<1>2. ASSUME NEW t \in Threads, Step(t) PROVE IInv'
  <2>1. CASE GetConnection(t)
    BY <2>1, GetConnectionIInv
  <2>2. CASE ReturnConnection(t)
    BY <2>2, ReturnConnectionIInv
  <2>3. CASE Wait(t)
    BY <2>3, RestIInv DEF Wait, Looking, IInv, TypeOK, States
  <2>4. CASE SpuriousWakeup(t)
    BY <2>4, RestIInv DEF SpuriousWakeup, IInv, TypeOK, States
  <2>5. CASE NotifyOne(t)
    <3>1. CASE state' = [state EXCEPT ![t] = "outside"]
      BY <2>5, <3>1, RestIInv DEF NotifyOne, IInv, TypeOK, States
    <3>2. CASE \E w \in In("asleep") :
                  state' = [state EXCEPT ![t] = "outside", ![w] = "woken"]
      BY <2>5, <3>2, RestIInv DEF NotifyOne, In, IInv, TypeOK, States
    <3> QED BY <2>5, <3>1, <3>2 DEF NotifyOne
  <2> QED BY <1>2, <2>1, <2>2, <2>3, <2>4, <2>5 DEF Step
<1> QED BY <1>1, <1>2 DEF Next

(* The variables keep their types, no slot outside the vector is written. *)
THEOREM PoolTypeCorrect == Spec => []TypeOK
<1>1. IInv => TypeOK
  BY DEF IInv
<1> QED BY <1>1, InitIInv, NextIInv, PTL DEF Spec

(* The assertion of ReturnConnection never fails, and a thread that uses the
   database holds a connection. *)
THEOREM AlwaysUsedCounted == Spec => []UsedCounted
<1>1. IInv => UsedCounted
  BY DEF IInv
<1> QED BY <1>1, InitIInv, NextIInv, PTL DEF Spec

(* The free part of the vector and the wrappers share no connection. *)
THEOREM AlwaysStacked == Spec => []Stacked
<1>1. IInv => Stacked
  BY DEF IInv
<1> QED BY <1>1, InitIInv, NextIInv, PTL DEF Spec

-----------------------------------------------------------------------------
(* The pool implements ConnectionOwners. *)

LEMMA OwnersStep == IInv /\ [Next]_vars => [Owners!Next]_held
<1> SUFFICES ASSUME IInv, [Next]_vars PROVE [Owners!Next]_held
  OBVIOUS
<1>1. CASE UNCHANGED vars
  BY <1>1 DEF vars
<1>2. ASSUME NEW t \in Threads, Step(t) PROVE Owners!Next \/ UNCHANGED held
  <2>1. CASE GetConnection(t)
    <3> DEFINE c == pool[used_connections]
    <3>1. /\ used_connections \in Connections /\ c \in Connections
          /\ held[t] = Moved /\ c # Moved
      <4>1. used_connections \in Connections
        BY <2>1, PoolAssumption
        DEF IInv, TypeOK, GetConnection, HasFree, Connections
      <4>2. c \in Connections /\ c # Moved
        BY <4>1 DEF IInv, TypeOK, Stacked, Connections
      <4>3. held[t] \notin Connections
        BY <2>1 DEF IInv, UsedCounted, GetConnection, Looking
      <4> QED BY <4>1, <4>2, <4>3 DEF IInv, TypeOK
    <3>2. \A w \in Threads : held[w] # c
      BY <3>1 DEF IInv, Stacked
    <3>3. Owners!Acquire(t, c)
      BY <2>1, <3>1, <3>2 DEF Owners!Acquire, GetConnection, TakeTop
    <3> QED BY <3>1, <3>3 DEF Owners!Next
  <2>2. CASE ReturnConnection(t)
    <3>1. held[t] # Moved
      BY <2>2 DEF IInv, UsedCounted, ReturnConnection, Connections, Moved
    <3>2. Owners!Release(t)
      BY <2>2, <3>1 DEF Owners!Release, ReturnConnection
    <3> QED BY <3>2 DEF Owners!Next
  <2>3. CASE Wait(t) \/ SpuriousWakeup(t) \/ NotifyOne(t)
    BY <2>3 DEF Wait, SpuriousWakeup, NotifyOne
  <2> QED BY <1>2, <2>1, <2>2, <2>3 DEF Step
<1> QED BY <1>1, <1>2 DEF Next

(* Every behaviour of the pool is one of ConnectionOwners: a connection has
   one owner at a time. *)
THEOREM PoolImplementsOwners == Spec => OneOwner
<1>1. Init => Owners!Init
  BY DEF Init, Owners!Init
<1> QED BY <1>1, InitIInv, NextIInv, OwnersStep, PTL
        DEF Spec, OneOwner, Owners!Spec

-----------------------------------------------------------------------------
(* No wakeup is lost. *)

WInv == IInv /\ NoLostWakeup

LEMMA WakeupStep ==
    ASSUME WInv, NEW t \in Threads, Step(t)
    PROVE  NoLostWakeup'
<1> DEFINE Free     == Capacity - used_connections
           Notifier == Cardinality(In("notifying"))
           Woken    == Cardinality(In("woken"))
<1>1. /\ TypeOK /\ used_connections \in 0 .. Capacity /\ Capacity \in Nat
      /\ In("asleep") # {} => Free <= Notifier + Woken
      /\ Notifier \in Nat /\ Woken \in Nat
  BY InFinite, PoolAssumption DEF WInv, IInv, TypeOK, NoLostWakeup
<1>2. CASE GetConnection(t)
  <2>1. /\ Free' = Free - 1 /\ state' = [state EXCEPT ![t] = "using"]
        /\ state[t] = "outside" \/ state[t] = "woken"
    BY <1>1, <1>2 DEF GetConnection, TakeTop, Looking
  <2>2. CASE state[t] = "outside"
    <3>1. /\ In("asleep")' = In("asleep") /\ In("notifying")' = In("notifying")
          /\ In("woken")' = In("woken")
      BY <1>1, <2>1, <2>2, OneCounted DEF States
    <3> QED BY <1>1, <2>1, <3>1 DEF NoLostWakeup
  <2>3. CASE state[t] = "woken"
    <3>1. /\ In("asleep")' = In("asleep") /\ In("notifying")' = In("notifying")
          /\ Woken' = Woken - 1
      BY <1>1, <2>1, <2>3, OneCounted DEF States
    <3> QED BY <1>1, <2>1, <3>1 DEF NoLostWakeup
  <2> QED BY <2>1, <2>2, <2>3
<1>3. CASE Wait(t)
  <2>1. Free' = 0
    BY <1>1, <1>3 DEF Wait, HasFree
  <2>2. Notifier' \in Nat /\ Woken' \in Nat
    <3>1. state' \in [Threads -> States]
      BY <1>1, <1>3 DEF Wait, TypeOK, States
    <3>2. IsFiniteSet(In("notifying")') /\ IsFiniteSet(In("woken")')
      BY PoolAssumption, FS_Subset DEF In
    <3> QED BY <3>2, FS_CardinalityType
  <2> QED BY <2>1, <2>2 DEF NoLostWakeup
<1>4. CASE SpuriousWakeup(t)
  <2>1. /\ t \in In("asleep") /\ Free' = Free
        /\ state[t] = "asleep" /\ state' = [state EXCEPT ![t] = "woken"]
    BY <1>4 DEF SpuriousWakeup, In
  <2>2. In("notifying")' = In("notifying") /\ Woken' = Woken + 1
    BY <1>1, <2>1, OneCounted DEF States
  <2> QED BY <1>1, <2>1, <2>2 DEF NoLostWakeup
<1>5. CASE ReturnConnection(t)
  <2>1. /\ Free' = Free + 1 /\ state[t] = "using"
        /\ state' = [state EXCEPT ![t] = "notifying"]
    BY <1>1, <1>5 DEF ReturnConnection
  <2>2. /\ In("asleep")' = In("asleep") /\ In("woken")' = In("woken")
        /\ Notifier' = Notifier + 1
    BY <1>1, <2>1, OneCounted DEF States
  <2> QED BY <1>1, <2>1, <2>2 DEF NoLostWakeup
<1>6. CASE NotifyOne(t)
  <2>1. Free' = Free /\ state[t] = "notifying"
    BY <1>6 DEF NotifyOne
  <2>2. CASE In("asleep") = {} /\ state' = [state EXCEPT ![t] = "outside"]
    <3>1. In("asleep")' = {}
      BY <1>1, <2>1, <2>2, OneCounted DEF States
    <3> QED BY <3>1 DEF NoLostWakeup
  <2>3. ASSUME NEW u \in In("asleep"),
               state' = [state EXCEPT ![t] = "outside", ![u] = "woken"]
        PROVE  NoLostWakeup'
    <3>1. /\ In("notifying")' = In("notifying") \ {t}
          /\ In("woken")' = In("woken") \cup {u}
          /\ t \in In("notifying") /\ u \notin In("woken")
      BY <1>1, <2>1, <2>3 DEF In, TypeOK
    <3>2. Notifier' = Notifier - 1
      BY <3>1, InFinite, FS_RemoveElement
    <3>3. Woken' = Woken + 1
      BY <3>1, InFinite, FS_AddElement
    <3> QED BY <1>1, <2>1, <2>3, <3>2, <3>3 DEF NoLostWakeup
  <2> QED BY <1>6, <2>2, <2>3 DEF NotifyOne
<1> QED BY <1>2, <1>3, <1>4, <1>5, <1>6 DEF Step

(* As long as a thread sleeps, every free connection has a thread that is
   about to notify or has been woken for it. *)
THEOREM WakeupsNeverLost == Spec => []NoLostWakeup
<1>1. Init => NoLostWakeup
  BY DEF Init, NoLostWakeup, In
<1>2. IInv /\ NoLostWakeup /\ [Next]_vars => NoLostWakeup'
  <2> SUFFICES ASSUME IInv, NoLostWakeup, [Next]_vars PROVE NoLostWakeup'
    OBVIOUS
  <2>1. CASE UNCHANGED vars
    BY <2>1 DEF vars, NoLostWakeup, In
  <2>2. CASE Next
    BY <2>2, WakeupStep DEF Next, WInv
  <2> QED BY <2>1, <2>2
<1> QED BY <1>1, <1>2, InitIInv, NextIInv, PTL DEF Spec
=============================================================================
