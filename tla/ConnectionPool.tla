--------------------------- MODULE ConnectionPool ---------------------------
(***************************************************************************)
(* The pool of database connections (db_connector.h).  Connections are     *)
(* taken from a vector and put back into it as on a stack; a thread that   *)
(* finds none sleeps on a condition variable.  Each critical section of    *)
(* the mutex is one action; notify_one comes after the unlock and is an    *)
(* action of its own.  A wakeup may be spurious, and a thread that has     *)
(* been woken may find that another was faster.                            *)
(*                                                                         *)
(* Database::WriteToBD and Database::GetRecords use the pool, both through *)
(* ConnectionWrapper, whose destructor returns the connection whether the  *)
(* transaction was committed or threw.                                     *)
(***************************************************************************)
EXTENDS Integers, FiniteSets

CONSTANTS
    Threads,    \* the threads that use the database
    Capacity    \* the number of connections

ASSUME PoolAssumption == IsFiniteSet(Threads) /\ Capacity \in Nat \ {0}

Connections == 0 .. (Capacity - 1)
Moved == -1     \* what std::move leaves in a shared_ptr

VARIABLES
    pool,               \* pool_: index -> connection
    used_connections,   \* used_connections_
    state,              \* where each thread is
    held                \* conn_ of the wrapper of each thread

vars == <<pool, used_connections, state, held>>

In(s) == {t \in Threads : state[t] = s}

-----------------------------------------------------------------------------
HasFree == used_connections < Capacity

(* GetConnection, by a thread that comes or one that has been woken. *)
Looking(t) == state[t] = "outside" \/ state[t] = "woken"

(* Mutant: the connection is copied and not counted. *)
TakeCopy(t) ==
    /\ held' = [held EXCEPT ![t] = pool[used_connections]]
    /\ UNCHANGED <<pool, used_connections>>
TakeTop(t) ==
    /\ used_connections' = used_connections + 1
    /\ held' = [held EXCEPT ![t] = pool[used_connections]]
    /\ pool' = [pool EXCEPT ![used_connections] = Moved]

GetConnection(t) ==
    /\ Looking(t)
    /\ HasFree
    /\ TakeTop(t)
    /\ state' = [state EXCEPT ![t] = "using"]

Wait(t) ==
    /\ Looking(t)
    /\ ~HasFree
    /\ state' = [state EXCEPT ![t] = "asleep"]
    /\ UNCHANGED <<pool, used_connections, held>>

SpuriousWakeup(t) ==
    /\ state[t] = "asleep"
    /\ state' = [state EXCEPT ![t] = "woken"]
    /\ UNCHANGED <<pool, used_connections, held>>

(* Mutant: used-- for --used. *)
PutAbove(t) == pool' = [pool EXCEPT ![used_connections] = held[t]]
PutBack(t)  == pool' = [pool EXCEPT ![used_connections - 1] = held[t]]

ReturnConnection(t) ==
    /\ state[t] = "using"
    /\ PutBack(t)
    /\ used_connections' = used_connections - 1
    /\ held' = [held EXCEPT ![t] = Moved]
    /\ state' = [state EXCEPT ![t] = "notifying"]

(* Mutant: nobody is notified. *)
NotifyNobody(t) ==
    /\ state[t] = "notifying"
    /\ state' = [state EXCEPT ![t] = "outside"]
    /\ UNCHANGED <<pool, used_connections, held>>

NotifyOne(t) ==
    /\ state[t] = "notifying"
    /\ \/ /\ In("asleep") = {}
          /\ state' = [state EXCEPT ![t] = "outside"]
       \/ \E u \in In("asleep") :
             state' = [state EXCEPT ![t] = "outside", ![u] = "woken"]
    /\ UNCHANGED <<pool, used_connections, held>>

-----------------------------------------------------------------------------
Init ==
    /\ pool = [i \in Connections |-> i]
    /\ used_connections = 0
    /\ state = [t \in Threads |-> "outside"]
    /\ held = [t \in Threads |-> Moved]

Step(t) ==
    \/ GetConnection(t) \/ Wait(t) \/ SpuriousWakeup(t)
    \/ ReturnConnection(t) \/ NotifyOne(t)

Next == \E t \in Threads : Step(t)

Spec == Init /\ [][Next]_vars
-----------------------------------------------------------------------------
States == {"outside", "asleep", "woken", "using", "notifying"}

(* Every variable has its type. *)
TypeOK ==
    /\ pool \in [Connections -> Connections \cup {Moved}]
    /\ used_connections \in 0 .. Capacity
    /\ state \in [Threads -> States]
    /\ held \in [Threads -> Connections \cup {Moved}]

(* The assertion of ReturnConnection, "used_connections_ != 0", and that a
   thread which uses the database has a connection and not an empty pointer:
   as many connections are counted as used as there are threads that hold one. *)
UsedCounted ==
    /\ used_connections = Cardinality(In("using"))
    /\ \A t \in Threads : state[t] = "using" <=> held[t] \in Connections

(* No wakeup is lost, although notify_one comes after the unlock: as long as a
   thread sleeps, every free connection has a thread that is about to notify or
   has been woken for it. *)
NoLostWakeup ==
    In("asleep") # {} =>
        Capacity - used_connections
            <= Cardinality(In("notifying")) + Cardinality(In("woken"))

(* The free connections are on top of the vector, and no connection is there
   twice, held twice, or both there and held. *)
Stacked ==
    /\ \A i \in Connections : pool[i] = Moved <=> i < used_connections
    /\ \A i, j \in Connections : pool[i] = pool[j] => i = j \/ pool[i] = Moved
    /\ \A t, u \in Threads : held[t] = held[u] => t = u \/ held[t] = Moved
    /\ \A i \in Connections, t \in Threads : pool[i] = held[t] => pool[i] = Moved

Owners == INSTANCE ConnectionOwners WITH NoConnection <- Moved

(* A connection has one owner at a time. *)
OneOwner == Owners!Spec

IInv == TypeOK /\ UsedCounted /\ Stacked
=============================================================================
