-------------------------- MODULE ConnectionOwners --------------------------
(***************************************************************************)
(* What a pool of connections promises: a thread that has a connection has *)
(* it alone, until it gives it back.                                       *)
(***************************************************************************)
CONSTANTS Threads, Connections, NoConnection

VARIABLE held       \* the connection of each thread

Init == held = [t \in Threads |-> NoConnection]

Acquire(t, c) ==
    /\ held[t] = NoConnection
    /\ \A u \in Threads : held[u] # c
    /\ held' = [held EXCEPT ![t] = c]

Release(t) ==
    /\ held[t] # NoConnection
    /\ held' = [held EXCEPT ![t] = NoConnection]

Next ==
    \E t \in Threads :
        \/ \E c \in Connections : Acquire(t, c)
        \/ Release(t)

Spec == Init /\ [][Next]_held
=============================================================================
