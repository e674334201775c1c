---------------------------- MODULE Conversation ----------------------------
(***************************************************************************)
(* What a client may rely on: on each connection the server takes one      *)
(* request at a time, answers it before it takes the next one, in order,   *)
(* each at most once, and nothing follows once it has hung up.             *)
(***************************************************************************)
EXTENDS Naturals, Sequences

CONSTANT Clients

VARIABLES
    open,      \* the connections
    asked,     \* per connection: how many requests the server has taken
    answered   \* per connection: the numbers of the requests it has answered

vars == <<open, asked, answered>>

Init ==
    /\ open = {}
    /\ asked = [c \in Clients |-> 0]
    /\ answered = [c \in Clients |-> << >>]

Accept(c) == asked[c] = 0 /\ open' = open \cup {c} /\ UNCHANGED <<asked, answered>>

Ask(c) ==
    /\ c \in open
    /\ Len(answered[c]) = asked[c]
    /\ asked' = [asked EXCEPT ![c] = @ + 1]
    /\ open' \in SUBSET open
    /\ UNCHANGED answered

Answer(c) ==
    /\ c \in open
    /\ Len(answered[c]) < asked[c]
    /\ answered' = [answered EXCEPT ![c] = Append(@, asked[c])]
    /\ open' \in SUBSET open
    /\ UNCHANGED asked

HangUp == open' \in SUBSET open /\ UNCHANGED <<asked, answered>>

Next == HangUp \/ \E c \in Clients : Accept(c) \/ Ask(c) \/ Answer(c)

Spec == Init /\ [][Next]_vars
=============================================================================
