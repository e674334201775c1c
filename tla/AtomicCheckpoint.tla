-------------------------- MODULE AtomicCheckpoint --------------------------
(***************************************************************************)
(* What a checkpoint file promises: it changes in one step from one state  *)
(* of the game to a later one, and a server that comes back goes on from   *)
(* the state in it, or from a new game when there is none.                 *)
(***************************************************************************)
EXTENDS Naturals

VARIABLES
    world,    \* the state of the game, by the number of changes; 1 is new
    saved     \* the state in the file, 0 without a file

vars == <<world, saved>>

Init == world = 1 /\ saved = 0

Change == world' = world + 1 /\ UNCHANGED saved

Save == saved' \in saved .. world /\ UNCHANGED world

Restart == world' = (IF saved = 0 THEN 1 ELSE saved) /\ UNCHANGED saved

Next == Change \/ Save \/ Restart

Spec == Init /\ [][Next]_vars
=============================================================================
