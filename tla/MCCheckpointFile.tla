-------------------------- MODULE MCCheckpointFile --------------------------
(* Instances of CheckpointFile for TLC. *)
EXTENDS CheckpointFile, TLC

CONSTANTS f1, f2, f3

Files       == {f1, f2, f3}
TickOnly    == {"tick"}
SignalOnly  == {"signal"}
BothWriters == {"tick", "signal"}
CrashFaults == {"crash"}
DiskFaults  == {"full"}
AllFaults   == {"crash", "full"}
NoFaults    == {}

Symmetry == Permutations(Inodes)
=============================================================================
