-------------------------- MODULE MCConnectionPool --------------------------
(* An instance of ConnectionPool for TLC. *)
EXTENDS ConnectionPool

CONSTANTS w1, w2, w3, w4, w5

Workers == {w1, w2, w3, w4, w5}
=============================================================================
