---------------------------- MODULE MCHttpServer ----------------------------
(* Instances of HttpServer for TLC. *)
EXTENDS HttpServer, TLC

CONSTANTS c1, c2

TwoClients == {c1, c2}
OneClient  == {c1}
AllKinds   == {"api", "file"}
NoFaults   == {}
AllFaults  == FaultKinds
SignalFault == {"signal"}
ResetFault  == {"reset"}
TargetFault == {"target"}
AcceptFault == {"accept"}

TwoAndOne == [c \in Clients |-> IF c = c1 THEN 2 ELSE 1]
=============================================================================
