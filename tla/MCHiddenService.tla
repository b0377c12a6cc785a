-------------------------- MODULE MCHiddenService --------------------------
(* Model-checking instance of HiddenService: two listeners, on one port or *)
(* on two.                                                                 *)
EXTENDS HiddenService

CONSTANTS l1, l2

MCPorts == [l \in Listeners |-> IF l = l1 THEN {8080} ELSE {8080, 8081}]
=============================================================================
