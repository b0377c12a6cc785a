------------------------ MODULE MCCircuitManager ------------------------
(* Model-checking instance of CircuitManager: three loops, an interval that *)
(* StartAutoRotation refuses and one that it takes.                         *)
EXTENDS CircuitManager

MCIntervals == {-1, 1}
==========================================================================
