---------------------------- MODULE Rotation ----------------------------
(***************************************************************************)
(* What a CircuitManager promises to its user: at most one rotation at a   *)
(* time, at an interval that is positive and stays what it was when the    *)
(* rotation began; one new identity for every interval that has passed,    *)
(* the next interval counted from its end; and an end only when somebody   *)
(* asked for one.  There is one process and one timer here.                *)
(* CircuitManager.tla, translated from circuit.go, has a goroutine for     *)
(* every Start, fields they share, and implements this specification as    *)
(* long as it is not started again after Stop.                             *)
(***************************************************************************)
EXTENDS Integers

VARIABLES phase,   \* off, waiting for the interval to pass, due, or rotating
          every,   \* the interval
          told     \* has the rotation that is on been told to end

rotationVars == <<phase, every, told>>

RotationInit == phase = "off" /\ every = 0 /\ told = FALSE

(* A rotation begins.  Nobody has told it anything yet. *)
Begin == /\ phase = "off"
         /\ phase' = "waiting"
         /\ every' \in Nat \ {0}
         /\ told' = FALSE

(* The interval has passed. *)
Due == phase = "waiting" /\ phase' = "due" /\ UNCHANGED <<every, told>>

(* The new identity is asked for, *)
Rotate == phase = "due" /\ phase' = "rotating" /\ UNCHANGED <<every, told>>

(* and whatever came of it the next interval begins. *)
Again == phase = "rotating" /\ phase' = "waiting" /\ UNCHANGED <<every, told>>

(* The user stops the rotation or cancels its context. *)
Tell == phase # "off" /\ told' = TRUE /\ UNCHANGED <<phase, every>>

(* A rotation that was told to ends, never while it is changing identity. *)
End == /\ phase \in {"waiting", "due"}
       /\ told
       /\ phase' = "off"
       /\ told' = FALSE
       /\ UNCHANGED every

RotationNext == Begin \/ Due \/ Rotate \/ Again \/ Tell \/ End

RotationSpec == RotationInit /\ [][RotationNext]_rotationVars
==========================================================================
