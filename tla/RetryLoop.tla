---------------------------- MODULE RetryLoop ----------------------------
(***************************************************************************)
(* What retryPolicy.run promises to each goroutine that runs it, whatever  *)
(* the attempt consists of: attempts one after the other, as many as there *)
(* are and no more; another one only after an error that is worth it and   *)
(* after a pause, which doubles up to its maximum; and an end with success,*)
(* with an error that was not retried, or in a pause, never in the middle  *)
(* of an attempt.  Client.tla, translated from client.go, where loops are  *)
(* nested and attempts end in other goroutines, implements this.           *)
(***************************************************************************)
EXTENDS Integers

CONSTANTS Loops,      \* goroutines
          Errors,     \* what an attempt can fail with
          RetryOn,    \* the errors that are retried
          Attempts,   \* attempts of a call
          Delay,      \* the first pause
          MaxDelay    \* no pause is longer

VARIABLES phase,   \* per loop: off, ready for an attempt, trying, pausing, or
                   \* the error that its last attempt failed with
          tried,   \* per loop: attempts before this one
          pause    \* per loop: how long the next pause is

retryVars == <<phase, tried, pause>>

RetryInit == /\ phase = [l \in Loops |-> "off"]
             /\ tried = [l \in Loops |-> 0]
             /\ pause = [l \in Loops |-> Delay]

Move(l, from, to) == phase[l] \in from /\ phase' = [phase EXCEPT ![l] = to]

Start(l) == Move(l, {"off"}, "ready") /\ UNCHANGED <<tried, pause>>

Try(l) == Move(l, {"ready"}, "trying") /\ UNCHANGED <<tried, pause>>

(* An attempt fails, or cannot even begin. *)
Fails(l, e) == Move(l, {"ready", "trying"}, e) /\ UNCHANGED <<tried, pause>>

(* The loop ends, and the next call begins anew. *)
Forget(l) == /\ tried' = [tried EXCEPT ![l] = 0]
             /\ pause' = [pause EXCEPT ![l] = Delay]

Succeed(l) == Move(l, {"trying"}, "off") /\ Forget(l)

Again(l) == phase[l] \in RetryOn /\ tried[l] + 1 < Attempts

Pause(l) == Again(l) /\ Move(l, Errors, "pausing") /\ UNCHANGED <<tried, pause>>

Resume(l) == /\ Move(l, {"pausing"}, "ready")
             /\ tried' = [tried EXCEPT ![l] = @ + 1]
             /\ pause' = [pause EXCEPT ![l] = IF 2 * @ > MaxDelay THEN MaxDelay ELSE 2 * @]

(* The loop returns its last error, *)
Surrender(l) == ~Again(l) /\ Move(l, Errors, "off") /\ Forget(l)

(* which may be what the attempt of another loop was waiting for. *)
SurrenderTo(l, k) == /\ ~Again(l) /\ phase[l] \in Errors
                     /\ phase[k] = "trying"
                     /\ phase' = [phase EXCEPT ![l] = "off", ![k] = phase[l]]
                     /\ Forget(l)

(* The context ends the pause, and the loop. *)
Cancelled(l) == Move(l, {"pausing"}, "off") /\ Forget(l)

RetryNext == \E l \in Loops :
               \/ Start(l) \/ Try(l) \/ (\E e \in Errors : Fails(l, e)) \/ Succeed(l)
               \/ Pause(l) \/ Resume(l) \/ Cancelled(l)
               \/ Surrender(l) \/ (\E k \in Loops : SurrenderTo(l, k))

RetrySpec == RetryInit /\ [][RetryNext]_retryVars
==========================================================================
