-------------------------- MODULE CircuitManager --------------------------
(***************************************************************************)
(* The automatic rotation of circuit.go: StartAutoRotation, the goroutine  *)
(* autoRotateLoop it starts, and Stop.                                     *)
(*                                                                         *)
(* Each successful StartAutoRotation starts a loop of its own; loops are   *)
(* numbered in that order.  A loop shares with the others the manager's    *)
(* fields: running is read and written under m.mu (one step each), stopCh  *)
(* is a channel that is only ever closed, and rotationTimer is read and    *)
(* written by loops without the mutex, one step for each access.           *)
(*                                                                         *)
(* NewIdentity is external to this module: it returns after a while, and   *)
(* the loop goes on in the same way whether it failed or not.  RotateNow   *)
(* and PrewarmCircuits call it and touch nothing of the manager's state.   *)
(***************************************************************************)
EXTENDS Integers

CONSTANTS MaxStarts,         \* bound: loops ever started
          Intervals,         \* arguments of StartAutoRotation
          RestartAfterStop   \* does the user call Start again after Stop

ASSUME CircuitManagerAssumption ==
  MaxStarts \in Nat /\ Intervals \subseteq Int /\ RestartAfterStop \in BOOLEAN

Loops == 1..MaxStarts

VARIABLES running,        \* m.running
          stopClosed,     \* is m.stopCh closed
          interval,       \* m.rotationInterval
          rotationTimer,  \* m.rotationTimer: the loop that made the timer, or 0
          panicked,       \* the process died on a close of a closed channel
          starts,         \* loops started so far
          pc,             \* per loop, where it is
          timer,          \* per loop, the timer it made
          watched,        \* per loop, the timer its select waits for
          deferred,       \* per loop, the timer its deferred Stop is bound to
          ctxDone,        \* per loop, is its context done
          asked           \* per loop, was Stop called while it was the last one

manager == <<running, stopClosed, interval, panicked, starts, asked>>
vars == <<manager, rotationTimer, pc, timer, watched, deferred, ctxDone>>

Init == /\ running = FALSE
        /\ stopClosed = FALSE
        /\ interval = 0
        /\ rotationTimer = 0
        /\ panicked = FALSE
        /\ starts = 0
        /\ pc = [l \in Loops |-> "unborn"]
        /\ timer = [l \in Loops |-> "none"]
        /\ watched = [l \in Loops |-> 0]
        /\ deferred = [l \in Loops |-> 0]
        /\ ctxDone = [l \in Loops |-> FALSE]
        /\ asked = [l \in Loops |-> FALSE]

(* Faulty variant: m.running is not looked at. *)
StartAutoRotationAnyway(i) ==
  /\ starts < MaxStarts
  /\ stopClosed => RestartAfterStop
  /\ i > 0
  /\ interval' = i
  /\ running' = TRUE
  /\ starts' = starts + 1
  /\ pc' = [pc EXCEPT ![starts + 1] = "new"]
  /\ UNCHANGED <<stopClosed, panicked, asked, rotationTimer, timer, watched, deferred, ctxDone>>

(* StartAutoRotation, when it does not return an error. *)
StartAutoRotation(i) ==
  /\ starts < MaxStarts
  /\ stopClosed => RestartAfterStop
  /\ ~running
  /\ i > 0
  /\ interval' = i
  /\ running' = TRUE
  /\ starts' = starts + 1
  /\ pc' = [pc EXCEPT ![starts + 1] = "new"]
  /\ UNCHANGED <<stopClosed, panicked, asked, rotationTimer, timer, watched, deferred, ctxDone>>

(* Faulty variant: Stop leaves it to the loop to clear m.running. *)
StopKeepsRunning ==
  /\ running
  /\ IF stopClosed THEN panicked' = TRUE /\ UNCHANGED stopClosed
     ELSE stopClosed' = TRUE /\ UNCHANGED panicked
  /\ asked' = [asked EXCEPT ![starts] = TRUE]
  /\ UNCHANGED <<running, interval, starts, rotationTimer, pc, timer, watched, deferred, ctxDone>>

(* Stop: close(m.stopCh) panics when the channel is closed already. *)
Stop == /\ running
        /\ IF stopClosed
           THEN panicked' = TRUE /\ UNCHANGED <<stopClosed, running>>
           ELSE stopClosed' = TRUE /\ running' = FALSE /\ UNCHANGED panicked
        /\ asked' = [asked EXCEPT ![starts] = TRUE]
        /\ UNCHANGED <<interval, starts, rotationTimer, pc, timer, watched, deferred, ctxDone>>

(* The owner of a loop's context cancels it. *)
CancelCtx(l) == /\ pc[l] # "unborn"
                /\ ~ctxDone[l]
                /\ ctxDone' = [ctxDone EXCEPT ![l] = TRUE]
                /\ UNCHANGED <<manager, rotationTimer, pc, timer, watched, deferred>>

Go(l, from, to) == pc[l] = from /\ pc' = [pc EXCEPT ![l] = to]

(* m.rotationTimer = time.NewTimer(m.rotationInterval) *)
MakeTimer(l) == /\ Go(l, "new", "made")
                /\ timer' = [timer EXCEPT ![l] = "running"]
                /\ rotationTimer' = l
                /\ UNCHANGED <<manager, watched, deferred, ctxDone>>

(* defer m.rotationTimer.Stop(): the receiver is read now. *)
DeferStop(l) == /\ Go(l, "made", "top")
                /\ deferred' = [deferred EXCEPT ![l] = rotationTimer]
                /\ UNCHANGED <<manager, rotationTimer, timer, watched, ctxDone>>

(* The select reads the channels it waits for. *)
EnterSelect(l) == /\ Go(l, "top", "select")
                  /\ watched' = [watched EXCEPT ![l] = rotationTimer]
                  /\ UNCHANGED <<manager, rotationTimer, timer, deferred, ctxDone>>

(* A running timer expires. *)
Fire(l) == /\ timer[l] = "running"
           /\ timer' = [timer EXCEPT ![l] = "fired"]
           /\ UNCHANGED <<manager, rotationTimer, pc, watched, deferred, ctxDone>>

(* The three cases of the select; when several are ready any may be taken. *)
SelectCtx(l) == /\ Go(l, "select", "clear")
                /\ ctxDone[l]
                /\ UNCHANGED <<manager, rotationTimer, timer, watched, deferred, ctxDone>>

(* Faulty variant: the select has no case for stopCh. *)
SelectStopMissing(l) == FALSE /\ UNCHANGED vars

SelectStop(l) == /\ Go(l, "select", "clear")
                 /\ stopClosed
                 /\ UNCHANGED <<manager, rotationTimer, timer, watched, deferred, ctxDone>>

SelectTimer(l) == /\ Go(l, "select", "rotate")
                  /\ timer[watched[l]] = "fired"
                  /\ timer' = [timer EXCEPT ![watched[l]] = "drained"]
                  /\ UNCHANGED <<manager, rotationTimer, watched, deferred, ctxDone>>

(* Faulty variant: the loop gives up when NewIdentity fails. *)
RotatedOrQuit(l) == /\ Go(l, "rotate", "reset") \/ Go(l, "rotate", "clear")
                    /\ UNCHANGED <<manager, rotationTimer, timer, watched, deferred, ctxDone>>

(* NewIdentity returns, with or without an error. *)
Rotated(l) == /\ Go(l, "rotate", "reset")
              /\ UNCHANGED <<manager, rotationTimer, timer, watched, deferred, ctxDone>>

(* Faulty variant: the timer is not reset. *)
ResetTimerMissing(l) == /\ Go(l, "reset", "top")
                        /\ UNCHANGED <<manager, rotationTimer, timer, watched, deferred, ctxDone>>

(* m.rotationTimer.Reset(m.rotationInterval) *)
ResetTimer(l) == /\ Go(l, "reset", "top")
                 /\ timer' = [timer EXCEPT ![rotationTimer] = "running"]
                 /\ UNCHANGED <<manager, rotationTimer, watched, deferred, ctxDone>>

(* The loop clears m.running under the mutex, whoever has set it, *)
ClearRunning(l) == /\ Go(l, "clear", "leave")
                   /\ running' = FALSE
                   /\ UNCHANGED <<stopClosed, interval, panicked, starts, asked,
                                  rotationTimer, timer, watched, deferred, ctxDone>>

(* Faulty variant: no deferred Stop. *)
LeaveWithoutStop(l) == /\ Go(l, "leave", "done")
                       /\ UNCHANGED <<manager, rotationTimer, timer, watched, deferred, ctxDone>>

(* and returns: the deferred Stop of its timer runs. *)
Leave(l) == /\ Go(l, "leave", "done")
            /\ timer' = [timer EXCEPT ![deferred[l]] = "stopped"]
            /\ UNCHANGED <<manager, rotationTimer, watched, deferred, ctxDone>>

Step(l) == \/ MakeTimer(l) \/ DeferStop(l) \/ EnterSelect(l) \/ SelectTimer(l)
           \/ Rotated(l) \/ ResetTimer(l) \/ ClearRunning(l) \/ Leave(l)

LoopNext(l) == Step(l) \/ SelectCtx(l) \/ SelectStop(l) \/ Fire(l) \/ CancelCtx(l)

Next == /\ ~panicked
        /\ \/ \E i \in Intervals : StartAutoRotation(i)
           \/ Stop
           \/ \E l \in Loops : LoopNext(l)

(* Goroutines and timers run, NewIdentity returns (every command to the    *)
(* control port has a deadline), and a case of a select that is ready      *)
(* every time is taken some time.  Nobody has to start, stop or cancel.    *)
Fairness == \A l \in Loops : /\ WF_vars(Step(l) /\ ~panicked)
                             /\ WF_vars(Fire(l) /\ ~panicked)
                             /\ SF_vars(SelectCtx(l) /\ ~panicked)
                             /\ SF_vars(SelectStop(l) /\ ~panicked)

SafeSpec == Init /\ [][Next]_vars
Spec == SafeSpec /\ Fairness

--------------------------------------------------------------------------
Rotating == {"new", "made", "top", "select", "rotate", "reset"}
Active   == Rotating \cup {"clear"}

(* Values of the state.  The interval handed to NewTimer is never negative *)
(* (such a timer would fire at once, again and again).                     *)
TypeOK == /\ running \in BOOLEAN /\ stopClosed \in BOOLEAN /\ panicked \in BOOLEAN
          /\ interval \in Nat
          /\ starts \in 0..MaxStarts
          /\ rotationTimer \in 0..MaxStarts
          /\ pc \in [Loops -> Active \cup {"unborn", "leave", "done"}]
          /\ timer \in [Loops -> {"none", "running", "fired", "drained", "stopped"}]
          /\ watched \in [Loops -> 0..MaxStarts]
          /\ deferred \in [Loops -> 0..MaxStarts]
          /\ ctxDone \in [Loops -> BOOLEAN]
          /\ asked \in [Loops -> BOOLEAN]

(* Stop does not bring the process down ("Stop stops automatic circuit     *)
(* rotation if it's running"), whatever runs at that moment.               *)
NoPanic == ~panicked

(* Two loops never rotate the same control connection side by side. *)
SingleLoop == \A k, l \in Loops : pc[k] \in Active /\ pc[l] \in Active => k = l

(* IsRunning tells the truth: it is true only while a loop exists that has *)
(* not finished, and false only once the loop has finished or been told to *)
(* stop.                                                                   *)
RunningIsActive == /\ running => \E l \in Loops : pc[l] \in Active
                   /\ \A l \in Loops : pc[l] \in Active => running \/ asked[l]

(* A loop waits for, resets and finally stops the timer it made, although  *)
(* it reaches it through a field that the next loop overwrites.            *)
OwnTimer == \A l \in Loops :
              /\ pc[l] \in Active \ {"new"} => rotationTimer = l
              /\ pc[l] \in {"select", "rotate", "clear"} => watched[l] = l
              /\ pc[l] \in (Active \ {"new", "made"}) \cup {"leave"} => deferred[l] = l

(* The loops of one manager take turns: whatever is left of the previous    *)
(* one when the next begins (circuit.go 104-116), there is one at a time,   *)
(* IsRunning speaks of it, and the field rotationTimer, which no lock       *)
(* guards, is its own (circuit.go 99-128).                                  *)
LoopsTakeTurns == SingleLoop /\ RunningIsActive /\ OwnTimer

(* "The rotation continues until Stop() is called or the context is        *)
(* canceled": a loop ends for no other reason.  A Stop counts for the loop *)
(* that was running when it was called, not for those started afterwards.  *)
ExitJustified == \A l \in Loops : pc[l] \in {"clear", "leave", "done"}
                                    => ctxDone[l] \/ asked[l]

(* The rotation continues: a loop at its select rotates again unless it is *)
(* cancelled or stopped.                                                   *)
RotationContinues == \A l \in Loops :
                       (pc[l] = "select") ~> (pc[l] = "rotate" \/ ctxDone[l] \/ asked[l])

(* Stop and cancellation end the loop, even if its timer is always ready. *)
EndsWhenTold == \A l \in Loops :
                  (pc[l] \in Active /\ (ctxDone[l] \/ asked[l])) ~> (pc[l] = "done" \/ panicked)

(* A finished loop leaves no timer running behind it. *)
NoTimerLeak == \A l \in Loops : pc[l] = "done" => timer[l] = "stopped"

(* The goroutines, their timers and the shared fields make up the one      *)
(* rotation of Rotation.tla: that of the last loop, until it takes the     *)
(* case of its context or of stopCh (circuit.go 75-130).                   *)
On == starts # 0 /\ pc[starts] \in Rotating

Interval == CASE timer[starts] = "running" -> "waiting"
              [] timer[starts] = "fired"   -> "due"
              [] OTHER                     -> "lost"

Phase == CASE ~On                                              -> "off"
           [] On /\ pc[starts] = "new"                         -> "waiting"
           [] On /\ pc[starts] \in {"made", "top", "select"}    -> Interval
           [] On /\ pc[starts] \in {"rotate", "reset"}          -> "rotating"

Rotator == INSTANCE Rotation
             WITH phase <- Phase, every <- interval,
                  told <- On /\ (ctxDone[starts] \/ asked[starts])
ImplementsRotation == Rotator!RotationSpec
==========================================================================
