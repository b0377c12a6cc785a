----------------------- MODULE CircuitManager_proof -----------------------
(***************************************************************************)
(* Proofs about CircuitManager: what holds of it as long as its user does  *)
(* not start it again after Stop, for any number of restarts after a       *)
(* cancelled context.  Without that condition NoPanic and ExitJustified    *)
(* fail (see the runs that expect a violation).                            *)
(***************************************************************************)
EXTENDS CircuitManager, TLAPS

(* The loops but the last one have given up the manager, and a closed stopCh *)
(* means that the last one was told to stop.  This is what makes the writes  *)
(* of m.running by a loop harmless: it is always the loop that set it.       *)
LastLoop == /\ \A l \in Loops : pc[l] = "unborn" <=> l > starts
            /\ \A l \in Loops : pc[l] \in Active => l = starts
            /\ running => starts \in Loops /\ pc[starts] \in Active

Told == /\ stopClosed => ~running
        /\ \A l \in Loops : asked[l] => stopClosed
        /\ \A l \in Loops : pc[l] \in Active => running \/ asked[l]
        /\ \A l \in Loops : pc[l] = "unborn" => ~asked[l]

IInv == TypeOK /\ NoPanic /\ LastLoop /\ Told /\ ExitJustified /\ OwnTimer /\ NoTimerLeak

LEMMA InitIInv == Init => IInv
<1>. SUFFICES ASSUME Init PROVE IInv
  OBVIOUS
<1>1. TypeOK
  <2>1. 0 \in Int /\ 0 \in 0..MaxStarts
    BY CircuitManagerAssumption
  <2>. QED  BY <2>1 DEF Init, TypeOK, Active, Rotating
<1>2. LastLoop
  BY CircuitManagerAssumption DEF Init, LastLoop, Loops, Active, Rotating
<1>3. NoPanic /\ Told /\ ExitJustified /\ OwnTimer /\ NoTimerLeak
  BY DEF Init, NoPanic, Told, ExitJustified, OwnTimer, NoTimerLeak, Active, Rotating
<1>. QED  BY <1>1, <1>2, <1>3 DEF IInv

(* A start: the loop before has finished, for only it could clear running. *)
LEMMA StartKeepsIInv ==
  ASSUME ~RestartAfterStop, IInv, NEW i \in Intervals, StartAutoRotation(i)
  PROVE  IInv'
<1>. DEFINE n == starts + 1
<1>1. n \in Loops /\ pc[n] = "unborn" /\ ~running /\ ~stopClosed
  BY CircuitManagerAssumption DEF StartAutoRotation, IInv, TypeOK, LastLoop, Loops
<1>2. \A l \in Loops : pc[l] \notin Active
  BY <1>1 DEF IInv, Told
<1>3. pc' = [pc EXCEPT ![n] = "new"] /\ running' /\ starts' = n
  BY DEF StartAutoRotation
<1>. USE <1>1, <1>2, <1>3
<1>4. TypeOK'
  BY CircuitManagerAssumption DEF StartAutoRotation, IInv, TypeOK, Loops, Active, Rotating
<1>5. LastLoop'
  BY DEF StartAutoRotation, IInv, TypeOK, LastLoop, Loops, Active, Rotating
<1>6. Told' /\ NoPanic'
  BY DEF StartAutoRotation, IInv, TypeOK, Told, NoPanic
<1>7. ExitJustified' /\ OwnTimer' /\ NoTimerLeak'
  BY DEF StartAutoRotation, IInv, TypeOK, ExitJustified, OwnTimer, NoTimerLeak, Active, Rotating
<1>. QED  BY <1>4, <1>5, <1>6, <1>7 DEF IInv

(* A Stop: running means that the channel is still open. *)
LEMMA StopKeepsIInv ==
  ASSUME IInv, Stop PROVE IInv'
<1>1. /\ starts \in Loops /\ ~stopClosed
      /\ stopClosed' = TRUE /\ running' = FALSE /\ UNCHANGED panicked
      /\ asked' = [asked EXCEPT ![starts] = TRUE]
  BY DEF Stop, IInv, LastLoop, Told
<1>. QED  BY <1>1
  DEF Stop, IInv, TypeOK, NoPanic, LastLoop, Told, ExitJustified, OwnTimer, NoTimerLeak,
      Active, Rotating, Loops

(* A step of a loop.  Everything it touches is its own: the field holds its  *)
(* timer, and no other loop is active.                                       *)
LEMMA LoopKeepsIInv ==
  ASSUME IInv, NEW l \in Loops, LoopNext(l) PROVE IInv'
<1>. USE DEF Go, manager, Active, Rotating
<1>1. CASE MakeTimer(l)
  <2>1. TypeOK' /\ NoPanic'
    BY <1>1 DEF MakeTimer, IInv, TypeOK, NoPanic, Loops
  <2>2. LastLoop' /\ Told'
    BY <1>1 DEF MakeTimer, IInv, TypeOK, LastLoop, Told, Loops
  <2>3. ExitJustified' /\ OwnTimer' /\ NoTimerLeak'
    BY <1>1 DEF MakeTimer, IInv, TypeOK, LastLoop, ExitJustified, OwnTimer, NoTimerLeak
  <2>. QED  BY <2>1, <2>2, <2>3 DEF IInv
<1>2. CASE DeferStop(l)
  <2>1. TypeOK' /\ NoPanic'
    BY <1>2 DEF DeferStop, IInv, TypeOK, NoPanic, Loops
  <2>2. LastLoop' /\ Told'
    BY <1>2 DEF DeferStop, IInv, TypeOK, LastLoop, Told, Loops
  <2>3. ExitJustified' /\ OwnTimer' /\ NoTimerLeak'
    BY <1>2 DEF DeferStop, IInv, TypeOK, LastLoop, ExitJustified, OwnTimer, NoTimerLeak
  <2>. QED  BY <2>1, <2>2, <2>3 DEF IInv
<1>3. CASE EnterSelect(l)
  <2>1. TypeOK' /\ NoPanic'
    BY <1>3 DEF EnterSelect, IInv, TypeOK, NoPanic, Loops
  <2>2. LastLoop' /\ Told'
    BY <1>3 DEF EnterSelect, IInv, TypeOK, LastLoop, Told, Loops
  <2>3. ExitJustified' /\ OwnTimer' /\ NoTimerLeak'
    BY <1>3 DEF EnterSelect, IInv, TypeOK, LastLoop, ExitJustified, OwnTimer, NoTimerLeak
  <2>. QED  BY <2>1, <2>2, <2>3 DEF IInv
<1>4. CASE SelectTimer(l)
  <2>1. watched[l] = l
    BY <1>4 DEF SelectTimer, IInv, OwnTimer
  <2>2. TypeOK' /\ NoPanic'
    BY <1>4, <2>1 DEF SelectTimer, IInv, TypeOK, NoPanic, Loops
  <2>3. LastLoop' /\ Told'
    BY <1>4, <2>1 DEF SelectTimer, IInv, TypeOK, LastLoop, Told, Loops
  <2>4. ExitJustified' /\ OwnTimer' /\ NoTimerLeak'
    BY <1>4, <2>1 DEF SelectTimer, IInv, TypeOK, LastLoop, ExitJustified, OwnTimer, NoTimerLeak
  <2>. QED  BY <2>2, <2>3, <2>4 DEF IInv
<1>5. CASE Rotated(l)
  <2>1. TypeOK' /\ NoPanic'
    BY <1>5 DEF Rotated, IInv, TypeOK, NoPanic, Loops
  <2>2. LastLoop' /\ Told'
    BY <1>5 DEF Rotated, IInv, TypeOK, LastLoop, Told, Loops
  <2>3. ExitJustified' /\ OwnTimer' /\ NoTimerLeak'
    BY <1>5 DEF Rotated, IInv, TypeOK, LastLoop, ExitJustified, OwnTimer, NoTimerLeak
  <2>. QED  BY <2>1, <2>2, <2>3 DEF IInv
<1>6. CASE ResetTimer(l)
  <2>1. rotationTimer = l
    BY <1>6 DEF ResetTimer, IInv, OwnTimer
  <2>2. TypeOK' /\ NoPanic'
    BY <1>6, <2>1 DEF ResetTimer, IInv, TypeOK, NoPanic, Loops
  <2>3. LastLoop' /\ Told'
    BY <1>6, <2>1 DEF ResetTimer, IInv, TypeOK, LastLoop, Told, Loops
  <2>4. ExitJustified' /\ OwnTimer' /\ NoTimerLeak'
    BY <1>6, <2>1 DEF ResetTimer, IInv, TypeOK, LastLoop, ExitJustified, OwnTimer, NoTimerLeak
  <2>. QED  BY <2>2, <2>3, <2>4 DEF IInv
<1>7. CASE ClearRunning(l)
  <2>1. TypeOK' /\ NoPanic'
    BY <1>7 DEF ClearRunning, IInv, TypeOK, NoPanic, Loops
  <2>2. LastLoop' /\ Told'
    BY <1>7 DEF ClearRunning, IInv, TypeOK, LastLoop, Told, Loops
  <2>3. ExitJustified' /\ OwnTimer' /\ NoTimerLeak'
    BY <1>7 DEF ClearRunning, IInv, TypeOK, LastLoop, ExitJustified, OwnTimer, NoTimerLeak
  <2>. QED  BY <2>1, <2>2, <2>3 DEF IInv
<1>8. CASE Leave(l)
  <2>1. deferred[l] = l
    BY <1>8 DEF Leave, IInv, OwnTimer
  <2>2. TypeOK' /\ NoPanic'
    BY <1>8, <2>1 DEF Leave, IInv, TypeOK, NoPanic, Loops
  <2>3. LastLoop' /\ Told'
    BY <1>8, <2>1 DEF Leave, IInv, TypeOK, LastLoop, Told, Loops
  <2>4. ExitJustified' /\ OwnTimer' /\ NoTimerLeak'
    BY <1>8, <2>1 DEF Leave, IInv, TypeOK, LastLoop, ExitJustified, OwnTimer, NoTimerLeak
  <2>. QED  BY <2>2, <2>3, <2>4 DEF IInv
<1>9. CASE SelectCtx(l)
  <2>1. TypeOK' /\ NoPanic'
    BY <1>9 DEF SelectCtx, IInv, TypeOK, NoPanic, Loops
  <2>2. LastLoop' /\ Told'
    BY <1>9 DEF SelectCtx, IInv, TypeOK, LastLoop, Told, Loops
  <2>3. ExitJustified' /\ OwnTimer' /\ NoTimerLeak'
    BY <1>9 DEF SelectCtx, IInv, TypeOK, LastLoop, ExitJustified, OwnTimer, NoTimerLeak
  <2>. QED  BY <2>1, <2>2, <2>3 DEF IInv
<1>10. CASE SelectStop(l)
  <2>1. asked[l]
    BY <1>10 DEF SelectStop, IInv, Told
  <2>2. TypeOK' /\ NoPanic'
    BY <1>10, <2>1 DEF SelectStop, IInv, TypeOK, NoPanic, Loops
  <2>3. LastLoop' /\ Told'
    BY <1>10, <2>1 DEF SelectStop, IInv, TypeOK, LastLoop, Told, Loops
  <2>4. ExitJustified' /\ OwnTimer' /\ NoTimerLeak'
    BY <1>10, <2>1 DEF SelectStop, IInv, TypeOK, LastLoop, ExitJustified, OwnTimer, NoTimerLeak
  <2>. QED  BY <2>2, <2>3, <2>4 DEF IInv
<1>11. CASE Fire(l)
  <2>1. TypeOK' /\ NoPanic'
    BY <1>11 DEF Fire, IInv, TypeOK, NoPanic, Loops
  <2>2. LastLoop' /\ Told'
    BY <1>11 DEF Fire, IInv, TypeOK, LastLoop, Told, Loops
  <2>3. ExitJustified' /\ OwnTimer' /\ NoTimerLeak'
    BY <1>11 DEF Fire, IInv, TypeOK, LastLoop, ExitJustified, OwnTimer, NoTimerLeak
  <2>. QED  BY <2>1, <2>2, <2>3 DEF IInv
<1>12. CASE CancelCtx(l)
  <2>1. TypeOK' /\ NoPanic'
    BY <1>12 DEF CancelCtx, IInv, TypeOK, NoPanic, Loops
  <2>2. LastLoop' /\ Told'
    BY <1>12 DEF CancelCtx, IInv, TypeOK, LastLoop, Told, Loops
  <2>3. ExitJustified' /\ OwnTimer' /\ NoTimerLeak'
    BY <1>12 DEF CancelCtx, IInv, TypeOK, LastLoop, ExitJustified, OwnTimer, NoTimerLeak
  <2>. QED  BY <2>1, <2>2, <2>3 DEF IInv
<1>. QED  BY <1>1, <1>2, <1>3, <1>4, <1>5, <1>6, <1>7, <1>8, <1>9, <1>10, <1>11, <1>12
  DEF LoopNext, Step

(* The inductive invariant holds of a manager that is not restarted. *)
LEMMA IInvKept == ASSUME ~RestartAfterStop PROVE Spec => []IInv
<1>1. IInv /\ [Next]_vars => IInv'
  <2>. SUFFICES ASSUME IInv, [Next]_vars PROVE IInv'
    OBVIOUS
  <2>1. CASE UNCHANGED vars
    BY <2>1 DEF vars, manager, IInv, TypeOK, NoPanic, LastLoop, Told, ExitJustified,
                OwnTimer, NoTimerLeak
  <2>. QED  BY <2>1, StartKeepsIInv, StopKeepsIInv, LoopKeepsIInv DEF Next
<1>. QED  BY <1>1, InitIInv, PTL DEF Spec, SafeSpec

(* The ranges of the state. *)
THEOREM TypeCorrect == ASSUME ~RestartAfterStop PROVE Spec => []TypeOK
<1>1. IInv => TypeOK
  BY DEF IInv
<1>. QED  BY <1>1, IInvKept, PTL

(* Stop never closes the channel twice. *)
THEOREM StopIsSafe == ASSUME ~RestartAfterStop PROVE Spec => []NoPanic
<1>1. IInv => NoPanic
  BY DEF IInv
<1>. QED  BY <1>1, IInvKept, PTL

(* There is one loop at a time, it is the one IsRunning speaks of, and the  *)
(* unguarded field rotationTimer is private to it.                          *)
THEOREM OneLoop == ASSUME ~RestartAfterStop PROVE Spec => []LoopsTakeTurns
<1>1. IInv => SingleLoop /\ RunningIsActive /\ OwnTimer
  BY DEF IInv, LastLoop, Told, SingleLoop, RunningIsActive
<1>2. IInv => LoopsTakeTurns
  BY <1>1 DEF LoopsTakeTurns
<1>. QED  BY <1>2, IInvKept, PTL

(* A loop ends only when its context is done or when it is told to stop. *)
THEOREM RotatesUntilTold == ASSUME ~RestartAfterStop PROVE Spec => []ExitJustified
<1>1. IInv => ExitJustified
  BY DEF IInv
<1>. QED  BY <1>1, IInvKept, PTL

(* A loop that has ended has stopped its timer. *)
THEOREM TimersStopped == ASSUME ~RestartAfterStop PROVE Spec => []NoTimerLeak
<1>1. IInv => NoTimerLeak
  BY DEF IInv
<1>. QED  BY <1>1, IInvKept, PTL

(* What the rotation of Rotation.tla needs to know besides: a loop that is   *)
(* about to wait has a timer that will fire or has fired, and the context of *)
(* a loop that is still to come cannot have been cancelled.                  *)
Fresh == \A l \in Loops : /\ pc[l] \in {"made", "top", "select"} => timer[l] \in {"running", "fired"}
                          /\ pc[l] = "unborn" => ~ctxDone[l]

LEMMA FreshKept ==
  ASSUME ~RestartAfterStop, IInv, Fresh, [Next]_vars PROVE Fresh'
<1>1. ASSUME NEW i \in Intervals, StartAutoRotation(i) PROVE Fresh'
  BY <1>1 DEF StartAutoRotation, IInv, TypeOK, Fresh
<1>2. CASE Stop
  BY <1>2 DEF Stop, Fresh
<1>3. ASSUME NEW l \in Loops, Step(l) PROVE Fresh'
  <2>1. IInv /\ TypeOK /\ OwnTimer
    BY DEF IInv
  <2>2. CASE MakeTimer(l) \/ DeferStop(l) \/ EnterSelect(l) \/ Rotated(l) \/ ClearRunning(l)
    BY <2>1, <2>2 DEF MakeTimer, DeferStop, EnterSelect, Rotated, ClearRunning, Go, TypeOK, Fresh
  <2>3. CASE SelectTimer(l)
    BY <2>1, <2>3 DEF SelectTimer, Go, TypeOK, OwnTimer, Fresh, Active, Rotating
  <2>4. CASE ResetTimer(l)
    BY <2>1, <2>4 DEF ResetTimer, Go, TypeOK, OwnTimer, Fresh, Active, Rotating
  <2>5. CASE Leave(l)
    BY <2>1, <2>5 DEF Leave, Go, TypeOK, OwnTimer, Fresh, Active, Rotating
  <2>. QED  BY <1>3, <2>2, <2>3, <2>4, <2>5 DEF Step
<1>4. ASSUME NEW l \in Loops, SelectCtx(l) \/ SelectStop(l) \/ Fire(l) \/ CancelCtx(l)
      PROVE  Fresh'
  BY <1>4 DEF SelectCtx, SelectStop, Fire, CancelCtx, Go, IInv, TypeOK, Fresh
<1>5. CASE UNCHANGED vars
  BY <1>5 DEF vars, Fresh
<1>. QED  BY <1>1, <1>2, <1>3, <1>4, <1>5 DEF Next, LoopNext

(* The abstract state under the refinement mapping.                        *)
Heard == On /\ (ctxDone[starts] \/ asked[starts])

(* Whatever a loop does that is not the last one, the rotation is as it was: *)
(* such a loop is over but for its timer.                                    *)
LEMMA OthersStutter ==
  ASSUME IInv, NEW l \in Loops, LoopNext(l), l # starts
  PROVE  UNCHANGED <<On, Phase, interval, Heard>>
<1>1. pc[l] \notin Active /\ starts' = starts /\ interval' = interval /\ asked' = asked
  BY DEF IInv, LastLoop, LoopNext, Step, MakeTimer, DeferStop, EnterSelect, SelectTimer, Rotated,
         ResetTimer, ClearRunning, Leave, SelectCtx, SelectStop, Fire, CancelCtx, Go, manager
<1>2. Leave(l) \/ Fire(l) \/ CancelCtx(l)
  BY <1>1 DEF LoopNext, Step, MakeTimer, DeferStop, EnterSelect, SelectTimer, Rotated,
              ResetTimer, ClearRunning, SelectCtx, SelectStop, Go, Active, Rotating
<1>3. starts # 0 => starts \in Loops
  BY CircuitManagerAssumption DEF IInv, TypeOK, Loops
<1>4. starts # 0 => /\ pc'[starts] = pc[starts] /\ timer'[starts] = timer[starts]
                    /\ ctxDone'[starts] = ctxDone[starts]
  BY <1>2, <1>3 DEF Leave, Fire, CancelCtx, Go, IInv, TypeOK, OwnTimer
<1>5. On' = On /\ (On => Interval' = Interval)
  BY <1>1, <1>4 DEF On, Interval
<1>. QED  BY <1>1, <1>4, <1>5 DEF Phase, Heard, On

(* What the last loop does is a step of the rotation or changes nothing.   *)
LEMMA LastLoopRotates ==
  ASSUME IInv, Fresh, starts \in Loops, LoopNext(starts)
  PROVE  [Rotator!RotationNext]_(Rotator!rotationVars)
<1>. DEFINE l == starts
<1>. USE DEF Rotator!rotationVars, Rotator!RotationNext, Go, manager
<1>1. starts # 0 /\ starts' = starts /\ interval' = interval /\ asked' = asked
  BY CircuitManagerAssumption
  DEF Loops, LoopNext, Step, MakeTimer, DeferStop, EnterSelect, SelectTimer, Rotated,
      ResetTimer, ClearRunning, Leave, SelectCtx, SelectStop, Fire, CancelCtx
<1>2. /\ pc \in [Loops -> Active \cup {"unborn", "leave", "done"}]
      /\ timer \in [Loops -> {"none", "running", "fired", "drained", "stopped"}]
      /\ ctxDone \in [Loops -> BOOLEAN]
  BY DEF IInv, TypeOK
<1>3. /\ pc[l] \in Active \ {"new"} => rotationTimer = l
      /\ pc[l] \in {"select", "rotate", "clear"} => watched[l] = l
      /\ pc[l] \in {"made", "top", "select"} => timer[l] \in {"running", "fired"}
  BY DEF IInv, OwnTimer, Fresh
<1>. USE <1>1, <1>2, <1>3 DEF On, Interval, Phase, Active, Rotating
<1>4. CASE MakeTimer(l)
  BY <1>4 DEF MakeTimer
<1>5. CASE DeferStop(l) \/ EnterSelect(l) \/ Rotated(l) \/ ClearRunning(l) \/ Leave(l)
  BY <1>5 DEF DeferStop, EnterSelect, Rotated, ClearRunning, Leave
<1>6. CASE SelectTimer(l)
  <2>1. Rotator!Rotate
    BY <1>6 DEF SelectTimer, Rotator!Rotate
  <2>. QED  BY <2>1
<1>7. CASE ResetTimer(l)
  <2>1. Rotator!Again
    BY <1>7 DEF ResetTimer, Rotator!Again
  <2>. QED  BY <2>1
<1>8. CASE SelectCtx(l) \/ SelectStop(l)
  <2>1. ctxDone[l] \/ asked[l]
    BY <1>8 DEF SelectCtx, SelectStop, IInv, Told
  <2>2. Rotator!End
    BY <1>8, <2>1 DEF SelectCtx, SelectStop, Rotator!End
  <2>. QED  BY <2>2
<1>9. CASE Fire(l)
  <2>1. CASE pc[l] \in {"made", "top", "select"}
    <3>1. Rotator!Due
      BY <1>9, <2>1 DEF Fire, Rotator!Due
    <3>. QED  BY <3>1
  <2>2. CASE pc[l] \notin {"made", "top", "select"}
    BY <1>9, <2>2 DEF Fire
  <2>. QED  BY <2>1, <2>2
<1>10. CASE CancelCtx(l)
  <2>1. CASE On
    <3>1. Rotator!Tell
      BY <1>10, <2>1 DEF CancelCtx, Rotator!Tell
    <3>. QED  BY <3>1
  <2>2. CASE ~On
    BY <1>10, <2>2 DEF CancelCtx
  <2>. QED  BY <2>1, <2>2
<1>. QED  BY <1>4, <1>5, <1>6, <1>7, <1>8, <1>9, <1>10 DEF LoopNext, Step

(* The manager of circuit.go implements the one rotation of Rotation.tla:   *)
(* one new identity for every interval, an end when it was told to and      *)
(* never otherwise, whatever goroutines, timers and fields it is made of.   *)
THEOREM ManagerRotates == ASSUME ~RestartAfterStop PROVE Spec => ImplementsRotation
<1>. USE DEF Rotator!rotationVars, Rotator!RotationNext
<1>1. Init => Rotator!RotationInit /\ Fresh
  BY DEF Init, Rotator!RotationInit, Fresh, On, Phase
<1>2. IInv /\ Fresh /\ [Next]_vars => [Rotator!RotationNext]_(Rotator!rotationVars)
  <2>. SUFFICES ASSUME IInv, Fresh, [Next]_vars
                PROVE  [Rotator!RotationNext]_(Rotator!rotationVars)
    OBVIOUS
  <2>1. ASSUME NEW i \in Intervals, StartAutoRotation(i) PROVE Rotator!Begin
    <3>1. starts + 1 \in Loops /\ starts' = starts + 1 /\ starts' # 0 /\ i \in Nat \ {0}
      BY <2>1, CircuitManagerAssumption DEF StartAutoRotation, IInv, TypeOK, Loops
    <3>2. ~On
      BY <2>1 DEF StartAutoRotation, On, IInv, TypeOK, Told, Loops, Active
    <3>3. ~ctxDone[starts'] /\ ~asked[starts']
      BY <3>1, <2>1 DEF StartAutoRotation, IInv, TypeOK, LastLoop, Told, Fresh
    <3>4. pc'[starts'] = "new" /\ interval' = i /\ ctxDone' = ctxDone /\ asked' = asked
      BY <3>1, <2>1 DEF StartAutoRotation, IInv, TypeOK
    <3>. QED  BY <3>1, <3>2, <3>3, <3>4 DEF On, Phase, Rotating, Rotator!Begin
  <2>2. CASE Stop
    <3>1. starts \in Loops /\ starts # 0 /\ asked'[starts]
          /\ UNCHANGED <<starts, pc, timer, ctxDone, interval>>
      BY <2>2, CircuitManagerAssumption DEF Stop, IInv, TypeOK, LastLoop, Loops
    <3>2. On' = On /\ Phase' = Phase
      BY <3>1 DEF On, Phase, Interval
    <3>3. CASE On
      <4>1. Phase # "off"
        BY <3>3 DEF On, Phase, Interval, Rotating
      <4>2. Rotator!Tell
        BY <3>1, <3>2, <3>3, <4>1 DEF Rotator!Tell
      <4>. QED  BY <4>2
    <3>4. CASE ~On
      BY <3>1, <3>2, <3>4
    <3>. QED  BY <3>3, <3>4
  <2>3. ASSUME NEW l \in Loops, LoopNext(l)
        PROVE  [Rotator!RotationNext]_(Rotator!rotationVars)
    <3>1. CASE l = starts
      BY <2>3, <3>1, LastLoopRotates
    <3>2. CASE l # starts
      BY <2>3, <3>2, OthersStutter DEF Heard
    <3>. QED  BY <3>1, <3>2
  <2>4. CASE UNCHANGED vars
    BY <2>4 DEF vars, manager, On, Phase, Interval
  <2>. QED  BY <2>1, <2>2, <2>3, <2>4 DEF Next
<1>3. ~RestartAfterStop /\ IInv /\ Fresh /\ [Next]_vars => Fresh'
  BY FreshKept
<1>. QED  BY <1>1, <1>2, <1>3, IInvKept, PTL
          DEF Spec, SafeSpec, ImplementsRotation, Rotator!RotationSpec
==========================================================================
