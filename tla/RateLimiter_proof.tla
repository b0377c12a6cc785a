------------------------ MODULE RateLimiter_proof ------------------------
(***************************************************************************)
(* Proofs about RateLimiter, for every set of callers, rate, burst and     *)
(* resolution of the clock: the bucket's range, that no caller sleeps      *)
(* through a token, and that the lazily filled bucket of ratelimit.go      *)
(* implements the eagerly filled one of TokenBucket.                       *)
(***************************************************************************)
EXTENDS RateLimiter, TLAPS

(* The normalised arguments are positive. *)
LEMMA Positive == /\ Rate \in Nat \ {0}
                  /\ Token \in Nat \ {0}
                  /\ Cap \in Nat
                  /\ Token <= Cap
<1>1. Rate \in Nat \ {0} /\ Burst \in Nat \ {0} /\ Token \in Nat \ {0}
  BY RateLimiterAssumption DEF Rate, Burst, Token
<1>2. \A b, t \in Nat \ {0} : b * t \in Nat /\ t <= b * t
  OBVIOUS
<1>. QED  BY <1>1, <1>2 DEF Cap

(* What there is to have, by range. *)
LEMMA RefilledRange ==
  ASSUME TypeOK PROVE Refilled \in 0..Cap /\ tokens <= Refilled
<1>1. elapsed * Rate \in Nat
  BY Positive DEF TypeOK
<1>. QED  BY <1>1, Positive DEF TypeOK, Refilled, Capped

(* Nothing that accrued is lost when the update is written back. *)
LEMMA RefilledWriteBack ==
  ASSUME NEW x \in 0..Cap, tokens' = x, elapsed' = 0 PROVE Refilled' = x
<1>1. tokens' + elapsed' * Rate = x
  BY Positive
<1>. QED  BY <1>1, Positive DEF Refilled, Capped

(* One tick adds Rate units up to the burst, the idle bound reached or not. *)
LEMMA RefilledTick ==
  ASSUME TypeOK, Tick PROVE Refilled' = Capped(Refilled + Rate)
<1>1. CASE elapsed < MaxIdle
  <2>1. elapsed' * Rate = elapsed * Rate + Rate /\ elapsed * Rate \in Nat
    BY <1>1, Positive, RateLimiterAssumption DEF Tick, TypeOK
  <2>. QED  BY <2>1, Positive DEF Tick, TypeOK, Refilled, Capped
<1>2. CASE elapsed = MaxIdle
  <2>1. elapsed' * Rate >= Cap /\ elapsed * Rate >= Cap /\ elapsed * Rate \in Nat
    BY <1>2, Positive, RateLimiterAssumption DEF Tick, TypeOK
  <2>. QED  BY <2>1, <1>2, Positive DEF Tick, TypeOK, Refilled, Capped
<1>. QED  BY <1>1, <1>2, RateLimiterAssumption DEF TypeOK

(* The sleep is the missing part of a token, rounded down. *)
LEMMA SleepBound ==
  ASSUME NEW x \in Nat, x < Token
  PROVE  /\ WaitDuration(x) \in 0..Token
         /\ WaitDuration(x) * Rate <= Token - x
<1>. DEFINE m == Token - x
<1>1. m \in Nat
  BY Positive
<1>2. \A a \in Nat, b \in Nat \ {0} :
        a \div b \in Nat /\ a \div b <= a /\ (a \div b) * b <= a
  OBVIOUS
<1>. QED  BY <1>1, <1>2, Positive DEF WaitDuration

(* Shared by the proofs below: every request that takes a token lowers what *)
(* there is to have by exactly one token; every other look at the bucket    *)
(* leaves it as it is.                                                      *)
LEMMA RefilledTakes ==
  ASSUME TypeOK, NEW c \in Callers, Takes(c)
  PROVE  /\ Refilled >= Token
         /\ tokens' \in 0..Cap
         /\ Refilled' = Refilled - Token
<1>1. Refilled >= Token /\ tokens' = Refilled - Token /\ elapsed' = 0
  BY DEF Takes, WaitTakes, AllowTakes
<1>2. Refilled - Token \in 0..Cap
  BY <1>1, RefilledRange, Positive
<1>. QED  BY <1>1, <1>2, RefilledWriteBack

LEMMA RefilledOthers ==
  ASSUME TypeOK, NEW c \in Callers, Others(c)
  PROVE  /\ tokens' \in 0..Cap
         /\ Refilled' = Refilled
<1>. DEFINE polled == tokens' = Refilled /\ elapsed' = 0
            kept   == UNCHANGED <<tokens, elapsed>>
<1>1. polled \/ kept
  BY DEF Others, CallWait, WaitSleeps, SelectTimer, SelectCtx, Cancel, AllowRefuses
<1>2. CASE polled
  BY <1>2, RefilledRange, RefilledWriteBack
<1>3. CASE kept
  BY <1>3 DEF TypeOK, Refilled
<1>. QED  BY <1>1, <1>2, <1>3

(* The initial state and every step keep the ranges. *)
LEMMA InitTyped == Init => TypeOK
BY Positive, RateLimiterAssumption DEF Init, TypeOK

LEMMA StepTyped == TypeOK /\ [Next]_vars => TypeOK'
<1>. SUFFICES ASSUME TypeOK, [Next]_vars PROVE TypeOK'
  OBVIOUS
<1>1. CASE Tick
  <2>1. elapsed' \in 0..MaxIdle
    BY <1>1, RateLimiterAssumption DEF Tick, TypeOK
  <2>2. timer' \in [Callers -> 0..Token]
    BY <1>1, Positive DEF Tick, TypeOK
  <2>. QED  BY <1>1, <2>1, <2>2 DEF Tick, TypeOK
<1>2. ASSUME NEW c \in Callers, Takes(c) PROVE TypeOK'
  <2>1. tokens' \in 0..Cap
    BY <1>2, RefilledTakes
  <2>2. elapsed' \in 0..MaxIdle
    BY <1>2, RateLimiterAssumption DEF Takes, WaitTakes, AllowTakes
  <2>. QED  BY <1>2, <2>1, <2>2 DEF Takes, WaitTakes, AllowTakes, TypeOK
<1>3. ASSUME NEW c \in Callers, Others(c) PROVE TypeOK'
  <2>1. tokens' \in 0..Cap
    BY <1>3, RefilledOthers
  <2>2. elapsed' \in 0..MaxIdle
    BY <1>3, RateLimiterAssumption
    DEF Others, CallWait, WaitSleeps, SelectTimer, SelectCtx, Cancel, AllowRefuses, TypeOK
  <2>3. timer' \in [Callers -> 0..Token]
    <3>1. CASE WaitSleeps(c)
      <4>1. Refilled \in Nat /\ Refilled < Token
        BY <3>1, RefilledRange DEF WaitSleeps
      <4>. QED  BY <3>1, <4>1, SleepBound DEF WaitSleeps, TypeOK
    <3>2. CASE ~WaitSleeps(c)
      BY <3>2, <1>3, Positive
      DEF Others, CallWait, SelectTimer, SelectCtx, Cancel, AllowRefuses, TypeOK
    <3>. QED  BY <3>1, <3>2
  <2>4. /\ pc' \in [Callers -> {"idle", "check", "select"}]
        /\ ctxDone' \in [Callers -> BOOLEAN]
        /\ result' \in [Callers -> {"none", "waiting", "ok", "refused", "ctxErr"}]
    BY <1>3
    DEF Others, CallWait, WaitSleeps, SelectTimer, SelectCtx, Cancel, AllowRefuses, TypeOK
  <2>. QED  BY <2>1, <2>2, <2>3, <2>4 DEF TypeOK
<1>4. CASE UNCHANGED vars
  BY <1>4 DEF vars, TypeOK
<1>. QED  BY <1>1, <1>2, <1>3, <1>4 DEF Next

(* The range of the state, and with it that the bucket never overflows the  *)
(* burst nor goes into debt.                                                *)
THEOREM TypeCorrect == Spec => []TypeOK
BY InitTyped, StepTyped, PTL DEF Spec, SafeSpec

(* NoOversleep is not inductive: it says nothing of how much is missing.    *)
(* While a timer runs, the rest of the sleep brings at most what is missing *)
(* to a token, however the others lower the bucket meanwhile.               *)
SleepShort == \A c \in Callers :
                pc[c] = "select" /\ timer[c] > 0 => Refilled + timer[c] * Rate <= Token

(* No caller of Wait sleeps while there is a whole token in the bucket.     *)
THEOREM NeverOversleeps == Spec => []NoOversleep
<1>1. Init => SleepShort
  BY DEF Init, SleepShort
<1>2. TypeOK /\ SleepShort /\ [Next]_vars => SleepShort'
  <2>. SUFFICES ASSUME TypeOK, SleepShort, [Next]_vars,
                       NEW d \in Callers, pc'[d] = "select", timer'[d] > 0
                PROVE  Refilled' + timer'[d] * Rate <= Token
    BY DEF SleepShort
  <2>1. CASE Tick
    <3>1. Refilled' <= Refilled + Rate
      BY <2>1, RefilledTick, RefilledRange, Positive DEF Capped
    <3>2. /\ pc[d] = "select" /\ timer[d] \in Nat /\ timer[d] > 0
          /\ timer'[d] = timer[d] - 1
      BY <2>1, Positive DEF Tick, TypeOK
    <3>3. timer[d] * Rate = timer'[d] * Rate + Rate /\ timer'[d] * Rate \in Nat
      BY <3>2, Positive
    <3>4. Refilled + timer[d] * Rate <= Token
      BY <3>2 DEF SleepShort
    <3>5. Refilled' \in Int
      BY <2>1, RefilledTick, RefilledRange, Positive DEF Capped
    <3>. QED  BY <3>1, <3>3, <3>4, <3>5, RefilledRange, Positive
  <2>2. ASSUME NEW c \in Callers, Takes(c)
        PROVE  Refilled' + timer'[d] * Rate <= Token
    <3>1. pc[d] = "select" /\ timer'[d] = timer[d]
      BY <2>2 DEF Takes, WaitTakes, AllowTakes, TypeOK
    <3>2. timer[d] * Rate \in Nat /\ Refilled + timer[d] * Rate <= Token
      BY <3>1, Positive DEF SleepShort, TypeOK
    <3>. QED  BY <2>2, <3>1, <3>2, RefilledTakes, RefilledRange, Positive
  <2>3. ASSUME NEW c \in Callers, Others(c)
        PROVE  Refilled' + timer'[d] * Rate <= Token
    <3>1. Refilled' = Refilled
      BY <2>3, RefilledOthers
    <3>2. CASE WaitSleeps(c) /\ c = d
      <4>1. Refilled \in Nat /\ Refilled < Token
        BY <3>2, RefilledRange DEF WaitSleeps
      <4>2. timer'[d] = WaitDuration(Refilled)
        BY <3>2 DEF WaitSleeps, TypeOK
      <4>3. WaitDuration(Refilled) * Rate <= Token - Refilled
        BY <4>1, SleepBound
      <4>4. WaitDuration(Refilled) * Rate \in Nat
        BY <4>1, SleepBound, Positive
      <4>. QED  BY <3>1, <4>1, <4>2, <4>3, <4>4, Positive
    <3>3. CASE ~(WaitSleeps(c) /\ c = d)
      <4>1. pc[d] = "select" /\ timer'[d] = timer[d]
        BY <3>3, <2>3
        DEF Others, CallWait, WaitSleeps, SelectTimer, SelectCtx, Cancel, AllowRefuses, TypeOK
      <4>. QED  BY <3>1, <4>1 DEF SleepShort
    <3>. QED  BY <3>2, <3>3
  <2>4. CASE UNCHANGED vars
    BY <2>4 DEF vars, SleepShort, Refilled
  <2>. QED  BY <2>1, <2>2, <2>3, <2>4 DEF Next
<1>3. TypeOK /\ SleepShort => NoOversleep
  <2>. SUFFICES ASSUME TypeOK, SleepShort,
                       NEW c \in Callers, pc[c] = "select", timer[c] > 0
                PROVE  Refilled < Token
    BY DEF NoOversleep
  <2>1. timer[c] * Rate \in Nat /\ timer[c] * Rate > 0
    BY Positive DEF TypeOK
  <2>. QED  BY <2>1, RefilledRange, Positive DEF SleepShort
<1>. QED  BY <1>1, <1>2, <1>3, TypeCorrect, PTL DEF Spec, SafeSpec

(* A caller is inside Wait exactly while its call has not returned. *)
InCall == \A c \in Callers : pc[c] # "idle" => result[c] = "waiting"

LEMMA InCallInvariant == Spec => []InCall
<1>1. Init => InCall
  BY DEF Init, InCall
<1>2. TypeOK /\ InCall /\ [Next]_vars => InCall'
  BY DEF TypeOK, InCall, Next, vars, Tick, Takes, Others, CallWait, WaitTakes, WaitSleeps,
         SelectTimer, SelectCtx, Cancel, AllowTakes, AllowRefuses
<1>. QED  BY <1>1, <1>2, TypeCorrect, PTL DEF Spec, SafeSpec

(* The bucket of ratelimit.go implements the bucket of TokenBucket: every   *)
(* step of the limiter is a step of the bucket or changes nothing in it.    *)
THEOREM Implements == Spec => ImplementsBucket
<1>. USE DEF Bucket!bucketVars, Bucket!BucketNext
<1>1. Init => Bucket!BucketInit
  BY Positive DEF Init, Bucket!BucketInit, Refilled, Capped
<1>2. TypeOK /\ InCall /\ [Next]_vars => [Bucket!BucketNext]_(Bucket!bucketVars)
  <2>. SUFFICES ASSUME TypeOK, InCall, [Next]_vars
                PROVE  [Bucket!BucketNext]_(Bucket!bucketVars)
    OBVIOUS
  <2>1. CASE Tick
    <3>1. Bucket!Fill
      BY <2>1, RefilledTick DEF Tick, Bucket!Fill, Capped
    <3>. QED  BY <3>1
  <2>2. ASSUME NEW c \in Callers, Takes(c) PROVE Bucket!BucketNext
    <3>1. Bucket!Grant(c)
      BY <2>2, RefilledTakes DEF Takes, WaitTakes, AllowTakes, Bucket!Grant
    <3>. QED  BY <3>1
  <2>3. ASSUME NEW c \in Callers, Others(c)
        PROVE  [Bucket!BucketNext]_(Bucket!bucketVars)
    <3>1. Refilled' = Refilled
      BY <2>3, RefilledOthers
    <3>2. CASE CallWait(c)
      BY <3>1, <3>2 DEF CallWait, Bucket!Ask
    <3>3. CASE WaitSleeps(c) \/ SelectTimer(c) \/ Cancel(c)
      BY <3>1, <3>3 DEF WaitSleeps, SelectTimer, Cancel
    <3>4. CASE SelectCtx(c)
      BY <3>1, <3>4 DEF SelectCtx, Bucket!GiveUp, InCall
    <3>5. CASE AllowRefuses(c)
      BY <3>1, <3>5 DEF AllowRefuses, Bucket!Refuse
    <3>. QED  BY <2>3, <3>2, <3>3, <3>4, <3>5 DEF Others
  <2>4. CASE UNCHANGED vars
    BY <2>4 DEF vars, Refilled
  <2>. QED  BY <2>1, <2>2, <2>3, <2>4 DEF Next
<1>. QED  BY <1>1, <1>2, TypeCorrect, InCallInvariant, PTL DEF Spec, SafeSpec, ImplementsBucket, Bucket!BucketSpec
==========================================================================
