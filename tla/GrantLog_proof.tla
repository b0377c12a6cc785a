-------------------------- MODULE GrantLog_proof --------------------------
(***************************************************************************)
(* The limit a RateLimiter keeps, for every rate, burst, number of callers *)
(* and horizon: WindowBound, from the inductive Budget.                    *)
(***************************************************************************)
EXTENDS GrantLog, RateLimiter_proof

(* Every step with history is a step of the limiter. *)
LEMMA HistoryDecidesNothing == HSafeSpec => SafeSpec
<1>1. HInit => Init
  BY DEF HInit
<1>2. [HNext]_hvars => [Next]_vars
  BY DEF HNext, Next, hvars, vars, HTick, HTake, HOther
<1>. QED  BY <1>1, <1>2, PTL DEF HSafeSpec, SafeSpec

(* The history by range: instants do not lie in the future. *)
HTypeOK == /\ TypeOK
           /\ now \in Nat
           /\ log \in Seq(Nat)

THEOREM HTypeCorrect == HSafeSpec => []HTypeOK
<1>1. HInit => now \in Nat /\ log \in Seq(Nat)
  BY DEF HInit
<1>2. (now \in Nat /\ log \in Seq(Nat)) /\ [HNext]_hvars => (now \in Nat /\ log \in Seq(Nat))'
  <2>. SUFFICES ASSUME now \in Nat, log \in Seq(Nat), [HNext]_hvars
                PROVE  (now \in Nat /\ log \in Seq(Nat))'
    OBVIOUS
  <2>1. CASE HTick
    <3>1. CASE now' = now + 1 /\ log' = log
      BY <3>1
    <3>2. CASE now' = 0 /\ log' = <<>>
      BY <3>2
    <3>. QED  BY <2>1, <3>1, <3>2 DEF HTick
  <2>2. ASSUME NEW c \in Callers, HTake(c) PROVE (now \in Nat /\ log \in Seq(Nat))'
    BY <2>2 DEF HTake
  <2>3. CASE UNCHANGED <<now, log>>
    BY <2>3
  <2>. QED  BY <2>1, <2>2, <2>3 DEF HNext, hvars, HOther
<1>3. SafeSpec => []TypeOK
  <2>1. Init => TypeOK
    BY InitTyped
  <2>2. TypeOK /\ [Next]_vars => TypeOK'
    BY StepTyped
  <2>. QED  BY <2>1, <2>2, PTL DEF SafeSpec
<1>. QED  BY <1>1, <1>2, <1>3, HistoryDecidesNothing, PTL DEF HSafeSpec, HTypeOK

(* One more grant: it costs a token in every window that is still open. *)
LEMMA TakeKeepsBudget ==
  ASSUME HTypeOK, Budget, NEW c \in Callers, HTake(c) PROVE Budget'
<1>1. /\ Refilled >= Token /\ Refilled' = Refilled - Token
      /\ Refilled \in 0..Cap /\ now' = now
  BY RefilledTakes, RefilledRange DEF HTake, HTypeOK
<1>2. /\ Len(log') = Len(log) + 1 /\ log'[Len(log) + 1] = now
      /\ \A i \in 1..Len(log) : log'[i] = log[i]
  BY DEF HTake, HTypeOK
<1>3. SUFFICES ASSUME NEW i \in 1..Len(log')
               PROVE  (Len(log') - i + 1) * Token + Refilled'
                        <= Cap + Rate * (now' - log'[i])
  BY DEF Budget
<1>4. CASE i = Len(log) + 1
  <2>1. (Len(log') - i + 1) * Token = Token /\ Rate * (now' - log'[i]) = 0
    BY <1>1, <1>2, <1>4, Positive DEF HTypeOK
  <2>. QED  BY <1>1, <2>1, Positive
<1>5. CASE i \in 1..Len(log)
  <2>1. (Len(log) - i + 1) * Token + Refilled <= Cap + Rate * (now - log[i])
    BY <1>5 DEF Budget
  <2>2. /\ Len(log) - i + 1 \in Nat /\ now - log[i] \in Int
    BY <1>5 DEF HTypeOK
  <2>3. (Len(log') - i + 1) * Token = (Len(log) - i + 1) * Token + Token
    BY <1>2, <2>2, Positive
  <2>4. (Len(log) - i + 1) * Token \in Int /\ Rate * (now - log[i]) \in Int
    BY <2>2, Positive
  <2>5. Rate * (now' - log'[i]) = Rate * (now - log[i])
    BY <1>1, <1>2, <1>5
  <2>. QED  BY <1>1, <2>1, <2>3, <2>4, <2>5, Positive
<1>. QED  BY <1>2, <1>4, <1>5 DEF HTypeOK

(* One more tick: every open window gains what the bucket may gain, or the  *)
(* observation starts over and none is open.                               *)
LEMMA TickKeepsBudget ==
  ASSUME HTypeOK, Budget, HTick PROVE Budget'
<1>1. CASE log' = <<>>
  BY <1>1 DEF Budget
<1>2. CASE now' = now + 1 /\ log' = log
  <2>1. /\ Refilled' <= Refilled + Rate /\ Refilled' \in Int
        /\ Refilled \in Nat
    BY RefilledTick, RefilledRange, Positive DEF HTick, HTypeOK, Capped
  <2>2. SUFFICES ASSUME NEW i \in 1..Len(log)
                 PROVE  (Len(log) - i + 1) * Token + Refilled'
                          <= Cap + Rate * (now' - log[i])
    BY <1>2 DEF Budget
  <2>3. (Len(log) - i + 1) * Token + Refilled <= Cap + Rate * (now - log[i])
    BY DEF Budget
  <2>4. Len(log) - i + 1 \in Nat /\ now - log[i] \in Int
    BY DEF HTypeOK
  <2>5. /\ (Len(log) - i + 1) * Token \in Int
        /\ Rate * (now - log[i]) \in Int
        /\ Rate * ((now - log[i]) + 1) = Rate * (now - log[i]) + Rate
    BY <2>4, Positive
  <2>6. now' - log[i] = (now - log[i]) + 1
    <3>1. now \in Int /\ log[i] \in Int /\ now' = now + 1
      BY <1>2 DEF HTypeOK
    <3>. QED  BY <3>1
  <2>. QED  BY <2>1, <2>3, <2>5, <2>6, Positive
<1>. QED  BY <1>1, <1>2 DEF HTick

(* Every grant so far, and what is left, fit the burst plus the rate. *)
THEOREM BudgetKept == HSafeSpec => []Budget
<1>1. HInit => Budget
  BY DEF HInit, Budget
<1>2. HTypeOK /\ Budget /\ [HNext]_hvars => Budget'
  <2>. SUFFICES ASSUME HTypeOK, Budget, [HNext]_hvars PROVE Budget'
    OBVIOUS
  <2>1. CASE HTick
    BY <2>1, TickKeepsBudget
  <2>2. ASSUME NEW c \in Callers, HTake(c) PROVE Budget'
    BY <2>2, TakeKeepsBudget
  <2>3. ASSUME NEW c \in Callers, HOther(c) PROVE Budget'
    <3>1. Refilled' = Refilled /\ UNCHANGED <<now, log>>
      BY <2>3, RefilledOthers DEF HOther, HTypeOK
    <3>. QED  BY <3>1 DEF Budget
  <2>4. CASE UNCHANGED hvars
    BY <2>4 DEF hvars, Budget, Refilled
  <2>. QED  BY <2>1, <2>2, <2>3, <2>4 DEF HNext
<1>. QED  BY <1>1, <1>2, HTypeCorrect, PTL DEF HSafeSpec

(* The limit: no window holds more requests than the burst plus the rate.   *)
(* When a request is let through, Budget says so of every window that ends  *)
(* with it, and later steps do not touch the past.                          *)
THEOREM WindowKept == HSafeSpec => []WindowBound
<1>1. HInit => WindowBound
  BY DEF HInit, WindowBound
<1>2. HTypeOK /\ HTypeOK' /\ Budget' /\ WindowBound /\ [HNext]_hvars => WindowBound'
  <2>. SUFFICES ASSUME HTypeOK, HTypeOK', Budget', WindowBound, [HNext]_hvars,
                       NEW i \in 1..Len(log'), NEW j \in 1..Len(log'), i <= j
                PROVE  (j - i + 1) * Token <= Cap + Rate * (log'[j] - log'[i])
    BY DEF WindowBound
  <2>1. CASE UNCHANGED log
    BY <2>1 DEF WindowBound
  <2>2. ASSUME NEW c \in Callers, HTake(c)
        PROVE  (j - i + 1) * Token <= Cap + Rate * (log'[j] - log'[i])
    <3>1. /\ Len(log') = Len(log) + 1 /\ log'[Len(log) + 1] = now /\ now' = now
          /\ \A k \in 1..Len(log) : log'[k] = log[k]
      BY <2>2 DEF HTake, HTypeOK
    <3>2. CASE j = Len(log) + 1
      <4>1. (j - i + 1) * Token + Refilled' <= Cap + Rate * (log'[j] - log'[i])
        BY <3>1, <3>2 DEF Budget
      <4>2. Refilled' \in Nat
        BY <2>2, RefilledTakes, RefilledRange, Positive DEF HTake, HTypeOK
      <4>3. (j - i + 1) * Token \in Int /\ Rate * (log'[j] - log'[i]) \in Int
        BY Positive DEF HTypeOK
      <4>. QED  BY <4>1, <4>2, <4>3, Positive
    <3>3. CASE j \in 1..Len(log)
      <4>1. i \in 1..Len(log)
        BY <3>3 DEF HTypeOK
      <4>2. (j - i + 1) * Token <= Cap + Rate * (log[j] - log[i])
        BY <3>3, <4>1 DEF WindowBound
      <4>. QED  BY <3>1, <3>3, <4>1, <4>2
    <3>. QED  BY <3>1, <3>2, <3>3 DEF HTypeOK
  <2>3. CASE log' = <<>>
    BY <2>3
  <2>. QED  BY <2>1, <2>2, <2>3 DEF HNext, hvars, HTick, HOther
<1>. QED  BY <1>1, <1>2, HTypeCorrect, BudgetKept, PTL DEF HSafeSpec
==========================================================================
