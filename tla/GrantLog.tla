---------------------------- MODULE GrantLog ----------------------------
(***************************************************************************)
(* RateLimiter with a history: the clock, and the instant of every request *)
(* that was let through.  The history decides nothing (every step of       *)
(* HSpec is a step of RateLimiter); it lets the limit be stated the way a  *)
(* user of NewRateLimiter(rate, burst) understands it.                     *)
(***************************************************************************)
EXTENDS RateLimiter, Sequences

CONSTANT Horizon     \* bound: the observation starts over after as many ticks

ASSUME HorizonAssumption == Horizon \in Nat

VARIABLES now,       \* ticks since the observation began
          log        \* the instants at which a token was taken, in order

hvars == <<tokens, elapsed, pc, timer, ctxDone, result, now, log>>

HInit == Init /\ now = 0 /\ log = <<>>

(* The clock goes on, and with it the observation, or another begins in    *)
(* whatever state the limiter is.                                          *)
HTick == /\ Tick
         /\ IF now < Horizon THEN now' = now + 1 /\ UNCHANGED log
                             ELSE now' = 0 /\ log' = <<>>

HTake(c) == Takes(c) /\ log' = Append(log, now) /\ UNCHANGED now

HOther(c) == Others(c) /\ UNCHANGED <<now, log>>

HNext == HTick \/ \E c \in Callers : HTake(c) \/ HOther(c)

HSafeSpec == HInit /\ [][HNext]_hvars
HSpec == HSafeSpec /\ Fairness

(* The limit itself: between any two requests that proceeded, both         *)
(* included, no more were let through than the burst plus what the rate    *)
(* allows for the time between them, whoever made them and however their   *)
(* checks of the bucket interleaved.                                       *)
WindowBound == \A i, j \in 1..Len(log) :
                 i <= j => (j - i + 1) * Token <= Cap + Rate * (log[j] - log[i])

(* The inductive form: what is left in the bucket now already counts       *)
(* against every window that is still open.                                *)
Budget == \A i \in 1..Len(log) :
            (Len(log) - i + 1) * Token + Refilled <= Cap + Rate * (now - log[i])
==========================================================================
