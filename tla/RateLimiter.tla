--------------------------- MODULE RateLimiter ---------------------------
(***************************************************************************)
(* The token bucket of ratelimit.go, shared by several goroutines.         *)
(*                                                                         *)
(* Units.  The code counts tokens in a float64; the model counts them in   *)
(* 1/TicksPerSecond of a token, so that a rate of r requests per second is *)
(* r units per tick of the clock and a token is TicksPerSecond units.      *)
(* The rounding of float64 is left out; the truncation of the sleep to a   *)
(* whole number of ticks (time.Duration is an integer) is not.             *)
(*                                                                         *)
(* Time.  The code stores the instant lastUpdate and subtracts it from     *)
(* time.Now(); the model keeps the difference.  It stops at MaxIdle, a     *)
(* bound that changes nothing: MaxIdle ticks fill an empty bucket.         *)
(*                                                                         *)
(* r.mu is held from the reading of the clock to the last use of tokens    *)
(* and nothing blocks inside, so that a critical section is one step.      *)
(***************************************************************************)
EXTENDS Integers

CONSTANTS Callers,          \* goroutines that share the limiter
          ReqRate,          \* rate argument of NewRateLimiter
          ReqBurst,         \* burst argument of NewRateLimiter
          TicksPerSecond,   \* resolution of the clock
          MaxIdle           \* ticks after which idle time is not told apart

(* NewRateLimiter replaces a rate or a burst that is not positive by 1. *)
Rate  == IF ReqRate <= 0 THEN 1 ELSE ReqRate
Burst == IF ReqBurst <= 0 THEN 1 ELSE ReqBurst

Token == TicksPerSecond
Cap   == Burst * Token

ASSUME RateLimiterAssumption ==
  /\ ReqRate \in Int /\ ReqBurst \in Int
  /\ TicksPerSecond \in Nat \ {0}
  /\ MaxIdle \in Nat /\ MaxIdle * Rate >= Cap

VARIABLES tokens,    \* r.tokens, as of the last update
          elapsed,   \* time.Now() minus r.lastUpdate
          pc,        \* where each caller is: outside, before the lock, in select
          timer,     \* ticks until time.After(waitDuration) fires
          ctxDone,   \* is the context of the caller's call done
          result     \* what the caller's last call returned

vars == <<tokens, elapsed, pc, timer, ctxDone, result>>

(* Faulty variant: the bucket is not capped at the burst. *)
CappedNever(x) == x

Capped(x) == IF x > Cap THEN Cap ELSE x

(* The common prologue of Wait and Allow, under r.mu. *)
Refilled == Capped(tokens + elapsed * Rate)

Init == /\ tokens = Cap
        /\ elapsed = 0
        /\ pc = [c \in Callers |-> "idle"]
        /\ timer = [c \in Callers |-> 0]
        /\ ctxDone = [c \in Callers |-> FALSE]
        /\ result = [c \in Callers |-> "none"]

(* The clock advances; running timers come closer and stay fired at 0. *)
Tick == /\ elapsed' = IF elapsed < MaxIdle THEN elapsed + 1 ELSE elapsed
        /\ timer' = [c \in Callers |-> IF timer[c] > 0 THEN timer[c] - 1 ELSE 0]
        /\ UNCHANGED <<tokens, pc, ctxDone, result>>

(* Wait is called, perhaps with a context that is done already: Wait does  *)
(* not look at it before it sleeps.                                        *)
CallWait(c) == /\ pc[c] = "idle"
               /\ pc' = [pc EXCEPT ![c] = "check"]
               /\ \E b \in BOOLEAN : ctxDone' = [ctxDone EXCEPT ![c] = b]
               /\ result' = [result EXCEPT ![c] = "waiting"]
               /\ UNCHANGED <<tokens, elapsed, timer>>

(* The critical section of Wait finds a token and returns nil. *)
WaitTakes(c) == /\ pc[c] = "check"
                /\ Refilled >= Token
                /\ tokens' = Refilled - Token
                /\ elapsed' = 0
                /\ pc' = [pc EXCEPT ![c] = "idle"]
                /\ result' = [result EXCEPT ![c] = "ok"]
                /\ UNCHANGED <<timer, ctxDone>>

(* Faulty variant: the sleep is rounded up. *)
WaitDurationUp(level) == (Token - level) \div Rate + 1

WaitDuration(level) == (Token - level) \div Rate

(* Faulty variant: lastUpdate moves on but what has accrued is not stored. *)
WaitSleepsForgets(c) == /\ pc[c] = "check"
                        /\ Refilled < Token
                        /\ elapsed' = 0
                        /\ timer' = [timer EXCEPT ![c] = WaitDuration(Refilled)]
                        /\ pc' = [pc EXCEPT ![c] = "select"]
                        /\ UNCHANGED <<tokens, ctxDone, result>>

(* The critical section of Wait finds less than a token: it keeps what has *)
(* accrued, and the caller enters the select.                              *)
WaitSleeps(c) == /\ pc[c] = "check"
                 /\ Refilled < Token
                 /\ tokens' = Refilled
                 /\ elapsed' = 0
                 /\ timer' = [timer EXCEPT ![c] = WaitDuration(Refilled)]
                 /\ pc' = [pc EXCEPT ![c] = "select"]
                 /\ UNCHANGED <<ctxDone, result>>

(* The select takes the timer's case and the loop starts again. *)
SelectTimer(c) == /\ pc[c] = "select"
                  /\ timer[c] = 0
                  /\ pc' = [pc EXCEPT ![c] = "check"]
                  /\ UNCHANGED <<tokens, elapsed, timer, ctxDone, result>>

(* Faulty variant: the case of the context does not return. *)
SelectCtxContinues(c) == /\ pc[c] = "select"
                         /\ ctxDone[c]
                         /\ pc' = [pc EXCEPT ![c] = "check"]
                         /\ timer' = [timer EXCEPT ![c] = 0]
                         /\ UNCHANGED <<tokens, elapsed, ctxDone, result>>

(* The select takes the case of the context and Wait returns ctx.Err(). *)
SelectCtx(c) == /\ pc[c] = "select"
                /\ ctxDone[c]
                /\ pc' = [pc EXCEPT ![c] = "idle"]
                /\ timer' = [timer EXCEPT ![c] = 0]
                /\ result' = [result EXCEPT ![c] = "ctxErr"]
                /\ UNCHANGED <<tokens, elapsed, ctxDone>>

(* The owner of the context cancels it, or its deadline passes. *)
Cancel(c) == /\ pc[c] # "idle"
             /\ ~ctxDone[c]
             /\ ctxDone' = [ctxDone EXCEPT ![c] = TRUE]
             /\ UNCHANGED <<tokens, elapsed, pc, timer, result>>

(* Faulty variant: Allow does not move lastUpdate. *)
AllowTakesAgain(c) == /\ pc[c] = "idle"
                      /\ Refilled >= Token
                      /\ tokens' = Refilled - Token
                      /\ result' = [result EXCEPT ![c] = "ok"]
                      /\ UNCHANGED <<elapsed, pc, timer, ctxDone>>

(* Allow, one critical section: it returns true and takes a token, *)
AllowTakes(c) == /\ pc[c] = "idle"
                 /\ Refilled >= Token
                 /\ tokens' = Refilled - Token
                 /\ elapsed' = 0
                 /\ result' = [result EXCEPT ![c] = "ok"]
                 /\ UNCHANGED <<pc, timer, ctxDone>>

(* or it returns false and keeps what has accrued. *)
AllowRefuses(c) == /\ pc[c] = "idle"
                   /\ Refilled < Token
                   /\ tokens' = Refilled
                   /\ elapsed' = 0
                   /\ result' = [result EXCEPT ![c] = "refused"]
                   /\ UNCHANGED <<pc, timer, ctxDone>>

Takes(c) == WaitTakes(c) \/ AllowTakes(c)

Others(c) == \/ CallWait(c) \/ WaitSleeps(c) \/ SelectTimer(c) \/ SelectCtx(c)
             \/ Cancel(c)   \/ AllowRefuses(c)

Next == Tick \/ \E c \in Callers : Takes(c) \/ Others(c)

(* The clock runs.  A goroutine that can run does.  select chooses at      *)
(* random among its ready cases, so a case that is ready again and again   *)
(* is taken: strong fairness.  Nobody has to call or to cancel.            *)
Fairness == /\ WF_vars(Tick)
            /\ \A c \in Callers : /\ WF_vars(WaitTakes(c) \/ WaitSleeps(c))
                                  /\ WF_vars(SelectTimer(c))
                                  /\ SF_vars(SelectCtx(c))

SafeSpec == Init /\ [][Next]_vars
Spec == SafeSpec /\ Fairness

--------------------------------------------------------------------------
(* Values of the state.  The bucket never holds more than the burst nor    *)
(* less than nothing, however calls interleave with the clock.             *)
TypeOK == /\ tokens \in 0..Cap
          /\ elapsed \in 0..MaxIdle
          /\ pc \in [Callers -> {"idle", "check", "select"}]
          /\ timer \in [Callers -> 0..Token]
          /\ ctxDone \in [Callers -> BOOLEAN]
          /\ result \in [Callers -> {"none", "waiting", "ok", "refused", "ctxErr"}]

(* A caller never sleeps through a token: while its timer still runs there *)
(* is less than one token to have, whatever the other callers did to the   *)
(* bucket after the sleep was computed.                                    *)
NoOversleep == \A c \in Callers :
                 pc[c] = "select" /\ timer[c] > 0 => Refilled < Token

(* The limiter is the bucket of TokenBucket.tla: asking does not lose what *)
(* has accrued, a refusal means that there was no token, and a cancelled   *)
(* Wait takes none.                                                        *)
Bucket == INSTANCE TokenBucket WITH level <- Refilled
ImplementsBucket == Bucket!BucketSpec

(* When all callers are inside Wait, one of them returns, whether or not   *)
(* any context is done: the truncated sleeps do not turn into a livelock.  *)
SomeWaitReturns == []<>(\E c \in Callers : pc[c] = "idle")

(* A caller whose context is done gets out of Wait even if others take     *)
(* every token it wakes up for.                                            *)
CancelledWaitReturns == \A c \in Callers :
                          (pc[c] # "idle" /\ ctxDone[c]) ~> (pc[c] = "idle")
==========================================================================
