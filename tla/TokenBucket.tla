--------------------------- MODULE TokenBucket ---------------------------
(***************************************************************************)
(* What a RateLimiter promises to its callers: one bucket that gains Rate  *)
(* units at every instant up to Cap, from which a request that proceeds    *)
(* takes Token units.  The bucket is filled by the clock, not by the       *)
(* requests that look at it.  RateLimiter.tla, which is translated from    *)
(* ratelimit.go and fills its bucket only when somebody asks, implements   *)
(* this specification.                                                     *)
(***************************************************************************)
EXTENDS Integers

CONSTANTS Callers,   \* goroutines that share the limiter
          Rate,      \* units gained per instant
          Cap,       \* units the full bucket holds
          Token      \* units one request costs

VARIABLES level,     \* units in the bucket now
          result     \* per caller, what its last call returned

bucketVars == <<level, result>>

Results == {"none", "waiting", "ok", "refused", "ctxErr"}

BucketInit == /\ level = Cap
              /\ result = [c \in Callers |-> "none"]

(* Time passes. *)
Fill == /\ level' = IF level + Rate > Cap THEN Cap ELSE level + Rate
        /\ UNCHANGED result

(* A caller enters a blocking request. *)
Ask(c) == /\ result' = [result EXCEPT ![c] = "waiting"]
          /\ UNCHANGED level

(* A request proceeds: there is a whole token, and it is taken. *)
Grant(c) == /\ level >= Token
            /\ level' = level - Token
            /\ result' = [result EXCEPT ![c] = "ok"]

(* A non-blocking request is turned down, only when there is no token. *)
Refuse(c) == /\ level < Token
             /\ result' = [result EXCEPT ![c] = "refused"]
             /\ UNCHANGED level

(* A blocked request gives up and takes nothing. *)
GiveUp(c) == /\ result[c] = "waiting"
             /\ result' = [result EXCEPT ![c] = "ctxErr"]
             /\ UNCHANGED level

BucketNext == Fill \/ \E c \in Callers : Ask(c) \/ Grant(c) \/ Refuse(c) \/ GiveUp(c)

BucketSpec == BucketInit /\ [][BucketNext]_bucketVars
==========================================================================
