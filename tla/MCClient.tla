----------------------------- MODULE MCClient -----------------------------
(* Model-checking instance of Client: two callers and one dial in the      *)
(* background, three attempts, delays 2 and 3 (4, capped).                 *)
EXTENDS Client

MCSockets == {1, 2}
MaxDelay(d) == [field |-> "retryMaxDelay", value |-> d]
MCClientOptions == <<MaxDelay(1), Nil, MaxDelay(3)>>
==========================================================================
