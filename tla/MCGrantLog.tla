--------------------------- MODULE MCGrantLog ---------------------------
(* Model-checking instance of RateLimiter with the history of GrantLog: two *)
(* callers; a token is 3 units and a tick brings 2, so that every sleep is  *)
(* truncated and wakes up short; windows of up to four ticks, from every    *)
(* state on.                                                                *)
EXTENDS GrantLog

MCMaxIdle == (Cap + Rate - 1) \div Rate
==========================================================================
