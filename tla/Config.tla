------------------------------ MODULE Config ------------------------------
(***************************************************************************)
(* ClientConfig of config.go: how options, defaults and validation make the*)
(* configuration that NewClient takes, and normalises once more.           *)
(*                                                                         *)
(* Durations are numbers, and 0, "" and nil are what Go gives a field that *)
(* no option sets: an option that sets one of them is as good as none.     *)
(* Left out: fields without a default that nothing depends on here         *)
(* (addresses, credentials, metrics, limiter, logger).                     *)
(***************************************************************************)
EXTENDS Integers, Sequences
LOCAL INSTANCE SequencesExt

CONSTANT Nil     \* a function, or an option, that is nil

(* The kinds of errors a predicate can tell apart with errors.Is: those of *)
(* a context or a timer that ran out, and the others.                      *)
Errors == {"ctx", "other"}

(* A predicate RetryOnError is the set of errors that it accepts.          *)
ClientConfig == [dialTimeout : Int, requestTimeout : Int,
                 retryAttempts : Nat, retryDelay : Int, retryMaxDelay : Int,
                 retryOnError : {Nil} \cup SUBSET Errors]

Empty == [dialTimeout |-> 0, requestTimeout |-> 0, retryAttempts |-> 0,
          retryDelay |-> 0, retryMaxDelay |-> 0, retryOnError |-> Nil]

(* An option sets one field. *)
With(cfg, o) == [cfg EXCEPT ![o.field] = o.value]

(* Options are applied in order, those that are nil skipped. *)
Configured(opts) == FoldLeft(With, Empty, SelectSeq(opts, LAMBDA o : o # Nil))

(* defaultRetryOnError *)
DefaultRetryOn == {"other"}

(* The unit of time is 100 ms. *)
Defaults == [dialTimeout |-> 300, requestTimeout |-> 600, retryAttempts |-> 3,
             retryDelay |-> 2, retryMaxDelay |-> 50, retryOnError |-> DefaultRetryOn]

applyClientDefaults(cfg) ==
  [f \in DOMAIN Empty |-> IF cfg[f] = Empty[f] THEN Defaults[f] ELSE cfg[f]]

validateClientConfig(cfg) ==
  /\ cfg.dialTimeout > 0 /\ cfg.requestTimeout > 0
  /\ cfg.retryDelay > 0 /\ cfg.retryMaxDelay >= cfg.retryDelay
  /\ cfg.retryOnError # Nil
==========================================================================
