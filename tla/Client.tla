------------------------------ MODULE Client ------------------------------
(***************************************************************************)
(* Client of client.go: calls of Do and DialContext, the retry loop that   *)
(* both run in (retryPolicy.run), the SOCKS5 dial at the bottom of both    *)
(* (socks5Dialer), and the Check of health.go, which dials without a loop. *)
(*                                                                         *)
(* Two kinds of goroutines run the retry loop.  Callers run it for Do,     *)
(* where an attempt is a request to net/http, or for DialContext, where an *)
(* attempt is a dial.  Dialers are the goroutines in which http.Transport  *)
(* runs Client.dialContext, that is the retry loop around the same dial,   *)
(* so that the loops of one Do are nested.  A dialer outlives the attempt  *)
(* that asked for it, and its context is never cancelled (net/http detaches*)
(* it from the request, to keep the connection for a later one).           *)
(*                                                                         *)
(* http.Transport is external: it keeps connections in a pool, hands one to*)
(* an attempt that wants one or starts a dialer when there is none.  As    *)
(* NewClient asks it for HTTP/2, a connection may turn out to speak that   *)
(* once it is made: requests then share it, each in a stream of its own.   *)
(* The SOCKS proxy is external too, and may never answer.  The metrics and *)
(* the inside of the rate limiter are modelled in modules of their own.    *)
(***************************************************************************)
EXTENDS Config, FiniteSets

CONSTANTS Callers, Dialers,   \* goroutines: users, http.Transport's
          None,               \* no caller, no connection
          Sockets,            \* bound: connections open at a time
          MaxCalls,           \* bound: calls made
          ClientOptions,      \* the options of NewClientConfig
          MaxInt              \* the largest time.Duration

Procs == Callers \cup Dialers

(* The configuration that NewClientConfig returns, and the one that        *)
(* NewClient makes of it.                                                  *)
accepted == applyClientDefaults(Configured(ClientOptions))
cfg == applyClientDefaults(accepted)

(* The retryPolicy of the client. *)
Attempts == cfg.retryAttempts
RetryDelay == cfg.retryDelay
RetryMaxDelay == cfg.retryMaxDelay
RetryOn == cfg.retryOnError

(* The configuration is one that NewClientConfig accepts.  One thing it    *)
(* does not check: the cap can be doubled without overflow.                *)
ASSUME ClientAssumption ==
  /\ Callers \cap Dialers = {} /\ None \notin Procs \cup Sockets
  /\ MaxCalls \in Nat
  /\ Configured(ClientOptions) \in ClientConfig
  /\ validateClientConfig(accepted)
  /\ MaxInt \in Nat /\ 2 * accepted.retryMaxDelay <= MaxInt

VARIABLES pc,          \* per goroutine, where it is
          kind,        \* per goroutine, what an attempt is: "do" or "dial";
                       \* or that it is a "check"
          attempt,     \* per goroutine, the loop counter i of run
          delay,       \* per goroutine, the variable delay of run
          err,         \* per goroutine, the error of its last attempt
          ctxDone,     \* per caller, is the context of its call done
          late,        \* per caller, requests and dials begun in vain, with
                       \* the context done
          conn,        \* per goroutine, the connection it works on
          for,         \* per dialer, the caller whose attempt waits for it
          calls,       \* counter: calls made
          open,        \* connections to the proxy that are open
          pool,        \* connections that http.Transport can give a request
          h2,          \* those of them that speak HTTP/2, busy or idle
          bodies,      \* per connection, responses on it that users read
          given        \* connections that DialContext returned

(* Connections that a goroutine works on, and those of responses.          *)
Held == {conn[p] : p \in Procs} \ {None}
Read == {s \in Sockets : bodies[s] > 0}

loop == <<attempt, delay, err>>
hands == <<pool, h2, bodies, given>>
vars == <<pc, kind, loop, ctxDone, late, conn, for, calls, open, hands>>

Init == /\ pc = [p \in Procs |-> "idle"]
        /\ kind = [p \in Procs |-> "dial"]
        /\ attempt = [p \in Procs |-> 0]
        /\ delay = [p \in Procs |-> RetryDelay]
        /\ err = [p \in Procs |-> "none"]
        /\ ctxDone = [p \in Procs |-> FALSE]
        /\ late = [p \in Procs |-> 0]
        /\ conn = [p \in Procs |-> None]
        /\ for = [d \in Dialers |-> None]
        /\ calls = 0
        /\ open = {} /\ pool = {} /\ h2 = {} /\ given = {}
        /\ bodies = [s \in Sockets |-> 0]

Go(p, from, to) == pc[p] \in from /\ pc' = [pc EXCEPT ![p] = to]

(* --- a call: the rate limiter comes before the loop --- *)

Call(c) == /\ Go(c, {"idle"}, "limiter")
           /\ calls < MaxCalls
           /\ calls' = calls + 1
           /\ \E k \in {"do", "dial"} : kind' = [kind EXCEPT ![c] = k]
           /\ \E b \in BOOLEAN : ctxDone' = [ctxDone EXCEPT ![c] = b]
           /\ UNCHANGED <<loop, late, conn, for, open, hands>>

(* The caller's context is cancelled or past its deadline. *)
Cancel(c) == /\ pc[c] # "idle" /\ ~ctxDone[c]
             /\ ctxDone' = [ctxDone EXCEPT ![c] = TRUE]
             /\ UNCHANGED <<pc, kind, loop, late, conn, for, calls, open, hands>>

LimiterPasses(c) == /\ Go(c, {"limiter"}, "attempt")
                    /\ UNCHANGED <<kind, loop, ctxDone, late, conn, for, calls, open, hands>>

LimiterFails(c) == /\ Go(c, {"limiter"}, "idle")
                   /\ ctxDone[c]
                   /\ ctxDone' = [ctxDone EXCEPT ![c] = FALSE]
                   /\ UNCHANGED <<kind, loop, late, conn, for, calls, open, hands>>

(* --- the loop of retryPolicy.run --- *)

(* fn is called with a context of its own.  Do may fail at once: the body  *)
(* of the request cannot be replayed.                                      *)
Attempt(p) == /\ pc[p] = "attempt"
              /\ \/ /\ pc' = [pc EXCEPT ![p] = IF kind[p] = "do" THEN "want" ELSE "tcp"]
                    /\ late' = [late EXCEPT ![p] = IF ctxDone[p] THEN @ + 1 ELSE @]
                    /\ UNCHANGED err
                 \/ /\ kind[p] = "do"
                    /\ pc' = [pc EXCEPT ![p] = "failed"]
                    /\ err' = [err EXCEPT ![p] = "other"]
                    /\ UNCHANGED late
              /\ UNCHANGED <<kind, attempt, delay, ctxDone, conn, for, calls, open, hands>>

Fail(p, e) == /\ pc' = [pc EXCEPT ![p] = "failed"]
              /\ err' = [err EXCEPT ![p] = e]
              /\ UNCHANGED <<attempt, delay>>

(* run returns, and its variables are gone. *)
Return(p) == /\ attempt' = [attempt EXCEPT ![p] = 0]
             /\ delay' = [delay EXCEPT ![p] = RetryDelay]
             /\ err' = [err EXCEPT ![p] = "none"]
             /\ ctxDone' = [ctxDone EXCEPT ![p] = FALSE]
             /\ late' = [late EXCEPT ![p] = 0]

(* Faulty variant: an error of the context is retried like any other. *)
RetryableAlways(e) == TRUE

Retryable(e) == e \in RetryOn

(* Faulty variant: off by one. *)
LastButOne(p) == attempt[p] = Attempts

Last(p) == attempt[p] = Attempts - 1

Retries(p) == kind[p] # "check" /\ Retryable(err[p]) /\ ~Last(p)

Backoff(p) == /\ Go(p, {"failed"}, "backoff")
              /\ Retries(p)
              /\ UNCHANGED <<kind, loop, ctxDone, late, conn, for, calls, open, hands>>

(* run returns the error of a caller's last attempt. *)
GiveUp(c) == /\ Go(c, {"failed"}, "idle")
             /\ kind[c] # "check" /\ ~Retries(c)
             /\ Return(c)
             /\ UNCHANGED <<kind, conn, for, calls, open, hands>>

(* The case of the context in the select. *)
BackoffCtx(c) == /\ Go(c, {"backoff"}, "idle")
                 /\ ctxDone[c]
                 /\ Return(c)
                 /\ UNCHANGED <<kind, conn, for, calls, open, hands>>

(* delay *= 2, in 64 bits, then the cap. *)
Doubled(d) == IF 2 * d > MaxInt THEN 2 * d - 2 * (MaxInt + 1) ELSE 2 * d

(* Faulty variant: no cap. *)
NextDelayUncapped(d) == Doubled(d)

NextDelay(d) == IF Doubled(d) > RetryMaxDelay THEN RetryMaxDelay ELSE Doubled(d)

(* The case of the timer. *)
BackoffTimer(p) == /\ Go(p, {"backoff"}, "attempt")
                   /\ attempt' = [attempt EXCEPT ![p] = @ + 1]
                   /\ delay' = [delay EXCEPT ![p] = NextDelay(@)]
                   /\ UNCHANGED <<kind, err, ctxDone, late, conn, for, calls, open, hands>>

(* --- socks5Dialer.DialContext --- *)

(* The connection to the proxy is bounded by the attempt's context.  A     *)
(* context that is done fails the dial before it begins.                   *)
TcpConnects(p) == /\ Go(p, {"tcp"}, "hello")
                  /\ ~ctxDone[p]
                  /\ \E s \in Sockets \ open : /\ open' = open \cup {s}
                                               /\ conn' = [conn EXCEPT ![p] = s]
                  /\ UNCHANGED <<kind, loop, ctxDone, late, for, calls, hands>>

TcpFails(p) == /\ pc[p] = "tcp" /\ ~ctxDone[p]
               /\ Fail(p, "other")
               /\ UNCHANGED <<kind, ctxDone, late, conn, for, calls, open, hands>>

(* Faulty variant: the dialer has no timeout. *)
TcpTimesOutMissing(p) == pc[p] = "tcp" /\ FALSE /\ UNCHANGED vars

TcpTimesOut(p) == /\ pc[p] = "tcp"
                  /\ Fail(p, "ctx")
                  /\ UNCHANGED <<kind, ctxDone, late, conn, for, calls, open, hands>>

(* Faulty variant: a failed handshake leaves the connection open. *)
HandshakeFailsLeaks(p) == /\ pc[p] = "hello"
                          /\ Fail(p, "other")
                          /\ conn' = [conn EXCEPT ![p] = None]
                          /\ UNCHANGED <<kind, ctxDone, late, for, calls, open, hands>>

(* The handshake looks at no context and sets no deadline on the           *)
(* connection: it ends when the proxy answers or closes.                   *)
HandshakeFails(p) == /\ pc[p] = "hello"
                     /\ Fail(p, "other")
                     /\ open' = open \ {conn[p]}
                     /\ conn' = [conn EXCEPT ![p] = None]
                     /\ UNCHANGED <<kind, ctxDone, late, for, calls, hands>>

(* DialContext returns the connection to its user; *)
CallerConnected(c) == /\ Go(c, {"hello"}, "idle")
                      /\ kind[c] # "check"
                      /\ given' = given \cup {conn[c]}
                      /\ conn' = [conn EXCEPT ![c] = None]
                      /\ Return(c)
                      /\ UNCHANGED <<kind, for, calls, open, pool, h2, bodies>>

(* dialContext returns it to http.Transport, which keeps it, unless it     *)
(* speaks HTTP/2 and there is one that does already.                       *)
DialerConnected(d) == /\ Go(d, {"hello"}, "idle")
                      /\ \E speaks \in SUBSET {conn[d]} :
                           LET surplus == IF h2 = {} THEN {} ELSE speaks
                           IN  /\ h2' = h2 \cup (speaks \ surplus)
                               /\ pool' = pool \cup ({conn[d]} \ surplus)
                               /\ open' = open \ surplus
                      /\ conn' = [conn EXCEPT ![d] = None]
                      /\ for' = [for EXCEPT ![d] = None]
                      /\ Return(d)
                      /\ UNCHANGED <<kind, calls, bodies, given>>

(* dialContext returns an error: the attempt that still waits for this     *)
(* dial fails with it.                                                     *)
DialerGivesUp(d) == /\ pc[d] = "failed"
                    /\ ~Retries(d)
                    /\ for' = [for EXCEPT ![d] = None]
                    /\ LET c == for[d]
                       IN  IF c = None
                           THEN /\ pc' = [pc EXCEPT ![d] = "idle"]
                                /\ err' = [err EXCEPT ![d] = "none"]
                           ELSE /\ pc' = [pc EXCEPT ![d] = "idle", ![c] = "failed"]
                                /\ err' = [err EXCEPT ![d] = "none", ![c] = err[d]]
                    /\ attempt' = [attempt EXCEPT ![d] = 0]
                    /\ delay' = [delay EXCEPT ![d] = RetryDelay]
                    /\ UNCHANGED <<kind, ctxDone, late, conn, calls, open, hands>>

(* --- an attempt of Do: httpClient.Do --- *)

(* http.Transport gives it a connection, now or while it dials: one that is*)
(* idle and leaves the pool, or one of HTTP/2, which stays there, *)
TakeConn(c) == /\ Go(c, {"want", "waiting"}, "sent")
               /\ ~ctxDone[c]
               /\ \E s \in pool : /\ pool' = pool \ ({s} \ h2)
                                  /\ conn' = [conn EXCEPT ![c] = s]
               /\ for' = [d \in Dialers |-> IF for[d] = c THEN None ELSE for[d]]
               /\ UNCHANGED <<kind, loop, ctxDone, late, calls, open, h2, bodies, given>>

(* or starts a dial. *)
StartDial(c, d) == /\ pc[c] = "want" /\ ~ctxDone[c] /\ pool = {}
                   /\ pc[d] = "idle"
                   /\ pc' = [pc EXCEPT ![c] = "waiting", ![d] = "attempt"]
                   /\ for' = [for EXCEPT ![d] = c]
                   /\ UNCHANGED <<kind, loop, ctxDone, late, conn, calls, open, hands>>

(* The response arrives; its body holds the connection. *)
Response(c) == /\ Go(c, {"sent"}, "idle")
               /\ conn[c] # None
               /\ bodies' = [bodies EXCEPT ![conn[c]] = @ + 1]
               /\ conn' = [conn EXCEPT ![c] = None]
               /\ Return(c)
               /\ UNCHANGED <<kind, for, calls, open, pool, h2, given>>

(* The request fails.  This closes its connection, or on HTTP/2 only its   *)
(* stream: others may be using the connection.                             *)
Abandon(c) == /\ open' = open \ ({conn[c]} \ h2)
              /\ conn' = [conn EXCEPT ![c] = None]

(* The request fails on its connection, or with it, *)
HttpFails(c) == /\ pc[c] = "sent"
                /\ Fail(c, "other")
                /\ Abandon(c)
                /\ UNCHANGED <<kind, ctxDone, late, for, calls, hands>>

(* Faulty variant: the http.Client has no timeout. *)
HttpTimesOutMissing(c) == pc[c] = "want" /\ FALSE /\ UNCHANGED vars

(* or the context or RequestTimeout ends it, wherever it is. *)
HttpTimesOut(c) == /\ pc[c] \in {"want", "waiting", "sent"}
                   /\ Fail(c, "ctx")
                   /\ Abandon(c)
                   /\ for' = [d \in Dialers |-> IF for[d] = c THEN None ELSE for[d]]
                   /\ UNCHANGED <<kind, ctxDone, late, calls, hands>>

(* --- what becomes of connections --- *)

(* A response is read to its end; its connection goes back to the pool. *)
BodyRead == /\ \E s \in Read : /\ bodies' = [bodies EXCEPT ![s] = @ - 1]
                               /\ pool' = pool \cup {s}
            /\ UNCHANGED <<pc, kind, loop, ctxDone, late, conn, for, calls, open, h2, given>>

(* A user closes what it was given: a response unread, and with it the     *)
(* connection or the stream, *)
BodyClosed == /\ \E s \in Read : /\ bodies' = [bodies EXCEPT ![s] = @ - 1]
                                 /\ open' = open \ ({s} \ h2)
              /\ UNCHANGED <<pc, kind, loop, ctxDone, late, conn, for, calls, pool, h2, given>>

(* or a connection. *)
UserCloses == /\ \E s \in given : given' = given \ {s} /\ open' = open \ {s}
              /\ UNCHANGED <<pc, kind, loop, ctxDone, late, conn, for, calls, pool, h2, bodies>>

(* http.Transport closes connections of the pool. *)
Drop(S) == /\ open' = open \ S /\ pool' = pool \ S /\ h2' = h2 \ S
           /\ UNCHANGED <<pc, kind, loop, ctxDone, late, for, calls, given>>

(* Those in the pool that no request and no response uses. *)
Idle == {s \in pool : s \notin Held /\ bodies[s] = 0}

(* An idle connection times out, or the other end closes it. *)
IdleTimeout == /\ \E s \in Idle : Drop({s})
               /\ UNCHANGED <<conn, bodies>>

(* Client.Close closes the idle connections. *)
Close == Drop(Idle) /\ UNCHANGED <<conn, bodies>>

(* A connection of HTTP/2 is lost with every stream on it; the requests    *)
(* learn of it one after the other.                                        *)
ConnLost == \E s \in h2 : /\ Drop({s})
                          /\ conn' = [p \in Procs |-> IF conn[p] = s THEN None ELSE conn[p]]
                          /\ bodies' = [bodies EXCEPT ![s] = 0]

(* --- Check of health.go --- *)

(* checkSOCKS dials at once, with a timeout of its own, *)
Check(c) == /\ Go(c, {"idle"}, "tcp")
            /\ calls < MaxCalls
            /\ calls' = calls + 1
            /\ kind' = [kind EXCEPT ![c] = "check"]
            /\ \E b \in BOOLEAN : ctxDone' = [ctxDone EXCEPT ![c] = b]
            /\ UNCHANGED <<loop, late, conn, for, open, hands>>

(* closes the connection it was given, *)
CheckConnected(c) == /\ Go(c, {"hello"}, "control")
                     /\ kind[c] = "check"
                     /\ open' = open \ {conn[c]}
                     /\ conn' = [conn EXCEPT ![c] = None]
                     /\ UNCHANGED <<kind, loop, ctxDone, late, for, calls, hands>>

(* or keeps the error for the verdict. *)
CheckFails(c) == /\ Go(c, {"failed"}, "control")
                 /\ kind[c] = "check"
                 /\ UNCHANGED <<kind, loop, ctxDone, late, conn, for, calls, open, hands>>

(* checkControl asks Tor, if there is a control client, for one timeout at *)
(* most, and the verdict is given.                                         *)
Checked(c) == /\ Go(c, {"control"}, "idle")
              /\ Return(c)
              /\ UNCHANGED <<kind, conn, for, calls, open, hands>>

CheckStep(c) == Check(c) \/ CheckConnected(c) \/ CheckFails(c) \/ Checked(c)

Run(p) == Attempt(p) \/ Backoff(p) \/ BackoffTimer(p)

Dial(p) == TcpConnects(p) \/ TcpFails(p) \/ HandshakeFails(p)

CallerStep(c) == \/ Call(c) \/ Cancel(c) \/ LimiterPasses(c) \/ LimiterFails(c)
                 \/ GiveUp(c) \/ BackoffCtx(c) \/ CallerConnected(c)
                 \/ TakeConn(c) \/ (\E d \in Dialers : StartDial(c, d))
                 \/ Response(c) \/ HttpFails(c) \/ HttpTimesOut(c)

DialerStep(d) == DialerConnected(d) \/ DialerGivesUp(d)

Next == \/ \E p \in Procs : Run(p) \/ Dial(p) \/ TcpTimesOut(p)
        \/ \E c \in Callers : CallerStep(c) \/ CheckStep(c)
        \/ \E d \in Dialers : DialerStep(d)
        \/ BodyRead \/ BodyClosed \/ UserCloses \/ IdleTimeout \/ Close \/ ConnLost

(* Goroutines and timers run: DialTimeout bounds the connection to the     *)
(* proxy and RequestTimeout an attempt of Do (both are positive).  The     *)
(* proxy owes nothing, nor does the limiter to a context that is not done. *)
Fairness == /\ \A p \in Procs : WF_vars(Run(p)) /\ WF_vars(TcpTimesOut(p))
            /\ \A c \in Callers : /\ WF_vars(GiveUp(c) \/ LimiterFails(c))
                                  /\ WF_vars(HttpTimesOut(c))
                                  /\ WF_vars(CheckFails(c) \/ Checked(c))
            /\ \A d \in Dialers : WF_vars(DialerGivesUp(d))

SafeSpec == Init /\ [][Next]_vars
Spec == SafeSpec /\ Fairness

--------------------------------------------------------------------------
Places == {"idle", "limiter", "attempt", "failed", "backoff",
           "tcp", "hello", "want", "waiting", "sent", "control"}

(* Values of the state.  The loop never gets past its last attempt, where  *)
(* run would return nil without a result.                                  *)
TypeOK == /\ pc \in [Procs -> Places]
          /\ kind \in [Procs -> {"do", "dial", "check"}]
          /\ attempt \in [Procs -> 0..(Attempts - 1)]
          /\ delay \in [Procs -> Int]
          /\ err \in [Procs -> Errors \cup {"none"}]
          /\ ctxDone \in [Procs -> BOOLEAN]
          /\ late \in [Procs -> Nat]
          /\ conn \in [Procs -> Sockets \cup {None}]
          /\ for \in [Dialers -> Callers \cup {None}]
          /\ calls \in Nat
          /\ open \subseteq Sockets /\ pool \subseteq Sockets /\ h2 \subseteq pool
          /\ bodies \in [Sockets -> Nat] /\ given \subseteq Sockets

(* Every open connection is in a hand, and what is in a hand is open: no   *)
(* attempt that fails leaves its connection behind, nor closes it under    *)
(* others that use it, whatever fails and in whichever order attempts,     *)
(* dials, timeouts and Close end (client.go 301, 459-468).  Only requests  *)
(* and responses share one, and only if it speaks HTTP/2 (client.go 143);  *)
(* any other is in one hand.                                               *)
SocketsOwned ==
  /\ open = Held \cup pool \cup Read \cup given
  /\ given \cap (Held \cup pool \cup Read) = {}
  /\ (Held \cap pool) \cup (Held \cap Read) \cup (pool \cap Read) \subseteq h2
  /\ \A s \in Sockets \ h2 : bodies[s] <= 1
  /\ \A p, q \in Procs : conn[p] = conn[q] /\ p # q => conn[p] \in h2 \cup {None}
  /\ \A p \in Procs : conn[p] \in h2 => pc[p] = "sent"

(* A retry waits at least the initial and at most the maximal delay. *)
BackoffInRange == \A p \in Procs : RetryDelay <= delay[p] /\ delay[p] <= RetryMaxDelay

(* "skips retries when the caller canceled or timed out the request": with *)
(* the default predicate at most one request or dial begins after the      *)
(* context of the call is done, although the select may prefer the timer   *)
(* and a handshake that fails does not say why.                            *)
LateAttempts == RetryOn = {"other"} => \A c \in Callers : late[c] <= 1

(* Each goroutine goes through one loop of RetryLoop.tla at a time, attempt*)
(* by attempt, although the loops of a Do are nested, their errors cross   *)
(* from one goroutine to another, and an attempt may be over before the    *)
(* dial that it asked for is (client.go 323-385).  A Check has no loop.    *)
Phase(p) == CASE kind[p] = "check" \/ pc[p] \in {"idle", "limiter", "control"} -> "off"
              [] kind[p] # "check" /\ pc[p] = "attempt"                        -> "ready"
              [] kind[p] # "check" /\ pc[p] = "failed"                         -> err[p]
              [] kind[p] # "check" /\ pc[p] = "backoff"                        -> "pausing"
              [] OTHER                                                         -> "trying"

Retry == INSTANCE RetryLoop
           WITH Loops <- Procs, Delay <- RetryDelay, MaxDelay <- RetryMaxDelay,
                phase <- [p \in Procs |-> Phase(p)], tried <- attempt, pause <- delay
ImplementsRetryLoop == Retry!RetrySpec

(* Do returns once the limiter lets it through, even if the proxy or the   *)
(* server is silent for ever and dials for it never end.                   *)
DoReturns == \A c \in Callers :
               (kind[c] = "do" /\ pc[c] \notin {"idle", "limiter"}) ~> (pc[c] = "idle")

(* DialContext and Check return too, unless they are in a handshake for    *)
(* ever.                                                                   *)
ReturnsOrHangs ==
  \A c \in Callers : [](pc[c] \notin {"idle", "limiter"}
                          => <>(pc[c] = "idle" \/ [](pc[c] = "hello")))

(* "The context can be used for cancellation and deadlines", and "The check*)
(* includes a timeout to prevent hanging on unresponsive services": a      *)
(* DialContext whose context is done returns, and so does every Check.     *)
BoundedCallsReturn ==
  \A c \in Callers :
    pc[c] # "idle" /\ (kind[c] = "check" \/ (kind[c] = "dial" /\ ctxDone[c])) ~> pc[c] = "idle"
==========================================================================
