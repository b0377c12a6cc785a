--------------------------- MODULE Client_proof ---------------------------
(***************************************************************************)
(* Proofs about Client, for any number of callers, background dials and    *)
(* attempts, and any predicate RetryOnError: no connection is lost and only*)
(* those of HTTP/2 are shared, the loop stays within its attempts and its delays, and a done   *)
(* context costs at most one more attempt.                                 *)
(***************************************************************************)
EXTENDS Client, TLAPS

(* A connection is held where the dial or the request needs it, and a      *)
(* request may have lost its own. *)
HoldOK == \A p \in Procs : /\ pc[p] = "hello" => conn[p] # None
                           /\ conn[p] # None => pc[p] \in {"hello", "sent"}

(* An attempt is waited for by one dialer at most, and it is waiting. *)
ForOK == /\ \A d \in Dialers : for[d] # None => pc[for[d]] = "waiting"
         /\ \A d, e \in Dialers : for[d] = for[e] /\ for[d] # None => d = e

(* The select is entered before the last attempt only. *)
BackoffOK == \A p \in Procs : pc[p] = "backoff" => attempt[p] # Attempts - 1

(* What was begun with a context that is done ends in an error that the    *)
(* default predicate does not retry.                                       *)
Doomed(p) == /\ late[p] = 1 /\ ctxDone[p] /\ kind[p] # "check"
             /\ pc[p] \in {"want", "tcp"} \/ (pc[p] = "failed" /\ err[p] = "ctx")
LateOK == RetryOn = {"other"} =>
            \A c \in Callers :
              /\ late[c] = 0 \/ Doomed(c)
              /\ kind[c] = "check" => pc[c] \in {"idle", "tcp", "hello", "failed", "control"}

IInv == /\ TypeOK /\ BackoffOK /\ BackoffInRange
        /\ HoldOK /\ ForOK /\ SocketsOwned
        /\ LateOK

(* A configuration that validateClientConfig accepts after the defaults    *)
(* were applied is the same when they are applied again: NewClient takes   *)
(* what NewClientConfig returned (config.go:521-582, client.go:99-103).    *)
THEOREM NormalisedOnce ==
  ASSUME NEW c \in ClientConfig, validateClientConfig(applyClientDefaults(c))
  PROVE  /\ applyClientDefaults(c) \in ClientConfig
         /\ applyClientDefaults(applyClientDefaults(c)) = applyClientDefaults(c)
<1>1. DOMAIN Empty = {"dialTimeout", "requestTimeout", "retryAttempts", "retryDelay",
                      "retryMaxDelay", "retryOnError"}
  BY DEF Empty
<1>2. applyClientDefaults(c) =
        [dialTimeout |-> IF c.dialTimeout = 0 THEN 300 ELSE c.dialTimeout,
         requestTimeout |-> IF c.requestTimeout = 0 THEN 600 ELSE c.requestTimeout,
         retryAttempts |-> IF c.retryAttempts = 0 THEN 3 ELSE c.retryAttempts,
         retryDelay |-> IF c.retryDelay = 0 THEN 2 ELSE c.retryDelay,
         retryMaxDelay |-> IF c.retryMaxDelay = 0 THEN 50 ELSE c.retryMaxDelay,
         retryOnError |-> IF c.retryOnError = Nil THEN {"other"} ELSE c.retryOnError]
  BY <1>1 DEF applyClientDefaults, Empty, Defaults, DefaultRetryOn
<1>3. applyClientDefaults(c) \in ClientConfig
  BY <1>2 DEF ClientConfig, Errors
<1>4. \A f \in DOMAIN Empty : applyClientDefaults(c)[f] = Empty[f] => applyClientDefaults(c)[f] = Defaults[f]
  BY <1>1, <1>2 DEF Empty, Defaults, DefaultRetryOn, ClientConfig
<1>5. QED
  BY <1>1, <1>3, <1>4 DEF applyClientDefaults

(* What the loop needs of the configuration. *)
LEMMA ConfigFacts ==
  /\ Attempts \in Nat \ {0}
  /\ RetryDelay \in Nat \ {0} /\ RetryMaxDelay \in Nat /\ RetryMaxDelay >= RetryDelay
  /\ 2 * RetryMaxDelay <= MaxInt
  /\ RetryOn \subseteq Errors
<1>1. accepted \in ClientConfig /\ cfg = accepted /\ validateClientConfig(accepted)
  BY ClientAssumption, NormalisedOnce DEF accepted, cfg
<1>2. accepted.retryAttempts # 0
  BY DEF accepted, applyClientDefaults, Empty, Defaults
<1>3. QED
  BY <1>1, <1>2, ClientAssumption
  DEF Attempts, RetryDelay, RetryMaxDelay, RetryOn, ClientConfig, validateClientConfig

LEMMA InitIInv == Init => IInv
<1>. SUFFICES ASSUME Init PROVE IInv
  OBVIOUS
<1>1. TypeOK
  BY ConfigFacts, ClientAssumption DEF Init, TypeOK, Procs, Places, Errors
<1>2. BackoffOK /\ BackoffInRange /\ HoldOK /\ ForOK /\ LateOK
  BY ClientAssumption, ConfigFacts DEF Init, BackoffOK, BackoffInRange, HoldOK, ForOK, LateOK, Procs
<1>3. SocketsOwned
  BY DEF Init, SocketsOwned, Held, Read
<1>. QED  BY <1>1, <1>2, <1>3 DEF IInv

(* The next delay is in range: this is where the cap must not overflow. *)
LEMMA NextDelayInRange ==
  ASSUME NEW d \in Int, RetryDelay <= d, d <= RetryMaxDelay
  PROVE  /\ NextDelay(d) \in Int
         /\ RetryDelay <= NextDelay(d) /\ NextDelay(d) <= RetryMaxDelay
BY ClientAssumption, ConfigFacts DEF NextDelay, Doubled

(* --- the loop --- *)

LEMMA LoopKept ==
  ASSUME TypeOK, BackoffOK, BackoffInRange, HoldOK, [Next]_vars
  PROVE  TypeOK' /\ BackoffOK' /\ BackoffInRange'
<1>. USE ConfigFacts, ClientAssumption DEF TypeOK, BackoffOK, BackoffInRange,
         Procs, Places, Errors, loop, hands, Go, Fail, Return
<1>1. ASSUME NEW p \in Procs, Attempt(p) PROVE TypeOK' /\ BackoffOK' /\ BackoffInRange'
  BY <1>1 DEF Attempt
<1>2. ASSUME NEW p \in Procs, Backoff(p) PROVE TypeOK' /\ BackoffOK' /\ BackoffInRange'
  BY <1>2 DEF Backoff, Retries, Last
<1>3. ASSUME NEW p \in Procs, BackoffTimer(p) PROVE TypeOK' /\ BackoffOK' /\ BackoffInRange'
  <2>1. attempt[p] + 1 \in 0..(Attempts - 1)
    BY <1>3 DEF BackoffTimer
  <2>2. /\ NextDelay(delay[p]) \in Int
        /\ RetryDelay <= NextDelay(delay[p]) /\ NextDelay(delay[p]) <= RetryMaxDelay
    BY NextDelayInRange
  <2>. QED  BY <1>3, <2>1, <2>2 DEF BackoffTimer
<1>4. ASSUME NEW p \in Procs, Dial(p) \/ TcpTimesOut(p)
      PROVE  TypeOK' /\ BackoffOK' /\ BackoffInRange'
  BY <1>4 DEF Dial, TcpConnects, TcpFails, TcpTimesOut, HandshakeFails
<1>5. ASSUME NEW c \in Callers, Call(c) PROVE TypeOK' /\ BackoffOK' /\ BackoffInRange'
  BY <1>5 DEF Call
<1>6. ASSUME NEW c \in Callers, Cancel(c) PROVE TypeOK' /\ BackoffOK' /\ BackoffInRange'
  BY <1>6 DEF Cancel
<1>7. ASSUME NEW c \in Callers, LimiterPasses(c) PROVE TypeOK' /\ BackoffOK' /\ BackoffInRange'
  BY <1>7 DEF LimiterPasses
<1>8. ASSUME NEW c \in Callers, LimiterFails(c) PROVE TypeOK' /\ BackoffOK' /\ BackoffInRange'
  BY <1>8 DEF LimiterFails
<1>9. ASSUME NEW c \in Callers, GiveUp(c) PROVE TypeOK' /\ BackoffOK' /\ BackoffInRange'
  BY <1>9 DEF GiveUp
<1>10. ASSUME NEW c \in Callers, BackoffCtx(c) PROVE TypeOK' /\ BackoffOK' /\ BackoffInRange'
  BY <1>10 DEF BackoffCtx
<1>11. ASSUME NEW c \in Callers, CallerConnected(c) PROVE TypeOK' /\ BackoffOK' /\ BackoffInRange'
  BY <1>11 DEF CallerConnected, HoldOK
<1>12. ASSUME NEW c \in Callers, Response(c) PROVE TypeOK' /\ BackoffOK' /\ BackoffInRange'
  BY <1>12 DEF Response, HoldOK
<1>13. ASSUME NEW c \in Callers, HttpFails(c) PROVE TypeOK' /\ BackoffOK' /\ BackoffInRange'
  BY <1>13 DEF HttpFails, Abandon
<1>14. ASSUME NEW c \in Callers, HttpTimesOut(c) PROVE TypeOK' /\ BackoffOK' /\ BackoffInRange'
  BY <1>14 DEF HttpTimesOut, Abandon
<1>15. ASSUME NEW c \in Callers, TakeConn(c) PROVE TypeOK' /\ BackoffOK' /\ BackoffInRange'
  BY <1>15 DEF TakeConn
<1>16. ASSUME NEW c \in Callers, NEW d \in Dialers, StartDial(c, d)
      PROVE  TypeOK' /\ BackoffOK' /\ BackoffInRange'
  BY <1>16 DEF StartDial
<1>17. ASSUME NEW d \in Dialers, DialerConnected(d) PROVE TypeOK' /\ BackoffOK' /\ BackoffInRange'
  BY <1>17 DEF DialerConnected, HoldOK
<1>18. ASSUME NEW d \in Dialers, DialerGivesUp(d) PROVE TypeOK' /\ BackoffOK' /\ BackoffInRange'
  BY <1>18 DEF DialerGivesUp
<1>20. ASSUME NEW c \in Callers, CheckStep(c) PROVE TypeOK' /\ BackoffOK' /\ BackoffInRange'
  <2>1. CASE Check(c)
    BY <2>1 DEF Check
  <2>2. CASE CheckConnected(c)
    BY <2>2 DEF CheckConnected
  <2>3. CASE CheckFails(c)
    BY <2>3 DEF CheckFails
  <2>4. CASE Checked(c)
    BY <2>4 DEF Checked
  <2>. QED  BY <1>20, <2>1, <2>2, <2>3, <2>4 DEF CheckStep
<1>19. CASE BodyRead \/ BodyClosed \/ UserCloses \/ IdleTimeout \/ Close \/ ConnLost \/ UNCHANGED vars
  <2>1. CASE BodyRead
    BY <2>1 DEF BodyRead, Read
  <2>2. CASE BodyClosed \/ UserCloses
    BY <2>2 DEF BodyClosed, UserCloses, Read
  <2>3. CASE IdleTimeout \/ Close
    BY <2>3 DEF IdleTimeout, Close, Drop, Idle
  <2>4. CASE ConnLost
    BY <2>4 DEF ConnLost, Drop
  <2>5. CASE UNCHANGED vars
    BY <2>5 DEF vars
  <2>. QED  BY <1>19, <2>1, <2>2, <2>3, <2>4, <2>5
<1>. QED
  BY <1>1, <1>2, <1>3, <1>4, <1>5, <1>6, <1>7, <1>8, <1>9, <1>10, <1>11, <1>12,
     <1>13, <1>14, <1>15, <1>16, <1>17, <1>18, <1>19, <1>20
  DEF Next, Run, CallerStep, DialerStep

(* --- connections --- *)

Distinct == \A p, q \in Procs : conn[p] = conn[q] /\ p # q => conn[p] \in h2 \cup {None}

(* Streams of HTTP/2 belong to requests.                                   *)
Streams == \A p \in Procs : conn[p] \in h2 => pc[p] = "sent"

Owned == /\ open = Held \cup pool \cup Read \cup given
         /\ given \cap (Held \cup pool \cup Read) = {}
         /\ (Held \cap pool) \cup (Held \cap Read) \cup (pool \cap Read) \subseteq h2
         /\ \A s \in Sockets \ h2 : bodies[s] <= 1
         /\ Distinct

LEMMA OwnedSplit == SocketsOwned <=> Owned /\ Streams
BY DEF SocketsOwned, Owned, Streams, Distinct

(* How the connections held change when a goroutine drops its own, *)
LEMMA Dropped ==
  ASSUME TypeOK, Distinct, NEW p \in Procs, conn' = [conn EXCEPT ![p] = None], h2 \subseteq h2'
  PROVE  /\ Held \ {conn[p]} \subseteq Held' /\ Held' \subseteq Held
         /\ conn[p] \in Held' => conn[p] \in h2
         /\ Distinct'
BY ClientAssumption DEF Held, Distinct, TypeOK

(* and when it takes one that is free or speaks HTTP/2. *)
LEMMA Taken ==
  ASSUME TypeOK, Distinct, NEW p \in Procs, conn[p] = None,
         NEW s \in Sockets, s \notin Held \/ s \in h2,
         conn' = [conn EXCEPT ![p] = s], h2' = h2
  PROVE  Held' = Held \cup {s} /\ Distinct'
BY ClientAssumption DEF Held, Distinct, TypeOK

LEMMA Untouched ==
  ASSUME conn' = conn, h2' = h2, Distinct
  PROVE  Held' = Held /\ Distinct'
BY DEF Held, Distinct

LEMMA StreamsKept ==
  ASSUME TypeOK, HoldOK, ForOK, SocketsOwned, [Next]_vars
  PROVE  Streams'
<1>. USE ClientAssumption DEF SocketsOwned, Streams, TypeOK, HoldOK, Procs, hands, Go, Fail, Return
<1>1. ASSUME NEW p \in Procs, Run(p) \/ Dial(p) \/ TcpTimesOut(p) PROVE Streams'
  BY <1>1 DEF Run, Attempt, Backoff, BackoffTimer, Dial, TcpConnects, TcpFails, HandshakeFails,
              TcpTimesOut
<1>2. ASSUME NEW c \in Callers, Call(c) \/ Cancel(c) \/ LimiterPasses(c) \/ LimiterFails(c)
      PROVE  Streams'
  BY <1>2 DEF Call, Cancel, LimiterPasses, LimiterFails
<1>3. ASSUME NEW c \in Callers, GiveUp(c) \/ BackoffCtx(c) \/ CallerConnected(c) \/ Response(c)
      PROVE  Streams'
  BY <1>3 DEF GiveUp, BackoffCtx, CallerConnected, Response
<1>4. ASSUME NEW c \in Callers, TakeConn(c) \/ HttpFails(c) \/ HttpTimesOut(c) PROVE Streams'
  BY <1>4 DEF TakeConn, HttpFails, HttpTimesOut, Abandon
<1>5. ASSUME NEW c \in Callers, NEW d \in Dialers, StartDial(c, d) PROVE Streams'
  BY <1>5 DEF StartDial
<1>6. ASSUME NEW d \in Dialers, DialerConnected(d) PROVE Streams'
  <2>1. conn[d] \notin h2 /\ conn[d] # None /\ h2' \subseteq h2 \cup {conn[d]}
    BY <1>6 DEF DialerConnected
  <2>2. conn[d] \in Held
    BY <2>1 DEF Held
  <2>3. \A q \in Procs : conn[q] = conn[d] => q = d
    BY <2>1
  <2>4. conn' = [conn EXCEPT ![d] = None] /\ pc' = [pc EXCEPT ![d] = "idle"]
    BY <1>6 DEF DialerConnected
  <2>. QED  BY <2>1, <2>3, <2>4
<1>7. ASSUME NEW d \in Dialers, DialerGivesUp(d) PROVE Streams'
  BY <1>7 DEF DialerGivesUp, ForOK
<1>8. ASSUME NEW c \in Callers, CheckStep(c) PROVE Streams'
  BY <1>8 DEF CheckStep, Check, CheckConnected, CheckFails, Checked
<1>9. CASE BodyRead \/ BodyClosed \/ UserCloses \/ IdleTimeout \/ Close \/ ConnLost \/ UNCHANGED vars
  BY <1>9 DEF BodyRead, BodyClosed, UserCloses, IdleTimeout, Close, ConnLost, Drop, vars
<1>. QED
  BY <1>1, <1>2, <1>3, <1>4, <1>5, <1>6, <1>7, <1>8, <1>9 DEF Next, CallerStep, DialerStep

LEMMA OwnedKept ==
  ASSUME TypeOK, HoldOK, Owned, Streams, [Next]_vars
  PROVE  Owned'
<1>. USE ClientAssumption DEF Owned
<1>1. Distinct /\ None \notin open \cup pool \cup h2 \cup Read \cup given \cup Held
  BY DEF TypeOK, Held, Read
<1>2. ASSUME conn' = conn, UNCHANGED <<open, hands>> PROVE Owned'
  BY <1>1, <1>2, Untouched DEF hands, Read
<1>3. ASSUME NEW p \in Procs, conn' = [conn EXCEPT ![p] = None],
             open' = open \ ({conn[p]} \ h2), UNCHANGED hands
      PROVE  Owned'
  <2>1. conn[p] \in h2 \/ conn[p] \notin pool \cup Read \cup given
    BY <1>1 DEF Held
  <2>2. conn[p] \in h2 => conn[p] \in pool
    BY DEF TypeOK
  <2>3. UNCHANGED <<pool, h2, given, bodies, Read>>
    BY <1>3 DEF hands, Read
  <2>4. /\ Held \ {conn[p]} \subseteq Held' /\ Held' \subseteq Held
        /\ conn[p] \in Held' => conn[p] \in h2
        /\ Distinct'
    BY <1>1, <1>3, <2>3, Dropped
  <2>. QED  BY <1>1, <1>3, <2>1, <2>2, <2>3, <2>4
<1>4. ASSUME NEW p \in Procs, TcpConnects(p) PROVE Owned'
  <2>1. PICK s \in Sockets \ open : open' = open \cup {s} /\ conn' = [conn EXCEPT ![p] = s]
    BY <1>4 DEF TcpConnects
  <2>2. conn[p] = None
    BY <1>4 DEF TcpConnects, Go, HoldOK
  <2>3. UNCHANGED <<pool, h2, given, bodies, Read>>
    BY <1>4 DEF TcpConnects, hands, Read
  <2>4. Held' = Held \cup {s} /\ Distinct'
    BY <1>1, <2>1, <2>2, <2>3, Taken
  <2>. QED  BY <2>1, <2>3, <2>4
<1>5. ASSUME NEW p \in Procs, HandshakeFails(p) PROVE Owned'
  <2>1. conn[p] \notin h2
    BY <1>5 DEF HandshakeFails, Streams
  <2>. QED  BY <1>3, <1>5, <2>1 DEF HandshakeFails
<1>6. ASSUME NEW p \in Procs, Run(p) \/ TcpFails(p) \/ TcpTimesOut(p) PROVE Owned'
  BY <1>2, <1>6 DEF Run, Attempt, Backoff, BackoffTimer, TcpFails, TcpTimesOut
<1>7. ASSUME NEW c \in Callers,
             \/ Call(c) \/ Cancel(c) \/ LimiterPasses(c) \/ LimiterFails(c)
             \/ GiveUp(c) \/ BackoffCtx(c) \/ \E d \in Dialers : StartDial(c, d)
      PROVE  Owned'
  BY <1>2, <1>7 DEF Call, Cancel, LimiterPasses, LimiterFails, GiveUp, BackoffCtx, StartDial
<1>8. ASSUME NEW c \in Callers, HttpFails(c) \/ HttpTimesOut(c) PROVE Owned'
  BY <1>3, <1>8 DEF HttpFails, HttpTimesOut, Abandon, Procs
<1>9. ASSUME NEW c \in Callers, CallerConnected(c) PROVE Owned'
  <2>1. conn[c] \in Held /\ conn[c] \notin h2
    BY <1>9 DEF CallerConnected, Go, HoldOK, Held, Streams, Procs
  <2>2. UNCHANGED <<open, pool, h2, bodies, Read>> /\ given' = given \cup {conn[c]}
    BY <1>9 DEF CallerConnected, Read
  <2>3. Held' = Held \ {conn[c]} /\ Distinct'
    BY <1>1, <1>9, <2>1, <2>2, Dropped DEF CallerConnected, Procs
  <2>. QED  BY <2>1, <2>2, <2>3
<1>10. ASSUME NEW d \in Dialers, DialerConnected(d) PROVE Owned'
  <2>1. conn[d] \in Held /\ conn[d] \notin h2
    BY <1>10 DEF DialerConnected, Go, HoldOK, Held, Streams, Procs
  <2>2. UNCHANGED <<given, bodies, Read>>
    BY <1>10 DEF DialerConnected, Read
  <2>3. PICK speaks \in SUBSET {conn[d]}, surplus \in SUBSET {conn[d]} :
          /\ h2' = h2 \cup (speaks \ surplus)
          /\ pool' = pool \cup ({conn[d]} \ surplus)
          /\ open' = open \ surplus
    BY <1>10 DEF DialerConnected
  <2>4. Held' = Held \ {conn[d]} /\ Distinct'
    <3>1. h2 \subseteq h2' /\ d \in Procs
      BY <2>3 DEF Procs
    <3>2. conn' = [conn EXCEPT ![d] = None]
      BY <1>10 DEF DialerConnected
    <3>3. /\ Held \ {conn[d]} \subseteq Held' /\ Held' \subseteq Held
          /\ conn[d] \in Held' => conn[d] \in h2
          /\ Distinct'
      BY <1>1, <3>1, <3>2, Dropped
    <3>. QED  BY <2>1, <3>3
  <2>5. conn[d] \notin pool /\ conn[d] \notin Read /\ conn[d] \notin given
    BY <2>1
  <2>6. h2 \subseteq h2' /\ pool' \subseteq pool \cup {conn[d]}
    BY <2>3
  <2>7. open' = Held' \cup pool' \cup Read' \cup given'
    BY <2>1, <2>2, <2>3, <2>4, <2>5
  <2>8. given' \cap (Held' \cup pool' \cup Read') = {}
    BY <2>1, <2>2, <2>4, <2>5, <2>6
  <2>9. (Held' \cap pool') \cup (Held' \cap Read') \cup (pool' \cap Read') \subseteq h2'
    BY <2>2, <2>4, <2>5, <2>6
  <2>10. \A s \in Sockets \ h2' : bodies'[s] <= 1
    BY <2>2, <2>6
  <2>. QED  BY <2>4, <2>7, <2>8, <2>9, <2>10
<1>11. ASSUME NEW c \in Callers, Response(c) PROVE Owned'
  <2>1. conn[c] \in Held /\ conn[c] \in Sockets
    BY <1>11 DEF Response, Held, TypeOK, Procs
  <2>2. UNCHANGED <<open, pool, h2, given>> /\ bodies' = [bodies EXCEPT ![conn[c]] = @ + 1]
    BY <1>11 DEF Response
  <2>3. Read' = Read \cup {conn[c]}
    BY <2>1, <2>2 DEF Read, TypeOK
  <2>4. conn[c] \notin h2 => bodies[conn[c]] = 0
    BY <2>1 DEF Read, TypeOK
  <2>5. \A s \in Sockets \ h2' : bodies'[s] <= 1
    BY <2>1, <2>2, <2>4 DEF TypeOK
  <2>6. /\ Held \ {conn[c]} \subseteq Held' /\ Held' \subseteq Held
        /\ conn[c] \in Held' => conn[c] \in h2
        /\ Distinct'
    BY <1>1, <1>11, <2>2, Dropped DEF Response, Procs
  <2>7. conn[c] \in pool => conn[c] \in h2
    BY <2>1
  <2>. QED  BY <2>1, <2>2, <2>3, <2>5, <2>6, <2>7
<1>12. ASSUME NEW c \in Callers, TakeConn(c) PROVE Owned'
  <2>1. PICK s \in pool : pool' = pool \ ({s} \ h2) /\ conn' = [conn EXCEPT ![c] = s]
    BY <1>12 DEF TakeConn
  <2>2. conn[c] = None
    BY <1>12 DEF TakeConn, Go, HoldOK, Procs
  <2>3. s \in Sockets /\ (s \notin Held \/ s \in h2)
    BY DEF TypeOK
  <2>4. UNCHANGED <<open, h2, given, bodies, Read>>
    BY <1>12 DEF TakeConn, Read
  <2>5. Held' = Held \cup {s} /\ Distinct'
    BY <1>1, <2>1, <2>2, <2>3, <2>4, Taken DEF Procs
  <2>. QED  BY <2>1, <2>4, <2>5
<1>13. ASSUME NEW d \in Dialers, DialerGivesUp(d) PROVE Owned'
  BY <1>2, <1>13 DEF DialerGivesUp
<1>14. ASSUME NEW c \in Callers, CheckStep(c) PROVE Owned'
  <2>1. CASE CheckConnected(c)
    <3>1. conn[c] \notin h2
      BY <2>1 DEF CheckConnected, Go, Streams, Procs
    <3>. QED  BY <1>3, <2>1, <3>1 DEF CheckConnected, Procs
  <2>2. CASE Check(c) \/ CheckFails(c) \/ Checked(c)
    BY <1>2, <2>2 DEF Check, CheckFails, Checked
  <2>. QED  BY <1>14, <2>1, <2>2 DEF CheckStep
<1>15. ASSUME NEW s \in Read, bodies' = [bodies EXCEPT ![s] = @ - 1]
       PROVE  /\ s \in Sockets
              /\ Read \ {s} \subseteq Read' /\ Read' \subseteq Read
              /\ s \in Read' => s \in h2
              /\ \A t \in Sockets \ h2 : bodies'[t] <= 1
  BY <1>15 DEF Read, TypeOK
<1>16. CASE BodyRead
  <2>1. PICK s \in Read : bodies' = [bodies EXCEPT ![s] = @ - 1] /\ pool' = pool \cup {s}
    BY <1>16 DEF BodyRead
  <2>2. Held' = Held /\ Distinct' /\ UNCHANGED <<open, h2, given>>
    BY <1>1, <1>16, Untouched DEF BodyRead
  <2>3. /\ Read \ {s} \subseteq Read' /\ Read' \subseteq Read
        /\ s \in Read' => s \in h2
        /\ \A t \in Sockets \ h2 : bodies'[t] <= 1
    BY <1>15, <2>1
  <2>4. s \notin given /\ (s \in Held => s \in h2)
    OBVIOUS
  <2>5. open' = Held' \cup pool' \cup Read' \cup given'
    BY <2>1, <2>2, <2>3
  <2>6. given' \cap (Held' \cup pool' \cup Read') = {}
    BY <2>1, <2>2, <2>3, <2>4
  <2>7. (Held' \cap pool') \cup (Held' \cap Read') \cup (pool' \cap Read') \subseteq h2'
    BY <2>1, <2>2, <2>3, <2>4
  <2>. QED  BY <2>2, <2>3, <2>5, <2>6, <2>7
<1>17. CASE BodyClosed
  <2>1. PICK s \in Read : bodies' = [bodies EXCEPT ![s] = @ - 1] /\ open' = open \ ({s} \ h2)
    BY <1>17 DEF BodyClosed
  <2>2. Held' = Held /\ Distinct' /\ UNCHANGED <<pool, h2, given>>
    BY <1>1, <1>17, Untouched DEF BodyClosed
  <2>3. s \in h2 => s \in pool
    BY DEF TypeOK
  <2>. QED  BY <1>15, <2>1, <2>2, <2>3
<1>18. CASE UserCloses
  <2>1. Held' = Held /\ Distinct' /\ UNCHANGED <<pool, h2, bodies, Read>>
    BY <1>1, <1>18, Untouched DEF UserCloses, Read
  <2>. QED  BY <1>18, <2>1 DEF UserCloses
<1>19. ASSUME NEW S \in SUBSET pool, Drop(S), Held' = Held \ S, Read' = Read \ S,
              \A p \in Procs : conn'[p] = IF conn[p] \in S THEN None ELSE conn[p],
              \A s \in Sockets : bodies'[s] = IF s \in S THEN 0 ELSE bodies[s]
       PROVE  Owned'
  <2>1. Distinct'
    BY <1>1, <1>19 DEF Drop, Distinct
  <2>2. \A s \in Sockets \ h2' : bodies'[s] <= 1
    BY <1>19 DEF Drop, TypeOK
  <2>. QED  BY <1>19, <2>1, <2>2 DEF Drop
<1>20. ASSUME NEW S \in SUBSET Idle, Drop(S), UNCHANGED <<conn, bodies>> PROVE Owned'
  <2>1. S \subseteq pool /\ S \cap Held = {} /\ S \cap Read = {} /\ \A s \in S : bodies[s] = 0
    BY DEF Idle, Read
  <2>2. Held' = Held /\ Read' = Read
    BY <1>20 DEF Held, Read
  <2>3. \A p \in Procs : conn[p] \notin S
    BY <1>1, <2>1 DEF Held, TypeOK
  <2>. QED  BY <1>19, <1>20, <2>1, <2>2, <2>3
<1>21. CASE IdleTimeout
  BY <1>20, <1>21 DEF IdleTimeout
<1>22. CASE Close
  BY <1>20, <1>22 DEF Close
<1>23. CASE ConnLost
  <2>1. PICK s \in h2 : /\ Drop({s})
                        /\ conn' = [p \in Procs |-> IF conn[p] = s THEN None ELSE conn[p]]
                        /\ bodies' = [bodies EXCEPT ![s] = 0]
    BY <1>23 DEF ConnLost
  <2>2. s \in pool /\ s \in Sockets
    BY DEF TypeOK
  <2>3. Held' = Held \ {s}
    BY <1>1, <2>1, <2>2 DEF Held
  <2>4. Read' = Read \ {s}
    BY <2>1, <2>2 DEF Read, TypeOK
  <2>5. \A t \in Sockets : bodies'[t] = IF t \in {s} THEN 0 ELSE bodies[t]
    BY <2>1 DEF TypeOK
  <2>. QED  BY <1>19, <2>1, <2>2, <2>3, <2>4, <2>5
<1>24. CASE UNCHANGED vars
  BY <1>2, <1>24 DEF vars
<1>. QED
  BY <1>4, <1>5, <1>6, <1>7, <1>8, <1>9, <1>10, <1>11, <1>12, <1>13, <1>14, <1>16, <1>17, <1>18,
     <1>21, <1>22, <1>23, <1>24
  DEF Next, Dial, CallerStep, DialerStep

LEMMA SocketsKept ==
  ASSUME TypeOK, HoldOK, ForOK, SocketsOwned, [Next]_vars
  PROVE  SocketsOwned'
<1>1. Owned' /\ Streams'
  BY OwnedSplit, OwnedKept, StreamsKept
<1>. QED  BY <1>1, OwnedSplit DEF SocketsOwned, Owned, Streams, Distinct

(* --- who holds a connection, who waits for a dial, who is late --- *)

WhereOK == HoldOK /\ ForOK /\ LateOK

LEMMA WhereKept ==
  ASSUME TypeOK, WhereOK, Streams, [Next]_vars
  PROVE  WhereOK'
<1>. USE ClientAssumption DEF TypeOK, WhereOK, HoldOK, ForOK, LateOK, Doomed, Procs, Places,
         Errors, loop, hands, Go, Fail, Return
<1>1. ASSUME NEW p \in Procs, Attempt(p) PROVE WhereOK'
  <2>1. HoldOK'
    BY <1>1 DEF Attempt
  <2>2. ForOK'
    BY <1>1 DEF Attempt
  <2>3. LateOK'
    BY <1>1 DEF Attempt
  <2>. QED  BY <2>1, <2>2, <2>3
<1>2. ASSUME NEW p \in Procs, Backoff(p) PROVE WhereOK'
  <2>1. HoldOK'
    BY <1>2 DEF Backoff, Retries, Retryable
  <2>2. ForOK'
    BY <1>2 DEF Backoff, Retries, Retryable
  <2>3. LateOK'
    BY <1>2 DEF Backoff, Retries, Retryable
  <2>. QED  BY <2>1, <2>2, <2>3
<1>3. ASSUME NEW p \in Procs, BackoffTimer(p) PROVE WhereOK'
  <2>1. HoldOK'
    BY <1>3 DEF BackoffTimer
  <2>2. ForOK'
    BY <1>3 DEF BackoffTimer
  <2>3. LateOK'
    BY <1>3 DEF BackoffTimer
  <2>. QED  BY <2>1, <2>2, <2>3
<1>4. ASSUME NEW p \in Procs, TcpConnects(p) PROVE WhereOK'
  <2>1. HoldOK'
    BY <1>4 DEF TcpConnects
  <2>2. ForOK'
    BY <1>4 DEF TcpConnects
  <2>3. LateOK'
    BY <1>4 DEF TcpConnects
  <2>. QED  BY <2>1, <2>2, <2>3
<1>5. ASSUME NEW p \in Procs, TcpFails(p) PROVE WhereOK'
  <2>1. HoldOK'
    BY <1>5 DEF TcpFails
  <2>2. ForOK'
    BY <1>5 DEF TcpFails
  <2>3. LateOK'
    BY <1>5 DEF TcpFails
  <2>. QED  BY <2>1, <2>2, <2>3
<1>6. ASSUME NEW p \in Procs, TcpTimesOut(p) PROVE WhereOK'
  <2>1. HoldOK'
    BY <1>6 DEF TcpTimesOut
  <2>2. ForOK'
    BY <1>6 DEF TcpTimesOut
  <2>3. LateOK'
    BY <1>6 DEF TcpTimesOut
  <2>. QED  BY <2>1, <2>2, <2>3
<1>7. ASSUME NEW p \in Procs, HandshakeFails(p) PROVE WhereOK'
  <2>1. HoldOK'
    BY <1>7 DEF HandshakeFails
  <2>2. ForOK'
    BY <1>7 DEF HandshakeFails
  <2>3. LateOK'
    BY <1>7 DEF HandshakeFails
  <2>. QED  BY <2>1, <2>2, <2>3
<1>8. ASSUME NEW c \in Callers, Call(c) PROVE WhereOK'
  <2>1. HoldOK'
    BY <1>8 DEF Call
  <2>2. ForOK'
    BY <1>8 DEF Call
  <2>3. LateOK'
    BY <1>8 DEF Call
  <2>. QED  BY <2>1, <2>2, <2>3
<1>9. ASSUME NEW c \in Callers, Cancel(c) PROVE WhereOK'
  <2>1. HoldOK'
    BY <1>9 DEF Cancel
  <2>2. ForOK'
    BY <1>9 DEF Cancel
  <2>3. LateOK'
    BY <1>9 DEF Cancel
  <2>. QED  BY <2>1, <2>2, <2>3
<1>10. ASSUME NEW c \in Callers, LimiterPasses(c) PROVE WhereOK'
  <2>1. HoldOK'
    BY <1>10 DEF LimiterPasses
  <2>2. ForOK'
    BY <1>10 DEF LimiterPasses
  <2>3. LateOK'
    BY <1>10 DEF LimiterPasses
  <2>. QED  BY <2>1, <2>2, <2>3
<1>11. ASSUME NEW c \in Callers, LimiterFails(c) PROVE WhereOK'
  <2>1. HoldOK'
    BY <1>11 DEF LimiterFails
  <2>2. ForOK'
    BY <1>11 DEF LimiterFails
  <2>3. LateOK'
    BY <1>11 DEF LimiterFails
  <2>. QED  BY <2>1, <2>2, <2>3
<1>12. ASSUME NEW c \in Callers, GiveUp(c) PROVE WhereOK'
  <2>1. HoldOK'
    BY <1>12 DEF GiveUp
  <2>2. ForOK'
    BY <1>12 DEF GiveUp
  <2>3. LateOK'
    BY <1>12 DEF GiveUp
  <2>. QED  BY <2>1, <2>2, <2>3
<1>13. ASSUME NEW c \in Callers, BackoffCtx(c) PROVE WhereOK'
  <2>1. HoldOK'
    BY <1>13 DEF BackoffCtx
  <2>2. ForOK'
    BY <1>13 DEF BackoffCtx
  <2>3. LateOK'
    BY <1>13 DEF BackoffCtx
  <2>. QED  BY <2>1, <2>2, <2>3
<1>14. ASSUME NEW c \in Callers, CallerConnected(c) PROVE WhereOK'
  <2>1. HoldOK'
    BY <1>14 DEF CallerConnected
  <2>2. ForOK'
    BY <1>14 DEF CallerConnected
  <2>3. LateOK'
    BY <1>14 DEF CallerConnected
  <2>. QED  BY <2>1, <2>2, <2>3
<1>15. ASSUME NEW c \in Callers, Response(c) PROVE WhereOK'
  <2>1. HoldOK'
    BY <1>15 DEF Response
  <2>2. ForOK'
    BY <1>15 DEF Response
  <2>3. LateOK'
    BY <1>15 DEF Response
  <2>. QED  BY <2>1, <2>2, <2>3
<1>16. ASSUME NEW c \in Callers, HttpFails(c) PROVE WhereOK'
  <2>1. HoldOK'
    BY <1>16 DEF HttpFails, Abandon
  <2>2. ForOK'
    BY <1>16 DEF HttpFails, Abandon
  <2>3. LateOK'
    BY <1>16 DEF HttpFails, Abandon
  <2>. QED  BY <2>1, <2>2, <2>3
<1>17. ASSUME NEW c \in Callers, HttpTimesOut(c) PROVE WhereOK'
  <2>1. HoldOK'
    BY <1>17 DEF HttpTimesOut, Abandon
  <2>2. ForOK'
    BY <1>17 DEF HttpTimesOut, Abandon
  <2>3. LateOK'
    BY <1>17 DEF HttpTimesOut, Abandon
  <2>. QED  BY <2>1, <2>2, <2>3
<1>18. ASSUME NEW c \in Callers, TakeConn(c) PROVE WhereOK'
  <2>1. HoldOK'
    BY <1>18 DEF TakeConn
  <2>2. ForOK'
    BY <1>18 DEF TakeConn
  <2>3. LateOK'
    BY <1>18 DEF TakeConn
  <2>. QED  BY <2>1, <2>2, <2>3
<1>19. ASSUME NEW c \in Callers, NEW d \in Dialers, StartDial(c, d) PROVE WhereOK'
  <2>1. HoldOK'
    BY <1>19 DEF StartDial
  <2>2. ForOK'
    BY <1>19 DEF StartDial
  <2>3. LateOK'
    BY <1>19 DEF StartDial
  <2>. QED  BY <2>1, <2>2, <2>3
<1>20. ASSUME NEW d \in Dialers, DialerConnected(d) PROVE WhereOK'
  <2>1. HoldOK'
    BY <1>20 DEF DialerConnected
  <2>2. ForOK'
    BY <1>20 DEF DialerConnected
  <2>3. LateOK'
    BY <1>20 DEF DialerConnected
  <2>. QED  BY <2>1, <2>2, <2>3
<1>21. ASSUME NEW d \in Dialers, DialerGivesUp(d) PROVE WhereOK'
  <2>1. HoldOK'
    BY <1>21 DEF DialerGivesUp
  <2>2. ForOK'
    BY <1>21 DEF DialerGivesUp
  <2>3. LateOK'
    BY <1>21 DEF DialerGivesUp
  <2>. QED  BY <2>1, <2>2, <2>3
<1>23. ASSUME NEW c \in Callers, CheckStep(c) PROVE WhereOK'
  <2>1. HoldOK'
    BY <1>23 DEF CheckStep, Check, CheckConnected, CheckFails, Checked
  <2>2. ForOK'
    BY <1>23 DEF CheckStep, Check, CheckConnected, CheckFails, Checked
  <2>3. LateOK'
    <3>1. CASE Check(c)
      BY <3>1 DEF Check
    <3>2. CASE CheckConnected(c)
      BY <3>2 DEF CheckConnected
    <3>3. CASE CheckFails(c)
      BY <3>3 DEF CheckFails
    <3>4. CASE Checked(c)
      BY <3>4 DEF Checked
    <3>. QED  BY <1>23, <3>1, <3>2, <3>3, <3>4 DEF CheckStep
  <2>. QED  BY <2>1, <2>2, <2>3
<1>22. CASE BodyRead \/ BodyClosed \/ UserCloses \/ IdleTimeout \/ Close \/ ConnLost \/ UNCHANGED vars
  BY <1>22 DEF Streams, BodyRead, BodyClosed, UserCloses, IdleTimeout, Close, ConnLost, Drop, vars
<1>. QED
  BY <1>1, <1>2, <1>3, <1>4, <1>5, <1>6, <1>7, <1>8, <1>9, <1>10, <1>11, <1>12,
     <1>13, <1>14, <1>15, <1>16, <1>17, <1>18, <1>19, <1>20, <1>21, <1>22, <1>23
  DEF Next, Run, Dial, CallerStep, DialerStep

LEMMA Invariance == IInv /\ [Next]_vars => IInv'
<1>. SUFFICES ASSUME IInv, [Next]_vars PROVE IInv'
  OBVIOUS
<1>1. TypeOK' /\ BackoffOK' /\ BackoffInRange'
  BY LoopKept DEF IInv
<1>2. SocketsOwned'
  BY SocketsKept DEF IInv
<1>3. WhereOK'
  BY OwnedSplit, WhereKept DEF IInv, WhereOK
<1>. QED  BY <1>1, <1>2, <1>3 DEF IInv, WhereOK

LEMMA Invariant == SafeSpec => []IInv
BY InitIInv, Invariance, PTL DEF SafeSpec

(* Values keep their types and run never counts past its last attempt, so  *)
(* that it never returns nil without having succeeded (client.go:341-385). *)
THEOREM TypeCorrect == SafeSpec => []TypeOK
<1>1. IInv => TypeOK
  BY DEF IInv
<1>. QED  BY Invariant, <1>1, PTL

(* Every connection that socks5Dialer opens is closed or in exactly one    *)
(* hand, for any number of callers and dials (client.go:413-435).          *)
THEOREM ConnectionsOwned == SafeSpec => []SocketsOwned
<1>1. IInv => SocketsOwned
  BY DEF IInv
<1>. QED  BY Invariant, <1>1, PTL

(* A retry waits between RetryDelay and RetryMaxDelay if the cap can be    *)
(* doubled without overflow (client.go:379-382).                           *)
THEOREM BackoffStaysInRange == SafeSpec => []BackoffInRange
<1>1. IInv => BackoffInRange
  BY DEF IInv
<1>. QED  BY Invariant, <1>1, PTL

(* With the default predicate a context that is done costs a call at most  *)
(* one more request or dial (client.go:374-378, config.go:584-588).        *)
THEOREM OneLateAttempt == SafeSpec => []LateAttempts
<1>1. IInv => LateAttempts
  BY DEF IInv, LateOK, Doomed, LateAttempts, TypeOK, Procs
<1>. QED  BY Invariant, <1>1, PTL

(* --- the loop of RetryLoop.tla --- *)

(* Where the kinds of call are, what a failure leaves behind, and that a     *)
(* goroutine outside of the loop has its variables as run will find them.    *)
KindOK == /\ \A d \in Dialers : kind[d] = "dial" /\ pc[d] \notin {"limiter", "control"}
          /\ \A c \in Callers :
               /\ kind[c] = "check" => pc[c] \in {"idle", "tcp", "hello", "failed", "control"}
               /\ pc[c] = "control" => kind[c] = "check"
          /\ \A p \in Procs : pc[p] \in {"want", "waiting", "sent"} => kind[p] = "do"
FailedOK == \A p \in Procs : pc[p] = "failed" => err[p] \in Errors
RestOK == \A p \in Procs :
            kind[p] = "check" \/ pc[p] \in {"idle", "limiter"}
              => attempt[p] = 0 /\ delay[p] = RetryDelay
CallOK == KindOK /\ FailedOK /\ RestOK

LEMMA CallKept == ASSUME TypeOK, ForOK, CallOK, [Next]_vars PROVE CallOK'
<1>. USE ClientAssumption DEF TypeOK, ForOK, CallOK, KindOK, FailedOK, RestOK, Procs, Places,
         Errors, loop, Go, Fail, Return
<1>1. ASSUME NEW p \in Procs, Run(p) PROVE CallOK'
  <2>1. CASE Attempt(p)
    BY <2>1 DEF Attempt
  <2>2. CASE Backoff(p)
    BY <2>2 DEF Backoff, Retries
  <2>3. CASE BackoffTimer(p)
    BY <2>3 DEF BackoffTimer
  <2>. QED  BY <1>1, <2>1, <2>2, <2>3 DEF Run
<1>2. ASSUME NEW p \in Procs, Dial(p) \/ TcpTimesOut(p) PROVE CallOK'
  BY <1>2 DEF Dial, TcpConnects, TcpFails, HandshakeFails, TcpTimesOut
<1>3. ASSUME NEW c \in Callers, Call(c) PROVE CallOK'
  BY <1>3 DEF Call
<1>4. ASSUME NEW c \in Callers, Cancel(c) \/ LimiterPasses(c) \/ LimiterFails(c) PROVE CallOK'
  BY <1>4 DEF Cancel, LimiterPasses, LimiterFails
<1>5. ASSUME NEW c \in Callers, GiveUp(c) \/ BackoffCtx(c) PROVE CallOK'
  BY <1>5 DEF GiveUp, BackoffCtx
<1>6. ASSUME NEW c \in Callers, CallerConnected(c) \/ Response(c) PROVE CallOK'
  BY <1>6 DEF CallerConnected, Response
<1>7. ASSUME NEW c \in Callers, HttpFails(c) \/ HttpTimesOut(c) \/ TakeConn(c) PROVE CallOK'
  BY <1>7 DEF HttpFails, HttpTimesOut, TakeConn, Abandon
<1>8. ASSUME NEW c \in Callers, NEW d \in Dialers, StartDial(c, d) PROVE CallOK'
  BY <1>8 DEF StartDial
<1>9. ASSUME NEW d \in Dialers, DialerConnected(d) PROVE CallOK'
  BY <1>9 DEF DialerConnected
<1>10. ASSUME NEW d \in Dialers, DialerGivesUp(d) PROVE CallOK'
  BY <1>10 DEF DialerGivesUp
<1>11. ASSUME NEW c \in Callers, CheckStep(c) PROVE CallOK'
  <2>1. CASE Check(c)
    BY <2>1 DEF Check
  <2>2. CASE CheckConnected(c) \/ CheckFails(c)
    BY <2>2 DEF CheckConnected, CheckFails
  <2>3. CASE Checked(c)
    BY <2>3 DEF Checked
  <2>. QED  BY <1>11, <2>1, <2>2, <2>3 DEF CheckStep
<1>12. CASE BodyRead \/ BodyClosed \/ UserCloses \/ IdleTimeout \/ Close \/ ConnLost \/ UNCHANGED vars
  BY <1>12 DEF BodyRead, BodyClosed, UserCloses, IdleTimeout, Close, ConnLost, Drop, vars
<1>. QED
  BY <1>1, <1>2, <1>3, <1>4, <1>5, <1>6, <1>7, <1>8, <1>9, <1>10, <1>11, <1>12
  DEF Next, CallerStep, DialerStep

(* What is behind the steps: a loop and the place of its goroutine.          *)
Phases == [p \in Procs |-> Phase(p)]

LEMMA PhaseCases ==
  ASSUME TypeOK, CallOK, NEW p \in Procs
  PROVE  /\ Phases[p] = Phase(p)
         /\ kind[p] = "check" \/ pc[p] \in {"idle", "limiter", "control"} => Phase(p) = "off"
         /\ kind[p] # "check" =>
              /\ pc[p] = "attempt" => Phase(p) = "ready"
              /\ pc[p] = "failed"  => Phase(p) = err[p] /\ Phase(p) \in Errors
              /\ pc[p] = "backoff" => Phase(p) = "pausing"
              /\ pc[p] \in {"tcp", "hello", "want", "waiting", "sent"} => Phase(p) = "trying"
BY DEF Phases, Phase, CallOK, FailedOK

(* A step that moves one goroutine moves one loop at most. *)
LEMMA OthersStay ==
  ASSUME NEW p \in Procs,
         \A q \in Procs : q # p => pc'[q] = pc[q] /\ kind'[q] = kind[q] /\ err'[q] = err[q]
  PROVE  Phases' = [Phases EXCEPT ![p] = Phase(p)']
BY DEF Phases, Phase

(* The steps of the abstract loop, in the words of this module.              *)
LEMMA AbstractSteps ==
  ASSUME NEW p \in Procs
  PROVE  /\ UNCHANGED <<Phases, attempt, delay>> => UNCHANGED Retry!retryVars
         /\ /\ UNCHANGED <<attempt, delay>>
            /\ \/ Phases[p] = "off" /\ Phases' = [Phases EXCEPT ![p] = "ready"]
               \/ Phases[p] = "ready" /\ Phases' = [Phases EXCEPT ![p] = "trying"]
               \/ \E e \in Errors : /\ Phases[p] \in {"ready", "trying"}
                                    /\ Phases' = [Phases EXCEPT ![p] = e]
               \/ /\ Phases[p] \in RetryOn \cap Errors /\ attempt[p] + 1 < Attempts
                  /\ Phases' = [Phases EXCEPT ![p] = "pausing"]
            => Retry!RetryNext
         /\ /\ attempt' = [attempt EXCEPT ![p] = 0] /\ delay' = [delay EXCEPT ![p] = RetryDelay]
            /\ \/ /\ Phases[p] \in {"trying", "pausing"}
                  /\ Phases' = [Phases EXCEPT ![p] = "off"]
               \/ /\ Phases[p] \in Errors /\ ~(Phases[p] \in RetryOn /\ attempt[p] + 1 < Attempts)
                  /\ \/ Phases' = [Phases EXCEPT ![p] = "off"]
                     \/ \E c \in Procs : /\ Phases[c] = "trying"
                                         /\ Phases' = [Phases EXCEPT ![p] = "off", ![c] = Phases[p]]
            => Retry!RetryNext
         /\ /\ attempt' = [attempt EXCEPT ![p] = @ + 1]
            /\ delay' = [delay EXCEPT ![p] = IF 2 * @ > RetryMaxDelay THEN RetryMaxDelay ELSE 2 * @]
            /\ Phases[p] = "pausing" /\ Phases' = [Phases EXCEPT ![p] = "ready"]
            => Retry!RetryNext
BY DEF Phases, Retry!retryVars, Retry!RetryNext, Retry!Start, Retry!Try, Retry!Fails, Retry!Succeed,
       Retry!Pause, Retry!Again, Retry!Surrender, Retry!SurrenderTo, Retry!Cancelled, Retry!Resume,
       Retry!Move, Retry!Forget

(* The doubled delay of 64 bits is the doubled delay.                        *)
LEMMA DelayDoubles ==
  ASSUME NEW d \in Int, RetryDelay <= d, d <= RetryMaxDelay
  PROVE  NextDelay(d) = IF 2 * d > RetryMaxDelay THEN RetryMaxDelay ELSE 2 * d
BY ConfigFacts, ClientAssumption DEF NextDelay, Doubled

LEMMA StepRetries ==
  ASSUME TypeOK, BackoffInRange, ForOK, CallOK, [Next]_vars
  PROVE  [Retry!RetryNext]_(Retry!retryVars)
<1>. DEFINE Goal == [Retry!RetryNext]_(Retry!retryVars)
<1>. USE ClientAssumption DEF Procs, loop, Go, Fail, Return
<1>0. ASSUME UNCHANGED <<Phases, attempt, delay>> PROVE Goal
  <2>1. Procs = {} => Goal
    BY <1>0 DEF Phases, Retry!retryVars
  <2>. QED  BY <1>0, <2>1, AbstractSteps
<1>1. ASSUME NEW p \in Procs, Attempt(p) PROVE Goal
  <2>1. kind[p] # "check" /\ Phases[p] = "ready"
    BY <1>1, PhaseCases DEF Attempt, CallOK, KindOK
  <2>2. Phases' = [Phases EXCEPT ![p] = Phase(p)'] /\ UNCHANGED <<attempt, delay>>
    BY <1>1, OthersStay DEF Attempt, TypeOK
  <2>3. Phase(p)' \in {"trying"} \cup Errors
    BY <1>1, <2>1 DEF Attempt, Phase, TypeOK, Errors
  <2>. QED  BY <2>1, <2>2, <2>3, AbstractSteps
<1>2. ASSUME NEW p \in Procs, Backoff(p) PROVE Goal
  <2>1. kind[p] # "check" /\ Phases[p] = err[p] /\ err[p] \in RetryOn \cap Errors
        /\ attempt[p] + 1 < Attempts
    BY <1>2, PhaseCases, ConfigFacts DEF Backoff, Retries, Retryable, Last, CallOK, FailedOK, TypeOK
  <2>2. Phases' = [Phases EXCEPT ![p] = Phase(p)'] /\ UNCHANGED <<attempt, delay>>
    BY <1>2, OthersStay DEF Backoff, TypeOK
  <2>3. Phase(p)' = "pausing"
    BY <1>2, <2>1 DEF Backoff, Phase, TypeOK
  <2>. QED  BY <2>1, <2>2, <2>3, AbstractSteps
<1>3. ASSUME NEW p \in Procs, BackoffTimer(p) PROVE Goal
  <2>1. kind[p] # "check" /\ Phases[p] = "pausing"
    BY <1>3, PhaseCases DEF BackoffTimer, CallOK, KindOK
  <2>2. Phases' = [Phases EXCEPT ![p] = Phase(p)']
    BY <1>3, OthersStay DEF BackoffTimer, TypeOK
  <2>3. Phase(p)' = "ready"
    BY <1>3, <2>1 DEF BackoffTimer, Phase, TypeOK
  <2>4. /\ attempt' = [attempt EXCEPT ![p] = @ + 1]
        /\ delay' = [delay EXCEPT ![p] = IF 2 * @ > RetryMaxDelay THEN RetryMaxDelay ELSE 2 * @]
    BY <1>3, DelayDoubles DEF BackoffTimer, BackoffInRange, TypeOK
  <2>. QED  BY <2>1, <2>2, <2>3, <2>4, AbstractSteps
<1>4. ASSUME NEW p \in Procs, TcpConnects(p) PROVE Goal
  <2>1. Phases' = [Phases EXCEPT ![p] = Phase(p)'] /\ UNCHANGED <<attempt, delay>>
    BY <1>4, OthersStay DEF TcpConnects, TypeOK
  <2>2. Phase(p)' = Phases[p]
    BY <1>4 DEF TcpConnects, Phase, Phases, TypeOK
  <2>. QED  BY <1>0, <2>1, <2>2 DEF Phases
<1>5. ASSUME NEW p \in Procs, TcpFails(p) \/ HandshakeFails(p) \/ TcpTimesOut(p) PROVE Goal
  <2>1. Phases' = [Phases EXCEPT ![p] = Phase(p)'] /\ UNCHANGED <<attempt, delay>>
    BY <1>5, OthersStay DEF TcpFails, HandshakeFails, TcpTimesOut, TypeOK
  <2>2. CASE kind[p] = "check"
    <3>1. Phase(p)' = Phases[p]
      BY <1>5, <2>2 DEF TcpFails, HandshakeFails, TcpTimesOut, Phase, Phases
    <3>. QED  BY <1>0, <2>1, <3>1 DEF Phases
  <2>3. CASE kind[p] # "check"
    <3>1. Phases[p] = "trying"
      BY <1>5, <2>3, PhaseCases DEF TcpFails, HandshakeFails, TcpTimesOut
    <3>2. Phase(p)' \in Errors
      BY <1>5, <2>3 DEF TcpFails, HandshakeFails, TcpTimesOut, Phase, TypeOK, Errors
    <3>. QED  BY <2>1, <3>1, <3>2, AbstractSteps
  <2>. QED  BY <2>2, <2>3
<1>6. ASSUME NEW c \in Callers, Call(c) \/ Cancel(c) \/ LimiterFails(c) PROVE Goal
  <2>1. Phases' = [Phases EXCEPT ![c] = Phase(c)'] /\ UNCHANGED <<attempt, delay>>
    BY <1>6, OthersStay DEF Call, Cancel, LimiterFails, TypeOK
  <2>2. Phase(c)' = Phases[c]
    BY <1>6 DEF Call, Cancel, LimiterFails, Phase, Phases, TypeOK
  <2>. QED  BY <1>0, <2>1, <2>2 DEF Phases
<1>7. ASSUME NEW c \in Callers, LimiterPasses(c) PROVE Goal
  <2>1. Phases[c] = "off" /\ kind[c] # "check"
    BY <1>7, PhaseCases DEF LimiterPasses, CallOK, KindOK
  <2>2. Phases' = [Phases EXCEPT ![c] = Phase(c)'] /\ UNCHANGED <<attempt, delay>>
    BY <1>7, OthersStay DEF LimiterPasses, TypeOK
  <2>3. Phase(c)' = "ready"
    BY <1>7, <2>1 DEF LimiterPasses, Phase, TypeOK
  <2>. QED  BY <2>1, <2>2, <2>3, AbstractSteps
<1>8. ASSUME NEW c \in Callers, GiveUp(c) PROVE Goal
  <2>1. Phases[c] = err[c] /\ Phases[c] \in Errors
        /\ ~(Phases[c] \in RetryOn /\ attempt[c] + 1 < Attempts)
    BY <1>8, PhaseCases, ConfigFacts DEF GiveUp, Retries, Retryable, Last, TypeOK
  <2>2. Phases' = [Phases EXCEPT ![c] = Phase(c)']
    BY <1>8, OthersStay DEF GiveUp, TypeOK
  <2>3. Phase(c)' = "off"
    BY <1>8 DEF GiveUp, Phase, TypeOK
  <2>4. attempt' = [attempt EXCEPT ![c] = 0] /\ delay' = [delay EXCEPT ![c] = RetryDelay]
    BY <1>8 DEF GiveUp
  <2>. QED  BY <2>1, <2>2, <2>3, <2>4, AbstractSteps
<1>9. ASSUME NEW p \in Procs,
             \/ p \in Callers /\ (BackoffCtx(p) \/ CallerConnected(p) \/ Response(p))
             \/ p \in Dialers /\ DialerConnected(p)
      PROVE  Goal
  <2>1. Phases[p] \in {"trying", "pausing"}
    BY <1>9, PhaseCases
    DEF BackoffCtx, CallerConnected, Response, DialerConnected, CallOK, KindOK, TypeOK
  <2>2. Phases' = [Phases EXCEPT ![p] = Phase(p)']
    BY <1>9, OthersStay DEF BackoffCtx, CallerConnected, Response, DialerConnected, TypeOK
  <2>3. Phase(p)' = "off"
    BY <1>9 DEF BackoffCtx, CallerConnected, Response, DialerConnected, Phase, TypeOK
  <2>4. attempt' = [attempt EXCEPT ![p] = 0] /\ delay' = [delay EXCEPT ![p] = RetryDelay]
    BY <1>9 DEF BackoffCtx, CallerConnected, Response, DialerConnected
  <2>. QED  BY <2>1, <2>2, <2>3, <2>4, AbstractSteps
<1>10. ASSUME NEW c \in Callers, HttpFails(c) \/ HttpTimesOut(c) PROVE Goal
  <2>1. Phases[c] = "trying" /\ kind[c] # "check"
    BY <1>10, PhaseCases DEF HttpFails, HttpTimesOut, CallOK, KindOK
  <2>2. Phases' = [Phases EXCEPT ![c] = Phase(c)'] /\ UNCHANGED <<attempt, delay>>
    BY <1>10, OthersStay DEF HttpFails, HttpTimesOut, TypeOK
  <2>3. Phase(c)' \in Errors
    BY <1>10, <2>1 DEF HttpFails, HttpTimesOut, Phase, TypeOK, Errors
  <2>. QED  BY <2>1, <2>2, <2>3, AbstractSteps
<1>11. ASSUME NEW c \in Callers, TakeConn(c) PROVE Goal
  <2>1. Phases' = [Phases EXCEPT ![c] = Phase(c)'] /\ UNCHANGED <<attempt, delay>>
    BY <1>11, OthersStay DEF TakeConn, TypeOK
  <2>2. Phase(c)' = Phases[c]
    BY <1>11 DEF TakeConn, Phase, Phases, TypeOK
  <2>. QED  BY <1>0, <2>1, <2>2 DEF Phases
<1>12. ASSUME NEW c \in Callers, NEW d \in Dialers, StartDial(c, d) PROVE Goal
  <2>1. c # d /\ kind[d] = "dial" /\ Phases[d] = "off"
    BY <1>12, PhaseCases DEF StartDial, CallOK, KindOK
  <2>2. UNCHANGED <<kind, err, attempt, delay>>
        /\ pc' = [pc EXCEPT ![c] = "waiting", ![d] = "attempt"]
    BY <1>12 DEF StartDial
  <2>3. Phase(c)' = Phase(c)
    BY <1>12, <2>1, <2>2 DEF StartDial, Phase, TypeOK
  <2>4. Phase(d)' = "ready"
    BY <2>1, <2>2 DEF Phase, TypeOK
  <2>5. \A q \in Procs : q # c /\ q # d => Phase(q)' = Phase(q)
    BY <2>2 DEF Phase, TypeOK
  <2>6. Phases' = [Phases EXCEPT ![d] = "ready"]
    BY <2>3, <2>4, <2>5 DEF Phases
  <2>. QED  BY <2>1, <2>2, <2>6, AbstractSteps
<1>13. ASSUME NEW d \in Dialers, DialerGivesUp(d) PROVE Goal
  <2>1. kind[d] = "dial" /\ Phases[d] = err[d] /\ err[d] \in Errors
        /\ ~(Phases[d] \in RetryOn /\ attempt[d] + 1 < Attempts)
    BY <1>13, PhaseCases, ConfigFacts
    DEF DialerGivesUp, Retries, Retryable, Last, TypeOK, CallOK, KindOK
  <2>2. /\ attempt' = [attempt EXCEPT ![d] = 0] /\ delay' = [delay EXCEPT ![d] = RetryDelay]
        /\ kind' = kind
    BY <1>13 DEF DialerGivesUp
  <2>3. CASE for[d] = None
    <3>1. pc' = [pc EXCEPT ![d] = "idle"] /\ err' = [err EXCEPT ![d] = "none"]
      BY <1>13, <2>3 DEF DialerGivesUp
    <3>2. Phases' = [Phases EXCEPT ![d] = Phase(d)']
      BY <2>2, <3>1, OthersStay DEF TypeOK
    <3>3. Phase(d)' = "off"
      BY <3>1 DEF Phase, TypeOK
    <3>. QED  BY <2>1, <2>2, <3>2, <3>3, AbstractSteps
  <2>4. CASE for[d] # None
    <3>0. PICK c \in Callers : c = for[d]
      BY <2>4 DEF TypeOK
    <3>1. c \in Callers /\ c # d /\ pc[c] = "waiting" /\ kind[c] = "do" /\ Phases[c] = "trying"
      BY <2>4, <3>0, PhaseCases DEF ForOK, TypeOK, CallOK, KindOK
    <3>2. /\ pc' = [pc EXCEPT ![d] = "idle", ![c] = "failed"]
          /\ err' = [err EXCEPT ![d] = "none", ![c] = err[d]]
      BY <1>13, <2>4, <3>0 DEF DialerGivesUp
    <3>3. Phase(d)' = "off"
      BY <3>1, <3>2 DEF Phase, TypeOK
    <3>4. Phase(c)' = Phases[d]
      <4>1. pc'[c] = "failed" /\ err'[c] = err[d] /\ kind'[c] = "do"
        BY <2>2, <3>1, <3>2 DEF TypeOK
      <4>. QED  BY <2>1, <4>1 DEF Phase
    <3>5. \A q \in Procs : q # c /\ q # d => Phase(q)' = Phase(q)
      BY <2>2, <3>2 DEF Phase, TypeOK
    <3>6. Phases' = [Phases EXCEPT ![d] = "off", ![c] = Phases[d]]
      <4>1. Phases' = [q \in Procs |-> Phase(q)']
        BY DEF Phases
      <4>2. \A q \in Procs : Phase(q)' = IF q = c THEN Phases[d] ELSE IF q = d THEN "off" ELSE Phases[q]
        BY <3>1, <3>3, <3>4, <3>5 DEF Phases
      <4>. QED  BY <3>1, <4>1, <4>2 DEF Phases
    <3>. QED  BY <2>1, <2>2, <3>1, <3>6, AbstractSteps
  <2>. QED  BY <2>3, <2>4
<1>14. ASSUME NEW c \in Callers, CheckStep(c) PROVE Goal
  <2>1. Phases' = [Phases EXCEPT ![c] = Phase(c)']
    BY <1>14, OthersStay DEF CheckStep, Check, CheckConnected, CheckFails, Checked, TypeOK
  <2>2. Phase(c)' = Phases[c]
    BY <1>14 DEF CheckStep, Check, CheckConnected, CheckFails, Checked, Phase, Phases, TypeOK,
                 CallOK, KindOK
  <2>3. UNCHANGED <<attempt, delay>>
    BY <1>14 DEF CheckStep, Check, CheckConnected, CheckFails, Checked, TypeOK, CallOK, KindOK, RestOK
  <2>. QED  BY <1>0, <2>1, <2>2, <2>3 DEF Phases
<1>15. CASE BodyRead \/ BodyClosed \/ UserCloses \/ IdleTimeout \/ Close \/ ConnLost \/ UNCHANGED vars
  <2>1. UNCHANGED <<pc, kind, err, attempt, delay>>
    BY <1>15 DEF BodyRead, BodyClosed, UserCloses, IdleTimeout, Close, ConnLost, Drop, vars
  <2>. QED  BY <1>0, <2>1 DEF Phases, Phase
<1>. QED
  BY <1>1, <1>2, <1>3, <1>4, <1>5, <1>6, <1>7, <1>8, <1>9, <1>10, <1>11, <1>12, <1>13, <1>14, <1>15
  DEF Next, Run, Dial, CallerStep, DialerStep

(* Every goroutine that runs retryPolicy.run goes through the loop of         *)
(* RetryLoop.tla, for any number of goroutines and attempts and any          *)
(* predicate (client.go:341-385).                                            *)
THEOREM LoopsRetry == SafeSpec => ImplementsRetryLoop
<1>1. Init => Retry!RetryInit /\ CallOK
  BY ClientAssumption
  DEF Init, Retry!RetryInit, Phase, CallOK, KindOK, FailedOK, RestOK, Procs
<1>2. IInv /\ CallOK /\ [Next]_vars => CallOK' /\ [Retry!RetryNext]_(Retry!retryVars)
  BY CallKept, StepRetries DEF IInv
<1>. QED  BY <1>1, <1>2, Invariant, PTL DEF SafeSpec, ImplementsRetryLoop, Retry!RetrySpec
==========================================================================
