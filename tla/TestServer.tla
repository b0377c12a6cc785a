---------------------------- MODULE TestServer ----------------------------
(***************************************************************************)
(* What testserver.go, CheckTorDaemon of health.go, ControlAuthFromTor and *)
(* WaitForControlPort of control.go do with the tors of TorDaemon.tla.     *)
(*                                                                         *)
(* A test is a call of StartTestServer and the TestServer it returns.  Its *)
(* tor has fixed ports and a torrc; or it uses a tor that somebody else    *)
(* runs (startExternalTestServer).  Starts that are not tests are made by  *)
(* users of the library.                                                   *)
(*                                                                         *)
(* All these functions ask whoever listens on a control port, and see only *)
(* the answer.  A connection that answers at its end was with the same tor *)
(* from its beginning, so that an exchange on one connection is one step;  *)
(* one that fails for whatever reason changes nothing and is repeated.     *)
(* The cookie that a tor accepts is the one that it has written itself.    *)
(***************************************************************************)
EXTENDS TorDaemon

CONSTANTS Tests,         \* the starts that are StartTestServer's
          TestOptions    \* the options of StartTestServer

ASSUME TestServerAssumption ==
  /\ Tests \subseteq Starts /\ TestOptions \in Options
  /\ TestOptions.torrc \in [Roles -> Ports] /\ TestOptions.ports = TestOptions.torrc
  /\ Callers \cap Tests = {} /\ Nobody \notin Starts

Users == Starts \ Tests
UserOptions == Options \ {TestOptions}

VARIABLES cookie,     \* tors that have written their cookie file
          booted,     \* tors that run and have built their circuits
          phase,      \* per test, where StartTestServer is
          auth        \* per test and caller, whose cookie it holds

tor == <<cookie, booted>>
tvars == <<dvars, tor, phase, auth>>

TInit == /\ Init
         /\ cookie = {} /\ booted = {}
         /\ phase = [t \in Tests |-> "idle"]
         /\ auth = [x \in Tests \cup Callers |-> Nobody]

(* --- tor --- *)

WritesCookie(s) == /\ child[s] = "serving" /\ s \notin cookie
                   /\ cookie' = cookie \cup {s}
                   /\ UNCHANGED <<dvars, booted, phase, auth>>

Boots(s) == /\ child[s] = "serving" /\ s \in cookie /\ s \notin booted
            /\ booted' = booted \cup {s}
            /\ UNCHANGED <<dvars, cookie, phase, auth>>

(* The steps of TorDaemon.tla.  A tor that exits is no longer booted.      *)
Daemon == /\ Proceed
          /\ booted' = {s \in booted : child'[s] = "serving"}
          /\ UNCHANGED <<cookie, phase, auth>>

(* --- StartTestServer --- *)

Step(t, from, to) == phase[t] = from /\ phase' = [phase EXCEPT ![t] = to]

(* External(t): the environment names a tor, and its cookie file. *)
External(t) == phase[t] # "idle" /\ pc[t] = "idle"
ControlPort(t) == IF External(t) THEN Own(auth[t])["control"] ELSE addr[t]["control"]

(* The tor s answers on the control port p. *)
Answers(s, p) == owner[p] = s /\ Own(s)["control"] = p

BeginTest(t) == /\ Step(t, "idle", "daemon")
                /\ Begin(t, TestOptions) \/ BeginFails(t)
                /\ UNCHANGED <<tor, auth>>

BeginExternal(t, u) == /\ Step(t, "idle", "port")
                       /\ u \in cookie
                       /\ auth' = [auth EXCEPT ![t] = u]
                       /\ UNCHANGED <<dvars, tor>>

(* Faulty variant: the cookie file is not waited for. *)
CookieFoundBlindly(t) == /\ Step(t, "daemon", "auth")
                         /\ pc[t] = "up"
                         /\ UNCHANGED <<dvars, tor, auth>>

(* The daemon is up, and waitForCookieFile has seen the file. *)
CookieFound(t) == /\ Step(t, "daemon", "auth")
                  /\ pc[t] = "up" /\ t \in cookie
                  /\ UNCHANGED <<dvars, tor, auth>>

(* ControlAuthFromTor: PROTOCOLINFO, the cookie file that it names, and    *)
(* AUTHENTICATE, on one connection.  Then the Server, which cannot fail    *)
(* with addresses that are set.                                            *)
AuthFound(t) == /\ Step(t, "auth", "boot")
                /\ \E s \in cookie : /\ Answers(s, ControlPort(t))
                                    /\ auth' = [auth EXCEPT ![t] = s]
                /\ UNCHANGED <<dvars, tor>>

(* WaitForControlPort: PROTOCOLINFO and the cookie file it names, *)
PortFound(t) == /\ Step(t, "port", "verify")
                /\ \E s \in cookie : Answers(s, ControlPort(t))
                /\ UNCHANGED <<dvars, tor, auth>>

(* and PROTOCOLINFO once more, on another connection, *)
PortVerified(t) == /\ Step(t, "verify", "boot")
                   /\ \E s \in Starts : Answers(s, ControlPort(t))
                   /\ UNCHANGED <<dvars, tor, auth>>

(* or all of it again. *)
PortUnverified(t) == /\ Step(t, "verify", "port")
                     /\ UNCHANGED <<dvars, tor, auth>>

(* waitForTorBootstrap: AUTHENTICATE with the credentials found before, on *)
(* a connection of its own, and the phase, which is 100 %.                 *)
Bootstrapped(t) == /\ Step(t, "boot", "ready")
                   /\ Answers(auth[t], ControlPort(t))
                   /\ auth[t] \in booted
                   /\ UNCHANGED <<dvars, tor, auth>>

(* The daemon did not come up, or a deadline has passed: the test fails or *)
(* is skipped, and what it has started is not stopped.                     *)
Skip(t) == /\ \/ phase[t] \in {"auth", "port", "boot"}
              \/ phase[t] = "daemon" /\ pc[t] \in {"up", "failed"}
           /\ phase' = [phase EXCEPT ![t] = "over"]
           /\ UNCHANGED <<dvars, tor, auth>>

(* --- the TestServer --- *)

(* Close stops the Process, if there is one and no Close has cleared it.   *)
(* It looks at it without the lock: two Closes may stop the same process.  *)
Close(g, t) == /\ phase[t] = "ready" /\ ~External(t) /\ t \notin stopped
               /\ Stop(g, t)
               /\ UNCHANGED <<tor, phase, auth>>

(* --- CheckTorDaemon --- *)

unstopped == <<pc, opt, addr, child, killed, owner, dirs, process, stopped, refused>>

(* A TorProcess that was stopped has no cmd, and the verdict is given at   *)
(* once; whether its tor still runs is not asked.                          *)
Check(g, s) == /\ pc[s] = "up" /\ s \in handle
               /\ Move(g, "idle", "auth")
               /\ on' = [on EXCEPT ![g] = s]
               /\ UNCHANGED <<unstopped, tor, phase, auth>>

CheckAuth(g) == /\ Move(g, "auth", "info")
                /\ \E s \in cookie : /\ Answers(s, addr[on[g]]["control"])
                                    /\ auth' = [auth EXCEPT ![g] = s]
                /\ UNCHANGED <<unstopped, on, tor, phase>>

Return(g) == /\ on' = [on EXCEPT ![g] = Nobody]
             /\ auth' = [auth EXCEPT ![g] = Nobody]
             /\ UNCHANGED <<unstopped, tor, phase>>

(* Faulty variant: any answer will do, authenticated or not. *)
CheckInfoUnauthenticated(g) == /\ Move(g, "info", "healthy")
                               /\ \E s \in Starts : Answers(s, addr[on[g]]["control"])
                               /\ UNCHANGED <<unstopped, on, tor, phase, auth>>

(* Authenticate and GetInfo on a second connection. *)
CheckInfo(g) == /\ Move(g, "info", "healthy")
                /\ Answers(auth[g], addr[on[g]]["control"])
                /\ UNCHANGED <<unstopped, on, tor, phase, auth>>

(* The timeout of ControlAuthFromTor, or an error of the others. *)
CheckFails(g) == /\ place[g] \in {"auth", "info"}
                 /\ place' = [place EXCEPT ![g] = "idle"]
                 /\ Return(g)

Checked(g) == Move(g, "healthy", "idle") /\ Return(g)

--------------------------------------------------------------------------
UserStep == /\ \E u \in Users : \/ BeginFails(u) \/ \E o \in UserOptions : Begin(u, o)
                                \/ \E g \in Callers : Stop(g, u)
            /\ UNCHANGED <<tor, phase, auth>>

TestStep(t) == \/ CookieFound(t) \/ AuthFound(t)
               \/ PortFound(t) \/ PortVerified(t) \/ PortUnverified(t)
               \/ Bootstrapped(t)

TNext == \/ Daemon \/ UserStep
         \/ \E s \in Starts : WritesCookie(s) \/ Boots(s)
         \/ \E t \in Tests : \/ BeginTest(t) \/ TestStep(t) \/ Skip(t)
                             \/ \E u \in Users : BeginExternal(t, u)
                             \/ \E g \in Callers : Close(g, t)
         \/ \E g \in Callers : \/ CheckAuth(g) \/ CheckInfo(g) \/ CheckFails(g) \/ Checked(g)
                               \/ \E s \in Starts : Check(g, s)

(* The goroutine of a test runs, the system kills what it agreed to kill,  *)
(* the select of waitForPorts, which chooses at random, does not prefer    *)
(* its ticks for ever, and every other wait looks at its deadline between  *)
(* two exchanges, each of which has a timeout of its own.  Nothing is      *)
(* assumed of tor, of other starts, callers and programs.                  *)
TFairness == \A t \in Tests : /\ WF_dvars(StartStep(t) \/ Dies(t)) /\ SF_dvars(Deadline(t))
                              /\ WF_tvars(TestStep(t)) /\ SF_tvars(Skip(t))

SafeSpec == TInit /\ [][TNext]_tvars
Spec == SafeSpec /\ TFairness

--------------------------------------------------------------------------
(* A server that StartTestServer returned, or is about to, has the         *)
(* credentials of its own tor as long as that runs, although the functions *)
(* ask whoever listens on a port that other tors use too: nothing but the  *)
(* cookie file says which tor it is.                                       *)
ServesItself ==
  \A t \in Tests : phase[t] \in {"boot", "ready"} /\ child[t] = "serving" => auth[t] = t

(* CheckTorDaemon never takes the answer of another tor for that of the    *)
(* process it was given while the latter serves on the addresses that the  *)
(* process names (health.go 170-234).  A process whose torrc made tor serve*)
(* on other ports is exempt: whoever listens at its addresses is asked.    *)
HealthyHonest ==
  [][\A g \in Callers : place[g] # "healthy" /\ place'[g] = "healthy"
        /\ child[on[g]] = "serving" /\ Own(on[g]) = addr[on[g]] => auth[g] = on[g]]_tvars

(* "It verifies that: The Tor process is running". *)
HealthyRuns ==
  [][\A g \in Callers : place[g] # "healthy" /\ place'[g] = "healthy"
        => child[on[g]] \in Running]_tvars

(* StartTestServer ends, whatever tor and the other programs do: with a    *)
(* server, or with a test that failed or was skipped.                      *)
TestReturns ==
  \A t \in Tests : (phase[t] # "idle") ~> (phase[t] \in {"ready", "over"})
==========================================================================
