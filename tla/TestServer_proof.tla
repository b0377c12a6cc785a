------------------------- MODULE TestServer_proof -------------------------
(* Theorems about TestServer.tla and TorDaemon.tla, for any starts, tests, *)
(* callers, ports and options.                                             *)
EXTENDS TestServer, TLAPS

(* The types of the variables, the daemons' and the tests'. *)
Typed ==
  /\ pc \in [Starts -> {"idle", "socks", "socks held", "control", "control held", "exec", "wait",
                        "probe", "up", "kill", "reap", "clean", "failed"}]
  /\ opt \in [Starts -> {Normal(o) : o \in Options} \cup {Unset}]
  /\ addr \in [Starts -> [Roles -> Ports \cup {Zero}]]
  /\ child \in [Starts -> {"none", "starting", "serving", "dead", "reaped"}]
  /\ owner \in [Ports -> Starts \cup {Nobody, Probe, Other}]
  /\ place \in [Callers -> {"idle", "kill", "reap", "clean", "auth", "info", "healthy"}]
  /\ on \in [Callers -> Starts \cup {Nobody}]
  /\ stopped \subseteq Starts

TestTyped ==
  /\ phase \in [Tests -> {"idle", "daemon", "auth", "port", "verify", "boot", "ready", "over"}]
  /\ auth \in [Tests \cup Callers -> Starts \cup {Nobody}]
  /\ cookie \subseteq Starts

(* A call is made on a TorProcess that was returned. *)
Calls == \A g \in Callers : place[g] # "idle" => on[g] \in Starts /\ pc[on[g]] = "up"

(* Who has launched a tor, who has a directory, and what a TorProcess      *)
(* knows of both.                                                          *)
Lives ==
  \A s \in Starts :
    /\ pc[s] \in {"idle", "socks", "socks held", "control", "control held", "exec"} => child[s] = "none"
    /\ pc[s] = "idle" => s \notin dirs
    /\ pc[s] \notin {"idle", "clean", "failed", "up"} /\ opt[s].dataDir = Unset => s \in dirs
    /\ pc[s] # "up" => s \notin handle \cup owns \cup stopped
    /\ s \in dirs => opt[s].dataDir = Unset
    /\ s \notin refused =>
         /\ pc[s] \in {"clean", "failed"} => child[s] \in {"none", "reaped"}
         /\ pc[s] = "failed" => s \notin dirs
         /\ pc[s] = "up" /\ s \notin handle => child[s] = "reaped"
         /\ pc[s] = "up" /\ s \in dirs => s \in owns
         /\ child[s] \in Running /\ opt[s].dataDir = Unset => s \in dirs

(* A Stop that is about to clean up, and one that has returned. *)
Stops ==
  /\ \A g \in Callers : place[g] = "clean" /\ on[g] \notin refused => child[on[g]] = "reaped"
  /\ StoppedLeavesNothing

(* The ports of a start once they are resolved, and those of its torrc.    *)
Resolved ==
  \A s \in Starts :
    /\ pc[s] \notin {"idle", "failed"} \/ child[s] # "none" => opt[s].torrc \in [Roles -> Ports] \cup {Unset}
    /\ pc[s] \in {"socks held", "control", "control held"} => addr[s]["socks"] \in Ports
    /\ pc[s] = "control held" => addr[s]["control"] \in Ports
    /\ pc[s] = "exec" \/ child[s] # "none" => addr[s] \in [Roles -> Ports]

(* A tor that serves has its ports. *)
Serving == \A s \in Starts : child[s] = "serving" =>
             \A r \in Roles : Own(s)[r] \in Ports /\ owner[Own(s)[r]] = s

(* A resolveAddr has the port it looks at, for itself. *)
Holders == {s \in Starts : pc[s] \in {"socks held", "control held"}}
HeldPort(s) == IF pc[s] = "socks held" THEN addr[s]["socks"] ELSE addr[s]["control"]
Holding ==
  /\ \A s \in Holders : owner[HeldPort(s)] = Probe
  /\ \A s, u \in Holders : HeldPort(s) = HeldPort(u) => s = u

(* Tests have fixed ports, and those in their torrc. *)
Fixes ==
  \A t \in Tests :
    /\ pc[t] \notin {"socks", "socks held", "control", "control held"}
    /\ child[t] # "none" \/ pc[t] \notin {"idle", "failed"}
         => opt[t] = Normal(TestOptions) /\ addr[t] = TestOptions.torrc

(* A cookie is proof that a tor has served, and that of a test has when    *)
(* the test asks for credentials.                                          *)
Cookies ==
  /\ \A s \in cookie : child[s] \notin {"none", "starting"}
  /\ \A t \in Tests :
       /\ phase[t] \in {"idle", "port", "verify"} => pc[t] = "idle"
       /\ phase[t] \in {"auth", "boot", "ready"} /\ pc[t] # "idle" => child[t] \notin {"none", "starting"}
  /\ ServesItself

IInv == Typed /\ TestTyped /\ Calls /\ Lives /\ Stops /\ Resolved /\ Serving /\ Holding /\ Fixes /\ Cookies

(* Steps of a CheckTorDaemon change nothing but the call. *)
Checking(g) == /\ place[g] \notin {"kill", "reap", "clean"} /\ UNCHANGED unstopped
               /\ \/ \E s \in Starts : /\ pc[s] = "up"
                                      /\ place' = [place EXCEPT ![g] = "auth"]
                                      /\ on' = [on EXCEPT ![g] = s]
                  \/ /\ place[g] # "idle" /\ UNCHANGED on
                     /\ \E p \in {"info", "healthy"} : place' = [place EXCEPT ![g] = p]
                  \/ /\ place' = [place EXCEPT ![g] = "idle"]
                     /\ on' = [on EXCEPT ![g] = Nobody]

LEMMA HeldValues ==
  /\ Held["socks"] = "socks held" /\ Held["control"] = "control held"
  /\ \A r \in Roles : r = "socks" \/ r = "control"
  /\ \A r \in Roles : Held[r] \in {"socks held", "control held"}
  /\ "socks" \in Roles /\ "control" \in Roles
BY DEF Held, Roles

LEMMA NormalTyped ==
  ASSUME NEW o \in Options
  PROVE  /\ Normal(o).ports = [r \in Roles |-> Default(o.ports[r], Zero)]
         /\ Normal(o).ports \in [Roles -> Ports \cup {Zero}]
         /\ Normal(o).torrc = o.torrc /\ o.torrc \in [Roles -> Ports] \cup {Unset}
<1>1. o \in [ports : [Roles -> Ports \cup {Zero, Unset}], torrc : [Roles -> Ports] \cup {Unset},
             dataDir : {"given", Unset}, startupTimeout : Int]
  BY DaemonAssumption
<1>2. QED BY <1>1 DEF Normal, Default

LEMMA CheckingMoves ==
  ASSUME Typed, Calls, NEW g \in Callers, Checking(g)
  PROVE  /\ UNCHANGED <<pc, child, dirs, stopped, refused>>
         /\ \A h \in Callers : h # g => place'[h] = place[h] /\ on'[h] = on[h]
         /\ place'[g] # "clean"
         /\ place'[g] # "idle" => on'[g] \in Starts /\ pc[on'[g]] = "up"
BY DEF Typed, Calls, Checking, unstopped

(* What a step is for the daemons: the test server and the tors stand still*)
(* at most steps, and the daemons at the others.                           *)
LEMMA Moves ==
  ASSUME Typed, [TNext]_tvars
  PROVE  \/ \E s \in Starts : BeginFails(s)
         \/ \E s \in Starts, o \in Options : Begin(s, o) /\ (s \in Tests => o = TestOptions)
         \/ Proceed
         \/ \E g \in Callers, s \in Starts : Stop(g, s)
         \/ \E g \in Callers : Checking(g)
         \/ UNCHANGED dvars
<1> USE TestServerAssumption
<1>1. ASSUME NEW g \in Callers, NEW s \in Starts, Check(g, s) PROVE Checking(g)
  BY <1>1 DEF Check, Checking, Move
<1>2. ASSUME NEW g \in Callers, CheckAuth(g) \/ CheckInfo(g) PROVE Checking(g)
  BY <1>2 DEF CheckAuth, CheckInfo, Checking, Move
<1>3. ASSUME NEW g \in Callers, CheckFails(g) \/ Checked(g) PROVE Checking(g)
  BY <1>3 DEF CheckFails, Checked, Return, Checking, Move
<1>4. ASSUME NEW t \in Tests, TestStep(t) \/ Skip(t) PROVE UNCHANGED dvars
  BY <1>4 DEF TestStep, Skip, CookieFound, AuthFound, PortFound, PortVerified, PortUnverified, Bootstrapped
<1>5. ASSUME NEW s \in Starts, WritesCookie(s) \/ Boots(s) PROVE UNCHANGED dvars
  BY <1>5 DEF WritesCookie, Boots
<1>6. CASE UNCHANGED tvars
  BY <1>6 DEF tvars
<1>7. CASE Daemon
  BY <1>7 DEF Daemon
<1>8. CASE UserStep
  BY <1>8 DEF UserStep, Users, UserOptions
<1>9. ASSUME NEW t \in Tests, NEW u \in Users, BeginExternal(t, u) PROVE UNCHANGED dvars
  BY <1>9 DEF BeginExternal
<1>10. ASSUME NEW t \in Tests, BeginTest(t) PROVE BeginFails(t) \/ Begin(t, TestOptions)
  BY <1>10 DEF BeginTest
<1>11. ASSUME NEW t \in Tests, NEW g \in Callers, Close(g, t) PROVE Stop(g, t)
  BY <1>11 DEF Close
<1>12. QED BY <1>1, <1>2, <1>3, <1>4, <1>5, <1>6, <1>7, <1>8, <1>9, <1>10, <1>11 DEF TNext

(* Lives is preserved by every step.                                       *)
LEMMA LivesStep ==
  ASSUME IInv, [TNext]_tvars
  PROVE  Lives'
<1> USE DEF IInv, Typed, Calls, Lives, Stops, Running, process
<1>1. ASSUME UNCHANGED <<pc, opt, child, dirs, process, stopped, refused>> PROVE Lives'
  BY <1>1
<1>2. ASSUME NEW s \in Starts, BeginFails(s) PROVE Lives'
  BY <1>2 DEF BeginFails, Go, process, stopping
<1>3. ASSUME NEW s \in Starts, NEW o \in Options, s \in Tests => o = TestOptions, Begin(s, o) PROVE Lives'
  BY <1>3 DEF Begin, Go, Unresolved, process, stopping
<1>4. ASSUME NEW s \in Starts, NEW r \in Roles, Listen(s, r) PROVE Lives'
  BY <1>4 DEF Listen, Go, Held, Roles, process, stopping
<1>5. ASSUME NEW s \in Starts, NEW r \in Roles, Unlisten(s, r) PROVE Lives'
  BY <1>5 DEF Unlisten, Go, Held, Roles, Unresolved, process, stopping
<1>6. ASSUME NEW s \in Starts, Abort(s) PROVE Lives'
  BY <1>6 DEF Abort, Go, process, stopping
<1>7. ASSUME NEW s \in Starts, Launch(s) PROVE Lives'
  BY <1>7 DEF Launch, Go, process, stopping
<1>8. ASSUME NEW s \in Starts, SocksAnswers(s) PROVE Lives'
  BY <1>8 DEF SocksAnswers, Go, process, stopping
<1>9. ASSUME NEW s \in Starts, ControlAnswers(s) PROVE Lives'
  BY <1>9 DEF ControlAnswers, Go, process, stopping
<1>10. ASSUME NEW s \in Starts, ControlSilent(s) PROVE Lives'
  BY <1>10 DEF ControlSilent, Go, process, stopping
<1>11. ASSUME NEW s \in Starts, Deadline(s) PROVE Lives'
  BY <1>11 DEF Deadline, Go, process, stopping
<1>12. ASSUME NEW s \in Starts, Kill(s) PROVE Lives'
  BY <1>12 DEF Kill, Go, process, stopping
<1>13. ASSUME NEW s \in Starts, KillRefused(s) PROVE Lives'
  BY <1>13 DEF KillRefused, Go, process, stopping, Refuses
<1>14. ASSUME NEW s \in Starts, Reap(s) PROVE Lives'
  BY <1>14 DEF Reap, Go, process, stopping
<1>15. ASSUME NEW s \in Starts, CleanUp(s) PROVE Lives'
  BY <1>15 DEF CleanUp, Go, process, stopping
<1>16. ASSUME NEW s \in Starts, CleanUpFails(s) PROVE Lives'
  BY <1>16 DEF CleanUpFails, Go, process, stopping, Refuses
<1>17. ASSUME NEW s \in Starts, Binds(s) PROVE Lives'
  BY <1>17 DEF Binds, process, stopping
<1>18. ASSUME NEW s \in Starts, Exits(s) PROVE Lives'
  BY <1>18 DEF Exits, process, stopping
<1>19. ASSUME NEW p \in OtherPorts, OtherTakes(p) PROVE Lives'
  BY <1>19 DEF OtherTakes, process, stopping
<1>20. ASSUME NEW p \in OtherPorts, OtherLeaves(p) PROVE Lives'
  BY <1>20 DEF OtherLeaves, process, stopping
<1>21. ASSUME NEW g \in Callers, NEW s \in Starts, Stop(g, s) PROVE Lives'
  BY <1>21 DEF Stop, Move, process, stopping
<1>22. ASSUME NEW g \in Callers, StopKill(g) PROVE Lives'
  BY <1>22 DEF StopKill, Move, process, stopping
<1>23. ASSUME NEW g \in Callers, StopGone(g) PROVE Lives'
  BY <1>23 DEF StopGone, Move, process, stopping
<1>24. ASSUME NEW g \in Callers, StopRefused(g) PROVE Lives'
  BY <1>24 DEF StopRefused, Move, process, stopping, Refuses
<1>25. ASSUME NEW g \in Callers, StopReap(g) PROVE Lives'
  BY <1>25 DEF StopReap, Move, process, stopping
<1>26. ASSUME NEW g \in Callers, StopCleans(g) PROVE Lives'
  BY <1>26 DEF StopCleans, Move, process, stopping
<1>27. ASSUME NEW g \in Callers, StopCleanFails(g) PROVE Lives'
  BY <1>27 DEF StopCleanFails, Move, process, stopping, Refuses
<1>28. ASSUME NEW g \in Callers, Checking(g) PROVE Lives'
  BY <1>28 DEF Checking, unstopped, process
<1>29. QED
  BY <1>1, <1>2, <1>3, <1>4, <1>5, <1>6, <1>7, <1>8, <1>9, <1>10, <1>11, <1>12, <1>13, <1>14, <1>15, <1>16, <1>17, <1>18, <1>19, <1>20, <1>21, <1>22, <1>23, <1>24, <1>25, <1>26, <1>27, <1>28,
     Moves DEF IInv, Proceed, StartStep, StopStep, Environment, dvars, process, stopping

(* Types are preserved by every step.                                      *)
LEMMA TypedStep ==
  ASSUME IInv, [TNext]_tvars
  PROVE  Typed'
<1> USE DEF IInv, Typed, Calls, process
<1>1. ASSUME UNCHANGED <<pc, opt, addr, child, owner, place, on, stopped>> PROVE Typed'
  BY <1>1
<1>2. ASSUME NEW s \in Starts, BeginFails(s) PROVE Typed'
  BY <1>2 DEF BeginFails, Go, process, stopping
<1>3. ASSUME NEW s \in Starts, NEW o \in Options, s \in Tests => o = TestOptions, Begin(s, o) PROVE Typed'
  <2>1. PICK n : n = Normal(o)
    OBVIOUS
  <2>2. n \in {Normal(x) : x \in Options} /\ n.ports \in [Roles -> Ports \cup {Zero}]
    BY <2>1, NormalTyped
  <2>3. Unresolved(n.ports) \in {"socks", "control", "exec"}
    BY DEF Unresolved
  <2>4. /\ pc' = [pc EXCEPT ![s] = Unresolved(n.ports)]
        /\ opt' = [opt EXCEPT ![s] = n] /\ addr' = [addr EXCEPT ![s] = n.ports]
        /\ UNCHANGED <<child, owner, place, on, stopped>>
    BY <2>1, <1>3 DEF Begin, Go, stopping
  <2>5. QED
    BY <2>2, <2>3, <2>4 DEF IInv, Typed
<1>4. ASSUME NEW s \in Starts, NEW r \in Roles, Listen(s, r) PROVE Typed'
  <2>1. PICK p \in Ports : /\ owner' = [owner EXCEPT ![p] = Probe]
                          /\ addr' = [addr EXCEPT ![s][r] = p]
    BY <1>4 DEF Listen
  <2>2. pc' = [pc EXCEPT ![s] = Held[r]] /\ UNCHANGED <<opt, child, place, on, stopped>>
    BY <1>4 DEF Listen, Go, stopping
  <2>3. [addr[s] EXCEPT ![r] = p] \in [Roles -> Ports \cup {Zero}]
    BY DEF IInv, Typed
  <2>4. addr' = [addr EXCEPT ![s] = [addr[s] EXCEPT ![r] = p]]
    BY <2>1 DEF IInv, Typed
  <2>5. addr' \in [Starts -> [Roles -> Ports \cup {Zero}]]
    BY <2>3, <2>4 DEF IInv, Typed
  <2>6. QED
    BY <2>1, <2>2, <2>5, HeldValues DEF IInv, Typed
<1>5. ASSUME NEW s \in Starts, NEW r \in Roles, Unlisten(s, r) PROVE Typed'
  BY <1>5 DEF Unlisten, Go, Held, Roles, Unresolved, process, stopping
<1>6. ASSUME NEW s \in Starts, Abort(s) PROVE Typed'
  BY <1>6 DEF Abort, Go, process, stopping
<1>7. ASSUME NEW s \in Starts, Launch(s) PROVE Typed'
  BY <1>7 DEF Launch, Go, process, stopping
<1>8. ASSUME NEW s \in Starts, SocksAnswers(s) PROVE Typed'
  BY <1>8 DEF SocksAnswers, Go, process, stopping
<1>9. ASSUME NEW s \in Starts, ControlAnswers(s) PROVE Typed'
  BY <1>9 DEF ControlAnswers, Go, process, stopping
<1>10. ASSUME NEW s \in Starts, ControlSilent(s) PROVE Typed'
  BY <1>10 DEF ControlSilent, Go, process, stopping
<1>11. ASSUME NEW s \in Starts, Deadline(s) PROVE Typed'
  BY <1>11 DEF Deadline, Go, process, stopping
<1>12. ASSUME NEW s \in Starts, Kill(s) PROVE Typed'
  BY <1>12 DEF Kill, Go, process, stopping
<1>13. ASSUME NEW s \in Starts, KillRefused(s) PROVE Typed'
  BY <1>13 DEF KillRefused, Go, process, stopping, Refuses
<1>14. ASSUME NEW s \in Starts, Reap(s) PROVE Typed'
  BY <1>14 DEF Reap, Go, process, stopping
<1>15. ASSUME NEW s \in Starts, CleanUp(s) PROVE Typed'
  BY <1>15 DEF CleanUp, Go, process, stopping
<1>16. ASSUME NEW s \in Starts, CleanUpFails(s) PROVE Typed'
  BY <1>16 DEF CleanUpFails, Go, process, stopping, Refuses
<1>17. ASSUME NEW s \in Starts, Binds(s) PROVE Typed'
  BY <1>17 DEF Binds, process, stopping
<1>18. ASSUME NEW s \in Starts, Exits(s) PROVE Typed'
  BY <1>18 DEF Exits, process, stopping
<1>19. ASSUME NEW p \in OtherPorts, OtherTakes(p) PROVE Typed'
  BY <1>19 DEF OtherTakes, process, stopping
<1>20. ASSUME NEW p \in OtherPorts, OtherLeaves(p) PROVE Typed'
  BY <1>20 DEF OtherLeaves, process, stopping
<1>21. ASSUME NEW g \in Callers, NEW s \in Starts, Stop(g, s) PROVE Typed'
  BY <1>21 DEF Stop, Move, process, stopping
<1>22. ASSUME NEW g \in Callers, StopKill(g) PROVE Typed'
  BY <1>22 DEF StopKill, Move, process, stopping
<1>23. ASSUME NEW g \in Callers, StopGone(g) PROVE Typed'
  BY <1>23 DEF StopGone, Move, process, stopping
<1>24. ASSUME NEW g \in Callers, StopRefused(g) PROVE Typed'
  BY <1>24 DEF StopRefused, Move, process, stopping, Refuses
<1>25. ASSUME NEW g \in Callers, StopReap(g) PROVE Typed'
  BY <1>25 DEF StopReap, Move, process, stopping
<1>26. ASSUME NEW g \in Callers, StopCleans(g) PROVE Typed'
  BY <1>26 DEF StopCleans, Move, process, stopping
<1>27. ASSUME NEW g \in Callers, StopCleanFails(g) PROVE Typed'
  BY <1>27 DEF StopCleanFails, Move, process, stopping, Refuses
<1>28. ASSUME NEW g \in Callers, Checking(g) PROVE Typed'
  <2>1. /\ UNCHANGED <<pc, opt, addr, child, owner, stopped>>
        /\ place' \in [Callers -> {"idle", "kill", "reap", "clean", "auth", "info", "healthy"}]
    BY <1>28 DEF Checking, unstopped, process, Typed
  <2>2. on' \in [Callers -> Starts \cup {Nobody}]
    BY <1>28 DEF Checking, Typed
  <2>3. QED BY <2>1, <2>2 DEF Typed
<1>29. QED
  BY <1>1, <1>2, <1>3, <1>4, <1>5, <1>6, <1>7, <1>8, <1>9, <1>10, <1>11, <1>12, <1>13, <1>14, <1>15, <1>16, <1>17, <1>18, <1>19, <1>20, <1>21, <1>22, <1>23, <1>24, <1>25, <1>26, <1>27, <1>28,
     Moves DEF IInv, Proceed, StartStep, StopStep, Environment, dvars, process, stopping

(* Calls is preserved by every step.                                       *)
LEMMA CallsStep ==
  ASSUME IInv, [TNext]_tvars
  PROVE  Calls'
<1> USE DEF IInv, Typed, Calls, process
<1>1. ASSUME UNCHANGED <<pc, place, on>> PROVE Calls'
  BY <1>1
<1>2. ASSUME NEW s \in Starts, BeginFails(s) PROVE Calls'
  BY <1>2 DEF BeginFails, Go, process, stopping
<1>3. ASSUME NEW s \in Starts, NEW o \in Options, s \in Tests => o = TestOptions, Begin(s, o) PROVE Calls'
  BY <1>3 DEF Begin, Go, Unresolved, process, stopping
<1>4. ASSUME NEW s \in Starts, NEW r \in Roles, Listen(s, r) PROVE Calls'
  BY <1>4 DEF Listen, Go, Held, Roles, process, stopping
<1>5. ASSUME NEW s \in Starts, NEW r \in Roles, Unlisten(s, r) PROVE Calls'
  BY <1>5 DEF Unlisten, Go, Held, Roles, Unresolved, process, stopping
<1>6. ASSUME NEW s \in Starts, Abort(s) PROVE Calls'
  BY <1>6 DEF Abort, Go, process, stopping
<1>7. ASSUME NEW s \in Starts, Launch(s) PROVE Calls'
  BY <1>7 DEF Launch, Go, process, stopping
<1>8. ASSUME NEW s \in Starts, SocksAnswers(s) PROVE Calls'
  BY <1>8 DEF SocksAnswers, Go, process, stopping
<1>9. ASSUME NEW s \in Starts, ControlAnswers(s) PROVE Calls'
  BY <1>9 DEF ControlAnswers, Go, process, stopping
<1>10. ASSUME NEW s \in Starts, ControlSilent(s) PROVE Calls'
  BY <1>10 DEF ControlSilent, Go, process, stopping
<1>11. ASSUME NEW s \in Starts, Deadline(s) PROVE Calls'
  BY <1>11 DEF Deadline, Go, process, stopping
<1>12. ASSUME NEW s \in Starts, Kill(s) PROVE Calls'
  BY <1>12 DEF Kill, Go, process, stopping
<1>13. ASSUME NEW s \in Starts, KillRefused(s) PROVE Calls'
  BY <1>13 DEF KillRefused, Go, process, stopping, Refuses
<1>14. ASSUME NEW s \in Starts, Reap(s) PROVE Calls'
  BY <1>14 DEF Reap, Go, process, stopping
<1>15. ASSUME NEW s \in Starts, CleanUp(s) PROVE Calls'
  BY <1>15 DEF CleanUp, Go, process, stopping
<1>16. ASSUME NEW s \in Starts, CleanUpFails(s) PROVE Calls'
  BY <1>16 DEF CleanUpFails, Go, process, stopping, Refuses
<1>17. ASSUME NEW s \in Starts, Binds(s) PROVE Calls'
  BY <1>17 DEF Binds, process, stopping
<1>18. ASSUME NEW s \in Starts, Exits(s) PROVE Calls'
  BY <1>18 DEF Exits, process, stopping
<1>19. ASSUME NEW p \in OtherPorts, OtherTakes(p) PROVE Calls'
  BY <1>19 DEF OtherTakes, process, stopping
<1>20. ASSUME NEW p \in OtherPorts, OtherLeaves(p) PROVE Calls'
  BY <1>20 DEF OtherLeaves, process, stopping
<1>21. ASSUME NEW g \in Callers, NEW s \in Starts, Stop(g, s) PROVE Calls'
  BY <1>21 DEF Stop, Move, process, stopping
<1>22. ASSUME NEW g \in Callers, StopKill(g) PROVE Calls'
  BY <1>22 DEF StopKill, Move, process, stopping
<1>23. ASSUME NEW g \in Callers, StopGone(g) PROVE Calls'
  BY <1>23 DEF StopGone, Move, process, stopping
<1>24. ASSUME NEW g \in Callers, StopRefused(g) PROVE Calls'
  BY <1>24 DEF StopRefused, Move, process, stopping, Refuses
<1>25. ASSUME NEW g \in Callers, StopReap(g) PROVE Calls'
  BY <1>25 DEF StopReap, Move, process, stopping
<1>26. ASSUME NEW g \in Callers, StopCleans(g) PROVE Calls'
  BY <1>26 DEF StopCleans, Move, process, stopping
<1>27. ASSUME NEW g \in Callers, StopCleanFails(g) PROVE Calls'
  BY <1>27 DEF StopCleanFails, Move, process, stopping, Refuses
<1>28. ASSUME NEW g \in Callers, Checking(g) PROVE Calls'
  BY <1>28, CheckingMoves DEF Checking, unstopped, process
<1>29. QED
  BY <1>1, <1>2, <1>3, <1>4, <1>5, <1>6, <1>7, <1>8, <1>9, <1>10, <1>11, <1>12, <1>13, <1>14, <1>15, <1>16, <1>17, <1>18, <1>19, <1>20, <1>21, <1>22, <1>23, <1>24, <1>25, <1>26, <1>27, <1>28,
     Moves DEF IInv, Proceed, StartStep, StopStep, Environment, dvars, process, stopping

(* The calls that are about to clean up are the same after a step of a     *)
(* CheckTorDaemon.                                                         *)
LEMMA StopsChecking ==
  ASSUME Typed, Calls, Stops, NEW g \in Callers, Checking(g)
  PROVE  Stops'
<1>1. /\ child' = child /\ dirs' = dirs /\ stopped' = stopped /\ refused' = refused
      /\ \A h \in Callers : place'[h] = "clean" => place[h] = "clean" /\ on'[h] = on[h]
  BY CheckingMoves
<1>2. QED BY <1>1 DEF Stops, StoppedLeavesNothing

(* Stops is preserved by every step.                                       *)
LEMMA StopsStep ==
  ASSUME IInv, [TNext]_tvars
  PROVE  Stops'
<1> USE DEF IInv, Typed, Calls, Lives, Stops, StoppedLeavesNothing, Running, process
<1>1. ASSUME UNCHANGED <<place, on, child, dirs, stopped, refused>> PROVE Stops'
  BY <1>1
<1>2. ASSUME NEW s \in Starts, BeginFails(s) PROVE Stops'
  BY <1>2 DEF BeginFails, Go, process, stopping
<1>3. ASSUME NEW s \in Starts, NEW o \in Options, s \in Tests => o = TestOptions, Begin(s, o) PROVE Stops'
  BY <1>3 DEF Begin, Go, Unresolved, process, stopping
<1>4. ASSUME NEW s \in Starts, NEW r \in Roles, Listen(s, r) PROVE Stops'
  BY <1>4 DEF Listen, Go, Held, Roles, process, stopping
<1>5. ASSUME NEW s \in Starts, NEW r \in Roles, Unlisten(s, r) PROVE Stops'
  BY <1>5 DEF Unlisten, Go, Held, Roles, Unresolved, process, stopping
<1>6. ASSUME NEW s \in Starts, Abort(s) PROVE Stops'
  BY <1>6 DEF Abort, Go, process, stopping
<1>7. ASSUME NEW s \in Starts, Launch(s) PROVE Stops'
  BY <1>7 DEF Launch, Go, process, stopping
<1>8. ASSUME NEW s \in Starts, SocksAnswers(s) PROVE Stops'
  BY <1>8 DEF SocksAnswers, Go, process, stopping
<1>9. ASSUME NEW s \in Starts, ControlAnswers(s) PROVE Stops'
  BY <1>9 DEF ControlAnswers, Go, process, stopping
<1>10. ASSUME NEW s \in Starts, ControlSilent(s) PROVE Stops'
  BY <1>10 DEF ControlSilent, Go, process, stopping
<1>11. ASSUME NEW s \in Starts, Deadline(s) PROVE Stops'
  BY <1>11 DEF Deadline, Go, process, stopping
<1>12. ASSUME NEW s \in Starts, Kill(s) PROVE Stops'
  BY <1>12 DEF Kill, Go, process, stopping
<1>13. ASSUME NEW s \in Starts, KillRefused(s) PROVE Stops'
  BY <1>13 DEF KillRefused, Go, process, stopping, Refuses
<1>14. ASSUME NEW s \in Starts, Reap(s) PROVE Stops'
  BY <1>14 DEF Reap, Go, process, stopping
<1>15. ASSUME NEW s \in Starts, CleanUp(s) PROVE Stops'
  BY <1>15 DEF CleanUp, Go, process, stopping
<1>16. ASSUME NEW s \in Starts, CleanUpFails(s) PROVE Stops'
  BY <1>16 DEF CleanUpFails, Go, process, stopping, Refuses
<1>17. ASSUME NEW s \in Starts, Binds(s) PROVE Stops'
  BY <1>17 DEF Binds, process, stopping
<1>18. ASSUME NEW s \in Starts, Exits(s) PROVE Stops'
  BY <1>18 DEF Exits, process, stopping
<1>19. ASSUME NEW p \in OtherPorts, OtherTakes(p) PROVE Stops'
  BY <1>19 DEF OtherTakes, process, stopping
<1>20. ASSUME NEW p \in OtherPorts, OtherLeaves(p) PROVE Stops'
  BY <1>20 DEF OtherLeaves, process, stopping
<1>21. ASSUME NEW g \in Callers, NEW s \in Starts, Stop(g, s) PROVE Stops'
  BY <1>21 DEF Stop, Move, process, stopping
<1>22. ASSUME NEW g \in Callers, StopKill(g) PROVE Stops'
  BY <1>22 DEF StopKill, Move, process, stopping
<1>23. ASSUME NEW g \in Callers, StopGone(g) PROVE Stops'
  BY <1>23 DEF StopGone, Move, process, stopping
<1>24. ASSUME NEW g \in Callers, StopRefused(g) PROVE Stops'
  BY <1>24 DEF StopRefused, Move, process, stopping, Refuses
<1>25. ASSUME NEW g \in Callers, StopReap(g) PROVE Stops'
  BY <1>25 DEF StopReap, Move, process, stopping
<1>26. ASSUME NEW g \in Callers, StopCleans(g) PROVE Stops'
  <2>1. on[g] \in Starts /\ pc[on[g]] = "up" /\ UNCHANGED <<child, refused>>
    BY <1>26 DEF StopCleans, Move
  <2>2. on[g] \notin refused => child[on[g]] = "reaped" /\ on[g] \notin dirs'
    BY <2>1, <1>26 DEF StopCleans, Move
  <2>3. stopped' = stopped \cup {on[g]} /\ dirs' \subseteq dirs
    BY <1>26 DEF StopCleans
  <2>4. place' = [place EXCEPT ![g] = "idle"] /\ \A h \in Callers : h # g => on'[h] = on[h]
    BY <1>26 DEF StopCleans, Move
  <2>5. QED
    BY <2>1, <2>2, <2>3, <2>4
<1>27. ASSUME NEW g \in Callers, StopCleanFails(g) PROVE Stops'
  BY <1>27 DEF StopCleanFails, Move, process, stopping, Refuses
<1>28. ASSUME NEW g \in Callers, Checking(g) PROVE Stops'
  BY <1>28, StopsChecking
<1>29. QED
  BY <1>1, <1>2, <1>3, <1>4, <1>5, <1>6, <1>7, <1>8, <1>9, <1>10, <1>11, <1>12, <1>13, <1>14, <1>15, <1>16, <1>17, <1>18, <1>19, <1>20, <1>21, <1>22, <1>23, <1>24, <1>25, <1>26, <1>27, <1>28,
     Moves DEF IInv, Proceed, StartStep, StopStep, Environment, dvars, process, stopping

(* The steps of a start that does not listen. *)
LEMMA HoldingFrame ==
  ASSUME Typed, Resolved, Holding, NEW s \in Starts, s \notin Holders',
         \A u \in Starts : u # s => pc'[u] = pc[u] /\ addr'[u] = addr[u],
         \A p \in Ports : owner[p] = Probe => owner'[p] = Probe \/ (s \in Holders /\ p = HeldPort(s))
  PROVE  Holding'
<1>1. ASSUME NEW u \in Holders' PROVE u \in Holders /\ u # s /\ HeldPort(u)' = HeldPort(u) /\ HeldPort(u) \in Ports
  BY <1>1 DEF Holders, HeldPort, Resolved
<1>2. QED BY <1>1 DEF Holding

(* Holding is preserved by every step.                                     *)
LEMMA HoldingStep ==
  ASSUME IInv, [TNext]_tvars
  PROVE  Holding'
<1> USE DaemonAssumption
<1>1. ASSUME UNCHANGED <<pc, addr, owner>> PROVE Holding'
  BY <1>1 DEF IInv, Holding, Holders, HeldPort
<1>2. ASSUME NEW s \in Starts, BeginFails(s) PROVE Holding'
  <2>1. Typed /\ Resolved /\ Holding
    BY DEF IInv
  <2>2. s \notin Holders'
    BY <2>1, <1>2 DEF Holders, Typed, BeginFails, Go, process, stopping
  <2>3. QED
    BY <2>1, <2>2, <1>2, HoldingFrame DEF Typed, BeginFails, Go, process, stopping
<1>3. ASSUME NEW s \in Starts, NEW o \in Options, s \in Tests => o = TestOptions, Begin(s, o) PROVE Holding'
  <2>1. Typed /\ Resolved /\ Holding
    BY DEF IInv
  <2>2. s \notin Holders'
    BY <2>1, <1>3 DEF Holders, Typed, Begin, Go, Unresolved, process, stopping
  <2>3. QED
    BY <2>1, <2>2, <1>3, HoldingFrame DEF Typed, Begin, Go, Unresolved, process, stopping
<1>4. ASSUME NEW s \in Starts, NEW r \in Roles, Listen(s, r) PROVE Holding'
  <2>1. Typed /\ Resolved /\ Holding
    BY DEF IInv
  <2>2. PICK p \in Ports : /\ owner[p] = Nobody /\ owner' = [owner EXCEPT ![p] = Probe]
                          /\ addr' = [addr EXCEPT ![s][r] = p]
    BY <1>4 DEF Listen, Free
  <2>3. pc[s] = r /\ pc' = [pc EXCEPT ![s] = Held[r]]
    BY <1>4 DEF Listen, Go
  <2>4. Holders' = Holders \cup {s} /\ s \notin Holders
    <3>1. pc[s] \notin {"socks held", "control held"}
      BY <2>3, HeldValues
    <3>2. pc'[s] \in {"socks held", "control held"} /\ \A u \in Starts : u # s => pc'[u] = pc[u]
      BY <2>1, <2>3, HeldValues DEF Typed
    <3>3. QED BY <3>1, <3>2 DEF Holders
  <2>5. HeldPort(s)' = p
    <3>1. pc'[s] = Held[r] /\ addr'[s][r] = p
      BY <2>1, <2>2, <2>3 DEF Typed
    <3>2. CASE r = "socks"
      BY <3>1, <3>2, HeldValues DEF HeldPort
    <3>3. CASE r = "control"
      BY <3>1, <3>3, HeldValues DEF HeldPort
    <3>4. QED BY <3>2, <3>3, HeldValues
  <2>6. ASSUME NEW u \in Holders PROVE u # s /\ HeldPort(u)' = HeldPort(u) /\ HeldPort(u) \in Ports
    <3>1. u # s /\ pc'[u] = pc[u] /\ addr'[u] = addr[u]
      BY <2>1, <2>2, <2>3, <2>4 DEF Holders, Typed
    <3>2. QED BY <3>1, <2>1 DEF HeldPort, Holders, Resolved
  <2>7. ASSUME NEW u \in Holders PROVE HeldPort(u)' # p /\ owner'[HeldPort(u)'] = Probe
    <3>1. owner[HeldPort(u)] = Probe /\ HeldPort(u)' = HeldPort(u) /\ HeldPort(u) \in Ports
      BY <2>1, <2>6, <2>7 DEF Holding
    <3>2. QED BY <2>1, <2>2, <3>1 DEF Typed
  <2>8. owner'[p] = Probe
    BY <2>1, <2>2 DEF Typed
  <2>9. \A u, w \in Holders : HeldPort(u)' = HeldPort(w)' => u = w
    BY <2>1, <2>6 DEF Holding
  <2>10. QED
    BY <2>4, <2>5, <2>7, <2>8, <2>9 DEF Holding
<1>5. ASSUME NEW s \in Starts, NEW r \in Roles, Unlisten(s, r) PROVE Holding'
  <2>1. Typed /\ Resolved /\ Holding
    BY DEF IInv
  <2>2. s \notin Holders'
    BY <2>1, <1>5 DEF Holders, Typed, Unlisten, Go, Held, Roles, Unresolved, process, stopping
  <2>3. QED
    BY <2>1, <2>2, <1>5, HoldingFrame DEF Typed, Unlisten, Go, Held, Roles, Unresolved, process, stopping, Holders, HeldPort
<1>6. ASSUME NEW s \in Starts, Abort(s) PROVE Holding'
  <2>1. Typed /\ Resolved /\ Holding
    BY DEF IInv
  <2>2. s \notin Holders'
    BY <2>1, <1>6 DEF Holders, Typed, Abort, Go, process, stopping
  <2>3. QED
    BY <2>1, <2>2, <1>6, HoldingFrame DEF Typed, Abort, Go, process, stopping
<1>7. ASSUME NEW s \in Starts, Launch(s) PROVE Holding'
  <2>1. Typed /\ Resolved /\ Holding
    BY DEF IInv
  <2>2. s \notin Holders'
    BY <2>1, <1>7 DEF Holders, Typed, Launch, Go, process, stopping
  <2>3. QED
    BY <2>1, <2>2, <1>7, HoldingFrame DEF Typed, Launch, Go, process, stopping
<1>8. ASSUME NEW s \in Starts, SocksAnswers(s) PROVE Holding'
  <2>1. Typed /\ Resolved /\ Holding
    BY DEF IInv
  <2>2. s \notin Holders'
    BY <2>1, <1>8 DEF Holders, Typed, SocksAnswers, Go, process, stopping
  <2>3. QED
    BY <2>1, <2>2, <1>8, HoldingFrame DEF Typed, SocksAnswers, Go, process, stopping
<1>9. ASSUME NEW s \in Starts, ControlAnswers(s) PROVE Holding'
  <2>1. Typed /\ Resolved /\ Holding
    BY DEF IInv
  <2>2. s \notin Holders'
    BY <2>1, <1>9 DEF Holders, Typed, ControlAnswers, Go, process, stopping
  <2>3. QED
    BY <2>1, <2>2, <1>9, HoldingFrame DEF Typed, ControlAnswers, Go, process, stopping
<1>10. ASSUME NEW s \in Starts, ControlSilent(s) PROVE Holding'
  <2>1. Typed /\ Resolved /\ Holding
    BY DEF IInv
  <2>2. s \notin Holders'
    BY <2>1, <1>10 DEF Holders, Typed, ControlSilent, Go, process, stopping
  <2>3. QED
    BY <2>1, <2>2, <1>10, HoldingFrame DEF Typed, ControlSilent, Go, process, stopping
<1>11. ASSUME NEW s \in Starts, Deadline(s) PROVE Holding'
  <2>1. Typed /\ Resolved /\ Holding
    BY DEF IInv
  <2>2. s \notin Holders'
    BY <2>1, <1>11 DEF Holders, Typed, Deadline, Go, process, stopping
  <2>3. QED
    BY <2>1, <2>2, <1>11, HoldingFrame DEF Typed, Deadline, Go, process, stopping
<1>12. ASSUME NEW s \in Starts, Kill(s) PROVE Holding'
  <2>1. Typed /\ Resolved /\ Holding
    BY DEF IInv
  <2>2. s \notin Holders'
    BY <2>1, <1>12 DEF Holders, Typed, Kill, Go, process, stopping
  <2>3. QED
    BY <2>1, <2>2, <1>12, HoldingFrame DEF Typed, Kill, Go, process, stopping
<1>13. ASSUME NEW s \in Starts, KillRefused(s) PROVE Holding'
  <2>1. Typed /\ Resolved /\ Holding
    BY DEF IInv
  <2>2. s \notin Holders'
    BY <2>1, <1>13 DEF Holders, Typed, KillRefused, Go, process, stopping, Refuses
  <2>3. QED
    BY <2>1, <2>2, <1>13, HoldingFrame DEF Typed, KillRefused, Go, process, stopping, Refuses
<1>14. ASSUME NEW s \in Starts, Reap(s) PROVE Holding'
  <2>1. Typed /\ Resolved /\ Holding
    BY DEF IInv
  <2>2. s \notin Holders'
    BY <2>1, <1>14 DEF Holders, Typed, Reap, Go, process, stopping
  <2>3. QED
    BY <2>1, <2>2, <1>14, HoldingFrame DEF Typed, Reap, Go, process, stopping
<1>15. ASSUME NEW s \in Starts, CleanUp(s) PROVE Holding'
  <2>1. Typed /\ Resolved /\ Holding
    BY DEF IInv
  <2>2. s \notin Holders'
    BY <2>1, <1>15 DEF Holders, Typed, CleanUp, Go, process, stopping
  <2>3. QED
    BY <2>1, <2>2, <1>15, HoldingFrame DEF Typed, CleanUp, Go, process, stopping
<1>16. ASSUME NEW s \in Starts, CleanUpFails(s) PROVE Holding'
  <2>1. Typed /\ Resolved /\ Holding
    BY DEF IInv
  <2>2. s \notin Holders'
    BY <2>1, <1>16 DEF Holders, Typed, CleanUpFails, Go, process, stopping, Refuses
  <2>3. QED
    BY <2>1, <2>2, <1>16, HoldingFrame DEF Typed, CleanUpFails, Go, process, stopping, Refuses
<1>17. ASSUME NEW s \in Starts, Binds(s) PROVE Holding'
  <2>1. \A u \in Holders : HeldPort(u) \in Ports
    BY DEF IInv, Resolved, Holders, HeldPort
  <2>2. Holders' = Holders /\ \A u \in Holders : HeldPort(u)' = HeldPort(u)
    BY <1>17 DEF Holders, HeldPort, Binds, process, stopping
  <2>3. \A p \in Ports : owner[p] = Probe => owner'[p] = Probe
    BY <1>17 DEF IInv, Typed, Free, Own, Binds, process, stopping
  <2>4. QED
    BY <2>1, <2>2, <2>3 DEF IInv, Holding
<1>18. ASSUME NEW s \in Starts, Exits(s) PROVE Holding'
  <2>1. \A u \in Holders : HeldPort(u) \in Ports
    BY DEF IInv, Resolved, Holders, HeldPort
  <2>2. Holders' = Holders /\ \A u \in Holders : HeldPort(u)' = HeldPort(u)
    BY <1>18 DEF Holders, HeldPort, Exits, process, stopping
  <2>3. \A p \in Ports : owner[p] = Probe => owner'[p] = Probe
    BY <1>18 DEF IInv, Typed, Free, Own, Exits, process, stopping
  <2>4. QED
    BY <2>1, <2>2, <2>3 DEF IInv, Holding
<1>19. ASSUME NEW p \in OtherPorts, OtherTakes(p) PROVE Holding'
  <2>1. \A u \in Holders : HeldPort(u) \in Ports
    BY DEF IInv, Resolved, Holders, HeldPort
  <2>2. Holders' = Holders /\ \A u \in Holders : HeldPort(u)' = HeldPort(u)
    BY <1>19 DEF Holders, HeldPort, OtherTakes, process, stopping
  <2>3. \A q \in Ports : owner[q] = Probe => owner'[q] = Probe
    BY <1>19 DEF IInv, Typed, Free, Own, OtherTakes, process, stopping
  <2>4. QED
    BY <2>1, <2>2, <2>3 DEF IInv, Holding
<1>20. ASSUME NEW p \in OtherPorts, OtherLeaves(p) PROVE Holding'
  <2>1. \A u \in Holders : HeldPort(u) \in Ports
    BY DEF IInv, Resolved, Holders, HeldPort
  <2>2. Holders' = Holders /\ \A u \in Holders : HeldPort(u)' = HeldPort(u)
    BY <1>20 DEF Holders, HeldPort, OtherLeaves, process, stopping
  <2>3. \A q \in Ports : owner[q] = Probe => owner'[q] = Probe
    BY <1>20 DEF IInv, Typed, Free, Own, OtherLeaves, process, stopping
  <2>4. QED
    BY <2>1, <2>2, <2>3 DEF IInv, Holding
<1>21. ASSUME NEW g \in Callers, NEW s \in Starts, Stop(g, s) PROVE Holding'
  BY <1>21, <1>1 DEF Stop, Move, process, stopping
<1>22. ASSUME NEW g \in Callers, StopKill(g) PROVE Holding'
  BY <1>22, <1>1 DEF StopKill, Move, process, stopping
<1>23. ASSUME NEW g \in Callers, StopGone(g) PROVE Holding'
  BY <1>23, <1>1 DEF StopGone, Move, process, stopping
<1>24. ASSUME NEW g \in Callers, StopRefused(g) PROVE Holding'
  BY <1>24, <1>1 DEF StopRefused, Move, process, stopping, Refuses
<1>25. ASSUME NEW g \in Callers, StopReap(g) PROVE Holding'
  BY <1>25, <1>1 DEF StopReap, Move, process, stopping
<1>26. ASSUME NEW g \in Callers, StopCleans(g) PROVE Holding'
  BY <1>26, <1>1 DEF StopCleans, Move, process, stopping
<1>27. ASSUME NEW g \in Callers, StopCleanFails(g) PROVE Holding'
  BY <1>27, <1>1 DEF StopCleanFails, Move, process, stopping, Refuses
<1>28. ASSUME NEW g \in Callers, Checking(g) PROVE Holding'
  BY <1>28, <1>1 DEF Checking, unstopped, process
<1>29. QED
  BY <1>1, <1>2, <1>3, <1>4, <1>5, <1>6, <1>7, <1>8, <1>9, <1>10, <1>11, <1>12, <1>13, <1>14, <1>15, <1>16, <1>17, <1>18, <1>19, <1>20, <1>21, <1>22, <1>23, <1>24, <1>25, <1>26, <1>27, <1>28,
     Moves DEF IInv, Proceed, StartStep, StopStep, Environment, dvars, process, stopping

(* What leaves a tor that serves its ports. *)
LEMMA ServingFrame ==
  ASSUME Serving,
         \A u \in Starts : child'[u] = "serving" =>
            /\ child[u] = "serving" /\ opt'[u] = opt[u] /\ addr'[u] = addr[u]
            /\ \A p \in Ports : owner[p] = u => owner'[p] = u
  PROVE  Serving'
<1>1. ASSUME NEW u \in Starts, child'[u] = "serving" PROVE Own(u)' = Own(u)
  BY <1>1 DEF Own
<1>2. QED BY <1>1 DEF Serving

(* Serving is preserved by every step.                                     *)
LEMMA ServingStep ==
  ASSUME IInv, [TNext]_tvars
  PROVE  Serving'
<1> USE DaemonAssumption
<1>0. Typed /\ Lives /\ Serving
  BY DEF IInv
<1>1. ASSUME UNCHANGED <<opt, addr, child, owner>> PROVE Serving'
  BY <1>1 DEF IInv, Serving, Own
<1>2. ASSUME NEW s \in Starts, BeginFails(s) PROVE Serving'
  BY <1>2, <1>1 DEF BeginFails, Go, process, stopping
<1>3. ASSUME NEW s \in Starts, NEW o \in Options, s \in Tests => o = TestOptions, Begin(s, o) PROVE Serving'
  BY <1>3, <1>0, ServingFrame DEF Typed, Lives, Free, Begin, Go, Unresolved, process, stopping
<1>4. ASSUME NEW s \in Starts, NEW r \in Roles, Listen(s, r) PROVE Serving'
  <2>1. child' = child /\ opt' = opt /\ child[s] = "none"
    BY <1>4, <1>0, HeldValues DEF Lives, Listen, Go
  <2>2. \A u \in Starts : u # s => addr'[u] = addr[u]
    BY <1>4, <1>0 DEF Typed, Listen
  <2>3. \A u \in Starts, p \in Ports : owner[p] = u => owner'[p] = u
    BY <1>4, <1>0 DEF Typed, Free, Listen
  <2>4. QED BY <1>0, <2>1, <2>2, <2>3, ServingFrame
<1>5. ASSUME NEW s \in Starts, NEW r \in Roles, Unlisten(s, r) PROVE Serving'
  <2>1. s \in Holders /\ HeldPort(s) = addr[s][r]
    BY <1>5 DEF Holders, HeldPort, Unlisten, Go, Held, Roles, Unresolved, process, stopping
  <2>2. owner[addr[s][r]] = Probe
    BY <2>1 DEF IInv, Holding
  <2>3. QED
    BY <2>2, <1>5, <1>0, ServingFrame DEF Typed, Lives, Free, Unlisten, Go, Held, Roles, Unresolved, process, stopping
<1>6. ASSUME NEW s \in Starts, Abort(s) PROVE Serving'
  BY <1>6, <1>1 DEF Abort, Go, process, stopping
<1>7. ASSUME NEW s \in Starts, Launch(s) PROVE Serving'
  BY <1>7, <1>0, ServingFrame DEF Typed, Lives, Free, Launch, Go, process, stopping
<1>8. ASSUME NEW s \in Starts, SocksAnswers(s) PROVE Serving'
  BY <1>8, <1>1 DEF SocksAnswers, Go, process, stopping
<1>9. ASSUME NEW s \in Starts, ControlAnswers(s) PROVE Serving'
  BY <1>9, <1>1 DEF ControlAnswers, Go, process, stopping
<1>10. ASSUME NEW s \in Starts, ControlSilent(s) PROVE Serving'
  BY <1>10, <1>1 DEF ControlSilent, Go, process, stopping
<1>11. ASSUME NEW s \in Starts, Deadline(s) PROVE Serving'
  BY <1>11, <1>1 DEF Deadline, Go, process, stopping
<1>12. ASSUME NEW s \in Starts, Kill(s) PROVE Serving'
  BY <1>12, <1>1 DEF Kill, Go, process, stopping
<1>13. ASSUME NEW s \in Starts, KillRefused(s) PROVE Serving'
  BY <1>13, <1>1 DEF KillRefused, Go, process, stopping, Refuses
<1>14. ASSUME NEW s \in Starts, Reap(s) PROVE Serving'
  BY <1>14, <1>0, ServingFrame DEF Typed, Lives, Free, Reap, Go, process, stopping
<1>15. ASSUME NEW s \in Starts, CleanUp(s) PROVE Serving'
  BY <1>15, <1>1 DEF CleanUp, Go, process, stopping
<1>16. ASSUME NEW s \in Starts, CleanUpFails(s) PROVE Serving'
  BY <1>16, <1>1 DEF CleanUpFails, Go, process, stopping, Refuses
<1>17. ASSUME NEW s \in Starts, Binds(s) PROVE Serving'
  <2>1. \A q \in Roles : Own(s)[q] \in Ports
    BY <1>17 DEF IInv, Resolved, Own, Binds, process, stopping
  <2>2. \A u \in Starts : Own(u)' = Own(u)
    BY <1>17 DEF Own, Binds, process, stopping
  <2>3. ASSUME NEW u \in Starts, u # s, child'[u] = "serving", NEW q \in Roles
        PROVE  Own(u)[q] \in Ports /\ owner'[Own(u)[q]] = u
    <3>1. child[u] = "serving"
      BY <2>3, <1>17 DEF IInv, Typed, Binds, process, stopping
    <3>2. Own(u)[q] \in Ports /\ owner[Own(u)[q]] = u
      BY <3>1 DEF IInv, Serving
    <3>3. \A x \in Roles : Own(s)[x] # Own(u)[q]
      BY <3>2, <1>17 DEF Free, Binds, process, stopping
    <3>4. QED BY <3>2, <3>3, <1>17 DEF Binds, process, stopping
  <2>4. \A q \in Roles : owner'[Own(s)[q]] = s
    BY <2>1, <1>17 DEF Binds, process, stopping
  <2>5. QED BY <2>1, <2>2, <2>3, <2>4 DEF Serving
<1>18. ASSUME NEW s \in Starts, Exits(s) PROVE Serving'
  BY <1>18, <1>0, ServingFrame DEF Typed, Lives, Free, Exits, process, stopping
<1>19. ASSUME NEW p \in OtherPorts, OtherTakes(p) PROVE Serving'
  BY <1>19, <1>0, ServingFrame DEF Typed, Lives, Free, OtherTakes, process, stopping
<1>20. ASSUME NEW p \in OtherPorts, OtherLeaves(p) PROVE Serving'
  BY <1>20, <1>0, ServingFrame DEF Typed, Lives, Free, OtherLeaves, process, stopping
<1>21. ASSUME NEW g \in Callers, NEW s \in Starts, Stop(g, s) PROVE Serving'
  BY <1>21, <1>1 DEF Stop, Move, process, stopping
<1>22. ASSUME NEW g \in Callers, StopKill(g) PROVE Serving'
  BY <1>22, <1>1 DEF StopKill, Move, process, stopping
<1>23. ASSUME NEW g \in Callers, StopGone(g) PROVE Serving'
  BY <1>23, <1>1 DEF StopGone, Move, process, stopping
<1>24. ASSUME NEW g \in Callers, StopRefused(g) PROVE Serving'
  BY <1>24, <1>1 DEF StopRefused, Move, process, stopping, Refuses
<1>25. ASSUME NEW g \in Callers, StopReap(g) PROVE Serving'
  BY <1>25, <1>0, ServingFrame DEF Typed, Lives, Free, StopReap, Move, process, stopping
<1>26. ASSUME NEW g \in Callers, StopCleans(g) PROVE Serving'
  BY <1>26, <1>1 DEF StopCleans, Move, process, stopping
<1>27. ASSUME NEW g \in Callers, StopCleanFails(g) PROVE Serving'
  BY <1>27, <1>1 DEF StopCleanFails, Move, process, stopping, Refuses
<1>28. ASSUME NEW g \in Callers, Checking(g) PROVE Serving'
  BY <1>28, <1>1 DEF Checking, unstopped, process
<1>29. QED
  BY <1>1, <1>2, <1>3, <1>4, <1>5, <1>6, <1>7, <1>8, <1>9, <1>10, <1>11, <1>12, <1>13, <1>14, <1>15, <1>16, <1>17, <1>18, <1>19, <1>20, <1>21, <1>22, <1>23, <1>24, <1>25, <1>26, <1>27, <1>28,
     Moves DEF IInv, Proceed, StartStep, StopStep, Environment, dvars, process, stopping

(* What a step that resolves no address has to say of them. *)
LEMMA ResolvedFrame ==
  ASSUME Resolved, opt' = opt, addr' = addr,
         \A s \in Starts :
           /\ pc'[s] \notin {"idle", "failed"} \/ child'[s] # "none"
                => pc[s] \notin {"idle", "failed"} \/ child[s] # "none"
           /\ pc'[s] \in {"socks held", "control", "control held"} => pc[s] = pc'[s]
           /\ pc'[s] = "exec" \/ child'[s] # "none" => pc[s] = "exec" \/ child[s] # "none"
  PROVE  Resolved'
BY DEF Resolved

(* Resolved is preserved by every step.                                    *)
LEMMA ResolvedStep ==
  ASSUME IInv, [TNext]_tvars
  PROVE  Resolved'
<1> USE DaemonAssumption
<1>0. Typed /\ Resolved
  BY DEF IInv
<1>1. ASSUME UNCHANGED <<pc, opt, addr, child>> PROVE Resolved'
  BY <1>1 DEF IInv, Typed, Calls, Lives, Resolved, Roles, Running
<1>2. ASSUME NEW s \in Starts, BeginFails(s) PROVE Resolved'
  BY <1>2 DEF BeginFails, Go, process, stopping, IInv, Typed, Calls, Lives, Resolved, Roles, Running
<1>3. ASSUME NEW s \in Starts, NEW o \in Options, s \in Tests => o = TestOptions, Begin(s, o) PROVE Resolved'
  <2>1. PICK n : n = Normal(o)
    OBVIOUS
  <2>2. n.torrc \in [Roles -> Ports] \cup {Unset} /\ n.ports \in [Roles -> Ports \cup {Zero}]
    BY <2>1, NormalTyped
  <2>3. QED
    BY <2>1, <2>2, <1>3 DEF IInv, Typed, Lives, Resolved, Roles, Begin, Go, Unresolved, process, stopping
<1>4. ASSUME NEW s \in Starts, NEW r \in Roles, Listen(s, r) PROVE Resolved'
  <2>1. PICK p \in Ports : addr' = [addr EXCEPT ![s][r] = p]
    BY <1>4 DEF Listen
  <2>2. pc[s] = r /\ pc' = [pc EXCEPT ![s] = Held[r]] /\ UNCHANGED <<child, opt>>
    BY <1>4 DEF Listen, Go
  <2>3. r \in {"socks", "control"} /\ child[s] = "none"
    BY <2>2, HeldValues DEF IInv, Lives
  <2>4. \A u \in Starts : u # s => pc'[u] = pc[u] /\ addr'[u] = addr[u]
    BY <2>1, <2>2 DEF IInv, Typed
  <2>5. pc'[s] = Held[r] /\ addr'[s] = [addr[s] EXCEPT ![r] = p]
    BY <2>1, <2>2 DEF IInv, Typed
  <2>6. addr'[s][r] = p /\ (r = "control" => addr'[s]["socks"] = addr[s]["socks"])
    <3>1. addr[s] \in [Roles -> Ports \cup {Zero}]
      BY DEF IInv, Typed
    <3>2. QED BY <2>5, <3>1, HeldValues
  <2>7. QED
    BY <2>2, <2>3, <2>4, <2>5, <2>6, HeldValues DEF IInv, Resolved
<1>5. ASSUME NEW s \in Starts, NEW r \in Roles, Unlisten(s, r) PROVE Resolved'
  <2>1. pc[s] = Held[r] /\ pc' = [pc EXCEPT ![s] = Unresolved(addr[s])] /\ addr' = addr
    BY <1>5 DEF Unlisten, Go
  <2>2. pc[s] \in {"socks held", "control held"} /\ child[s] = "none" /\ UNCHANGED <<child, opt>>
    BY <2>1, <1>5, HeldValues DEF Unlisten, IInv, Lives
  <2>3. Unresolved(addr[s]) \in {"control", "exec"} /\ addr[s]["socks"] \in Ports
    BY <2>2 DEF IInv, Typed, Resolved, Unresolved, Roles
  <2>4. ASSUME Unresolved(addr[s]) = "exec" PROVE addr[s] \in [Roles -> Ports]
    <3>1. addr[s]["control"] # Zero /\ addr[s] \in [Roles -> Ports \cup {Zero}]
      BY <2>4 DEF IInv, Typed, Unresolved
    <3>2. \A q \in Roles : addr[s][q] \in Ports
      BY <2>3, <3>1, HeldValues
    <3>3. QED BY <3>1, <3>2
  <2>5. QED
    BY <2>1, <2>2, <2>3, <2>4 DEF IInv, Typed, Resolved
<1>6. ASSUME NEW s \in Starts, Abort(s) PROVE Resolved'
  BY <1>6 DEF IInv, Typed, Lives, Resolved, Abort, Go
<1>7. ASSUME NEW s \in Starts, Launch(s) PROVE Resolved'
  BY <1>7, <1>0, ResolvedFrame DEF Launch, Go, process, stopping, Typed, Running
<1>8. ASSUME NEW s \in Starts, SocksAnswers(s) PROVE Resolved'
  BY <1>8, <1>0, ResolvedFrame DEF SocksAnswers, Go, process, stopping, Typed, Running
<1>9. ASSUME NEW s \in Starts, ControlAnswers(s) PROVE Resolved'
  BY <1>9, <1>0, ResolvedFrame DEF ControlAnswers, Go, process, stopping, Typed, Running
<1>10. ASSUME NEW s \in Starts, ControlSilent(s) PROVE Resolved'
  BY <1>10, <1>0, ResolvedFrame DEF ControlSilent, Go, process, stopping, Typed, Running
<1>11. ASSUME NEW s \in Starts, Deadline(s) PROVE Resolved'
  BY <1>11, <1>0, ResolvedFrame DEF Deadline, Go, process, stopping, Typed, Running
<1>12. ASSUME NEW s \in Starts, Kill(s) PROVE Resolved'
  BY <1>12, <1>0, ResolvedFrame DEF Kill, Go, process, stopping, Typed, Running
<1>13. ASSUME NEW s \in Starts, KillRefused(s) PROVE Resolved'
  BY <1>13, <1>0, ResolvedFrame DEF KillRefused, Go, process, stopping, Refuses, Typed, Running
<1>14. ASSUME NEW s \in Starts, Reap(s) PROVE Resolved'
  BY <1>14, <1>0, ResolvedFrame DEF Reap, Go, process, stopping, Typed, Running
<1>15. ASSUME NEW s \in Starts, CleanUp(s) PROVE Resolved'
  BY <1>15, <1>0, ResolvedFrame DEF CleanUp, Go, process, stopping, Typed, Running
<1>16. ASSUME NEW s \in Starts, CleanUpFails(s) PROVE Resolved'
  BY <1>16, <1>0, ResolvedFrame DEF CleanUpFails, Go, process, stopping, Refuses, Typed, Running
<1>17. ASSUME NEW s \in Starts, Binds(s) PROVE Resolved'
  BY <1>17, <1>0, ResolvedFrame DEF Binds, process, stopping, Typed, Running
<1>18. ASSUME NEW s \in Starts, Exits(s) PROVE Resolved'
  BY <1>18, <1>0, ResolvedFrame DEF Exits, process, stopping, Typed, Running
<1>19. ASSUME NEW p \in OtherPorts, OtherTakes(p) PROVE Resolved'
  BY <1>19, <1>1 DEF OtherTakes, process, stopping
<1>20. ASSUME NEW p \in OtherPorts, OtherLeaves(p) PROVE Resolved'
  BY <1>20, <1>1 DEF OtherLeaves, process, stopping
<1>21. ASSUME NEW g \in Callers, NEW s \in Starts, Stop(g, s) PROVE Resolved'
  BY <1>21, <1>1 DEF Stop, Move, process, stopping
<1>22. ASSUME NEW g \in Callers, StopKill(g) PROVE Resolved'
  BY <1>22, <1>1 DEF StopKill, Move, process, stopping
<1>23. ASSUME NEW g \in Callers, StopGone(g) PROVE Resolved'
  BY <1>23, <1>1 DEF StopGone, Move, process, stopping
<1>24. ASSUME NEW g \in Callers, StopRefused(g) PROVE Resolved'
  BY <1>24, <1>1 DEF StopRefused, Move, process, stopping, Refuses
<1>25. ASSUME NEW g \in Callers, StopReap(g) PROVE Resolved'
  BY <1>25, <1>0, ResolvedFrame DEF StopReap, Move, process, stopping, Typed, Running
<1>26. ASSUME NEW g \in Callers, StopCleans(g) PROVE Resolved'
  BY <1>26, <1>1 DEF StopCleans, Move, process, stopping
<1>27. ASSUME NEW g \in Callers, StopCleanFails(g) PROVE Resolved'
  BY <1>27, <1>1 DEF StopCleanFails, Move, process, stopping, Refuses
<1>28. ASSUME NEW g \in Callers, Checking(g) PROVE Resolved'
  BY <1>28, <1>1 DEF Checking, unstopped, process
<1>29. QED
  BY <1>1, <1>2, <1>3, <1>4, <1>5, <1>6, <1>7, <1>8, <1>9, <1>10, <1>11, <1>12, <1>13, <1>14, <1>15, <1>16, <1>17, <1>18, <1>19, <1>20, <1>21, <1>22, <1>23, <1>24, <1>25, <1>26, <1>27, <1>28,
     Moves DEF IInv, Proceed, StartStep, StopStep, Environment, dvars, process, stopping

(* Fixes is preserved by every step.                                       *)
LEMMA FixesStep ==
  ASSUME IInv, [TNext]_tvars
  PROVE  Fixes'
<1> USE TestServerAssumption
<1>1. ASSUME UNCHANGED <<pc, opt, addr, child>> PROVE Fixes'
  BY <1>1 DEF IInv, Typed, Calls, Lives, Fixes, Running
<1>2. ASSUME NEW s \in Starts, BeginFails(s) PROVE Fixes'
  BY <1>2 DEF BeginFails, Go, process, stopping, IInv, Typed, Calls, Lives, Fixes, Running
<1>3. ASSUME NEW s \in Starts, NEW o \in Options, s \in Tests => o = TestOptions, Begin(s, o) PROVE Fixes'
  <2>1. /\ pc' = [pc EXCEPT ![s] = Unresolved(Normal(o).ports)] /\ child' = child
        /\ opt' = [opt EXCEPT ![s] = Normal(o)] /\ addr' = [addr EXCEPT ![s] = Normal(o).ports]
    BY <1>3 DEF Begin, Go
  <2>2. ASSUME s \in Tests PROVE o = TestOptions /\ Normal(o).ports = TestOptions.torrc
    <3>1. o = TestOptions
      BY <2>2, <1>3
    <3>2. \A r \in Roles : Default(o.ports[r], Zero) = o.ports[r]
      BY <3>1, DaemonAssumption DEF Default
    <3>3. QED BY <3>1, <3>2, NormalTyped
  <2>3. ASSUME s \in Tests PROVE Unresolved(Normal(o).ports) = "exec"
    BY <2>2, <2>3, DaemonAssumption, HeldValues DEF Unresolved
  <2>4. QED
    BY <2>1, <2>2, <2>3 DEF IInv, Typed, Fixes
<1>4. ASSUME NEW s \in Starts, NEW r \in Roles, Listen(s, r) PROVE Fixes'
  BY <1>4 DEF Listen, Go, Held, Roles, process, stopping, IInv, Typed, Calls, Lives, Fixes, Running
<1>5. ASSUME NEW s \in Starts, NEW r \in Roles, Unlisten(s, r) PROVE Fixes'
  BY <1>5 DEF Unlisten, Go, Held, Roles, Unresolved, process, stopping, IInv, Typed, Calls, Lives, Fixes, Running
<1>6. ASSUME NEW s \in Starts, Abort(s) PROVE Fixes'
  BY <1>6 DEF Abort, Go, process, stopping, IInv, Typed, Calls, Lives, Fixes, Running
<1>7. ASSUME NEW s \in Starts, Launch(s) PROVE Fixes'
  BY <1>7 DEF Launch, Go, process, stopping, IInv, Typed, Calls, Lives, Fixes, Running
<1>8. ASSUME NEW s \in Starts, SocksAnswers(s) PROVE Fixes'
  BY <1>8 DEF SocksAnswers, Go, process, stopping, IInv, Typed, Calls, Lives, Fixes, Running
<1>9. ASSUME NEW s \in Starts, ControlAnswers(s) PROVE Fixes'
  BY <1>9 DEF ControlAnswers, Go, process, stopping, IInv, Typed, Calls, Lives, Fixes, Running
<1>10. ASSUME NEW s \in Starts, ControlSilent(s) PROVE Fixes'
  BY <1>10 DEF ControlSilent, Go, process, stopping, IInv, Typed, Calls, Lives, Fixes, Running
<1>11. ASSUME NEW s \in Starts, Deadline(s) PROVE Fixes'
  BY <1>11 DEF Deadline, Go, process, stopping, IInv, Typed, Calls, Lives, Fixes, Running
<1>12. ASSUME NEW s \in Starts, Kill(s) PROVE Fixes'
  BY <1>12 DEF Kill, Go, process, stopping, IInv, Typed, Calls, Lives, Fixes, Running
<1>13. ASSUME NEW s \in Starts, KillRefused(s) PROVE Fixes'
  BY <1>13 DEF KillRefused, Go, process, stopping, Refuses, IInv, Typed, Calls, Lives, Fixes, Running
<1>14. ASSUME NEW s \in Starts, Reap(s) PROVE Fixes'
  BY <1>14 DEF Reap, Go, process, stopping, IInv, Typed, Calls, Lives, Fixes, Running
<1>15. ASSUME NEW s \in Starts, CleanUp(s) PROVE Fixes'
  BY <1>15 DEF CleanUp, Go, process, stopping, IInv, Typed, Calls, Lives, Fixes, Running
<1>16. ASSUME NEW s \in Starts, CleanUpFails(s) PROVE Fixes'
  BY <1>16 DEF CleanUpFails, Go, process, stopping, Refuses, IInv, Typed, Calls, Lives, Fixes, Running
<1>17. ASSUME NEW s \in Starts, Binds(s) PROVE Fixes'
  BY <1>17 DEF Binds, process, stopping, IInv, Typed, Calls, Lives, Fixes, Running
<1>18. ASSUME NEW s \in Starts, Exits(s) PROVE Fixes'
  BY <1>18 DEF Exits, process, stopping, IInv, Typed, Calls, Lives, Fixes, Running
<1>19. ASSUME NEW p \in OtherPorts, OtherTakes(p) PROVE Fixes'
  BY <1>19, <1>1 DEF OtherTakes, process, stopping
<1>20. ASSUME NEW p \in OtherPorts, OtherLeaves(p) PROVE Fixes'
  BY <1>20, <1>1 DEF OtherLeaves, process, stopping
<1>21. ASSUME NEW g \in Callers, NEW s \in Starts, Stop(g, s) PROVE Fixes'
  BY <1>21, <1>1 DEF Stop, Move, process, stopping
<1>22. ASSUME NEW g \in Callers, StopKill(g) PROVE Fixes'
  BY <1>22, <1>1 DEF StopKill, Move, process, stopping
<1>23. ASSUME NEW g \in Callers, StopGone(g) PROVE Fixes'
  BY <1>23, <1>1 DEF StopGone, Move, process, stopping
<1>24. ASSUME NEW g \in Callers, StopRefused(g) PROVE Fixes'
  BY <1>24, <1>1 DEF StopRefused, Move, process, stopping, Refuses
<1>25. ASSUME NEW g \in Callers, StopReap(g) PROVE Fixes'
  BY <1>25 DEF StopReap, Move, process, stopping, IInv, Typed, Calls, Lives, Fixes, Running
<1>26. ASSUME NEW g \in Callers, StopCleans(g) PROVE Fixes'
  BY <1>26, <1>1 DEF StopCleans, Move, process, stopping
<1>27. ASSUME NEW g \in Callers, StopCleanFails(g) PROVE Fixes'
  BY <1>27, <1>1 DEF StopCleanFails, Move, process, stopping, Refuses
<1>28. ASSUME NEW g \in Callers, Checking(g) PROVE Fixes'
  BY <1>28, <1>1 DEF Checking, unstopped, process
<1>29. QED
  BY <1>1, <1>2, <1>3, <1>4, <1>5, <1>6, <1>7, <1>8, <1>9, <1>10, <1>11, <1>12, <1>13, <1>14, <1>15, <1>16, <1>17, <1>18, <1>19, <1>20, <1>21, <1>22, <1>23, <1>24, <1>25, <1>26, <1>27, <1>28,
     Moves DEF IInv, Proceed, StartStep, StopStep, Environment, dvars, process, stopping

(* What a step may do to a tor, and to a start. *)
ChildMoves ==
  \A s \in Starts :
    /\ child[s] \notin {"none", "starting"} => child'[s] \notin {"none", "starting"}
    /\ child'[s] = "serving" => child[s] \in {"starting", "serving"}
    /\ pc[s] # "idle" => pc'[s] # "idle"

(* A tor is launched once, and serves after it was started.                *)
LEMMA ChildStep ==
  ASSUME IInv, [TNext]_tvars
  PROVE  ChildMoves
<1>1. ASSUME UNCHANGED <<pc, child>> PROVE ChildMoves
  BY <1>1 DEF ChildMoves, IInv, Typed, Calls, Lives, Running
<1>2. ASSUME NEW s \in Starts, BeginFails(s) PROVE ChildMoves
  BY <1>2 DEF IInv, Typed, ChildMoves, BeginFails, Go
<1>3. ASSUME NEW s \in Starts, NEW o \in Options, s \in Tests => o = TestOptions, Begin(s, o) PROVE ChildMoves
  BY <1>3 DEF IInv, Typed, ChildMoves, Begin, Go
<1>4. ASSUME NEW s \in Starts, NEW r \in Roles, Listen(s, r) PROVE ChildMoves
  BY <1>4 DEF Listen, Go, Held, Roles, process, stopping, ChildMoves, IInv, Typed, Calls, Lives, Running
<1>5. ASSUME NEW s \in Starts, NEW r \in Roles, Unlisten(s, r) PROVE ChildMoves
  BY <1>5 DEF Unlisten, Go, Held, Roles, Unresolved, process, stopping, ChildMoves, IInv, Typed, Calls, Lives, Running
<1>6. ASSUME NEW s \in Starts, Abort(s) PROVE ChildMoves
  BY <1>6 DEF Abort, Go, process, stopping, ChildMoves, IInv, Typed, Calls, Lives, Running
<1>7. ASSUME NEW s \in Starts, Launch(s) PROVE ChildMoves
  BY <1>7 DEF Launch, Go, process, stopping, ChildMoves, IInv, Typed, Calls, Lives, Running
<1>8. ASSUME NEW s \in Starts, SocksAnswers(s) PROVE ChildMoves
  BY <1>8 DEF SocksAnswers, Go, process, stopping, ChildMoves, IInv, Typed, Calls, Lives, Running
<1>9. ASSUME NEW s \in Starts, ControlAnswers(s) PROVE ChildMoves
  BY <1>9 DEF ControlAnswers, Go, process, stopping, ChildMoves, IInv, Typed, Calls, Lives, Running
<1>10. ASSUME NEW s \in Starts, ControlSilent(s) PROVE ChildMoves
  BY <1>10 DEF ControlSilent, Go, process, stopping, ChildMoves, IInv, Typed, Calls, Lives, Running
<1>11. ASSUME NEW s \in Starts, Deadline(s) PROVE ChildMoves
  BY <1>11 DEF Deadline, Go, process, stopping, ChildMoves, IInv, Typed, Calls, Lives, Running
<1>12. ASSUME NEW s \in Starts, Kill(s) PROVE ChildMoves
  BY <1>12 DEF Kill, Go, process, stopping, ChildMoves, IInv, Typed, Calls, Lives, Running
<1>13. ASSUME NEW s \in Starts, KillRefused(s) PROVE ChildMoves
  BY <1>13 DEF KillRefused, Go, process, stopping, Refuses, ChildMoves, IInv, Typed, Calls, Lives, Running
<1>14. ASSUME NEW s \in Starts, Reap(s) PROVE ChildMoves
  BY <1>14 DEF Reap, Go, process, stopping, ChildMoves, IInv, Typed, Calls, Lives, Running
<1>15. ASSUME NEW s \in Starts, CleanUp(s) PROVE ChildMoves
  BY <1>15 DEF CleanUp, Go, process, stopping, ChildMoves, IInv, Typed, Calls, Lives, Running
<1>16. ASSUME NEW s \in Starts, CleanUpFails(s) PROVE ChildMoves
  BY <1>16 DEF CleanUpFails, Go, process, stopping, Refuses, ChildMoves, IInv, Typed, Calls, Lives, Running
<1>17. ASSUME NEW s \in Starts, Binds(s) PROVE ChildMoves
  BY <1>17 DEF Binds, process, stopping, ChildMoves, IInv, Typed, Calls, Lives, Running
<1>18. ASSUME NEW s \in Starts, Exits(s) PROVE ChildMoves
  BY <1>18 DEF Exits, process, stopping, ChildMoves, IInv, Typed, Calls, Lives, Running
<1>19. ASSUME NEW p \in OtherPorts, OtherTakes(p) PROVE ChildMoves
  BY <1>19, <1>1 DEF OtherTakes, process, stopping
<1>20. ASSUME NEW p \in OtherPorts, OtherLeaves(p) PROVE ChildMoves
  BY <1>20, <1>1 DEF OtherLeaves, process, stopping
<1>21. ASSUME NEW g \in Callers, NEW s \in Starts, Stop(g, s) PROVE ChildMoves
  BY <1>21, <1>1 DEF Stop, Move, process, stopping
<1>22. ASSUME NEW g \in Callers, StopKill(g) PROVE ChildMoves
  BY <1>22, <1>1 DEF StopKill, Move, process, stopping
<1>23. ASSUME NEW g \in Callers, StopGone(g) PROVE ChildMoves
  BY <1>23, <1>1 DEF StopGone, Move, process, stopping
<1>24. ASSUME NEW g \in Callers, StopRefused(g) PROVE ChildMoves
  BY <1>24, <1>1 DEF StopRefused, Move, process, stopping, Refuses
<1>25. ASSUME NEW g \in Callers, StopReap(g) PROVE ChildMoves
  BY <1>25 DEF StopReap, Move, process, stopping, ChildMoves, IInv, Typed, Calls, Lives, Running
<1>26. ASSUME NEW g \in Callers, StopCleans(g) PROVE ChildMoves
  BY <1>26, <1>1 DEF StopCleans, Move, process, stopping
<1>27. ASSUME NEW g \in Callers, StopCleanFails(g) PROVE ChildMoves
  BY <1>27, <1>1 DEF StopCleanFails, Move, process, stopping, Refuses
<1>28. ASSUME NEW g \in Callers, Checking(g) PROVE ChildMoves
  BY <1>28, <1>1 DEF Checking, unstopped, process
<1>29. QED
  BY <1>1, <1>2, <1>3, <1>4, <1>5, <1>6, <1>7, <1>8, <1>9, <1>10, <1>11, <1>12, <1>13, <1>14, <1>15, <1>16, <1>17, <1>18, <1>19, <1>20, <1>21, <1>22, <1>23, <1>24, <1>25, <1>26, <1>27, <1>28,
     Moves DEF IInv, Proceed, StartStep, StopStep, Environment, dvars, process, stopping

(* What a step is for a test. *)
LEMMA TestMoves ==
  ASSUME Typed, TestTyped, [TNext]_tvars, NEW t \in Tests
  PROVE  \/ /\ phase'[t] = phase[t] /\ auth'[t] = auth[t]
            /\ pc[t] = "idle" => pc'[t] = "idle"
         \/ phase[t] = "idle" /\ pc[t] = "idle" /\ phase'[t] = "daemon"
         \/ phase[t] = "idle" /\ phase'[t] = "port" /\ pc'[t] = pc[t]
         \/ TestStep(t) /\ UNCHANGED dvars
         \/ phase'[t] = "over"
<1> USE TestServerAssumption
<1> DEFINE Same == phase'[t] = phase[t] /\ auth'[t] = auth[t] /\ (pc[t] = "idle" => pc'[t] = "idle")
<1>1. ASSUME UNCHANGED <<phase, auth, pc>> PROVE Same
  BY <1>1
<1>2. ASSUME NEW g \in Callers, CheckAuth(g) \/ CheckInfo(g) \/ CheckFails(g) \/ Checked(g) PROVE Same
  BY <1>2 DEF CheckAuth, CheckInfo, CheckFails, Checked, Return, unstopped, TestTyped
<1>3. ASSUME NEW g \in Callers, NEW s \in Starts, Check(g, s) PROVE Same
  BY <1>3 DEF Check, unstopped
<1>4. ASSUME NEW s \in Starts, WritesCookie(s) \/ Boots(s) PROVE Same
  BY <1>4 DEF WritesCookie, Boots, dvars
<1>5. ASSUME Daemon PROVE Same
  <2>1. ASSUME NEW s \in Starts, StartStep(s) \/ Deadline(s) PROVE pc[t] = "idle" => pc'[t] = "idle"
    <3>1. CASE \E r \in Roles : Listen(s, r) \/ Unlisten(s, r)
      BY <3>1, HeldValues DEF Listen, Unlisten, Go, Typed
    <3>2. CASE Abort(s) \/ Launch(s) \/ SocksAnswers(s) \/ ControlAnswers(s) \/ ControlSilent(s)
      BY <3>2 DEF Abort, Launch, SocksAnswers, ControlAnswers, ControlSilent, Go, Typed
    <3>3. CASE Kill(s) \/ KillRefused(s) \/ Reap(s) \/ CleanUp(s) \/ CleanUpFails(s) \/ Deadline(s)
      BY <3>3 DEF Kill, KillRefused, Reap, CleanUp, CleanUpFails, Deadline, Go, Typed
    <3>4. QED BY <2>1, <3>1, <3>2, <3>3 DEF StartStep
  <2>2. ASSUME NEW g \in Callers, StopStep(g) PROVE pc' = pc
    BY <2>2 DEF StopStep, StopKill, StopGone, StopRefused, StopReap, StopCleans, StopCleanFails
  <2>3. ASSUME Environment PROVE pc' = pc
    BY <2>3 DEF Environment, Binds, Exits, OtherTakes, OtherLeaves
  <2>4. QED BY <1>5, <2>1, <2>2, <2>3 DEF Daemon, Proceed
<1>6. ASSUME UserStep PROVE Same
  <2>1. PICK u \in Users : BeginFails(u) \/ (\E o \in UserOptions : Begin(u, o)) \/ \E g \in Callers : Stop(g, u)
    BY <1>6 DEF UserStep
  <2>2. u # t /\ u \in Starts
    BY DEF Users
  <2>3. pc[t] = "idle" => pc'[t] = "idle"
    BY <2>1, <2>2 DEF BeginFails, Begin, Go, Stop, Typed
  <2>4. QED BY <1>6, <2>3 DEF UserStep
<1>7. ASSUME NEW x \in Tests, BeginTest(x)
      PROVE  IF x = t THEN phase[t] = "idle" /\ pc[t] = "idle" /\ phase'[t] = "daemon" ELSE Same
  BY <1>7 DEF BeginTest, Step, Begin, BeginFails, Go, Typed, TestTyped
<1>8. ASSUME NEW x \in Tests, NEW u \in Users, BeginExternal(x, u)
      PROVE  IF x = t THEN phase[t] = "idle" /\ phase'[t] = "port" /\ pc'[t] = pc[t] ELSE Same
  BY <1>8 DEF BeginExternal, Step, dvars, TestTyped
<1>9. ASSUME NEW x \in Tests, TestStep(x) PROVE UNCHANGED dvars /\ (x # t => Same)
  BY <1>9 DEF TestStep, CookieFound, AuthFound, PortFound, PortVerified, PortUnverified, Bootstrapped, Step, dvars, TestTyped
<1>10. ASSUME NEW x \in Tests, Skip(x) PROVE IF x = t THEN phase'[t] = "over" ELSE Same
  BY <1>10 DEF Skip, dvars, TestTyped
<1>11. ASSUME NEW x \in Tests, NEW g \in Callers, Close(g, x) PROVE Same
  BY <1>11 DEF Close, Stop
<1>12. ASSUME UNCHANGED tvars PROVE Same
  BY <1>12 DEF tvars, dvars
<1>13. QED
  BY <1>2, <1>3, <1>4, <1>5, <1>6, <1>7, <1>8, <1>9, <1>10, <1>11, <1>12 DEF TNext

(* TestTyped is preserved by every step. *)
LEMMA TestTypedStep ==
  ASSUME Typed, TestTyped, [TNext]_tvars
  PROVE  TestTyped'
<1> USE TestServerAssumption DEF TestTyped, tor
<1>1. CASE Daemon
  BY <1>1 DEF Daemon
<1>2. CASE UserStep
  BY <1>2 DEF UserStep
<1>3. ASSUME NEW s \in Starts, WritesCookie(s) \/ Boots(s) PROVE TestTyped'
  BY <1>3 DEF WritesCookie, Boots
<1>4. ASSUME NEW t \in Tests, BeginTest(t) \/ Skip(t) PROVE TestTyped'
  BY <1>4 DEF BeginTest, Step, Skip
<1>5. ASSUME NEW t \in Tests, NEW u \in Users, BeginExternal(t, u) PROVE TestTyped'
  BY <1>5 DEF BeginExternal, Step, Users
<1>6. ASSUME NEW t \in Tests, AuthFound(t) PROVE TestTyped'
  BY <1>6 DEF AuthFound, Step
<1>7. ASSUME NEW t \in Tests, TestStep(t), ~AuthFound(t) PROVE TestTyped'
  BY <1>7 DEF TestStep, CookieFound, PortFound, PortVerified, PortUnverified, Bootstrapped, Step
<1>8. ASSUME NEW t \in Tests, NEW g \in Callers, Close(g, t) PROVE TestTyped'
  BY <1>8 DEF Close
<1>9. ASSUME NEW g \in Callers, CheckAuth(g) PROVE TestTyped'
  BY <1>9 DEF CheckAuth
<1>10. ASSUME NEW g \in Callers, CheckInfo(g) \/ CheckFails(g) \/ Checked(g) PROVE TestTyped'
  BY <1>10 DEF CheckInfo, CheckFails, Checked, Return
<1>11. ASSUME NEW g \in Callers, NEW s \in Starts, Check(g, s) PROVE TestTyped'
  BY <1>11 DEF Check
<1>12. CASE UNCHANGED tvars
  BY <1>12 DEF tvars
<1>13. QED
  BY <1>1, <1>2, <1>3, <1>4, <1>5, <1>6, <1>7, <1>8, <1>9, <1>10, <1>11, <1>12 DEF TNext

(* The cookies that are on disk. *)
LEMMA CookieMoves ==
  ASSUME [TNext]_tvars
  PROVE  cookie' = cookie \/ \E s \in Starts : child[s] = "serving" /\ cookie' = cookie \cup {s}
<1> USE DEF tor
<1>1. ASSUME NEW t \in Tests, TestStep(t) PROVE cookie' = cookie
  BY <1>1 DEF TestStep, CookieFound, AuthFound, PortFound, PortVerified, PortUnverified, Bootstrapped
<1>2. ASSUME NEW g \in Callers, CheckAuth(g) \/ CheckInfo(g) \/ CheckFails(g) \/ Checked(g) PROVE cookie' = cookie
  BY <1>2 DEF CheckAuth, CheckInfo, CheckFails, Checked, Return
<1>3. QED
  BY <1>1, <1>2 DEF TNext, Daemon, UserStep, WritesCookie, Boots, BeginTest, BeginExternal, Skip, Close, Check, tvars

(* A test that has found credentials while its tor serves has found those  *)
(* of its tor: that one listens on the control port.                       *)
LEMMA OwnCredentials ==
  ASSUME IInv, NEW t \in Tests, AuthFound(t), pc[t] # "idle", child[t] = "serving"
  PROVE  auth'[t] = t
<1>1. PICK s \in cookie : Answers(s, ControlPort(t)) /\ auth' = [auth EXCEPT ![t] = s]
  BY DEF AuthFound
<1>2. ControlPort(t) = addr[t]["control"]
  BY DEF ControlPort, External
<1>3. opt[t] = Normal(TestOptions) /\ addr[t] = TestOptions.torrc
  BY DEF IInv, Fixes
<1>4. opt[t].torrc = TestOptions.torrc
  BY <1>3, NormalTyped, TestServerAssumption
<1>5. Own(t)["control"] = addr[t]["control"]
  BY <1>3, <1>4 DEF Own
<1>6. owner[Own(t)["control"]] = t
  BY HeldValues, TestServerAssumption DEF IInv, Serving
<1>7. s = t
  BY <1>1, <1>2, <1>5, <1>6 DEF Answers
<1>8. QED BY <1>1, <1>7, TestServerAssumption DEF IInv, TestTyped

(* Cookies is preserved by every step.                                     *)
LEMMA CookiesStep ==
  ASSUME IInv, [TNext]_tvars
  PROVE  Cookies'
<1>1. ChildMoves
  BY ChildStep
<1>2. ASSUME NEW s \in cookie' PROVE child'[s] \notin {"none", "starting"}
  BY <1>1, <1>2, CookieMoves DEF ChildMoves, IInv, TestTyped, Cookies
<1>3. ASSUME NEW t \in Tests
      PROVE  /\ phase'[t] \in {"idle", "port", "verify"} => pc'[t] = "idle"
             /\ phase'[t] \in {"auth", "boot", "ready"} /\ pc'[t] # "idle" => child'[t] \notin {"none", "starting"}
             /\ phase'[t] \in {"boot", "ready"} /\ child'[t] = "serving" => auth'[t] = t
  <2> USE TestServerAssumption
  <2>1. /\ phase[t] \in {"idle", "port", "verify"} => pc[t] = "idle"
        /\ phase[t] \in {"auth", "boot", "ready"} /\ pc[t] # "idle" => child[t] \notin {"none", "starting"}
        /\ phase[t] \in {"boot", "ready"} /\ child[t] = "serving" => auth[t] = t
        /\ pc[t] = "idle" => child[t] = "none"
        /\ t \in cookie => child[t] \notin {"none", "starting"}
    BY DEF IInv, Cookies, Lives, ServesItself
  <2>2. /\ child[t] \notin {"none", "starting"} => child'[t] \notin {"none", "starting"}
        /\ child'[t] = "serving" => child[t] \in {"starting", "serving"}
        /\ pc[t] # "idle" => pc'[t] # "idle"
    BY <1>1 DEF ChildMoves
  <2>3. CASE phase'[t] = phase[t] /\ auth'[t] = auth[t] /\ (pc[t] = "idle" => pc'[t] = "idle")
    BY <2>1, <2>2, <2>3
  <2>4. CASE phase[t] = "idle" /\ phase'[t] = "port" /\ pc'[t] = pc[t]
    BY <2>1, <2>4
  <2>5. CASE TestStep(t) /\ UNCHANGED dvars
    <3>1. pc'[t] = pc[t] /\ child'[t] = child[t]
      BY <2>5 DEF dvars
    <3>2. CASE CookieFound(t)
      BY <2>1, <3>1, <3>2 DEF CookieFound, Step, IInv, TestTyped
    <3>3. CASE AuthFound(t)
      <4>1. phase[t] = "auth" /\ phase'[t] = "boot"
        BY <3>3 DEF AuthFound, Step, IInv, TestTyped
      <4>2. QED BY <2>1, <3>1, <3>3, <4>1, OwnCredentials
    <3>4. CASE PortFound(t) \/ PortVerified(t) \/ PortUnverified(t)
      <4>1. phase[t] \in {"port", "verify"} /\ phase'[t] \in {"port", "verify", "boot"}
        BY <3>4 DEF PortFound, PortVerified, PortUnverified, Step, IInv, TestTyped
      <4>2. QED BY <2>1, <3>1, <4>1
    <3>5. CASE Bootstrapped(t)
      <4>1. phase[t] = "boot" /\ phase'[t] = "ready" /\ auth'[t] = auth[t]
        BY <3>5 DEF Bootstrapped, Step, IInv, TestTyped
      <4>2. QED BY <2>1, <3>1, <4>1
    <3>6. QED BY <2>5, <3>2, <3>3, <3>4, <3>5 DEF TestStep
  <2>6. QED
    <3>1. Typed /\ TestTyped
      BY DEF IInv
    <3>2. CASE phase'[t] = "daemon" \/ phase'[t] = "over"
      BY <3>2
    <3>3. QED BY <3>1, <3>2, <2>3, <2>4, <2>5, TestMoves
<1>4. QED BY <1>2, <1>3 DEF Cookies, ServesItself

LEMMA Inductive == ASSUME IInv, [TNext]_tvars PROVE IInv'
<1>1. Typed' /\ Calls' /\ Lives' /\ Stops' /\ Resolved' /\ Serving' /\ Holding' /\ Fixes'
  BY TypedStep, CallsStep, LivesStep, StopsStep, ResolvedStep, ServingStep, HoldingStep, FixesStep
<1>2. TestTyped' /\ Cookies'
  BY TestTypedStep, CookiesStep DEF IInv
<1>3. QED BY <1>1, <1>2 DEF IInv

LEMMA Initially == TInit => IInv
<1> SUFFICES ASSUME TInit PROVE IInv
  OBVIOUS
<1>1. Typed /\ TestTyped
  BY TestServerAssumption DEF TInit, Init, Typed, TestTyped, Roles
<1>2. Calls /\ Lives /\ Stops
  BY DEF TInit, Init, Calls, Lives, Stops, StoppedLeavesNothing, Running
<1>3. Resolved /\ Serving /\ Holding
  BY DEF TInit, Init, Resolved, Serving, Holding, Holders
<1>4. Fixes /\ Cookies
  BY TestServerAssumption DEF TInit, Init, Fixes, Cookies, ServesItself
<1>5. QED BY <1>1, <1>2, <1>3, <1>4 DEF IInv

LEMMA Invariant == SafeSpec => []IInv
BY Initially, Inductive, PTL DEF SafeSpec

(* A start that has failed has left no tor and no temporary directory      *)
(* (terminateCmd and the deferred clean-up of StartTorDaemon), unless the  *)
(* system refused.                                                         *)
THEOREM FailuresLeaveNothing == SafeSpec => []FailedLeavesNothing
<1>1. IInv => FailedLeavesNothing
  BY DEF IInv, Lives, FailedLeavesNothing
<1>2. QED BY <1>1, Invariant, PTL

(* When one of any number of Stops of a process has returned, its tor and  *)
(* its temporary directory are gone (TorProcess.Stop), unless the system   *)
(* refused.                                                                *)
THEOREM StopsLeaveNothing == SafeSpec => []StoppedLeavesNothing
<1>1. IInv => StoppedLeavesNothing
  BY DEF IInv, Stops
<1>2. QED BY <1>1, Invariant, PTL

(* No tor loses its temporary directory while it runs (the order of        *)
(* terminateCmd and RemoveAll).                                            *)
THEOREM DirsOutliveTors == SafeSpec => []DirOutlivesTor
<1>1. IInv => DirOutlivesTor
  BY DEF IInv, Lives, DirOutlivesTor
<1>2. QED BY <1>1, Invariant, PTL

(* A test server has the credentials of its own tor (waitForCookieFile     *)
(* before ControlAuthFromTor), whatever other tors do on its ports.        *)
THEOREM ServersServeThemselves == SafeSpec => []ServesItself
<1>1. IInv => ServesItself
  BY DEF IInv, Cookies
<1>2. QED BY <1>1, Invariant, PTL

(* CheckTorDaemon takes no answer of another tor while the one it was given*)
(* serves on the ports that it was given.                                  *)
THEOREM HealthIsHonest == SafeSpec => HealthyHonest
<1>1. ASSUME IInv, TNext, NEW g \in Callers, place[g] # "healthy", place'[g] = "healthy",
             child[on[g]] = "serving", Own(on[g]) = addr[on[g]]
      PROVE  auth[g] = on[g]
  <2>1. place'[g] \in {place[g], "idle", "kill", "reap", "clean", "auth", "info"} \/ CheckInfo(g)
    <3>1. ASSUME NEW h \in Callers, CheckInfo(h) PROVE h = g \/ place'[g] = place[g]
      BY <3>1 DEF CheckInfo, Move, IInv, Typed
    <3>0. \A h \in Callers, x \in {"idle", "kill", "reap", "clean", "auth", "info"} :
            place' = [place EXCEPT ![h] = x] => place'[g] \in {place[g], x}
      BY DEF IInv, Typed
    <3>2. ASSUME NEW h \in Callers, CheckAuth(h) \/ CheckFails(h) \/ Checked(h) \/ \E s \in Starts : Check(h, s)
          PROVE  place'[g] \in {place[g], "idle", "auth", "info"}
      <4>1. \E x \in {"idle", "auth", "info"} : place' = [place EXCEPT ![h] = x]
        BY <3>2 DEF CheckAuth, CheckFails, Checked, Check, Move
      <4>2. QED BY <4>1, <3>0
    <3>3. ASSUME NEW h \in Callers, StopStep(h) \/ \E s \in Starts : Stop(h, s)
          PROVE  place'[g] \in {place[g], "idle", "kill", "reap", "clean"}
      <4>1. \E x \in {"idle", "kill", "reap", "clean"} : place' = [place EXCEPT ![h] = x]
        <5>1. CASE \E s \in Starts : Stop(h, s)
          BY <5>1 DEF Stop, Move
        <5>2. CASE StopStep(h)
          BY <5>2 DEF StopStep, StopKill, StopGone, StopRefused, StopReap, StopCleans, StopCleanFails, Move
        <5>3. QED BY <3>3, <5>1, <5>2
      <4>2. QED BY <4>1, <3>0
    <3>4. ASSUME NEW s \in Starts, StartStep(s) \/ Deadline(s) \/ BeginFails(s) \/ \E o \in Options : Begin(s, o)
          PROVE  place' = place
      BY <3>4 DEF StartStep, Deadline, BeginFails, Begin, Listen, Unlisten, Abort, Launch, SocksAnswers,
         ControlAnswers, ControlSilent, Kill, KillRefused, Reap, CleanUp, CleanUpFails, stopping
    <3>5. ASSUME Environment PROVE place' = place
      BY <3>5 DEF Environment, Binds, Exits, OtherTakes, OtherLeaves, stopping
    <3>6. ASSUME NEW t \in Tests, TestStep(t) \/ Skip(t) \/ \E u \in Users : BeginExternal(t, u)
          PROVE  place' = place
      BY <3>6 DEF TestStep, CookieFound, AuthFound, PortFound, PortVerified, PortUnverified, Bootstrapped,
         Skip, BeginExternal, dvars, stopping
    <3>7. ASSUME NEW s \in Starts, WritesCookie(s) \/ Boots(s) PROVE place' = place
      BY <3>7 DEF WritesCookie, Boots, dvars, stopping
    <3>8. CASE Daemon \/ UserStep
      BY <3>8, <3>3, <3>4, <3>5 DEF Daemon, Proceed, UserStep, Users, UserOptions
    <3>9. ASSUME NEW t \in Tests, BeginTest(t) \/ \E h \in Callers : Close(h, t)
          PROVE  place'[g] \in {place[g], "idle", "kill", "reap", "clean"}
      BY <3>9, <3>3, <3>4, TestServerAssumption DEF BeginTest, Close
    <3>10. QED BY <1>1, <3>1, <3>2, <3>6, <3>7, <3>8, <3>9 DEF TNext
  <2>2. CheckInfo(g) /\ place[g] = "info"
    BY <1>1, <2>1 DEF CheckInfo, Move
  <2>3. on[g] \in Starts
    BY <1>1, <2>2 DEF IInv, Calls
  <2>4. owner[addr[on[g]]["control"]] = on[g]
    <3>1. owner[Own(on[g])["control"]] = on[g]
      BY <1>1, <2>3, HeldValues DEF IInv, Serving
    <3>2. QED BY <3>1, <1>1
  <2>5. owner[addr[on[g]]["control"]] = auth[g]
    BY <2>2 DEF CheckInfo, Answers
  <2>6. QED BY <2>4, <2>5
<1>2. IInv /\ [TNext]_tvars =>
        [\A g \in Callers : place[g] # "healthy" /\ place'[g] = "healthy"
            /\ child[on[g]] = "serving" /\ Own(on[g]) = addr[on[g]] => auth[g] = on[g]]_tvars
  BY <1>1
<1>3. QED BY <1>2, Invariant, PTL DEF SafeSpec, HealthyHonest
===========================================================================
