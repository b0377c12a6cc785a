---------------------------- MODULE TorDaemon ----------------------------
(***************************************************************************)
(* StartTorDaemon and TorProcess.Stop of daemon.go, with the tor that each *)
(* start launches and the TCP ports of the machine.                        *)
(*                                                                         *)
(* Several starts run at the same time, in one program or in several, and  *)
(* several goroutines may stop the same TorProcess (its fields are not     *)
(* protected by a lock).  tor is external: it binds its ports or exits,    *)
(* may exit at any time, and dies some time after it was killed.  Programs *)
(* that have nothing to do with tornago take and free ports too.           *)
(*                                                                         *)
(* Left out: what tor logs, and its process number.                        *)
(***************************************************************************)
EXTENDS Integers, FiniteSets

CONSTANTS Starts,     \* calls of StartTorDaemon, each with the tor it launches
          Callers,    \* goroutines that call Stop
          Ports,      \* TCP ports
          Zero,       \* port 0 of an address: any free port
          Unset,      \* an option that was not given
          Nobody,     \* owner of a port that is free
          Probe,      \* owner of a port: the listener of a resolveAddr
          Other,      \* owner of a port: some other program
          OtherPorts, \* bound: the ports that other programs use
          Refusable,  \* bound: starts for which the system may refuse to
                      \* kill or to remove
          Options     \* the options that starts are called with

Roles == {"socks", "control"}

(* torrc is the pair of ports that the file of WithTorConfigFile names.    *)
ASSUME DaemonAssumption ==
  /\ Options \subseteq [ports : [Roles -> Ports \cup {Zero, Unset}],
                        torrc : [Roles -> Ports] \cup {Unset},
                        dataDir : {"given", Unset}, startupTimeout : Int]
  /\ OtherPorts \subseteq Ports /\ Refusable \subseteq Starts
  /\ {Nobody, Probe, Other} \cap Starts = {} /\ {Zero, Unset} \cap Ports = {}
  /\ Unset \notin [Roles -> Ports]
  /\ Nobody # Probe /\ Nobody # Other /\ Probe # Other

(* applyTorLaunchDefaults and validateTorLaunchConfig: an address that is  *)
(* not set is ":0"; a timeout that is not set is 30 seconds.               *)
Default(given, default) == IF given = Unset THEN default ELSE given
Normal(o) == [o EXCEPT !.ports = [r \in Roles |-> Default(@[r], Zero)],
                       !.startupTimeout = IF @ = 0 THEN 30 ELSE @]
Valid(o) == o.startupTimeout > 0

VARIABLES pc,       \* per start, where StartTorDaemon is
          opt,      \* per start, its normalised configuration
          addr,     \* per start and role, the resolved port, or Zero
          child,    \* per start, its tor
          killed,   \* starts whose tor was sent SIGKILL and still runs
          owner,    \* per port, who listens on it
          dirs,     \* starts whose temporary data directory is on disk
          handle,   \* starts whose TorProcess has a cmd
          owns,     \* starts whose TorProcess has a directory to clean up
          place,    \* per caller, where its call is
          on,       \* per caller, the TorProcess it is called on
          stopped,  \* history: starts of which a Stop has returned
          refused   \* history: starts for which the system refused to kill
                    \* or to remove the directory

process == <<handle, owns>>
stopping == <<place, on, stopped>>
dvars == <<pc, opt, addr, child, killed, owner, dirs, process, stopping, refused>>

Init == /\ pc = [s \in Starts |-> "idle"]
        /\ opt = [s \in Starts |-> Unset]
        /\ addr = [s \in Starts |-> [r \in Roles |-> Zero]]
        /\ child = [s \in Starts |-> "none"]
        /\ owner = [p \in Ports |-> Nobody]
        /\ killed = {} /\ dirs = {} /\ handle = {} /\ owns = {}
        /\ place = [g \in Callers |-> "idle"]
        /\ on = [g \in Callers |-> Nobody]
        /\ stopped = {} /\ refused = {}

(* The system refuses to kill a process, or to remove a directory. *)
Refuses(s) == /\ s \in Refusable
              /\ refused' = refused \cup {s}

Go(s, from, to) == pc[s] = from /\ pc' = [pc EXCEPT ![s] = to]

Running == {"starting", "serving"}

Free(p) == owner[p] = Nobody
Reachable(p) == owner[p] # Nobody

(* --- StartTorDaemon, up to the launch --- *)

(* resolveAddr keeps a port that was asked for without looking whether it  *)
(* is free; next is the first address with port 0, or the launch.          *)
Unresolved(a) == IF a["socks"] = Zero THEN "socks"
                 ELSE IF a["control"] = Zero THEN "control" ELSE "exec"

(* A temporary directory is made unless one was given.  It is the start's  *)
(* own: others see nothing of a start before its ports.                    *)
Begin(s, o) ==
  LET n == Normal(o)
  IN  /\ Valid(n)
      /\ Go(s, "idle", Unresolved(n.ports))
      /\ opt' = [opt EXCEPT ![s] = n]
      /\ addr' = [addr EXCEPT ![s] = n.ports]
      /\ dirs' = IF n.dataDir = Unset THEN dirs \cup {s} ELSE dirs
      /\ UNCHANGED <<child, killed, owner, process, stopping, refused>>

(* Options that are not valid, or a directory that cannot be made, end the *)
(* start before it has done anything.                                      *)
BeginFails(s) == /\ Go(s, "idle", "failed")
                 /\ UNCHANGED <<opt, addr, child, killed, owner, dirs, process, stopping, refused>>

Held == [r \in Roles |-> IF r = "socks" THEN "socks held" ELSE "control held"]

(* resolveAddr listens on a free port to learn its number *)
Listen(s, r) == /\ Go(s, r, Held[r])
                /\ \E p \in Ports : /\ Free(p)
                                    /\ owner' = [owner EXCEPT ![p] = Probe]
                                    /\ addr' = [addr EXCEPT ![s][r] = p]
                /\ UNCHANGED <<opt, child, killed, dirs, process, stopping, refused>>

(* and frees it again. *)
Unlisten(s, r) == /\ Go(s, Held[r], Unresolved(addr[s]))
                  /\ owner' = [owner EXCEPT ![addr[s][r]] = Nobody]
                  /\ UNCHANGED <<opt, addr, child, killed, dirs, process, stopping, refused>>

(* No tor binary, an address that cannot be resolved or bound, a command   *)
(* that does not start: the deferred clean-up is next.                     *)
Abort(s) == /\ pc[s] \in {"socks", "control", "exec"}
            /\ pc' = [pc EXCEPT ![s] = "clean"]
            /\ UNCHANGED <<opt, addr, child, killed, owner, dirs, process, stopping, refused>>

Launch(s) == /\ Go(s, "exec", "wait")
             /\ child' = [child EXCEPT ![s] = "starting"]
             /\ UNCHANGED <<opt, addr, killed, owner, dirs, process, stopping, refused>>

(* --- waitForPorts and what follows --- *)

(* A tick on which the SOCKS port answers (one on which it does not changes*)
(* nothing); *)
SocksAnswers(s) == /\ Go(s, "wait", "probe")
                   /\ Reachable(addr[s]["socks"])
                   /\ UNCHANGED <<opt, addr, child, killed, owner, dirs, process, stopping, refused>>

(* then the control port does, and the TorProcess is returned, *)
ControlAnswers(s) == /\ Go(s, "probe", "up")
                     /\ Reachable(addr[s]["control"])
                     /\ handle' = handle \cup {s}
                     /\ owns' = IF opt[s].dataDir = Unset THEN owns \cup {s} ELSE owns
                     /\ UNCHANGED <<opt, addr, child, killed, owner, dirs, stopping, refused>>

(* or it does not. *)
ControlSilent(s) == /\ Go(s, "probe", "wait")
                    /\ ~Reachable(addr[s]["control"])
                    /\ UNCHANGED <<opt, addr, child, killed, owner, dirs, process, stopping, refused>>

(* Faulty variant: a start that times out forgets its tor. *)
DeadlineForgets(s) == /\ Go(s, "wait", "clean")
                      /\ UNCHANGED <<opt, addr, child, killed, owner, dirs, process, stopping, refused>>

(* Faulty variant: the child is watched instead of the clock. *)
DeadlineWatchesChild(s) == /\ Go(s, "wait", "kill")
                           /\ child[s] = "dead"
                           /\ UNCHANGED <<opt, addr, child, killed, owner, dirs, process, stopping, refused>>

(* The context of StartupTimeout is done, and the select takes its case. *)
Deadline(s) == /\ Go(s, "wait", "kill")
               /\ UNCHANGED <<opt, addr, child, killed, owner, dirs, process, stopping, refused>>

(* terminateCmd: SIGKILL, *)
Kill(s) == /\ Go(s, "kill", "reap")
           /\ killed' = IF child[s] \in Running THEN killed \cup {s} ELSE killed
           /\ UNCHANGED <<opt, addr, child, owner, dirs, process, stopping, refused>>

(* which the system may refuse, and then nobody waits for the tor; *)
KillRefused(s) == /\ Go(s, "kill", "clean")
                  /\ child[s] \in Running
                  /\ Refuses(s)
                  /\ UNCHANGED <<opt, addr, child, killed, owner, dirs, process, stopping>>

(* cmd.Wait. *)
Reap(s) == /\ Go(s, "reap", "clean")
           /\ child[s] = "dead"
           /\ child' = [child EXCEPT ![s] = "reaped"]
           /\ UNCHANGED <<opt, addr, killed, owner, dirs, process, stopping, refused>>

(* The deferred clean-up of a start that failed, *)
CleanUp(s) == /\ Go(s, "clean", "failed")
              /\ dirs' = dirs \ {s}
              /\ UNCHANGED <<opt, addr, child, killed, owner, process, stopping, refused>>

(* which may fail itself. *)
CleanUpFails(s) == /\ Go(s, "clean", "failed")
                   /\ s \in dirs
                   /\ Refuses(s)
                   /\ UNCHANGED <<opt, addr, child, killed, owner, dirs, process, stopping>>

(* --- tor, and other programs --- *)

(* The ports that the tor of a start opens: those of its command line, or  *)
(* those of its torrc, whatever the start has resolved.                    *)
Own(s) == IF opt[s].torrc = Unset THEN addr[s] ELSE opt[s].torrc

(* tor opens all its ports *)
Binds(s) == /\ child[s] = "starting" /\ s \notin killed
            /\ Own(s)["socks"] # Own(s)["control"]
            /\ \A r \in Roles : Free(Own(s)[r])
            /\ child' = [child EXCEPT ![s] = "serving"]
            /\ owner' = [p \in Ports |-> IF \E r \in Roles : p = Own(s)[r] THEN s ELSE owner[p]]
            /\ UNCHANGED <<pc, opt, addr, killed, dirs, process, stopping, refused>>

(* or exits; it also exits at any other time, and when it was killed. *)
Exits(s) == /\ child[s] \in Running
            /\ child' = [child EXCEPT ![s] = "dead"]
            /\ killed' = killed \ {s}
            /\ owner' = [p \in Ports |-> IF owner[p] = s THEN Nobody ELSE owner[p]]
            /\ UNCHANGED <<pc, opt, addr, dirs, process, stopping, refused>>

Dies(s) == s \in killed /\ Exits(s)

OtherTakes(p) == /\ Free(p)
                 /\ owner' = [owner EXCEPT ![p] = Other]
                 /\ UNCHANGED <<pc, opt, addr, child, killed, dirs, process, stopping, refused>>

OtherLeaves(p) == /\ owner[p] = Other
                  /\ owner' = [owner EXCEPT ![p] = Nobody]
                  /\ UNCHANGED <<pc, opt, addr, child, killed, dirs, process, stopping, refused>>

(* --- TorProcess.Stop --- *)

Move(g, from, to) == place[g] = from /\ place' = [place EXCEPT ![g] = to]

(* A Stop kills and waits if the process still has its cmd. *)
Stop(g, s) == /\ pc[s] = "up"
              /\ Move(g, "idle", IF s \in handle THEN "kill" ELSE "clean")
              /\ on' = [on EXCEPT ![g] = s]
              /\ UNCHANGED <<pc, opt, addr, child, killed, owner, dirs, process, stopped, refused>>

(* Faulty variant: Stop clears the cmd before it waits. *)
StopKillForgets(g) == /\ Move(g, "kill", "reap")
                      /\ killed' = IF child[on[g]] \in Running THEN killed \cup {on[g]} ELSE killed
                      /\ handle' = handle \ {on[g]}
                      /\ UNCHANGED <<pc, opt, addr, child, owner, dirs, owns, on, stopped, refused>>

StopKill(g) == /\ Move(g, "kill", "reap")
               /\ killed' = IF child[on[g]] \in Running THEN killed \cup {on[g]} ELSE killed
               /\ UNCHANGED <<pc, opt, addr, child, owner, dirs, process, on, stopped, refused>>

(* Stop looks at p.cmd twice; another one may have cleared it in between.  *)
StopGone(g) == /\ Move(g, "kill", "clean")
               /\ on[g] \notin handle
               /\ UNCHANGED <<pc, opt, addr, child, killed, owner, dirs, process, on, stopped, refused>>

(* terminateCmd returns the error of Kill, and Stop forgets the process as *)
(* it does after a kill that succeeded.                                    *)
StopRefused(g) == /\ Move(g, "kill", "clean")
                  /\ child[on[g]] \in Running
                  /\ handle' = handle \ {on[g]}
                  /\ Refuses(on[g])
                  /\ UNCHANGED <<pc, opt, addr, child, killed, owner, dirs, owns, on, stopped>>

(* Faulty variant: Stop does not wait for the process. *)
StopReapNot(g) == /\ Move(g, "reap", "clean")
                  /\ handle' = handle \ {on[g]}
                  /\ UNCHANGED <<pc, opt, addr, child, killed, owner, dirs, owns, on, stopped, refused>>

(* cmd.Wait returns, at once if another goroutine has waited already. *)
StopReap(g) == /\ Move(g, "reap", "clean")
               /\ child[on[g]] \in {"dead", "reaped"}
               /\ child' = [child EXCEPT ![on[g]] = "reaped"]
               /\ handle' = handle \ {on[g]}
               /\ UNCHANGED <<pc, opt, addr, killed, owner, dirs, owns, on, stopped, refused>>

(* RemoveAll, if the process has a directory to clean up, and the return.  *)
StopCleans(g) == /\ Move(g, "clean", "idle")
                 /\ dirs' = IF on[g] \in owns THEN dirs \ {on[g]} ELSE dirs
                 /\ owns' = owns \ {on[g]}
                 /\ stopped' = stopped \cup {on[g]}
                 /\ on' = [on EXCEPT ![g] = Nobody]
                 /\ UNCHANGED <<pc, opt, addr, child, killed, owner, handle, refused>>

(* RemoveAll fails, and no later Stop repeats it. *)
StopCleanFails(g) == /\ Move(g, "clean", "idle")
                     /\ on[g] \in owns \cap dirs
                     /\ owns' = owns \ {on[g]}
                     /\ stopped' = stopped \cup {on[g]}
                     /\ Refuses(on[g])
                     /\ on' = [on EXCEPT ![g] = Nobody]
                     /\ UNCHANGED <<pc, opt, addr, child, killed, owner, dirs, handle>>

--------------------------------------------------------------------------
StartStep(s) == \/ \E r \in Roles : Listen(s, r) \/ Unlisten(s, r)
                \/ Abort(s) \/ Launch(s)
                \/ SocksAnswers(s) \/ ControlAnswers(s) \/ ControlSilent(s)
                \/ Kill(s) \/ KillRefused(s) \/ Reap(s)
                \/ CleanUp(s) \/ CleanUpFails(s)

StopStep(g) == \/ StopKill(g) \/ StopGone(g) \/ StopRefused(g) \/ StopReap(g)
               \/ StopCleans(g) \/ StopCleanFails(g)

Environment == \/ \E s \in Starts : Binds(s) \/ Exits(s)
               \/ \E p \in OtherPorts : OtherTakes(p) \/ OtherLeaves(p)

(* What the functions of daemon.go and the machine do once they are called.*)
Proceed == \/ \E s \in Starts : StartStep(s) \/ Deadline(s)
           \/ \E g \in Callers : StopStep(g)
           \/ Environment

--------------------------------------------------------------------------
(* A start that has failed, at whatever step and for whatever reason, has  *)
(* left no tor and no temporary directory behind, unless the system        *)
(* refused.  (A data directory that the user named stays by design.)       *)
FailedLeavesNothing ==
  \A s \in Starts : pc[s] = "failed" /\ s \notin refused
                      => child[s] \in {"none", "reaped"} /\ s \notin dirs

(* When any of several Stops of one process has returned, tor is gone and  *)
(* so is its temporary directory: "Stop terminates the tor process and     *)
(* cleans up temporary resources", also for the goroutine that came second *)
(* and found nothing to do.                                                *)
StoppedLeavesNothing ==
  \A s \in stopped \ refused : child[s] = "reaped" /\ s \notin dirs

(* The temporary directory outlives the tor that writes to it, also a tor  *)
(* that was killed and is not dead yet.                                    *)
DirOutlivesTor ==
  \A s \in Starts : child[s] \in Running /\ opt[s].dataDir = Unset /\ s \notin refused
                      => s \in dirs
==========================================================================
