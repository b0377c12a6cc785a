-------------------------- MODULE HiddenService --------------------------
(***************************************************************************)
(* Hidden services: Client.Listen and ListenWithConfig (client.go), the    *)
(* TorListener they return (listener.go), and the ADD_ONION and DEL_ONION  *)
(* they send (hidden_service.go) over a ControlClient that other goroutines*)
(* use too.                                                                *)
(*                                                                         *)
(* A listener is made by one call of Listen, and names the service that    *)
(* Tor makes for it.  Its ADD_ONION asks for a new service, or, by its key,*)
(* for that of an earlier listener, of this process or of one before it    *)
(* that left a key file.  Goroutines in Closers call Close, and one        *)
(* goroutine per listener calls Accept.                                    *)
(*                                                                         *)
(* The control connection is that of ControlClient.tla with one step per   *)
(* reply: commands are serialised and answered in order, a reply whose     *)
(* reader has given up stays in the stream for the next one, and a write   *)
(* that fails spoils the writer.  Tor ends a service with the connection   *)
(* that asked for it (the command has no Detach flag).                     *)
(***************************************************************************)
EXTENDS Integers, Sequences, FiniteSets

CONSTANTS Listeners, Closers, None,
          Earlier,     \* services of earlier processes, with a key file each
          Ports,       \* per listener, the local ports it may be given
          KeyForms     \* with a saved key, is its type used again

(* The services there may be, those of the listeners by their names.       *)
Onions == Listeners \cup Earlier

(* The key of a service, and how many times its type is written before it. *)
Keys == [of : Onions, types : 0..1]

ASSUME HiddenServiceAssumption ==
  /\ None \notin Onions \cup Closers \cup Keys /\ Listeners \cap Closers = {}
  /\ DOMAIN Ports = Listeners
  /\ KeyForms \subseteq BOOLEAN

(* There are finitely many goroutines and key files at any time. *)
ASSUME HiddenServiceFinite ==
  IsFiniteSet(Listeners) /\ IsFiniteSet(Closers) /\ IsFiniteSet(Earlier)

VARIABLES pc,          \* per listener and per closer: where it is
          port,        \* per listener: its local port
          socket,      \* listeners whose local socket is open
          closed,      \* listeners whose flag closed is set
          address,     \* per listener: the service its handle names
          key,         \* per listener: the key of its configuration or handle
          saved,       \* the keys in key files
          target,      \* per closer: the listener it closes
          failed,      \* per closer: has its Remove failed
          accept,      \* per listener: where the goroutine that accepts is
          mu,          \* who is inside execCommand
          werr,        \* the sticky error of the writer
          up,          \* is the control connection up
          sent, stream,  \* commands to Tor, replies from Tor
          services,    \* services that Tor runs, and for which listener
          told,        \* number of calls that returned an error
          lost,        \* has a call given up waiting for its reply
          dels         \* per listener: DEL_ONIONs sent by its Close

control == <<mu, werr, up, sent, stream>>
handle  == <<address, key, saved>>
ghosts  == <<told, lost, dels>>
vars == <<pc, port, socket, closed, handle, target, failed, accept, control, services, ghosts>>

Init == /\ pc = [p \in Listeners \cup Closers |-> "idle"]
        /\ port = [l \in Listeners |-> None]
        /\ socket = {} /\ closed = {}
        /\ address = [l \in Listeners |-> None]
        /\ key = [l \in Listeners |-> None]
        /\ saved = [of : Earlier, types : {1}]
        /\ target = [g \in Closers |-> None]
        /\ failed = [g \in Closers |-> FALSE]
        /\ accept = [l \in Listeners |-> "idle"]
        /\ mu = None /\ werr = FALSE /\ up = TRUE
        /\ sent = <<>> /\ stream = <<>>
        /\ services = {}
        /\ told = 0 /\ lost = FALSE
        /\ dels = [l \in Listeners |-> 0]

Go(p, from, to) == pc[p] = from /\ pc' = [pc EXCEPT ![p] = to]

(* --- Listen, ListenWithConfig --- *)

Taken == {port[l] : l \in socket}

(* A saved key as LoadPrivateKey returns it, or without its type. *)
Loaded == {[of |-> k.of, types |-> IF f THEN k.types ELSE 0] : k \in saved, f \in KeyForms}

(* The socket comes first.  The configuration may carry a key. *)
Bind(l) == /\ Go(l, "idle", "create")
           /\ \E p \in Ports[l] \ Taken : port' = [port EXCEPT ![l] = p]
           /\ socket' = socket \cup {l}
           /\ \E k \in {None} \cup Loaded : key' = [key EXCEPT ![l] = k]
           /\ UNCHANGED <<closed, address, saved, target, failed, accept, control, services, ghosts>>

BindFails(l) == /\ Go(l, "idle", "failed")
                /\ UNCHANGED <<port, socket, closed, handle, target, failed, accept,
                               control, services, ghosts>>

(* Faulty variant: the socket is left open. *)
FailLeaks(l) == /\ pc' = [pc EXCEPT ![l] = "failed"]
                /\ told' = told + 1
                /\ UNCHANGED socket

(* Whatever fails after it closes the socket. *)
Fail(l) == /\ pc' = [pc EXCEPT ![l] = "failed"]
           /\ told' = told + 1
           /\ socket' = socket \ {l}

(* The configuration is refused, the client is not authenticated, or the   *)
(* write fails: CreateHiddenService has sent nothing.                      *)
CreateFails(l) == /\ pc[l] = "create"
                  /\ Fail(l)
                  /\ UNCHANGED <<port, closed, handle, target, failed, accept, control, services,
                                 lost, dels>>

(* buildAddOnionCommand writes the key type before a key. *)
KeySpec(k) == IF k = None THEN None ELSE [k EXCEPT !.types = @ + 1]

(* Faulty variant: execCommand does without the mutex. *)
ExecUnlocked(p, from, cmd) == /\ Go(p, from, "read")
                              /\ up /\ ~werr
                              /\ mu' = p
                              /\ sent' = Append(sent, cmd)

(* execCommand, up to the reply *)
Exec(p, from, cmd) == /\ Go(p, from, "read")
                      /\ mu = None /\ up /\ ~werr
                      /\ mu' = p
                      /\ sent' = Append(sent, cmd)

SendAdd(l) == /\ Exec(l, "create", [op |-> "add", of |-> l, key |-> KeySpec(key[l])])
              /\ UNCHANGED <<port, socket, closed, handle, target, failed, accept, werr, up,
                             stream, services, ghosts>>

Reply == Head(stream)

(* Faulty variant: the key of the configuration is forgotten.              *)
CreatedForgetsKey(l) == /\ Go(l, "read", "listening")
                        /\ stream # <<>> /\ Reply.kind = "service"
                        /\ stream' = Tail(stream)
                        /\ mu' = None
                        /\ address' = [address EXCEPT ![l] = Reply.of]
                        /\ key' = [key EXCEPT ![l] = Reply.key]
                        /\ UNCHANGED <<port, socket, closed, saved, target, failed, accept, werr,
                                       up, sent, services, ghosts>>

(* The reply names a service: Listen returns.  Its handle has the key of   *)
(* the configuration, or that of the reply, whoever's it is, if it has one.*)
Created(l) == /\ Go(l, "read", "listening")
              /\ stream # <<>> /\ Reply.kind = "service"
              /\ stream' = Tail(stream)
              /\ mu' = None
              /\ address' = [address EXCEPT ![l] = Reply.of]
              /\ key' = [key EXCEPT ![l] = IF Reply.key = None THEN @ ELSE Reply.key]
              /\ UNCHANGED <<port, socket, closed, saved, target, failed, accept, werr, up, sent,
                             services, ghosts>>

(* Faulty variant: the mutex stays locked. *)
NotCreatedLocked(l) == /\ pc[l] = "read"
                       /\ Fail(l)
                       /\ lost' = TRUE
                       /\ UNCHANGED <<port, closed, handle, target, failed, accept, control, services,
                                      dels>>

(* It does not, it is an error, or there is none.                          *)
NotCreated(l) == /\ pc[l] = "read"
                 /\ \/ /\ stream # <<>> /\ Reply.kind # "service"
                       /\ stream' = Tail(stream)
                       /\ UNCHANGED lost
                    \/ /\ UNCHANGED stream
                       /\ lost' = TRUE
                 /\ mu' = None
                 /\ Fail(l)
                 /\ UNCHANGED <<port, closed, handle, target, failed, accept, werr, up, sent,
                                services, dels>>

(* SavePrivateKey of the service's handle, which must have a key. *)
SaveKey(l) == /\ pc[l] = "listening"
              /\ key[l] \notin saved \cup {None}
              /\ saved' = saved \cup {key[l]}
              /\ UNCHANGED <<pc, port, socket, closed, address, key, target, failed, accept,
                             control, services, ghosts>>

(* --- TorListener.Close --- *)

(* Faulty variant: the flag is set at the end. *)
CloseUnflagged(g, l) == /\ Go(g, "idle", "remove")
                        /\ pc[l] = "listening" /\ l \notin closed
                        /\ target' = [target EXCEPT ![g] = l]
                        /\ failed' = [failed EXCEPT ![g] = FALSE]
                        /\ UNCHANGED <<port, socket, closed, handle, accept, control, services, ghosts>>

(* Faulty variant: the socket goes before the service. *)
CloseSocketFirst(g, l) == /\ Go(g, "idle", "remove")
                          /\ pc[l] = "listening" /\ l \notin closed
                          /\ closed' = closed \cup {l}
                          /\ target' = [target EXCEPT ![g] = l]
                          /\ failed' = [failed EXCEPT ![g] = FALSE]
                          /\ socket' = socket \ {l}
                          /\ UNCHANGED <<port, handle, accept, control, services, ghosts>>

(* The first Close sets the flag; another returns nil. *)
Close(g, l) == /\ Go(g, "idle", "remove")
               /\ pc[l] = "listening" /\ l \notin closed
               /\ closed' = closed \cup {l}
               /\ target' = [target EXCEPT ![g] = l]
               /\ failed' = [failed EXCEPT ![g] = FALSE]
               /\ UNCHANGED <<port, socket, handle, accept, control, services, ghosts>>

(* Remove: DEL_ONION of the service that the handle names, *)
SendDel(g) == /\ Exec(g, "remove", [op |-> "del", of |-> address[target[g]], key |-> None])
              /\ dels' = [dels EXCEPT ![target[g]] = @ + 1]
              /\ UNCHANGED <<port, socket, closed, handle, target, failed, accept, werr, up, stream,
                             services, told, lost>>

(* Faulty variant: Close does not keep the error of Remove. *)
RemoveFailsQuietly(g) == /\ Go(g, "remove", "unbind")
                         /\ UNCHANGED <<port, socket, closed, handle, target, failed, accept,
                                        control, services, ghosts>>

(* or a failure before anything is sent. *)
RemoveFails(g) == /\ Go(g, "remove", "unbind")
                  /\ failed' = [failed EXCEPT ![g] = TRUE]
                  /\ UNCHANGED <<port, socket, closed, handle, target, accept, control, services, ghosts>>

(* The reply to it, or none. *)
Removed(g) == /\ Go(g, "read", "unbind")
              /\ \/ /\ stream # <<>>
                    /\ stream' = Tail(stream)
                    /\ failed' = [failed EXCEPT ![g] = Reply.kind \in {"err", "badkey"}]
                    /\ UNCHANGED lost
                 \/ /\ UNCHANGED stream
                    /\ failed' = [failed EXCEPT ![g] = TRUE]
                    /\ lost' = TRUE
              /\ mu' = None
              /\ UNCHANGED <<port, socket, closed, handle, target, accept, werr, up, sent,
                             services, told, dels>>

(* The socket is closed whether Remove failed or not, and Close returns.   *)
Unbind(g) == /\ Go(g, "unbind", "idle")
             /\ socket' = socket \ {target[g]}
             /\ told' = IF failed[g] THEN told + 1 ELSE told
             /\ target' = [target EXCEPT ![g] = None]
             /\ failed' = [failed EXCEPT ![g] = FALSE]
             /\ UNCHANGED <<port, closed, handle, accept, control, services, lost, dels>>

(* --- TorListener.Accept --- *)

(* It looks at the flag, and then waits at the socket. *)
Accept(l) == /\ pc[l] = "listening"
             /\ accept[l] = "idle"
             /\ accept' = [accept EXCEPT ![l] = IF l \in closed THEN "ended" ELSE "waiting"]
             /\ UNCHANGED <<pc, port, socket, closed, handle, target, failed, control, services, ghosts>>

Accepted(l) == /\ accept[l] = "waiting"
               /\ l \in socket
               /\ accept' = [accept EXCEPT ![l] = "idle"]
               /\ UNCHANGED <<pc, port, socket, closed, handle, target, failed, control, services, ghosts>>

AcceptEnds(l) == /\ accept[l] = "waiting"
                 /\ l \notin socket
                 /\ accept' = [accept EXCEPT ![l] = "ended"]
                 /\ UNCHANGED <<pc, port, socket, closed, handle, target, failed, control, services, ghosts>>

(* --- the control connection, and Tor --- *)

(* Somebody's write is past its deadline. *)
WriteSpoilt == /\ mu = None /\ up /\ ~werr
               /\ werr' = TRUE
               /\ UNCHANGED <<pc, port, socket, closed, handle, target, failed, accept, mu, up,
                              sent, stream, services, ghosts>>

Command == Head(sent)

Running == {s.of : s \in services}

Answer(kind, of, k) == stream' = Append(stream, [kind |-> kind, of |-> of, key |-> k])

(* An ADD_ONION is for a new service, or for the one of its key, *)
Asked == IF Command.key = None THEN Command.of ELSE Command.key.of

(* which must not run yet; and the type of the key must be there once.     *)
(* Tor tells the key of a new service only. *)
TorAdds ==
  /\ Command.op = "add"
  /\ \/ /\ Command.key # None => Command.key.types = 1
        /\ Asked \notin Running
        /\ services' = services \cup {[of |-> Asked, by |-> Command.of]}
        /\ Answer("service", Asked,
                  IF Command.key = None THEN [of |-> Asked, types |-> 1] ELSE None)
     \/ /\ Command.key # None /\ Command.key.types = 1
        /\ Asked \in Running
        /\ UNCHANGED services
        /\ Answer("err", None, None)
     \/ /\ Command.key # None /\ Command.key.types # 1
        /\ UNCHANGED services
        /\ Answer("badkey", None, None)

TorDeletes == /\ Command.op = "del"
              /\ services' = {s \in services : s.of # Command.of}
              /\ Answer(IF Command.of \in Running THEN "ok" ELSE "err", None, None)

Tor == /\ up /\ sent # <<>>
       /\ sent' = Tail(sent)
       /\ TorAdds \/ TorDeletes
       /\ UNCHANGED <<pc, port, socket, closed, handle, target, failed, accept, mu, werr, up, ghosts>>

(* Client.Close, or Tor exits. *)
Disconnect == /\ up
              /\ up' = FALSE
              /\ services' = {}
              /\ sent' = <<>>
              /\ UNCHANGED <<pc, port, socket, closed, handle, target, failed, accept, mu, werr,
                             stream, ghosts>>

Listen(l) == \/ Bind(l) \/ BindFails(l) \/ CreateFails(l) \/ SendAdd(l)
             \/ Created(l) \/ NotCreated(l)

Closing(g) == SendDel(g) \/ RemoveFails(g) \/ Removed(g) \/ Unbind(g)

Next == \/ \E l \in Listeners : Listen(l) \/ SaveKey(l) \/ Accept(l) \/ Accepted(l) \/ AcceptEnds(l)
        \/ \E g \in Closers : Closing(g) \/ \E l \in Listeners : Close(g, l)
        \/ WriteSpoilt \/ Tor \/ Disconnect

(* Goroutines that can run do, the mutex is handed on, and execCommand     *)
(* gives up at its deadline.  Tor owes nothing.                            *)
Fairness == /\ \A l \in Listeners : /\ SF_vars(mu = None /\ (SendAdd(l) \/ CreateFails(l)))
                                    /\ WF_vars(Created(l) \/ NotCreated(l))
                                    /\ WF_vars(AcceptEnds(l))
            /\ \A g \in Closers : /\ SF_vars(mu = None /\ (SendDel(g) \/ RemoveFails(g)))
                                  /\ WF_vars(Removed(g)) /\ WF_vars(Unbind(g))

SafeSpec == Init /\ [][Next]_vars
Spec == SafeSpec /\ Fairness

(* --- Properties --- *)

Open == {l \in Listeners : pc[l] = "listening" /\ l \notin closed}
ClosingNow == {target[g] : g \in Closers} \ {None}

(* Values of the state.  The handle of a listener may have no key, also    *)
(* when Listen has returned it (hidden_service.go 256-273).                *)
TypeOK == /\ pc \in [Listeners \cup Closers -> {"idle", "create", "read", "listening", "failed",
                                              "remove", "unbind"}]
          /\ socket \subseteq Listeners /\ closed \subseteq Listeners
          /\ address \in [Listeners -> Onions \cup {None}]
          /\ key \in [Listeners -> Keys \cup {None}]
          /\ saved \subseteq Keys
          /\ target \in [Closers -> Listeners \cup {None}]
          /\ failed \in [Closers -> BOOLEAN]
          /\ accept \in [Listeners -> {"idle", "waiting", "ended"}]
          /\ mu \in Listeners \cup Closers \cup {None}
          /\ services \subseteq [of : Onions, by : Listeners]

(* A Listen that failed and a Close that returned have freed their port,   *)
(* whatever went wrong at the control connection (client.go 562-575,       *)
(* listener.go 103-114).                                                   *)
PortFreed == \A l \in socket : pc[l] # "failed" /\ (l \in closed => l \in ClosingNow)

(* However many goroutines close a listener, its service is deleted once:  *)
(* by then its address may be another listener's (listener.go 89-96).      *)
RemovedOnce == \A l \in Listeners : dels[l] <= 1

(* Services are not left behind silently, even when replies are lost and   *)
(* taken for others: there are no more of them than listeners that are     *)
(* open or on their way, deletions on their way, and calls that returned   *)
(* an error (client.go 571-575, listener.go 103-118).                      *)
NothingSilent ==
  Cardinality(services) <=
    Cardinality(Open) + Cardinality({l \in Listeners : pc[l] = "read"})
    + Cardinality({g \in Closers : pc[g] = "remove" \/ failed[g]})
    + Cardinality({i \in DOMAIN sent : sent[i].op = "del"}) + told

(* As long as no call gives up, the address of an open listener is that of *)
(* a service that Tor runs for this very listener, although others send    *)
(* commands at the same time (hidden_service.go 250-271).                  *)
HandleHonest == ~lost /\ up => \A l \in Open : [of |-> address[l], by |-> l] \in services

(* As long as no call gives up, an open listener's handle has the key of   *)
(* its own service, whether Tor told it or the configuration had it        *)
(* (hidden_service.go 255-273).  Afterwards it may have none, or that of   *)
(* another: a reply that is read too late says what it says, and only the  *)
(* name of the service is looked at.                                       *)
KeyHonest == ~lost => \A l \in Open : key[l] # None /\ key[l].of = address[l]

(* As long as no call fails or gives up, what connects to a service never  *)
(* reaches a later listener on the same port: the service goes before the  *)
(* socket does (listener.go 100-114).                                      *)
ForwardsHome == ~lost /\ told = 0 =>
  \A s \in services, l \in socket : port[l] = port[s.by] => l = s.by

(* A Tor that never answers, or answers somebody else, holds nobody for    *)
(* ever: Listen returns (hidden_service.go 250), Close returns (listener.go*)
(* 102), and an Accept that waits when Close is called gets its error,     *)
(* whatever becomes of the service (listener.go 80, 110-111).  A listener  *)
(* sees one Listen and one Close that does something, so whoever hangs in  *)
(* one is in it for good.                                                  *)
Hangs(l) == pc[l] \in {"create", "read"} \/ (l \in closed /\ accept[l] = "waiting")
CallsReturn ==
  []<>((\A l \in Listeners : ~Hangs(l)) /\ (\A g \in Closers : target[g] = None))

=============================================================================
