------------------------ MODULE HiddenService_proof ------------------------
(* Theorems about HiddenService.tla, for any listeners, closers and ports. *)
EXTENDS HiddenService, FiniteSetTheorems, FunctionTheorems, TLAPS

Processes == Listeners \cup Closers

KeySpecs == [of : Onions, types : Nat] \cup {None}
Commands == [op : {"add"}, of : Listeners, key : KeySpecs]
              \cup [op : {"del"}, of : Onions, key : {None}]
Replies == [kind : {"service"}, of : Onions, key : Keys \cup {None}]
             \cup [kind : {"ok", "err", "badkey"}, of : {None}, key : {None}]

PortValues == {None} \cup UNION {Ports[l] : l \in Listeners}

(* The types of all variables; and a listener that was returned names a    *)
(* service.                                                                *)
Typed ==
  /\ pc \in [Processes -> {"idle", "create", "read", "listening", "failed", "remove", "unbind"}]
  /\ port \in [Listeners -> PortValues]
  /\ socket \subseteq Listeners /\ closed \subseteq Listeners
  /\ address \in [Listeners -> Onions \cup {None}]
  /\ key \in [Listeners -> Keys \cup {None}]
  /\ saved \subseteq Keys
  /\ target \in [Closers -> Listeners \cup {None}]
  /\ failed \in [Closers -> BOOLEAN]
  /\ accept \in [Listeners -> {"idle", "waiting", "ended"}]
  /\ mu \in Processes \cup {None}
  /\ up \in BOOLEAN /\ lost \in BOOLEAN /\ told \in Nat
  /\ sent \in Seq(Commands) /\ stream \in Seq(Replies)
  /\ services \subseteq [of : Onions, by : Listeners]
  /\ dels \in [Listeners -> Nat]
  /\ \A l \in Listeners : pc[l] = "listening" => address[l] # None

(* Where listeners and closers are: a listener that is closed was          *)
(* returned by Listen, one goroutine at most is past the flag, and there   *)
(* is one as long as the socket is open.                                   *)
Places ==
  /\ \A l \in Listeners : pc[l] \in {"idle", "create", "read", "listening", "failed"}
  /\ \A g \in Closers : pc[g] \in {"idle", "remove", "read", "unbind"}
  /\ \A l \in socket : pc[l] \in {"create", "read", "listening"}
  /\ \A l \in Listeners : pc[l] \in {"create", "read"} => l \in socket
  /\ \A l \in closed : pc[l] = "listening"
  /\ \A l \in socket, k \in socket : port[l] = port[k] => l = k
  /\ \A l \in socket : l \in closed => \E g \in Closers : target[g] = l
  /\ \A g \in Closers : IF pc[g] = "idle" THEN target[g] = None ELSE target[g] \in closed
  /\ \A g \in Closers, h \in Closers : target[g] # None /\ target[g] = target[h] => g = h

(* A DEL_ONION is sent by the Close that is past the flag, and once. *)
Removals ==
  /\ \A l \in Listeners : dels[l] <= 1 /\ (l \notin closed => dels[l] = 0)
  /\ \A g \in Closers : pc[g] = "remove" => dels[target[g]] = 0

(* Who waits for a reply holds the mutex. *)
Reading == \A p \in Processes : pc[p] = "read" <=> mu = p

(* Until somebody gives up, one command at most is on its way, or its      *)
(* reply, and it is that of the goroutine that holds the mutex.            *)
AddWire(l) ==
  \/ sent = <<>> /\ stream = <<>> /\ ~up
  \/ sent = <<[op |-> "add", of |-> l, key |-> KeySpec(key[l])]>> /\ stream = <<>>
  \/ /\ sent = <<>>
     /\ \E kind \in {"err", "badkey"} : stream = <<[kind |-> kind, of |-> None, key |-> None]>>
  \/ /\ sent = <<>>
     /\ \E k \in Onions, q \in Keys \cup {None} :
          /\ stream = <<[kind |-> "service", of |-> k, key |-> q]>>
          /\ up => [of |-> k, by |-> l] \in services
          /\ IF q = None THEN key[l] # None /\ key[l].of = k ELSE q.of = k

DelWire(g) ==
  \/ sent = <<>> /\ stream = <<>> /\ ~up
  \/ sent = <<[op |-> "del", of |-> address[target[g]], key |-> None]>> /\ stream = <<>>
  \/ sent = <<>> /\ stream = <<[kind |-> "err", of |-> None, key |-> None]>>
  \/ /\ sent = <<>> /\ stream = <<[kind |-> "ok", of |-> None, key |-> None]>>
     /\ \A s \in services : s.by # target[g]

Wire == ~lost =>
  /\ mu = None => sent = <<>> /\ stream = <<>>
  /\ \A l \in Listeners : mu = l => AddWire(l)
  /\ \A g \in Closers : mu = g => DelWire(g)

(* Until then, no two services have the same address or the same listener, *)
(* and a listener that was returned knows the address of its service.      *)
Serving == ~lost =>
  /\ ~up => services = {}
  /\ \A s \in services, t \in services : s.of = t.of \/ s.by = t.by => s = t
  /\ \A s \in services : /\ pc[s.by] \in {"read", "listening", "failed"}
                         /\ pc[s.by] = "read" => sent = <<>>
                         /\ pc[s.by] = "listening" => s.of = address[s.by]

(* The service of a listener runs until its DEL_ONION has arrived. *)
Deleting(l) == \E g \in Closers : target[g] = l /\ (pc[g] = "remove" \/ (pc[g] = "read" /\ sent # <<>>))
Held == ~lost /\ up =>
  \A l \in Listeners : l \in Open \/ Deleting(l) => [of |-> address[l], by |-> l] \in services

(* Unless a call failed, a service has its socket, and a Close that is     *)
(* about to free it has failed.                                            *)
Homes == ~lost /\ told = 0 =>
  \A s \in services : /\ s.by \in socket
                      /\ \A g \in Closers : target[g] = s.by /\ pc[g] = "unbind" => failed[g]

(* Until somebody gives up, the key of a handle is that of its service.    *)
KeysKnown == ~lost =>
  \A l \in Listeners : pc[l] = "listening" => key[l] # None /\ key[l].of = address[l]

IInv == Typed /\ Places /\ Removals /\ Reading /\ Wire /\ Serving /\ Held /\ Homes /\ KeysKnown

LEMMA Distinct ==
  /\ None \notin Listeners /\ None \notin Onions /\ None \notin Closers /\ None \notin Keys
  /\ Listeners \cap Closers = {} /\ Listeners \subseteq Onions
BY HiddenServiceAssumption DEF Onions

(* Steps that change neither a service, nor a command, nor who is where. *)
Aside == /\ UNCHANGED <<pc, port, socket, closed, address, key, target, failed, mu, up, sent,
                        stream, services, ghosts>>
         /\ saved' \subseteq Keys
         /\ accept' \in [Listeners -> {"idle", "waiting", "ended"}]

(* The steps that matter, and the rest.                                   *)
LEMMA Moves ==
  ASSUME Typed, [Next]_vars
  PROVE  \/ \E l \in Listeners : \/ Bind(l) \/ BindFails(l) \/ CreateFails(l)
                                \/ SendAdd(l) \/ Created(l) \/ NotCreated(l)
         \/ \E g \in Closers, l \in Listeners : Close(g, l)
         \/ \E g \in Closers : SendDel(g) \/ RemoveFails(g) \/ Removed(g) \/ Unbind(g)
         \/ Tor \/ Disconnect \/ Aside
<1>1. ASSUME NEW l \in Listeners, SaveKey(l) PROVE Aside
  BY <1>1 DEF SaveKey, Aside, Typed, control, ghosts
<1>2. ASSUME NEW l \in Listeners, Accept(l) \/ Accepted(l) \/ AcceptEnds(l) PROVE Aside
  BY <1>2 DEF Accept, Accepted, AcceptEnds, Aside, Typed, control, handle, ghosts
<1>3. CASE WriteSpoilt
  BY <1>3 DEF WriteSpoilt, Aside, Typed, handle, ghosts
<1>4. CASE UNCHANGED vars
  BY <1>4 DEF Aside, Typed, vars, control, handle, ghosts
<1>5. QED BY <1>1, <1>2, <1>3, <1>4 DEF Next, Listen, Closing

LEMMA OneElement == ASSUME NEW x PROVE Head(<<x>>) = x /\ Tail(<<x>>) = <<>> /\ <<x>> # <<>>
OBVIOUS

LEMMA SeqElements ==
  ASSUME NEW S, NEW s \in Seq(S), s # <<>>
  PROVE  Head(s) \in S /\ Tail(s) \in Seq(S)
OBVIOUS

LEMMA KeySpecTyped ==
  ASSUME NEW k \in Keys \cup {None}
  PROVE  /\ KeySpec(k) \in KeySpecs
         /\ KeySpec(k) # None => k # None /\ KeySpec(k).of = k.of
<1>1. CASE k = None
  BY <1>1 DEF KeySpec, KeySpecs
<1>2. CASE k \in Keys
  BY <1>2, Distinct DEF KeySpec, KeySpecs, Keys
<1>3. QED BY <1>1, <1>2

(* Whoever reads holds the mutex, and is not the process that moves. *)
LEMMA WireFrame ==
  ASSUME Wire, UNCHANGED <<mu, up, sent, stream, services, lost>>,
         \A l \in Listeners : mu = l => key'[l] = key[l],
         \A g \in Closers : mu = g => target'[g] = target[g] /\ address'[target[g]] = address[target[g]]
  PROVE  Wire'
<1>1. ASSUME NEW l \in Listeners, mu = l, AddWire(l) PROVE AddWire(l)'
  BY <1>1 DEF AddWire
<1>2. ASSUME NEW g \in Closers, mu = g, DelWire(g) PROVE DelWire(g)'
  BY <1>2 DEF DelWire
<1>3. QED BY <1>1, <1>2 DEF Wire

(* The reply that the holder of the mutex reads is the only one. *)
LEMMA ReadAll ==
  ASSUME Wire, ~lost, NEW p \in Processes, mu = p, stream # <<>>, stream' = Tail(stream)
  PROVE  sent = <<>> /\ stream' = <<>> /\ stream = <<Reply>>
<1>1. CASE p \in Listeners
  BY <1>1, OneElement DEF Wire, AddWire, Reply
<1>2. CASE p \in Closers
  BY <1>2, OneElement DEF Wire, DelWire, Reply
<1>3. QED BY <1>1, <1>2 DEF Processes

(* The service that a Listen is told of is the one that Tor made for it,   *)
(* and the key is told with it unless the configuration had it.            *)
LEMMA OwnService ==
  ASSUME Reading, Wire, ~lost, NEW l \in Listeners, Created(l)
  PROVE  /\ up => [of |-> Reply.of, by |-> l] \in services
         /\ IF Reply.key = None THEN key[l] # None /\ key[l].of = Reply.of
            ELSE Reply.key.of = Reply.of
<1>1. mu = l /\ l \in Processes
  BY DEF Created, Go, Reading, Processes
<1>2. sent = <<>> /\ AddWire(l)
  BY <1>1, ReadAll DEF Created, Wire
<1>3. Reply.kind = "service" /\ Reply = Head(stream) /\ stream # <<>>
  BY DEF Created, Reply
<1>4. \A r : stream = <<r>> => Reply = r
  BY <1>3, OneElement
<1>5. PICK k \in Onions, q \in Keys \cup {None} :
             /\ stream = <<[kind |-> "service", of |-> k, key |-> q]>>
             /\ up => [of |-> k, by |-> l] \in services
             /\ IF q = None THEN key[l] # None /\ key[l].of = k ELSE q.of = k
  <2>1. ASSUME NEW kind \in {"err", "badkey"}
        PROVE  stream # <<[kind |-> kind, of |-> None, key |-> None]>>
    BY <1>3, <1>4
  <2>2. stream # <<>>
    BY <1>3
  <2>3. QED BY <1>2, <2>1, <2>2, Zenon DEF AddWire
<1>6. Reply.of = k /\ Reply.key = q
  BY <1>4, <1>5
<1>7. QED BY <1>5, <1>6

(* The command that Tor reads is that of the holder of the mutex, and the  *)
(* only one, and no reply is on its way.                                   *)
LEMMA TorReads ==
  ASSUME Typed, Reading, Wire, ~lost, sent # <<>>
  PROVE  /\ stream = <<>> /\ sent = <<Command>> /\ Tail(sent) = <<>>
         /\ \/ /\ mu \in Listeners /\ pc[mu] = "read"
               /\ Command = [op |-> "add", of |-> mu, key |-> KeySpec(key[mu])]
            \/ /\ mu \in Closers /\ pc[mu] = "read"
               /\ Command = [op |-> "del", of |-> address[target[mu]], key |-> None]
<1>1. mu \in Processes /\ mu # None
  BY DEF Typed, Wire
<1>2. pc[mu] = "read"
  BY <1>1 DEF Reading
<1>3. CASE mu \in Listeners
  <2>1. AddWire(mu)
    BY <1>3 DEF Wire
  <2>2. sent = <<[op |-> "add", of |-> mu, key |-> KeySpec(key[mu])]>> /\ stream = <<>>
    BY <2>1 DEF AddWire
  <2>3. QED BY <2>2, <1>2, <1>3, OneElement DEF Command
<1>4. CASE mu \in Closers
  <2>1. DelWire(mu)
    BY <1>4 DEF Wire
  <2>2. sent = <<[op |-> "del", of |-> address[target[mu]], key |-> None]>> /\ stream = <<>>
    BY <2>1 DEF DelWire
  <2>3. QED BY <2>2, <1>2, <1>4, OneElement DEF Command
<1>5. QED BY <1>1, <1>3, <1>4 DEF Processes

(* Every step keeps the types.                                            *)
LEMMA TypedKept ==
  ASSUME Typed, Places, Reading, [Next]_vars
  PROVE  Typed'
<1>1. ASSUME NEW l \in Listeners, Bind(l) PROVE Typed'
  <2>1. Loaded \subseteq Keys
    BY DEF Loaded, Keys, Typed
  <2>2. key' \in [Listeners -> Keys \cup {None}]
    BY <1>1, <2>1 DEF Bind, Typed
  <2>3. Ports[l] \subseteq PortValues
    BY DEF PortValues
  <2>4. port' \in [Listeners -> PortValues]
    BY <1>1, <2>3 DEF Bind, Typed
  <2>5. pc' = [pc EXCEPT ![l] = "create"] /\ socket' \subseteq Listeners
    BY <1>1 DEF Bind, Go, Typed
  <2>6. UNCHANGED <<closed, address, saved, target, failed, accept, mu, up, sent, stream, services,
                    told, lost, dels>>
    BY <1>1 DEF Bind, control, ghosts
  <2>7. \A k \in Listeners : pc'[k] = "listening" => address'[k] # None
    BY <2>5, <2>6 DEF Typed, Processes
  <2>8. QED BY <2>2, <2>4, <2>5, <2>6, <2>7 DEF Typed, Processes
<1>2. ASSUME NEW l \in Listeners, BindFails(l) PROVE Typed'
  BY <1>2 DEF BindFails, Go, Typed, Processes, control, handle, ghosts
<1>3. ASSUME NEW l \in Listeners, CreateFails(l) PROVE Typed'
  BY <1>3 DEF CreateFails, Fail, Typed, Processes, control, handle
<1>4. ASSUME NEW l \in Listeners, SendAdd(l) PROVE Typed'
  <2>1. [op |-> "add", of |-> l, key |-> KeySpec(key[l])] \in Commands
    BY KeySpecTyped DEF Commands, Typed
  <2>2. sent' \in Seq(Commands)
    BY <1>4, <2>1 DEF SendAdd, Exec, Typed
  <2>3. QED BY <1>4, <2>2, Distinct DEF SendAdd, Exec, Go, Typed,
       Processes, handle, ghosts
<1>5. ASSUME NEW l \in Listeners, Created(l) PROVE Typed'
  <2>1. stream' \in Seq(Replies) /\ Reply \in Replies
    BY <1>5, SeqElements DEF Created, Reply, Typed
  <2>2. Reply.of \in Onions /\ Reply.key \in Keys \cup {None}
    BY <1>5, <2>1 DEF Created, Replies
  <2>3. address' = [address EXCEPT ![l] = Reply.of]
    BY <1>5 DEF Created
  <2>4. key' \in [Listeners -> Keys \cup {None}]
    BY <1>5, <2>2 DEF Created, Typed
  <2>5. address' \in [Listeners -> Onions \cup {None}] /\ address'[l] # None
    BY <2>2, <2>3, Distinct DEF Typed
  <2>6. pc' = [pc EXCEPT ![l] = "listening"] /\ mu' = None
    BY <1>5 DEF Created, Go
  <2>7. \A k \in Listeners : pc'[k] = "listening" => address'[k] # None
    BY <2>3, <2>5, <2>6 DEF Typed, Processes
  <2>8. UNCHANGED <<port, socket, closed, saved, target, failed, accept, up, sent, services,
                    told, lost, dels>>
    BY <1>5 DEF Created, ghosts
  <2>9. QED BY <2>1, <2>4, <2>5, <2>6, <2>7, <2>8 DEF Typed, Processes
<1>6. ASSUME NEW l \in Listeners, NotCreated(l) PROVE Typed'
  <2>1. stream' \in Seq(Replies)
    BY <1>6, SeqElements DEF NotCreated, Typed
  <2>2. pc' = [pc EXCEPT ![l] = "failed"] /\ mu' = None
    BY <1>6 DEF NotCreated, Fail
  <2>3. lost' \in BOOLEAN
    BY <1>6 DEF NotCreated, Typed
  <2>4. told' = told + 1 /\ socket' = socket \ {l}
    BY <1>6 DEF NotCreated, Fail
  <2>5. told' \in Nat /\ socket' \subseteq Listeners
    BY <2>4 DEF Typed
  <2>6. UNCHANGED <<port, closed, address, key, saved, target, failed, accept, up, sent, services,
                    dels>>
    BY <1>6 DEF NotCreated, handle
  <2>7. QED BY <2>1, <2>2, <2>3, <2>5, <2>6 DEF Typed, Processes
<1>7. ASSUME NEW g \in Closers, NEW l \in Listeners, Close(g, l) PROVE Typed'
  BY <1>7 DEF Close, Go, Typed, Processes, control, handle, ghosts
<1>8. ASSUME NEW g \in Closers, SendDel(g) PROVE Typed'
  <2>1. target[g] \in Listeners /\ address[target[g]] \in Onions
    BY <1>8 DEF SendDel, Exec, Go, Typed, Places
  <2>2. [op |-> "del", of |-> address[target[g]], key |-> None] \in Commands
    BY <2>1 DEF Commands
  <2>3. sent' \in Seq(Commands)
    BY <1>8, <2>2 DEF SendDel, Exec, Typed
  <2>4. QED BY <1>8, <2>1, <2>3, Distinct DEF SendDel, Exec, Go,
       Typed, Processes, handle
<1>9. ASSUME NEW g \in Closers, RemoveFails(g) PROVE Typed'
  BY <1>9 DEF RemoveFails, Go, Typed, Processes, control, handle, ghosts
<1>10. ASSUME NEW g \in Closers, Removed(g) PROVE Typed'
  <2>1. \/ stream # <<>> /\ stream' = Tail(stream)
        \/ UNCHANGED stream
    BY <1>10 DEF Removed
  <2>2. stream' \in Seq(Replies)
    BY <2>1, SeqElements DEF Typed
  <2>3. pc' = [pc EXCEPT ![g] = "unbind"] /\ mu' = None
    BY <1>10 DEF Removed, Go
  <2>4. \/ failed' = [failed EXCEPT ![g] = Reply.kind \in {"err", "badkey"}]
        \/ failed' = [failed EXCEPT ![g] = TRUE]
    BY <1>10 DEF Removed
  <2>5. (Reply.kind \in {"err", "badkey"}) \in BOOLEAN
    OBVIOUS
  <2>6. lost' = lost \/ lost' = TRUE
    BY <1>10 DEF Removed
  <2>7. failed' \in [Closers -> BOOLEAN] /\ lost' \in BOOLEAN
    BY <2>4, <2>5, <2>6, Zenon DEF Typed
  <2>8. UNCHANGED <<port, socket, closed, address, key, saved, target, accept, up, sent, services,
                    told, dels>>
    BY <1>10 DEF Removed, handle
  <2>9. \A l \in Listeners : pc'[l] = "listening" => pc[l] = "listening"
    BY <2>3 DEF Typed, Processes
  <2>10. QED BY <2>2, <2>3, <2>7, <2>8, <2>9 DEF Typed, Processes
<1>11. ASSUME NEW g \in Closers, Unbind(g) PROVE Typed'
  BY <1>11 DEF Unbind, Go, Typed, Processes, control, handle
<1>12. CASE Tor
  <2>1. sent' \in Seq(Commands) /\ Command \in Commands
    BY <1>12, SeqElements DEF Tor, Command, Typed
  <2>2. /\ services' \subseteq [of : Onions, by : Listeners]
        /\ stream' \in Seq(Replies)
    <3>1. CASE TorAdds
      <4>1. Command.of \in Listeners /\ (Command.key # None => Command.key.of \in Onions)
        BY <2>1, <3>1 DEF Commands, KeySpecs, TorAdds
      <4>2. Asked \in Onions
        BY <4>1, Distinct DEF Asked
      <4>3. services' = services \/ services' = services \cup {[of |-> Asked, by |-> Command.of]}
        BY <3>1 DEF TorAdds
      <4>4. [of |-> Asked, types |-> 1] \in Keys
        BY <4>2 DEF Keys
      <4>5. \A k \in Keys \cup {None} : [kind |-> "service", of |-> Asked, key |-> k] \in Replies
        BY <4>2 DEF Replies
      <4>6. \A kind \in {"err", "badkey"} : [kind |-> kind, of |-> None, key |-> None] \in Replies
        BY DEF Replies
      <4>7. \E reply \in Replies : stream' = Append(stream, reply)
        BY <3>1, <4>4, <4>5, <4>6 DEF TorAdds, Answer
      <4>8. services' \subseteq [of : Onions, by : Listeners]
        BY <4>1, <4>2, <4>3 DEF Typed
      <4>9. stream' \in Seq(Replies)
        BY <4>7 DEF Typed
      <4>10. QED BY <4>8, <4>9
    <3>2. CASE TorDeletes
      <4>1. \A kind \in {"ok", "err"} : [kind |-> kind, of |-> None, key |-> None] \in Replies
        BY DEF Replies
      <4>2. QED BY <3>2, <4>1 DEF TorDeletes, Answer, Typed
    <3>3. QED BY <1>12, <3>1, <3>2 DEF Tor
  <2>3. UNCHANGED <<pc, port, socket, closed, address, key, saved, target, failed, accept, mu, up,
                    told, lost, dels>>
    BY <1>12 DEF Tor, handle, ghosts
  <2>4. QED BY <2>1, <2>2, <2>3 DEF Typed
<1>13. CASE Disconnect
  <2>1. sent' \in Seq(Commands) /\ services' = {} /\ up' = FALSE
    BY <1>13 DEF Disconnect
  <2>2. UNCHANGED <<pc, port, socket, closed, address, key, saved, target, failed, accept, mu,
                    stream, told, lost, dels>>
    BY <1>13 DEF Disconnect, handle, ghosts
  <2>3. QED BY <2>1, <2>2 DEF Typed
<1>14. CASE Aside
  BY <1>14 DEF Aside, Typed, ghosts
<1>15. QED
  BY <1>1, <1>2, <1>3, <1>4, <1>5, <1>6, <1>7, <1>8, <1>9, <1>10, <1>11, <1>12, <1>13,
     <1>14, Moves

(* Every step keeps listeners and closers where they may be.              *)
LEMMA PlacesKept ==
  ASSUME Typed, Places, [Next]_vars
  PROVE  Places'
<1>1. ASSUME NEW l \in Listeners, Bind(l) PROVE Places'
  BY <1>1, Distinct DEF Bind, Go, Typed, Places, Processes, Taken
<1>2. ASSUME NEW l \in Listeners, BindFails(l) PROVE Places'
  BY <1>2, Distinct DEF BindFails, Go, Places
<1>3. ASSUME NEW l \in Listeners, CreateFails(l) PROVE Places'
  BY <1>3 DEF CreateFails, Fail, Typed, Places, Processes
<1>4. ASSUME NEW l \in Listeners, SendAdd(l) PROVE Places'
  BY <1>4 DEF SendAdd, Exec, Go, Places
<1>5. ASSUME NEW l \in Listeners, Created(l) PROVE Places'
  BY <1>5, Distinct DEF Created, Go, Places
<1>6. ASSUME NEW l \in Listeners, NotCreated(l) PROVE Places'
  BY <1>6, Distinct DEF NotCreated, Fail, Typed, Places, Processes
<1>7. ASSUME NEW g \in Closers, NEW l \in Listeners, Close(g, l) PROVE Places'
  BY <1>7, Distinct DEF Close, Go, Typed, Places, Processes
<1>8. ASSUME NEW g \in Closers, SendDel(g) PROVE Places'
  BY <1>8 DEF SendDel, Exec, Go, Places
<1>9. ASSUME NEW g \in Closers, RemoveFails(g) PROVE Places'
  BY <1>9 DEF RemoveFails, Go, Places
<1>10. ASSUME NEW g \in Closers, Removed(g) PROVE Places'
  BY <1>10, Distinct DEF Removed, Go, Typed, Places
<1>11. ASSUME NEW g \in Closers, Unbind(g) PROVE Places'
  <2>1. /\ pc[g] = "unbind" /\ target[g] \in closed
        /\ pc' = [pc EXCEPT ![g] = "idle"] /\ target' = [target EXCEPT ![g] = None]
        /\ socket' = socket \ {target[g]}
        /\ UNCHANGED <<port, closed>>
    BY <1>11 DEF Unbind, Go, Places
  <2>2. \A l \in Listeners : pc'[l] = pc[l]
    BY <2>1, Distinct DEF Typed, Processes
  <2>3. \A h \in Closers : IF h = g THEN pc'[h] = "idle" /\ target'[h] = None
                           ELSE pc'[h] = pc[h] /\ target'[h] = target[h]
    BY <2>1 DEF Typed, Processes
  <2>4. \A l \in Listeners : pc[l] \in {"create", "read"} => l \in socket'
    BY <2>1 DEF Places
  <2>5. \A l \in socket' : l \in closed => \E h \in Closers : target'[h] = l
    BY <2>1, <2>3 DEF Places
  <2>6. QED BY <2>1, <2>2, <2>3, <2>4, <2>5 DEF Places, Typed
<1>12. CASE Tor
  BY <1>12 DEF Tor, Places
<1>13. CASE Disconnect
  BY <1>13 DEF Disconnect, Places
<1>14. CASE Aside
  BY <1>14 DEF Aside, Places
<1>15. QED
  BY <1>1, <1>2, <1>3, <1>4, <1>5, <1>6, <1>7, <1>8, <1>9, <1>10, <1>11, <1>12, <1>13,
     <1>14, Moves

(* No step sends a second DEL_ONION for a listener.                       *)
LEMMA RemovalsKept ==
  ASSUME Typed, Places, Removals, [Next]_vars
  PROVE  Removals'
<1>1. ASSUME NEW l \in Listeners, Bind(l) PROVE Removals'
  BY <1>1 DEF Bind, Go, Removals, ghosts
<1>2. ASSUME NEW l \in Listeners, BindFails(l) PROVE Removals'
  BY <1>2 DEF BindFails, Go, Removals, ghosts
<1>3. ASSUME NEW l \in Listeners, CreateFails(l) PROVE Removals'
  BY <1>3 DEF CreateFails, Fail, Removals
<1>4. ASSUME NEW l \in Listeners, SendAdd(l) PROVE Removals'
  BY <1>4 DEF SendAdd, Exec, Go, Removals, ghosts
<1>5. ASSUME NEW l \in Listeners, Created(l) PROVE Removals'
  BY <1>5 DEF Created, Go, Removals, ghosts
<1>6. ASSUME NEW l \in Listeners, NotCreated(l) PROVE Removals'
  BY <1>6 DEF NotCreated, Fail, Removals
<1>7. ASSUME NEW g \in Closers, NEW l \in Listeners, Close(g, l) PROVE Removals'
  BY <1>7 DEF Close, Go, Typed, Removals, ghosts
<1>8. ASSUME NEW g \in Closers, SendDel(g) PROVE Removals'
  BY <1>8, Distinct DEF SendDel, Exec, Go, Typed, Places, Removals,
       Processes
<1>9. ASSUME NEW g \in Closers, RemoveFails(g) PROVE Removals'
  BY <1>9 DEF RemoveFails, Go, Removals, ghosts
<1>10. ASSUME NEW g \in Closers, Removed(g) PROVE Removals'
  BY <1>10 DEF Removed, Go, Removals
<1>11. ASSUME NEW g \in Closers, Unbind(g) PROVE Removals'
  BY <1>11 DEF Unbind, Go, Removals
<1>12. CASE Tor
  BY <1>12 DEF Tor, Removals, ghosts
<1>13. CASE Disconnect
  BY <1>13 DEF Disconnect, Removals, ghosts
<1>14. CASE Aside
  BY <1>14 DEF Aside, Removals, ghosts
<1>15. QED
  BY <1>1, <1>2, <1>3, <1>4, <1>5, <1>6, <1>7, <1>8, <1>9, <1>10, <1>11, <1>12, <1>13,
     <1>14, Moves

(* The mutex is taken to send and given back with the reply.              *)
LEMMA ReadingKept ==
  ASSUME Typed, Places, Reading, [Next]_vars
  PROVE  Reading'
<1>1. ASSUME NEW l \in Listeners, Bind(l) PROVE Reading'
  BY <1>1 DEF Bind, Go, Reading, control
<1>2. ASSUME NEW l \in Listeners, BindFails(l) PROVE Reading'
  BY <1>2 DEF BindFails, Go, Reading, control
<1>3. ASSUME NEW l \in Listeners, CreateFails(l) PROVE Reading'
  BY <1>3 DEF CreateFails, Fail, Reading, control
<1>4. ASSUME NEW l \in Listeners, SendAdd(l) PROVE Reading'
  BY <1>4, Distinct DEF SendAdd, Exec, Go, Typed, Reading, Processes
<1>5. ASSUME NEW l \in Listeners, Created(l) PROVE Reading'
  BY <1>5, Distinct DEF Created, Go, Typed, Reading, Processes
<1>6. ASSUME NEW l \in Listeners, NotCreated(l) PROVE Reading'
  BY <1>6, Distinct DEF NotCreated, Fail, Typed, Reading, Processes
<1>7. ASSUME NEW g \in Closers, NEW l \in Listeners, Close(g, l) PROVE Reading'
  BY <1>7 DEF Close, Go, Reading, control
<1>8. ASSUME NEW g \in Closers, SendDel(g) PROVE Reading'
  BY <1>8, Distinct DEF SendDel, Exec, Go, Typed, Reading, Processes
<1>9. ASSUME NEW g \in Closers, RemoveFails(g) PROVE Reading'
  BY <1>9 DEF RemoveFails, Go, Reading, control
<1>10. ASSUME NEW g \in Closers, Removed(g) PROVE Reading'
  BY <1>10, Distinct DEF Removed, Go, Typed, Reading, Processes
<1>11. ASSUME NEW g \in Closers, Unbind(g) PROVE Reading'
  BY <1>11 DEF Unbind, Go, Reading, control
<1>12. CASE Tor
  BY <1>12 DEF Tor, Reading
<1>13. CASE Disconnect
  BY <1>13 DEF Disconnect, Reading
<1>14. CASE Aside
  BY <1>14 DEF Aside, Reading
<1>15. QED
  BY <1>1, <1>2, <1>3, <1>4, <1>5, <1>6, <1>7, <1>8, <1>9, <1>10, <1>11, <1>12, <1>13,
     <1>14, Moves

(* Every step keeps the one command or reply on the wire.                 *)
LEMMA WireKept ==
  ASSUME Typed, Places, Reading, Wire, Serving, [Next]_vars
  PROVE  Wire'
<1>1. ASSUME NEW l \in Listeners, Bind(l) PROVE Wire'
  <2>1. UNCHANGED <<mu, up, sent, stream, services, lost>>
    BY <1>1 DEF Bind, Go, control, ghosts
  <2>2. \A k \in Listeners : mu = k => key'[k] = key[k]
    BY <1>1, Distinct DEF Bind, Go, Typed, Reading, Processes, handle
  <2>3. \A h \in Closers : mu = h => target'[h] = target[h] /\ address'[target[h]] = address[target[h]]
    BY <1>1, Distinct DEF Bind, Go, Typed, Places, Reading, Processes, handle
  <2>4. QED BY <2>1, <2>2, <2>3, WireFrame
<1>2. ASSUME NEW l \in Listeners, BindFails(l) PROVE Wire'
  <2>1. UNCHANGED <<mu, up, sent, stream, services, lost>>
    BY <1>2 DEF BindFails, Go, control, ghosts
  <2>2. \A k \in Listeners : mu = k => key'[k] = key[k]
    BY <1>2, Distinct DEF BindFails, Go, Typed, Reading, Processes, handle
  <2>3. \A h \in Closers : mu = h => target'[h] = target[h] /\ address'[target[h]] = address[target[h]]
    BY <1>2, Distinct DEF BindFails, Go, Typed, Places, Reading,
         Processes, handle
  <2>4. QED BY <2>1, <2>2, <2>3, WireFrame
<1>3. ASSUME NEW l \in Listeners, CreateFails(l) PROVE Wire'
  <2>1. UNCHANGED <<mu, up, sent, stream, services, lost>>
    BY <1>3 DEF CreateFails, Fail, control, ghosts
  <2>2. \A k \in Listeners : mu = k => key'[k] = key[k]
    BY <1>3, Distinct DEF CreateFails, Fail, Typed, Reading,
         Processes, handle
  <2>3. \A h \in Closers : mu = h => target'[h] = target[h] /\ address'[target[h]] = address[target[h]]
    BY <1>3, Distinct DEF CreateFails, Fail, Typed, Places, Reading,
         Processes, handle
  <2>4. QED BY <2>1, <2>2, <2>3, WireFrame
<1>4. ASSUME NEW l \in Listeners, SendAdd(l) PROVE Wire'
  BY <1>4, Distinct DEF SendAdd, Exec, Wire, AddWire, handle, ghosts
<1>5. ASSUME NEW l \in Listeners, Created(l) PROVE Wire'
  <2>1. mu = l /\ mu' = None /\ l \in Processes
    BY <1>5 DEF Created, Go, Reading, Processes
  <2>2. ~lost => sent = <<>> /\ stream' = <<>>
    BY <1>5, <2>1, ReadAll DEF Created
  <2>3. UNCHANGED <<sent, lost>>
    BY <1>5 DEF Created, ghosts
  <2>4. QED BY <2>1, <2>2, <2>3, Distinct DEF Wire
<1>6. ASSUME NEW l \in Listeners, NotCreated(l) PROVE Wire'
  <2>1. mu = l /\ mu' = None /\ l \in Processes
    BY <1>6 DEF NotCreated, Reading, Processes
  <2>2. ~lost' => sent = <<>> /\ stream' = <<>>
    BY <1>6, <2>1, ReadAll DEF NotCreated
  <2>3. UNCHANGED sent
    BY <1>6 DEF NotCreated
  <2>4. QED BY <2>1, <2>2, <2>3, Distinct DEF Wire
<1>7. ASSUME NEW g \in Closers, NEW l \in Listeners, Close(g, l) PROVE Wire'
  <2>1. UNCHANGED <<mu, up, sent, stream, services, lost>>
    BY <1>7 DEF Close, Go, control, ghosts
  <2>2. \A k \in Listeners : mu = k => key'[k] = key[k]
    BY <1>7, Distinct DEF Close, Go, Typed, Reading, Processes, handle
  <2>3. \A h \in Closers : mu = h => target'[h] = target[h] /\ address'[target[h]] = address[target[h]]
    BY <1>7, Distinct DEF Close, Go, Typed, Places, Reading,
         Processes, handle
  <2>4. QED BY <2>1, <2>2, <2>3, WireFrame
<1>8. ASSUME NEW g \in Closers, SendDel(g) PROVE Wire'
  BY <1>8, Distinct DEF SendDel, Exec, Wire, DelWire, handle
<1>9. ASSUME NEW g \in Closers, RemoveFails(g) PROVE Wire'
  <2>1. UNCHANGED <<mu, up, sent, stream, services, lost>>
    BY <1>9 DEF RemoveFails, Go, control, ghosts
  <2>2. \A k \in Listeners : mu = k => key'[k] = key[k]
    BY <1>9, Distinct DEF RemoveFails, Go, Typed, Reading, Processes, handle
  <2>3. \A h \in Closers : mu = h => target'[h] = target[h] /\ address'[target[h]] = address[target[h]]
    BY <1>9, Distinct DEF RemoveFails, Go, Typed, Places, Reading,
         Processes, handle
  <2>4. QED BY <2>1, <2>2, <2>3, WireFrame
<1>10. ASSUME NEW g \in Closers, Removed(g) PROVE Wire'
  BY <1>10, Distinct DEF Removed, Go, Reply, Typed, Places, Reading,
       Wire, DelWire, Serving, Processes, handle
<1>11. ASSUME NEW g \in Closers, Unbind(g) PROVE Wire'
  <2>1. UNCHANGED <<mu, up, sent, stream, services, lost>>
    BY <1>11 DEF Unbind, Go, control, ghosts
  <2>2. \A k \in Listeners : mu = k => key'[k] = key[k]
    BY <1>11, Distinct DEF Unbind, Go, Typed, Reading, Processes, handle
  <2>3. \A h \in Closers : mu = h => target'[h] = target[h] /\ address'[target[h]] = address[target[h]]
    BY <1>11, Distinct DEF Unbind, Go, Typed, Places, Reading,
         Processes, handle
  <2>4. QED BY <2>1, <2>2, <2>3, WireFrame
<1>12. CASE Tor
  <2>0. SUFFICES ASSUME ~lost'
                 PROVE  Wire'
    BY DEF Wire
  <2>1. /\ ~lost /\ up /\ sent # <<>> /\ sent' = <<>>
        /\ UNCHANGED <<pc, port, socket, closed, address, key, target, failed, mu, up, told, lost>>
    BY <1>12, <2>0, TorReads DEF Tor, handle, ghosts
  <2>2. stream = <<>>
    BY <2>1, TorReads
  <2>3. CASE /\ mu \in Listeners /\ pc[mu] = "read"
             /\ Command = [op |-> "add", of |-> mu, key |-> KeySpec(key[mu])]
    <3>1. TorAdds
      BY <1>12, <2>3 DEF Tor, TorDeletes
    <3>2. \/ \E k \in Onions, q \in Keys \cup {None} :
               /\ stream' = <<[kind |-> "service", of |-> k, key |-> q]>>
               /\ [of |-> k, by |-> mu] \in services'
               /\ IF q = None THEN key[mu] # None /\ key[mu].of = k ELSE q.of = k
          \/ \E kind \in {"err", "badkey"} :
               stream' = <<[kind |-> kind, of |-> None, key |-> None]>>
      <4>1. /\ Command.of = mu
            /\ Command.key \in KeySpecs
            /\ Command.key # None => key[mu] # None /\ Command.key.of = key[mu].of
        BY <2>3, KeySpecTyped DEF Typed
      <4>2. Asked \in Onions /\ (Command.key # None => Asked = key[mu].of)
        BY <2>3, <4>1, Distinct DEF Asked, KeySpecs
      <4>3. [of |-> Asked, types |-> 1] \in Keys /\ [of |-> Asked, types |-> 1] # None
        BY <4>2, Distinct DEF Keys
      <4>4. \A r : Append(stream, r) = <<r>>
        BY <2>2
      <4>5. CASE \E kind \in {"err", "badkey"} : Answer(kind, None, None)
        BY <4>4, <4>5 DEF Answer
      <4>6. CASE /\ [of |-> Asked, by |-> mu] \in services'
                 /\ Answer("service", Asked,
                           IF Command.key = None THEN [of |-> Asked, types |-> 1] ELSE None)
        <5>1. PICK q \in Keys \cup {None} :
                /\ q = IF Command.key = None THEN [of |-> Asked, types |-> 1] ELSE None
                /\ Answer("service", Asked, q)
          BY <4>3, <4>6
        <5>2. IF q = None THEN key[mu] # None /\ key[mu].of = Asked ELSE q.of = Asked
          BY <4>1, <4>2, <4>3, <5>1
        <5>3. stream' = <<[kind |-> "service", of |-> Asked, key |-> q]>>
          BY <4>4, <5>1 DEF Answer
        <5>4. QED BY <4>2, <4>6, <5>2, <5>3
      <4>7. QED BY <3>1, <4>1, <4>5, <4>6 DEF TorAdds
    <3>3. AddWire(mu)'
      BY <2>1, <3>2 DEF AddWire
    <3>4. QED BY <2>1, <2>3, <3>3, Distinct DEF Wire
  <2>4. CASE /\ mu \in Closers /\ pc[mu] = "read"
             /\ Command = [op |-> "del", of |-> address[target[mu]], key |-> None]
    <3>1. TorDeletes
      BY <1>12, <2>4 DEF Tor, TorAdds
    <3>2. target[mu] \in Listeners /\ pc[target[mu]] = "listening"
      BY <2>4 DEF Places, Typed
    <3>3. \A s \in services' : s.by # target[mu]
      BY <2>1, <2>4, <3>1, <3>2 DEF TorDeletes, Serving, Typed
    <3>4. \E kind \in {"ok", "err"} : stream' = <<[kind |-> kind, of |-> None, key |-> None]>>
      BY <3>1, <2>2 DEF TorDeletes, Answer
    <3>5. DelWire(mu)'
      BY <2>1, <3>3, <3>4 DEF DelWire
    <3>6. QED BY <2>1, <2>4, <3>5, Distinct DEF Wire
  <2>5. QED BY <2>1, <2>3, <2>4, TorReads
<1>13. CASE Disconnect
  <2>1. /\ sent' = <<>> /\ up' = FALSE /\ services' = {}
        /\ UNCHANGED <<mu, stream, key, address, target, lost>>
    BY <1>13 DEF Disconnect, handle, ghosts
  <2>2. ASSUME NEW l \in Listeners, AddWire(l) PROVE AddWire(l)'
    <3>1. stream = <<>> \/ sent = <<>>
      BY <2>2 DEF AddWire
    <3>2. CASE stream = <<>>
      BY <2>1, <3>2 DEF AddWire
    <3>3. CASE stream # <<>>
      BY <2>1, <2>2, <3>3, Zenon DEF AddWire
    <3>4. QED BY <3>2, <3>3
  <2>3. ASSUME NEW g \in Closers, DelWire(g) PROVE DelWire(g)'
    BY <2>1, <2>3 DEF DelWire
  <2>4. QED BY <2>1, <2>2, <2>3 DEF Wire
<1>14. CASE Aside
  BY <1>14 DEF Aside, Wire, AddWire, DelWire, ghosts
<1>15. QED
  BY <1>1, <1>2, <1>3, <1>4, <1>5, <1>6, <1>7, <1>8, <1>9, <1>10, <1>11, <1>12, <1>13,
     <1>14, Moves

(* Every step keeps services apart.                                       *)
LEMMA ServingKept ==
  ASSUME Typed, Places, Reading, Wire, Serving, [Next]_vars
  PROVE  Serving'
<1>1. ASSUME NEW l \in Listeners, Bind(l) PROVE Serving'
  BY <1>1 DEF Bind, Go, Serving, control, ghosts
<1>2. ASSUME NEW l \in Listeners, BindFails(l) PROVE Serving'
  BY <1>2 DEF BindFails, Go, Serving, control, handle, ghosts
<1>3. ASSUME NEW l \in Listeners, CreateFails(l) PROVE Serving'
  BY <1>3 DEF CreateFails, Fail, Serving, control, handle
<1>4. ASSUME NEW l \in Listeners, SendAdd(l) PROVE Serving'
  BY <1>4, Distinct DEF SendAdd, Exec, Go, Typed, Reading, Serving,
       Processes, handle, ghosts
<1>5. ASSUME NEW l \in Listeners, Created(l) PROVE Serving'
  <2>0. SUFFICES ASSUME ~lost'
                 PROVE  Serving'
    BY DEF Serving
  <2>1. ~lost /\ mu = l /\ UNCHANGED <<up, sent, services>>
    BY <1>5, <2>0 DEF Created, Go, Reading, Processes, ghosts
  <2>2. sent = <<>> /\ stream = <<Reply>>
    BY <1>5, <2>1, ReadAll DEF Created, Processes
  <2>3. up => [of |-> Reply.of, by |-> l] \in services
    BY <1>5, <2>1, OwnService
  <2>4. /\ pc' = [pc EXCEPT ![l] = "listening"]
        /\ address' = [address EXCEPT ![l] = Reply.of]
    BY <1>5 DEF Created, Go
  <2>5. \A s \in services : s.by = l => s.of = Reply.of
    BY <2>1, <2>3 DEF Serving
  <2>6. QED BY <2>1, <2>2, <2>4, <2>5 DEF Serving, Typed, Processes
<1>6. ASSUME NEW l \in Listeners, NotCreated(l) PROVE Serving'
  BY <1>6 DEF NotCreated, Fail, Serving, handle
<1>7. ASSUME NEW g \in Closers, NEW l \in Listeners, Close(g, l) PROVE Serving'
  BY <1>7 DEF Close, Go, Serving, control, handle, ghosts
<1>8. ASSUME NEW g \in Closers, SendDel(g) PROVE Serving'
  BY <1>8, Distinct DEF SendDel, Exec, Go, Typed, Reading, Serving,
       Processes, handle
<1>9. ASSUME NEW g \in Closers, RemoveFails(g) PROVE Serving'
  BY <1>9 DEF RemoveFails, Go, Serving, control, handle, ghosts
<1>10. ASSUME NEW g \in Closers, Removed(g) PROVE Serving'
  BY <1>10, Distinct DEF Removed, Go, Typed, Serving, handle
<1>11. ASSUME NEW g \in Closers, Unbind(g) PROVE Serving'
  BY <1>11 DEF Unbind, Go, Serving, control, handle
<1>12. CASE Tor
  <2>0. SUFFICES ASSUME ~lost'
                 PROVE  Serving'
    BY DEF Serving
  <2>1. /\ ~lost /\ up /\ sent # <<>> /\ sent' = <<>>
        /\ UNCHANGED <<pc, port, socket, closed, address, key, target, failed, mu, up, told, lost>>
    BY <1>12, <2>0, TorReads DEF Tor, handle, ghosts
  <2>2. stream = <<>>
    BY <2>1, TorReads
  <2>3. CASE /\ mu \in Listeners /\ pc[mu] = "read"
             /\ Command = [op |-> "add", of |-> mu, key |-> KeySpec(key[mu])]
    <3>1. TorAdds
      BY <1>12, <2>3 DEF Tor, TorDeletes
    <3>2. \A s \in services : s.by # mu
      BY <2>1, <2>3 DEF Serving
    <3>3. \/ services' = services
          \/ Asked \notin Running /\ services' = services \cup {[of |-> Asked, by |-> mu]}
      BY <3>1, <2>3 DEF TorAdds
    <3>4. QED BY <2>1, <2>3, <3>2, <3>3 DEF Serving, Running
  <2>4. CASE /\ mu \in Closers /\ pc[mu] = "read"
             /\ Command = [op |-> "del", of |-> address[target[mu]], key |-> None]
    <3>1. services' \subseteq services
      BY <1>12, <2>4 DEF Tor, TorAdds, TorDeletes
    <3>2. QED BY <2>1, <3>1 DEF Serving
  <2>5. QED BY <2>1, <2>3, <2>4, TorReads
<1>13. CASE Disconnect
  BY <1>13 DEF Disconnect, Serving
<1>14. CASE Aside
  BY <1>14 DEF Aside, Serving, ghosts
<1>15. QED
  BY <1>1, <1>2, <1>3, <1>4, <1>5, <1>6, <1>7, <1>8, <1>9, <1>10, <1>11, <1>12, <1>13,
     <1>14, Moves

(* No step takes the service of an open listener away.                    *)
LEMMA HeldKept ==
  ASSUME Typed, Places, Reading, Wire, Serving, Held, [Next]_vars
  PROVE  Held'
<1>1. ASSUME NEW l \in Listeners, Bind(l) PROVE Held'
  BY <1>1 DEF Bind, Go, Held, Open, Deleting, control, ghosts
<1>2. ASSUME NEW l \in Listeners, BindFails(l) PROVE Held'
  BY <1>2 DEF BindFails, Go, Held, Open, Deleting, control, handle, ghosts
<1>3. ASSUME NEW l \in Listeners, CreateFails(l) PROVE Held'
  BY <1>3 DEF CreateFails, Fail, Held, Open, Deleting, control, handle
<1>4. ASSUME NEW l \in Listeners, SendAdd(l) PROVE Held'
  BY <1>4, Distinct DEF SendAdd, Exec, Go, Reading, Held, Open,
       Deleting, Processes, handle, ghosts
<1>5. ASSUME NEW l \in Listeners, Created(l) PROVE Held'
  <2>0. SUFFICES ASSUME ~lost', up'
                 PROVE  Held'
    BY DEF Held
  <2>1. ~lost /\ up /\ mu = l /\ UNCHANGED <<sent, services, target, closed>>
    BY <1>5, <2>0 DEF Created, Go, Reading, Processes, ghosts
  <2>2. stream = <<Reply>> /\ sent = <<>>
    BY <1>5, <2>1, ReadAll DEF Created, Processes
  <2>3. [of |-> Reply.of, by |-> l] \in services
    BY <1>5, <2>1, OwnService
  <2>4. /\ pc' = [pc EXCEPT ![l] = "listening"]
        /\ address' = [address EXCEPT ![l] = Reply.of]
    BY <1>5 DEF Created, Go
  <2>5. \A k \in Listeners \ {l} : (k \in Open \/ Deleting(k))' => k \in Open \/ Deleting(k)
    BY <2>1, <2>4, Distinct DEF Open, Deleting, Typed, Processes
  <2>6. QED BY <2>1, <2>3, <2>4, <2>5 DEF Held, Typed
<1>6. ASSUME NEW l \in Listeners, NotCreated(l) PROVE Held'
  BY <1>6 DEF NotCreated, Fail, Held, Open, Deleting, handle
<1>7. ASSUME NEW g \in Closers, NEW l \in Listeners, Close(g, l) PROVE Held'
  BY <1>7 DEF Close, Go, Typed, Held, Open, Deleting, control, handle, ghosts
<1>8. ASSUME NEW g \in Closers, SendDel(g) PROVE Held'
  BY <1>8, Distinct DEF SendDel, Exec, Go, Reading, Held, Open,
       Deleting, Processes, handle
<1>9. ASSUME NEW g \in Closers, RemoveFails(g) PROVE Held'
  BY <1>9 DEF RemoveFails, Go, Held, Open, Deleting, control, handle, ghosts
<1>10. ASSUME NEW g \in Closers, Removed(g) PROVE Held'
  BY <1>10 DEF Removed, Go, Held, Open, Deleting, handle
<1>11. ASSUME NEW g \in Closers, Unbind(g) PROVE Held'
  BY <1>11 DEF Unbind, Go, Held, Open, Deleting, control, handle
<1>12. CASE Tor
  <2>0. SUFFICES ASSUME ~lost'
                 PROVE  Held'
    BY DEF Held
  <2>1. /\ ~lost /\ up /\ sent # <<>> /\ sent' = <<>>
        /\ UNCHANGED <<pc, port, socket, closed, address, key, target, failed, mu, up, told, lost>>
    BY <1>12, <2>0, TorReads DEF Tor, handle, ghosts
  <2>2. stream = <<>>
    BY <2>1, TorReads
  <2>3. CASE /\ mu \in Listeners /\ pc[mu] = "read"
             /\ Command = [op |-> "add", of |-> mu, key |-> KeySpec(key[mu])]
    <3>1. services \subseteq services'
      BY <1>12, <2>3 DEF Tor, TorAdds, TorDeletes
    <3>2. \A k \in Listeners : (k \in Open \/ Deleting(k))' => k \in Open \/ Deleting(k)
      BY <2>1 DEF Open, Deleting
    <3>3. QED BY <2>1, <3>1, <3>2 DEF Held
  <2>4. CASE /\ mu \in Closers /\ pc[mu] = "read"
             /\ Command = [op |-> "del", of |-> address[target[mu]], key |-> None]
    <3>1. services' = {s \in services : s.of # address[target[mu]]}
      BY <1>12, <2>4 DEF Tor, TorAdds, TorDeletes
    <3>2. target[mu] \in closed /\ Deleting(target[mu])
      BY <2>1, <2>4 DEF Deleting, Places
    <3>3. ASSUME NEW k \in Listeners, (k \in Open \/ Deleting(k))'
          PROVE  [of |-> address[k], by |-> k] \in services'
      <4>1. k \in Open \/ Deleting(k)
        BY <2>1, <3>3 DEF Open, Deleting
      <4>2. k # target[mu]
        <5>1. CASE k \in Open'
          BY <5>1, <2>1, <3>2 DEF Open
        <5>2. CASE Deleting(k)'
          <6>1. PICK h \in Closers : target[h] = k /\ pc[h] = "remove"
            BY <5>2, <2>1 DEF Deleting
          <6>2. h # mu
            BY <6>1, <2>4
          <6>3. QED BY <6>1, <6>2, <2>4, Distinct DEF Places
        <5>3. QED BY <3>3, <5>1, <5>2
      <4>3. [of |-> address[k], by |-> k] \in services
        BY <2>1, <4>1 DEF Held
      <4>4. [of |-> address[target[mu]], by |-> target[mu]] \in services
        BY <2>1, <3>2 DEF Held, Places, Typed
      <4>5. address[k] # address[target[mu]]
        BY <2>1, <4>2, <4>3, <4>4 DEF Serving
      <4>6. QED BY <3>1, <4>3, <4>5
    <3>4. QED BY <2>1, <3>3 DEF Held
  <2>5. QED BY <2>1, <2>3, <2>4, TorReads
<1>13. CASE Disconnect
  BY <1>13 DEF Disconnect, Held
<1>14. CASE Aside
  BY <1>14 DEF Aside, Held, Open, Deleting, ghosts
<1>15. QED
  BY <1>1, <1>2, <1>3, <1>4, <1>5, <1>6, <1>7, <1>8, <1>9, <1>10, <1>11, <1>12, <1>13,
     <1>14, Moves

(* No step parts a service from its socket, unless a call fails.          *)
LEMMA HomesKept ==
  ASSUME Typed, Places, Reading, Wire, Serving, Homes, [Next]_vars
  PROVE  Homes'
<1>1. ASSUME NEW l \in Listeners, Bind(l) PROVE Homes'
  BY <1>1 DEF Bind, Go, Homes, ghosts
<1>2. ASSUME NEW l \in Listeners, BindFails(l) PROVE Homes'
  BY <1>2 DEF BindFails, Go, Homes, ghosts
<1>3. ASSUME NEW l \in Listeners, CreateFails(l) PROVE Homes'
  BY <1>3 DEF CreateFails, Fail, Typed, Homes
<1>4. ASSUME NEW l \in Listeners, SendAdd(l) PROVE Homes'
  BY <1>4 DEF SendAdd, Exec, Go, Homes, ghosts
<1>5. ASSUME NEW l \in Listeners, Created(l) PROVE Homes'
  BY <1>5 DEF Created, Go, Homes, ghosts
<1>6. ASSUME NEW l \in Listeners, NotCreated(l) PROVE Homes'
  BY <1>6 DEF NotCreated, Fail, Typed, Homes
<1>7. ASSUME NEW g \in Closers, NEW l \in Listeners, Close(g, l) PROVE Homes'
  BY <1>7 DEF Close, Go, Homes, ghosts
<1>8. ASSUME NEW g \in Closers, SendDel(g) PROVE Homes'
  BY <1>8 DEF SendDel, Exec, Go, Homes
<1>9. ASSUME NEW g \in Closers, RemoveFails(g) PROVE Homes'
  BY <1>9 DEF RemoveFails, Go, Typed, Homes, ghosts
<1>10. ASSUME NEW g \in Closers, Removed(g) PROVE Homes'
  BY <1>10 DEF Removed, Go, Reply, Typed, Reading, Wire, DelWire, Serving, Homes
<1>11. ASSUME NEW g \in Closers, Unbind(g) PROVE Homes'
  BY <1>11, Distinct DEF Unbind, Go, Typed, Homes
<1>12. CASE Tor
  <2>0. SUFFICES ASSUME ~lost'
                 PROVE  Homes'
    BY DEF Homes
  <2>1. /\ ~lost /\ up /\ sent # <<>> /\ sent' = <<>>
        /\ UNCHANGED <<pc, port, socket, closed, address, key, target, failed, mu, up, told, lost>>
    BY <1>12, <2>0, TorReads DEF Tor, handle, ghosts
  <2>2. stream = <<>>
    BY <2>1, TorReads
  <2>3. CASE /\ mu \in Listeners /\ pc[mu] = "read"
             /\ Command = [op |-> "add", of |-> mu, key |-> KeySpec(key[mu])]
    <3>1. \A s \in services' : s \in services \/ s.by = mu
      BY <1>12, <2>3 DEF Tor, TorAdds, TorDeletes
    <3>2. mu \in socket
      BY <2>3 DEF Places
    <3>3. ASSUME NEW g \in Closers PROVE target[g] # mu
      <4>1. CASE pc[g] = "idle"
        BY <4>1, <2>3, Distinct DEF Places
      <4>2. CASE pc[g] # "idle"
        BY <4>2, <2>3 DEF Places
      <4>3. QED BY <4>1, <4>2
    <3>4. QED BY <2>1, <3>1, <3>2, <3>3 DEF Homes
  <2>4. CASE /\ mu \in Closers /\ pc[mu] = "read"
             /\ Command = [op |-> "del", of |-> address[target[mu]], key |-> None]
    <3>1. services' \subseteq services
      BY <1>12, <2>4 DEF Tor, TorAdds, TorDeletes
    <3>2. QED BY <2>1, <3>1 DEF Homes
  <2>5. QED BY <2>1, <2>3, <2>4, TorReads
<1>13. CASE Disconnect
  BY <1>13 DEF Disconnect, Homes
<1>14. CASE Aside
  BY <1>14 DEF Aside, Homes, ghosts
<1>15. QED
  BY <1>1, <1>2, <1>3, <1>4, <1>5, <1>6, <1>7, <1>8, <1>9, <1>10, <1>11, <1>12, <1>13,
     <1>14, Moves

LEMMA KeysFrame ==
  ASSUME Typed, KeysKnown, lost => lost',
         \A l \in Listeners : pc'[l] = "listening" =>
            pc[l] = "listening" /\ key'[l] = key[l] /\ address'[l] = address[l]
  PROVE  KeysKnown'
BY DEF KeysKnown

(* Listen alone gives a handle its key, and reads the reply to its own     *)
(* command until somebody gives up.                                        *)
LEMMA KeysKept ==
  ASSUME Typed, Places, Reading, Wire, KeysKnown, [Next]_vars
  PROVE  KeysKnown'
<1>1. ASSUME NEW l \in Listeners, Bind(l) PROVE KeysKnown'
  <2>1. \A k \in Listeners : pc'[k] = "listening" => pc[k] = "listening" /\ key'[k] = key[k]
    BY <1>1 DEF Bind, Go, Typed, Processes
  <2>2. UNCHANGED <<address, lost>>
    BY <1>1 DEF Bind, ghosts
  <2>3. QED BY <2>1, <2>2, KeysFrame
<1>2. ASSUME NEW l \in Listeners, BindFails(l) \/ CreateFails(l) \/ SendAdd(l) PROVE KeysKnown'
  <2>1. UNCHANGED <<key, address, lost>>
    BY <1>2 DEF BindFails, CreateFails, SendAdd, handle, ghosts
  <2>2. \A k \in Listeners : pc'[k] = "listening" => pc[k] = "listening"
    BY <1>2 DEF BindFails, CreateFails, SendAdd, Exec, Fail, Go, Typed, Processes
  <2>3. QED BY <2>1, <2>2, KeysFrame
<1>3. ASSUME NEW l \in Listeners, Created(l) PROVE KeysKnown'
  <2>0. SUFFICES ASSUME ~lost, NEW k \in Listeners, pc'[k] = "listening"
                 PROVE  key'[k] # None /\ key'[k].of = address'[k]
    BY <1>3 DEF Created, ghosts, KeysKnown
  <2>1. /\ pc' = [pc EXCEPT ![l] = "listening"]
        /\ address' = [address EXCEPT ![l] = Reply.of]
        /\ key' = [key EXCEPT ![l] = IF Reply.key = None THEN @ ELSE Reply.key]
    BY <1>3 DEF Created, Go
  <2>2. CASE k = l
    BY <1>3, <2>0, <2>1, <2>2, OwnService DEF Typed
  <2>3. CASE k # l
    BY <2>0, <2>1, <2>3 DEF KeysKnown, Typed, Processes
  <2>4. QED BY <2>2, <2>3
<1>4. ASSUME NEW l \in Listeners, NotCreated(l) PROVE KeysKnown'
  <2>1. UNCHANGED <<key, address>> /\ (lost => lost')
    BY <1>4 DEF NotCreated, handle
  <2>2. \A k \in Listeners : pc'[k] = "listening" => pc[k] = "listening"
    BY <1>4 DEF NotCreated, Fail, Typed, Processes
  <2>3. QED BY <2>1, <2>2, KeysFrame
<1>5. ASSUME NEW g \in Closers,
             \/ \E l \in Listeners : Close(g, l)
             \/ SendDel(g) \/ RemoveFails(g) \/ Removed(g) \/ Unbind(g)
      PROVE  KeysKnown'
  <2>1. UNCHANGED <<key, address>> /\ (lost => lost')
    BY <1>5 DEF Close, SendDel, RemoveFails, Removed, Unbind, handle, ghosts
  <2>2. \A k \in Listeners : pc'[k] = pc[k]
    BY <1>5, Distinct DEF Close, SendDel, RemoveFails, Removed, Unbind, Exec, Go, Typed, Processes
  <2>3. QED BY <2>1, <2>2, KeysFrame
<1>6. CASE Tor \/ Disconnect \/ Aside
  BY <1>6, KeysFrame DEF Tor, Disconnect, Aside, handle, ghosts
<1>7. QED BY <1>1, <1>2, <1>3, <1>4, <1>5, <1>6, Moves

(* Initially all of it holds.                                             *)
LEMMA InitIInv == Init => IInv
<1> SUFFICES ASSUME Init PROVE IInv
  OBVIOUS
<1>1. sent \in Seq(Commands) /\ stream \in Seq(Replies)
  BY DEF Init
<1>2. None \in PortValues /\ port \in [Listeners -> PortValues]
  BY DEF Init, PortValues
<1>3. saved \subseteq Keys
  BY DEF Init, Keys, Onions
<1>4. Typed
  BY <1>1, <1>2, <1>3 DEF Init, Typed, Processes
<1>5. Places /\ Removals /\ Reading
  BY Distinct DEF Init, Places, Removals, Reading, Processes
<1>6. Wire /\ Serving /\ Held /\ Homes /\ KeysKnown
  BY Distinct DEF Init, Wire, Serving, Held, Open, Deleting, Homes, KeysKnown
<1>7. QED BY <1>4, <1>5, <1>6 DEF IInv

(* The invariant is inductive.                                            *)
LEMMA Inductive == IInv /\ [Next]_vars => IInv'
BY TypedKept, PlacesKept, RemovalsKept, ReadingKept, WireKept, ServingKept, HeldKept,
     HomesKept, KeysKept
   DEF IInv

LEMMA Invariance == SafeSpec => []IInv
BY InitIInv, Inductive, PTL DEF SafeSpec

(* The state has its types, for any number of listeners and closers.       *)
THEOREM TypeCorrect == SafeSpec => []TypeOK
<1>1. Typed => TypeOK
  BY DEF Typed, TypeOK, Processes
<1>2. QED BY <1>1, Invariance, PTL DEF IInv

(* A Listen that failed and a Close that returned have freed their port,   *)
(* for any number of listeners and of goroutines that close them.          *)
THEOREM PortsFreed == SafeSpec => []PortFreed
<1>1. Typed /\ Places => PortFreed
  <2> SUFFICES ASSUME Typed, Places, NEW l \in socket
               PROVE  pc[l] # "failed" /\ (l \in closed => l \in ClosingNow)
    BY DEF PortFreed
  <2>1. pc[l] # "failed"
    BY DEF Places
  <2>2. l # None
    BY Distinct DEF Typed
  <2>3. ASSUME l \in closed PROVE l \in ClosingNow
    <3>1. PICK g \in Closers : target[g] = l
      BY <2>3 DEF Places
    <3>2. QED BY <3>1, <2>2 DEF ClosingNow
  <2>4. QED BY <2>1, <2>3
<1>2. QED BY <1>1, Invariance, PTL DEF IInv

(* The service of a listener is deleted by one of the goroutines that      *)
(* close it, and once.                                                     *)
THEOREM DeletedOnce == SafeSpec => []RemovedOnce
<1>1. Removals => RemovedOnce
  BY DEF Removals, RemovedOnce
<1>2. QED BY <1>1, Invariance, PTL DEF IInv

(* As long as no call gives up, an open listener has the address of a      *)
(* service that Tor runs for it: from Wire, the reply a call reads is its  *)
(* own, and from Serving, a DEL_ONION hits no other listener's service.    *)
THEOREM HandlesAreHonest == SafeSpec => []HandleHonest
<1>1. Held => HandleHonest
  BY DEF Held, HandleHonest, Open
<1>2. QED BY <1>1, Invariance, PTL DEF IInv

(* As long as no call gives up, an open listener's handle has the key of   *)
(* the service it names: from Wire, what Listen reads is the reply to its  *)
(* own command, which tells the key or was sent with it.                   *)
THEOREM KeysAreHonest == SafeSpec => []KeyHonest
<1>1. KeysKnown => KeyHonest
  BY DEF KeysKnown, KeyHonest, Open
<1>2. QED BY <1>1, Invariance, PTL DEF IInv

(* As long as no call fails or gives up, nobody is reached by connections  *)
(* to an earlier listener's service: from Homes, every service has its     *)
(* own socket, and no two sockets share a port.                            *)
THEOREM OnlyHome == SafeSpec => []ForwardsHome
<1>1. Typed /\ Places /\ Homes => ForwardsHome
  BY DEF Typed, Places, Homes, ForwardsHome
<1>2. QED BY <1>1, Invariance, PTL DEF IInv

(* --- Services are accounted for, also when replies are lost --- *)

(* How many elements of a sequence are in a set.                           *)
Count(s, P) == Cardinality({i \in DOMAIN s : s[i] \in P})

LEMMA CountAppend ==
  ASSUME NEW S, NEW s \in Seq(S), NEW x, NEW P
  PROVE  /\ Count(s, P) \in Nat
         /\ Count(Append(s, x), P) = Count(s, P) + (IF x \in P THEN 1 ELSE 0)
<1>. DEFINE I == {i \in DOMAIN s : s[i] \in P}
            J == {i \in DOMAIN Append(s, x) : Append(s, x)[i] \in P}
<1>1. IsFiniteSet(I)
  <2>1. Len(s) \in Nat /\ DOMAIN s = 1..Len(s)
    OBVIOUS
  <2>2. IsFiniteSet(1..Len(s))
    BY <2>1, FS_Interval
  <2>. QED  BY <2>1, <2>2, FS_Subset
<1>2. Len(s) + 1 \notin I
  OBVIOUS
<1>3. J = IF x \in P THEN I \cup {Len(s) + 1} ELSE I
  <2>1. DOMAIN Append(s, x) = (DOMAIN s) \cup {Len(s) + 1}
    OBVIOUS
  <2>2. \A i \in DOMAIN s : Append(s, x)[i] = s[i]
    OBVIOUS
  <2>3. Append(s, x)[Len(s) + 1] = x /\ Len(s) + 1 \notin DOMAIN s
    OBVIOUS
  <2>. QED  BY <2>1, <2>2, <2>3
<1>. HIDE DEF I, J
<1>4. Cardinality(I) \in Nat
  BY <1>1, FS_CardinalityType
<1>5. Cardinality(J) = Cardinality(I) + (IF x \in P THEN 1 ELSE 0)
  <2>1. CASE x \in P
    BY <1>1, <1>2, <1>3, <2>1, FS_AddElement
  <2>2. CASE x \notin P
    BY <1>3, <1>4, <2>2
  <2>. QED  BY <2>1, <2>2
<1>. QED  BY <1>4, <1>5 DEF Count, I, J

LEMMA CountTail ==
  ASSUME NEW S, NEW s \in Seq(S), s # <<>>, NEW P
  PROVE  Count(Tail(s), P) = Count(s, P) - (IF Head(s) \in P THEN 1 ELSE 0)
<1>. DEFINE I == {i \in DOMAIN s : s[i] \in P}
            J == {i \in DOMAIN Tail(s) : Tail(s)[i] \in P}
            f == [j \in J |-> j + 1]
<1>1. IsFiniteSet(I)
  <2>1. Len(s) \in Nat /\ DOMAIN s = 1..Len(s)
    OBVIOUS
  <2>2. IsFiniteSet(1..Len(s))
    BY <2>1, FS_Interval
  <2>. QED  BY <2>1, <2>2, FS_Subset
<1>2. \A i : i \in I \ {1} <=> i - 1 \in J /\ i \in Int
  OBVIOUS
<1>3. 1 \in I <=> Head(s) \in P
  OBVIOUS
<1>4. J \subseteq Int
  OBVIOUS
<1>5. IsFiniteSet(I \ {1})
      /\ Cardinality(I \ {1}) = Cardinality(I) - (IF Head(s) \in P THEN 1 ELSE 0)
  <2>. HIDE DEF I
  <2>1. Cardinality(I) \in Nat
    BY <1>1, FS_CardinalityType
  <2>. QED  BY <1>1, <1>3, <2>1, FS_RemoveElement
<1>6. f \in Bijection(J, I \ {1})
  <2>. HIDE DEF I, J
  <2>1. \A j \in J : j \in Int /\ j + 1 \in I \ {1}
    BY <1>2, <1>4
  <2>2. \A i \in I \ {1} : i - 1 \in J /\ i = (i - 1) + 1
    BY <1>2
  <2>3. f \in [J -> I \ {1}]
    BY <2>1
  <2>4. \A a, b \in J : f[a] = f[b] => a = b
    BY <2>1
  <2>5. \A i \in I \ {1} : \E j \in J : f[j] = i
    BY <2>2
  <2>. HIDE DEF f
  <2>. QED  BY <2>3, <2>4, <2>5 DEF Bijection, Injection, IsInjective, Surjection
<1>. HIDE DEF I, J, f
<1>7. Cardinality(J) = Cardinality(I \ {1})
  <2>1. ExistsBijection(J, I \ {1})
    BY <1>6 DEF ExistsBijection
  <2>2. ExistsBijection(I \ {1}, J)
    BY <2>1, Fun_ExistsBijSymmetric
  <2>. QED  BY <1>5, <2>2, FS_Bijection
<1>. QED  BY <1>5, <1>7 DEF Count, I, J

Additions == {c \in Commands : c.op = "add"}
Deletions == {c \in Commands : c.op = "del"}

(* A service is vouched for by the reply that names it, then by the open   *)
(* listener that has read it, then by the DEL_ONION on its way.  There is  *)
(* one of these for a service that runs at most, and none for another: so  *)
(* a DEL_ONION, also one whose sender has misread replies, finds a service.*)
Naming(a)   == {r \in Replies : r.kind = "service" /\ r.of = a}
DeletionsOf(a) == {c \in Deletions : c.of = a}
Holders(a)  == {l \in Listeners : pc[l] = "listening" /\ dels[l] = 0 /\ address[l] = a}
Vouched == up =>
  /\ \A s \in services, t \in services : s.of = t.of => s = t
  /\ \A a \in Onions :
       Count(stream, Naming(a)) + Cardinality(Holders(a)) + Count(sent, DeletionsOf(a))
         <= IF a \in Running THEN 1 ELSE 0

(* A Remove is failing only between its end and the end of Close. *)
Quiet == \A g \in Closers : pc[g] # "unbind" => ~failed[g]

(* NothingSilent, with the commands that Tor has still to read. *)
Coming == {l \in Listeners : pc[l] = "read"}
Owing  == {g \in Closers : pc[g] = "remove" \/ failed[g]}
Accounted ==
  Cardinality(services) + Count(sent, Additions)
    <= Cardinality(Open) + Cardinality(Coming) + Cardinality(Owing) + Count(sent, Deletions) + told

(* Sets of listeners and of closers are finite, and so are the services.   *)
LEMMA CountIn ==
  ASSUME NEW S, S \in SUBSET Listeners \/ S \in SUBSET Closers, NEW x
  PROVE  /\ Cardinality(S) \in Nat
         /\ x \notin S => Cardinality(S \cup {x}) = Cardinality(S) + 1
         /\ x \in S => Cardinality(S \ {x}) = Cardinality(S) - 1
<1>1. IsFiniteSet(S)
  BY HiddenServiceFinite, FS_Subset
<1>. QED  BY <1>1, FS_CardinalityType, FS_AddElement, FS_RemoveElement

LEMMA ServicesFinite == ASSUME Typed PROVE IsFiniteSet(services) /\ Cardinality(services) \in Nat
<1>. DEFINE Pairs == Onions \X Listeners
            f == [p \in Pairs |-> [of |-> p[1], by |-> p[2]]]
            R == [of : Onions, by : Listeners]
<1>0. IsFiniteSet(Onions)
  BY HiddenServiceFinite, FS_Union DEF Onions
<1>1. IsFiniteSet(Pairs)
  BY <1>0, HiddenServiceFinite, FS_Product
<1>2. f \in [Pairs -> R]
  OBVIOUS
<1>3. ASSUME NEW r \in R PROVE \E p \in Pairs : f[p] = r
  <2>1. <<r.of, r.by>> \in Pairs /\ f[<<r.of, r.by>>] = r
    OBVIOUS
  <2>. QED  BY <2>1
<1>4. f \in Surjection(Pairs, R)
  <2>. HIDE DEF f, Pairs, R
  <2>. QED  BY <1>2, <1>3 DEF Surjection
<1>5. IsFiniteSet(R)
  <2>. HIDE DEF f, Pairs, R
  <2>. QED  BY <1>1, <1>4, FS_Surjection
<1>6. services \in SUBSET R
  BY DEF Typed
<1>. QED  BY <1>5, <1>6, FS_Subset, FS_CardinalityType

LEMMA InitAccounts == ASSUME Init PROVE Vouched /\ Quiet /\ Accounted
<1>1. \A P : Count(<<>>, P) = 0
  <2>1. \A P : {i \in DOMAIN <<>> : <<>>[i] \in P} = {}
    OBVIOUS
  <2>. QED  BY <2>1, FS_EmptySet DEF Count
<1>2. services = {} /\ sent = <<>> /\ stream = <<>> /\ told = 0
  BY DEF Init
<1>3. Open = {} /\ Coming = {} /\ Owing = {} /\ \A a : Holders(a) = {}
  BY DEF Init, Open, Coming, Owing, Holders
<1>4. Cardinality({}) = 0
  BY FS_EmptySet
<1>5. Vouched
  <2>1. ASSUME NEW a \in Onions
        PROVE  /\ Count(stream, Naming(a)) = 0 /\ Count(sent, DeletionsOf(a)) = 0
               /\ Cardinality(Holders(a)) = 0
    BY <1>1, <1>2, <1>3, <1>4
  <2>. QED  BY <1>2, <2>1 DEF Vouched
<1>6. Accounted
  BY <1>1, <1>2, <1>3, <1>4 DEF Accounted
<1>7. Quiet
  BY DEF Init, Quiet
<1>. QED  BY <1>5, <1>6, <1>7

LEMMA QuietKept == ASSUME Typed, Places, Quiet, [Next]_vars PROVE Quiet'
<1>1. ASSUME NEW l \in Listeners,
             \/ Bind(l) \/ BindFails(l) \/ CreateFails(l) \/ SendAdd(l) \/ Created(l) \/ NotCreated(l)
      PROVE  Quiet'
  <2>1. failed' = failed /\ \A g \in Closers : pc'[g] = pc[g]
    BY <1>1, Distinct
       DEF Bind, BindFails, CreateFails, SendAdd, Created, NotCreated, Exec, Fail, Go, Typed, Processes
  <2>. QED  BY <2>1 DEF Quiet
<1>2. ASSUME NEW g \in Closers, NEW l \in Listeners, Close(g, l) PROVE Quiet'
  BY <1>2 DEF Close, Go, Typed, Quiet, Processes
<1>3. ASSUME NEW g \in Closers, SendDel(g) \/ RemoveFails(g) \/ Removed(g) \/ Unbind(g)
      PROVE  Quiet'
  <2>1. \A h \in Closers : h # g => failed'[h] = failed[h] /\ pc'[h] = pc[h]
    BY <1>3 DEF SendDel, RemoveFails, Removed, Unbind, Exec, Go, Typed, Processes
  <2>2. \/ pc'[g] = "unbind"
        \/ pc'[g] = "read" /\ pc[g] = "remove" /\ failed'[g] = failed[g]
        \/ failed'[g] = FALSE
    BY <1>3 DEF SendDel, RemoveFails, Removed, Unbind, Exec, Go, Typed, Processes
  <2>. QED  BY <2>1, <2>2 DEF Quiet
<1>4. CASE Tor \/ Disconnect \/ Aside
  BY <1>4 DEF Tor, Disconnect, Aside, Quiet
<1>. QED  BY <1>1, <1>2, <1>3, <1>4, Moves

(* What a step does to the commands on their way and to the replies.       *)
LEMMA SentCounts ==
  ASSUME Typed
  PROVE  \A P : /\ Count(sent, P) \in Nat /\ Count(stream, P) \in Nat
                /\ \A c : Count(Append(sent, c), P) = Count(sent, P) + (IF c \in P THEN 1 ELSE 0)
                /\ \A r : Count(Append(stream, r), P)
                            = Count(stream, P) + (IF r \in P THEN 1 ELSE 0)
                /\ sent # <<>> => Count(Tail(sent), P)
                                    = Count(sent, P) - (IF Command \in P THEN 1 ELSE 0)
                /\ stream # <<>> => Count(Tail(stream), P)
                                      = Count(stream, P) - (IF Reply \in P THEN 1 ELSE 0)
<1>1. sent \in Seq(Commands) /\ stream \in Seq(Replies)
  BY DEF Typed
<1>. TAKE P
<1>2. Count(sent, P) \in Nat /\ Count(stream, P) \in Nat
  BY <1>1, CountAppend
<1>3. /\ \A c : Count(Append(sent, c), P) = Count(sent, P) + (IF c \in P THEN 1 ELSE 0)
      /\ \A r : Count(Append(stream, r), P) = Count(stream, P) + (IF r \in P THEN 1 ELSE 0)
  BY <1>1, CountAppend
<1>4. sent # <<>> => Count(Tail(sent), P) = Count(sent, P) - (IF Command \in P THEN 1 ELSE 0)
  BY <1>1, CountTail DEF Command
<1>5. stream # <<>> => Count(Tail(stream), P) = Count(stream, P) - (IF Reply \in P THEN 1 ELSE 0)
  BY <1>1, CountTail DEF Reply
<1>. QED  BY <1>2, <1>3, <1>4, <1>5

LEMMA HoldersIn == \A a : Holders(a) \in SUBSET Listeners
BY DEF Holders

LEMMA VouchedFrame ==
  ASSUME Typed, Vouched, UNCHANGED <<up, sent, stream, services>>,
         \A a \in Onions : Holders(a)' = Holders(a)
  PROVE  Vouched'
<1>1. Running' = Running
  BY DEF Running
<1>. QED  BY <1>1 DEF Vouched, Naming, DeletionsOf, Deletions, Commands

(* A reply that is thrown away vouches for nothing. *)
LEMMA DroppedReply ==
  ASSUME Typed, Vouched, UNCHANGED <<up, sent, services, dels, address>>,
         \A k \in Listeners : pc'[k] = "listening" <=> pc[k] = "listening",
         stream' = stream \/ (stream # <<>> /\ stream' = Tail(stream))
  PROVE  Vouched'
<1>1. \A a : Holders(a)' = Holders(a) /\ Cardinality(Holders(a)) \in Nat
  BY HoldersIn, CountIn DEF Holders
<1>2. \A P : Count(stream', P) \in Nat /\ Count(stream', P) <= Count(stream, P)
  <2>1. CASE stream' = stream
    BY <2>1, SentCounts
  <2>2. CASE stream # <<>> /\ stream' = Tail(stream)
    <3>1. stream \in Seq(Replies)
      BY DEF Typed
    <3>2. stream' \in Seq(Replies)
      BY <2>2, <3>1, SeqElements
    <3>3. \A P : Count(stream', P) \in Nat
      BY <3>2, CountAppend
    <3>4. ASSUME NEW P PROVE Count(stream', P) <= Count(stream, P)
      BY <2>2, SentCounts
    <3>. QED  BY <3>3, <3>4
  <2>. QED  BY <2>1, <2>2
<1>3. Running' = Running
  BY DEF Running
<1>. QED  BY <1>1, <1>2, <1>3, SentCounts DEF Vouched

(* Tor makes a service that nothing vouched for, and says so once; *)
LEMMA TorVouches ==
  ASSUME Typed, Vouched, TorAdds, up, up' = up, sent # <<>>, sent' = Tail(sent),
         Command \in Commands,
         \A a : Holders(a)' = Holders(a) /\ Cardinality(Holders(a)) \in Nat,
         \A P : Count(sent', P) \in Nat
  PROVE  Vouched'
<1>0. Asked \in Onions /\ [of |-> Asked, types |-> 1] \in Keys
  <2>1. Asked \in Onions
    BY Distinct DEF TorAdds, Asked, Commands, KeySpecs
  <2>. QED  BY <2>1 DEF Keys
<1>1. \A a : Count(sent', DeletionsOf(a)) = Count(sent, DeletionsOf(a))
  <2>1. \A a : Command \notin DeletionsOf(a)
    BY DEF TorAdds, DeletionsOf, Deletions
  <2>. QED  BY <2>1, SentCounts
<1>2. CASE services' = services /\ \E kind \in {"err", "badkey"} :
             stream' = Append(stream, [kind |-> kind, of |-> None, key |-> None])
  <2>1. \A a : Count(stream', Naming(a)) = Count(stream, Naming(a))
    <3>1. PICK r : stream' = Append(stream, r) /\ r.kind \in {"err", "badkey"}
      BY <1>2
    <3>2. \A a : r \notin Naming(a)
      BY <3>1 DEF Naming
    <3>. QED  BY <3>1, <3>2, SentCounts
  <2>2. Running' = Running
    BY <1>2 DEF Running
  <2>. QED  BY <1>1, <1>2, <2>1, <2>2 DEF Vouched
<1>3. CASE /\ Asked \notin Running
           /\ services' = services \cup {[of |-> Asked, by |-> Command.of]}
           /\ \E k \in Keys \cup {None} :
                stream' = Append(stream, [kind |-> "service", of |-> Asked, key |-> k])
  <2>1. \A a : a \in Running' <=> a \in Running \/ a = Asked
    <3>1. [of |-> Asked, by |-> Command.of].of = Asked
      OBVIOUS
    <3>2. \A s : s \in services' <=> s \in services \/ s = [of |-> Asked, by |-> Command.of]
      BY <1>3
    <3>. QED  BY <3>1, <3>2 DEF Running
  <2>2. \A s \in services', t \in services' : s.of = t.of => s = t
    BY <1>3 DEF Vouched, Running
  <2>3. ASSUME NEW a \in Onions
        PROVE  Count(stream', Naming(a))
                 = Count(stream, Naming(a)) + (IF a = Asked THEN 1 ELSE 0)
    <3>1. PICK k \in Keys \cup {None} :
                 stream' = Append(stream, [kind |-> "service", of |-> Asked, key |-> k])
      BY <1>3
    <3>2. [kind |-> "service", of |-> Asked, key |-> k] \in Naming(a) <=> a = Asked
      BY <1>0 DEF Naming, Replies
    <3>. QED  BY <3>1, <3>2, SentCounts
  <2>4. ASSUME NEW a \in Onions
        PROVE  Count(stream', Naming(a)) + Cardinality(Holders(a)) + Count(sent, DeletionsOf(a))
                 <= IF a \in Running' THEN 1 ELSE 0
    <3>1. Count(stream, Naming(a)) + Cardinality(Holders(a)) + Count(sent, DeletionsOf(a))
            <= IF a \in Running THEN 1 ELSE 0
      BY DEF Vouched
    <3>2. /\ Count(stream, Naming(a)) \in Nat /\ Cardinality(Holders(a)) \in Nat
          /\ Count(sent, DeletionsOf(a)) \in Nat
      BY SentCounts
    <3>. QED  BY <1>3, <2>1, <2>3, <3>1, <3>2
  <2>. QED  BY <1>1, <2>2, <2>4 DEF Vouched
<1>. QED  BY <1>0, <1>2, <1>3 DEF TorAdds, Answer

(* and ends one that the command alone vouched for.                        *)
LEMMA TorUnvouches ==
  ASSUME Typed, Vouched, TorDeletes, up, up' = up, sent # <<>>, sent' = Tail(sent),
         Command \in Commands,
         \A a : Holders(a)' = Holders(a) /\ Cardinality(Holders(a)) \in Nat,
         \A P : Count(sent', P) \in Nat
  PROVE  Vouched'
<1>1. Command \in Deletions /\ Command.of \in Onions
  BY DEF TorDeletes, Deletions, Commands
<1>2. services' = {s \in services : s.of # Command.of}
  BY DEF TorDeletes
<1>3. \A a : Count(stream', Naming(a)) = Count(stream, Naming(a))
  <2>1. PICK r : stream' = Append(stream, r) /\ r.kind \in {"ok", "err"}
    BY DEF TorDeletes, Answer
  <2>2. \A a : r \notin Naming(a)
    BY <2>1 DEF Naming
  <2>. QED  BY <2>1, <2>2, SentCounts
<1>4. Running' = Running \ {Command.of}
  BY <1>2 DEF Running
<1>5. ASSUME NEW a \in Onions
      PROVE  Count(stream', Naming(a)) + Cardinality(Holders(a)) + Count(sent', DeletionsOf(a))
               <= IF a \in Running' THEN 1 ELSE 0
  <2>1. Count(stream, Naming(a)) + Cardinality(Holders(a)) + Count(sent, DeletionsOf(a))
          <= IF a \in Running THEN 1 ELSE 0
    BY DEF Vouched
  <2>2. /\ Count(stream, Naming(a)) \in Nat /\ Cardinality(Holders(a)) \in Nat
        /\ Count(sent, DeletionsOf(a)) \in Nat
    BY SentCounts
  <2>3. Count(sent', DeletionsOf(a))
          = Count(sent, DeletionsOf(a)) - (IF a = Command.of THEN 1 ELSE 0)
    <3>1. Command \in DeletionsOf(a) <=> a = Command.of
      BY <1>1 DEF DeletionsOf
    <3>. QED  BY <3>1, SentCounts
  <2>4. Count(sent', DeletionsOf(a)) \in Nat
    OBVIOUS
  <2>5. CASE a = Command.of
    BY <1>3, <1>4, <2>1, <2>2, <2>3, <2>4, <2>5
  <2>6. CASE a # Command.of
    BY <1>3, <1>4, <2>1, <2>2, <2>3, <2>6
  <2>. QED  BY <2>5, <2>6
<1>. QED  BY <1>2, <1>5 DEF Vouched

LEMMA VouchedKept ==
  ASSUME Typed, Places, Removals, Reading, Vouched, [Next]_vars PROVE Vouched'
<1>0. \A a : Cardinality(Holders(a)) \in Nat
  BY HoldersIn, CountIn
<1>1. ASSUME NEW l \in Listeners, Bind(l) \/ BindFails(l) \/ CreateFails(l) PROVE Vouched'
  <2>1. /\ dels' = dels /\ address' = address /\ UNCHANGED <<up, sent, stream, services>>
        /\ \A k \in Listeners : pc'[k] = "listening" <=> pc[k] = "listening"
    BY <1>1 DEF Bind, BindFails, CreateFails, Fail, Go, Typed, Processes, control, handle, ghosts
  <2>2. \A a : Holders(a)' = Holders(a)
    BY <2>1 DEF Holders
  <2>. QED  BY <2>1, <2>2, VouchedFrame
<1>2. ASSUME NEW l \in Listeners, SendAdd(l) PROVE Vouched'
  <2>. DEFINE c == [op |-> "add", of |-> l, key |-> KeySpec(key[l])]
  <2>1. /\ dels' = dels /\ address' = address /\ UNCHANGED <<up, stream, services>>
        /\ sent' = Append(sent, c)
        /\ \A k \in Listeners : pc'[k] = "listening" <=> pc[k] = "listening"
    BY <1>2 DEF SendAdd, Exec, Go, Typed, Processes, handle, ghosts
  <2>2. \A a : Holders(a)' = Holders(a) /\ c \notin DeletionsOf(a)
    BY <2>1 DEF Holders, DeletionsOf, Deletions
  <2>3. \A a : Count(sent', DeletionsOf(a)) = Count(sent, DeletionsOf(a))
    BY <2>1, <2>2, SentCounts
  <2>4. Running' = Running
    BY <2>1 DEF Running
  <2>. QED  BY <2>1, <2>2, <2>3, <2>4 DEF Vouched
<1>3. ASSUME NEW l \in Listeners, Created(l) PROVE Vouched'
  <2>1. /\ pc[l] = "read" /\ pc' = [pc EXCEPT ![l] = "listening"]
        /\ stream # <<>> /\ stream' = Tail(stream) /\ Reply.kind = "service"
        /\ address' = [address EXCEPT ![l] = Reply.of]
        /\ UNCHANGED <<dels, up, sent, services>>
    BY <1>3 DEF Created, Go, ghosts
  <2>2. Reply \in Replies /\ Reply.kind = "service"
    BY <2>1, SeqElements DEF Typed, Reply
  <2>3. ASSUME NEW a \in Onions
        PROVE  Count(stream', Naming(a)) + Cardinality(Holders(a)')
                 = Count(stream, Naming(a)) + Cardinality(Holders(a))
    <3>1. l \notin Holders(a)
      BY <2>1 DEF Holders
    <3>2. CASE a = Reply.of
      <4>1. Holders(a)' = Holders(a) \cup {l}
        <5>1. dels[l] = 0
          BY <2>1 DEF Places, Removals
        <5>. QED  BY <2>1, <3>2, <5>1 DEF Holders, Typed, Processes
      <4>2. Reply \in Naming(a)
        BY <2>2, <3>2 DEF Naming
      <4>3. Cardinality(Holders(a)') = Cardinality(Holders(a)) + 1
        BY <3>1, <4>1, HoldersIn, CountIn
      <4>4. Count(stream', Naming(a)) = Count(stream, Naming(a)) - 1
        BY <2>1, <4>2, SentCounts
      <4>. QED  BY <1>0, <4>3, <4>4, SentCounts
    <3>3. CASE a # Reply.of
      <4>1. Holders(a)' = Holders(a)
        BY <2>1, <3>1, <3>3 DEF Holders, Typed, Processes
      <4>2. Reply \notin Naming(a)
        BY <2>2, <3>3 DEF Naming
      <4>3. Count(stream', Naming(a)) = Count(stream, Naming(a))
        BY <2>1, <4>2, SentCounts
      <4>. QED  BY <4>1, <4>3
    <3>. QED  BY <3>2, <3>3
  <2>4. Running' = Running
    BY <2>1 DEF Running
  <2>5. \A a \in Onions : /\ Cardinality(Holders(a)') \in Nat /\ Count(stream', Naming(a)) \in Nat
                             /\ Count(sent, DeletionsOf(a)) \in Nat
    <3>1. \A a : Holders(a)' \in SUBSET Listeners
      BY DEF Holders
    <3>2. stream' \in Seq(Replies)
      BY <2>1, SeqElements DEF Typed
    <3>. QED  BY <3>1, <3>2, CountIn, CountAppend, SentCounts
  <2>. QED  BY <1>0, <2>1, <2>3, <2>4, <2>5, SentCounts DEF Vouched
<1>4. ASSUME NEW l \in Listeners, NotCreated(l) PROVE Vouched'
  <2>1. /\ dels' = dels /\ address' = address /\ UNCHANGED <<up, sent, services>>
        /\ \A k \in Listeners : pc'[k] = "listening" <=> pc[k] = "listening"
        /\ stream' = stream \/ (stream # <<>> /\ stream' = Tail(stream))
    BY <1>4 DEF NotCreated, Fail, Typed, Processes, handle
  <2>. QED  BY <2>1, DroppedReply
<1>5. ASSUME NEW g \in Closers, NEW l \in Listeners, Close(g, l) PROVE Vouched'
  <2>1. /\ dels' = dels /\ address' = address /\ UNCHANGED <<up, sent, stream, services>>
        /\ \A k \in Listeners : pc'[k] = pc[k]
    BY <1>5, Distinct DEF Close, Go, Typed, Processes, control, handle, ghosts
  <2>2. \A a : Holders(a)' = Holders(a)
    BY <2>1 DEF Holders
  <2>. QED  BY <2>1, <2>2, VouchedFrame
<1>6. ASSUME NEW g \in Closers, SendDel(g) PROVE Vouched'
  <2>. DEFINE b == address[target[g]]
              c == [op |-> "del", of |-> b, key |-> None]
  <2>1. /\ pc[g] = "remove" /\ dels' = [dels EXCEPT ![target[g]] = @ + 1]
        /\ address' = address /\ UNCHANGED <<up, stream, services>>
        /\ sent' = Append(sent, c)
        /\ \A k \in Listeners : pc'[k] = pc[k]
    BY <1>6, Distinct DEF SendDel, Exec, Go, Typed, Processes, handle
  <2>2. target[g] \in Listeners /\ pc[target[g]] = "listening" /\ dels[target[g]] = 0
    BY <2>1 DEF Places, Removals, Typed
  <2>3. b \in Onions /\ c \in Commands /\ c.of = b /\ c.op = "del"
    BY <2>2 DEF Typed, Commands
  <2>. HIDE DEF b, c
  <2>4. ASSUME NEW a \in Onions
        PROVE  Cardinality(Holders(a)') + Count(sent', DeletionsOf(a))
                 = Cardinality(Holders(a)) + Count(sent, DeletionsOf(a))
    <3>1. CASE a = b
      <4>1. target[g] \in Holders(a) /\ Holders(a)' = Holders(a) \ {target[g]}
        BY <2>1, <2>2, <3>1 DEF Holders, Typed, b
      <4>2. c \in DeletionsOf(a)
        BY <2>3, <3>1 DEF DeletionsOf, Deletions
      <4>3. Cardinality(Holders(a)') = Cardinality(Holders(a)) - 1
        BY <4>1, HoldersIn, CountIn
      <4>4. Count(sent', DeletionsOf(a)) = Count(sent, DeletionsOf(a)) + 1
        BY <2>1, <4>2, SentCounts
      <4>. QED  BY <1>0, <4>3, <4>4, SentCounts
    <3>2. CASE a # b
      <4>1. Holders(a)' = Holders(a)
        BY <2>1, <2>2, <3>2 DEF Holders, Typed, b
      <4>2. c \notin DeletionsOf(a)
        BY <2>3, <3>2 DEF DeletionsOf, Deletions
      <4>3. Count(sent', DeletionsOf(a)) = Count(sent, DeletionsOf(a))
        BY <2>1, <4>2, SentCounts
      <4>. QED  BY <4>1, <4>3
    <3>. QED  BY <3>1, <3>2
  <2>5. Running' = Running
    BY <2>1 DEF Running
  <2>6. \A a \in Onions : Cardinality(Holders(a)') \in Nat /\ Count(sent', DeletionsOf(a)) \in Nat
    <3>1. \A a : Holders(a)' \in SUBSET Listeners
      BY DEF Holders
    <3>2. sent' \in Seq(Commands)
      BY <2>1, <2>3 DEF Typed
    <3>. QED  BY <3>1, <3>2, CountIn, CountAppend
  <2>7. \A a \in Onions :
          /\ Cardinality(Holders(a)) \in Nat /\ Count(sent, DeletionsOf(a)) \in Nat
          /\ Count(stream', Naming(a)) = Count(stream, Naming(a)) /\ Count(stream, Naming(a)) \in Nat
    BY <1>0, <2>1, SentCounts
  <2>. QED  BY <2>1, <2>4, <2>5, <2>6, <2>7 DEF Vouched
<1>7. ASSUME NEW g \in Closers, RemoveFails(g) \/ Unbind(g) PROVE Vouched'
  <2>1. /\ dels' = dels /\ address' = address /\ UNCHANGED <<up, sent, stream, services>>
        /\ \A k \in Listeners : pc'[k] = pc[k]
    BY <1>7, Distinct
       DEF RemoveFails, Unbind, Go, Typed, Processes, control, handle, ghosts
  <2>2. \A a : Holders(a)' = Holders(a)
    BY <2>1 DEF Holders
  <2>. QED  BY <2>1, <2>2, VouchedFrame
<1>8. ASSUME NEW g \in Closers, Removed(g) PROVE Vouched'
  <2>1. /\ dels' = dels /\ address' = address /\ UNCHANGED <<up, sent, services>>
        /\ \A k \in Listeners : pc'[k] = pc[k]
        /\ stream' = stream \/ (stream # <<>> /\ stream' = Tail(stream))
    BY <1>8, Distinct DEF Removed, Go, Typed, Processes, handle
  <2>. QED  BY <2>1, DroppedReply
<1>9. CASE Tor
  <2>1. /\ up /\ sent # <<>> /\ sent' = Tail(sent) /\ UNCHANGED <<pc, dels, address, up>>
        /\ Command \in Commands
    BY <1>9, SeqElements DEF Tor, Command, Typed, handle, ghosts
  <2>2. \A a : Holders(a)' = Holders(a)
    BY <2>1 DEF Holders
  <2>3. \A P : Count(sent', P) \in Nat
    <3>1. sent' \in Seq(Commands)
      BY <2>1, SeqElements DEF Typed
    <3>. QED  BY <3>1, CountAppend
  <2>4. CASE TorAdds
    BY <1>0, <2>1, <2>2, <2>3, <2>4, TorVouches
  <2>5. CASE TorDeletes
    BY <1>0, <2>1, <2>2, <2>3, <2>5, TorUnvouches
  <2>. QED  BY <1>9, <2>4, <2>5 DEF Tor
<1>10. CASE Disconnect
  BY <1>10 DEF Disconnect, Vouched
<1>11. CASE Aside
  <2>1. \A a : Holders(a)' = Holders(a)
    BY <1>11 DEF Aside, Holders, ghosts
  <2>. QED  BY <1>11, <2>1, VouchedFrame DEF Aside
<1>. QED
  BY <1>1, <1>2, <1>3, <1>4, <1>5, <1>6, <1>7, <1>8, <1>9, <1>10, <1>11, Moves

LEMMA AccountSets ==
  /\ Open \in SUBSET Listeners /\ Coming \in SUBSET Listeners /\ Owing \in SUBSET Closers
  /\ Cardinality(Open) \in Nat /\ Cardinality(Coming) \in Nat /\ Cardinality(Owing) \in Nat
<1>1. Open \in SUBSET Listeners /\ Coming \in SUBSET Listeners /\ Owing \in SUBSET Closers
  BY DEF Open, Coming, Owing
<1>. QED  BY <1>1, CountIn

LEMMA AccountedFrame ==
  ASSUME Typed, Accounted, UNCHANGED <<sent, services>>, told' \in {told, told + 1},
         UNCHANGED <<Open, Coming, Owing>>
  PROVE  Accounted'
<1>1. told \in Nat
  BY DEF Typed
<1>2. /\ Count(sent, Additions) \in Nat /\ Count(sent, Deletions) \in Nat
      /\ Cardinality(services) \in Nat
  BY SentCounts, ServicesFinite
<1>3. Additions' = Additions /\ Deletions' = Deletions
  BY DEF Additions, Deletions, Commands
<1>. QED  BY <1>1, <1>2, <1>3, AccountSets DEF Accounted

(* Every service that Tor has made, or will make of a command on its way,  *)
(* is accounted for by the call that asked for it, then by its listener,   *)
(* then by its deletion, and from the first failure on by an error.        *)
LEMMA AccountedKept ==
  ASSUME Typed, Places, Removals, Reading, Vouched, Quiet, Accounted, [Next]_vars
  PROVE  Accounted'
<1>0. /\ told \in Nat /\ Cardinality(services) \in Nat
      /\ Count(sent, Additions) \in Nat /\ Count(sent, Deletions) \in Nat
      /\ Cardinality(Open) \in Nat /\ Cardinality(Coming) \in Nat /\ Cardinality(Owing) \in Nat
  BY SentCounts, ServicesFinite, AccountSets DEF Typed
<1>. USE <1>0
<1>1. ASSUME NEW l \in Listeners, Bind(l) \/ BindFails(l) \/ CreateFails(l) PROVE Accounted'
  <2>1. /\ UNCHANGED <<sent, services, closed, failed>> /\ told' \in {told, told + 1}
        /\ \A k \in Listeners : /\ pc'[k] = "listening" <=> pc[k] = "listening"
                                /\ pc'[k] = "read" <=> pc[k] = "read"
        /\ \A g \in Closers : pc'[g] = pc[g]
    BY <1>1, Distinct
       DEF Bind, BindFails, CreateFails, Fail, Go, Typed, Processes, control, handle, ghosts
  <2>2. UNCHANGED <<Open, Coming, Owing>>
    BY <2>1 DEF Open, Coming, Owing
  <2>. QED  BY <2>1, <2>2, AccountedFrame
<1>2. ASSUME NEW l \in Listeners, SendAdd(l) PROVE Accounted'
  <2>. DEFINE c == [op |-> "add", of |-> l, key |-> KeySpec(key[l])]
  <2>1. /\ pc[l] = "create" /\ pc' = [pc EXCEPT ![l] = "read"] /\ sent' = Append(sent, c)
        /\ UNCHANGED <<services, closed, failed, told>>
    BY <1>2 DEF SendAdd, Exec, Go, ghosts
  <2>2. c \in Additions /\ c \notin Deletions
    <3>1. c \in Commands
      BY KeySpecTyped DEF Commands, Typed
    <3>. QED  BY <3>1 DEF Additions, Deletions
  <2>. HIDE DEF c
  <2>3. /\ Count(sent', Additions) = Count(sent, Additions) + 1
        /\ Count(sent', Deletions) = Count(sent, Deletions)
    BY <2>1, <2>2, SentCounts
  <2>4. l \notin Coming /\ Coming' = Coming \cup {l} /\ Open' = Open /\ Owing' = Owing
    BY <2>1, Distinct DEF Coming, Open, Owing, Typed, Processes
  <2>5. /\ Cardinality(Coming') = Cardinality(Coming) + 1
        /\ Cardinality(Open') = Cardinality(Open) /\ Cardinality(Owing') = Cardinality(Owing)
    BY <2>4, CountIn, AccountSets
  <2>6. services' = services /\ told' = told
    BY <2>1
  <2>. QED  BY <2>3, <2>5, <2>6 DEF Accounted
<1>3. ASSUME NEW l \in Listeners, Created(l) PROVE Accounted'
  <2>1. /\ pc[l] = "read" /\ pc' = [pc EXCEPT ![l] = "listening"]
        /\ UNCHANGED <<sent, services, closed, failed, told>>
    BY <1>3 DEF Created, Go, ghosts
  <2>2. l \notin closed
    BY <2>1 DEF Places
  <2>3. /\ l \in Coming /\ Coming' = Coming \ {l}
        /\ l \notin Open /\ Open' = Open \cup {l} /\ Owing' = Owing
    BY <2>1, <2>2, Distinct DEF Coming, Open, Owing, Typed, Processes
  <2>4. /\ Cardinality(Coming') = Cardinality(Coming) - 1
        /\ Cardinality(Open') = Cardinality(Open) + 1
        /\ Cardinality(Owing') = Cardinality(Owing)
    BY <2>3, CountIn, AccountSets
  <2>5. sent' = sent /\ services' = services /\ told' = told
    BY <2>1
  <2>. QED  BY <2>4, <2>5 DEF Accounted
<1>4. ASSUME NEW l \in Listeners, NotCreated(l) PROVE Accounted'
  <2>1. /\ pc[l] = "read" /\ pc' = [pc EXCEPT ![l] = "failed"] /\ told' = told + 1
        /\ UNCHANGED <<sent, services, closed, failed>>
    BY <1>4 DEF NotCreated, Fail
  <2>2. l \in Coming /\ Coming' = Coming \ {l} /\ Open' = Open /\ Owing' = Owing
    BY <2>1, Distinct DEF Coming, Open, Owing, Typed, Processes
  <2>3. /\ Cardinality(Coming') = Cardinality(Coming) - 1
        /\ Cardinality(Open') = Cardinality(Open) /\ Cardinality(Owing') = Cardinality(Owing)
    BY <2>2, CountIn, AccountSets
  <2>4. sent' = sent /\ services' = services /\ told' = told + 1
    BY <2>1
  <2>. QED  BY <2>3, <2>4 DEF Accounted
<1>5. ASSUME NEW g \in Closers, NEW l \in Listeners, Close(g, l) PROVE Accounted'
  <2>1. /\ pc[g] = "idle" /\ pc' = [pc EXCEPT ![g] = "remove"]
        /\ pc[l] = "listening" /\ l \notin closed /\ closed' = closed \cup {l}
        /\ failed' = [failed EXCEPT ![g] = FALSE]
        /\ UNCHANGED <<sent, services, told>>
    BY <1>5 DEF Close, Go, control, ghosts
  <2>2. ~failed[g]
    BY <2>1 DEF Quiet
  <2>3. /\ l \in Open /\ Open' = Open \ {l} /\ Coming' = Coming
        /\ g \notin Owing /\ Owing' = Owing \cup {g}
    BY <2>1, <2>2, Distinct DEF Coming, Open, Owing, Typed, Processes
  <2>4. /\ Cardinality(Open') = Cardinality(Open) - 1
        /\ Cardinality(Owing') = Cardinality(Owing) + 1
        /\ Cardinality(Coming') = Cardinality(Coming)
    BY <2>3, CountIn, AccountSets
  <2>5. sent' = sent /\ services' = services /\ told' = told
    BY <2>1
  <2>. QED  BY <2>4, <2>5 DEF Accounted
<1>6. ASSUME NEW g \in Closers, SendDel(g) PROVE Accounted'
  <2>. DEFINE c == [op |-> "del", of |-> address[target[g]], key |-> None]
  <2>1. /\ pc[g] = "remove" /\ pc' = [pc EXCEPT ![g] = "read"] /\ sent' = Append(sent, c)
        /\ UNCHANGED <<services, closed, failed, told>>
    BY <1>6 DEF SendDel, Exec, Go
  <2>2. c \in Deletions /\ c \notin Additions
    <3>1. address[target[g]] \in Onions
      BY <2>1 DEF Typed, Places
    <3>2. c \in Commands
      BY <3>1 DEF Commands
    <3>. QED  BY <3>2 DEF Additions, Deletions
  <2>. HIDE DEF c
  <2>3. /\ Count(sent', Additions) = Count(sent, Additions)
        /\ Count(sent', Deletions) = Count(sent, Deletions) + 1
    BY <2>1, <2>2, SentCounts
  <2>4. ~failed[g]
    BY <2>1 DEF Quiet
  <2>5. g \in Owing /\ Owing' = Owing \ {g} /\ Open' = Open /\ Coming' = Coming
    BY <2>1, <2>4, Distinct DEF Coming, Open, Owing, Typed, Processes
  <2>6. /\ Cardinality(Owing') = Cardinality(Owing) - 1
        /\ Cardinality(Open') = Cardinality(Open) /\ Cardinality(Coming') = Cardinality(Coming)
    BY <2>5, CountIn, AccountSets
  <2>7. services' = services /\ told' = told
    BY <2>1
  <2>. QED  BY <2>3, <2>6, <2>7 DEF Accounted
<1>7. ASSUME NEW g \in Closers, RemoveFails(g) PROVE Accounted'
  <2>1. /\ pc[g] = "remove" /\ pc' = [pc EXCEPT ![g] = "unbind"]
        /\ failed' = [failed EXCEPT ![g] = TRUE]
        /\ UNCHANGED <<sent, services, closed, told>>
    BY <1>7 DEF RemoveFails, Go, control, ghosts
  <2>2. UNCHANGED <<Open, Coming, Owing>>
    BY <2>1, Distinct DEF Coming, Open, Owing, Typed, Processes
  <2>. QED  BY <2>1, <2>2, AccountedFrame
<1>8. ASSUME NEW g \in Closers, Removed(g) PROVE Accounted'
  <2>1. /\ pc[g] = "read" /\ pc' = [pc EXCEPT ![g] = "unbind"]
        /\ \A h \in Closers : h # g => failed'[h] = failed[h]
        /\ UNCHANGED <<sent, services, closed, told>>
    BY <1>8 DEF Removed, Go, Typed
  <2>2. ~failed[g]
    BY <2>1 DEF Quiet
  <2>3. Open' = Open /\ Coming' = Coming /\ g \notin Owing /\ Owing' \in {Owing, Owing \cup {g}}
    BY <2>1, <2>2, Distinct DEF Coming, Open, Owing, Typed, Processes
  <2>4. /\ Cardinality(Owing') \in {Cardinality(Owing), Cardinality(Owing) + 1}
        /\ Cardinality(Open') = Cardinality(Open) /\ Cardinality(Coming') = Cardinality(Coming)
    BY <2>3, CountIn, AccountSets
  <2>5. sent' = sent /\ services' = services /\ told' = told
    BY <2>1
  <2>. QED  BY <2>4, <2>5 DEF Accounted
<1>9. ASSUME NEW g \in Closers, Unbind(g) PROVE Accounted'
  <2>1. /\ pc[g] = "unbind" /\ pc' = [pc EXCEPT ![g] = "idle"]
        /\ told' = IF failed[g] THEN told + 1 ELSE told
        /\ failed' = [failed EXCEPT ![g] = FALSE]
        /\ UNCHANGED <<sent, services, closed>>
    BY <1>9 DEF Unbind, Go, control
  <2>2. Open' = Open /\ Coming' = Coming /\ Owing' = Owing \ {g} /\ (g \in Owing <=> failed[g])
    BY <2>1, Distinct DEF Coming, Open, Owing, Typed, Processes
  <2>3. CASE failed[g]
    <3>1. /\ Cardinality(Owing') = Cardinality(Owing) - 1
          /\ Cardinality(Open') = Cardinality(Open) /\ Cardinality(Coming') = Cardinality(Coming)
      BY <2>2, <2>3, CountIn, AccountSets
    <3>2. sent' = sent /\ services' = services /\ told' = told + 1
      BY <2>1, <2>3
    <3>. QED  BY <3>1, <3>2 DEF Accounted
  <2>4. CASE ~failed[g]
    <3>1. Owing' = Owing
      BY <2>2, <2>4
    <3>. QED  BY <2>1, <2>2, <2>4, <3>1, AccountedFrame
  <2>. QED  BY <2>3, <2>4
<1>10. CASE Tor
  <2>1. /\ up /\ sent # <<>> /\ sent' = Tail(sent)
        /\ UNCHANGED <<pc, closed, failed, told>> /\ Command \in Commands
    BY <1>10, SeqElements DEF Tor, Command, Typed, ghosts
  <2>2. UNCHANGED <<Open, Coming, Owing>> /\ told' = told
    BY <2>1 DEF Open, Coming, Owing
  <2>3. CASE TorAdds
    <3>1. Command \in Additions /\ Command \notin Deletions
      BY <2>1, <2>3 DEF TorAdds, Additions, Deletions
    <3>2. /\ Count(sent', Additions) = Count(sent, Additions) - 1
          /\ Count(sent', Deletions) = Count(sent, Deletions)
      BY <2>1, <3>1, SentCounts
    <3>3. Cardinality(services') \in {Cardinality(services), Cardinality(services) + 1}
      <4>1. services' = services \/ \E x : services' = services \cup {x}
        BY <2>3 DEF TorAdds
      <4>. QED  BY <4>1, ServicesFinite, FS_AddElement
    <3>. QED  BY <2>2, <3>2, <3>3 DEF Accounted
  <2>4. CASE TorDeletes
    <3>1. Command \in Deletions /\ Command \notin Additions /\ Command \in DeletionsOf(Command.of)
          /\ Command.of \in Onions
      BY <2>1, <2>4 DEF TorDeletes, Additions, Deletions, DeletionsOf, Commands
    <3>2. /\ Count(sent', Additions) = Count(sent, Additions)
          /\ Count(sent', Deletions) = Count(sent, Deletions) - 1
      BY <2>1, <3>1, SentCounts
    <3>3. Command.of \in Running
      <4>. DEFINE a == Command.of
      <4>1. Count(sent', DeletionsOf(a)) = Count(sent, DeletionsOf(a)) - 1
        BY <2>1, <3>1, SentCounts
      <4>2. Count(sent', DeletionsOf(a)) \in Nat
        <5>1. sent' \in Seq(Commands)
          BY <2>1, SeqElements DEF Typed
        <5>2. \A P : Count(sent', P) \in Nat
          BY <5>1, CountAppend
        <5>. QED  BY <5>2
      <4>3. /\ Count(sent, DeletionsOf(a)) \in Nat /\ Count(stream, Naming(a)) \in Nat
            /\ Cardinality(Holders(a)) \in Nat
        BY SentCounts, HoldersIn, CountIn
      <4>4. Count(stream, Naming(a)) + Cardinality(Holders(a)) + Count(sent, DeletionsOf(a))
              <= IF a \in Running THEN 1 ELSE 0
        BY <2>1, <3>1 DEF Vouched
      <4>. HIDE DEF a
      <4>5. a \in Running
        BY <4>1, <4>2, <4>3, <4>4
      <4>. QED  BY <4>5 DEF a
    <3>4. Cardinality(services') = Cardinality(services) - 1
      <4>1. PICK s \in services : s.of = Command.of
        BY <3>3 DEF Running
      <4>2. \A t \in services : t.of = Command.of => t = s
        BY <2>1, <4>1 DEF Vouched
      <4>3. services' = services \ {s}
        BY <2>4, <4>1, <4>2 DEF TorDeletes
      <4>. QED  BY <4>3, ServicesFinite, FS_RemoveElement
    <3>. QED  BY <2>2, <3>2, <3>4 DEF Accounted
  <2>. QED  BY <1>10, <2>3, <2>4 DEF Tor
<1>11. CASE Disconnect
  <2>1. sent' = <<>> /\ services' = {} /\ UNCHANGED <<pc, closed, failed, told>>
    BY <1>11 DEF Disconnect, ghosts
  <2>2. UNCHANGED <<Open, Coming, Owing>> /\ told' = told
    BY <2>1 DEF Open, Coming, Owing
  <2>3. Count(sent', Additions) = 0 /\ Count(sent', Deletions) = 0
    <3>1. \A P : {i \in DOMAIN sent' : sent'[i] \in P} = {}
      BY <2>1
    <3>. QED  BY <3>1, FS_EmptySet DEF Count
  <2>4. Cardinality(services') = 0
    BY <2>1, FS_EmptySet
  <2>. QED  BY <2>2, <2>3, <2>4 DEF Accounted
<1>12. CASE Aside
  <2>1. UNCHANGED <<sent, services, closed, failed, told, pc>>
    BY <1>12 DEF Aside, ghosts
  <2>2. UNCHANGED <<Open, Coming, Owing>>
    BY <2>1 DEF Open, Coming, Owing
  <2>. QED  BY <2>1, <2>2, AccountedFrame
<1>. QED
  BY <1>1, <1>2, <1>3, <1>4, <1>5, <1>6, <1>7, <1>8, <1>9, <1>10, <1>11, <1>12, Moves

LEMMA Accounts == SafeSpec => [](Vouched /\ Quiet /\ Accounted)
<1>1. Init => Vouched /\ Quiet /\ Accounted
  BY InitAccounts
<1>2. IInv /\ Vouched /\ Quiet /\ Accounted /\ [Next]_vars => (Vouched /\ Quiet /\ Accounted)'
  BY VouchedKept, QuietKept, AccountedKept DEF IInv
<1>. QED  BY <1>1, <1>2, Invariance, PTL DEF SafeSpec

(* Whatever replies are lost, late or taken for others, no service is left *)
(* running that no listener, no call on its way and no error accounts for: *)
(* from Vouched, a DEL_ONION never misses (client.go 571-575, listener.go  *)
(* 103-118).                                                               *)
THEOREM NothingIsSilent == SafeSpec => []NothingSilent
<1>1. Typed /\ Accounted => NothingSilent
  <2>. SUFFICES ASSUME Typed, Accounted PROVE NothingSilent
    OBVIOUS
  <2>1. {i \in DOMAIN sent : sent[i].op = "del"} = {i \in DOMAIN sent : sent[i] \in Deletions}
    BY DEF Typed, Deletions
  <2>2. Cardinality({i \in DOMAIN sent : sent[i].op = "del"}) = Count(sent, Deletions)
    BY <2>1 DEF Count
  <2>3. /\ Cardinality(services) \in Nat /\ told \in Nat
        /\ Count(sent, Additions) \in Nat /\ Count(sent, Deletions) \in Nat
    BY SentCounts, ServicesFinite DEF Typed
  <2>. QED  BY <2>2, <2>3, AccountSets DEF Accounted, NothingSilent, Coming, Owing
<1>2. IInv => Typed
  BY DEF IInv
<1>. QED  BY <1>1, <1>2, Accounts, Invariance, PTL
=============================================================================
