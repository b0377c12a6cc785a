-------------------------- MODULE ControlClient --------------------------
(***************************************************************************)
(* ControlClient of control.go: goroutines that share one connection to    *)
(* Tor's control port, and Tor at the other end of it.                     *)
(*                                                                         *)
(* Every exported operation (NewIdentity, GetInfo, GetConf, SetConf,       *)
(* ResetConf, SaveConf, GetCircuitStatus, GetStreamStatus, MapAddress, and *)
(* CreateHiddenService and its relatives) is ensureAuthenticated followed  *)
(* by one execCommand; GetInfoNoAuth skips the first half and Authenticate *)
(* the second.  execCommand writes one line and reads lines until it finds *)
(* one that ends a reply, all under c.mu and under a deadline that is      *)
(* always there: NewControlClient replaces a timeout that is not positive. *)
(*                                                                         *)
(* A line of a reply is the command it answers and its kind:               *)
(*   final "250 x"    mid "250-x"    plus "250+x", then data and dot "."   *)
(*   err   5xx        four: 4xx      frag: what is left of a cut line      *)
(* Text that is read out of place ("data" outside of a block) may look     *)
(* like anything: circuit 250 of a circuit-status block reads "250 BUILT". *)
(* Tor's asynchronous events (650) do not occur: nothing subscribes.       *)
(***************************************************************************)
EXTENDS Integers, Sequences

CONSTANTS Callers,       \* goroutines that share the client
          None,          \* nobody
          MaxCalls,      \* bound: calls of exported operations
          ReplyShapes    \* how Tor answers a command: sequences of kinds

Kinds == {"final", "mid", "plus", "data", "dot", "err", "four", "frag"}

(* What the control protocol promises of a reply: the line that ends it is *)
(* its last, and lines of data stand in a block that a plus line opens.    *)
Ends == {"final", "err", "four"}
WellFormed(s) == \A k \in 1..Len(s) :
                   /\ s[k] \in Ends => k = Len(s)
                   /\ s[k] = "data" => k > 1 /\ s[k - 1] \in {"plus", "data"}

ASSUME ControlClientAssumption ==
  /\ None \notin Callers
  /\ MaxCalls \in Nat
  /\ ReplyShapes \subseteq Seq(Kinds)
  /\ \A s \in ReplyShapes : WellFormed(s)

VARIABLES authenticated,  \* c.authenticated, read and written without c.mu
          mu,             \* who holds c.mu
          werr,           \* the sticky error of the bufio.Writer in c.rw
          closed,         \* Close was called
          pc, todo,       \* per caller: place, commands its call has to run
          id,             \* per caller: number of its last command sent
          reply,          \* per caller: commands whose lines it used as reply
          calls, sends,   \* counters: calls made, commands sent
          orphans,        \* commands whose caller left without its reply
          sent,           \* commands on their way to Tor
          stream,         \* lines on their way from Tor
          torAuthed,      \* Tor has accepted an AUTHENTICATE
          torClosed       \* Tor has closed the connection

client == <<authenticated, mu, werr, closed>>
caller == <<pc, todo, id, reply, calls, sends, orphans>>
wire   == <<sent, stream, torAuthed, torClosed>>
vars   == <<client, caller, wire>>

Commands == {"AUTHENTICATE", "COMMAND"}
SentCommands == [id : Nat, cmd : Commands]
Lines == [id : Nat, kind : Kinds]

Init == /\ authenticated = FALSE /\ mu = None /\ werr = FALSE /\ closed = FALSE
        /\ pc = [c \in Callers |-> "idle"]
        /\ todo = [c \in Callers |-> <<>>]
        /\ id = [c \in Callers |-> 0]
        /\ reply = [c \in Callers |-> {}]
        /\ calls = 0 /\ sends = 0 /\ orphans = {}
        /\ sent = <<>> /\ stream = <<>>
        /\ torAuthed = FALSE /\ torClosed = FALSE

(* A call begins.  Authenticate and GetInfoNoAuth go straight to           *)
(* execCommand; every other operation passes ensureAuthenticated.          *)
Call(c) == /\ pc[c] = "idle"
           /\ calls < MaxCalls
           /\ calls' = calls + 1
           /\ \/ /\ todo' = [todo EXCEPT ![c] = <<"COMMAND">>]
                 /\ pc' = [pc EXCEPT ![c] = "ensure"]
              \/ /\ \E cmd \in Commands : todo' = [todo EXCEPT ![c] = <<cmd>>]
                 /\ pc' = [pc EXCEPT ![c] = "lock"]
           /\ id' = [id EXCEPT ![c] = 0]
           /\ reply' = [reply EXCEPT ![c] = {}]
           /\ UNCHANGED <<client, sends, orphans, wire>>

(* ensureAuthenticated looks at the flag without the mutex, and puts an    *)
(* AUTHENTICATE before the command; the call is over when authToken cannot *)
(* read the cookie file.                                                   *)
Ensure(c) == /\ pc[c] = "ensure"
             /\ \/ /\ authenticated
                   /\ pc' = [pc EXCEPT ![c] = "lock"]
                   /\ UNCHANGED todo
                \/ /\ ~authenticated
                   /\ pc' = [pc EXCEPT ![c] = "lock"]
                   /\ todo' = [todo EXCEPT ![c] = <<"AUTHENTICATE">> \o @]
                \/ /\ ~authenticated
                   /\ pc' = [pc EXCEPT ![c] = "idle"]
                   /\ todo' = [todo EXCEPT ![c] = <<>>]
             /\ UNCHANGED <<client, id, reply, calls, sends, orphans, wire>>

(* Faulty variant: execCommand does without the mutex. *)
ExecUnlocked(c) == /\ pc[c] = "lock"
                   /\ ~closed /\ ~werr
                   /\ mu' = c
                   /\ sends' = sends + 1
                   /\ id' = [id EXCEPT ![c] = sends + 1]
                   /\ reply' = [reply EXCEPT ![c] = {}]
                   /\ sent' = Append(sent, [id |-> sends + 1, cmd |-> Head(todo[c])])
                   /\ pc' = [pc EXCEPT ![c] = "read"]
                   /\ UNCHANGED <<authenticated, werr, closed, todo, calls, orphans,
                                  stream, torAuthed, torClosed>>

(* execCommand takes the mutex, arms the deadline and writes the command.  *)
Exec(c) == /\ pc[c] = "lock"
           /\ mu = None
           /\ ~closed /\ ~werr
           /\ mu' = c
           /\ sends' = sends + 1
           /\ id' = [id EXCEPT ![c] = sends + 1]
           /\ reply' = [reply EXCEPT ![c] = {}]
           /\ sent' = Append(sent, [id |-> sends + 1, cmd |-> Head(todo[c])])
           /\ pc' = [pc EXCEPT ![c] = "read"]
           /\ UNCHANGED <<authenticated, werr, closed, todo, calls, orphans,
                          stream, torAuthed, torClosed>>

(* It fails before anything is sent: the connection is closed, or the      *)
(* writer has failed before, or it fails now, because Tor has gone or the  *)
(* context ran out while the call waited for the mutex (the caller's, or   *)
(* the one that Authenticate made).  An error of the writer stays.         *)
ExecFails(c) == /\ pc[c] = "lock"
                /\ mu = None
                /\ \/ closed /\ UNCHANGED werr
                   \/ ~closed /\ werr' = TRUE
                /\ pc' = [pc EXCEPT ![c] = "idle"]
                /\ todo' = [todo EXCEPT ![c] = <<>>]
                /\ UNCHANGED <<authenticated, mu, closed, id, reply, calls, sends, orphans, wire>>

(* Faulty variant: Authenticate does not look at the error. *)
FinishAnyhow(c, ok) == /\ mu' = None
                       /\ IF Head(todo[c]) = "AUTHENTICATE"
                          THEN pc' = [pc EXCEPT ![c] = "note"] /\ UNCHANGED todo
                          ELSE /\ pc' = [pc EXCEPT ![c] = "idle"]
                               /\ todo' = [todo EXCEPT ![c] = <<>>]
                       /\ UNCHANGED <<authenticated, werr, closed, id, calls, sends,
                                      sent, torAuthed, torClosed>>

(* The end of execCommand: the mutex is released; a successful             *)
(* AUTHENTICATE has still to be noted, anything else ends the call.        *)
Finish(c, ok) == /\ mu' = None
                 /\ IF ok /\ Head(todo[c]) = "AUTHENTICATE"
                    THEN pc' = [pc EXCEPT ![c] = "note"] /\ UNCHANGED todo
                    ELSE /\ pc' = [pc EXCEPT ![c] = "idle"]
                         /\ todo' = [todo EXCEPT ![c] = <<>>]
                 /\ UNCHANGED <<authenticated, werr, closed, id, calls, sends,
                                sent, torAuthed, torClosed>>

Line == Head(stream)

Uses(c) == reply' = [reply EXCEPT ![c] = @ \cup {Line.id}]

(* A reply that was not the caller's own leaves its own behind. *)
Forsakes(c) == orphans' = IF Line.id = id[c] THEN orphans ELSE orphans \cup {id[c]}

(* Faulty variant: every line that starts with "250" ends the reply. *)
ReadFinalShort(c) == /\ pc[c] = "read"
                     /\ stream # <<>> /\ Line.kind \in {"final", "mid", "plus", "data"}
                     /\ stream' = Tail(stream)
                     /\ Uses(c) /\ Forsakes(c)
                     /\ Finish(c, TRUE)

(* readReply finds a line that starts with "250 ": the reply is complete, *)
ReadFinal(c) == /\ pc[c] = "read"
                /\ stream # <<>> /\ Line.kind \in {"final", "data"}
                /\ stream' = Tail(stream)
                /\ Uses(c) /\ Forsakes(c)
                /\ Finish(c, TRUE)

(* or a line with a code from 500 up: the reply is an error. *)
ReadErr(c) == /\ pc[c] = "read"
              /\ stream # <<>> /\ Line.kind \in {"err", "data"}
              /\ stream' = Tail(stream)
              /\ Uses(c) /\ Forsakes(c)
              /\ Finish(c, FALSE)

(* A "250-" line is kept, a "250+" line opens a block; in a block every    *)
(* line is kept until the one that closes it.                              *)
ReadPart(c) == /\ stream # <<>>
               /\ \/ pc[c] = "read" /\ Line.kind \in {"mid", "data"} /\ UNCHANGED pc
                  \/ pc[c] = "read" /\ Line.kind \in {"plus", "data"}
                       /\ pc' = [pc EXCEPT ![c] = "block"]
                  \/ pc[c] = "block" /\ Line.kind # "dot" /\ UNCHANGED pc
                  \/ pc[c] = "block" /\ Line.kind = "dot"
                       /\ pc' = [pc EXCEPT ![c] = "read"]
               /\ stream' = Tail(stream)
               /\ Uses(c)
               /\ UNCHANGED <<client, todo, id, calls, sends, orphans,
                              sent, torAuthed, torClosed>>

(* Any other line is passed over, a 4xx answer among them. *)
ReadIgnored(c) == /\ pc[c] = "read"
                  /\ stream # <<>> /\ Line.kind \in {"four", "data", "dot", "frag"}
                  /\ stream' = Tail(stream)
                  /\ UNCHANGED <<client, caller, sent, torAuthed, torClosed>>

(* The deadline passes.  ReadString hands back what it has of a line, and  *)
(* readReply drops it: the rest of the line stays, and looks like a line.  *)
CutKind == CASE Line.kind \in {"err", "four", "frag"} -> "frag"
             [] Line.kind = "dot" -> "dot"
             [] OTHER -> "data"

(* Faulty variant: applyDeadline does not set a deadline. *)
TimeoutMissing(c) == FALSE /\ UNCHANGED vars

Timeout(c) == /\ pc[c] \in {"read", "block"}
              /\ \/ UNCHANGED stream
                 \/ /\ stream # <<>>
                    /\ stream' = <<[Line EXCEPT !.kind = CutKind]>> \o Tail(stream)
              /\ orphans' = orphans \cup {id[c]}
              /\ UNCHANGED reply
              /\ Finish(c, FALSE)

(* The connection ends under the reader, closed by Close or by Tor. *)
ConnLost(c) == /\ pc[c] \in {"read", "block"}
               /\ closed \/ (torClosed /\ stream = <<>>)
               /\ orphans' = orphans \cup {id[c]}
               /\ UNCHANGED <<stream, reply>>
               /\ Finish(c, FALSE)

(* Authenticate notes its success, without the mutex, and returns; a call  *)
(* that ran it for ensureAuthenticated goes on with its command.           *)
Note(c) == /\ pc[c] = "note"
           /\ authenticated' = TRUE
           /\ todo' = [todo EXCEPT ![c] = Tail(@)]
           /\ pc' = [pc EXCEPT ![c] = IF Tail(todo[c]) = <<>> THEN "idle" ELSE "lock"]
           /\ UNCHANGED <<mu, werr, closed, id, reply, calls, sends, orphans, wire>>

(* Close takes no mutex. *)
Close == /\ ~closed
         /\ closed' = TRUE
         /\ UNCHANGED <<authenticated, mu, werr, caller, wire>>

(* Tor answers the commands in the order they came.  A command that needs  *)
(* authentication, or a wrong AUTHENTICATE, is refused with a 5xx line and *)
(* ends the connection.                                                    *)
Answer(kinds) ==
  stream' = stream \o [k \in 1..Len(kinds) |-> [id |-> Head(sent).id, kind |-> kinds[k]]]

Tor == /\ sent # <<>> /\ ~torClosed
       /\ sent' = Tail(sent)
       /\ \/ /\ Head(sent).cmd = "AUTHENTICATE"
             /\ Answer(<<"final">>)
             /\ torAuthed' = TRUE
             /\ UNCHANGED torClosed
          \/ /\ Head(sent).cmd = "AUTHENTICATE" \/ ~torAuthed
             /\ Answer(<<"err">>)
             /\ torClosed' = TRUE
             /\ UNCHANGED torAuthed
          \/ /\ Head(sent).cmd # "AUTHENTICATE" /\ torAuthed
             /\ \E s \in ReplyShapes : Answer(s)
             /\ UNCHANGED <<torAuthed, torClosed>>
       /\ UNCHANGED <<client, caller>>

(* Tor exits. *)
TorExits == /\ ~torClosed
            /\ torClosed' = TRUE
            /\ UNCHANGED <<client, caller, sent, stream, torAuthed>>

Read(c) == ReadFinal(c) \/ ReadErr(c) \/ ReadPart(c) \/ ReadIgnored(c)

Step(c) == Ensure(c) \/ Exec(c) \/ ExecFails(c) \/ Note(c)

Next == \/ \E c \in Callers :
             Call(c) \/ Step(c) \/ Read(c) \/ Timeout(c) \/ ConnLost(c)
        \/ Close \/ Tor \/ TorExits

(* Goroutines that can run do; a deadline that is armed passes; a waiter   *)
(* for the mutex gets it (sync.Mutex hands over to a starving waiter).     *)
(* Tor owes nothing, not even an answer.                                   *)
Fairness == \A c \in Callers : /\ SF_vars(Step(c))
                               /\ WF_vars(Timeout(c))

SafeSpec == Init /\ [][Next]_vars
Spec == SafeSpec /\ Fairness

--------------------------------------------------------------------------
Reading == {"read", "block"}

ClientTyped == /\ authenticated \in BOOLEAN /\ werr \in BOOLEAN /\ closed \in BOOLEAN
               /\ mu \in Callers \cup {None}
CallerTyped == /\ pc \in [Callers -> {"idle", "ensure", "lock", "read", "block", "note"}]
               /\ todo \in [Callers -> Seq(Commands)]
               /\ id \in [Callers -> Nat]
               /\ reply \in [Callers -> SUBSET Nat]
               /\ calls \in Nat /\ sends \in Nat /\ orphans \in SUBSET Nat
WireTyped   == /\ sent \in Seq(SentCommands)
               /\ stream \in Seq(Lines)
               /\ torAuthed \in BOOLEAN /\ torClosed \in BOOLEAN

(* Values of the state. *)
TypeOK == ClientTyped /\ CallerTyped /\ WireTyped

(* May command n still be answered? *)
Owed(n) == n \in orphans \/ \E c \in Callers : pc[c] \in Reading /\ id[c] = n

(* "mu serializes command writes/reads": what is on the wire belongs to    *)
(* the one call that is reading, or to a call that left without its reply. *)
WireAccounted == /\ \A i \in 1..Len(sent) : Owed(sent[i].id)
                 /\ \A i \in 1..Len(stream) : Owed(stream[i].id)

(* A caller is given its own reply, or one that an earlier call left       *)
(* behind: never that of a call still waiting nor a later one.  In         *)
(* particular the replies are right until the first call gives up.         *)
ReplyOrigin == \A c \in Callers : \A i \in reply[c] :
                 i = id[c] \/ (i \in orphans /\ i < id[c])

(* The client believes it is authenticated only if Tor does too, although  *)
(* the flag is unguarded and the success may have been read off a reply to *)
(* an earlier call.                                                        *)
AuthHonest == authenticated => torAuthed

(* Every call returns, whether or not Tor answers. *)
CallsReturn == \A c \in Callers : (pc[c] # "idle") ~> (pc[c] = "idle")

(* "execCommand sends a control command and returns the response lines":   *)
(* the lines a call uses are those of the response to its command.         *)
OwnReply == \A c \in Callers : reply[c] \subseteq {id[c]}
==========================================================================
