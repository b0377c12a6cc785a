------------------------ MODULE ControlClient_proof ------------------------
(***************************************************************************)
(* Proofs about ControlClient, for any number of callers and calls and any *)
(* answers of Tor: whose lines a caller can be given, and that the client  *)
(* never believes itself authenticated when Tor does not.                  *)
(***************************************************************************)
EXTENDS ControlClient, SequenceTheorems, TLAPS

(* A call that is under way has a command to run. *)
TodoOK == \A c \in Callers : pc[c] # "idle" => todo[c] # <<>>

(* Whoever reads holds the mutex, and conversely. *)
MuReads == \A c \in Callers : pc[c] \in Reading <=> mu = c

(* The command being answered is the last one sent; orphans are older. *)
Fresh == /\ orphans \subseteq 1..sends
         /\ \A c \in Callers : id[c] \in 0..sends
         /\ \A c \in Callers : pc[c] \in Reading =>
              id[c] = sends /\ id[c] > 0 /\ id[c] \notin orphans

(* The answer to the command being answered: it is in one piece, nothing    *)
(* follows the line that ends it, and its data is met inside a block only.  *)
Own(c, i) == stream[i].id = id[c]
OwnWire == \A c \in Callers : pc[c] \in Reading =>
  /\ \A i, j \in 1..Len(sent) : sent[i].id = id[c] /\ sent[j].id = id[c] => i = j
  /\ \A i \in 1..Len(sent), j \in 1..Len(stream) : sent[i].id # id[c] \/ ~Own(c, j)
  /\ \A i, j \in 1..Len(stream) : Own(c, i) /\ Own(c, j) /\ i < j => stream[i].kind \notin Ends
  /\ \A i \in 1..Len(stream) : Own(c, i) /\ stream[i].kind = "data" =>
       \/ i = 1 /\ pc[c] = "block"
       \/ i > 1 /\ Own(c, i - 1) /\ stream[i - 1].kind \in {"plus", "data"}

(* A line that can pass for a success exists only once Tor has accepted an *)
(* AUTHENTICATE.                                                           *)
Authentic == /\ authenticated => torAuthed
             /\ \A c \in Callers : pc[c] = "note" => torAuthed
             /\ ~torAuthed => \A i \in 1..Len(stream) : stream[i].kind \in {"err", "frag"}

Typed == TypeOK /\ TodoOK
Order == MuReads /\ Fresh /\ WireAccounted /\ OwnWire /\ ReplyOrigin
IInv  == Typed /\ Order /\ Authentic

LEMMA InitIInv == Init => IInv
<1>. SUFFICES ASSUME Init PROVE IInv
  OBVIOUS
<1>1. TypeOK
  <2>1. <<>> \in Seq(Commands) /\ 0 \in Nat /\ {} \in SUBSET Nat
    OBVIOUS
  <2>2. ClientTyped
    BY DEF Init, ClientTyped
  <2>3. CallerTyped
    BY <2>1 DEF Init, CallerTyped
  <2>4. WireTyped
    <3>1. <<>> \in Seq(SentCommands) /\ <<>> \in Seq(Lines)
      OBVIOUS
    <3>. QED  BY <3>1 DEF Init, WireTyped
  <2>. QED  BY <2>2, <2>3, <2>4 DEF TypeOK
<1>2. TodoOK /\ MuReads /\ Fresh
  BY ControlClientAssumption DEF Init, TodoOK, MuReads, Fresh, Reading
<1>3. WireAccounted /\ OwnWire /\ ReplyOrigin /\ Authentic
  BY DEF Init, WireAccounted, OwnWire, ReplyOrigin, Authentic, Reading
<1>. QED  BY <1>1, <1>2, <1>3 DEF IInv, Typed, Order

(* --- the wire --- *)

(* Reading takes the first line of the stream. *)
LEMMA Pop ==
  ASSUME Typed, stream # <<>>
  PROVE  /\ Line = stream[1] /\ Line \in Lines /\ Line.id \in Nat
         /\ Len(stream) \in Nat \ {0}
         /\ Tail(stream) \in Seq(Lines)
         /\ Len(Tail(stream)) = Len(stream) - 1
         /\ \A i \in 1..Len(Tail(stream)) : Tail(stream)[i] = stream[i + 1]
<1>1. stream \in Seq(Lines)
  BY DEF Typed, TypeOK, WireTyped
<1>2. /\ Head(stream) \in Lines /\ Head(stream) = stream[1]
      /\ Tail(stream) \in Seq(Lines)
      /\ Len(stream) \in Nat \ {0}
      /\ Len(Tail(stream)) = Len(stream) - 1
      /\ \A i \in 1..Len(Tail(stream)) : Tail(stream)[i] = stream[i + 1]
  BY <1>1
<1>. QED  BY <1>2 DEF Line, Lines

(* A line that is cut stays where it is and keeps its command. *)
LEMMA Cut ==
  ASSUME Typed, stream # <<>>, stream' = <<[Line EXCEPT !.kind = CutKind]>> \o Tail(stream)
  PROVE  /\ stream' \in Seq(Lines) /\ Len(stream') = Len(stream)
         /\ stream'[1].id = stream[1].id /\ stream'[1].kind = CutKind
         /\ \A i \in 2..Len(stream) : stream'[i] = stream[i]
<1>. DEFINE cut == [Line EXCEPT !.kind = CutKind]
<1>1. /\ Line \in Lines /\ Line = stream[1] /\ Len(stream) \in Nat \ {0}
      /\ Tail(stream) \in Seq(Lines) /\ Len(Tail(stream)) = Len(stream) - 1
      /\ \A i \in 1..Len(Tail(stream)) : Tail(stream)[i] = stream[i + 1]
  BY Pop
<1>2. CutKind \in Kinds
  BY <1>1 DEF CutKind, Kinds, Lines
<1>3. cut \in Lines /\ cut.id = stream[1].id /\ cut.kind = CutKind
  BY <1>1, <1>2 DEF Lines
<1>. HIDE DEF cut
<1>4. <<cut>> \in Seq(Lines) /\ Len(<<cut>>) = 1 /\ <<cut>>[1] = cut
  BY <1>3
<1>5. /\ <<cut>> \o Tail(stream) \in Seq(Lines)
      /\ Len(<<cut>> \o Tail(stream)) = Len(stream)
      /\ (<<cut>> \o Tail(stream))[1] = cut
      /\ \A i \in 2..Len(stream) : (<<cut>> \o Tail(stream))[i] = Tail(stream)[i - 1]
  BY <1>1, <1>4, ConcatProperties
<1>6. \A i \in 2..Len(stream) : Tail(stream)[i - 1] = stream[i]
  BY <1>1
<1>7. stream' = <<cut>> \o Tail(stream)
  BY DEF cut
<1>. QED  BY <1>3, <1>5, <1>6, <1>7

(* Tor takes the first command and appends a well-formed answer to it; as   *)
(* long as Tor has accepted no AUTHENTICATE the answer is one error line.   *)
LEMMA TorAnswers ==
  ASSUME Typed, Tor
  PROVE  \E s \in Seq(Kinds) :
           /\ WellFormed(s)
           /\ torAuthed' \/ s = <<"err">>
           /\ torAuthed => torAuthed'
           /\ stream' \in Seq(Lines)
           /\ Len(stream') = Len(stream) + Len(s)
           /\ \A i \in 1..Len(stream) : stream'[i] = stream[i]
           /\ \A k \in 1..Len(s) : /\ stream'[Len(stream) + k].id = sent[1].id
                                   /\ stream'[Len(stream) + k].kind = s[k]
<1>1. /\ <<"final">> \in Seq(Kinds) /\ WellFormed(<<"final">>)
      /\ <<"err">> \in Seq(Kinds) /\ WellFormed(<<"err">>)
  BY DEF Kinds, WellFormed, Ends
<1>2. PICK s \in Seq(Kinds) : /\ WellFormed(s) /\ Answer(s)
                              /\ torAuthed' \/ s = <<"err">>
                              /\ torAuthed => torAuthed'
  <2>1. CASE Answer(<<"final">>) /\ torAuthed' = TRUE
    BY <1>1, <2>1
  <2>2. CASE Answer(<<"err">>) /\ torAuthed' = torAuthed
    BY <1>1, <2>2
  <2>3. ASSUME NEW s \in ReplyShapes, Answer(s), torAuthed' = torAuthed, torAuthed
        PROVE  \E t \in Seq(Kinds) : /\ WellFormed(t) /\ Answer(t)
                                     /\ torAuthed' \/ t = <<"err">>
                                     /\ torAuthed => torAuthed'
    BY <2>3, ControlClientAssumption
  <2>. QED  BY <2>1, <2>2, <2>3 DEF Tor
<1>. DEFINE answer == [k \in 1..Len(s) |-> [id |-> Head(sent).id, kind |-> s[k]]]
<1>3. Head(sent) \in SentCommands /\ Head(sent) = sent[1] /\ sent[1].id \in Nat
  <2>1. sent \in Seq(SentCommands) /\ sent # <<>>
    BY DEF Tor, Typed, TypeOK, WireTyped
  <2>2. Head(sent) \in SentCommands /\ Head(sent) = sent[1]
    BY <2>1
  <2>. QED  BY <2>2 DEF SentCommands
<1>4. \A k \in 1..Len(s) : answer[k] \in Lines /\ answer[k].id = sent[1].id /\ answer[k].kind = s[k]
  BY <1>3 DEF Lines
<1>5. Len(s) \in Nat /\ answer \in Seq(Lines) /\ Len(answer) = Len(s)
  BY <1>4
<1>6. stream \in Seq(Lines) /\ stream' = stream \o answer /\ Len(stream) \in Nat
  BY <1>2 DEF Answer, Typed, TypeOK, WireTyped
<1>. HIDE DEF answer
<1>7. /\ stream' \in Seq(Lines) /\ Len(stream') = Len(stream) + Len(s)
      /\ \A i \in 1..Len(stream) : stream'[i] = stream[i]
      /\ \A k \in 1..Len(s) : stream'[Len(stream) + k] = answer[k]
  <2>1. /\ stream \o answer \in Seq(Lines)
        /\ Len(stream \o answer) = Len(stream) + Len(answer)
        /\ \A i \in 1..Len(stream) + Len(answer) : (stream \o answer)[i] =
                IF i <= Len(stream) THEN stream[i] ELSE answer[i - Len(stream)]
    BY <1>5, <1>6, ConcatProperties
  <2>2. \A k \in 1..Len(s) : (stream \o answer)[Len(stream) + k] = answer[k]
    BY <1>5, <1>6, <2>1
  <2>. QED  BY <1>5, <1>6, <2>1, <2>2
<1>. QED  BY <1>2, <1>4, <1>7

(* --- the ranges --- *)

LEMMA TypedKept == Typed /\ [Next]_vars => Typed'
<1>. SUFFICES ASSUME Typed, [Next]_vars PROVE Typed'
  OBVIOUS
<1>. USE DEF Typed, TypeOK, client, caller, wire
<1>1. ASSUME NEW c \in Callers, Call(c) PROVE Typed'
  <2>1. \A x \in Commands : <<x>> \in Seq(Commands) /\ <<x>> # <<>>
    OBVIOUS
  <2>2. ClientTyped' /\ WireTyped'
    BY <1>1 DEF Call, ClientTyped, WireTyped
  <2>3. CallerTyped' /\ TodoOK'
    <3>1. PICK cmd \in Commands : todo' = [todo EXCEPT ![c] = <<cmd>>]
      BY <1>1 DEF Call, Commands
    <3>2. todo' \in [Callers -> Seq(Commands)] /\ todo'[c] # <<>>
      BY <2>1, <3>1 DEF CallerTyped
    <3>3. pc' \in [Callers -> {"idle", "ensure", "lock", "read", "block", "note"}]
      BY <1>1 DEF Call, CallerTyped
    <3>4. id' \in [Callers -> Nat] /\ reply' \in [Callers -> SUBSET Nat]
      BY <1>1 DEF Call, CallerTyped
    <3>5. TodoOK'
      BY <1>1, <3>1, <3>2 DEF Call, CallerTyped, TodoOK
    <3>. QED  BY <1>1, <3>2, <3>3, <3>4, <3>5 DEF Call, CallerTyped
  <2>. QED  BY <2>2, <2>3
<1>2. ASSUME NEW c \in Callers, Ensure(c) PROVE Typed'
  <2>1. /\ <<>> \in Seq(Commands)
        /\ <<"AUTHENTICATE">> \o todo[c] \in Seq(Commands)
        /\ <<"AUTHENTICATE">> \o todo[c] # <<>>
    BY DEF CallerTyped, Commands
  <2>2. ClientTyped' /\ WireTyped'
    BY <1>2 DEF Ensure, ClientTyped, WireTyped
  <2>3. CallerTyped' /\ TodoOK'
    BY <1>2, <2>1 DEF Ensure, CallerTyped, TodoOK
  <2>. QED  BY <2>2, <2>3
<1>3. ASSUME NEW c \in Callers, Exec(c) PROVE Typed'
  <2>1. Head(todo[c]) \in Commands /\ sends + 1 \in Nat
    BY <1>3 DEF Exec, CallerTyped, TodoOK
  <2>2. ClientTyped' /\ WireTyped'
    <3>1. [id |-> sends + 1, cmd |-> Head(todo[c])] \in SentCommands
      BY <2>1 DEF SentCommands
    <3>2. sent' \in Seq(SentCommands)
      BY <1>3, <3>1 DEF Exec, WireTyped
    <3>. QED  BY <1>3, <3>2 DEF Exec, ClientTyped, WireTyped
  <2>3. CallerTyped' /\ TodoOK'
    BY <1>3, <2>1 DEF Exec, CallerTyped, TodoOK
  <2>. QED  BY <2>2, <2>3
<1>4. ASSUME NEW c \in Callers, ExecFails(c) PROVE Typed'
  <2>1. <<>> \in Seq(Commands)
    OBVIOUS
  <2>2. ClientTyped' /\ WireTyped'
    BY <1>4 DEF ExecFails, ClientTyped, WireTyped
  <2>3. CallerTyped' /\ TodoOK'
    BY <1>4, <2>1 DEF ExecFails, CallerTyped, TodoOK
  <2>. QED  BY <2>2, <2>3
<1>5. ASSUME NEW c \in Callers, Note(c) PROVE Typed'
  <2>1. Tail(todo[c]) \in Seq(Commands)
    BY <1>5 DEF Note, CallerTyped, TodoOK
  <2>2. ClientTyped' /\ WireTyped'
    BY <1>5 DEF Note, ClientTyped, WireTyped
  <2>3. CallerTyped' /\ TodoOK'
    BY <1>5, <2>1 DEF Note, CallerTyped, TodoOK
  <2>. QED  BY <2>2, <2>3
<1>6. ASSUME NEW c \in Callers, pc[c] # "idle", NEW ok \in BOOLEAN, Finish(c, ok),
             reply' \in [Callers -> SUBSET Nat], orphans' \in SUBSET Nat,
             stream' \in Seq(Lines)
      PROVE  Typed'
  <2>1. <<>> \in Seq(Commands)
    OBVIOUS
  <2>2. ClientTyped' /\ WireTyped'
    BY <1>6 DEF Finish, ClientTyped, WireTyped
  <2>3. CallerTyped' /\ TodoOK'
    BY <1>6, <2>1 DEF Finish, CallerTyped, TodoOK
  <2>. QED  BY <2>2, <2>3
<1>7. ASSUME NEW c \in Callers, ReadFinal(c) \/ ReadErr(c) PROVE Typed'
  <2>1. Line \in Lines /\ Tail(stream) \in Seq(Lines)
    BY <1>7, Pop DEF ReadFinal, ReadErr
  <2>2. orphans' \in SUBSET Nat /\ reply' \in [Callers -> SUBSET Nat]
    <3>1. Line.id \in Nat /\ id[c] \in Nat
      BY <2>1 DEF Lines, CallerTyped
    <3>. QED  BY <1>7, <3>1 DEF ReadFinal, ReadErr, Uses, Forsakes, CallerTyped
  <2>. QED  BY <1>6, <1>7, <2>1, <2>2 DEF ReadFinal, ReadErr
<1>8. ASSUME NEW c \in Callers, ReadPart(c) PROVE Typed'
  <2>1. Line.id \in Nat /\ Tail(stream) \in Seq(Lines)
    BY <1>8, Pop DEF ReadPart
  <2>2. ClientTyped' /\ WireTyped'
    BY <1>8, <2>1 DEF ReadPart, ClientTyped, WireTyped
  <2>3. CallerTyped' /\ TodoOK'
    BY <1>8, <2>1 DEF ReadPart, Uses, CallerTyped, TodoOK
  <2>. QED  BY <2>2, <2>3
<1>9. ASSUME NEW c \in Callers, ReadIgnored(c) PROVE Typed'
  BY <1>9 DEF ReadIgnored, ClientTyped, CallerTyped, WireTyped, TodoOK
<1>10. ASSUME NEW c \in Callers, Timeout(c) \/ ConnLost(c) PROVE Typed'
  <2>1. orphans' \in SUBSET Nat /\ reply' \in [Callers -> SUBSET Nat]
    BY <1>10 DEF Timeout, ConnLost, CallerTyped
  <2>2. stream' \in Seq(Lines)
    <3>1. CASE UNCHANGED stream
      BY <3>1 DEF WireTyped
    <3>2. CASE /\ stream # <<>>
               /\ stream' = <<[Line EXCEPT !.kind = CutKind]>> \o Tail(stream)
      BY <3>2, Cut
    <3>. QED  BY <1>10, <3>1, <3>2 DEF Timeout, ConnLost
  <2>. QED  BY <1>6, <1>10, <2>1, <2>2 DEF Timeout, ConnLost
<1>11. CASE Tor
  <2>1. stream' \in Seq(Lines)
    BY <1>11, TorAnswers
  <2>2. sent' \in Seq(SentCommands) /\ torAuthed' \in BOOLEAN /\ torClosed' \in BOOLEAN
    <3>1. sent' \in Seq(SentCommands)
      BY <1>11 DEF Tor, WireTyped
    <3>2. torAuthed' \in {TRUE, torAuthed} /\ torClosed' \in {TRUE, torClosed}
      BY <1>11 DEF Tor
    <3>. QED  BY <3>1, <3>2 DEF WireTyped
  <2>3. ClientTyped' /\ CallerTyped' /\ TodoOK'
    BY <1>11 DEF Tor, ClientTyped, CallerTyped, TodoOK
  <2>. QED  BY <2>1, <2>2, <2>3 DEF WireTyped
<1>12. CASE Close \/ TorExits \/ UNCHANGED vars
  BY <1>12 DEF Close, TorExits, vars, ClientTyped, CallerTyped, WireTyped, TodoOK
<1>. QED
  BY <1>1, <1>2, <1>3, <1>4, <1>5, <1>7, <1>8, <1>9, <1>10, <1>11, <1>12 DEF Next, Step, Read

(* --- whose lines are on the wire --- *)

(* Steps of a caller that is not reading, before and after. *)
LEMMA QuietKeepsOrder ==
  ASSUME Typed, Order, NEW c \in Callers, NEW q, q \notin Reading, pc[c] \notin Reading,
         pc' = [pc EXCEPT ![c] = q],
         UNCHANGED <<mu, sends, orphans, sent, stream>>,
         \/ UNCHANGED <<id, reply>>
         \/ id' = [id EXCEPT ![c] = 0] /\ reply' = [reply EXCEPT ![c] = {}]
  PROVE  Order'
<1>1. \A d \in Callers : /\ pc'[d] \in Reading <=> pc[d] \in Reading
                         /\ pc[d] \in Reading => pc'[d] = pc[d] /\ id'[d] = id[d]
  BY DEF Typed, TypeOK, CallerTyped
<1>2. MuReads'
  BY <1>1 DEF Order, MuReads
<1>2a. Fresh'
  <2>1. sends \in Nat /\ \A d \in Callers : id'[d] \in {id[d], 0}
    BY DEF Typed, TypeOK, CallerTyped
  <2>2. \A d \in Callers : id'[d] \in 0..sends'
    BY <2>1 DEF Order, Fresh
  <2>. QED  BY <1>1, <2>2 DEF Order, Fresh
<1>3. WireAccounted'
  BY <1>1 DEF Order, WireAccounted, Owed
<1>4. OwnWire'
  BY <1>1 DEF Order, OwnWire, Own
<1>5. ReplyOrigin'
  BY DEF Order, ReplyOrigin, Typed, TypeOK, CallerTyped
<1>. QED  BY <1>2, <1>2a, <1>3, <1>4, <1>5 DEF Order

(* A command is sent: its number is new, and nobody else is reading. *)
LEMMA ExecKeepsOrder ==
  ASSUME Typed, Order, NEW c \in Callers, Exec(c) PROVE Order'
<1>1. \A d \in Callers : pc[d] \notin Reading
  BY ControlClientAssumption DEF Exec, Order, MuReads
<1>2. /\ pc' = [pc EXCEPT ![c] = "read"] /\ mu' = c /\ id' = [id EXCEPT ![c] = sends + 1]
      /\ reply' = [reply EXCEPT ![c] = {}] /\ sends' = sends + 1 /\ sends \in Nat
      /\ UNCHANGED <<orphans, stream>>
  BY DEF Exec, Typed, TypeOK, CallerTyped
<1>3. /\ Len(sent') = Len(sent) + 1 /\ Len(sent) \in Nat
      /\ sent'[Len(sent) + 1].id = sends + 1
      /\ \A i \in 1..Len(sent) : sent'[i] = sent[i]
  <2>. DEFINE e == [id |-> sends + 1, cmd |-> Head(todo[c])]
  <2>1. sent' = Append(sent, e) /\ sent \in Seq(SentCommands) /\ e.id = sends + 1
    BY DEF Exec, Typed, TypeOK, WireTyped
  <2>. HIDE DEF e
  <2>2. /\ Len(Append(sent, e)) = Len(sent) + 1 /\ Len(sent) \in Nat
        /\ Append(sent, e)[Len(sent) + 1] = e
        /\ \A i \in 1..Len(sent) : Append(sent, e)[i] = sent[i]
    BY <2>1
  <2>. QED  BY <2>1, <2>2
<1>4. \A d \in Callers : pc'[d] \in Reading <=> d = c
  BY <1>1, <1>2 DEF Reading, Typed, TypeOK, CallerTyped
<1>5. MuReads' /\ Fresh'
  BY <1>1, <1>2, <1>4 DEF Order, MuReads, Fresh, Typed, TypeOK, CallerTyped
<1>6. /\ \A i \in 1..Len(sent) : sent[i].id \in orphans
      /\ \A i \in 1..Len(stream) : stream[i].id \in orphans
  BY <1>1 DEF Order, WireAccounted, Owed
<1>7. id'[c] = sends + 1 /\ id'[c] \notin orphans
  BY <1>2 DEF Order, Fresh, Typed, TypeOK, CallerTyped
<1>8. WireAccounted'
  BY <1>2, <1>3, <1>4, <1>6, <1>7 DEF WireAccounted, Owed
<1>9. OwnWire'
  BY <1>2, <1>3, <1>4, <1>6, <1>7 DEF OwnWire, Own
<1>10. ReplyOrigin'
  BY <1>2 DEF Order, ReplyOrigin, Typed, TypeOK, CallerTyped
<1>. QED  BY <1>5, <1>8, <1>9, <1>10 DEF Order

(* The reader is one; what it reads is its own or an older orphan's. *)
LEMMA ReaderAlone ==
  ASSUME Typed, Order, NEW c \in Callers, pc[c] \in Reading
  PROVE  /\ mu = c
         /\ \A d \in Callers : pc[d] \in Reading <=> d = c
         /\ id[c] = sends /\ id[c] > 0 /\ id[c] \notin orphans
         /\ \A i \in 1..Len(stream) : stream[i].id = id[c] \/ stream[i].id \in orphans
         /\ \A i \in 1..Len(sent) : sent[i].id = id[c] \/ sent[i].id \in orphans
         /\ \A n \in orphans : n < id[c]
<1>1. mu = c /\ \A d \in Callers : pc[d] \in Reading <=> d = c
  BY DEF Order, MuReads
<1>2. id[c] = sends /\ id[c] > 0 /\ id[c] \notin orphans /\ sends \in Nat /\ orphans \subseteq 1..sends
  BY DEF Order, Fresh, Typed, TypeOK, CallerTyped
<1>3. \A n : Owed(n) => n = id[c] \/ n \in orphans
  BY <1>1 DEF Owed
<1>. QED  BY <1>1, <1>2, <1>3 DEF Order, WireAccounted

(* The reader leaves.  If nothing of its reply is left it owes nothing,     *)
(* otherwise its command becomes an orphan.                                 *)
LEMMA FinishKeepsOrder ==
  ASSUME Typed, Order, NEW c \in Callers, pc[c] \in Reading, NEW ok \in BOOLEAN, Finish(c, ok),
         \/ /\ orphans' = orphans
            /\ \A i \in 1..Len(sent) : sent[i].id # id[c]
            /\ \A i \in 1..Len(stream') : stream'[i].id \in orphans
         \/ /\ orphans' = orphans \cup {id[c]}
            /\ \A i \in 1..Len(stream') : stream'[i].id \in orphans'
         , \/ UNCHANGED reply
           \/ \E n \in orphans \cup {id[c]} : reply' = [reply EXCEPT ![c] = @ \cup {n}]
  PROVE  Order'
<1>. USE ReaderAlone
<1>1. /\ mu' = None /\ UNCHANGED <<id, sends, sent>>
      /\ \E q \in {"note", "idle"} : pc' = [pc EXCEPT ![c] = q]
  BY DEF Finish
<1>2. \A d \in Callers : pc'[d] \notin Reading
  BY <1>1 DEF Reading, Typed, TypeOK, CallerTyped
<1>3. MuReads'
  BY <1>1, <1>2, ControlClientAssumption DEF MuReads
<1>4. Fresh'
  <2>1. id[c] \in 1..sends
    BY DEF Typed, TypeOK, CallerTyped
  <2>2. orphans' \subseteq 1..sends'
    BY <1>1, <2>1 DEF Order, Fresh
  <2>. QED  BY <1>1, <1>2, <2>2 DEF Order, Fresh
<1>5. WireAccounted'
  BY <1>1 DEF WireAccounted, Owed
<1>6. OwnWire'
  BY <1>2 DEF OwnWire
<1>7. ReplyOrigin'
  <2>1. orphans \subseteq orphans' /\ id' = id
    BY <1>1
  <2>2. \A d \in Callers : \A n \in reply'[d] :
          n \in reply[d] \/ (d = c /\ (n = id[c] \/ n \in orphans))
    BY DEF Typed, TypeOK, CallerTyped
  <2>. QED  BY <2>1, <2>2 DEF Order, ReplyOrigin
<1>. QED  BY <1>3, <1>4, <1>5, <1>6, <1>7 DEF Order

(* A line ends the reply.  When it is the caller's own, it is the last of   *)
(* it: OwnWire.                                                             *)
LEMMA ReadEndKeepsOrder ==
  ASSUME Typed, Order, NEW c \in Callers, ReadFinal(c) \/ ReadErr(c) PROVE Order'
<1>1. /\ pc[c] = "read" /\ stream # <<>> /\ Line.kind \in Ends \cup {"data"}
      /\ stream' = Tail(stream) /\ Uses(c) /\ Forsakes(c)
      /\ \E ok \in BOOLEAN : Finish(c, ok)
  BY DEF ReadFinal, ReadErr, Ends
<1>2. pc[c] \in Reading
  BY <1>1 DEF Reading
<1>. USE <1>2, ReaderAlone, Pop
<1>3. Line.id \in orphans \cup {id[c]}
  BY <1>1
<1>4. CASE Line.id # id[c]
  <2>1. orphans' = orphans \cup {id[c]} /\ \A i \in 1..Len(stream') : stream'[i].id \in orphans'
    BY <1>1, <1>4 DEF Forsakes
  <2>. QED  BY <1>1, <1>3, <2>1, FinishKeepsOrder DEF Uses
<1>5. CASE Line.id = id[c]
  <2>1. orphans' = orphans /\ Own(c, 1) /\ Line.kind \in Ends
    BY <1>1, <1>5 DEF Forsakes, Own, Order, OwnWire
  <2>2. \A i \in 1..Len(sent) : sent[i].id # id[c]
    BY <1>1, <2>1 DEF Order, OwnWire
  <2>3. \A i \in 2..Len(stream) : stream[i].id \in orphans
    BY <1>1, <2>1 DEF Order, OwnWire, Own
  <2>4. \A i \in 1..Len(stream') : stream'[i].id \in orphans
    BY <1>1, <2>3
  <2>. QED  BY <1>1, <1>3, <2>1, <2>2, <2>4, FinishKeepsOrder DEF Uses
<1>. QED  BY <1>4, <1>5

(* A line is used as part of a reply or passed over, and the caller reads   *)
(* on.  Data of its own it meets inside a block, and there it stays.        *)
LEMMA ReadOnKeepsOrder ==
  ASSUME Typed, Order, NEW c \in Callers, ReadPart(c) \/ ReadIgnored(c) PROVE Order'
<1>1. /\ pc[c] \in Reading /\ stream # <<>> /\ stream' = Tail(stream)
      /\ UNCHANGED <<mu, id, sends, orphans, sent>>
  BY DEF ReadPart, ReadIgnored, Reading, client, caller
<1>. USE <1>1, ReaderAlone, Pop
<1>2. \E q \in Reading : pc' = [pc EXCEPT ![c] = q]
  <2>1. CASE UNCHANGED pc
    BY <2>1 DEF Typed, TypeOK, CallerTyped
  <2>2. CASE ~UNCHANGED pc
    BY <2>2 DEF ReadPart, ReadIgnored, Reading, caller
  <2>. QED  BY <2>1, <2>2
<1>3. \A d \in Callers : pc'[d] \in Reading <=> d = c
  BY <1>2 DEF Typed, TypeOK, CallerTyped
<1>4. \A n \in Nat : Line.id = n /\ n = id[c] /\ Line.kind = "data" => pc[c] = "block"
  BY DEF Order, OwnWire, Own
<1>5. pc'[c] = "block" \/ ~(Line.id = id[c] /\ Line.kind \in {"plus", "data"})
  <2>1. CASE ReadPart(c)
    BY <2>1, <1>4 DEF ReadPart, Typed, TypeOK, CallerTyped
  <2>2. CASE ReadIgnored(c)
    BY <2>2, <1>4 DEF ReadIgnored
  <2>. QED  BY <2>1, <2>2
<1>6. /\ Len(stream') = Len(stream) - 1
      /\ \A i \in 1..Len(stream') : stream'[i] = stream[i + 1]
  OBVIOUS
<1>7. MuReads' /\ Fresh'
  BY <1>3 DEF Order, MuReads, Fresh
<1>8. WireAccounted'
  BY <1>3, <1>6 DEF WireAccounted, Owed
<1>9. OwnWire'
  <2>1. \A i, j \in 1..Len(sent) : sent[i].id = id[c] /\ sent[j].id = id[c] => i = j
    BY DEF Order, OwnWire
  <2>2. \A i \in 1..Len(sent), j \in 1..Len(stream') : sent[i].id # id[c] \/ stream'[j].id # id[c]
    BY <1>6 DEF Order, OwnWire, Own
  <2>3. \A i, j \in 1..Len(stream') :
          stream'[i].id = id[c] /\ stream'[j].id = id[c] /\ i < j => stream'[i].kind \notin Ends
    BY <1>6 DEF Order, OwnWire, Own
  <2>4. ASSUME NEW i \in 1..Len(stream'), stream'[i].id = id[c], stream'[i].kind = "data"
        PROVE  \/ i = 1 /\ pc'[c] = "block"
               \/ /\ i > 1 /\ stream'[i - 1].id = id[c]
                  /\ stream'[i - 1].kind \in {"plus", "data"}
    <3>1. /\ i + 1 \in 1..Len(stream) /\ i + 1 > 1
          /\ stream[i].id = id[c] /\ stream[i].kind \in {"plus", "data"}
      <4>1. /\ i + 1 \in 1..Len(stream) /\ i + 1 > 1 /\ (i + 1) - 1 = i
            /\ stream[i + 1].id = id[c] /\ stream[i + 1].kind = "data"
        BY <1>6, <2>4
      <4>2. \/ i + 1 = 1 /\ pc[c] = "block"
            \/ /\ i + 1 > 1 /\ stream[(i + 1) - 1].id = id[c]
               /\ stream[(i + 1) - 1].kind \in {"plus", "data"}
        BY <4>1 DEF Order, OwnWire, Own
      <4>. QED  BY <4>1, <4>2
    <3>2. CASE i = 1
      BY <1>5, <3>1, <3>2
    <3>3. CASE i > 1
      BY <1>6, <3>1, <3>3
    <3>. QED  BY <3>2, <3>3
  <2>. QED  BY <1>3, <2>1, <2>2, <2>3, <2>4 DEF OwnWire, Own
<1>10. ReplyOrigin'
  <2>1. \A d \in Callers : \A n \in reply'[d] :
          n \in reply[d] \/ (d = c /\ (n = id[c] \/ n \in orphans))
    BY DEF ReadPart, ReadIgnored, Uses, caller, Typed, TypeOK, CallerTyped
  <2>. QED  BY <2>1 DEF Order, ReplyOrigin
<1>. QED  BY <1>7, <1>8, <1>9, <1>10 DEF Order

(* A caller gives up: its command becomes an orphan. *)
LEMMA GiveUpKeepsOrder ==
  ASSUME Typed, Order, NEW c \in Callers, Timeout(c) \/ ConnLost(c) PROVE Order'
<1>1. /\ pc[c] \in Reading /\ orphans' = orphans \cup {id[c]} /\ UNCHANGED reply
      /\ Finish(c, FALSE)
  BY DEF Timeout, ConnLost, Reading
<1>2. Len(stream') = Len(stream) /\ \A i \in 1..Len(stream) : stream'[i].id = stream[i].id
  <2>1. CASE UNCHANGED stream
    BY <2>1
  <2>2. CASE stream # <<>> /\ stream' = <<[Line EXCEPT !.kind = CutKind]>> \o Tail(stream)
    <3>1. /\ Len(stream') = Len(stream) /\ Len(stream) \in Nat \ {0}
          /\ stream'[1].id = stream[1].id
          /\ \A i \in 2..Len(stream) : stream'[i] = stream[i]
      BY <2>2, Cut, Pop
    <3>. QED  BY <3>1
  <2>. QED  BY <2>1, <2>2 DEF Timeout, ConnLost
<1>3. \A i \in 1..Len(stream') : stream'[i].id \in orphans'
  BY <1>1, <1>2, ReaderAlone
<1>. QED  BY <1>1, <1>3, FinishKeepsOrder

(* Tor's answer takes the place of the command it answers. *)
LEMMA TorKeepsOrder ==
  ASSUME Typed, Order, Tor PROVE Order'
<1>1. UNCHANGED <<pc, mu, id, reply, sends, orphans>>
  BY DEF Tor, client, caller
<1>2. /\ Len(sent') = Len(sent) - 1 /\ Len(sent) \in Nat \ {0}
      /\ \A i \in 1..Len(sent') : sent'[i] = sent[i + 1]
  BY DEF Tor, Typed, TypeOK, WireTyped
<1>3. PICK s \in Seq(Kinds) :
        /\ WellFormed(s)
        /\ Len(stream') = Len(stream) + Len(s)
        /\ \A i \in 1..Len(stream) : stream'[i] = stream[i]
        /\ \A k \in 1..Len(s) : /\ stream'[Len(stream) + k].id = sent[1].id
                                /\ stream'[Len(stream) + k].kind = s[k]
  BY TorAnswers
<1>4. Len(s) \in Nat /\ Len(stream) \in Nat
  BY DEF Typed, TypeOK, WireTyped
<1>5. \A i \in 1..Len(stream') : \/ i \in 1..Len(stream)
                                 \/ i - Len(stream) \in 1..Len(s) /\ i = Len(stream) + (i - Len(stream))
  BY <1>3, <1>4
<1>6. \A i \in 1..Len(stream') : i \notin 1..Len(stream) =>
        /\ stream'[i].id = sent[1].id
        /\ stream'[i].kind = s[i - Len(stream)]
  BY <1>3, <1>5
<1>7. MuReads' /\ Fresh' /\ ReplyOrigin'
  BY <1>1 DEF Order, MuReads, Fresh, ReplyOrigin
<1>8. WireAccounted'
  <2>1. \A i \in 1..Len(sent') : Owed(sent'[i].id)
    BY <1>2 DEF Order, WireAccounted
  <2>2. \A i \in 1..Len(stream') : Owed(stream'[i].id)
    <3>1. 1 \in 1..Len(sent)
      BY <1>2
    <3>2. Owed(sent[1].id) /\ \A i \in 1..Len(stream) : Owed(stream[i].id)
      BY <3>1 DEF Order, WireAccounted
    <3>. QED  BY <1>3, <1>6, <3>2
  <2>. QED  BY <1>1, <2>1, <2>2 DEF WireAccounted, Owed
<1>9. OwnWire'
  <2>. SUFFICES ASSUME NEW c \in Callers, pc[c] \in Reading
                PROVE  /\ \A i, j \in 1..Len(sent') :
                             sent'[i].id = id[c] /\ sent'[j].id = id[c] => i = j
                       /\ \A i \in 1..Len(sent'), j \in 1..Len(stream') :
                             sent'[i].id # id[c] \/ stream'[j].id # id[c]
                       /\ \A i, j \in 1..Len(stream') :
                             stream'[i].id = id[c] /\ stream'[j].id = id[c] /\ i < j
                               => stream'[i].kind \notin Ends
                       /\ \A i \in 1..Len(stream') :
                             stream'[i].id = id[c] /\ stream'[i].kind = "data" =>
                               \/ i = 1 /\ pc[c] = "block"
                               \/ /\ i > 1 /\ stream'[i - 1].id = id[c]
                                  /\ stream'[i - 1].kind \in {"plus", "data"}
    BY <1>1 DEF OwnWire, Own
  <2>1. \A i, j \in 1..Len(sent') : sent'[i].id = id[c] /\ sent'[j].id = id[c] => i = j
    <3>. SUFFICES ASSUME NEW i \in 1..Len(sent'), NEW j \in 1..Len(sent'),
                         sent'[i].id = id[c], sent'[j].id = id[c]
                  PROVE  i = j
      OBVIOUS
    <3>1. i + 1 \in 1..Len(sent) /\ j + 1 \in 1..Len(sent)
      BY <1>2
    <3>2. i + 1 = j + 1
      BY <1>2, <3>1 DEF Order, OwnWire
    <3>. QED  BY <1>2, <3>2
  <2>2. \A i \in 1..Len(sent') : sent'[i].id = id[c] => sent[1].id # id[c]
    <3>. SUFFICES ASSUME NEW i \in 1..Len(sent'), sent'[i].id = id[c], sent[1].id = id[c]
                  PROVE  FALSE
      OBVIOUS
    <3>1. i + 1 \in 1..Len(sent) /\ 1 \in 1..Len(sent) /\ sent[i + 1].id = id[c]
      BY <1>2
    <3>2. i + 1 = 1
      BY <3>1 DEF Order, OwnWire
    <3>. QED  BY <1>2, <3>2
  <2>3. \A i \in 1..Len(sent'), j \in 1..Len(stream) : sent'[i].id # id[c] \/ stream[j].id # id[c]
    <3>1. \A i \in 1..Len(sent') : i + 1 \in 1..Len(sent) /\ sent'[i] = sent[i + 1]
      BY <1>2
    <3>. QED  BY <3>1 DEF Order, OwnWire, Own
  <2>4. \A i \in 1..Len(sent'), j \in 1..Len(stream') : sent'[i].id # id[c] \/ stream'[j].id # id[c]
    BY <1>3, <1>6, <2>2, <2>3
  <2>5. sent[1].id = id[c] => \A j \in 1..Len(stream) : stream[j].id # id[c]
    <3>1. 1 \in 1..Len(sent)
      BY <1>2
    <3>. QED  BY <3>1 DEF Order, OwnWire, Own
  <2>6. ASSUME NEW i \in 1..Len(stream'), NEW j \in 1..Len(stream'),
               stream'[i].id = id[c], stream'[j].id = id[c], i < j
        PROVE  stream'[i].kind \notin Ends
    <3>1. CASE j \in 1..Len(stream)
      <4>1. i \in 1..Len(stream)
        BY <3>1, <2>6
      <4>. QED  BY <1>3, <2>6, <3>1, <4>1 DEF Order, OwnWire, Own
    <3>2. CASE j \notin 1..Len(stream)
      <4>1. sent[1].id = id[c] /\ i \notin 1..Len(stream)
        BY <1>3, <1>6, <2>5, <2>6, <3>2
      <4>2. /\ i - Len(stream) \in 1..Len(s) /\ i - Len(stream) # Len(s)
            /\ stream'[i].kind = s[i - Len(stream)]
        BY <1>3, <1>4, <1>5, <1>6, <2>6, <4>1
      <4>. QED  BY <1>3, <4>2 DEF WellFormed
    <3>. QED  BY <3>1, <3>2
  <2>7. ASSUME NEW i \in 1..Len(stream'), stream'[i].id = id[c], stream'[i].kind = "data"
        PROVE  \/ i = 1 /\ pc[c] = "block"
               \/ /\ i > 1 /\ stream'[i - 1].id = id[c]
                  /\ stream'[i - 1].kind \in {"plus", "data"}
    <3>1. CASE i \in 1..Len(stream)
      <4>1. stream[i].id = id[c] /\ stream[i].kind = "data"
        BY <1>3, <2>7, <3>1
      <4>2. \/ i = 1 /\ pc[c] = "block"
            \/ /\ i > 1 /\ stream[i - 1].id = id[c]
               /\ stream[i - 1].kind \in {"plus", "data"}
        BY <3>1, <4>1 DEF Order, OwnWire, Own
      <4>3. i > 1 => i - 1 \in 1..Len(stream)
        BY <3>1
      <4>. QED  BY <1>3, <4>2, <4>3
    <3>2. CASE i \notin 1..Len(stream)
      <4>. DEFINE k == i - Len(stream)
      <4>1. k \in 1..Len(s) /\ s[k] = "data" /\ sent[1].id = id[c]
        BY <1>5, <1>6, <2>7, <3>2
      <4>2. k > 1 /\ s[k - 1] \in {"plus", "data"}
        BY <1>3, <4>1 DEF WellFormed
      <4>3. k - 1 \in 1..Len(s) /\ i - 1 = Len(stream) + (k - 1) /\ i > 1
        BY <1>4, <4>1, <4>2
      <4>. QED  BY <1>3, <4>1, <4>2, <4>3
    <3>. QED  BY <3>1, <3>2
  <2>. QED  BY <2>1, <2>4, <2>6, <2>7
<1>. QED  BY <1>7, <1>8, <1>9 DEF Order

LEMMA OrderKept == Typed /\ Order /\ [Next]_vars => Order'
<1>. SUFFICES ASSUME Typed, Order, [Next]_vars PROVE Order'
  OBVIOUS
<1>1. ASSUME NEW c \in Callers, Call(c) PROVE Order'
  <2>1. \E q \in {"ensure", "lock"} : pc' = [pc EXCEPT ![c] = q]
    BY <1>1 DEF Call
  <2>. QED  BY <1>1, <2>1, QuietKeepsOrder DEF Call, Reading, client, wire
<1>2. ASSUME NEW c \in Callers, Ensure(c) \/ ExecFails(c) \/ Note(c) PROVE Order'
  <2>1. \E q \in {"lock", "idle"} : pc' = [pc EXCEPT ![c] = q]
    BY <1>2 DEF Ensure, ExecFails, Note
  <2>2. pc[c] \notin Reading /\ UNCHANGED <<mu, sends, orphans, sent, stream, id, reply>>
    BY <1>2 DEF Ensure, ExecFails, Note, Reading, client, wire
  <2>. QED  BY <2>1, <2>2, QuietKeepsOrder DEF Reading
<1>3. ASSUME NEW c \in Callers, Exec(c) PROVE Order'
  BY <1>3, ExecKeepsOrder
<1>4. ASSUME NEW c \in Callers, Read(c) PROVE Order'
  BY <1>4, ReadEndKeepsOrder, ReadOnKeepsOrder DEF Read
<1>5. ASSUME NEW c \in Callers, Timeout(c) \/ ConnLost(c) PROVE Order'
  BY <1>5, GiveUpKeepsOrder
<1>6. CASE Tor
  BY <1>6, TorKeepsOrder
<1>7. CASE Close \/ TorExits \/ UNCHANGED vars
  <2>1. UNCHANGED <<mu, pc, id, reply, sends, orphans, sent, stream>>
    BY <1>7 DEF Close, TorExits, vars, client, caller, wire
  <2>. QED  BY <2>1 DEF Order, MuReads, Fresh, WireAccounted, Owed, OwnWire, Own, ReplyOrigin
<1>. QED  BY <1>1, <1>2, <1>3, <1>4, <1>5, <1>6, <1>7 DEF Next, Step

(* --- who is authenticated --- *)

(* What is left of a stream without a success has none. *)
LEMMA RestIsRefused ==
  ASSUME Typed, Authentic, stream # <<>>, ~torAuthed
  PROVE  /\ Line.kind \in {"err", "frag"}
         /\ \A i \in 1..Len(Tail(stream)) : Tail(stream)[i].kind \in {"err", "frag"}
BY Pop DEF Authentic

LEMMA AuthenticKept == Typed /\ Authentic /\ [Next]_vars => Authentic'
<1>. SUFFICES ASSUME Typed, Authentic, [Next]_vars PROVE Authentic'
  OBVIOUS
<1>. USE DEF client, caller, wire
<1>1. ASSUME NEW c \in Callers, Call(c) \/ Ensure(c) \/ Exec(c) \/ ExecFails(c) PROVE Authentic'
  <2>1. \E q \in {"ensure", "lock", "idle", "read"} : pc' = [pc EXCEPT ![c] = q]
    BY <1>1 DEF Call, Ensure, Exec, ExecFails
  <2>2. UNCHANGED <<authenticated, torAuthed, stream>>
    BY <1>1 DEF Call, Ensure, Exec, ExecFails
  <2>. QED  BY <2>1, <2>2 DEF Authentic, Typed, TypeOK, CallerTyped
<1>2. ASSUME NEW c \in Callers, Note(c) PROVE Authentic'
  BY <1>2 DEF Note, Authentic, Typed, TypeOK, CallerTyped
<1>3. ASSUME NEW c \in Callers, ReadFinal(c) PROVE Authentic'
  <2>1. /\ stream # <<>> /\ stream' = Tail(stream) /\ Line.kind \in {"final", "data"}
        /\ UNCHANGED <<authenticated, torAuthed>>
    BY <1>3 DEF ReadFinal, Finish
  <2>2. torAuthed
    BY <2>1, RestIsRefused
  <2>. QED  BY <2>1, <2>2 DEF Authentic
<1>4. ASSUME NEW c \in Callers, ReadErr(c) \/ ReadPart(c) \/ ReadIgnored(c) PROVE Authentic'
  <2>1. /\ stream # <<>> /\ stream' = Tail(stream)
        /\ UNCHANGED <<authenticated, torAuthed>>
    BY <1>4 DEF ReadErr, ReadPart, ReadIgnored, Finish
  <2>2. \A d \in Callers : pc'[d] = "note" => pc[d] = "note"
    BY <1>4 DEF ReadErr, ReadPart, ReadIgnored, Finish, Typed, TypeOK, CallerTyped
  <2>. QED  BY <2>1, <2>2, RestIsRefused DEF Authentic
<1>5. ASSUME NEW c \in Callers, Timeout(c) \/ ConnLost(c) PROVE Authentic'
  <2>1. UNCHANGED <<authenticated, torAuthed>>
    BY <1>5 DEF Timeout, ConnLost, Finish
  <2>2. \A d \in Callers : pc'[d] = "note" => pc[d] = "note"
    BY <1>5 DEF Timeout, ConnLost, Finish, Typed, TypeOK, CallerTyped
  <2>3. CASE UNCHANGED stream
    BY <2>1, <2>2, <2>3 DEF Authentic
  <2>4. CASE stream # <<>> /\ stream' = <<[Line EXCEPT !.kind = CutKind]>> \o Tail(stream)
    <3>1. /\ Len(stream') = Len(stream) /\ Len(stream) \in Nat
          /\ stream'[1].kind = CutKind
          /\ \A i \in 2..Len(stream) : stream'[i] = stream[i]
      BY <2>4, Cut, Pop
    <3>2. ~torAuthed => CutKind = "frag"
      BY <2>4, RestIsRefused DEF CutKind
    <3>. QED  BY <2>1, <2>2, <3>1, <3>2 DEF Authentic
  <2>. QED  BY <1>5, <2>3, <2>4 DEF Timeout, ConnLost
<1>6. CASE Tor
  <2>1. PICK s \in Seq(Kinds) :
          /\ torAuthed' \/ s = <<"err">>
          /\ torAuthed => torAuthed'
          /\ Len(stream') = Len(stream) + Len(s)
          /\ \A i \in 1..Len(stream) : stream'[i] = stream[i]
          /\ \A k \in 1..Len(s) : stream'[Len(stream) + k].kind = s[k]
    BY <1>6, TorAnswers
  <2>2. UNCHANGED <<authenticated, pc>> /\ Len(stream) \in Nat
    BY <1>6 DEF Tor, Typed, TypeOK, WireTyped
  <2>3. ASSUME ~torAuthed', NEW i \in 1..Len(stream')
        PROVE  stream'[i].kind \in {"err", "frag"}
    <3>1. s = <<"err">> /\ ~torAuthed /\ Len(stream') = Len(stream) + 1
      BY <2>1, <2>3
    <3>2. stream'[Len(stream) + 1].kind = "err"
      BY <2>1, <3>1
    <3>3. i \in 1..Len(stream) \/ i = Len(stream) + 1
      BY <2>2, <3>1
    <3>. QED  BY <2>1, <3>1, <3>2, <3>3 DEF Authentic
  <2>. QED  BY <2>1, <2>2, <2>3 DEF Authentic
<1>7. CASE Close \/ TorExits \/ UNCHANGED vars
  BY <1>7 DEF Close, TorExits, vars, Authentic
<1>. QED  BY <1>1, <1>2, <1>3, <1>4, <1>5, <1>6, <1>7 DEF Next, Step, Read

LEMMA Invariance == SafeSpec => []IInv
<1>1. IInv /\ [Next]_vars => IInv'
  BY TypedKept, OrderKept, AuthenticKept DEF IInv
<1>. QED  BY InitIInv, <1>1, PTL DEF SafeSpec

(* Type correctness, for any number of callers and any answers of Tor.     *)
THEOREM TypeCorrect == SafeSpec => []TypeOK
<1>1. IInv => TypeOK
  BY DEF IInv, Typed
<1>. QED  BY Invariance, <1>1, PTL

(* The mutex of execCommand serializes commands and replies: whatever is   *)
(* on the wire is owed to the one call that reads, or to a call that left  *)
(* without its reply.                                                      *)
THEOREM WireIsAccounted == SafeSpec => []WireAccounted
<1>1. IInv => WireAccounted
  BY DEF IInv, Order
<1>. QED  BY Invariance, <1>1, PTL

(* readReply hands a caller lines of the reply to its own command or of    *)
(* replies that earlier calls left behind, never of a later command.       *)
THEOREM RepliesComeInOrder == SafeSpec => []ReplyOrigin
<1>1. IInv => ReplyOrigin
  BY DEF IInv, Order
<1>. QED  BY Invariance, <1>1, PTL

(* Until some call gives up on its reply (readReply fails, or ends with an   *)
(* earlier reply), every call uses the lines of its own reply only: what     *)
(* execCommand's comment promises fails for no other reason.                 *)
THEOREM OwnUntilGivenUp == SafeSpec => [](orphans = {} => OwnReply)
<1>1. ReplyOrigin => (orphans = {} => OwnReply)
  BY DEF ReplyOrigin, OwnReply
<1>. QED  BY RepliesComeInOrder, <1>1, PTL

(* Authenticate sets c.authenticated after reading some success line, and  *)
(* without the mutex; still the flag is set only if Tor authenticated this *)
(* connection, whichever reply the line came from.                         *)
THEOREM AuthenticatedIsTrue == SafeSpec => []AuthHonest
<1>1. IInv => AuthHonest
  BY DEF IInv, Authentic, AuthHonest
<1>. QED  BY Invariance, <1>1, PTL
=============================================================================
