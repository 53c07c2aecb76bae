------------------------------ MODULE IpcProofs ------------------------------
(***************************************************************************)
(* Proofs about the path of a command, for any number of clients and       *)
(* descriptors and any command line: who receives an answer that is not    *)
(* its own, and whose answer that may be.                                  *)
(***************************************************************************)
EXTENDS Ipc, TLAPS, WellFoundedInduction, FiniteSetTheorems, SequenceTheorems

-----------------------------------------------------------------------------
(* The invariant                                                           *)

ClientPcs == {"new", "queued", "open", "waiting", "left", "gone", "closed"}
Sent == {Command(line) : line \in Lines} \cup {Toggle(wasOn) : wasOn \in BOOLEAN} \cup {<<>>}
Texts == {"missing", "unknown", "usage", "done", "reading", "status"}
Answers == [text : Texts, by : Clients]
ClientRecords == [pc : ClientPcs, sent : Sent, unread : BOOLEAN, got : Seq(Answers)]
InboxMessages ==
    [type : {"new", "data"}, fd : Fds]
    \cup [type : {"response"}, fd : Fds, text : Texts, by : Clients, close : BOOLEAN]
CmdMessages == [type : {"request"}, command : Sent, fd : Fds, by : Clients] \cup [type : {"update"}]
Slots == [pending : BOOLEAN, conn : Fds \cup {None}, by : Clients \cup {None}]

Types ==
    /\ client \in [Clients -> ClientRecords]
    /\ conn \in [Fds -> Clients \cup {None}]
    /\ inbox \in Seq(InboxMessages) /\ ipc \in Fds \cup {None}
    /\ cmdbox \in Seq(CmdMessages)
    /\ cmd \in Slots /\ (cmd.pending => cmd.conn \in Fds /\ cmd.by \in Clients)

Blamed(d) == GaveUp(d) \/ Strangers(d) # {}

\* The daemon has read the command of d.
Asked(d) == client[d].pc \in {"waiting", "gone", "closed"} /\ ~client[d].unread

\* What is under way for the number f and belongs to d can only reach d, unless d gave
\* up or was itself answered with what belonged to another.
Owned(f, d) == conn[f] = d \/ Blamed(d)

\* The next answer sent to f is the first one that d receives.
Hears(f, d) == conn[f] = d /\ client[d].pc \notin {"left", "gone"} /\ client[d].got = <<>>

\* Before the daemon has read its command there is no answer to it.
Unanswered(d) == \A i \in DOMAIN client[d].got : client[d].got[i].by # d
NotYet(d) ==
    /\ Asked(d) \/ Unanswered(d)
    /\ client[d].unread => client[d].pc \in {"waiting", "gone", "closed"}
FirstIsWhole(d) ==
    client[d].got # <<>> /\ client[d].got[1].by = d => client[d].got[1].text = Dispatch(client[d].sent)

Response(i, d) == inbox[i].type = "response" /\ inbox[i].by = d
Request(k, d) == cmdbox[k].type = "request" /\ cmdbox[k].by = d
Slot(d) == cmd.pending /\ cmd.by = d

\* A client has one request, and nothing of its answer is under way with it.
RequestsBy(d) ==
    \A k \in DOMAIN cmdbox : Request(k, d) =>
        /\ Asked(d) /\ ~Slot(d) /\ Owned(cmdbox[k].fd, d) /\ cmdbox[k].command = client[d].sent
        /\ \A l \in DOMAIN cmdbox : Request(l, d) => k = l
        /\ \A i \in DOMAIN inbox : ~Response(i, d)

\* A reading ends the connection and comes after the first answer.
ResponsesBy(d) ==
    \A i \in DOMAIN inbox : Response(i, d) =>
        /\ Asked(d) /\ Owned(inbox[i].fd, d)
        /\ inbox[i].close => ~Slot(d)
        /\ inbox[i].text = "status" =>
              /\ inbox[i].close
              /\ Hears(inbox[i].fd, d) =>
                    \E j \in DOMAIN inbox : j < i /\ Response(j, d) /\ inbox[j].fd = inbox[i].fd
        /\ inbox[i].text # "status" => inbox[i].text = Dispatch(client[d].sent)

\* Nothing of d's follows the answer that ends the connection, and only a reading
\* follows another one.
OrderBy(d) ==
    \A i, j \in DOMAIN inbox : Response(i, d) /\ Response(j, d) /\ i < j =>
        ~inbox[i].close /\ inbox[j].text = "status"

\* pendingConn_ is of a client that has had its first answer, or is about to.
PendingBy(d) ==
    Slot(d) =>
        /\ Asked(d) /\ Owned(cmd.conn, d)
        /\ Hears(cmd.conn, d) => \E i \in DOMAIN inbox : Response(i, d) /\ inbox[i].fd = cmd.conn

Correct(d) == RequestsBy(d) /\ ResponsesBy(d) /\ OrderBy(d) /\ PendingBy(d)

AnswersInv == \A d \in Clients : NotYet(d) /\ Correct(d)

Whole == AnswersInv /\ StrangersGaveUp

-----------------------------------------------------------------------------
(* Sequences, numbers and commands                                         *)

\* A set of natural numbers has a least member, which is the one Min chooses.
LEMMA MinIsIn ==
    ASSUME NEW S \in SUBSET Nat, S # {}
    PROVE  Min(S) \in S
<1>. DEFINE R == {p \in Nat \X Nat : p[1] < p[2]}
<1>1. IsWellFoundedOn(R, Nat)
  BY NatLessThanWellFounded, Zenon DEF OpToRel
<1>2. \E x \in S : \A y \in S : ~ (<<y, x>> \in R)
  BY <1>1, WFMin
<1>3. \A x, y \in S : ~ (<<y, x>> \in R) => x <= y
  OBVIOUS
<1>4. \E x \in S : \A y \in S : x <= y
  <2>. HIDE DEF R
  <2>. QED  BY <1>2, <1>3
<1>. QED  BY <1>4 DEF Min

LEMMA PutLast ==
    ASSUME NEW T, NEW s \in Seq(T), NEW x \in T
    PROVE  /\ Append(s, x) \in Seq(T) /\ Len(s) \in Nat /\ DOMAIN s = 1 .. Len(s)
           /\ DOMAIN Append(s, x) = 1 .. Len(s) + 1
           /\ Append(s, x)[Len(s) + 1] = x
           /\ \A i \in 1 .. Len(s) : Append(s, x)[i] = s[i]
  OBVIOUS

LEMMA TakeFirst ==
    ASSUME NEW T, NEW s \in Seq(T), s # <<>>
    PROVE  /\ Tail(s) \in Seq(T) /\ Len(s) \in Nat /\ Len(s) > 0
           /\ DOMAIN s = 1 .. Len(s) /\ DOMAIN Tail(s) = 1 .. Len(s) - 1
           /\ \A i \in 1 .. Len(s) - 1 : Tail(s)[i] = s[i + 1]
           /\ Head(s) = s[1] /\ Head(s) \in T
  OBVIOUS

LEMMA NotEmpty ==
    ASSUME NEW T, NEW s \in Seq(T), NEW x \in T
    PROVE  Append(s, x) # <<>>
  BY AppendProperties

\* No command is answered with a reading: that only comes from the device manager.
LEMMA DispatchText ==
    ASSUME NEW command
    PROVE  Dispatch(command) \in Texts \ {"status"}
<1>1. /\ handleActor(Tail(command)) \in Texts \ {"status"}
      /\ handlePmu(Tail(command)) \in Texts \ {"status"}
      /\ handleWifi(Tail(command)) \in Texts \ {"status"}
      /\ handleMetrics(Tail(command)) \in Texts \ {"status"}
  <2>1. handleActor(Tail(command)) \in Texts \ {"status"}
    BY DEF handleActor, Texts
  <2>2. handlePmu(Tail(command)) \in Texts \ {"status"}
    BY DEF handlePmu, Texts
  <2>3. handleWifi(Tail(command)) \in Texts \ {"status"}
    BY DEF handleWifi, Texts
  <2>4. handleMetrics(Tail(command)) \in Texts \ {"status"}
    BY DEF handleMetrics, Texts
  <2>. QED  BY <2>1, <2>2, <2>3, <2>4
<1>2. "unknown" \in Texts \ {"status"}
  BY DEF Texts
<1>. QED  BY <1>1, <1>2 DEF Dispatch

LEMMA ToggleIsSent == \A wasOn \in BOOLEAN : Toggle(wasOn) \in Sent
  BY DEF Sent

LEMMA CommandIsSent == \A line \in Lines : Command(line) \in Sent
  BY DEF Sent

-----------------------------------------------------------------------------
(* What an answer and the end of a connection do to the clients            *)

LEMMA ReceivedIs ==
    ASSUME Types, NEW f \in Fds, NEW m, m.text \in Texts, m.by \in Clients
    PROVE  /\ Received(f, m) \in [Clients -> ClientRecords]
           /\ \A c \in Clients :
                 /\ Received(f, m)[c].pc = client[c].pc
                 /\ Received(f, m)[c].sent = client[c].sent
                 /\ Received(f, m)[c].unread = client[c].unread
                 /\ Received(f, m)[c].got = IF conn[f] = c /\ client[c].pc \notin {"left", "gone"}
                                            THEN Append(client[c].got, [text |-> m.text, by |-> m.by])
                                            ELSE client[c].got
<1>. DEFINE a == [text |-> m.text, by |-> m.by]
<1>1. a \in Answers
  BY DEF Answers
<1>. HIDE DEF a
<1>2. \A c \in Clients : /\ client[c] \in ClientRecords /\ client[c].got \in Seq(Answers)
                         /\ Append(client[c].got, a) \in Seq(Answers)
  <2>. TAKE c \in Clients
  <2>1. client[c] \in ClientRecords
    BY DEF Types
  <2>2. client[c].got \in Seq(Answers)
    BY <2>1 DEF ClientRecords
  <2>. QED  BY <1>1, <2>1, <2>2, PutLast
<1>3. conn[f] \in Clients \cup {None} /\ None \notin Clients
  BY IpcAssumption DEF Types, None
<1>4. CASE conn[f] = None \/ client[conn[f]].pc \in {"left", "gone"}
  <2>1. Received(f, m) = client
    BY <1>4 DEF Received
  <2>. QED  BY <1>3, <1>4, <2>1 DEF Types
<1>5. CASE ~(conn[f] = None \/ client[conn[f]].pc \in {"left", "gone"})
  <2>1. Received(f, m) = [client EXCEPT ![conn[f]].got = Append(@, a)]
    BY <1>5 DEF Received, a
  <2>2. conn[f] \in Clients /\ client \in [Clients -> ClientRecords]
    BY <1>3, <1>5 DEF Types
  <2>3. [client[conn[f]] EXCEPT !.got = Append(@, a)] \in ClientRecords
    BY <1>2, <2>2 DEF ClientRecords
  <2>4. Received(f, m) = [client EXCEPT ![conn[f]] = [client[conn[f]] EXCEPT !.got = Append(@, a)]]
    BY <2>1, <2>2
  <2>5. Received(f, m) \in [Clients -> ClientRecords]
    BY <2>2, <2>3, <2>4
  <2>6. ASSUME NEW c \in Clients
        PROVE  /\ Received(f, m)[c].pc = client[c].pc
               /\ Received(f, m)[c].sent = client[c].sent
               /\ Received(f, m)[c].unread = client[c].unread
               /\ Received(f, m)[c].got = IF conn[f] = c /\ client[c].pc \notin {"left", "gone"}
                                          THEN Append(client[c].got, a) ELSE client[c].got
    <3>1. client[c] \in ClientRecords
      BY <1>2
    <3>. QED  BY <1>5, <2>2, <2>4, <3>1 DEF ClientRecords
  <2>. QED  BY <2>5, <2>6 DEF a
<1>. QED  BY <1>4, <1>5

LEMMA EndSeenIs ==
    ASSUME Types, NEW f \in Fds, NEW cl \in [Clients -> ClientRecords]
    PROVE  /\ EndSeen(cl, f) \in [Clients -> ClientRecords]
           /\ \A c \in Clients :
                 /\ EndSeen(cl, f)[c].pc = IF conn[f] = c /\ cl[c].pc \notin {"left", "gone"} THEN "closed" ELSE cl[c].pc
                 /\ EndSeen(cl, f)[c].sent = cl[c].sent
                 /\ EndSeen(cl, f)[c].unread = cl[c].unread
                 /\ EndSeen(cl, f)[c].got = cl[c].got
<1>1. conn[f] \in Clients \cup {None} /\ None \notin Clients
  BY IpcAssumption DEF Types, None
<1>2. CASE conn[f] = None
  BY <1>1, <1>2 DEF EndSeen
<1>3. CASE conn[f] # None
  <2>1. EndSeen(cl, f) = [cl EXCEPT ![conn[f]] = [cl[conn[f]] EXCEPT !.pc = IF @ \in {"left", "gone"} THEN @ ELSE "closed"]]
    BY <1>3 DEF EndSeen
  <2>2. conn[f] \in Clients /\ cl[conn[f]] \in ClientRecords
    BY <1>1, <1>3
  <2>3. [cl[conn[f]] EXCEPT !.pc = IF @ \in {"left", "gone"} THEN @ ELSE "closed"] \in ClientRecords
    BY <2>2 DEF ClientRecords, ClientPcs
  <2>4. EndSeen(cl, f) \in [Clients -> ClientRecords]
    BY <2>1, <2>2, <2>3
  <2>5. ASSUME NEW c \in Clients
        PROVE  /\ EndSeen(cl, f)[c].pc = IF conn[f] = c /\ cl[c].pc \notin {"left", "gone"} THEN "closed" ELSE cl[c].pc
               /\ EndSeen(cl, f)[c].sent = cl[c].sent
               /\ EndSeen(cl, f)[c].unread = cl[c].unread
               /\ EndSeen(cl, f)[c].got = cl[c].got
    <3>1. cl[c] \in ClientRecords
      OBVIOUS
    <3>. QED  BY <2>1, <2>2, <3>1 DEF ClientRecords
  <2>. QED  BY <2>4, <2>5
<1>. QED  BY <1>2, <1>3

\* What a step of client c changes.
LEMMA ClientMoves ==
    ASSUME Types, NEW c \in Clients, NEW p \in ClientPcs, client' = [client EXCEPT ![c].pc = p]
    PROVE  /\ client' \in [Clients -> ClientRecords]
           /\ \A d \in Clients :
                 /\ client'[d].pc = IF d = c THEN p ELSE client[d].pc
                 /\ client'[d].sent = client[d].sent
                 /\ client'[d].unread = client[d].unread
                 /\ client'[d].got = client[d].got
<1>1. \A d \in Clients : client[d] \in ClientRecords
  BY DEF Types
<1>2. client' \in [Clients -> ClientRecords]
  BY <1>1 DEF Types, ClientRecords
<1>. QED  BY <1>1, <1>2 DEF Types, ClientRecords

LEMMA ClientSends ==
    ASSUME Types, NEW c \in Clients, NEW command \in Sent, SendCommand(c, command)
    PROVE  /\ client' \in [Clients -> ClientRecords]
           /\ client'[c].pc = "waiting" /\ client'[c].sent = command
           /\ client'[c].unread /\ client'[c].got = client[c].got
           /\ \A d \in Clients \ {c} : client'[d] = client[d]
<1>1. \A d \in Clients : client[d] \in ClientRecords
  BY DEF Types
<1>2. client' = [client EXCEPT ![c] = [client[c] EXCEPT !.pc = "waiting", !.sent = command, !.unread = TRUE]]
  BY DEF SendCommand, Types
<1>3. [client[c] EXCEPT !.pc = "waiting", !.sent = command, !.unread = TRUE] \in ClientRecords
  BY <1>1 DEF ClientRecords, ClientPcs
<1>4. /\ [client[c] EXCEPT !.pc = "waiting", !.sent = command, !.unread = TRUE].pc = "waiting"
      /\ [client[c] EXCEPT !.pc = "waiting", !.sent = command, !.unread = TRUE].sent = command
      /\ [client[c] EXCEPT !.pc = "waiting", !.sent = command, !.unread = TRUE].unread = TRUE
      /\ [client[c] EXCEPT !.pc = "waiting", !.sent = command, !.unread = TRUE].got = client[c].got
  BY <1>1 DEF ClientRecords
<1>. QED  BY <1>2, <1>3, <1>4 DEF Types

LEMMA CommandRead ==
    ASSUME Types, NEW c \in Clients, client' = [client EXCEPT ![c].unread = FALSE]
    PROVE  /\ client' \in [Clients -> ClientRecords]
           /\ \A d \in Clients :
                 /\ client'[d].pc = client[d].pc
                 /\ client'[d].sent = client[d].sent
                 /\ client'[d].unread = IF d = c THEN FALSE ELSE client[d].unread
                 /\ client'[d].got = client[d].got
<1>1. \A d \in Clients : client[d] \in ClientRecords
  BY DEF Types
<1>2. client' = [client EXCEPT ![c] = [client[c] EXCEPT !.unread = FALSE]]
  BY DEF Types
<1>3. [client[c] EXCEPT !.unread = FALSE] \in ClientRecords
  BY <1>1 DEF ClientRecords
<1>4. client' \in [Clients -> ClientRecords]
  BY <1>2, <1>3 DEF Types
<1>5. /\ [client[c] EXCEPT !.unread = FALSE].pc = client[c].pc
      /\ [client[c] EXCEPT !.unread = FALSE].sent = client[c].sent
      /\ [client[c] EXCEPT !.unread = FALSE].unread = FALSE
      /\ [client[c] EXCEPT !.unread = FALSE].got = client[c].got
  BY <1>1 DEF ClientRecords
<1>. QED  BY <1>2, <1>4, <1>5 DEF Types

-----------------------------------------------------------------------------
(* What each message is                                                    *)

LEMMA FirstMessage ==
    ASSUME Types, inbox # <<>>
    PROVE  /\ Head(inbox).fd \in Fds /\ Tail(inbox) \in Seq(InboxMessages)
           /\ Head(inbox).type = "response" =>
                 /\ Head(inbox).text \in Texts /\ Head(inbox).by \in Clients
                 /\ Head(inbox).close \in BOOLEAN
<1>1. Head(inbox) \in InboxMessages /\ Tail(inbox) \in Seq(InboxMessages)
  BY TakeFirst DEF Types
<1>. QED  BY <1>1 DEF InboxMessages

LEMMA FirstCommand ==
    ASSUME Types, cmdbox # <<>>
    PROVE  /\ Tail(cmdbox) \in Seq(CmdMessages)
           /\ Head(cmdbox).type = "request" =>
                 /\ Head(cmdbox).fd \in Fds /\ Head(cmdbox).by \in Clients
                 /\ Head(cmdbox).command \in Sent
<1>1. Head(cmdbox) \in CmdMessages /\ Tail(cmdbox) \in Seq(CmdMessages)
  BY TakeFirst DEF Types
<1>. QED  BY <1>1 DEF CmdMessages

LEMMA AnInboxMessage ==
    /\ \A f \in Fds : [type |-> "new", fd |-> f] \in InboxMessages
    /\ \A f \in Fds : [type |-> "data", fd |-> f] \in InboxMessages
    /\ \A f \in Fds, t \in Texts, b \in Clients, x \in BOOLEAN :
          [type |-> "response", fd |-> f, text |-> t, by |-> b, close |-> x] \in InboxMessages
  BY DEF InboxMessages

LEMMA ACommand ==
    /\ \A s \in Sent, f \in Fds, b \in Clients :
          [type |-> "request", command |-> s, fd |-> f, by |-> b] \in CmdMessages
    /\ [type |-> "update"] \in CmdMessages
  BY DEF CmdMessages

LEMMA Owners ==
    ASSUME Types
    PROVE  /\ None \notin Clients /\ None \notin Fds
           /\ \A f \in Fds : conn[f] \in Clients \cup {None}
           /\ \A f \in Fds : conn[f] # None => conn[f] \in Clients
  BY IpcAssumption DEF Types, None

-----------------------------------------------------------------------------
(* Types                                                                   *)

LEMMA TypesInit == Init => Types
<1>. SUFFICES ASSUME Init PROVE Types
  OBVIOUS
<1>1. <<>> \in Sent /\ <<>> \in Seq(Answers)
  BY DEF Sent
<1>2. [pc |-> "new", sent |-> <<>>, unread |-> FALSE, got |-> <<>>] \in ClientRecords
  BY <1>1 DEF ClientRecords, ClientPcs
<1>3. client \in [Clients -> ClientRecords]
  BY <1>2 DEF Init
<1>4. inbox \in Seq(InboxMessages) /\ cmdbox \in Seq(CmdMessages)
  BY DEF Init
<1>. QED  BY <1>3, <1>4 DEF Init, Types, Slots

LEMMA TypesClients ==
    ASSUME Types, NEW c \in Clients
    PROVE  /\ Connect(c) \/ HangUp(c) \/ Leave(c) => Types'
           /\ \A command \in Sent : SendCommand(c, command) => Types'
<1>1. ASSUME Connect(c) \/ HangUp(c) \/ Leave(c)
      PROVE  Types'
  <2>1. PICK p \in ClientPcs : client' = [client EXCEPT ![c].pc = p]
    BY <1>1 DEF Connect, HangUp, Leave, ClientPcs
  <2>2. client' \in [Clients -> ClientRecords]
    BY <2>1, ClientMoves
  <2>. QED  BY <1>1, <2>2 DEF Connect, HangUp, Leave, Types, cmdVars
<1>2. ASSUME NEW command \in Sent, SendCommand(c, command)
      PROVE  Types'
  <2>1. client' \in [Clients -> ClientRecords]
    BY <1>2, ClientSends
  <2>. QED  BY <1>2, <2>1 DEF SendCommand, Types, cmdVars
<1>. QED  BY <1>1, <1>2

LEMMA FreeHasMin ==
    ASSUME Types, Free # {}
    PROVE  Min(Free) \in Fds /\ conn[Min(Free)] = None
<1>1. Free \in SUBSET Nat
  BY IpcAssumption DEF Free
<1>2. Min(Free) \in Free
  BY <1>1, MinIsIn
<1>. QED  BY <1>2 DEF Free

LEMMA TypesLoop ==
    ASSUME Types, LoopStep \/ (\E c \in Clients : Accept(c)) \/ (\E f \in Fds : ReportReadable(f))
    PROVE  Types'
<1>1. CASE LoopStep
  BY <1>1 DEF LoopStep, DrainPendingOp, LoopTurn, Types, sockVars, cmdVars
<1>2. ASSUME NEW c \in Clients, Accept(c)
      PROVE  Types'
  <2>. DEFINE f == Min(Free)
  <2>1. f \in Fds /\ "open" \in ClientPcs
    BY <1>2, FreeHasMin DEF Accept, ClientPcs
  <2>2. /\ client' = [client EXCEPT ![c].pc = "open"]
        /\ conn' = [conn EXCEPT ![f] = c]
        /\ inbox' = Append(inbox, [type |-> "new", fd |-> f])
        /\ UNCHANGED <<ipc, cmdVars>>
    BY <1>2 DEF Accept
  <2>. HIDE DEF f
  <2>3. client' \in [Clients -> ClientRecords]
    BY <2>1, <2>2, ClientMoves
  <2>4. inbox' \in Seq(InboxMessages)
    BY <2>1, <2>2, AnInboxMessage, PutLast DEF Types
  <2>. QED  BY <2>1, <2>2, <2>3, <2>4 DEF Types, cmdVars
<1>3. ASSUME NEW f \in Fds, ReportReadable(f)
      PROVE  Types'
  <2>1. inbox' \in Seq(InboxMessages)
    BY <1>3, AnInboxMessage, PutLast DEF Types, ReportReadable
  <2>. QED  BY <1>3, <2>1 DEF ReportReadable, Types, sockVars, cmdVars
<1>. QED  BY <1>1, <1>2, <1>3

LEMMA TypesIpc ==
    ASSUME Types, IpcStep
    PROVE  Types'
<1>1. CASE HandleNewConnection \/ HandleNoData
  <2>1. inbox' \in Seq(InboxMessages)
    BY <1>1, FirstMessage DEF HandleNewConnection, HandleNoData, Takes
  <2>. QED  BY <1>1, <2>1 DEF HandleNewConnection, HandleNoData, Types, sockVars, cmdVars
<1>2. CASE HandleCommand
  <2>. DEFINE f == Head(inbox).fd
  <2>1. /\ inbox # <<>> /\ inbox' = Tail(inbox) /\ conn[f] # None
        /\ client' = [client EXCEPT ![conn[f]].unread = FALSE]
        /\ cmdbox' = Append(cmdbox, [type |-> "request", command |-> client[conn[f]].sent, fd |-> f, by |-> conn[f]])
        /\ UNCHANGED <<conn, ipc, cmd>>
    BY <1>2 DEF HandleCommand, Takes
  <2>2. f \in Fds /\ inbox' \in Seq(InboxMessages)
    BY <2>1, FirstMessage
  <2>. HIDE DEF f
  <2>3. conn[f] \in Clients
    BY <2>1, <2>2, Owners
  <2>4. client[conn[f]].sent \in Sent
    <3>1. client[conn[f]] \in ClientRecords
      BY <2>3 DEF Types
    <3>. QED  BY <3>1 DEF ClientRecords
  <2>5. cmdbox' \in Seq(CmdMessages)
    BY <2>1, <2>2, <2>3, <2>4, ACommand, PutLast DEF Types
  <2>6. client' \in [Clients -> ClientRecords]
    BY <2>1, <2>3, CommandRead
  <2>. QED  BY <2>1, <2>2, <2>5, <2>6 DEF Types
<1>3. CASE HandleEndOfFile
  <2>. DEFINE f == Head(inbox).fd
  <2>1. /\ inbox # <<>> /\ inbox' = Tail(inbox) /\ conn' = [conn EXCEPT ![f] = None]
        /\ client' = EndSeen(client, f) /\ ipc' = f /\ UNCHANGED cmdVars
    BY <1>3 DEF HandleEndOfFile, Takes, Closed
  <2>2. f \in Fds /\ inbox' \in Seq(InboxMessages)
    BY <2>1, FirstMessage
  <2>. HIDE DEF f
  <2>3. client' \in [Clients -> ClientRecords]
    BY <2>1, <2>2, EndSeenIs DEF Types
  <2>. QED  BY <2>1, <2>2, <2>3 DEF Types, cmdVars
<1>4. CASE EraseConnection
  BY <1>4 DEF EraseConnection, Types, sockVars, cmdVars
<1>5. CASE HandleCmdResponse
  <2>. DEFINE m == Head(inbox)
  <2>1. /\ inbox # <<>> /\ inbox' = Tail(inbox) /\ m.type = "response"
        /\ \/ client' = EndSeen(Received(m.fd, m), m.fd) /\ conn' = [conn EXCEPT ![m.fd] = None]
           \/ client' = Received(m.fd, m) /\ conn' = conn
        /\ UNCHANGED <<ipc, cmdVars>>
    BY <1>5 DEF HandleCmdResponse, Takes, Closed
  <2>2. m.fd \in Fds /\ m.text \in Texts /\ m.by \in Clients /\ inbox' \in Seq(InboxMessages)
    BY <2>1, FirstMessage
  <2>. HIDE DEF m
  <2>3. Received(m.fd, m) \in [Clients -> ClientRecords]
    BY <2>2, ReceivedIs
  <2>4. client' \in [Clients -> ClientRecords]
    BY <2>1, <2>2, <2>3, EndSeenIs
  <2>. QED  BY <2>1, <2>2, <2>4 DEF Types, cmdVars
<1>. QED  BY <1>1, <1>2, <1>3, <1>4, <1>5 DEF IpcStep

LEMMA TypesCmd ==
    ASSUME Types, CmdStep \/ PublishPmu
    PROVE  Types'
<1>1. CASE HandleCmdRequest
  <2>. DEFINE m == Head(cmdbox)
              p == cmd.pending \/ IsPmu(m)
  <2>1. /\ cmdbox # <<>> /\ m.type = "request" /\ cmdbox' = Tail(cmdbox)
        /\ cmd' = IF p THEN [pending |-> TRUE, conn |-> m.fd, by |-> m.by] ELSE cmd
        /\ inbox' = Append(inbox, [type |-> "response", fd |-> m.fd, text |-> Dispatch(m.command),
                                   by |-> m.by, close |-> ~p])
        /\ UNCHANGED <<client, conn, ipc>>
    BY <1>1 DEF HandleCmdRequest, sockVars
  <2>2. m.fd \in Fds /\ m.by \in Clients /\ cmdbox' \in Seq(CmdMessages)
    BY <2>1, FirstCommand
  <2>3. p \in BOOLEAN /\ (~p) \in BOOLEAN
    <3>1. cmd.pending \in BOOLEAN
      BY DEF Types, Slots
    <3>2. IsPmu(m) \in BOOLEAN
      BY DEF IsPmu
    <3>. QED  BY <3>1, <3>2
  <2>6. cmd \in Slots /\ (~p => ~cmd.pending)
    BY DEF Types
  <2>7. Dispatch(m.command) \in Texts
    BY DispatchText
  <2>. HIDE DEF m, p
  <2>4. inbox' \in Seq(InboxMessages)
    <3>1. [type |-> "response", fd |-> m.fd, text |-> Dispatch(m.command), by |-> m.by, close |-> ~p] \in InboxMessages
      BY <2>2, <2>3, <2>7, AnInboxMessage
    <3>. QED  BY <2>1, <3>1, PutLast DEF Types
  <2>5. cmd' \in Slots /\ (cmd'.pending => cmd'.conn \in Fds /\ cmd'.by \in Clients)
    BY <2>1, <2>2, <2>3, <2>6 DEF Slots
  <2>. QED  BY <2>1, <2>2, <2>4, <2>5 DEF Types
<1>2. CASE HandlePmuDataUpdate
  <2>. DEFINE r == [type |-> "response", fd |-> cmd.conn, text |-> "status", by |-> cmd.by, close |-> TRUE]
  <2>1. /\ cmdbox # <<>> /\ cmdbox' = Tail(cmdbox) /\ cmd' = [cmd EXCEPT !.pending = FALSE]
        /\ inbox' = IF cmd.pending THEN Append(inbox, r) ELSE inbox
        /\ UNCHANGED <<client, conn, ipc>>
    BY <1>2 DEF HandlePmuDataUpdate, sockVars
  <2>2. cmd.pending => r \in InboxMessages
    <3>1. "status" \in Texts
      BY DEF Texts
    <3>. QED  BY <3>1, Owners, AnInboxMessage DEF Types
  <2>. HIDE DEF r
  <2>3. inbox' \in Seq(InboxMessages)
    BY <2>1, <2>2, PutLast DEF Types
  <2>4. cmdbox' \in Seq(CmdMessages)
    BY <2>1, FirstCommand
  <2>5. cmd' \in Slots /\ ~cmd'.pending
    BY <2>1 DEF Types, Slots
  <2>. QED  BY <2>1, <2>3, <2>4, <2>5 DEF Types
<1>3. CASE PublishPmu
  <2>1. cmdbox' \in Seq(CmdMessages)
    BY <1>3, ACommand, PutLast DEF PublishPmu, Types
  <2>. QED  BY <1>3, <2>1 DEF PublishPmu, Types, sockVars
<1>. QED  BY <1>1, <1>2, <1>3 DEF CmdStep

LEMMA TypesStep == Types /\ [Next]_vars => Types'
<1>. SUFFICES ASSUME Types, [Next]_vars PROVE Types'
  OBVIOUS
<1>1. ASSUME NEW c \in Clients, NEW line \in Lines, RunLine(c, line)
      PROVE  Types'
  BY <1>1, TypesClients, CommandIsSent DEF RunLine
<1>2. ASSUME NEW c \in Clients, Click(c)
      PROVE  Types'
  BY <1>2, TypesClients, ToggleIsSent DEF Click
<1>3. CASE UNCHANGED vars
  BY <1>3 DEF vars, sockVars, cmdVars, Types
<1>. QED  BY <1>1, <1>2, <1>3, TypesClients, TypesLoop, TypesIpc, TypesCmd DEF Next

-----------------------------------------------------------------------------
(* What a step does not touch stays correct                                *)

SameClient(d) ==
    /\ client'[d].pc = client[d].pc /\ client'[d].sent = client[d].sent
    /\ client'[d].unread = client[d].unread /\ client'[d].got = client[d].got

\* Who gave up stays away, and an answer is never taken back.
Grows(d) == (GaveUp(d) => GaveUp(d)') /\ Strangers(d) \subseteq Strangers(d)'

LEMMA SameGrows == ASSUME NEW d, SameClient(d) PROVE Grows(d)
  BY DEF Grows, SameClient, GaveUp, Strangers

LEMMA GrowsBlamed == ASSUME NEW d, Grows(d), Blamed(d) PROVE Blamed(d)'
  BY DEF Grows, Blamed

LEMMA ClientTypes ==
    ASSUME Types, NEW d \in Clients
    PROVE  /\ client[d].pc \in ClientPcs /\ client[d].unread \in BOOLEAN
           /\ client[d].got \in Seq(Answers)
<1>1. client[d] \in ClientRecords
  BY DEF Types
<1>. QED  BY <1>1 DEF ClientRecords

LEMMA ItemTypes ==
    ASSUME Types
    PROVE  /\ \A i \in DOMAIN inbox : i \in Int /\ inbox[i].fd \in Fds
           /\ \A k \in DOMAIN cmdbox : k \in Int /\ (cmdbox[k].type = "request" => cmdbox[k].fd \in Fds)
<1>1. \A i \in DOMAIN inbox : i \in Int /\ inbox[i] \in InboxMessages
  BY DEF Types
<1>2. \A k \in DOMAIN cmdbox : k \in Int /\ cmdbox[k] \in CmdMessages
  BY DEF Types
<1>. QED  BY <1>1, <1>2 DEF InboxMessages, CmdMessages

\* As long as nothing more is received, whose answers have gone astray stays explained.
LEMMA LawKept ==
    ASSUME Types, StrangersGaveUp,
           \A d \in Clients : /\ GaveUp(d) => GaveUp(d)'
                              /\ client'[d].got = client[d].got
                              /\ client'[d].sent = client[d].sent \/ Unanswered(d)
    PROVE  StrangersGaveUp'
<1>1. \A c \in Clients : Strangers(c)' = Strangers(c)
  BY DEF Strangers
<1>2. \A c \in Clients : \A d \in Strangers(c) : d \in Clients
  <2>. SUFFICES ASSUME NEW c \in Clients, NEW i \in DOMAIN client[c].got
                PROVE  client[c].got[i].by \in Clients
    BY DEF Strangers
  <2>1. client[c].got[i] \in Answers
    BY ClientTypes
  <2>. QED  BY <2>1 DEF Answers
<1>3. \A c \in Clients : client[c].got # <<>> => 1 \in DOMAIN client[c].got
  BY ClientTypes
<1>4. \A c \in Clients : client'[c].got # <<>> /\ client'[c].got[1].by = c
          => client'[c].got[1].text = Dispatch(client'[c].sent)
  BY <1>3 DEF StrangersGaveUp, Unanswered
<1>. QED  BY <1>1, <1>2, <1>4 DEF StrangersGaveUp

Keeps(d) ==
    Asked(d) => /\ Asked(d)' /\ client'[d].sent = client[d].sent
                /\ \A f \in Fds : (Owned(f, d) => Owned(f, d)') /\ (Hears(f, d)' => Hears(f, d))

\* The messages about d are the same ones, k places further on.
SameResponses(d) ==
    \E k \in {0, 1} :
        /\ \A i \in DOMAIN inbox' : Response(i, d)' => i + k \in DOMAIN inbox /\ inbox'[i] = inbox[i + k]
        /\ \A i \in DOMAIN inbox : Response(i, d) => i - k \in DOMAIN inbox' /\ inbox'[i - k] = inbox[i]

SameRequests(d) ==
    \E k \in {0, 1} :
        /\ \A i \in DOMAIN cmdbox' : Request(i, d)' => i + k \in DOMAIN cmdbox /\ cmdbox'[i] = cmdbox[i + k]
        /\ \A i \in DOMAIN cmdbox : Request(i, d) => i - k \in DOMAIN cmdbox' /\ cmdbox'[i - k] = cmdbox[i]

LEMMA InboxUnchanged ==
    ASSUME Types, inbox' = inbox, NEW d \in Clients
    PROVE  SameResponses(d)
<1>1. DOMAIN inbox = 1 .. Len(inbox) /\ Len(inbox) \in Nat
  BY DEF Types
<1>2. \A i \in DOMAIN inbox : i + 0 = i /\ i - 0 = i
  BY <1>1
<1>. QED  BY <1>2 DEF SameResponses

LEMMA InboxAppended ==
    ASSUME Types, NEW x \in InboxMessages, inbox' = Append(inbox, x), NEW d \in Clients,
           ~(x.type = "response" /\ x.by = d)
    PROVE  SameResponses(d)
<1>1. /\ Len(inbox) \in Nat /\ DOMAIN inbox = 1 .. Len(inbox)
      /\ DOMAIN inbox' = 1 .. Len(inbox) + 1
      /\ inbox'[Len(inbox) + 1] = x
      /\ \A i \in 1 .. Len(inbox) : inbox'[i] = inbox[i]
  BY PutLast DEF Types
<1>2. ASSUME NEW i \in DOMAIN inbox', Response(i, d)'
      PROVE  i + 0 \in DOMAIN inbox /\ inbox'[i] = inbox[i + 0]
  <2>1. i # Len(inbox) + 1
    BY <1>1, <1>2 DEF Response
  <2>. QED  BY <1>1, <2>1
<1>3. ASSUME NEW i \in DOMAIN inbox
      PROVE  i - 0 \in DOMAIN inbox' /\ inbox'[i - 0] = inbox[i]
  BY <1>1
<1>. QED  BY <1>2, <1>3 DEF SameResponses

LEMMA InboxTaken ==
    ASSUME Types, inbox # <<>>, inbox' = Tail(inbox), NEW d \in Clients,
           ~(Head(inbox).type = "response" /\ Head(inbox).by = d)
    PROVE  SameResponses(d)
<1>1. /\ Len(inbox) \in Nat /\ Len(inbox) > 0
      /\ DOMAIN inbox = 1 .. Len(inbox) /\ DOMAIN inbox' = 1 .. Len(inbox) - 1
      /\ \A i \in 1 .. Len(inbox) - 1 : inbox'[i] = inbox[i + 1]
      /\ Head(inbox) = inbox[1]
  BY TakeFirst DEF Types
<1>2. ASSUME NEW i \in DOMAIN inbox'
      PROVE  i + 1 \in DOMAIN inbox /\ inbox'[i] = inbox[i + 1]
  BY <1>1
<1>3. ASSUME NEW i \in DOMAIN inbox, Response(i, d)
      PROVE  i - 1 \in DOMAIN inbox' /\ inbox'[i - 1] = inbox[i]
  <2>1. i # 1
    BY <1>1, <1>3 DEF Response
  <2>2. i - 1 \in 1 .. Len(inbox) - 1 /\ (i - 1) + 1 = i
    BY <1>1, <2>1
  <2>. QED  BY <1>1, <2>2
<1>. QED  BY <1>2, <1>3 DEF SameResponses

LEMMA CmdboxUnchanged ==
    ASSUME Types, cmdbox' = cmdbox, NEW d \in Clients
    PROVE  SameRequests(d)
<1>1. DOMAIN cmdbox = 1 .. Len(cmdbox) /\ Len(cmdbox) \in Nat
  BY DEF Types
<1>2. \A i \in DOMAIN cmdbox : i + 0 = i /\ i - 0 = i
  BY <1>1
<1>. QED  BY <1>2 DEF SameRequests

LEMMA CmdboxAppended ==
    ASSUME Types, NEW x \in CmdMessages, cmdbox' = Append(cmdbox, x), NEW d \in Clients,
           ~(x.type = "request" /\ x.by = d)
    PROVE  SameRequests(d)
<1>1. /\ Len(cmdbox) \in Nat /\ DOMAIN cmdbox = 1 .. Len(cmdbox)
      /\ DOMAIN cmdbox' = 1 .. Len(cmdbox) + 1
      /\ cmdbox'[Len(cmdbox) + 1] = x
      /\ \A i \in 1 .. Len(cmdbox) : cmdbox'[i] = cmdbox[i]
  BY PutLast DEF Types
<1>2. ASSUME NEW i \in DOMAIN cmdbox', Request(i, d)'
      PROVE  i + 0 \in DOMAIN cmdbox /\ cmdbox'[i] = cmdbox[i + 0]
  <2>1. i # Len(cmdbox) + 1
    BY <1>1, <1>2 DEF Request
  <2>. QED  BY <1>1, <2>1
<1>3. ASSUME NEW i \in DOMAIN cmdbox
      PROVE  i - 0 \in DOMAIN cmdbox' /\ cmdbox'[i - 0] = cmdbox[i]
  BY <1>1
<1>. QED  BY <1>2, <1>3 DEF SameRequests

LEMMA CmdboxTaken ==
    ASSUME Types, cmdbox # <<>>, cmdbox' = Tail(cmdbox), NEW d \in Clients,
           ~(Head(cmdbox).type = "request" /\ Head(cmdbox).by = d)
    PROVE  SameRequests(d)
<1>1. /\ Len(cmdbox) \in Nat /\ Len(cmdbox) > 0
      /\ DOMAIN cmdbox = 1 .. Len(cmdbox) /\ DOMAIN cmdbox' = 1 .. Len(cmdbox) - 1
      /\ \A i \in 1 .. Len(cmdbox) - 1 : cmdbox'[i] = cmdbox[i + 1]
      /\ Head(cmdbox) = cmdbox[1]
  BY TakeFirst DEF Types
<1>2. ASSUME NEW i \in DOMAIN cmdbox'
      PROVE  i + 1 \in DOMAIN cmdbox /\ cmdbox'[i] = cmdbox[i + 1]
  BY <1>1
<1>3. ASSUME NEW i \in DOMAIN cmdbox, Request(i, d)
      PROVE  i - 1 \in DOMAIN cmdbox' /\ cmdbox'[i - 1] = cmdbox[i]
  <2>1. i # 1
    BY <1>1, <1>3 DEF Request
  <2>2. i - 1 \in 1 .. Len(cmdbox) - 1 /\ (i - 1) + 1 = i
    BY <1>1, <2>1
  <2>. QED  BY <1>1, <2>2
<1>. QED  BY <1>2, <1>3 DEF SameRequests

\* What is under way for d stays correct as long as d is the same to it.
LEMMA Frame ==
    ASSUME Types, Types', NEW d \in Clients, Correct(d), Keeps(d),
           Slot(d)' => Slot(d) /\ cmd'.conn = cmd.conn,
           SameResponses(d), SameRequests(d)
    PROVE  Correct(d)'
<1>2. PICK k \in {0, 1} :
        /\ \A i \in DOMAIN inbox' : Response(i, d)' => i + k \in DOMAIN inbox /\ inbox'[i] = inbox[i + k]
        /\ \A i \in DOMAIN inbox : Response(i, d) => i - k \in DOMAIN inbox' /\ inbox'[i - k] = inbox[i]
  BY DEF SameResponses
<1>3. PICK l \in {0, 1} :
        /\ \A i \in DOMAIN cmdbox' : Request(i, d)' => i + l \in DOMAIN cmdbox /\ cmdbox'[i] = cmdbox[i + l]
        /\ \A i \in DOMAIN cmdbox : Request(i, d) => i - l \in DOMAIN cmdbox' /\ cmdbox'[i - l] = cmdbox[i]
  BY DEF SameRequests
<1>4. /\ \A i \in DOMAIN inbox : i \in Int /\ inbox[i].fd \in Fds
      /\ \A i \in DOMAIN inbox' : i \in Int
      /\ \A i \in DOMAIN cmdbox : i \in Int /\ (cmdbox[i].type = "request" => cmdbox[i].fd \in Fds)
      /\ \A i \in DOMAIN cmdbox' : i \in Int
      /\ cmd.pending => cmd.conn \in Fds
  BY ItemTypes DEF Types
<1>5. /\ \A i \in DOMAIN inbox' : Response(i, d)' => Response(i + k, d)
      /\ \A i \in DOMAIN cmdbox' : Request(i, d)' => Request(i + l, d)
      /\ \A i \in DOMAIN inbox : Response(i, d) => Response(i - k, d)'
  BY <1>2, <1>3 DEF Response, Request
<1>6. RequestsBy(d)'
  <2>. SUFFICES ASSUME NEW i \in DOMAIN cmdbox', Request(i, d)'
                PROVE  /\ Asked(d)' /\ ~Slot(d)' /\ Owned(cmdbox[i].fd, d)'
                       /\ cmdbox'[i].command = client'[d].sent
                       /\ \A j \in DOMAIN cmdbox' : Request(j, d)' => i = j
                       /\ \A j \in DOMAIN inbox' : ~Response(j, d)'
    BY DEF RequestsBy
  <2>1. /\ i + l \in DOMAIN cmdbox /\ cmdbox'[i] = cmdbox[i + l] /\ Request(i + l, d)
    BY <1>3, <1>5
  <2>2. /\ Asked(d) /\ ~Slot(d) /\ Owned(cmdbox[i + l].fd, d)
        /\ cmdbox[i + l].command = client[d].sent
        /\ \A j \in DOMAIN cmdbox : Request(j, d) => i + l = j
        /\ \A j \in DOMAIN inbox : ~Response(j, d)
    BY <2>1 DEF Correct, RequestsBy
  <2>3. ASSUME NEW j \in DOMAIN cmdbox', Request(j, d)'
        PROVE  i = j
    <3>1. i + l = j + l
      BY <1>3, <1>5, <2>2, <2>3
    <3>2. i \in Int /\ j \in Int
      BY <1>4
    <3>3. CASE l = 0
      BY <3>1, <3>2, <3>3
    <3>4. CASE l = 1
      BY <3>1, <3>2, <3>4
    <3>. QED  BY <3>3, <3>4
  <2>4. \A j \in DOMAIN inbox' : ~Response(j, d)'
    BY <1>2, <1>5, <2>2
  <2>5. PICK f \in Fds : f = cmdbox[i + l].fd /\ f = cmdbox'[i].fd
    BY <1>4, <2>1 DEF Request
  <2>6. Owned(f, d)
    BY <2>2, <2>5
  <2>7. Owned(f, d)'
    BY <2>2, <2>6 DEF Keeps
  <2>8. Owned(cmdbox[i].fd, d)'
    BY <2>5, <2>7
  <2>. QED  BY <2>1, <2>2, <2>3, <2>4, <2>8 DEF Keeps
<1>7. ResponsesBy(d)'
  <2>. SUFFICES ASSUME NEW i \in DOMAIN inbox', Response(i, d)'
                PROVE  /\ Asked(d)' /\ Owned(inbox[i].fd, d)'
                       /\ inbox'[i].close => ~Slot(d)'
                       /\ inbox'[i].text = "status" =>
                             /\ inbox'[i].close
                             /\ Hears(inbox[i].fd, d)' =>
                                   \E j \in DOMAIN inbox' : j < i /\ Response(j, d)' /\ inbox'[j].fd = inbox'[i].fd
                       /\ inbox'[i].text # "status" => inbox'[i].text = Dispatch(client'[d].sent)
    BY DEF ResponsesBy
  <2>1. i + k \in DOMAIN inbox /\ inbox'[i] = inbox[i + k] /\ Response(i + k, d)
    BY <1>2, <1>5
  <2>2. /\ Asked(d) /\ Owned(inbox[i + k].fd, d)
        /\ inbox[i + k].close => ~Slot(d)
        /\ inbox[i + k].text = "status" =>
              /\ inbox[i + k].close
              /\ Hears(inbox[i + k].fd, d) =>
                    \E j \in DOMAIN inbox : j < i + k /\ Response(j, d) /\ inbox[j].fd = inbox[i + k].fd
        /\ inbox[i + k].text # "status" => inbox[i + k].text = Dispatch(client[d].sent)
    BY <2>1 DEF Correct, ResponsesBy
  <2>3. ASSUME NEW j \in DOMAIN inbox, j < i + k, Response(j, d), inbox[j].fd = inbox[i + k].fd
        PROVE  j - k \in DOMAIN inbox' /\ j - k < i /\ Response(j - k, d)' /\ inbox'[j - k].fd = inbox'[i].fd
    BY <1>2, <1>4, <1>5, <2>1, <2>3
  <2>4. PICK f \in Fds : f = inbox[i + k].fd /\ f = inbox'[i].fd
    BY <1>4, <2>1
  <2>5. Owned(f, d)' /\ (Hears(f, d)' => Hears(f, d)) /\ Asked(d)' /\ client'[d].sent = client[d].sent
    BY <2>2, <2>4 DEF Keeps
  <2>6. Owned(inbox[i].fd, d)' /\ (Hears(inbox[i].fd, d)' => Hears(f, d))
    BY <2>4, <2>5 DEF Owned, Hears
  <2>. QED  BY <2>1, <2>2, <2>3, <2>4, <2>5, <2>6
<1>8. OrderBy(d)'
  <2>. SUFFICES ASSUME NEW i \in DOMAIN inbox', NEW j \in DOMAIN inbox', Response(i, d)', Response(j, d)', i < j
                PROVE  ~inbox'[i].close /\ inbox'[j].text = "status"
    BY DEF OrderBy
  <2>1. /\ i + k \in DOMAIN inbox /\ inbox'[i] = inbox[i + k] /\ Response(i + k, d)
        /\ j + k \in DOMAIN inbox /\ inbox'[j] = inbox[j + k] /\ Response(j + k, d)
    BY <1>2, <1>5
  <2>2. i + k < j + k
    BY <1>4
  <2>. QED  BY <2>1, <2>2 DEF Correct, OrderBy
<1>9. PendingBy(d)'
  <2>. SUFFICES ASSUME Slot(d)'
                PROVE  /\ Asked(d)' /\ Owned(cmd.conn, d)'
                       /\ Hears(cmd.conn, d)' => \E i \in DOMAIN inbox' : Response(i, d)' /\ inbox'[i].fd = cmd'.conn
    BY DEF PendingBy
  <2>1. /\ Asked(d) /\ Owned(cmd.conn, d)
        /\ Hears(cmd.conn, d) => \E i \in DOMAIN inbox : Response(i, d) /\ inbox[i].fd = cmd.conn
    BY DEF Correct, PendingBy
  <2>2. PICK f \in Fds : f = cmd.conn /\ f = cmd'.conn
    BY <1>4 DEF Slot
  <2>3. Owned(f, d)' /\ (Hears(f, d)' => Hears(f, d)) /\ Asked(d)'
    BY <2>1, <2>2 DEF Keeps
  <2>4. Owned(cmd.conn, d)' /\ (Hears(cmd.conn, d)' => Hears(f, d))
    BY <2>2, <2>3 DEF Owned, Hears
  <2>. QED  BY <1>2, <1>5, <2>1, <2>2, <2>3, <2>4
<1>. QED  BY <1>6, <1>7, <1>8, <1>9 DEF Correct

\* Before the daemon has read d's command nothing is under way for it.
LEMMA Quiet ==
    ASSUME NEW d \in Clients, Correct(d), ~Asked(d)
    PROVE  /\ ~Slot(d)
           /\ \A i \in DOMAIN inbox : ~Response(i, d)
           /\ \A i \in DOMAIN cmdbox : ~Request(i, d)
  BY DEF Correct, RequestsBy, ResponsesBy, PendingBy

LEMMA QuietIsCorrect ==
    ASSUME NEW d \in Clients, ~Slot(d)',
           \A i \in DOMAIN inbox' : ~Response(i, d)',
           \A i \in DOMAIN cmdbox' : ~Request(i, d)'
    PROVE  Correct(d)'
  BY DEF Correct, RequestsBy, ResponsesBy, OrderBy, PendingBy

-----------------------------------------------------------------------------
(* The steps of the clients and of the event loop                          *)

\* A client that sends, goes or is accepted changes nothing for the others, and what is
\* under way for it can no longer be its first answer.
LEMMA StepOfClient ==
    ASSUME Types, Types', Whole, NEW c \in Clients,
           UNCHANGED <<cmdbox, cmd>>, \A d \in Clients : SameResponses(d),
           \A f \in Fds : conn[f] # None => conn'[f] = conn[f],
           \A f \in Fds : conn'[f] # None /\ conn'[f] # c => conn'[f] = conn[f],
           \A d \in Clients \ {c} : SameClient(d),
           client'[c].got = client[c].got, GaveUp(c) => GaveUp(c)',
           \/ /\ client[c].pc \in {"new", "queued", "open"}
              /\ client'[c].unread = client[c].unread \/ client'[c].pc = "waiting"
           \/ client'[c].pc = "gone" /\ client'[c].sent = client[c].sent /\ client'[c].unread = client[c].unread
    PROVE  Whole'
<1>1. StrangersGaveUp'
  <2>1. \A d \in Clients : /\ GaveUp(d) => GaveUp(d)'
                           /\ client'[d].got = client[d].got
                           /\ client'[d].sent = client[d].sent \/ Unanswered(d)
    <3>1. client'[c].sent = client[c].sent \/ Unanswered(c)
      BY DEF Whole, AnswersInv, NotYet, Asked
    <3>. QED  BY <3>1 DEF SameClient, GaveUp
  <2>. QED  BY <2>1, LawKept DEF Whole
<1>2. ASSUME NEW d \in Clients
      PROVE  Grows(d)
  <2>1. CASE d = c
    BY <2>1 DEF Grows, Strangers
  <2>2. CASE d # c
    BY <2>2, SameGrows
  <2>. QED  BY <2>1, <2>2
<1>3. ASSUME NEW d \in Clients
      PROVE  Keeps(d)
  <2>. SUFFICES ASSUME Asked(d)
                PROVE  /\ Asked(d)' /\ client'[d].sent = client[d].sent
                       /\ \A f \in Fds : (Owned(f, d) => Owned(f, d)') /\ (Hears(f, d)' => Hears(f, d))
    BY DEF Keeps
  <2>1. ASSUME NEW f \in Fds, Owned(f, d)
        PROVE  Owned(f, d)'
    <3>1. CASE conn[f] = d
      <4>1. conn'[f] = d
        BY <3>1, Owners
      <4>. QED  BY <4>1 DEF Owned
    <3>2. CASE Blamed(d)
      <4>1. Blamed(d)'
        BY <1>2, <3>2, GrowsBlamed
      <4>. QED  BY <4>1 DEF Owned
    <3>. QED  BY <2>1, <3>1, <3>2 DEF Owned
  <2>2. CASE d = c
    <3>1. client'[c].pc = "gone" /\ client'[c].sent = client[c].sent /\ client'[c].unread = client[c].unread
      BY <2>2 DEF Asked
    <3>2. \A f \in Fds : ~Hears(f, d)'
      BY <2>2, <3>1 DEF Hears
    <3>. QED  BY <2>1, <2>2, <3>1, <3>2 DEF Asked
  <2>3. CASE d # c
    <3>1. SameClient(d)
      BY <2>3
    <3>2. ASSUME NEW f \in Fds, Hears(f, d)'
          PROVE  Hears(f, d)
      <4>1. conn'[f] = d /\ client'[d].pc \notin {"left", "gone"} /\ client'[d].got = <<>>
        BY <3>2 DEF Hears
      <4>2. conn[f] = d
        BY <2>3, <4>1, Owners
      <4>. QED  BY <3>1, <4>1, <4>2 DEF Hears, SameClient
    <3>. QED  BY <2>1, <3>1, <3>2 DEF Asked, SameClient
  <2>. QED  BY <2>2, <2>3
<1>4. ASSUME NEW d \in Clients
      PROVE  Correct(d)' /\ NotYet(d)'
  <2>1. Correct(d) /\ NotYet(d)
    BY DEF Whole, AnswersInv
  <2>2. Slot(d)' => Slot(d) /\ cmd'.conn = cmd.conn
    BY DEF Slot
  <2>3. Correct(d)'
    BY <1>3, <2>1, <2>2, CmdboxUnchanged, Frame
  <2>4. NotYet(d)'
    <3>1. client'[d].got = client[d].got
      BY DEF SameClient
    <3>2. Asked(d)' \/ Unanswered(d)'
      BY <1>3, <2>1, <3>1 DEF NotYet, Keeps, Unanswered
    <3>3. client'[d].unread => client'[d].pc \in {"waiting", "gone", "closed"}
      BY <2>1 DEF NotYet, SameClient
    <3>. QED  BY <3>2, <3>3 DEF NotYet
  <2>. QED  BY <2>3, <2>4
<1>. QED  BY <1>1, <1>4 DEF Whole, AnswersInv

LEMMA WholeClients ==
    ASSUME Types, Types', Whole, NEW c \in Clients,
           \/ Connect(c) \/ Leave(c) \/ HangUp(c)
           \/ \E command \in Sent : SendCommand(c, command)
    PROVE  Whole'
<1>1. UNCHANGED <<conn, inbox, cmdbox, cmd>>
  BY DEF Connect, Leave, HangUp, SendCommand, cmdVars
<1>2. \A d \in Clients : SameResponses(d)
  BY <1>1, InboxUnchanged
<1>3. CASE Connect(c) \/ Leave(c) \/ HangUp(c)
  <2>1. PICK p \in ClientPcs : /\ client' = [client EXCEPT ![c].pc = p] /\ client[c].pc # "gone"
                               /\ client[c].pc \in {"new", "open"} \/ p = "gone"
    BY <1>3 DEF Connect, Leave, HangUp, ClientPcs
  <2>2. \A d \in Clients :
          /\ client'[d].pc = IF d = c THEN p ELSE client[d].pc
          /\ client'[d].sent = client[d].sent
          /\ client'[d].unread = client[d].unread
          /\ client'[d].got = client[d].got
    BY <2>1, ClientMoves
  <2>3. \A d \in Clients \ {c} : SameClient(d)
    BY <2>2 DEF SameClient
  <2>. QED  BY <1>1, <1>2, <2>1, <2>2, <2>3, StepOfClient DEF GaveUp
<1>4. ASSUME NEW command \in Sent, SendCommand(c, command)
      PROVE  Whole'
  <2>1. /\ client'[c].got = client[c].got /\ client[c].pc = "open" /\ client'[c].pc = "waiting"
        /\ \A d \in Clients \ {c} : SameClient(d)
    BY <1>4, ClientSends DEF SameClient, SendCommand
  <2>. QED  BY <1>1, <1>2, <2>1, StepOfClient DEF GaveUp
<1>. QED  BY <1>3, <1>4

LEMMA WholeAccept ==
    ASSUME Types, Types', Whole, NEW c \in Clients, Accept(c)
    PROVE  Whole'
<1>. DEFINE g == Min(Free)
<1>1. g \in Fds /\ conn[g] = None
  BY FreeHasMin DEF Accept
<1>2. /\ client[c].pc = "queued"
      /\ client' = [client EXCEPT ![c].pc = "open"]
      /\ conn' = [conn EXCEPT ![g] = c]
      /\ inbox' = Append(inbox, [type |-> "new", fd |-> g])
      /\ UNCHANGED <<cmdbox, cmd>>
  BY DEF Accept, cmdVars
<1>. HIDE DEF g
<1>3. PICK p \in ClientPcs : client' = [client EXCEPT ![c].pc = p]
  BY <1>2 DEF ClientPcs
<1>4. \A d \in Clients :
        /\ d # c => client'[d].pc = client[d].pc
        /\ client'[d].sent = client[d].sent
        /\ client'[d].unread = client[d].unread
        /\ client'[d].got = client[d].got
  BY <1>3, ClientMoves
<1>5. \A d \in Clients \ {c} : SameClient(d)
  BY <1>4 DEF SameClient
<1>6. \A d \in Clients : SameResponses(d)
  <2>1. [type |-> "new", fd |-> g] \in InboxMessages /\ [type |-> "new", fd |-> g].type # "response"
    BY <1>1, AnInboxMessage
  <2>. QED  BY <1>2, <2>1, InboxAppended
<1>7. /\ \A f \in Fds : conn[f] # None => conn'[f] = conn[f]
      /\ \A f \in Fds : conn'[f] # None /\ conn'[f] # c => conn'[f] = conn[f]
  BY <1>1, <1>2 DEF Types
<1>. QED  BY <1>2, <1>4, <1>5, <1>6, <1>7, StepOfClient DEF GaveUp

\* A step that changes no client, no connection and not the slot, and no message about
\* a command.
LEMMA WholeOthers ==
    ASSUME Types, Types', Whole, UNCHANGED <<client, conn>>,
           \A d \in Clients : /\ Slot(d)' => Slot(d) /\ cmd'.conn = cmd.conn
                              /\ SameResponses(d) /\ SameRequests(d)
    PROVE  Whole'
<1>1. StrangersGaveUp'
  BY LawKept DEF Whole, GaveUp
<1>4. \A d \in Clients : NotYet(d)'
  BY DEF Whole, AnswersInv, NotYet, Asked, Unanswered
<1>2. \A d \in Clients : Keeps(d)
  BY DEF Keeps, Asked, Owned, Hears, Blamed, GaveUp, Strangers
<1>3. \A d \in Clients : Correct(d)'
  BY <1>2, Frame DEF Whole, AnswersInv
<1>. QED  BY <1>1, <1>3, <1>4 DEF Whole, AnswersInv

LEMMA WholeLoop ==
    ASSUME Types, Types', Whole,
           \/ LoopStep \/ EraseConnection \/ HandleNewConnection \/ HandleNoData \/ PublishPmu
           \/ \E f \in Fds : ReportReadable(f)
           \/ UNCHANGED vars
    PROVE  Whole'
<1>1. UNCHANGED <<client, conn, cmd>>
  BY DEF LoopStep, DrainPendingOp, LoopTurn, EraseConnection, HandleNewConnection, HandleNoData, PublishPmu,
         ReportReadable, vars, sockVars, cmdVars
<1>2. ASSUME NEW d \in Clients
      PROVE  SameRequests(d)
  <2>1. CASE PublishPmu
    <3>1. [type |-> "update"].type # "request"
      OBVIOUS
    <3>. QED  BY <2>1, <3>1, ACommand, CmdboxAppended DEF PublishPmu
  <2>2. CASE ~PublishPmu
    <3>1. cmdbox' = cmdbox
      BY <2>2 DEF LoopStep, DrainPendingOp, LoopTurn, EraseConnection, HandleNewConnection, HandleNoData,
                  ReportReadable, vars, cmdVars
    <3>. QED  BY <3>1, CmdboxUnchanged
  <2>. QED  BY <2>1, <2>2
<1>3. ASSUME NEW d \in Clients
      PROVE  SameResponses(d)
  <2>1. CASE HandleNewConnection \/ HandleNoData
    <3>1. inbox # <<>> /\ inbox' = Tail(inbox) /\ Head(inbox).type # "response"
      BY <2>1 DEF HandleNewConnection, HandleNoData, Takes
    <3>. QED  BY <3>1, InboxTaken
  <2>2. ASSUME NEW f \in Fds, ReportReadable(f)
        PROVE  SameResponses(d)
    <3>1. [type |-> "data", fd |-> f].type # "response"
      OBVIOUS
    <3>. QED  BY <2>2, <3>1, AnInboxMessage, InboxAppended DEF ReportReadable
  <2>3. CASE LoopStep \/ EraseConnection \/ PublishPmu \/ UNCHANGED vars
    <3>1. inbox' = inbox
      BY <2>3 DEF LoopStep, DrainPendingOp, LoopTurn, EraseConnection, PublishPmu, vars
    <3>. QED  BY <3>1, InboxUnchanged
  <2>. QED  BY <2>1, <2>2, <2>3
<1>. QED  BY <1>1, <1>2, <1>3, WholeOthers DEF Slot

-----------------------------------------------------------------------------
(* The steps of IpcServerActor                                             *)

LEMMA WholeCommand ==
    ASSUME Types, Types', Whole, HandleCommand
    PROVE  Whole'
<1>1. PICK g \in Fds, c \in Clients, x \in CmdMessages :
        /\ inbox # <<>> /\ inbox' = Tail(inbox) /\ Head(inbox).type = "data"
        /\ conn[g] = c /\ client[c].unread
        /\ client' = [client EXCEPT ![c].unread = FALSE]
        /\ cmdbox' = Append(cmdbox, x)
        /\ x.type = "request" /\ x.by = c /\ x.fd = g /\ x.command = client[c].sent
        /\ UNCHANGED <<conn, cmd>>
  <2>. DEFINE g == Head(inbox).fd
              c == conn[g]
              x == [type |-> "request", command |-> client[c].sent, fd |-> g, by |-> c]
  <2>1. /\ inbox # <<>> /\ inbox' = Tail(inbox) /\ Head(inbox).type = "data" /\ c # None /\ client[c].unread
        /\ client' = [client EXCEPT ![c].unread = FALSE]
        /\ cmdbox' = Append(cmdbox, x)
        /\ UNCHANGED <<conn, cmd>>
    BY DEF HandleCommand, Takes
  <2>2. g \in Fds /\ c \in Clients
    BY <2>1, FirstMessage, Owners
  <2>3. x \in CmdMessages
    <3>1. client[c] \in ClientRecords
      BY <2>2 DEF Types
    <3>. QED  BY <2>2, <3>1, ACommand DEF ClientRecords
  <2>. QED  BY <2>1, <2>2, <2>3
<1>5. \A d \in Clients :
        /\ client'[d].pc = client[d].pc
        /\ client'[d].sent = client[d].sent
        /\ client'[d].unread = IF d = c THEN FALSE ELSE client[d].unread
        /\ client'[d].got = client[d].got
  BY <1>1, CommandRead
<1>6. StrangersGaveUp'
  BY <1>5, LawKept DEF Whole, GaveUp
<1>7. ASSUME NEW d \in Clients
      PROVE  Keeps(d) /\ SameResponses(d) /\ (Slot(d)' => Slot(d) /\ cmd'.conn = cmd.conn)
  <2>1. Keeps(d)
    <3>1. /\ client'[d].pc = client[d].pc /\ client'[d].sent = client[d].sent /\ client'[d].got = client[d].got
          /\ ~client[d].unread => ~client'[d].unread
          /\ conn' = conn
      BY <1>1, <1>5
    <3>2. GaveUp(d)' = GaveUp(d) /\ Strangers(d)' = Strangers(d)
      BY <3>1 DEF GaveUp, Strangers
    <3>. QED  BY <3>1, <3>2 DEF Keeps, Asked, Owned, Hears, Blamed
  <2>2. SameResponses(d)
    BY <1>1, InboxTaken
  <2>. QED  BY <1>1, <2>1, <2>2 DEF Slot
<1>8. ASSUME NEW d \in Clients, d # c
      PROVE  Correct(d)' /\ NotYet(d)'
  <2>1. SameRequests(d)
    BY <1>1, <1>8, CmdboxAppended
  <2>2. Correct(d)'
    BY <1>7, <2>1, Frame DEF Whole, AnswersInv
  <2>3. /\ client'[d].pc = client[d].pc /\ client'[d].got = client[d].got
        /\ client'[d].unread = client[d].unread
    BY <1>5, <1>8
  <2>4. NotYet(d)
    BY DEF Whole, AnswersInv
  <2>. QED  BY <2>2, <2>3, <2>4 DEF NotYet, Asked, Unanswered
<1>9. /\ ~Slot(c)
      /\ \A i \in DOMAIN inbox : ~Response(i, c)
      /\ \A i \in DOMAIN cmdbox : ~Request(i, c)
  <2>1. ~Asked(c) /\ Correct(c)
    BY <1>1 DEF Asked, Whole, AnswersInv
  <2>. QED  BY <2>1, Quiet
<1>11. Asked(c)' /\ NotYet(c)'
  <2>1. client[c].pc \in {"waiting", "gone", "closed"}
    BY <1>1 DEF Whole, AnswersInv, NotYet
  <2>. QED  BY <1>5, <2>1 DEF Asked, NotYet
<1>12. Correct(c)'
  <2>1. /\ Len(cmdbox) \in Nat /\ DOMAIN cmdbox = 1 .. Len(cmdbox)
        /\ DOMAIN cmdbox' = 1 .. Len(cmdbox) + 1
        /\ cmdbox'[Len(cmdbox) + 1] = x
        /\ \A i \in 1 .. Len(cmdbox) : cmdbox'[i] = cmdbox[i]
    BY <1>1, PutLast DEF Types
  <2>2. \A i \in DOMAIN inbox' : ~Response(i, c)'
    <3>1. SameResponses(c)
      BY <1>7
    <3>. QED  BY <1>9, <3>1 DEF SameResponses, Response
  <2>3. ~Slot(c)'
    BY <1>1, <1>9 DEF Slot
  <2>4. ASSUME NEW i \in DOMAIN cmdbox', Request(i, c)'
        PROVE  i = Len(cmdbox) + 1 /\ cmdbox'[i] = x
    <3>1. ~(i \in 1 .. Len(cmdbox))
      BY <1>9, <2>1, <2>4 DEF Request
    <3>. QED  BY <2>1, <3>1
  <2>5. RequestsBy(c)'
    <3>. SUFFICES ASSUME NEW i \in DOMAIN cmdbox', Request(i, c)'
                  PROVE  /\ Asked(c)' /\ ~Slot(c)' /\ Owned(cmdbox[i].fd, c)'
                         /\ cmdbox'[i].command = client'[c].sent
                         /\ \A j \in DOMAIN cmdbox' : Request(j, c)' => i = j
                         /\ \A j \in DOMAIN inbox' : ~Response(j, c)'
      BY DEF RequestsBy
    <3>1. cmdbox'[i].command = client'[c].sent
      BY <1>1, <1>5, <2>4
    <3>2. Owned(cmdbox[i].fd, c)'
      <4>1. cmdbox'[i].fd = g /\ conn'[g] = c
        BY <1>1, <2>4
      <4>. QED  BY <4>1 DEF Owned
    <3>3. \A j \in DOMAIN cmdbox' : Request(j, c)' => i = j
      BY <2>4
    <3>. QED  BY <1>11, <2>2, <2>3, <3>1, <3>2, <3>3
  <2>. QED  BY <2>2, <2>3, <2>5 DEF Correct, ResponsesBy, OrderBy, PendingBy
<1>. QED  BY <1>6, <1>8, <1>11, <1>12 DEF Whole, AnswersInv

\* The daemon closes its end; only a client that has left, or just got another's answer,
\* may still have something under way.
LEMMA WholeEndOfFile ==
    ASSUME Types, Types', Whole, HandleEndOfFile
    PROVE  Whole'
<1>1. PICK g \in Fds, c \in Clients :
        /\ inbox # <<>> /\ inbox' = Tail(inbox) /\ Head(inbox).type = "data"
        /\ conn[g] = c /\ client[c].pc \in {"left", "gone"}
        /\ client' = EndSeen(client, g) /\ conn' = [conn EXCEPT ![g] = None]
        /\ UNCHANGED <<cmdbox, cmd>>
  <2>1. /\ inbox # <<>> /\ inbox' = Tail(inbox) /\ Head(inbox).type = "data"
        /\ conn[Head(inbox).fd] # None /\ client[conn[Head(inbox).fd]].pc \in {"left", "gone"}
        /\ client' = EndSeen(client, Head(inbox).fd) /\ conn' = [conn EXCEPT ![Head(inbox).fd] = None]
        /\ UNCHANGED <<cmdbox, cmd>>
    BY DEF HandleEndOfFile, Takes, Closed, cmdVars
  <2>2. Head(inbox).fd \in Fds /\ conn[Head(inbox).fd] \in Clients
    BY <2>1, FirstMessage, Owners
  <2>. QED  BY <2>1, <2>2
<1>2. \A d \in Clients : SameClient(d)
  <2>1. \A d \in Clients :
          /\ EndSeen(client, g)[d].pc = IF conn[g] = d /\ client[d].pc \notin {"left", "gone"} THEN "closed" ELSE client[d].pc
          /\ EndSeen(client, g)[d].sent = client[d].sent
          /\ EndSeen(client, g)[d].unread = client[d].unread
          /\ EndSeen(client, g)[d].got = client[d].got
    BY EndSeenIs DEF Types
  <2>. QED  BY <1>1, <2>1 DEF SameClient
<1>3. StrangersGaveUp'
  BY <1>2, LawKept DEF Whole, GaveUp, SameClient
<1>4. ASSUME NEW d \in Clients
      PROVE  Keeps(d)
  <2>. SUFFICES ASSUME Asked(d)
                PROVE  /\ Asked(d)' /\ client'[d].sent = client[d].sent
                       /\ \A f \in Fds : (Owned(f, d) => Owned(f, d)') /\ (Hears(f, d)' => Hears(f, d))
    BY DEF Keeps
  <2>1. SameClient(d) /\ Grows(d)
    BY <1>2, SameGrows
  <2>2. ASSUME NEW f \in Fds, Owned(f, d)
        PROVE  Owned(f, d)'
    <3>1. CASE Blamed(d)
      BY <2>1, <3>1, GrowsBlamed DEF Owned
    <3>2. CASE conn[f] = d /\ d = c
      <4>1. GaveUp(d)
        BY <1>1, <3>2 DEF Asked, GaveUp
      <4>. QED  BY <2>1, <4>1, GrowsBlamed DEF Owned, Blamed
    <3>3. CASE conn[f] = d /\ d # c
      <4>1. conn'[f] = d
        BY <1>1, <3>3 DEF Types
      <4>. QED  BY <4>1 DEF Owned
    <3>. QED  BY <2>2, <3>1, <3>2, <3>3 DEF Owned
  <2>3. ASSUME NEW f \in Fds, Hears(f, d)'
        PROVE  Hears(f, d)
    <3>1. conn'[f] = d /\ d # None
      BY <2>3, Owners DEF Hears
    <3>2. conn[f] = d
      BY <1>1, <3>1 DEF Types
    <3>. QED  BY <2>1, <2>3, <3>2 DEF Hears, SameClient
  <2>. QED  BY <2>1, <2>2, <2>3 DEF Asked, SameClient
<1>5. ASSUME NEW d \in Clients
      PROVE  Correct(d)' /\ NotYet(d)'
  <2>1. SameResponses(d) /\ SameRequests(d) /\ (Slot(d)' => Slot(d) /\ cmd'.conn = cmd.conn)
    BY <1>1, InboxTaken, CmdboxUnchanged DEF Slot
  <2>2. Correct(d)'
    BY <1>4, <2>1, Frame DEF Whole, AnswersInv
  <2>. QED  BY <1>2, <2>2 DEF Whole, AnswersInv, NotYet, Asked, Unanswered, SameClient
<1>. QED  BY <1>3, <1>5 DEF Whole, AnswersInv

\* The answer that is first in the mailbox, and what else there is of the same client.
LEMMA WholeResponse ==
    ASSUME Types, Types', Whole, HandleCmdResponse
    PROVE  Whole'
<1>1. PICK m \in InboxMessages, g \in Fds, o \in Clients, a \in Answers :
        /\ inbox # <<>> /\ m = Head(inbox) /\ g = m.fd /\ o = m.by /\ m.type = "response"
        /\ a = [text |-> m.text, by |-> m.by] /\ m.text \in Texts
        /\ inbox' = Tail(inbox)
        /\ UNCHANGED <<cmdbox, cmd>>
        /\ \/ m.close /\ client' = EndSeen(Received(g, m), g) /\ conn' = [conn EXCEPT ![g] = None]
           \/ ~m.close /\ client' = Received(g, m) /\ conn' = conn
  <2>1. inbox # <<>> /\ Head(inbox).type = "response"
    BY DEF HandleCmdResponse, Takes
  <2>2. PICK m \in InboxMessages : m = Head(inbox)
    BY <2>1, TakeFirst DEF Types
  <2>3. m.fd \in Fds /\ m.by \in Clients /\ m.text \in Texts
    BY <2>1, <2>2, FirstMessage
  <2>4. [text |-> m.text, by |-> m.by] \in Answers
    BY <2>3 DEF Answers
  <2>5. /\ inbox' = Tail(inbox)
        /\ UNCHANGED <<cmdbox, cmd>>
        /\ \/ m.close /\ client' = EndSeen(Received(m.fd, m), m.fd) /\ conn' = [conn EXCEPT ![m.fd] = None]
           \/ ~m.close /\ client' = Received(m.fd, m) /\ conn' = conn
    BY <2>2 DEF HandleCmdResponse, Takes, Closed, cmdVars
  <2>. QED  BY <2>1, <2>2, <2>3, <2>4, <2>5
<1>. DEFINE Reaches(d) == conn[g] = d /\ client[d].pc \notin {"left", "gone"}
<1>2. /\ a.by = o /\ a.text = m.text
      /\ Len(inbox) \in Nat /\ Len(inbox) > 0
      /\ DOMAIN inbox = 1 .. Len(inbox) /\ DOMAIN inbox' = 1 .. Len(inbox) - 1
      /\ \A i \in 1 .. Len(inbox) - 1 : inbox'[i] = inbox[i + 1]
      /\ m = inbox[1]
  BY <1>1, TakeFirst DEF Types
<1>3. ASSUME NEW d \in Clients
      PROVE  /\ client'[d].sent = client[d].sent /\ client'[d].unread = client[d].unread
             /\ client'[d].pc = IF m.close /\ Reaches(d) THEN "closed" ELSE client[d].pc
             /\ client'[d].got = IF Reaches(d) THEN Append(client[d].got, a) ELSE client[d].got
  <2>. DEFINE r == Received(g, m)
  <2>1. /\ r \in [Clients -> ClientRecords]
        /\ r[d].pc = client[d].pc /\ r[d].sent = client[d].sent /\ r[d].unread = client[d].unread
        /\ r[d].got = IF Reaches(d) THEN Append(client[d].got, a) ELSE client[d].got
    BY <1>1, ReceivedIs
  <2>. HIDE DEF r
  <2>2. CASE ~m.close
    <3>1. client' = r
      BY <1>1, <2>2 DEF r
    <3>. QED  BY <2>1, <2>2, <3>1
  <2>3. CASE m.close
    <3>1. client' = EndSeen(r, g)
      BY <1>1, <2>3 DEF r
    <3>2. /\ client'[d].pc = IF conn[g] = d /\ r[d].pc \notin {"left", "gone"} THEN "closed" ELSE r[d].pc
          /\ client'[d].sent = r[d].sent /\ client'[d].unread = r[d].unread /\ client'[d].got = r[d].got
      BY <2>1, <3>1, EndSeenIs
    <3>. QED  BY <2>1, <2>3, <3>2
  <2>. QED  BY <2>2, <2>3
<1>4. ASSUME NEW d \in Clients
      PROVE  /\ Grows(d)
             /\ Strangers(d)' \subseteq Strangers(d) \cup {o}
             /\ ~Reaches(d) => Strangers(d)' = Strangers(d)
             /\ Reaches(d) => client'[d].got # <<>> /\ (o # d => o \in Strangers(d)')
  <2>1. client[d].got \in Seq(Answers)
    BY ClientTypes
  <2>2. GaveUp(d) => GaveUp(d)'
    BY <1>3 DEF GaveUp
  <2>3. CASE ~Reaches(d)
    <3>1. client'[d].got = client[d].got
      BY <1>3, <2>3
    <3>2. Strangers(d)' = Strangers(d)
      BY <3>1 DEF Strangers
    <3>. QED  BY <2>2, <2>3, <3>2 DEF Grows
  <2>4. CASE Reaches(d)
    <3>1. client'[d].got = Append(client[d].got, a)
      BY <1>3, <2>4
    <3>2. PICK n \in Nat :
            /\ DOMAIN client[d].got = 1 .. n /\ DOMAIN client'[d].got = 1 .. n + 1
            /\ client'[d].got[n + 1] = a
            /\ \A i \in 1 .. n : client'[d].got[i] = client[d].got[i]
      <4>1. /\ Len(client[d].got) \in Nat
            /\ DOMAIN client[d].got = 1 .. Len(client[d].got)
            /\ DOMAIN Append(client[d].got, a) = 1 .. Len(client[d].got) + 1
            /\ Append(client[d].got, a)[Len(client[d].got) + 1] = a
            /\ \A i \in 1 .. Len(client[d].got) : Append(client[d].got, a)[i] = client[d].got[i]
        BY <2>1, PutLast
      <4>. QED  BY <3>1, <4>1
    <3>3. Strangers(d) \subseteq Strangers(d)'
      <4>. SUFFICES ASSUME NEW i \in 1 .. n, client[d].got[i].by # d
                    PROVE  client[d].got[i].by \in Strangers(d)'
        BY <3>2 DEF Strangers
      <4>1. i \in DOMAIN client'[d].got /\ client'[d].got[i].by = client[d].got[i].by
        BY <3>2
      <4>. QED  BY <4>1 DEF Strangers
    <3>4. Strangers(d)' \subseteq Strangers(d) \cup {o}
      <4>. SUFFICES ASSUME NEW i \in 1 .. n + 1, client'[d].got[i].by # d
                    PROVE  client'[d].got[i].by \in Strangers(d) \cup {o}
        BY <3>2 DEF Strangers
      <4>1. CASE i = n + 1
        BY <1>2, <3>2, <4>1
      <4>2. CASE i \in 1 .. n
        <5>1. client'[d].got[i] = client[d].got[i]
          BY <3>2, <4>2
        <5>. QED  BY <3>2, <4>2, <5>1 DEF Strangers
      <4>. QED  BY <4>1, <4>2
    <3>5. o # d => o \in Strangers(d)'
      <4>1. n + 1 \in DOMAIN client'[d].got /\ client'[d].got[n + 1].by = o
        BY <1>2, <3>2
      <4>. QED  BY <4>1 DEF Strangers
    <3>6. client'[d].got # <<>>
      BY <2>1, <3>1, NotEmpty
    <3>. QED  BY <2>2, <2>4, <3>3, <3>4, <3>5, <3>6 DEF Grows
  <2>. QED  BY <2>3, <2>4
<1>. HIDE DEF Reaches
<1>5. 1 \in DOMAIN inbox /\ Response(1, o) /\ \A i \in DOMAIN inbox : i \in Nat /\ ~(i < 1)
  BY <1>1, <1>2 DEF Response
<1>6. /\ Asked(o) /\ Owned(g, o) /\ (m.close => ~Slot(o))
      /\ m.text = "status" => m.close /\ ~Hears(g, o)
      /\ m.text # "status" => m.text = Dispatch(client[o].sent)
      /\ \A k \in DOMAIN cmdbox : ~Request(k, o)
      /\ Correct(o)
  <2>1. Correct(o)
    BY DEF Whole, AnswersInv
  <2>2. /\ Asked(o) /\ Owned(inbox[1].fd, o) /\ (inbox[1].close => ~Slot(o))
        /\ inbox[1].text = "status" =>
              /\ inbox[1].close
              /\ Hears(inbox[1].fd, o) =>
                    \E j \in DOMAIN inbox : j < 1 /\ Response(j, o) /\ inbox[j].fd = inbox[1].fd
        /\ inbox[1].text # "status" => inbox[1].text = Dispatch(client[o].sent)
    BY <1>5, <2>1 DEF Correct, ResponsesBy
  <2>3. \A k \in DOMAIN cmdbox : ~Request(k, o)
    BY <1>5, <2>1 DEF Correct, RequestsBy
  <2>. QED  BY <1>1, <1>2, <1>5, <2>1, <2>2, <2>3 DEF Owned, Hears
<1>7. Blamed(o) \/ conn[g] = o
  BY <1>6 DEF Owned
<1>8. StrangersGaveUp'
  <2>1. ASSUME NEW c \in Clients, NEW d \in Strangers(c)'
        PROVE  GaveUp(d)' \/ (Strangers(d) # {})'
    <3>1. d \in Clients
      <4>1. PICK i \in DOMAIN client'[c].got : d = client'[c].got[i].by
        BY DEF Strangers
      <4>2. client'[c].got \in Seq(Answers)
        <5>1. client'[c] \in ClientRecords
          BY DEF Types
        <5>. QED  BY <5>1 DEF ClientRecords
      <4>3. client'[c].got[i] \in Answers
        BY <4>1, <4>2
      <4>. QED  BY <4>1, <4>3 DEF Answers
    <3>2. Blamed(d)
      <4>1. CASE d \in Strangers(c)
        BY <4>1 DEF Whole, StrangersGaveUp, Blamed
      <4>2. CASE d \notin Strangers(c)
        <5>1. d = o /\ Reaches(c)
          BY <1>4, <4>2
        <5>2. c # o
          BY <5>1 DEF Strangers
        <5>. QED  BY <1>7, <5>1, <5>2 DEF Reaches
      <4>. QED  BY <4>1, <4>2
    <3>. QED  BY <1>4, <3>1, <3>2, GrowsBlamed DEF Blamed
  <2>2. ASSUME NEW c \in Clients, Strangers(c)' # {}
        PROVE  \E d \in Clients : GaveUp(d)'
    <3>1. \E d \in Clients : GaveUp(d)
      <4>1. CASE Strangers(c) # {}
        BY <4>1 DEF Whole, StrangersGaveUp
      <4>2. CASE Strangers(c) = {}
        <5>1. Reaches(c) /\ o \in Strangers(c)'
          BY <1>4, <2>2, <4>2
        <5>2. c # o
          BY <5>1 DEF Strangers
        <5>3. Blamed(o)
          BY <1>7, <5>1, <5>2 DEF Reaches
        <5>. QED  BY <5>3 DEF Whole, StrangersGaveUp, Blamed
      <4>. QED  BY <4>1, <4>2
    <3>. QED  BY <1>4, <3>1 DEF Grows
  <2>3. ASSUME NEW c \in Clients, client'[c].got # <<>>, client'[c].got[1].by = c
        PROVE  client'[c].got[1].text = Dispatch(client'[c].sent)
    <3>1. CASE ~Reaches(c)
      <4>1. client'[c].got = client[c].got /\ client'[c].sent = client[c].sent
        BY <1>3, <3>1
      <4>. QED  BY <2>3, <4>1 DEF Whole, StrangersGaveUp
    <3>2. CASE Reaches(c) /\ client[c].got # <<>>
      <4>1. client'[c].got[1] = client[c].got[1] /\ client'[c].sent = client[c].sent
        <5>1. client'[c].got = Append(client[c].got, a)
          BY <1>3, <3>2
        <5>2. client[c].got \in Seq(Answers) /\ 1 \in 1 .. Len(client[c].got)
          BY <3>2, ClientTypes
        <5>. QED  BY <1>3, <5>1, <5>2, PutLast
      <4>. QED  BY <2>3, <3>2, <4>1 DEF Whole, StrangersGaveUp
    <3>3. CASE Reaches(c) /\ client[c].got = <<>>
      <4>1. client'[c].got[1] = a /\ client'[c].sent = client[c].sent
        <5>1. client'[c].got = Append(<<>>, a)
          BY <1>3, <3>3
        <5>. QED  BY <1>3, <5>1
      <4>2. c = o /\ Hears(g, o)
        BY <1>2, <2>3, <3>3, <4>1 DEF Reaches, Hears
      <4>. QED  BY <1>2, <1>6, <4>1, <4>2
    <3>. QED  BY <3>1, <3>2, <3>3
  <2>. QED  BY <2>1, <2>2, <2>3 DEF StrangersGaveUp
<1>9. \A f \in Fds : /\ conn'[f] # None => conn'[f] = conn[f]
                     /\ f # g \/ ~m.close => conn'[f] = conn[f]
  BY <1>1 DEF Types
<1>10. ASSUME NEW d \in Clients, d # o \/ ~m.close
       PROVE  Keeps(d)
  <2>. SUFFICES ASSUME Asked(d)
                PROVE  /\ Asked(d)' /\ client'[d].sent = client[d].sent
                       /\ \A f \in Fds : (Owned(f, d) => Owned(f, d)') /\ (Hears(f, d)' => Hears(f, d))
    BY DEF Keeps
  <2>1. Asked(d)' /\ client'[d].sent = client[d].sent
    BY <1>3 DEF Asked
  <2>2. ASSUME NEW f \in Fds, Owned(f, d)
        PROVE  Owned(f, d)'
    <3>1. CASE Blamed(d)
      BY <1>4, <3>1, GrowsBlamed DEF Owned
    <3>2. CASE conn[f] = d /\ conn'[f] = conn[f]
      BY <3>2 DEF Owned
    <3>3. CASE conn[f] = d /\ conn'[f] # conn[f]
      <4>1. f = g /\ d # o
        BY <1>9, <1>10, <3>3
      <4>2. CASE Reaches(d)
        BY <1>4, <4>1, <4>2 DEF Owned, Blamed
      <4>3. CASE ~Reaches(d)
        <5>1. GaveUp(d)
          BY <3>3, <4>1, <4>3 DEF Reaches, Asked, GaveUp
        <5>. QED  BY <1>4, <5>1, GrowsBlamed DEF Owned, Blamed
      <4>. QED  BY <4>2, <4>3
    <3>. QED  BY <2>2, <3>1, <3>2, <3>3 DEF Owned
  <2>3. ASSUME NEW f \in Fds, Hears(f, d)'
        PROVE  Hears(f, d)
    <3>1. conn'[f] = d /\ client'[d].pc \notin {"left", "gone"} /\ client'[d].got = <<>> /\ d # None
      BY <2>3, Owners DEF Hears
    <3>2. conn[f] = d /\ ~Reaches(d)
      BY <1>4, <1>9, <3>1
    <3>. QED  BY <1>3, <3>1, <3>2 DEF Hears
  <2>. QED  BY <2>1, <2>2, <2>3
<1>11. ASSUME NEW d \in Clients
       PROVE  NotYet(d)'
  <2>1. NotYet(d)
    BY DEF Whole, AnswersInv
  <2>2. Asked(d) => Asked(d)'
    BY <1>3 DEF Asked
  <2>3. CASE Asked(d)
    BY <2>2, <2>3 DEF NotYet, Asked
  <2>4. CASE ~Asked(d)
    <3>1. d # o /\ Unanswered(d)
      BY <1>6, <2>1, <2>4 DEF NotYet
    <3>2. Unanswered(d)'
      <4>2. CASE ~Reaches(d)
        <5>1. client'[d].got = client[d].got
          BY <1>3, <4>2
        <5>. QED  BY <3>1, <5>1 DEF Unanswered
      <4>3. CASE Reaches(d)
        <5>1. client'[d].got = Append(client[d].got, a) /\ client[d].got \in Seq(Answers)
          BY <1>3, <4>3, ClientTypes
        <5>2. /\ Len(client[d].got) \in Nat
              /\ DOMAIN client[d].got = 1 .. Len(client[d].got)
              /\ DOMAIN client'[d].got = 1 .. Len(client[d].got) + 1
              /\ client'[d].got[Len(client[d].got) + 1] = a
              /\ \A i \in 1 .. Len(client[d].got) : client'[d].got[i] = client[d].got[i]
          BY <5>1, PutLast
        <5>. SUFFICES ASSUME NEW i \in 1 .. Len(client[d].got) + 1
                      PROVE  client'[d].got[i].by # d
          BY <5>2 DEF Unanswered
        <5>3. CASE i = Len(client[d].got) + 1
          BY <1>2, <3>1, <5>2, <5>3
        <5>4. CASE i \in 1 .. Len(client[d].got)
          BY <3>1, <5>2, <5>4 DEF Unanswered
        <5>. QED  BY <5>2, <5>3, <5>4
      <4>. QED  BY <4>2, <4>3
    <3>3. client'[d].unread => client'[d].pc \in {"waiting", "gone", "closed"}
      BY <1>3, <2>1 DEF NotYet
    <3>. QED  BY <3>2, <3>3 DEF NotYet
  <2>. QED  BY <2>3, <2>4
<1>12. ASSUME NEW d \in Clients, d # o
       PROVE  Correct(d)'
  <2>1. SameResponses(d)
    BY <1>1, <1>12, InboxTaken
  <2>2. SameRequests(d) /\ (Slot(d)' => Slot(d) /\ cmd'.conn = cmd.conn)
    BY <1>1, CmdboxUnchanged DEF Slot
  <2>. QED  BY <1>10, <1>12, <2>1, <2>2, Frame DEF Whole, AnswersInv
<1>13. Correct(o)'
  <2>1. \A k \in DOMAIN cmdbox' : ~Request(k, o)'
    BY <1>1, <1>6 DEF Request
  <2>2. ASSUME NEW i \in DOMAIN inbox', Response(i, o)'
        PROVE  /\ i + 1 \in DOMAIN inbox /\ 1 < i + 1 /\ inbox'[i] = inbox[i + 1] /\ Response(i + 1, o)
               /\ ~m.close /\ inbox'[i].text = "status"
    <3>1. i + 1 \in DOMAIN inbox /\ 1 < i + 1 /\ inbox'[i] = inbox[i + 1]
      BY <1>2
    <3>2. Response(i + 1, o)
      BY <2>2, <3>1 DEF Response
    <3>. QED  BY <1>2, <1>5, <1>6, <3>1, <3>2 DEF Correct, OrderBy
  <2>3. CASE m.close
    <3>1. ~Slot(o)'
      BY <1>1, <1>6, <2>3 DEF Slot
    <3>. QED  BY <2>1, <2>2, <2>3, <3>1, QuietIsCorrect
  <2>4. CASE ~m.close
    <3>1. Keeps(o) /\ Asked(o) /\ Asked(o)'
      BY <1>6, <1>10, <2>4 DEF Keeps
    <3>2. \A f \in Fds : Hears(f, o)' => f # g
      <4>. SUFFICES ASSUME NEW f \in Fds, Hears(f, o)', f = g PROVE FALSE
        OBVIOUS
      <4>1. Hears(g, o)
        BY <3>1 DEF Keeps
      <4>2. Reaches(o)
        BY <4>1 DEF Hears, Reaches
      <4>. QED  BY <1>4, <4>2 DEF Hears
    <3>3. ResponsesBy(o)'
      <4>. SUFFICES ASSUME NEW i \in DOMAIN inbox', Response(i, o)'
                    PROVE  /\ Asked(o)' /\ Owned(inbox[i].fd, o)'
                           /\ inbox'[i].close => ~Slot(o)'
                           /\ inbox'[i].text = "status" /\ inbox'[i].close
                           /\ Hears(inbox[i].fd, o)' =>
                                 \E j \in DOMAIN inbox' : j < i /\ Response(j, o)' /\ inbox'[j].fd = inbox'[i].fd
        BY DEF ResponsesBy
      <4>1. /\ i + 1 \in DOMAIN inbox /\ inbox'[i] = inbox[i + 1] /\ Response(i + 1, o)
            /\ inbox'[i].text = "status"
        BY <2>2
      <4>2. /\ Owned(inbox[i + 1].fd, o) /\ (inbox[i + 1].close => ~Slot(o)) /\ inbox[i + 1].close
            /\ Hears(inbox[i + 1].fd, o) =>
                  \E j \in DOMAIN inbox : j < i + 1 /\ Response(j, o) /\ inbox[j].fd = inbox[i + 1].fd
        BY <1>6, <4>1 DEF Correct, ResponsesBy
      <4>3. PICK f \in Fds : f = inbox[i + 1].fd /\ f = inbox'[i].fd
        BY <4>1, ItemTypes
      <4>4. Owned(f, o)' /\ (Hears(f, o)' => Hears(f, o) /\ f # g)
        BY <3>1, <3>2, <4>2, <4>3 DEF Keeps
      <4>5. ASSUME Hears(f, o)'
            PROVE  \E j \in DOMAIN inbox' : j < i /\ Response(j, o)' /\ inbox'[j].fd = inbox'[i].fd
        <5>1. PICK j \in DOMAIN inbox : j < i + 1 /\ Response(j, o) /\ inbox[j].fd = f
          BY <4>2, <4>3, <4>4, <4>5
        <5>2. j # 1
          BY <1>1, <1>2, <4>4, <4>5, <5>1
        <5>3. j - 1 \in DOMAIN inbox' /\ j - 1 < i /\ inbox'[j - 1] = inbox[j]
          <6>1. j - 1 \in 1 .. Len(inbox) - 1 /\ (j - 1) + 1 = j
            BY <1>2, <5>2
          <6>2. i \in Nat
            BY <1>2
          <6>. QED  BY <1>2, <5>1, <6>1, <6>2
        <5>4. Response(j - 1, o)'
          BY <5>1, <5>3 DEF Response
        <5>. QED  BY <4>3, <5>1, <5>3, <5>4
      <4>6. Owned(inbox[i].fd, o)' /\ (Hears(inbox[i].fd, o)' => Hears(f, o)')
        BY <4>3, <4>4
      <4>. QED  BY <1>1, <3>1, <4>1, <4>2, <4>5, <4>6 DEF Slot
    <3>4. OrderBy(o)'
      <4>. SUFFICES ASSUME NEW i \in DOMAIN inbox', NEW j \in DOMAIN inbox',
                           Response(i, o)', Response(j, o)', i < j
                    PROVE  ~inbox'[i].close /\ inbox'[j].text = "status"
        BY DEF OrderBy
      <4>1. /\ i + 1 \in DOMAIN inbox /\ inbox'[i] = inbox[i + 1] /\ Response(i + 1, o)
            /\ j + 1 \in DOMAIN inbox /\ inbox'[j] = inbox[j + 1] /\ Response(j + 1, o)
        BY <2>2
      <4>2. i + 1 < j + 1
        BY <1>2
      <4>. QED  BY <1>6, <4>1, <4>2 DEF Correct, OrderBy
    <3>5. PendingBy(o)'
      <4>. SUFFICES ASSUME Slot(o)'
                    PROVE  /\ Asked(o)' /\ Owned(cmd.conn, o)'
                           /\ Hears(cmd.conn, o)' => \E i \in DOMAIN inbox' : Response(i, o)' /\ inbox'[i].fd = cmd'.conn
        BY DEF PendingBy
      <4>1. PICK f \in Fds : f = cmd.conn /\ f = cmd'.conn
        BY <1>1 DEF Slot, Types
      <4>2. /\ Owned(cmd.conn, o)
            /\ Hears(cmd.conn, o) => \E i \in DOMAIN inbox : Response(i, o) /\ inbox[i].fd = cmd.conn
        BY <1>1, <1>6 DEF Correct, PendingBy, Slot
      <4>3. Owned(f, o)' /\ (Hears(f, o)' => Hears(f, o) /\ f # g)
        BY <3>1, <3>2, <4>1, <4>2 DEF Keeps
      <4>4. ASSUME Hears(f, o)'
            PROVE  \E i \in DOMAIN inbox' : Response(i, o)' /\ inbox'[i].fd = f
        <5>1. PICK j \in DOMAIN inbox : Response(j, o) /\ inbox[j].fd = f
          BY <4>1, <4>2, <4>3, <4>4
        <5>2. j # 1
          BY <1>1, <1>2, <4>3, <4>4, <5>1
        <5>3. j - 1 \in DOMAIN inbox' /\ inbox'[j - 1] = inbox[j]
          <6>1. j - 1 \in 1 .. Len(inbox) - 1 /\ (j - 1) + 1 = j
            BY <1>2, <5>2
          <6>. QED  BY <1>2, <6>1
        <5>4. Response(j - 1, o)'
          BY <5>1, <5>3 DEF Response
        <5>. QED  BY <5>1, <5>3, <5>4
      <4>5. Owned(cmd.conn, o)' /\ (Hears(cmd.conn, o)' => Hears(f, o)')
        BY <4>1, <4>3
      <4>. QED  BY <3>1, <4>1, <4>4, <4>5
    <3>6. RequestsBy(o)'
      BY <2>1 DEF RequestsBy
    <3>. QED  BY <3>3, <3>4, <3>5, <3>6 DEF Correct
  <2>. QED  BY <2>3, <2>4
<1>. QED  BY <1>8, <1>11, <1>12, <1>13 DEF Whole, AnswersInv

-----------------------------------------------------------------------------
(* The steps of CmdActor                                                   *)

LEMMA Standing ==
    ASSUME Types, Whole, UNCHANGED <<client, conn>>
    PROVE  /\ StrangersGaveUp'
           /\ \A d \in Clients : NotYet(d)' /\ Keeps(d)
<1>1. StrangersGaveUp'
  BY LawKept DEF Whole, GaveUp
<1>2. \A d \in Clients : NotYet(d)'
  BY DEF Whole, AnswersInv, NotYet, Asked, Unanswered
<1>3. \A d \in Clients : Keeps(d)
  BY DEF Keeps, Asked, Owned, Hears, Blamed, GaveUp, Strangers
<1>. QED  BY <1>1, <1>2, <1>3

LEMMA WholeRequest ==
    ASSUME Types, Types', Whole, HandleCmdRequest
    PROVE  Whole'
<1>1. PICK m \in CmdMessages, g \in Fds, o \in Clients :
        /\ cmdbox # <<>> /\ m = Head(cmdbox) /\ m.type = "request" /\ g = m.fd /\ o = m.by
        /\ m.command \in Sent
  <2>1. cmdbox # <<>> /\ Head(cmdbox).type = "request"
    BY DEF HandleCmdRequest
  <2>2. Head(cmdbox) \in CmdMessages
    BY <2>1, TakeFirst DEF Types
  <2>. QED  BY <2>1, <2>2, FirstCommand
<1>2. PICK p \in BOOLEAN : p <=> cmd.pending \/ IsPmu(m)
  OBVIOUS
<1>. DEFINE x == [type |-> "response", fd |-> g, text |-> Dispatch(m.command), by |-> o, close |-> ~p]
<1>3. /\ cmdbox' = Tail(cmdbox)
      /\ cmd' = IF p THEN [pending |-> TRUE, conn |-> g, by |-> o] ELSE cmd
      /\ ~p => ~cmd.pending
      /\ UNCHANGED <<client, conn>>
  BY <1>1, <1>2 DEF HandleCmdRequest, sockVars
<1>4. inbox' = Append(inbox, x)
  <2>1. ~p = ~(cmd.pending \/ IsPmu(m))
    BY <1>2
  <2>. QED  BY <1>1, <2>1 DEF HandleCmdRequest
<1>5. /\ x \in InboxMessages /\ x.type = "response" /\ x.fd = g /\ x.by = o
      /\ x.text = Dispatch(m.command) /\ x.text # "status" /\ (x.close <=> ~p)
  <2>1. Dispatch(m.command) \in Texts /\ Dispatch(m.command) # "status" /\ (~p) \in BOOLEAN
    BY DispatchText
  <2>. QED  BY <1>1, <2>1, AnInboxMessage
<1>. HIDE DEF x
<1>6. /\ Len(cmdbox) \in Nat /\ Len(cmdbox) > 0
      /\ DOMAIN cmdbox = 1 .. Len(cmdbox) /\ DOMAIN cmdbox' = 1 .. Len(cmdbox) - 1
      /\ \A i \in 1 .. Len(cmdbox) - 1 : cmdbox'[i] = cmdbox[i + 1]
      /\ m = cmdbox[1]
  BY <1>1, <1>3, TakeFirst DEF Types
<1>7. /\ Len(inbox) \in Nat /\ DOMAIN inbox = 1 .. Len(inbox)
      /\ DOMAIN inbox' = 1 .. Len(inbox) + 1
      /\ inbox'[Len(inbox) + 1] = x
      /\ \A i \in 1 .. Len(inbox) : inbox'[i] = inbox[i]
  BY <1>4, <1>5, PutLast DEF Types
<1>8. /\ Asked(o) /\ Owned(g, o) /\ m.command = client[o].sent
      /\ \A k \in DOMAIN cmdbox : Request(k, o) => k = 1
      /\ \A i \in DOMAIN inbox : ~Response(i, o)
  <2>1. 1 \in DOMAIN cmdbox /\ Request(1, o)
    BY <1>1, <1>6 DEF Request
  <2>2. RequestsBy(o)
    BY DEF Whole, AnswersInv, Correct
  <2>3. Owned(cmdbox[1].fd, o)
    BY <2>1, <2>2 DEF RequestsBy
  <2>. QED  BY <1>1, <1>6, <2>1, <2>2, <2>3 DEF RequestsBy
<1>9. StrangersGaveUp' /\ \A d \in Clients : NotYet(d)' /\ Keeps(d)
  BY <1>3, Standing
<1>10. ASSUME NEW d \in Clients, d # o
       PROVE  Correct(d)'
  <2>1. SameResponses(d)
    BY <1>4, <1>5, <1>10, InboxAppended
  <2>2. SameRequests(d)
    BY <1>1, <1>3, <1>10, CmdboxTaken
  <2>3. Slot(d)' => Slot(d) /\ cmd'.conn = cmd.conn
    BY <1>3, <1>10 DEF Slot
  <2>. QED  BY <1>9, <2>1, <2>2, <2>3, Frame DEF Whole, AnswersInv
<1>11. Correct(o)'
  <2>1. \A k \in DOMAIN cmdbox' : ~Request(k, o)'
    <3>. SUFFICES ASSUME NEW k \in DOMAIN cmdbox', Request(k, o)'
                  PROVE  FALSE
      OBVIOUS
    <3>1. k + 1 \in DOMAIN cmdbox /\ k + 1 # 1 /\ cmdbox'[k] = cmdbox[k + 1]
      BY <1>6
    <3>. QED  BY <1>8, <3>1 DEF Request
  <2>2. ASSUME NEW i \in DOMAIN inbox', Response(i, o)'
        PROVE  i = Len(inbox) + 1 /\ inbox'[i] = x
    <3>1. CASE i \in 1 .. Len(inbox)
      BY <1>7, <1>8, <2>2, <3>1 DEF Response
    <3>. QED  BY <1>7, <3>1
  <2>3. Asked(o)' /\ Owned(g, o)' /\ client'[o].sent = client[o].sent
    BY <1>8, <1>9 DEF Keeps
  <2>4. ResponsesBy(o)'
    <3>. SUFFICES ASSUME NEW i \in DOMAIN inbox', Response(i, o)'
                  PROVE  /\ Asked(o)' /\ Owned(inbox[i].fd, o)'
                         /\ inbox'[i].close => ~Slot(o)'
                         /\ inbox'[i].text # "status"
                         /\ inbox'[i].text = Dispatch(client'[o].sent)
      BY DEF ResponsesBy
    <3>1. inbox'[i] = x
      BY <2>2
    <3>2. x.close => ~Slot(o)'
      BY <1>3, <1>5 DEF Slot
    <3>3. Owned(inbox[i].fd, o)'
      BY <1>5, <2>3, <3>1 DEF Owned
    <3>. QED  BY <1>5, <1>8, <2>3, <3>1, <3>2, <3>3
  <2>5. OrderBy(o)'
    <3>. SUFFICES ASSUME NEW i \in DOMAIN inbox', NEW j \in DOMAIN inbox',
                         Response(i, o)', Response(j, o)', i < j
                  PROVE  FALSE
      BY DEF OrderBy
    <3>. QED  BY <1>7, <2>2
  <2>6. PendingBy(o)'
    <3>. SUFFICES ASSUME Slot(o)'
                  PROVE  /\ Asked(o)' /\ Owned(cmd.conn, o)'
                         /\ \E i \in DOMAIN inbox' : Response(i, o)' /\ inbox'[i].fd = cmd'.conn
      BY DEF PendingBy
    <3>1. cmd'.conn = g
      BY <1>3 DEF Slot
    <3>2. Owned(cmd.conn, o)'
      BY <2>3, <3>1 DEF Owned
    <3>3. PICK n \in DOMAIN inbox' : n = Len(inbox) + 1
      BY <1>7
    <3>4. Response(n, o)' /\ inbox'[n].fd = cmd'.conn
      BY <1>5, <1>7, <3>1, <3>3 DEF Response
    <3>. QED  BY <2>3, <3>2, <3>4
  <2>. QED  BY <2>1, <2>4, <2>5, <2>6 DEF Correct, RequestsBy
<1>. QED  BY <1>9, <1>10, <1>11 DEF Whole, AnswersInv

LEMMA WholeUpdate ==
    ASSUME Types, Types', Whole, HandlePmuDataUpdate
    PROVE  Whole'
<1>1. /\ cmdbox # <<>> /\ cmdbox' = Tail(cmdbox) /\ Head(cmdbox).type = "update"
      /\ UNCHANGED <<client, conn>>
  BY DEF HandlePmuDataUpdate, sockVars
<1>2. \A d \in Clients : ~Slot(d)'
  <2>1. ~cmd'.pending
    BY DEF HandlePmuDataUpdate, Types, Slots
  <2>. QED  BY <2>1 DEF Slot
<1>3. ASSUME NEW d \in Clients
      PROVE  SameRequests(d)
  <2>1. Head(cmdbox).type # "request"
    BY <1>1
  <2>. QED  BY <1>1, <2>1, CmdboxTaken
<1>4. CASE ~cmd.pending
  <2>1. inbox' = inbox
    BY <1>4 DEF HandlePmuDataUpdate
  <2>. QED  BY <1>1, <1>2, <1>3, <2>1, InboxUnchanged, WholeOthers
<1>5. CASE cmd.pending
  <2>1. PICK g \in Fds, o \in Clients : g = cmd.conn /\ o = cmd.by
    BY <1>5 DEF Types
  <2>. DEFINE x == [type |-> "response", fd |-> g, text |-> "status", by |-> o, close |-> TRUE]
  <2>2. inbox' = Append(inbox, x)
    BY <1>5, <2>1 DEF HandlePmuDataUpdate
  <2>3. /\ x \in InboxMessages /\ x.type = "response" /\ x.fd = g /\ x.by = o
        /\ x.text = "status" /\ x.close
    <3>1. "status" \in Texts
      BY DEF Texts
    <3>. QED  BY <3>1, AnInboxMessage
  <2>. HIDE DEF x
  <2>4. /\ Len(inbox) \in Nat /\ DOMAIN inbox = 1 .. Len(inbox)
        /\ DOMAIN inbox' = 1 .. Len(inbox) + 1
        /\ inbox'[Len(inbox) + 1] = x
        /\ \A i \in 1 .. Len(inbox) : inbox'[i] = inbox[i]
    BY <2>2, <2>3, PutLast DEF Types
  <2>5. Correct(o) /\ Slot(o)
    BY <1>5, <2>1 DEF Whole, AnswersInv, Slot
  <2>6. /\ Asked(o) /\ Owned(g, o)
        /\ Hears(g, o) => \E i \in DOMAIN inbox : Response(i, o) /\ inbox[i].fd = g
        /\ \A k \in DOMAIN cmdbox : ~Request(k, o)
        /\ \A i \in DOMAIN inbox : Response(i, o) => ~inbox[i].close /\ inbox[i].text # "status"
    BY <2>1, <2>5 DEF Correct, RequestsBy, ResponsesBy, PendingBy
  <2>7. StrangersGaveUp' /\ \A d \in Clients : NotYet(d)' /\ Keeps(d)
    BY <1>1, Standing
  <2>8. RequestsBy(o)'
    <3>1. \A k \in DOMAIN cmdbox' : ~Request(k, o)'
      <4>1. SameRequests(o)
        BY <1>3
      <4>. QED  BY <2>6, <4>1 DEF SameRequests, Request
    <3>. QED  BY <3>1 DEF RequestsBy
  <2>9. \A i \in 1 .. Len(inbox) : Response(i, o)' <=> Response(i, o)
    BY <2>4 DEF Response
  <2>10. ResponsesBy(o)'
    <3>. SUFFICES ASSUME NEW i \in DOMAIN inbox', Response(i, o)'
                  PROVE  /\ Owned(inbox[i].fd, o)'
                         /\ inbox'[i].text = "status" =>
                               /\ inbox'[i].close
                               /\ Hears(inbox[i].fd, o)' =>
                                     \E j \in DOMAIN inbox' : j < i /\ Response(j, o)' /\ inbox'[j].fd = inbox'[i].fd
                         /\ inbox'[i].text # "status" => inbox'[i].text = Dispatch(client'[o].sent)
      BY <1>2, <2>6, <2>7 DEF ResponsesBy, Keeps
    <3>1. CASE i \in 1 .. Len(inbox)
      <4>1. i \in DOMAIN inbox /\ Response(i, o) /\ inbox'[i] = inbox[i]
        BY <2>4, <2>9, <3>1
      <4>2. /\ Owned(inbox[i].fd, o) /\ inbox[i].text # "status"
            /\ inbox[i].text = Dispatch(client[o].sent)
        BY <2>5, <2>6, <4>1 DEF Correct, ResponsesBy
      <4>3. PICK f \in Fds : f = inbox[i].fd /\ f = inbox'[i].fd
        BY <4>1, ItemTypes
      <4>4. Owned(f, o)' /\ client'[o].sent = client[o].sent
        BY <2>6, <2>7, <4>2, <4>3 DEF Keeps
      <4>5. Owned(inbox[i].fd, o)'
        BY <4>3, <4>4 DEF Owned
      <4>. QED  BY <4>1, <4>2, <4>4, <4>5
    <3>2. CASE i = Len(inbox) + 1
      <4>1. inbox'[i] = x /\ Owned(g, o)' /\ (Hears(g, o)' => Hears(g, o))
        BY <2>4, <2>6, <2>7, <3>2 DEF Keeps
      <4>2. Owned(inbox[i].fd, o)' /\ (Hears(inbox[i].fd, o)' => Hears(g, o))
        BY <2>3, <4>1 DEF Owned, Hears
      <4>3. ASSUME Hears(g, o)
            PROVE  \E j \in DOMAIN inbox' : j < i /\ Response(j, o)' /\ inbox'[j].fd = g
        <5>1. PICK j \in DOMAIN inbox : Response(j, o) /\ inbox[j].fd = g
          BY <2>6, <4>3
        <5>2. j \in DOMAIN inbox' /\ j < i /\ inbox'[j] = inbox[j]
          BY <2>4, <3>2
        <5>3. Response(j, o)'
          BY <2>4, <2>9, <5>1
        <5>. QED  BY <5>1, <5>2, <5>3
      <4>. QED  BY <2>3, <4>1, <4>2, <4>3
    <3>. QED  BY <2>4, <3>1, <3>2
  <2>11. OrderBy(o)'
    <3>. SUFFICES ASSUME NEW i \in DOMAIN inbox', NEW j \in DOMAIN inbox',
                         Response(i, o)', Response(j, o)', i < j
                  PROVE  ~inbox'[i].close /\ inbox'[j].text = "status"
      BY DEF OrderBy
    <3>1. i \in 1 .. Len(inbox)
      BY <2>4
    <3>2. i \in DOMAIN inbox /\ Response(i, o) /\ inbox'[i] = inbox[i]
      BY <2>4, <2>9, <3>1
    <3>3. CASE j \in 1 .. Len(inbox)
      <4>1. j \in DOMAIN inbox /\ Response(j, o)
        BY <2>4, <2>9, <3>3
      <4>. QED  BY <2>5, <2>6, <3>2, <4>1 DEF Correct, OrderBy
    <3>4. CASE j = Len(inbox) + 1
      BY <2>3, <2>4, <2>6, <3>2, <3>4
    <3>. QED  BY <2>4, <3>3, <3>4
  <2>12. PendingBy(o)'
    BY <1>2 DEF PendingBy
  <2>13. Correct(o)'
    BY <2>8, <2>10, <2>11, <2>12 DEF Correct
  <2>14. ASSUME NEW d \in Clients, d # o
         PROVE  Correct(d)'
    <3>1. SameResponses(d)
      BY <2>2, <2>3, <2>14, InboxAppended
    <3>. QED  BY <1>2, <1>3, <2>7, <3>1, Frame DEF Whole, AnswersInv
  <2>. QED  BY <2>7, <2>13, <2>14 DEF Whole, AnswersInv
<1>. QED  BY <1>4, <1>5

-----------------------------------------------------------------------------
(* The theorem                                                             *)

LEMMA WholeInit == Init => Whole
<1>. SUFFICES ASSUME Init PROVE Whole
  OBVIOUS
<1>1. \A c \in Clients : client[c].pc = "new" /\ ~client[c].unread /\ client[c].got = <<>>
  BY DEF Init
<1>2. DOMAIN inbox = {} /\ DOMAIN cmdbox = {} /\ ~cmd.pending
  BY DEF Init
<1>3. \A c \in Clients : DOMAIN client[c].got = {}
  BY <1>1
<1>4. StrangersGaveUp
  <2>1. \A c \in Clients : Strangers(c) = {}
    BY <1>3 DEF Strangers
  <2>. QED  BY <1>1, <2>1 DEF StrangersGaveUp
<1>5. \A d \in Clients : NotYet(d) /\ Correct(d)
  BY <1>1, <1>2, <1>3
     DEF NotYet, Unanswered, Correct, RequestsBy, ResponsesBy, OrderBy, PendingBy, Slot
<1>. QED  BY <1>4, <1>5 DEF Whole, AnswersInv

LEMMA WholeStep == Types /\ Types' /\ Whole /\ [Next]_vars => Whole'
<1>. SUFFICES ASSUME Types, Types', Whole, [Next]_vars
              PROVE  Whole'
  OBVIOUS
<1>1. ASSUME NEW c \in Clients, NEW line \in Lines, RunLine(c, line)
      PROVE  Whole'
  BY <1>1, WholeClients, CommandIsSent DEF RunLine
<1>2. ASSUME NEW c \in Clients, Click(c)
      PROVE  Whole'
  BY <1>2, WholeClients, ToggleIsSent DEF Click
<1>3. ASSUME NEW c \in Clients, Connect(c) \/ HangUp(c)
      PROVE  Whole'
  BY <1>3, WholeClients
<1>4. ASSUME IpcStep
      PROVE  Whole'
  BY <1>4, WholeCommand, WholeEndOfFile, WholeResponse, WholeLoop DEF IpcStep
<1>5. ASSUME CmdStep
      PROVE  Whole'
  BY <1>5, WholeRequest, WholeUpdate DEF CmdStep
<1>6. ASSUME LoopStep \/ PublishPmu \/ (\E f \in Fds : ReportReadable(f)) \/ UNCHANGED vars
      PROVE  Whole'
  BY <1>6, WholeLoop
<1>. QED  BY <1>1, <1>2, <1>3, <1>4, <1>5, <1>6, WholeAccept DEF Next

\* Answers are addressed by a descriptor number that the kernel gives to the next client
\* as soon as it is closed.  For any number of clients and descriptors: who receives
\* another's answer has it from a client that gave up before its own answer, or from one
\* that was itself answered with a third one's; nothing goes astray as long as nobody
\* gives up; and what a client gets first of its own is what its handler said, never a
\* later reading (IpcServerActor::handle(CmdResponse), CmdActor::pendingConn_).
THEOREM AnswersAstray == Spec => []StrangersGaveUp
<1>1. Init => Types /\ Whole
  BY TypesInit, WholeInit
<1>2. Types /\ Whole /\ [Next]_vars => Types' /\ Whole'
  BY TypesStep, WholeStep
<1>3. Whole => StrangersGaveUp
  BY DEF Whole
<1>. QED  BY <1>1, <1>2, <1>3, PTL DEF Spec
=============================================================================
