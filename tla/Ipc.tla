-------------------------------- MODULE Ipc --------------------------------
(***************************************************************************)
(* A command from a client (v2 or v2_tui) to the daemon and back: the unix *)
(* socket, EventLoopEpoll, IpcServerActor, CmdActor and, for `pmu status', *)
(* the device manager's next reading.                                      *)
(*                                                                         *)
(* The event loop's thread accepts and reports; the actors run on workers, *)
(* so their subscribe and unsubscribe change handlers_ at once and post    *)
(* the epoll call.  Descriptors are numbers: the kernel gives the lowest   *)
(* free one to the next connection, whoever still means the old one.       *)
(* connections_, which both threads change without a lock, is taken to     *)
(* change atomically.  Only one command line a client, as v2 does.         *)
(***************************************************************************)
EXTENDS CommandLine

CONSTANTS Clients,
          Fds,         \* descriptor numbers, 1 .. n
          Arguments,   \* what a user may type after v2
          MaxArgs,     \* bound: arguments of a command line
          MaxMail      \* bound: messages in a mailbox

ASSUME IpcAssumption ==
    /\ Fds \subseteq Nat \ {0} /\ 0 \notin Clients      \* None
    /\ "actor" \notin Arguments                         \* v2_tui's command
    /\ MaxMail \in Nat /\ MaxArgs \in Nat

VARIABLES client,       \* per client: its state, what it sent, unread or not, what it got
          conn,         \* the server's end of a connection: fd -> client
          connections,  \* IpcServerActor::connections_
          handlers,     \* EventLoopEpoll::handlers_
          epoll,        \* what the kernel watches
          ops,          \* pendingOps_
          loop,         \* the loop's thread: executing posted operations or events
          inbox,        \* mailbox of ipc_server
          ipc,          \* what the handler has still to do
          cmdbox,       \* mailbox of cmd
          cmd,          \* pmuStatusPending_, pendingConn_ and whose command set it
          device,       \* is cmd subscribed at the device manager?
          passedOver,   \* history: clients whose pending pmu status another command took over
          unheard       \* history: clients whose handler a posted operation took away

sockVars == <<client, conn>>
loopVars == <<handlers, epoll, ops, loop, unheard>>
cmdVars  == <<cmdbox, cmd, device, passedOver>>
vars == <<sockVars, connections, loopVars, inbox, ipc, cmdVars>>

None == 0

Init ==
    /\ client = [c \in Clients |-> [pc |-> "new", sent |-> <<>>, unread |-> FALSE, got |-> <<>>]]
    /\ conn = [f \in Fds |-> None]
    /\ connections = {} /\ handlers = {} /\ epoll = {} /\ ops = <<>> /\ loop = "drain" /\ unheard = {}
    /\ inbox = <<>> /\ ipc = None
    /\ cmdbox = <<>> /\ cmd = [pending |-> FALSE, conn |-> None, by |-> None]
    /\ device = FALSE /\ passedOver = {}

Free == {f \in Fds : conn[f] = None}

-----------------------------------------------------------------------------
(* Clients: CliApp::run and sendToDaemon, printStatus, UdsClient           *)

Connect(c) ==
    /\ client[c].pc = "new"
    /\ client' = [client EXCEPT ![c].pc = "queued"]
    /\ UNCHANGED <<conn, connections, loopVars, inbox, ipc, cmdVars>>

\* Every v2 has connected before it looks at its command line.
Lines == SeqOf(Arguments, MaxArgs)

SendCommand(c, command) ==
    /\ client[c].pc = "open"
    /\ client' = [client EXCEPT ![c].pc = "waiting", ![c].sent = command, ![c].unread = TRUE]
    /\ UNCHANGED <<conn, connections, loopVars, inbox, ipc, cmdVars>>

\* A click of v2_tui on the box of an actor, which shows the last snapshot: the
\* actor may have changed since, so wasOn is either.
Toggle(wasOn) == <<"actor", IF wasOn THEN "disable" ELSE "enable", "val">>

Click(c) == \E wasOn \in BOOLEAN : SendCommand(c, Toggle(wasOn))

\* `v2 status' and `v2 help' leave without a word, v2_tui inherits a connection
\* that it never uses and closes it when it ends.
Leave(c) ==
    /\ client[c].pc = "open"
    /\ client' = [client EXCEPT ![c].pc = "left"]
    /\ UNCHANGED <<conn, connections, loopVars, inbox, ipc, cmdVars>>

\* v2 reads to the end of the answer, v2_tui takes one recv and hangs up; but v2 may be
\* interrupted in recv, and v2_tui ends under the thread that a click started.
HangUp(c) ==
    /\ client[c].pc = "waiting"
    /\ client' = [client EXCEPT ![c].pc = "gone"]
    /\ UNCHANGED <<conn, connections, loopVars, inbox, ipc, cmdVars>>

RunLine(c, line) ==
    IF RunCli(line) = "send" THEN SendCommand(c, Command(line)) ELSE Leave(c)

\* ::close at the server: the kernel stops watching, the client sees the end.
Closed(f) ==
    /\ conn' = [conn EXCEPT ![f] = None]
    /\ epoll' = epoll \ {f}

EndSeen(cl, f) ==
    IF conn[f] = None THEN cl
    ELSE [cl EXCEPT ![conn[f]].pc = IF @ \in {"left", "gone"} THEN @ ELSE "closed"]

-----------------------------------------------------------------------------
(* EventLoopEpoll                                                          *)

\* subscribe and unsubscribe from a worker: handlers_ now, epoll later.
Post(op, f) == Append(ops, <<op, f>>)

\* epoll_ctl refuses a closed descriptor and one that it watches already.
AddFails(f) == conn[f] = None \/ f \in epoll

\* A posted addition that fails takes the handler out again; a posted unsubscribe
\* runs the whole of unsubscribe a second time, for whatever the number stands for now.
DrainPendingOp ==
    /\ loop = "drain" /\ ops # <<>>
    /\ LET f == Head(ops)[2] IN
       /\ IF Head(ops)[1] = "add"
          THEN IF AddFails(f) THEN handlers' = handlers \ {f} /\ UNCHANGED epoll
               ELSE epoll' = epoll \cup {f} /\ UNCHANGED handlers
          ELSE epoll' = epoll \ {f} /\ handlers' = handlers \ {f}
       /\ unheard' = unheard \cup ({conn[g] : g \in handlers \ handlers'} \ {None})
    /\ ops' = Tail(ops)
    /\ UNCHANGED <<sockVars, connections, loop, inbox, ipc, cmdVars>>

\* epoll_wait returns a batch of events; after it the loop starts over.
LoopTurn ==
    /\ loop = "drain" => ops = <<>>
    /\ loop' = IF loop = "drain" THEN "events" ELSE "drain"
    /\ UNCHANGED <<sockVars, connections, handlers, epoll, ops, unheard, inbox, ipc, cmdVars>>

\* The listener's handler: UdsServer::accept, connections_.insert, IpcNewConnection.
Accept(c) ==
    LET f == Min(Free) IN
    /\ loop = "events" /\ client[c].pc = "queued" /\ Free # {} /\ Len(inbox) < MaxMail
    /\ client' = [client EXCEPT ![c].pc = "open"]
    /\ conn' = [conn EXCEPT ![f] = c]
    /\ connections' = connections \cup {f}
    /\ inbox' = Append(inbox, [type |-> "new", fd |-> f])
    /\ UNCHANGED <<loopVars, ipc, cmdVars>>

\* A client's handler: one IpcDataReceived for every turn in which it is readable.
Readable(f) == conn[f] # None /\ (client[conn[f]].unread \/ client[conn[f]].pc \in {"left", "gone"})

ReportReadable(f) ==
    /\ loop = "events" /\ f \in epoll \cap handlers /\ Readable(f) /\ Len(inbox) < MaxMail
    /\ inbox' = Append(inbox, [type |-> "data", fd |-> f])
    /\ UNCHANGED <<sockVars, connections, loopVars, ipc, cmdVars>>

-----------------------------------------------------------------------------
(* IpcServerActor                                                          *)

Takes(type) ==
    /\ ipc = None /\ inbox # <<>> /\ Head(inbox).type = type
    /\ inbox' = Tail(inbox)

\* subscribeClient: refused if the number still has a handler.
HandleNewConnection ==
    LET f == Head(inbox).fd IN
    /\ Takes("new")
    /\ handlers' = handlers \cup {f}
    /\ ops' = IF f \in handlers THEN ops ELSE Post("add", f)
    /\ UNCHANGED <<sockVars, connections, epoll, loop, unheard, ipc, cmdVars>>

\* n > 0: the command goes to cmd, the connection waits for its answer.
HandleCommand ==
    LET f == Head(inbox).fd IN
    /\ Takes("data") /\ conn[f] # None /\ client[conn[f]].unread /\ Len(cmdbox) < MaxMail
    /\ client' = [client EXCEPT ![conn[f]].unread = FALSE]
    /\ cmdbox' = Append(cmdbox, [type |-> "request", command |-> client[conn[f]].sent, fd |-> f, by |-> conn[f]])
    /\ handlers' = handlers \ {f} /\ ops' = Post("unsubscribe", f)
    /\ UNCHANGED <<conn, connections, epoll, loop, unheard, ipc, cmd, device, passedOver>>

\* n = 0: unsubscribe and closeClient; connections_.erase follows.
HandleEndOfFile ==
    LET f == Head(inbox).fd IN
    /\ Takes("data") /\ conn[f] # None
    /\ ~client[conn[f]].unread /\ client[conn[f]].pc \in {"left", "gone"}
    /\ handlers' = handlers \ {f} /\ ops' = Post("unsubscribe", f)
    /\ Closed(f) /\ client' = EndSeen(client, f)
    /\ ipc' = f
    /\ UNCHANGED <<connections, loop, unheard, cmdVars>>

EraseConnection ==
    /\ ipc # None
    /\ connections' = connections \ {ipc} /\ ipc' = None
    /\ UNCHANGED <<sockVars, loopVars, inbox, cmdVars>>

\* n < 0: nothing to read, or the descriptor is closed.
HandleNoData ==
    LET f == Head(inbox).fd IN
    /\ Takes("data") /\ ~Readable(f)
    /\ UNCHANGED <<sockVars, connections, loopVars, ipc, cmdVars>>

\* send fails when the descriptor is closed or nobody is left at the other end.
Received(f, m) ==
    IF conn[f] = None \/ client[conn[f]].pc \in {"left", "gone"} THEN client
    ELSE [client EXCEPT ![conn[f]].got = Append(@, [text |-> m.text, by |-> m.by])]

\* Seeded fault: the connection stays open after the answer.
HandleCmdResponseKeeps ==
    LET m == Head(inbox) IN
    /\ Takes("response")
    /\ client' = Received(m.fd, m)
    /\ UNCHANGED <<conn, connections, loopVars, ipc, cmdVars>>

\* send; with closeOnSend also unsubscribe, erase, close.
HandleCmdResponse ==
    LET m == Head(inbox) IN
    /\ Takes("response")
    /\ IF m.close
       THEN /\ client' = EndSeen(Received(m.fd, m), m.fd)
            /\ handlers' = handlers \ {m.fd} /\ ops' = Post("unsubscribe", m.fd)
            /\ connections' = connections \ {m.fd}
            /\ Closed(m.fd)
       ELSE client' = Received(m.fd, m) /\ UNCHANGED <<conn, connections, handlers, epoll, ops>>
    /\ UNCHANGED <<loop, unheard, ipc, cmdVars>>

-----------------------------------------------------------------------------
(* CmdActor and the device manager                                         *)

\* handlePmu subscribes and waits; every other answer is complete.
IsPmu(m) == Dispatch(m.command) = "reading"

\* Seeded fault: while a pmu status is pending the answer goes to its client.
HandleCmdRequestToPending ==
    LET m == Head(cmdbox)
        p == cmd.pending \/ IsPmu(m)
    IN
    /\ cmdbox # <<>> /\ m.type = "request" /\ Len(inbox) < MaxMail
    /\ device' = (device \/ IsPmu(m))
    /\ passedOver' = IF cmd.pending THEN passedOver \cup {cmd.by} ELSE passedOver
    /\ cmd' = IF p THEN [pending |-> TRUE, conn |-> m.fd, by |-> m.by] ELSE cmd
    /\ cmdbox' = Tail(cmdbox)
    /\ inbox' = Append(inbox, [type |-> "response", fd |-> IF cmd.pending THEN cmd.conn ELSE m.fd,
                               text |-> Dispatch(m.command), by |-> m.by, close |-> ~p])
    /\ UNCHANGED <<sockVars, connections, loopVars, ipc>>

\* CmdRequest: dispatch; with a pmu status pending, its own or another's, the
\* connection is remembered in the one slot and not closed.
HandleCmdRequest ==
    LET m == Head(cmdbox)
        p == cmd.pending \/ IsPmu(m)
    IN
    /\ cmdbox # <<>> /\ m.type = "request" /\ Len(inbox) < MaxMail
    /\ device' = (device \/ IsPmu(m))
    /\ passedOver' = IF cmd.pending THEN passedOver \cup {cmd.by} ELSE passedOver
    /\ cmd' = IF p THEN [pending |-> TRUE, conn |-> m.fd, by |-> m.by] ELSE cmd
    /\ cmdbox' = Tail(cmdbox)
    /\ inbox' = Append(inbox, [type |-> "response", fd |-> m.fd, text |-> Dispatch(m.command),
                               by |-> m.by, close |-> ~p])
    /\ UNCHANGED <<sockVars, connections, loopVars, ipc>>

\* DeviceManagerActor publishes to its subscriber, at once or at a later tick.
PublishPmu ==
    /\ device /\ Len(cmdbox) < MaxMail /\ \A i \in DOMAIN cmdbox : cmdbox[i].type # "update"
    /\ cmdbox' = Append(cmdbox, [type |-> "update"])
    /\ UNCHANGED <<sockVars, connections, loopVars, inbox, ipc, cmd, device, passedOver>>

HandlePmuDataUpdate ==
    /\ cmdbox # <<>> /\ Head(cmdbox).type = "update" /\ Len(inbox) < MaxMail
    /\ cmdbox' = Tail(cmdbox)
    /\ cmd' = [cmd EXCEPT !.pending = FALSE]
    /\ device' = (device /\ ~cmd.pending)
    /\ inbox' = IF cmd.pending
                THEN Append(inbox, [type |-> "response", fd |-> cmd.conn, text |-> "status",
                                    by |-> cmd.by, close |-> TRUE])
                ELSE inbox
    /\ UNCHANGED <<sockVars, connections, loopVars, ipc, passedOver>>

LoopStep == DrainPendingOp \/ LoopTurn
IpcStep ==
    \/ HandleNewConnection \/ HandleCommand \/ HandleEndOfFile \/ EraseConnection
    \/ HandleNoData \/ HandleCmdResponse
CmdStep == HandleCmdRequest \/ HandlePmuDataUpdate

Next ==
    \/ \E c \in Clients : Connect(c) \/ HangUp(c)
    \/ \E c \in Clients, line \in Lines : RunLine(c, line)
    \/ \E c \in Clients : Click(c)
    \/ LoopStep \/ IpcStep \/ CmdStep \/ PublishPmu
    \/ \E c \in Clients : Accept(c)
    \/ \E f \in Fds : ReportReadable(f)

\* The loop turns and serves every readable descriptor, the actors are scheduled,
\* the device manager's timer goes on.
Spec ==
    /\ Init /\ [][Next]_vars
    /\ WF_vars(LoopStep) /\ WF_vars(IpcStep) /\ WF_vars(CmdStep) /\ WF_vars(PublishPmu)
    /\ \A c \in Clients : SF_vars(Accept(c))
    /\ \A f \in Fds : SF_vars(ReportReadable(f))

-----------------------------------------------------------------------------
(* Properties                                                              *)

\* A client that closed its socket before the daemon did: its number may be given to
\* another one while its command or its answer is on the way.
GaveUp(d) == client[d].pc = "gone"

\* Whose commands the answers that c received belong to, its own apart.
Strangers(c) == {client[c].got[i].by : i \in DOMAIN client[c].got} \ {c}

\* The request names the client, the answer finds it: what a client receives first is
\* the answer to its own command.  It does not hold: see the README, `Other
\* differences' (CmdRequest.conn, CmdResponse.conn).
OwnAnswerFirst == \A c \in Clients : client[c].got # <<>> => client[c].got[1].by = c

\* Answers are addressed by descriptor number, and numbers are reused: somebody
\* receives the answer to another's command only if that other one gave up before its
\* answer, or was itself answered with, and closed by, what belonged to a third; no
\* answer goes astray while nobody gives up; and an answer to a client's own command
\* comes first as the answer that its handler gave, never as a later reading
\* (CmdActor::pendingConn_, IpcServerActor::handle(CmdResponse)).
StrangersGaveUp ==
    /\ \A c \in Clients : \A d \in Strangers(c) : GaveUp(d) \/ Strangers(d) # {}
    /\ (\E c \in Clients : Strangers(c) # {}) => \E d \in Clients : GaveUp(d)
    /\ \A c \in Clients :
          client[c].got # <<>> /\ client[c].got[1].by = c
              => client[c].got[1].text = Dispatch(client[c].sent)

Ended(c) == client[c].pc \in {"closed", "gone"}

\* Every command is answered and its connection closed by the daemon.
EveryCommandAnswered == \A c \in Clients : (client[c].pc = "waiting") ~> Ended(c)

\* A client is left waiting for two reasons only: a posted operation took its own
\* handler away, or its own pending `pmu status' lost the one slot to a later command
\* (EventLoopEpoll::unsubscribe, CmdActor::pendingConn_).
Answered ==
    \A c \in Clients :
        (client[c].pc = "waiting") ~> (Ended(c) \/ c \in unheard \/ c \in passedOver)

\* The help of v2 offers only commands that the daemon understands; no state is
\* involved, so it is evaluated once, in the initial state (CliApp::run, CmdActor::dispatch).
HelpIsTrue == Init => UsageIsServed
=============================================================================
