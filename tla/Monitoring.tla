----------------------------- MODULE Monitoring -----------------------------
(***************************************************************************)
(* The demand cascade of the monitor: v2_tui connects to MonitorBridge,    *)
(* which subscribes at Monitor, which subscribes at the system and device  *)
(* managers; readings flow back as snapshots for as long as a client is    *)
(* connected.  Every hop is a message in a mailbox.                        *)
(*                                                                         *)
(* What is read, cached and shown is left out: what matters is that a      *)
(* reading arrives.  The event loop's posted operations are the subject of *)
(* module Ipc; here a change of its subscriptions is immediate.  The       *)
(* managers' repeating timers may have a tick ready at any time.  A        *)
(* supervisor's one-for-all broadcast restarts an actor between two of its *)
(* messages.                                                               *)
(***************************************************************************)
EXTENDS Naturals, Sequences, FiniteSets, FiniteSetsExt

CONSTANTS Clients,
          Fds,          \* descriptor numbers, 1 .. n
          Restartable,  \* the actors one of which may be restarted, once
          MaxMail       \* bound: messages in the bridge's mailbox

Managers == {"system_manager", "device_manager"}

ASSUME MonitoringAssumption ==
    /\ Fds \subseteq Nat /\ MaxMail \in Nat
    /\ 0 \notin Clients   \* None, in conn
    /\ Restartable \subseteq Managers \cup {"monitor", "monitor_bridge"}

VARIABLES client,       \* v2_tui: where it is, and whether its socket holds data
          conn,         \* the server's end of a connection: fd -> client
          watched,      \* descriptors the event loop reports to the bridge
          connections,  \* MonitorBridgeActor::connections_
          bbox,         \* mailbox of monitor_bridge
          monitor,      \* subscribers_ (is the bridge one?), dataSubscribed_
          mbox,         \* mailbox of monitor
          mgr,          \* per manager: subscribers_ (is monitor one?), its timers
          mgrbox,       \* per manager: its mailbox
          restarted     \* the actor that was restarted

netVars == <<client, conn, watched>>
bridgeVars == <<connections, bbox>>
monVars == <<monitor, mbox>>
mgrVars == <<mgr, mgrbox>>
vars == <<netVars, bridgeVars, monVars, mgrVars, restarted>>

None == 0

Init ==
    /\ client = [c \in Clients |-> [pc |-> "new", unread |-> FALSE]]
    /\ conn = [f \in Fds |-> None] /\ watched = {} /\ connections = {} /\ bbox = <<>>
    /\ monitor = [sub |-> FALSE, data |-> FALSE] /\ mbox = <<>>
    /\ mgr = [g \in Managers |-> [sub |-> FALSE, timers |-> 1]]
    /\ mgrbox = [g \in Managers |-> <<>>]
    /\ restarted = {}

-----------------------------------------------------------------------------
(* v2_tui: TuiApp                                                          *)

\* recvLoop: the snapshot is parsed and shown; after close() the loop ends here.
Recv(c) ==
    /\ client[c].unread /\ client[c].pc \in {"open", "quitting"}
    /\ client' = [client EXCEPT ![c] = [pc |-> IF @.pc = "open" THEN "open" ELSE "left",
                                        unread |-> FALSE]]
    /\ UNCHANGED <<conn, watched, bridgeVars, monVars, mgrVars, restarted>>

\* close() while recvLoop is blocked in recv: closing the descriptor does not end
\* the call, and the connection lives until it returns.
Quit(c) ==
    /\ client[c].pc = "open"
    /\ client' = [client EXCEPT ![c].pc = "quitting"]
    /\ UNCHANGED <<conn, watched, bridgeVars, monVars, mgrVars, restarted>>

\* close() between two calls of recv, or the process is killed.
Leave(c) ==
    /\ client[c].pc \in {"open", "quitting"}
    /\ client' = [client EXCEPT ![c] = [pc |-> "left", unread |-> FALSE]]
    /\ UNCHANGED <<conn, watched, bridgeVars, monVars, mgrVars, restarted>>

-----------------------------------------------------------------------------
(* The event loop's two handlers                                           *)

\* The listener's handler.  The kernel takes the lowest free number.
Accept(c) ==
    LET free == {f \in Fds : conn[f] = None} IN
    /\ client[c].pc = "new" /\ free # {}
    /\ client' = [client EXCEPT ![c].pc = "open"]
    /\ conn' = [conn EXCEPT ![Min(free)] = c]
    /\ bbox' = Append(bbox, [type |-> "new", fd |-> Min(free)])
    /\ UNCHANGED <<watched, connections, monVars, mgrVars, restarted>>

\* A client's handler: one message for every turn of the loop that finds the peer gone.
ReportGone(f) ==
    /\ f \in watched /\ conn[f] # None /\ client[conn[f]].pc = "left"
    /\ Len(bbox) < MaxMail
    /\ bbox' = Append(bbox, [type |-> "gone", fd |-> f])
    /\ UNCHANGED <<netVars, connections, monVars, mgrVars, restarted>>

-----------------------------------------------------------------------------
(* MonitorBridgeActor                                                      *)

BridgeTakes(type) ==
    /\ bbox # <<>> /\ Head(bbox).type = type
    /\ bbox' = Tail(bbox)

MonitorNewConnection ==
    LET cs == connections \cup {Head(bbox).fd} IN
    /\ BridgeTakes("new")
    /\ connections' = cs
    /\ mbox' = IF Cardinality(cs) = 1 THEN Append(mbox, "subscribe") ELSE mbox
    /\ watched' = watched \cup {Head(bbox).fd}
    /\ UNCHANGED <<client, conn, monitor, mgrVars, restarted>>

\* Seeded fault: the connection is closed without asking whether it is known.
MonitorClientDisconnectedBlind ==
    LET f == Head(bbox).fd IN
    /\ BridgeTakes("gone")
    /\ connections' = connections \ {f} /\ watched' = watched \ {f}
    /\ conn' = [conn EXCEPT ![f] = None]
    /\ mbox' = IF connections' = {} THEN Append(mbox, "unsubscribe") ELSE mbox
    /\ UNCHANGED <<client, monitor, mgrVars, restarted>>

\* A second report of the same end finds the descriptor erased and does nothing.
MonitorClientDisconnected ==
    LET f == Head(bbox).fd IN
    /\ BridgeTakes("gone")
    /\ IF f \in connections
       THEN /\ connections' = connections \ {f} /\ watched' = watched \ {f}
            /\ conn' = [conn EXCEPT ![f] = None]
            /\ mbox' = IF connections' = {} THEN Append(mbox, "unsubscribe") ELSE mbox
       ELSE UNCHANGED <<connections, watched, conn, mbox>>
    /\ UNCHANGED <<client, monitor, mgrVars, restarted>>

\* A send to a client that is gone fails and is ignored.
Fed(c) == [c EXCEPT !.unread = c.pc # "left"]

\* Seeded fault: only the first connection is served.
MonitorSnapshotUpdateFirst ==
    /\ BridgeTakes("snapshot")
    /\ client' = [c \in Clients |-> IF connections # {} /\ conn[Min(connections)] = c
                                    THEN Fed(client[c]) ELSE client[c]]
    /\ UNCHANGED <<conn, watched, connections, monVars, mgrVars, restarted>>

\* The snapshot as one line of JSON to every connection.
MonitorSnapshotUpdate ==
    /\ BridgeTakes("snapshot")
    /\ client' = [c \in Clients |-> IF \E f \in connections : conn[f] = c
                                    THEN Fed(client[c]) ELSE client[c]]
    /\ UNCHANGED <<conn, watched, connections, monVars, mgrVars, restarted>>

-----------------------------------------------------------------------------
(* MonitorActor                                                            *)

MonitorTakes(msg) ==
    /\ mbox # <<>> /\ Head(mbox) = msg
    /\ mbox' = Tail(mbox)

\* sendMsg to both managers
ToManagers(msg) == mgrbox' = [g \in Managers |-> Append(mgrbox[g], msg)]

MonitorSubscribe ==
    /\ MonitorTakes("subscribe")
    /\ monitor' = [monitor EXCEPT !.sub = TRUE, !.data = TRUE]
    /\ IF monitor.data THEN UNCHANGED mgrbox ELSE ToManagers("subscribe")
    /\ UNCHANGED <<netVars, bridgeVars, mgr, restarted>>

\* Seeded fault: dataSubscribed_ stays set.
MonitorUnsubscribeKeepsFlag ==
    /\ MonitorTakes("unsubscribe")
    /\ monitor' = [sub |-> FALSE, data |-> monitor.data]
    /\ IF monitor.data THEN ToManagers("unsubscribe") ELSE UNCHANGED mgrbox
    /\ UNCHANGED <<netVars, bridgeVars, mgr, restarted>>

MonitorUnsubscribe ==
    /\ MonitorTakes("unsubscribe")
    /\ IF monitor.data
       THEN monitor' = [sub |-> FALSE, data |-> FALSE] /\ ToManagers("unsubscribe")
       ELSE monitor' = [monitor EXCEPT !.sub = FALSE] /\ UNCHANGED mgrbox
    /\ UNCHANGED <<netVars, bridgeVars, mgr, restarted>>

\* SysDataUpdate, PmuDataUpdate: the cache, then tryPublish with all actors' state.
DataUpdate(g) ==
    /\ MonitorTakes(g)
    /\ bbox' = IF monitor.sub THEN Append(bbox, [type |-> "snapshot"]) ELSE bbox
    /\ UNCHANGED <<netVars, connections, monitor, mgrVars, restarted>>

-----------------------------------------------------------------------------
(* SystemManagerActor and DeviceManagerActor                               *)

\* pumpIfNeeded: collect (ISys::collect, IPmu::readPmuData) may fail.
\* Bound: a manager has one reading on its way to a client.
Pump(g, sub, ok) ==
    /\ g \notin {mbox[i] : i \in DOMAIN mbox} /\ \A i \in DOMAIN bbox : bbox[i].type # "snapshot"
    /\ mbox' = IF sub /\ ok THEN Append(mbox, g) ELSE mbox

DataSubscribe(g, ok) ==
    /\ mgrbox[g] # <<>> /\ Head(mgrbox[g]) = "subscribe"
    /\ mgrbox' = [mgrbox EXCEPT ![g] = Tail(@)]
    /\ mgr' = [mgr EXCEPT ![g].sub = TRUE]
    /\ Pump(g, TRUE, ok)
    /\ UNCHANGED <<netVars, bridgeVars, monitor, restarted>>

DataUnsubscribe(g) ==
    /\ mgrbox[g] # <<>> /\ Head(mgrbox[g]) = "unsubscribe"
    /\ mgrbox' = [mgrbox EXCEPT ![g] = Tail(@)]
    /\ mgr' = [mgr EXCEPT ![g].sub = FALSE]
    /\ UNCHANGED <<netVars, bridgeVars, monVars, restarted>>

\* Without a subscriber a tick does nothing.
DataTick(g, ok) ==
    /\ mgr[g].sub
    /\ Pump(g, TRUE, ok)
    /\ UNCHANGED <<netVars, bridgeVars, monitor, mgrVars, restarted>>

-----------------------------------------------------------------------------
(* close() and open() of each actor, in a restart                          *)

\* The managers keep their subscribers; open starts one more repeating timer.
RestartManager(g) ==
    /\ mgr' = [mgr EXCEPT ![g].timers = @ + 1]
    /\ UNCHANGED <<netVars, bridgeVars, monVars, mgrbox>>

\* The monitor forgets who subscribed, and that it had subscribed itself.
RestartMonitor ==
    /\ monitor' = [sub |-> FALSE, data |-> FALSE]
    /\ UNCHANGED <<netVars, bridgeVars, mbox, mgrVars>>

\* unsubscribeAll: every connection is closed; the clients see the end.
RestartBridge ==
    /\ client' = [c \in Clients |-> IF \E f \in connections : conn[f] = c
                                    THEN [pc |-> "closed", unread |-> FALSE] ELSE client[c]]
    /\ conn' = [f \in Fds |-> IF f \in connections THEN None ELSE conn[f]]
    /\ watched' = watched \ connections /\ connections' = {}
    /\ UNCHANGED <<bbox, monVars, mgrVars>>

Restart(a) ==
    /\ a \in Restartable /\ restarted = {}
    /\ restarted' = {a}
    /\ \/ a \in Managers /\ RestartManager(a)
       \/ a = "monitor" /\ RestartMonitor
       \/ a = "monitor_bridge" /\ RestartBridge

BridgeStep == MonitorNewConnection \/ MonitorClientDisconnected \/ MonitorSnapshotUpdate
MonitorStep == MonitorSubscribe \/ MonitorUnsubscribe \/ \E g \in Managers : DataUpdate(g)
ManagerStep(g) == DataUnsubscribe(g) \/ \E ok \in BOOLEAN : DataSubscribe(g, ok)

Next ==
    \/ \E c \in Clients : Accept(c) \/ Recv(c) \/ Quit(c) \/ Leave(c)
    \/ \E f \in Fds : ReportGone(f)
    \/ BridgeStep \/ MonitorStep
    \/ \E g \in Managers : ManagerStep(g) \/ \E ok \in BOOLEAN : DataTick(g, ok)
    \/ \E a \in Restartable : Restart(a)

\* The loop and the workers are scheduled, the timers go on, and the system
\* manager's collect does not fail for ever.
Spec ==
    /\ Init /\ [][Next]_vars
    /\ WF_vars(BridgeStep) /\ WF_vars(MonitorStep)
    /\ \A g \in Managers : SF_vars(ManagerStep(g))
    /\ SF_vars(DataTick("system_manager", TRUE))
    /\ \A c \in Clients : WF_vars(Accept(c)) /\ WF_vars(Recv(c))
    /\ \A f \in Fds : SF_vars(ReportGone(f))

-----------------------------------------------------------------------------
\* No connection is closed under a client that is still there, however often its
\* number was reported gone before it was reused; only a restart of the bridge does
\* (MonitorBridgeActor::handle(MonitorClientDisconnected), unsubscribeAll).
NoStaleDisconnect ==
    [][\A f \in Fds : (conn[f] # None /\ conn'[f] = None)
                        => client[conn[f]].pc = "left" \/ "monitor_bridge" \in restarted' \ restarted]_vars

\* Once every message is handled, data is collected if and only if the bridge has a
\* connection (the four Subscribe and Unsubscribe handlers, first and last client).
\* A restart of the monitor or the bridge loses track of the demand.
DemandFollowsClients ==
    (bbox = <<>> /\ mbox = <<>> /\ \A g \in Managers : mgrbox[g] = <<>>)
        => \/ \A g \in Managers : mgr[g].sub = (connections # {})
           \/ restarted \cap {"monitor", "monitor_bridge"} # {}

\* A connected client is sent a snapshot again and again (pumpIfNeeded, tryPublish,
\* MonitorSnapshotUpdate), also after a restart of the bridge or a manager.
SnapshotsGoOn ==
    \A c \in Clients : (client[c].pc = "open")
                        ~> (client[c].unread \/ client[c].pc # "open" \/ "monitor" \in restarted)

\* A client that quits comes to an end, although its receiving thread is only
\* released by the next snapshot or the end of the connection (TuiApp::close, recvLoop).
QuitEnds ==
    \A c \in Clients : (client[c].pc = "quitting")
                        ~> (client[c].pc \in {"left", "closed"} \/ "monitor" \in restarted)

\* What the architecture document's sequence diagram shows, without exception: a
\* connected client is sent a snapshot after every poll.
SnapshotsAlways ==
    \A c \in Clients : (client[c].pc = "open") ~> (client[c].unread \/ client[c].pc # "open")
=============================================================================
