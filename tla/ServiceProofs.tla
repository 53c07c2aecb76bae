---------------------------- MODULE ServiceProofs ----------------------------
(***************************************************************************)
(* Proofs about the services.  The demand cascade of the monitor, for any  *)
(* number of clients and descriptors and whichever actor is restarted: no  *)
(* connection is closed under a client that is still there, and once every *)
(* message is handled data is collected exactly if the bridge has a        *)
(* connection.  The two services on the system bus: the refresh flag that  *)
(* the D-Bus thread and the network manager's Tick handler share loses no  *)
(* change of the access points, and the numbers the D-Bus service keeps    *)
(* method calls under give every caller its own answer, for any number of  *)
(* calls, requests and openings.                                           *)
(***************************************************************************)
EXTENDS Monitoring, BusClients, TLAPS, WellFoundedInduction, FiniteSetTheorems

-----------------------------------------------------------------------------
(* Sequences and numbers                                                   *)

\* A set of natural numbers has a least member, which is the one Min chooses.
LEMMA LeastIsMin ==
    ASSUME NEW S \in SUBSET Nat, S # {}
    PROVE  Min(S) \in S /\ \A y \in S : Min(S) <= y
<1>. DEFINE R == {p \in Nat \X Nat : p[1] < p[2]}
<1>1. IsWellFoundedOn(R, Nat)
  BY NatLessThanWellFounded, Zenon DEF OpToRel
<1>2. \E x \in S : \A y \in S : ~ (<<y, x>> \in R)
  BY <1>1, WFMin
<1>3. \A x, y \in S : ~ (<<y, x>> \in R) => x <= y
  OBVIOUS
<1>4. \E x \in S : \A y \in S : x <= y
  <2>. HIDE DEF R
  <2>. QED  BY <1>2, <1>3
<1>. QED  BY <1>4 DEF Min

\* What becomes of the entries of a mailbox when one is appended or taken.
LEMMA Boxes ==
    ASSUME NEW T, NEW s \in Seq(T), NEW x \in T
    PROVE  /\ Append(s, x) \in Seq(T) /\ Len(s) \in Nat /\ DOMAIN s = 1 .. Len(s)
           /\ DOMAIN Append(s, x) = 1 .. Len(s) + 1
           /\ Append(s, x)[Len(s) + 1] = x
           /\ \A i \in 1 .. Len(s) : Append(s, x)[i] = s[i]
           /\ \A i \in 1 .. Len(s) : s[i] \in T
  OBVIOUS

LEMMA BoxTail ==
    ASSUME NEW T, NEW s \in Seq(T), s # <<>>
    PROVE  /\ Tail(s) \in Seq(T) /\ Len(s) \in Nat /\ Len(s) > 0
           /\ DOMAIN s = 1 .. Len(s) /\ DOMAIN Tail(s) = 1 .. Len(s) - 1
           /\ \A i \in 1 .. Len(s) - 1 : Tail(s)[i] = s[i + 1]
           /\ Head(s) = s[1] /\ Head(s) \in T
  OBVIOUS

-----------------------------------------------------------------------------
(* The invariant                                                           *)

Demands == {"subscribe", "unsubscribe"}
MonitorMessages == Demands \cup Managers
ClientPcs == {"new", "open", "quitting", "left", "closed"}
BridgeMessages == [type : {"new", "gone"}, fd : Fds] \cup [type : {"snapshot"}]

MonitorTypes ==
    /\ client \in [Clients -> [pc : ClientPcs, unread : BOOLEAN]]
    /\ conn \in [Fds -> Clients \cup {None}]
    /\ connections \subseteq Fds /\ watched = connections
    /\ bbox \in Seq(BridgeMessages)
    /\ monitor \in [sub : BOOLEAN, data : BOOLEAN] /\ mbox \in Seq(MonitorMessages)
    /\ mgr \in [Managers -> [sub : BOOLEAN, timers : Nat]]
    /\ mgrbox \in [Managers -> Seq(Demands)]

\* A client is accepted once, so it has one connection at most, and the bridge knows
\* only descriptors that are open.
OneConnection ==
    /\ \A f, g \in Fds : conn[f] # None /\ conn[f] = conn[g] => f = g
    /\ \A c \in Clients, f \in Fds : client[c].pc = "new" => conn[f] # c
    /\ \A f \in connections : conn[f] # None

\* A connection that the bridge has still to hear of is open and reported once.
NewReports ==
    /\ \A i \in DOMAIN bbox : bbox[i].type = "new" =>
           conn[bbox[i].fd] # None /\ bbox[i].fd \notin connections
    /\ \A i, j \in DOMAIN bbox :
           bbox[i].type = "new" /\ bbox[j].type = "new" /\ bbox[i].fd = bbox[j].fd => i = j

\* The end that this message reports is of the connection the descriptor has now, or
\* the bridge will not know the descriptor when it comes to the message.
GoneIsTrue(i) ==
    LET f == bbox[i].fd IN
    \/ conn[f] # None /\ client[conn[f]].pc = "left"
    \/ /\ f \notin connections
       /\ \A j \in DOMAIN bbox : j < i => ~(bbox[j].type = "new" /\ bbox[j].fd = f)

GoneReports == \A i \in DOMAIN bbox : bbox[i].type = "gone" => GoneIsTrue(i)

\* After the messages in this mailbox the flag, which is now before, will be after.
Settled(box, before, after) ==
    \/ \E i \in DOMAIN box :
          /\ box[i] \in Demands
          /\ \A j \in DOMAIN box : j > i => box[j] \notin Demands
          /\ after <=> box[i] = "subscribe"
    \/ /\ \A i \in DOMAIN box : box[i] \notin Demands
       /\ before <=> after

\* The demand of each hop is what it will be told by the messages under way.
DemandInv ==
    restarted \cap {"monitor", "monitor_bridge"} = {} =>
        /\ Settled(mbox, monitor.data, connections # {})
        /\ \A g \in Managers : Settled(mgrbox[g], mgr[g].sub, monitor.data)

ConnectionsInv == MonitorTypes /\ OneConnection /\ NewReports /\ GoneReports

-----------------------------------------------------------------------------
(* What a message does to the demand                                       *)

\* A demand that is appended decides; anything else changes nothing.
LEMMA SettledAppend ==
    ASSUME NEW T, NEW s \in Seq(T), NEW x \in T, NEW before \in BOOLEAN, NEW after \in BOOLEAN
    PROVE  /\ x \in Demands => Settled(Append(s, x), before, x = "subscribe")
           /\ x \notin Demands /\ Settled(s, before, after) => Settled(Append(s, x), before, after)
<1>. DEFINE t == Append(s, x)
            n == Len(s)
<1>1. /\ n \in Nat /\ DOMAIN s = 1 .. n /\ DOMAIN t = 1 .. n + 1 /\ t[n + 1] = x
      /\ \A i \in 1 .. n : t[i] = s[i]
  BY Boxes
<1>. HIDE DEF t, n
<1>2. n + 1 \in DOMAIN t /\ \A j \in DOMAIN t : ~(j > n + 1)
  BY <1>1
<1>3. x \in Demands => Settled(t, before, x = "subscribe")
  BY <1>1, <1>2 DEF Settled
<1>4. ASSUME x \notin Demands, Settled(s, before, after)
      PROVE  Settled(t, before, after)
  <2>1. CASE \E i \in DOMAIN s : /\ s[i] \in Demands
                                 /\ \A j \in DOMAIN s : j > i => s[j] \notin Demands
                                 /\ after <=> s[i] = "subscribe"
    <3>1. PICK i \in 1 .. n : /\ s[i] \in Demands
                              /\ \A j \in 1 .. n : j > i => s[j] \notin Demands
                              /\ after <=> s[i] = "subscribe"
      BY <1>1, <2>1
    <3>2. i \in DOMAIN t /\ t[i] = s[i]
      BY <1>1
    <3>3. \A j \in DOMAIN t : j > i => t[j] \notin Demands
      <4>. SUFFICES ASSUME NEW j \in 1 .. n + 1, j > i
                    PROVE  t[j] \notin Demands
        BY <1>1
      <4>1. CASE j = n + 1
        BY <1>1, <1>4, <4>1
      <4>2. CASE j \in 1 .. n
        BY <1>1, <3>1, <4>2
      <4>. QED  BY <1>1, <4>1, <4>2
    <3>. QED  BY <3>1, <3>2, <3>3 DEF Settled
  <2>2. CASE (\A i \in DOMAIN s : s[i] \notin Demands) /\ (before <=> after)
    <3>1. \A i \in DOMAIN t : t[i] \notin Demands
      <4>. SUFFICES ASSUME NEW j \in 1 .. n + 1
                    PROVE  t[j] \notin Demands
        BY <1>1
      <4>1. CASE j = n + 1
        BY <1>1, <1>4, <4>1
      <4>2. CASE j \in 1 .. n
        BY <1>1, <2>2, <4>2
      <4>. QED  BY <1>1, <4>1, <4>2
    <3>. QED  BY <2>2, <3>1 DEF Settled
  <2>. QED  BY <1>4, <2>1, <2>2 DEF Settled
<1>. QED  BY <1>3, <1>4 DEF t

\* Handling the first message sets the flag if it is a demand.
LEMMA SettledTail ==
    ASSUME NEW T, NEW s \in Seq(T), s # <<>>, NEW before \in BOOLEAN, NEW after \in BOOLEAN,
           NEW next \in BOOLEAN, Settled(s, before, after),
           next <=> IF Head(s) \in Demands THEN Head(s) = "subscribe" ELSE before
    PROVE  Settled(Tail(s), next, after)
<1>. DEFINE t == Tail(s)
            n == Len(s)
<1>1. /\ n \in Nat /\ n > 0 /\ DOMAIN s = 1 .. n /\ DOMAIN t = 1 .. n - 1
      /\ \A i \in 1 .. n - 1 : t[i] = s[i + 1]
      /\ Head(s) = s[1]
  BY BoxTail
<1>. HIDE DEF t, n
<1>2. CASE \E i \in DOMAIN s : /\ s[i] \in Demands
                               /\ \A j \in DOMAIN s : j > i => s[j] \notin Demands
                               /\ after <=> s[i] = "subscribe"
  <2>1. PICK i \in 1 .. n : /\ s[i] \in Demands
                            /\ \A j \in 1 .. n : j > i => s[j] \notin Demands
                            /\ after <=> s[i] = "subscribe"
    BY <1>1, <1>2
  <2>2. CASE i = 1
    <3>1. \A j \in DOMAIN t : t[j] \notin Demands
      <4>. SUFFICES ASSUME NEW j \in 1 .. n - 1
                    PROVE  t[j] \notin Demands
        BY <1>1
      <4>1. j + 1 \in 1 .. n /\ j + 1 > i /\ t[j] = s[j + 1]
        BY <1>1, <2>2
      <4>. QED  BY <2>1, <4>1
    <3>2. next <=> after
      BY <1>1, <2>1, <2>2
    <3>. QED  BY <3>1, <3>2 DEF Settled, t
  <2>3. CASE i > 1
    <3>1. i - 1 \in DOMAIN t /\ t[i - 1] = s[i]
      BY <1>1, <2>3
    <3>2. \A j \in DOMAIN t : j > i - 1 => t[j] \notin Demands
      <4>. SUFFICES ASSUME NEW j \in 1 .. n - 1, j > i - 1
                    PROVE  t[j] \notin Demands
        BY <1>1
      <4>1. j + 1 \in 1 .. n /\ j + 1 > i /\ t[j] = s[j + 1]
        BY <1>1
      <4>. QED  BY <2>1, <4>1
    <3>. QED  BY <2>1, <3>1, <3>2 DEF Settled, t
  <2>. QED  BY <1>1, <2>2, <2>3
<1>3. CASE (\A i \in DOMAIN s : s[i] \notin Demands) /\ (before <=> after)
  <2>1. \A j \in DOMAIN t : t[j] \notin Demands
    <3>. SUFFICES ASSUME NEW j \in 1 .. n - 1
                  PROVE  t[j] \notin Demands
      BY <1>1
    <3>1. j + 1 \in 1 .. n /\ t[j] = s[j + 1]
      BY <1>1
    <3>. QED  BY <1>1, <1>3, <3>1
  <2>2. next <=> after
    <3>1. Head(s) \notin Demands
      BY <1>1, <1>3
    <3>. QED  BY <1>3, <3>1
  <2>. QED  BY <2>1, <2>2 DEF Settled, t
<1>. QED  BY <1>2, <1>3 DEF Settled

-----------------------------------------------------------------------------
(* Types                                                                   *)

\* Facts about a client's record that the provers do not see under EXCEPT.
LEMMA FedType ==
    ASSUME NEW c \in [pc : ClientPcs, unread : BOOLEAN]
    PROVE  Fed(c) \in [pc : ClientPcs, unread : BOOLEAN] /\ Fed(c).pc = c.pc
<1>1. (c.pc # "left") \in BOOLEAN
  OBVIOUS
<1>. QED  BY <1>1 DEF Fed

LEMMA TypesInit == Init => MonitorTypes
<1>. SUFFICES ASSUME Init PROVE MonitorTypes
  OBVIOUS
<1>1. bbox \in Seq(BridgeMessages) /\ mbox \in Seq(MonitorMessages)
  BY DEF Init
<1>2. mgrbox \in [Managers -> Seq(Demands)]
  BY DEF Init
<1>. QED  BY <1>1, <1>2 DEF Init, MonitorTypes, ClientPcs

LEMMA TakeFirst ==
    ASSUME NEW T, NEW s \in Seq(T), s # <<>>
    PROVE  Head(s) \in T /\ Tail(s) \in Seq(T)
  OBVIOUS

LEMMA PutLast ==
    ASSUME NEW T, NEW s \in Seq(T), NEW x \in T
    PROVE  Append(s, x) \in Seq(T)
  OBVIOUS

LEMMA TypesStep == MonitorTypes /\ [Next]_vars => MonitorTypes'
<1>. SUFFICES ASSUME MonitorTypes, [Next]_vars PROVE MonitorTypes'
  OBVIOUS
<1>. USE DEF MonitorTypes
<1>1. ASSUME NEW c \in Clients, Accept(c) \/ Recv(c) \/ Quit(c) \/ Leave(c)
      PROVE  MonitorTypes'
  <2>1. CASE Accept(c)
    <3>. DEFINE free == {f \in Fds : conn[f] = None}
    <3>1. free \in SUBSET Nat /\ free # {}
      BY <2>1, MonitoringAssumption DEF Accept
    <3>2. Min(free) \in Fds
      BY <3>1, LeastIsMin
    <3>3. [type |-> "new", fd |-> Min(free)] \in BridgeMessages
      BY <3>2 DEF BridgeMessages
    <3>. HIDE DEF free
    <3>4. /\ client' = [client EXCEPT ![c].pc = "open"]
          /\ conn' = [conn EXCEPT ![Min(free)] = c]
          /\ bbox' = Append(bbox, [type |-> "new", fd |-> Min(free)])
          /\ UNCHANGED <<watched, connections, monVars, mgrVars, restarted>>
      BY <2>1 DEF Accept, free
    <3>5. bbox' \in Seq(BridgeMessages)
      BY <3>3, <3>4, PutLast
    <3>. QED  BY <3>2, <3>4, <3>5 DEF monVars, mgrVars, ClientPcs
  <2>2. CASE Recv(c)
    <3>1. client' \in [Clients -> [pc : ClientPcs, unread : BOOLEAN]]
      BY <2>2 DEF Recv, ClientPcs
    <3>. QED  BY <2>2, <3>1 DEF Recv, bridgeVars, monVars, mgrVars
  <2>3. CASE Quit(c)
    BY <2>3 DEF Quit, ClientPcs, bridgeVars, monVars, mgrVars
  <2>4. CASE Leave(c)
    BY <2>4 DEF Leave, ClientPcs, bridgeVars, monVars, mgrVars
  <2>. QED  BY <1>1, <2>1, <2>2, <2>3, <2>4
<1>2. ASSUME NEW f \in Fds, ReportGone(f)
      PROVE  MonitorTypes'
  <2>1. [type |-> "gone", fd |-> f] \in BridgeMessages
    BY DEF BridgeMessages
  <2>2. bbox' \in Seq(BridgeMessages)
    BY <1>2, <2>1, PutLast DEF ReportGone
  <2>. QED  BY <1>2, <2>2 DEF ReportGone, netVars, monVars, mgrVars
<1>3. CASE MonitorNewConnection
  <2>1. /\ bbox # <<>> /\ Head(bbox).type = "new" /\ bbox' = Tail(bbox)
        /\ connections' = connections \cup {Head(bbox).fd}
        /\ watched' = watched \cup {Head(bbox).fd}
        /\ mbox' = mbox \/ mbox' = Append(mbox, "subscribe")
        /\ UNCHANGED <<client, conn, monitor, mgrVars, restarted>>
    BY <1>3 DEF MonitorNewConnection, BridgeTakes
  <2>2. Head(bbox) \in BridgeMessages /\ bbox' \in Seq(BridgeMessages)
    BY <2>1, TakeFirst
  <2>3. Head(bbox).fd \in Fds
    BY <2>1, <2>2 DEF BridgeMessages
  <2>4. mbox' \in Seq(MonitorMessages)
    <3>1. "subscribe" \in MonitorMessages /\ "unsubscribe" \in MonitorMessages
      BY DEF MonitorMessages, Demands
    <3>2. \A m \in MonitorMessages : Append(mbox, m) \in Seq(MonitorMessages)
      BY PutLast
    <3>. QED  BY <2>1, <3>1, <3>2
  <2>. QED  BY <2>1, <2>2, <2>3, <2>4 DEF mgrVars
<1>4. CASE MonitorClientDisconnected
  <2>1. /\ bbox # <<>> /\ Head(bbox).type = "gone" /\ bbox' = Tail(bbox)
        /\ \/ /\ connections' = connections \ {Head(bbox).fd}
              /\ watched' = watched \ {Head(bbox).fd}
              /\ conn' = [conn EXCEPT ![Head(bbox).fd] = None]
              /\ mbox' = mbox \/ mbox' = Append(mbox, "unsubscribe")
           \/ UNCHANGED <<connections, watched, conn, mbox>>
        /\ UNCHANGED <<client, monitor, mgrVars, restarted>>
    BY <1>4 DEF MonitorClientDisconnected, BridgeTakes
  <2>2. Head(bbox) \in BridgeMessages /\ bbox' \in Seq(BridgeMessages)
    BY <2>1, TakeFirst
  <2>3. Head(bbox).fd \in Fds
    BY <2>1, <2>2 DEF BridgeMessages
  <2>4. mbox' \in Seq(MonitorMessages)
    <3>1. "subscribe" \in MonitorMessages /\ "unsubscribe" \in MonitorMessages
      BY DEF MonitorMessages, Demands
    <3>2. \A m \in MonitorMessages : Append(mbox, m) \in Seq(MonitorMessages)
      BY PutLast
    <3>. QED  BY <2>1, <3>1, <3>2
  <2>. QED  BY <2>1, <2>2, <2>3, <2>4 DEF mgrVars
<1>5. CASE MonitorSnapshotUpdate
  <2>1. /\ bbox # <<>> /\ bbox' = Tail(bbox)
        /\ client' = [c \in Clients |-> IF \E f \in connections : conn[f] = c
                                        THEN Fed(client[c]) ELSE client[c]]
        /\ UNCHANGED <<conn, watched, connections, monVars, mgrVars, restarted>>
    BY <1>5 DEF MonitorSnapshotUpdate, BridgeTakes
  <2>2. bbox' \in Seq(BridgeMessages)
    BY <2>1, TakeFirst
  <2>3. client' \in [Clients -> [pc : ClientPcs, unread : BOOLEAN]]
    BY <2>1, FedType
  <2>. QED  BY <2>1, <2>2, <2>3 DEF monVars, mgrVars
<1>6. CASE MonitorSubscribe \/ MonitorUnsubscribe
  <2>1. /\ mbox # <<>> /\ mbox' = Tail(mbox)
        /\ monitor' \in [sub : BOOLEAN, data : BOOLEAN]
        /\ \/ mgrbox' = mgrbox
           \/ \E msg \in Demands : mgrbox' = [g \in Managers |-> Append(mgrbox[g], msg)]
        /\ UNCHANGED <<netVars, bridgeVars, mgr, restarted>>
    <3>. USE DEF MonitorTakes, ToManagers
    <3>1. "subscribe" \in Demands /\ "unsubscribe" \in Demands
      BY DEF Demands
    <3>2. CASE MonitorSubscribe
      <4>1. monitor' = [monitor EXCEPT !.sub = TRUE, !.data = TRUE]
        BY <3>2 DEF MonitorSubscribe
      <4>2. monitor' \in [sub : BOOLEAN, data : BOOLEAN]
        BY <4>1
      <4>. QED  BY <3>1, <3>2, <4>2 DEF MonitorSubscribe
    <3>3. CASE MonitorUnsubscribe
      <4>1. monitor' = [sub |-> FALSE, data |-> FALSE] \/ monitor' = [monitor EXCEPT !.sub = FALSE]
        BY <3>3 DEF MonitorUnsubscribe
      <4>2. /\ [sub |-> FALSE, data |-> FALSE] \in [sub : BOOLEAN, data : BOOLEAN]
            /\ [monitor EXCEPT !.sub = FALSE] \in [sub : BOOLEAN, data : BOOLEAN]
        OBVIOUS
      <4>3. monitor' \in [sub : BOOLEAN, data : BOOLEAN]
        BY <4>1, <4>2, Zenon
      <4>. QED  BY <3>1, <3>3, <4>3 DEF MonitorUnsubscribe
    <3>. QED  BY <1>6, <3>2, <3>3
  <2>2. mbox' \in Seq(MonitorMessages)
    BY <2>1, TakeFirst
  <2>3. mgrbox' \in [Managers -> Seq(Demands)]
    <3>1. \A g \in Managers, msg \in Demands : Append(mgrbox[g], msg) \in Seq(Demands)
      BY PutLast
    <3>2. CASE mgrbox' = mgrbox
      BY <3>2
    <3>3. ASSUME NEW msg \in Demands, mgrbox' = [g \in Managers |-> Append(mgrbox[g], msg)]
          PROVE  mgrbox' \in [Managers -> Seq(Demands)]
      BY <3>1, <3>3
    <3>. QED  BY <2>1, <3>2, <3>3
  <2>. QED  BY <2>1, <2>2, <2>3 DEF netVars, bridgeVars
<1>7. ASSUME NEW g \in Managers, DataUpdate(g)
      PROVE  MonitorTypes'
  <2>1. mbox' \in Seq(MonitorMessages)
    BY <1>7, TakeFirst DEF DataUpdate, MonitorTakes
  <2>2. [type |-> "snapshot"] \in BridgeMessages
    BY DEF BridgeMessages
  <2>3. bbox' \in Seq(BridgeMessages)
    BY <1>7, <2>2, PutLast DEF DataUpdate
  <2>. QED  BY <1>7, <2>1, <2>3 DEF DataUpdate, netVars, mgrVars
<1>8. ASSUME NEW g \in Managers, NEW ok \in BOOLEAN, DataSubscribe(g, ok) \/ DataTick(g, ok)
      PROVE  MonitorTypes'
  <2>1. mbox' = mbox \/ mbox' = Append(mbox, g)
    BY <1>8 DEF DataSubscribe, DataTick, Pump
  <2>2. mbox' \in Seq(MonitorMessages)
    <3>1. g \in MonitorMessages
      BY DEF MonitorMessages
    <3>2. \A m \in MonitorMessages : Append(mbox, m) \in Seq(MonitorMessages)
      BY PutLast
    <3>. QED  BY <2>1, <3>1, <3>2
  <2>3. mgrbox' \in [Managers -> Seq(Demands)] /\ mgr' \in [Managers -> [sub : BOOLEAN, timers : Nat]]
    <3>1. mgrbox[g] # <<>> => Tail(mgrbox[g]) \in Seq(Demands)
      BY TakeFirst
    <3>2. CASE DataTick(g, ok)
      BY <3>2 DEF DataTick, mgrVars
    <3>3. CASE DataSubscribe(g, ok)
      <4>1. /\ mgrbox[g] # <<>> /\ mgrbox' = [mgrbox EXCEPT ![g] = Tail(mgrbox[g])]
            /\ mgr' = [mgr EXCEPT ![g].sub = TRUE]
        BY <3>3 DEF DataSubscribe
      <4>2. mgrbox' \in [Managers -> Seq(Demands)]
        BY <3>1, <4>1
      <4>3. mgr' \in [Managers -> [sub : BOOLEAN, timers : Nat]]
        BY <4>1
      <4>. QED  BY <4>2, <4>3
    <3>. QED  BY <1>8, <3>2, <3>3
  <2>. QED  BY <1>8, <2>2, <2>3 DEF DataSubscribe, DataTick, netVars, bridgeVars, mgrVars
<1>9. ASSUME NEW g \in Managers, DataUnsubscribe(g)
      PROVE  MonitorTypes'
  <2>1. mgrbox' \in [Managers -> Seq(Demands)] /\ mgr' \in [Managers -> [sub : BOOLEAN, timers : Nat]]
    <3>1. mgrbox[g] # <<>> => Tail(mgrbox[g]) \in Seq(Demands)
      BY TakeFirst
    <3>. QED  BY <1>9, <3>1 DEF DataUnsubscribe
  <2>. QED  BY <1>9, <2>1 DEF DataUnsubscribe, netVars, bridgeVars, monVars
<1>10. ASSUME NEW a \in Restartable, Restart(a)
       PROVE  MonitorTypes'
  <2>1. CASE a \in Managers /\ RestartManager(a)
    <3>1. mgr' \in [Managers -> [sub : BOOLEAN, timers : Nat]]
      <4>1. mgr[a] \in [sub : BOOLEAN, timers : Nat]
        BY <2>1
      <4>2. mgr[a].timers + 1 \in Nat
        BY <4>1
      <4>. QED  BY <2>1, <4>2 DEF RestartManager
    <3>. QED  BY <2>1, <3>1 DEF RestartManager, netVars, bridgeVars, monVars
  <2>2. CASE RestartMonitor
    BY <2>2 DEF RestartMonitor, netVars, bridgeVars, mgrVars
  <2>3. CASE RestartBridge
    <3>1. client' \in [Clients -> [pc : ClientPcs, unread : BOOLEAN]]
      BY <2>3 DEF RestartBridge, ClientPcs
    <3>. QED  BY <2>3, <3>1 DEF RestartBridge, monVars, mgrVars
  <2>. QED  BY <1>10, <2>1, <2>2, <2>3 DEF Restart
<1>11. CASE UNCHANGED vars
  BY <1>11 DEF vars, netVars, bridgeVars, monVars, mgrVars
<1>. QED
  BY <1>1, <1>2, <1>3, <1>4, <1>5, <1>6, <1>7, <1>8, <1>9, <1>10, <1>11
     DEF Next, BridgeStep, MonitorStep, ManagerStep

-----------------------------------------------------------------------------
(* The connections                                                         *)

\* Nothing of the connections changes but clients that were not gone: none of them
\* comes back or is new again.
LEMMA ClientsMove ==
    ASSUME ConnectionsInv, MonitorTypes', UNCHANGED <<conn, connections, bbox>>,
           \A c \in Clients : /\ client[c].pc = "left" => client'[c].pc = "left"
                              /\ client'[c].pc = "new" => client[c].pc = "new"
    PROVE  ConnectionsInv'
<1>1. OneConnection'
  BY DEF ConnectionsInv, MonitorTypes, OneConnection
<1>2. NewReports'
  BY DEF ConnectionsInv, NewReports
<1>3. GoneReports'
  <2>. SUFFICES ASSUME NEW i \in DOMAIN bbox, bbox[i].type = "gone"
                PROVE  GoneIsTrue(i)'
    BY DEF GoneReports
  <2>1. GoneIsTrue(i)
    BY DEF ConnectionsInv, GoneReports
  <2>2. bbox[i].fd \in Fds
    <3>1. bbox[i] \in BridgeMessages
      BY Boxes DEF ConnectionsInv, MonitorTypes
    <3>. QED  BY <3>1 DEF BridgeMessages
  <2>. QED  BY <2>1, <2>2 DEF GoneIsTrue, ConnectionsInv, MonitorTypes
<1>. QED  BY <1>1, <1>2, <1>3 DEF ConnectionsInv

\* The descriptor a report is about.
LEMMA ReportFd ==
    ASSUME MonitorTypes, NEW i \in DOMAIN bbox, bbox[i].type \in {"new", "gone"}
    PROVE  bbox[i].fd \in Fds
<1>1. bbox[i] \in BridgeMessages
  BY Boxes DEF MonitorTypes
<1>. QED  BY <1>1 DEF BridgeMessages

\* The bridge takes a message; what the others report stays true.
LEMMA BridgeTook ==
    ASSUME ConnectionsInv, MonitorTypes', OneConnection', bbox # <<>>, bbox' = Tail(bbox),
           \A i \in DOMAIN bbox : i > 1 /\ bbox[i].type = "new" =>
               conn'[bbox[i].fd] # None /\ bbox[i].fd \notin connections',
           \A i \in DOMAIN bbox : i > 1 /\ bbox[i].type = "gone" =>
               LET f == bbox[i].fd IN
               \/ conn'[f] # None /\ client'[conn'[f]].pc = "left"
               \/ /\ f \notin connections'
                  /\ \A j \in DOMAIN bbox : 1 < j /\ j < i => ~(bbox[j].type = "new" /\ bbox[j].fd = f)
    PROVE  ConnectionsInv'
<1>. DEFINE n == Len(bbox)
<1>1. /\ n \in Nat /\ n > 0 /\ DOMAIN bbox = 1 .. n /\ DOMAIN bbox' = 1 .. n - 1
      /\ \A i \in 1 .. n - 1 : bbox'[i] = bbox[i + 1]
  BY BoxTail DEF ConnectionsInv, MonitorTypes
<1>. HIDE DEF n
<1>2. \A i \in DOMAIN bbox' : i + 1 \in DOMAIN bbox /\ i + 1 > 1 /\ bbox'[i] = bbox[i + 1]
  BY <1>1
<1>3. NewReports'
  <2>1. \A i \in DOMAIN bbox' : bbox'[i].type = "new" =>
            conn'[bbox'[i].fd] # None /\ bbox'[i].fd \notin connections'
    BY <1>2
  <2>2. ASSUME NEW i \in DOMAIN bbox', NEW j \in DOMAIN bbox',
               bbox'[i].type = "new", bbox'[j].type = "new", bbox'[i].fd = bbox'[j].fd
        PROVE  i = j
    <3>1. i + 1 = j + 1
      BY <1>2, <2>2 DEF ConnectionsInv, NewReports
    <3>. QED  BY <1>1, <3>1
  <2>. QED  BY <2>1, <2>2 DEF NewReports
<1>4. GoneReports'
  <2>. SUFFICES ASSUME NEW i \in DOMAIN bbox', bbox'[i].type = "gone"
                PROVE  GoneIsTrue(i)'
    BY DEF GoneReports
  <2>1. i + 1 \in DOMAIN bbox /\ i + 1 > 1 /\ bbox'[i] = bbox[i + 1]
    BY <1>2
  <2>2. CASE conn'[bbox'[i].fd] # None /\ client'[conn'[bbox'[i].fd]].pc = "left"
    BY <2>2 DEF GoneIsTrue
  <2>3. CASE /\ bbox'[i].fd \notin connections'
             /\ \A j \in DOMAIN bbox : 1 < j /\ j < i + 1
                    => ~(bbox[j].type = "new" /\ bbox[j].fd = bbox'[i].fd)
    <3>1. \A j \in DOMAIN bbox' : j < i => ~(bbox'[j].type = "new" /\ bbox'[j].fd = bbox'[i].fd)
      <4>. SUFFICES ASSUME NEW j \in DOMAIN bbox', j < i
                    PROVE  ~(bbox'[j].type = "new" /\ bbox'[j].fd = bbox'[i].fd)
        OBVIOUS
      <4>1. j + 1 \in DOMAIN bbox /\ 1 < j + 1 /\ j + 1 < i + 1 /\ bbox'[j] = bbox[j + 1]
        BY <1>1, <1>2
      <4>. QED  BY <2>3, <4>1
    <3>. QED  BY <2>3, <3>1 DEF GoneIsTrue
  <2>. QED  BY <2>1, <2>2, <2>3
<1>. QED  BY <1>3, <1>4 DEF ConnectionsInv

\* A message is appended for the bridge, and what is there stays true.
LEMMA BridgeGot ==
    ASSUME ConnectionsInv, MonitorTypes', OneConnection', NEW m \in BridgeMessages,
           bbox' = Append(bbox, m), connections' = connections, client' = client \/ m.type = "new",
           \A f \in Fds : conn[f] # None => conn'[f] = conn[f] /\ client'[conn[f]] = client[conn[f]],
           m.type = "new" => /\ conn[m.fd] = None /\ conn'[m.fd] # None,
           m.type = "gone" => conn'[m.fd] # None /\ client'[conn'[m.fd]].pc = "left"
    PROVE  ConnectionsInv'
<1>. DEFINE n == Len(bbox)
<1>1. /\ n \in Nat /\ DOMAIN bbox = 1 .. n /\ DOMAIN bbox' = 1 .. n + 1 /\ bbox'[n + 1] = m
      /\ \A i \in 1 .. n : bbox'[i] = bbox[i]
  BY Boxes DEF ConnectionsInv, MonitorTypes
<1>. HIDE DEF n
<1>2. \A i \in DOMAIN bbox' : \/ i = n + 1 /\ bbox'[i] = m
                              \/ i \in DOMAIN bbox /\ i < n + 1 /\ bbox'[i] = bbox[i]
  BY <1>1
<1>3. m.type = "new" => m.fd \in Fds /\ m.fd \notin connections
  BY DEF BridgeMessages, ConnectionsInv, OneConnection
<1>4. \A i \in DOMAIN bbox : bbox[i].type = "new" => bbox[i].fd \in Fds
  BY ReportFd DEF ConnectionsInv
<1>5. NewReports'
  <2>1. ASSUME NEW i \in DOMAIN bbox', bbox'[i].type = "new"
        PROVE  conn'[bbox'[i].fd] # None /\ bbox'[i].fd \notin connections'
    <3>1. CASE i = n + 1 /\ bbox'[i] = m
      BY <1>3, <2>1, <3>1
    <3>2. CASE i \in DOMAIN bbox /\ bbox'[i] = bbox[i]
      <4>1. conn[bbox[i].fd] # None /\ bbox[i].fd \notin connections /\ bbox[i].fd \in Fds
        BY <1>4, <2>1, <3>2 DEF ConnectionsInv, NewReports
      <4>. QED  BY <3>2, <4>1
    <3>. QED  BY <1>2, <3>1, <3>2
  <2>2. ASSUME NEW i \in DOMAIN bbox', NEW j \in DOMAIN bbox',
               bbox'[i].type = "new", bbox'[j].type = "new", bbox'[i].fd = bbox'[j].fd
        PROVE  i = j
    <3>1. \A k \in DOMAIN bbox : bbox[k].type = "new" /\ m.type = "new" => bbox[k].fd # m.fd
      BY DEF ConnectionsInv, NewReports
    <3>. QED  BY <1>2, <2>2, <3>1 DEF ConnectionsInv, NewReports
  <2>. QED  BY <2>1, <2>2 DEF NewReports
<1>6. GoneReports'
  <2>. SUFFICES ASSUME NEW i \in DOMAIN bbox', bbox'[i].type = "gone"
                PROVE  GoneIsTrue(i)'
    BY DEF GoneReports
  <2>1. CASE i = n + 1 /\ bbox'[i] = m
    BY <2>1 DEF GoneIsTrue
  <2>2. CASE i \in DOMAIN bbox /\ i < n + 1 /\ bbox'[i] = bbox[i]
    <3>1. GoneIsTrue(i) /\ bbox[i].fd \in Fds
      BY <2>2, ReportFd DEF ConnectionsInv, GoneReports
    <3>2. CASE conn[bbox[i].fd] # None /\ client[conn[bbox[i].fd]].pc = "left"
      BY <2>2, <3>1, <3>2 DEF GoneIsTrue
    <3>3. CASE /\ bbox[i].fd \notin connections
               /\ \A j \in DOMAIN bbox : j < i => ~(bbox[j].type = "new" /\ bbox[j].fd = bbox[i].fd)
      <4>1. \A j \in DOMAIN bbox' : j < i => j \in DOMAIN bbox /\ bbox'[j] = bbox[j]
        BY <1>1, <2>2
      <4>. QED  BY <2>2, <3>3, <4>1 DEF GoneIsTrue
    <3>. QED  BY <3>1, <3>2, <3>3 DEF GoneIsTrue
  <2>. QED  BY <1>2, <2>1, <2>2
<1>. QED  BY <1>5, <1>6 DEF ConnectionsInv

LEMMA ConnectionsInit == Init => ConnectionsInv
<1>. SUFFICES ASSUME Init PROVE ConnectionsInv
  OBVIOUS
<1>1. MonitorTypes
  BY TypesInit
<1>2. DOMAIN bbox = {}
  BY DEF Init
<1>3. NewReports /\ GoneReports
  BY <1>2 DEF NewReports, GoneReports
<1>4. OneConnection
  BY MonitoringAssumption DEF Init, OneConnection, None
<1>. QED  BY <1>1, <1>3, <1>4 DEF ConnectionsInv

\* accept() gives the client the lowest free number; nobody meant it before.
LEMMA AcceptKeeps ==
    ASSUME ConnectionsInv, MonitorTypes', NEW c \in Clients, Accept(c)
    PROVE  ConnectionsInv'
<1>. DEFINE f == Min({g \in Fds : conn[g] = None})
<1>1. f \in Fds /\ conn[f] = None
  <2>1. {g \in Fds : conn[g] = None} \in SUBSET Nat /\ {g \in Fds : conn[g] = None} # {}
    BY MonitoringAssumption DEF Accept
  <2>2. f \in {g \in Fds : conn[g] = None}
    BY <2>1, LeastIsMin
  <2>. QED  BY <2>2
<1>2. /\ client[c].pc = "new" /\ client' = [client EXCEPT ![c].pc = "open"]
      /\ conn' = [conn EXCEPT ![f] = c] /\ connections' = connections
      /\ bbox' = Append(bbox, [type |-> "new", fd |-> f])
  BY DEF Accept
<1>. HIDE DEF f
<1>. USE DEF ConnectionsInv
<1>3. c # None
  BY MonitoringAssumption DEF None
<1>4. conn'[f] = c /\ \A g \in Fds : g # f => conn'[g] = conn[g] /\ conn[g] # c
  BY <1>1, <1>2 DEF MonitorTypes, OneConnection
<1>5. client'[c].pc = "open" /\ \A d \in Clients : d # c => client'[d] = client[d]
  BY <1>2 DEF MonitorTypes
<1>6. OneConnection'
  <2>1. \A g, h \in Fds : conn'[g] # None /\ conn'[g] = conn'[h] => g = h
    BY <1>1, <1>4 DEF OneConnection
  <2>2. \A d \in Clients, g \in Fds : client'[d].pc = "new" => conn'[g] # d
    BY <1>1, <1>4, <1>5 DEF OneConnection
  <2>3. \A g \in connections' : conn'[g] # None
    BY <1>1, <1>2, <1>3, <1>4 DEF OneConnection, MonitorTypes
  <2>. QED  BY <2>1, <2>2, <2>3 DEF OneConnection
<1>7. \A g \in Fds : conn[g] # None => conn'[g] = conn[g] /\ client'[conn[g]] = client[conn[g]]
  BY <1>1, <1>4, <1>5 DEF MonitorTypes
<1>8. [type |-> "new", fd |-> f] \in BridgeMessages
  BY <1>1 DEF BridgeMessages
<1>. QED  BY <1>1, <1>2, <1>3, <1>4, <1>6, <1>7, <1>8, BridgeGot

LEMMA ReportKeeps ==
    ASSUME ConnectionsInv, MonitorTypes', NEW f \in Fds, ReportGone(f)
    PROVE  ConnectionsInv'
<1>1. /\ conn[f] # None /\ client[conn[f]].pc = "left"
      /\ bbox' = Append(bbox, [type |-> "gone", fd |-> f])
      /\ client' = client /\ conn' = conn /\ connections' = connections
  BY DEF ReportGone, netVars
<1>2. [type |-> "gone", fd |-> f] \in BridgeMessages
  BY DEF BridgeMessages
<1>3. OneConnection'
  BY <1>1 DEF ConnectionsInv, OneConnection
<1>. QED  BY <1>1, <1>2, <1>3, BridgeGot

\* The reports after the first say what they said.
LEMMA Others ==
    ASSUME ConnectionsInv
    PROVE  /\ \A i \in DOMAIN bbox : bbox[i].type = "new" =>
                  bbox[i].fd \in Fds /\ conn[bbox[i].fd] # None /\ bbox[i].fd \notin connections
           /\ \A i \in DOMAIN bbox : bbox[i].type = "gone" =>
                  /\ bbox[i].fd \in Fds
                  /\ \/ conn[bbox[i].fd] # None /\ client[conn[bbox[i].fd]].pc = "left"
                     \/ /\ bbox[i].fd \notin connections
                        /\ \A j \in DOMAIN bbox : j < i =>
                              ~(bbox[j].type = "new" /\ bbox[j].fd = bbox[i].fd)
  BY ReportFd DEF ConnectionsInv, NewReports, GoneReports, GoneIsTrue

LEMMA FirstReport ==
    ASSUME MonitorTypes, bbox # <<>>
    PROVE  1 \in DOMAIN bbox /\ Head(bbox) = bbox[1]
  BY BoxTail DEF MonitorTypes

LEMMA NewConnectionKeeps ==
    ASSUME ConnectionsInv, MonitorTypes', MonitorNewConnection
    PROVE  ConnectionsInv'
<1>. DEFINE f == bbox[1].fd
<1>. USE DEF ConnectionsInv
<1>1. /\ bbox # <<>> /\ bbox' = Tail(bbox) /\ 1 \in DOMAIN bbox /\ bbox[1].type = "new"
      /\ connections' = connections \cup {f} /\ client' = client /\ conn' = conn
  BY FirstReport DEF MonitorNewConnection, BridgeTakes
<1>2. f \in Fds /\ conn[f] # None
  BY <1>1, Others
<1>3. OneConnection'
  BY <1>1, <1>2 DEF OneConnection
<1>4. \A i \in DOMAIN bbox : i > 1 /\ bbox[i].type = "new" =>
          conn'[bbox[i].fd] # None /\ bbox[i].fd \notin connections'
  BY <1>1, Others DEF NewReports
<1>5. \A i \in DOMAIN bbox : i > 1 /\ bbox[i].type = "gone" =>
          \/ conn'[bbox[i].fd] # None /\ client'[conn'[bbox[i].fd]].pc = "left"
          \/ /\ bbox[i].fd \notin connections'
             /\ \A j \in DOMAIN bbox : 1 < j /\ j < i
                   => ~(bbox[j].type = "new" /\ bbox[j].fd = bbox[i].fd)
  BY <1>1, Others
<1>. QED  BY <1>1, <1>3, <1>4, <1>5, BridgeTook

\* The first report that a connection has ended, true of the connection of now, closes
\* it; the others of the same end then speak of a descriptor the bridge does not know.
LEMMA DisconnectedKeeps ==
    ASSUME ConnectionsInv, MonitorTypes', MonitorClientDisconnected
    PROVE  ConnectionsInv'
<1>. DEFINE f == bbox[1].fd
<1>. USE DEF ConnectionsInv
<1>1. /\ bbox # <<>> /\ bbox' = Tail(bbox) /\ 1 \in DOMAIN bbox /\ bbox[1].type = "gone"
      /\ client' = client
      /\ \/ /\ f \in connections /\ connections' = connections \ {f}
            /\ conn' = [conn EXCEPT ![f] = None]
         \/ connections' = connections /\ conn' = conn
  BY FirstReport DEF MonitorClientDisconnected, BridgeTakes
<1>2. f \in Fds
  BY <1>1, Others
<1>. HIDE DEF f
<1>3. CASE connections' = connections /\ conn' = conn
  <2>1. OneConnection'
    BY <1>1, <1>3 DEF OneConnection
  <2>2. \A i \in DOMAIN bbox : i > 1 /\ bbox[i].type = "new" =>
            conn'[bbox[i].fd] # None /\ bbox[i].fd \notin connections'
    BY <1>3, Others
  <2>3. \A i \in DOMAIN bbox : i > 1 /\ bbox[i].type = "gone" =>
            \/ conn'[bbox[i].fd] # None /\ client'[conn'[bbox[i].fd]].pc = "left"
            \/ /\ bbox[i].fd \notin connections'
               /\ \A j \in DOMAIN bbox : 1 < j /\ j < i
                     => ~(bbox[j].type = "new" /\ bbox[j].fd = bbox[i].fd)
    BY <1>1, <1>3, Others
  <2>. QED  BY <1>1, <2>1, <2>2, <2>3, BridgeTook
<1>4. CASE f \in connections /\ connections' = connections \ {f} /\ conn' = [conn EXCEPT ![f] = None]
  <2>1. conn'[f] = None /\ \A g \in Fds : g # f => conn'[g] = conn[g]
    BY <1>2, <1>4 DEF MonitorTypes
  <2>2. OneConnection'
    <3>1. \A g, h \in Fds : conn'[g] # None /\ conn'[g] = conn'[h] => g = h
      BY <2>1 DEF OneConnection
    <3>2. \A c \in Clients, g \in Fds : client'[c].pc = "new" => conn'[g] # c
      BY <1>1, <2>1, MonitoringAssumption DEF OneConnection, None
    <3>3. \A g \in connections' : conn'[g] # None
      BY <1>4, <2>1 DEF OneConnection, MonitorTypes
    <3>. QED  BY <3>1, <3>2, <3>3 DEF OneConnection
  <2>3. \A i \in DOMAIN bbox : bbox[i].type = "new" => bbox[i].fd # f
    BY <1>4, Others
  <2>4. \A i \in DOMAIN bbox : i > 1 /\ bbox[i].type = "new" =>
            conn'[bbox[i].fd] # None /\ bbox[i].fd \notin connections'
    BY <1>4, <2>1, <2>3, Others
  <2>5. \A i \in DOMAIN bbox : i > 1 /\ bbox[i].type = "gone" =>
            \/ conn'[bbox[i].fd] # None /\ client'[conn'[bbox[i].fd]].pc = "left"
            \/ /\ bbox[i].fd \notin connections'
               /\ \A j \in DOMAIN bbox : 1 < j /\ j < i
                     => ~(bbox[j].type = "new" /\ bbox[j].fd = bbox[i].fd)
    <3>. SUFFICES ASSUME NEW i \in DOMAIN bbox, bbox[i].type = "gone"
                  PROVE  \/ conn'[bbox[i].fd] # None /\ client'[conn'[bbox[i].fd]].pc = "left"
                         \/ /\ bbox[i].fd \notin connections'
                            /\ \A j \in DOMAIN bbox : 1 < j /\ j < i
                                  => ~(bbox[j].type = "new" /\ bbox[j].fd = bbox[i].fd)
      OBVIOUS
    <3>1. CASE bbox[i].fd = f
      BY <1>4, <2>3, <3>1
    <3>2. CASE bbox[i].fd # f
      BY <1>1, <1>4, <2>1, <3>2, Others
    <3>. QED  BY <3>1, <3>2
  <2>. QED  BY <1>1, <2>2, <2>4, <2>5, BridgeTook
<1>. QED  BY <1>1, <1>3, <1>4

LEMMA SnapshotKeeps ==
    ASSUME ConnectionsInv, MonitorTypes', MonitorSnapshotUpdate
    PROVE  ConnectionsInv'
<1>. USE DEF ConnectionsInv
<1>1. /\ bbox # <<>> /\ bbox' = Tail(bbox) /\ conn' = conn /\ connections' = connections
      /\ client' = [c \in Clients |-> IF \E f \in connections : conn[f] = c
                                      THEN Fed(client[c]) ELSE client[c]]
  BY DEF MonitorSnapshotUpdate, BridgeTakes
<1>2. \A c \in Clients : client'[c].pc = client[c].pc
  BY <1>1, FedType DEF MonitorTypes
<1>3. OneConnection'
  BY <1>1, <1>2 DEF OneConnection
<1>4. \A i \in DOMAIN bbox : i > 1 /\ bbox[i].type = "new" =>
          conn'[bbox[i].fd] # None /\ bbox[i].fd \notin connections'
  BY <1>1, Others
<1>5. \A i \in DOMAIN bbox : i > 1 /\ bbox[i].type = "gone" =>
          \/ conn'[bbox[i].fd] # None /\ client'[conn'[bbox[i].fd]].pc = "left"
          \/ /\ bbox[i].fd \notin connections'
             /\ \A j \in DOMAIN bbox : 1 < j /\ j < i
                   => ~(bbox[j].type = "new" /\ bbox[j].fd = bbox[i].fd)
  BY <1>1, <1>2, Others DEF MonitorTypes
<1>. QED  BY <1>1, <1>3, <1>4, <1>5, BridgeTook

\* unsubscribeAll closes what the bridge knows; connections it has still to hear of stay.
LEMMA RestartBridgeKeeps ==
    ASSUME ConnectionsInv, MonitorTypes', RestartBridge
    PROVE  ConnectionsInv'
<1>. USE DEF ConnectionsInv
<1>1. /\ bbox' = bbox /\ connections' = {}
      /\ \A f \in Fds : conn'[f] = IF f \in connections THEN None ELSE conn[f]
      /\ \A c \in Clients : IF \E f \in connections : conn[f] = c
                            THEN client'[c].pc = "closed" ELSE client'[c] = client[c]
  BY DEF RestartBridge
<1>2. OneConnection'
  <2>1. \A c \in Clients : client'[c].pc = "new" => client[c].pc = "new"
    BY <1>1
  <2>. QED  BY <1>1, <2>1, MonitoringAssumption DEF OneConnection, None
<1>3. NewReports'
  <2>1. \A i \in DOMAIN bbox : bbox[i].type = "new" =>
            conn'[bbox[i].fd] # None /\ bbox[i].fd \notin connections'
    BY <1>1, Others
  <2>. QED  BY <1>1, <2>1 DEF NewReports
<1>4. GoneReports'
  <2>. SUFFICES ASSUME NEW i \in DOMAIN bbox, bbox[i].type = "gone"
                PROVE  GoneIsTrue(i)'
    BY <1>1 DEF GoneReports
  <2>. DEFINE f == bbox[i].fd
  <2>1. f \in Fds
    BY Others
  <2>2. CASE f \in connections
    <3>1. \A j \in DOMAIN bbox : ~(bbox[j].type = "new" /\ bbox[j].fd = f)
      BY <2>2, Others
    <3>. QED  BY <1>1, <3>1 DEF GoneIsTrue
  <2>3. CASE f \notin connections
    <3>1. CASE conn[f] # None /\ client[conn[f]].pc = "left"
      <4>1. conn'[f] = conn[f] /\ conn[f] \in Clients
        BY <1>1, <2>1, <2>3, <3>1 DEF MonitorTypes
      <4>2. \A g \in connections : conn[g] # conn[f]
        BY <2>1, <2>3, <3>1 DEF OneConnection, MonitorTypes
      <4>3. client'[conn[f]] = client[conn[f]]
        BY <1>1, <4>1, <4>2
      <4>. QED  BY <1>1, <3>1, <4>1, <4>3 DEF GoneIsTrue
    <3>2. CASE \A j \in DOMAIN bbox : j < i => ~(bbox[j].type = "new" /\ bbox[j].fd = f)
      BY <1>1, <3>2 DEF GoneIsTrue
    <3>. QED  BY <2>3, <3>1, <3>2, Others
  <2>. QED  BY <2>2, <2>3
<1>. QED  BY <1>2, <1>3, <1>4

LEMMA ConnectionsStep == ConnectionsInv /\ [Next]_vars => ConnectionsInv'
<1>. SUFFICES ASSUME ConnectionsInv, [Next]_vars PROVE ConnectionsInv'
  OBVIOUS
<1>0. MonitorTypes /\ MonitorTypes'
  BY TypesStep DEF ConnectionsInv
<1>1. ASSUME NEW c \in Clients, Recv(c) \/ Quit(c) \/ Leave(c)
      PROVE  ConnectionsInv'
  <2>1. UNCHANGED <<conn, connections, bbox>>
    BY <1>1 DEF Recv, Quit, Leave, bridgeVars
  <2>2. client[c].pc \in {"open", "quitting"} /\ \A d \in Clients : d # c => client'[d] = client[d]
    BY <1>0, <1>1 DEF Recv, Quit, Leave, MonitorTypes
  <2>3. client'[c].pc # "new"
    BY <1>0, <1>1 DEF Recv, Quit, Leave, MonitorTypes
  <2>. QED  BY <1>0, <2>1, <2>2, <2>3, ClientsMove
<1>2. ASSUME NEW g \in Managers, DataUpdate(g)
      PROVE  ConnectionsInv'
  <2>1. client' = client /\ conn' = conn /\ connections' = connections
    BY <1>2 DEF DataUpdate, netVars
  <2>2. OneConnection'
    BY <2>1 DEF ConnectionsInv, OneConnection
  <2>3. CASE bbox' = bbox
    BY <1>0, <2>1, <2>3, ClientsMove
  <2>4. CASE bbox' = Append(bbox, [type |-> "snapshot"])
    <3>1. [type |-> "snapshot"] \in BridgeMessages
      BY DEF BridgeMessages
    <3>. QED  BY <1>0, <2>1, <2>2, <2>4, <3>1, BridgeGot
  <2>. QED  BY <1>2, <2>3, <2>4 DEF DataUpdate
<1>3. ASSUME UNCHANGED <<client, conn, connections, bbox>>
      PROVE  ConnectionsInv'
  BY <1>0, <1>3, ClientsMove
<1>4. CASE MonitorSubscribe \/ MonitorUnsubscribe
  BY <1>3, <1>4 DEF MonitorSubscribe, MonitorUnsubscribe, netVars, bridgeVars
<1>5. ASSUME NEW g \in Managers, NEW ok \in BOOLEAN,
             DataSubscribe(g, ok) \/ DataTick(g, ok) \/ DataUnsubscribe(g)
      PROVE  ConnectionsInv'
  BY <1>3, <1>5 DEF DataSubscribe, DataTick, DataUnsubscribe, netVars, bridgeVars
<1>6. ASSUME NEW a \in Restartable, Restart(a)
      PROVE  ConnectionsInv'
  <2>1. CASE RestartManager(a) \/ RestartMonitor
    BY <1>3, <2>1 DEF RestartManager, RestartMonitor, netVars, bridgeVars
  <2>. QED  BY <1>0, <1>6, <2>1, RestartBridgeKeeps DEF Restart
<1>7. CASE UNCHANGED vars
  BY <1>3, <1>7 DEF vars, netVars, bridgeVars
<1>. QED
  BY <1>0, <1>1, <1>2, <1>4, <1>5, <1>6, <1>7, AcceptKeeps, ReportKeeps, NewConnectionKeeps,
     DisconnectedKeeps, SnapshotKeeps DEF Next, BridgeStep, MonitorStep, ManagerStep

\* The report the bridge acts on is true of the connection it closes, and no other step
\* but a restart of the bridge closes one.
THEOREM NoConnectionClosedUnderClient == Spec => NoStaleDisconnect
<1>1. ConnectionsInv /\ [Next]_vars =>
        [\A f \in Fds : (conn[f] # None /\ conn'[f] = None)
                          => client[conn[f]].pc = "left" \/ "monitor_bridge" \in restarted' \ restarted]_vars
  <2>. SUFFICES ASSUME ConnectionsInv, Next, NEW f \in Fds, conn[f] # None, conn'[f] = None
                PROVE  client[conn[f]].pc = "left" \/ "monitor_bridge" \in restarted' \ restarted
    OBVIOUS
  <2>. USE DEF ConnectionsInv
  <2>1. CASE MonitorClientDisconnected
    <3>0. conn' # conn
      OBVIOUS
    <3>1. /\ 1 \in DOMAIN bbox /\ bbox[1].type = "gone"
          /\ bbox[1].fd \in connections /\ conn' = [conn EXCEPT ![bbox[1].fd] = None]
      BY <2>1, <3>0, FirstReport DEF MonitorClientDisconnected, BridgeTakes
    <3>2. bbox[1].fd \in Fds /\ conn[bbox[1].fd] # None /\ client[conn[bbox[1].fd]].pc = "left"
      BY <3>1, Others
    <3>3. f = bbox[1].fd
      BY <3>1, <3>2 DEF MonitorTypes
    <3>. QED  BY <3>2, <3>3
  <2>2. ASSUME NEW c \in Clients, Accept(c) PROVE FALSE
    <3>1. conn'[f] = conn[f] \/ conn'[f] = c
      BY <2>2 DEF Accept, MonitorTypes
    <3>. QED  BY <3>1, MonitoringAssumption DEF None
  <2>3. ASSUME NEW c \in Clients, Recv(c) \/ Quit(c) \/ Leave(c) PROVE FALSE
    BY <2>3 DEF Recv, Quit, Leave
  <2>4. ASSUME NEW g \in Fds, ReportGone(g) PROVE FALSE
    BY <2>4 DEF ReportGone, netVars
  <2>5. CASE MonitorNewConnection \/ MonitorSnapshotUpdate
    BY <2>5 DEF MonitorNewConnection, MonitorSnapshotUpdate
  <2>6. CASE MonitorSubscribe \/ MonitorUnsubscribe \/ \E g \in Managers : DataUpdate(g)
    BY <2>6 DEF MonitorSubscribe, MonitorUnsubscribe, DataUpdate, netVars
  <2>7. ASSUME NEW g \in Managers, NEW ok \in BOOLEAN,
               DataSubscribe(g, ok) \/ DataTick(g, ok) \/ DataUnsubscribe(g)
        PROVE  FALSE
    BY <2>7 DEF DataSubscribe, DataTick, DataUnsubscribe, netVars
  <2>8. ASSUME NEW a \in Restartable, Restart(a)
        PROVE  "monitor_bridge" \in restarted' \ restarted
    BY <2>8 DEF Restart, RestartManager, RestartMonitor, netVars
  <2>. QED
    BY <2>1, <2>2, <2>3, <2>4, <2>5, <2>6, <2>7, <2>8
       DEF Next, BridgeStep, MonitorStep, ManagerStep
<1>. QED  BY <1>1, ConnectionsInit, ConnectionsStep, PTL DEF Spec, NoStaleDisconnect

-----------------------------------------------------------------------------
(* The demand                                                              *)

LEMMA DemandInit == Init => DemandInv
<1>. SUFFICES ASSUME Init PROVE DemandInv
  OBVIOUS
<1>1. \A i \in DOMAIN <<>> : FALSE
  OBVIOUS
<1>2. Settled(<<>>, FALSE, FALSE)
  BY <1>1 DEF Settled
<1>3. mbox = <<>> /\ monitor.data = FALSE /\ connections = {}
  BY DEF Init
<1>4. \A g \in Managers : mgrbox[g] = <<>> /\ mgr[g].sub = FALSE
  BY DEF Init
<1>5. (connections # {}) = FALSE
  BY <1>3
<1>. QED  BY <1>2, <1>3, <1>4, <1>5 DEF DemandInv

\* A connection more or less is told to the monitor if it is the first or the last.
LEMMA BridgeDemand ==
    ASSUME MonitorTypes, MonitorTypes', DemandInv, restarted' = restarted, UNCHANGED <<monitor, mgr, mgrbox>>,
           \/ mbox' = mbox /\ (connections' = {} <=> connections = {})
           \/ mbox' = Append(mbox, "subscribe") /\ connections' # {}
           \/ mbox' = Append(mbox, "unsubscribe") /\ connections' = {}
    PROVE  DemandInv'
<1>. SUFFICES ASSUME restarted \cap {"monitor", "monitor_bridge"} = {}
              PROVE  Settled(mbox', monitor.data, connections' # {})
  BY DEF DemandInv
<1>1. Settled(mbox, monitor.data, connections # {}) /\ monitor.data \in BOOLEAN
  BY DEF DemandInv, MonitorTypes
<1>2. CASE mbox' = mbox /\ (connections' = {} <=> connections = {})
  <2>1. (connections' # {}) = (connections # {})
    BY <1>2
  <2>. QED  BY <1>1, <1>2, <2>1
<1>3. "subscribe" \in MonitorMessages /\ "unsubscribe" \in MonitorMessages
  BY DEF MonitorMessages, Demands
<1>4. \A m \in MonitorMessages : m \in Demands => Settled(Append(mbox, m), monitor.data, m = "subscribe")
  BY <1>1, SettledAppend DEF MonitorTypes
<1>5. CASE mbox' = Append(mbox, "subscribe") /\ connections' # {}
  <2>1. Settled(mbox', monitor.data, "subscribe" = "subscribe")
    BY <1>3, <1>4, <1>5 DEF Demands
  <2>2. (connections' # {}) = ("subscribe" = "subscribe")
    BY <1>5
  <2>. QED  BY <2>1, <2>2
<1>6. CASE mbox' = Append(mbox, "unsubscribe") /\ connections' = {}
  <2>1. Settled(mbox', monitor.data, "unsubscribe" = "subscribe")
    BY <1>3, <1>4, <1>6 DEF Demands
  <2>2. (connections' # {}) = ("unsubscribe" = "subscribe")
    BY <1>6
  <2>. QED  BY <2>1, <2>2
<1>. QED  BY <1>2, <1>5, <1>6

\* The monitor takes a message and tells the managers if its own demand changes.
LEMMA MonitorDemand ==
    ASSUME MonitorTypes, MonitorTypes', DemandInv, UNCHANGED <<connections, mgr, restarted>>,
           mbox # <<>>, mbox' = Tail(mbox),
           monitor'.data <=> IF Head(mbox) \in Demands THEN Head(mbox) = "subscribe" ELSE monitor.data,
           \/ mgrbox' = mgrbox /\ monitor'.data = monitor.data
           \/ \E msg \in Demands : /\ mgrbox' = [g \in Managers |-> Append(mgrbox[g], msg)]
                                   /\ monitor'.data <=> msg = "subscribe"
    PROVE  DemandInv'
<1>. SUFFICES ASSUME restarted \cap {"monitor", "monitor_bridge"} = {}
              PROVE  /\ Settled(mbox', monitor'.data, connections # {})
                     /\ \A g \in Managers : Settled(mgrbox'[g], mgr[g].sub, monitor'.data)
  BY DEF DemandInv
<1>1. /\ monitor.data \in BOOLEAN /\ monitor'.data \in BOOLEAN /\ mbox \in Seq(MonitorMessages)
      /\ \A g \in Managers : mgrbox[g] \in Seq(Demands) /\ mgr[g].sub \in BOOLEAN
  BY DEF MonitorTypes
<1>2. /\ Settled(mbox, monitor.data, connections # {})
      /\ \A g \in Managers : Settled(mgrbox[g], mgr[g].sub, monitor.data)
  BY DEF DemandInv
<1>3. Settled(mbox', monitor'.data, connections # {})
  <2>1. (connections # {}) \in BOOLEAN
    OBVIOUS
  <2>. QED  BY <1>1, <1>2, <2>1, SettledTail
<1>4. \A g \in Managers : Settled(mgrbox'[g], mgr[g].sub, monitor'.data)
  <2>1. CASE mgrbox' = mgrbox /\ monitor'.data = monitor.data
    BY <1>2, <2>1
  <2>2. ASSUME NEW msg \in Demands, mgrbox' = [g \in Managers |-> Append(mgrbox[g], msg)],
               monitor'.data <=> msg = "subscribe", NEW g \in Managers
        PROVE  Settled(mgrbox'[g], mgr[g].sub, monitor'.data)
    <3>1. Settled(Append(mgrbox[g], msg), mgr[g].sub, msg = "subscribe")
      BY <1>1, SettledAppend
    <3>2. monitor'.data = (msg = "subscribe")
      BY <1>1, <2>2
    <3>. QED  BY <2>2, <3>1, <3>2
  <2>. QED  BY <2>1, <2>2
<1>. QED  BY <1>3, <1>4

\* A manager's reading enters the monitor's mailbox, or a demand its own flag.
LEMMA ManagerDemand ==
    ASSUME MonitorTypes, MonitorTypes', DemandInv, UNCHANGED <<connections, monitor, restarted>>,
           NEW g \in Managers, mbox' = mbox \/ mbox' = Append(mbox, g),
           \A h \in Managers : h # g => mgr'[h].sub = mgr[h].sub /\ mgrbox'[h] = mgrbox[h],
           \/ mgrbox'[g] = mgrbox[g] /\ mgr'[g].sub = mgr[g].sub
           \/ /\ mgrbox[g] # <<>> /\ mgrbox'[g] = Tail(mgrbox[g])
              /\ mgr'[g].sub <=> Head(mgrbox[g]) = "subscribe"
    PROVE  DemandInv'
<1>. SUFFICES ASSUME restarted \cap {"monitor", "monitor_bridge"} = {}
              PROVE  /\ Settled(mbox', monitor.data, connections # {})
                     /\ \A h \in Managers : Settled(mgrbox'[h], mgr'[h].sub, monitor.data)
  BY DEF DemandInv
<1>1. /\ monitor.data \in BOOLEAN /\ mbox \in Seq(MonitorMessages)
      /\ mgrbox[g] \in Seq(Demands) /\ mgr[g].sub \in BOOLEAN /\ mgr'[g].sub \in BOOLEAN
  BY DEF MonitorTypes
<1>2. /\ Settled(mbox, monitor.data, connections # {})
      /\ \A h \in Managers : Settled(mgrbox[h], mgr[h].sub, monitor.data)
  BY DEF DemandInv
<1>3. Settled(mbox', monitor.data, connections # {})
  <2>1. g \in MonitorMessages /\ g \notin Demands /\ (connections # {}) \in BOOLEAN
    BY DEF MonitorMessages, Managers, Demands
  <2>2. Settled(Append(mbox, g), monitor.data, connections # {})
    <3>1. \A after \in BOOLEAN : Settled(mbox, monitor.data, after)
                                   => Settled(Append(mbox, g), monitor.data, after)
      BY <1>1, <2>1, SettledAppend
    <3>. QED  BY <1>2, <2>1, <3>1
  <2>. QED  BY <1>2, <2>2
<1>4. Settled(mgrbox'[g], mgr'[g].sub, monitor.data)
  <2>1. CASE mgrbox'[g] = mgrbox[g] /\ mgr'[g].sub = mgr[g].sub
    BY <1>2, <2>1
  <2>2. CASE /\ mgrbox[g] # <<>> /\ mgrbox'[g] = Tail(mgrbox[g])
             /\ mgr'[g].sub <=> Head(mgrbox[g]) = "subscribe"
    <3>1. Head(mgrbox[g]) \in Demands
      BY <1>1, <2>2, TakeFirst
    <3>. QED  BY <1>1, <1>2, <2>2, <3>1, SettledTail
  <2>. QED  BY <2>1, <2>2
<1>. QED  BY <1>2, <1>3, <1>4

LEMMA DemandStep == MonitorTypes /\ MonitorTypes' /\ DemandInv /\ [Next]_vars => DemandInv'
<1>. SUFFICES ASSUME MonitorTypes, MonitorTypes', DemandInv, [Next]_vars PROVE DemandInv'
  OBVIOUS
<1>1. ASSUME UNCHANGED <<connections, monVars, mgrVars, restarted>> PROVE DemandInv'
  BY <1>1 DEF DemandInv, Settled, monVars, mgrVars
<1>2. ASSUME NEW c \in Clients, Accept(c) \/ Recv(c) \/ Quit(c) \/ Leave(c) PROVE DemandInv'
  BY <1>1, <1>2 DEF Accept, Recv, Quit, Leave, bridgeVars
<1>3. ASSUME NEW f \in Fds, ReportGone(f) PROVE DemandInv'
  BY <1>1, <1>3 DEF ReportGone
<1>4. CASE MonitorSnapshotUpdate
  BY <1>1, <1>4 DEF MonitorSnapshotUpdate
<1>5. CASE MonitorNewConnection
  <2>. DEFINE f == Head(bbox).fd
  <2>1. /\ connections' = connections \cup {f} /\ UNCHANGED <<monitor, mgr, mgrbox, restarted>>
        /\ mbox' = IF Cardinality(connections \cup {f}) = 1 THEN Append(mbox, "subscribe") ELSE mbox
    BY <1>5 DEF MonitorNewConnection, mgrVars
  <2>2. Cardinality({f}) = 1
    BY FS_Singleton
  <2>3. connections = {} => connections \cup {f} = {f}
    OBVIOUS
  <2>4. connections' # {}
    BY <2>1
  <2>. HIDE DEF f
  <2>5. \/ mbox' = mbox /\ connections # {}
        \/ mbox' = Append(mbox, "subscribe")
    BY <2>1, <2>2, <2>3
  <2>. QED  BY <2>1, <2>4, <2>5, BridgeDemand
<1>6. CASE MonitorClientDisconnected
  <2>1. CASE Head(bbox).fd \in connections
    <3>1. /\ UNCHANGED <<monitor, mgr, mgrbox, restarted>> /\ connections # {}
          /\ mbox' = IF connections' = {} THEN Append(mbox, "unsubscribe") ELSE mbox
      BY <1>6, <2>1 DEF MonitorClientDisconnected, mgrVars
    <3>. QED  BY <3>1, BridgeDemand
  <2>2. CASE Head(bbox).fd \notin connections
    BY <1>1, <1>6, <2>2 DEF MonitorClientDisconnected, monVars
  <2>. QED  BY <2>1, <2>2
<1>7. CASE MonitorSubscribe
  <2>1. /\ mbox # <<>> /\ mbox' = Tail(mbox) /\ Head(mbox) = "subscribe"
        /\ monitor'.data = TRUE /\ UNCHANGED <<connections, mgr, restarted>>
        /\ IF monitor.data THEN mgrbox' = mgrbox
           ELSE mgrbox' = [g \in Managers |-> Append(mgrbox[g], "subscribe")]
    BY <1>7 DEF MonitorSubscribe, MonitorTakes, ToManagers, bridgeVars, MonitorTypes
  <2>2. Head(mbox) \in Demands /\ "subscribe" \in Demands /\ monitor.data \in BOOLEAN
    BY <2>1 DEF Demands, MonitorTypes
  <2>. QED  BY <2>1, <2>2, MonitorDemand
<1>8. CASE MonitorUnsubscribe
  <2>1. /\ mbox # <<>> /\ mbox' = Tail(mbox) /\ Head(mbox) = "unsubscribe"
        /\ UNCHANGED <<connections, mgr, restarted>>
    BY <1>8 DEF MonitorUnsubscribe, MonitorTakes, bridgeVars
  <2>2. Head(mbox) \in Demands /\ "unsubscribe" \in Demands /\ monitor.data \in BOOLEAN
    BY <2>1 DEF Demands, MonitorTypes
  <2>3. monitor'.data = FALSE
    BY <1>8, <2>2 DEF MonitorUnsubscribe, MonitorTypes
  <2>4. IF monitor.data THEN mgrbox' = [g \in Managers |-> Append(mgrbox[g], "unsubscribe")]
        ELSE mgrbox' = mgrbox
    BY <1>8 DEF MonitorUnsubscribe, ToManagers
  <2>. QED  BY <2>1, <2>2, <2>3, <2>4, MonitorDemand
<1>9. ASSUME NEW g \in Managers, DataUpdate(g) PROVE DemandInv'
  <2>1. /\ mbox # <<>> /\ mbox' = Tail(mbox) /\ Head(mbox) = g
        /\ UNCHANGED <<connections, monitor, mgr, mgrbox, restarted>>
    BY <1>9 DEF DataUpdate, MonitorTakes, mgrVars
  <2>2. Head(mbox) \notin Demands
    BY <2>1 DEF Demands, Managers
  <2>. QED  BY <2>1, <2>2, MonitorDemand
<1>10. ASSUME NEW g \in Managers, NEW ok \in BOOLEAN, DataTick(g, ok) PROVE DemandInv'
  <2>1. /\ UNCHANGED <<connections, monitor, mgr, mgrbox, restarted>>
        /\ mbox' = mbox \/ mbox' = Append(mbox, g)
    BY <1>10 DEF DataTick, Pump, bridgeVars, mgrVars
  <2>. QED  BY <2>1, ManagerDemand
<1>11. ASSUME NEW g \in Managers, NEW ok \in BOOLEAN, DataSubscribe(g, ok) \/ DataUnsubscribe(g)
       PROVE  DemandInv'
  <2>1. /\ UNCHANGED <<connections, monitor, restarted>>
        /\ mbox' = mbox \/ mbox' = Append(mbox, g)
        /\ mgrbox[g] # <<>> /\ mgrbox' = [mgrbox EXCEPT ![g] = Tail(@)]
        /\ \/ Head(mgrbox[g]) = "subscribe" /\ mgr' = [mgr EXCEPT ![g].sub = TRUE]
           \/ Head(mgrbox[g]) = "unsubscribe" /\ mgr' = [mgr EXCEPT ![g].sub = FALSE]
    BY <1>11 DEF DataSubscribe, DataUnsubscribe, Pump, bridgeVars, monVars
  <2>2. /\ \A h \in Managers : h # g => mgr'[h].sub = mgr[h].sub /\ mgrbox'[h] = mgrbox[h]
        /\ mgrbox'[g] = Tail(mgrbox[g])
    BY <2>1 DEF MonitorTypes
  <2>3. mgr'[g].sub <=> Head(mgrbox[g]) = "subscribe"
    BY <2>1 DEF MonitorTypes
  <2>. QED  BY <2>1, <2>2, <2>3, ManagerDemand
<1>12. ASSUME NEW a \in Restartable, Restart(a) PROVE DemandInv'
  <2>1. CASE a \in Managers /\ RestartManager(a)
    <3>1. UNCHANGED <<connections, monitor, mbox, mgrbox>>
      BY <2>1 DEF RestartManager, bridgeVars, monVars
    <3>2. \A g \in Managers : mgr'[g].sub = mgr[g].sub
      BY <2>1 DEF RestartManager, MonitorTypes
    <3>3. restarted = {}
      BY <1>12 DEF Restart
    <3>. QED  BY <3>1, <3>2, <3>3 DEF DemandInv, Settled
  <2>2. CASE a \in {"monitor", "monitor_bridge"}
    BY <1>12, <2>2 DEF Restart, DemandInv
  <2>. QED  BY <1>12, <2>1, <2>2 DEF Restart
<1>13. CASE UNCHANGED vars
  BY <1>1, <1>13 DEF vars, bridgeVars
<1>. QED
  BY <1>2, <1>3, <1>4, <1>5, <1>6, <1>7, <1>8, <1>9, <1>10, <1>11, <1>12, <1>13
     DEF Next, BridgeStep, MonitorStep, ManagerStep

\* When all mailboxes are empty each hop has been told everything: the managers know
\* what the monitor knows, and the monitor what the bridge knows.
THEOREM CollectedOnDemand == Spec => []DemandFollowsClients
<1>1. MonitorTypes /\ DemandInv => DemandFollowsClients
  <2>. SUFFICES ASSUME MonitorTypes, DemandInv, mbox = <<>>, NEW g \in Managers, mgrbox[g] = <<>>,
                       restarted \cap {"monitor", "monitor_bridge"} = {}
                PROVE  mgr[g].sub = (connections # {})
    BY DEF DemandFollowsClients
  <2>1. mgr[g].sub \in BOOLEAN /\ monitor.data \in BOOLEAN
    BY DEF MonitorTypes
  <2>2. \A before, after \in BOOLEAN : Settled(<<>>, before, after) => before = after
    BY DEF Settled
  <2>3. Settled(<<>>, monitor.data, connections # {}) /\ Settled(<<>>, mgr[g].sub, monitor.data)
    BY DEF DemandInv
  <2>4. monitor.data = (connections # {}) /\ mgr[g].sub = monitor.data
    <3>1. (connections # {}) \in BOOLEAN
      OBVIOUS
    <3>. QED  BY <2>1, <2>2, <2>3, <3>1
  <2>. QED  BY <2>4
<1>2. Init => MonitorTypes /\ DemandInv
  BY TypesInit, DemandInit
<1>3. MonitorTypes /\ DemandInv /\ [Next]_vars => (MonitorTypes /\ DemandInv)'
  BY TypesStep, DemandStep
<1>. QED  BY <1>1, <1>2, <1>3, PTL DEF Spec

-----------------------------------------------------------------------------
(* The network manager                                                     *)

WifiStates == {"Disconnected", "Scanning", "Connecting", "Connected", "Disconnecting", "Error"}
TickPcs    == {"idle", "consume", "refresh", "reconnect"}

\* The records of WifiHandler and of NetworkManagerActor.
NetworkTypes ==
    /\ wifi \in [found : BOOLEAN, subscribed : BOOLEAN, state : WifiStates,
                 last : BOOLEAN, enabled : BOOLEAN, pending : BOOLEAN]
    /\ nm \in [up : BOOLEAN, timer : BOOLEAN, pc : TickPcs]
    /\ signal \in BOOLEAN /\ unseen \in BOOLEAN

\* close() runs between two messages, so an actor that is not open is in no handler.
DownIsIdle == ~nm.up => nm.pc = "idle"

NetworkInv == NetworkTypes /\ DownIsIdle /\ RefreshNotLost

\* The states mapDeviceState knows are states of the handler.
LEMMA SyncedStateType ==
    ASSUME NEW found, NEW ok
    PROVE  SyncedState(found, ok) \in WifiStates
  BY DEF SyncedState, MapDeviceState, WifiStates

\* The network manager starts in the invariant.
LEMMA NetworkInvInit == NetworkInit => NetworkInv
  <1> SUFFICES ASSUME NetworkInit PROVE NetworkInv
    OBVIOUS
  <1>1. NetworkTypes
    BY DEF NetworkInit, NetworkTypes, WifiStates, TickPcs
  <1>2. DownIsIdle /\ RefreshNotLost
    BY DEF NetworkInit, DownIsIdle, RefreshNotLost
  <1> QED BY <1>1, <1>2 DEF NetworkInv

\* Every step of the network manager, of its timer, its user, the device and the
\* thread of the D-Bus connection keeps it.
LEMMA NetworkInvStep == NetworkInv /\ [NetworkNext]_networkVars => NetworkInv'
  <1> SUFFICES ASSUME NetworkInv, [NetworkNext]_networkVars
               PROVE  NetworkInv'
    OBVIOUS
  <1> USE DEF NetworkInv, NetworkTypes, DownIsIdle, RefreshNotLost
  <1>1. ASSUME NEW s \in DeviceStates, DeviceChanges(s)
        PROVE  NetworkInv'
    BY <1>1 DEF DeviceChanges
  <1>2. CASE ApsChange
    BY <1>2 DEF ApsChange
  <1>3. CASE DeliverSignal
    BY <1>3 DEF DeliverSignal
  <1>4. CASE TimerTick
    BY <1>4 DEF TimerTick
  <1>5. ASSUME NEW r \in Requests, HandleWifi(r)
        PROVE  NetworkInv'
    BY <1>5 DEF HandleWifi
  <1>6. ASSUME NEW found \in FindWirelessDevice, NEW subscribed \in SubscribeSignals(found),
               NEW ok \in BOOLEAN, Open(found, subscribed, ok)
        PROVE  NetworkInv'
    <2>1. found \in BOOLEAN /\ subscribed \in BOOLEAN
      BY <1>6 DEF FindWirelessDevice, SubscribeSignals
    <2>2. SyncedState(TRUE, ok) \in WifiStates
      BY SyncedStateType
    <2> QED BY <1>6, <2>1, <2>2 DEF Open, TickPcs
  <1>7. CASE Close
    BY <1>7 DEF Close, TickPcs, WifiStates
  <1>8. CASE Ignore
    BY <1>8 DEF Ignore
  <1>9. CASE SetAutoReconnect
    BY <1>9 DEF SetAutoReconnect, Takes
  <1>10. CASE ScanRefresh
    BY <1>10 DEF ScanRefresh, ConsumeScanRefreshPending, RefreshAps, TickPcs
  <1>11. ASSUME NEW ok \in BOOLEAN, RequestScan(ok)
         PROVE  NetworkInv'
    BY <1>11 DEF RequestScan, Takes, WifiStates
  <1>12. ASSUME NEW ok \in BOOLEAN, Connect(ok)
         PROVE  NetworkInv'
    BY <1>12 DEF Connect, Takes, AddAndActivateConnection, WifiStates
  <1>13. ASSUME NEW ok \in BOOLEAN, DisconnectDevice(ok)
         PROVE  NetworkInv'
    BY <1>13 DEF DisconnectDevice, Takes, WifiStates
  <1>14. ASSUME NEW ok \in BOOLEAN, SyncDeviceState(ok)
         PROVE  NetworkInv'
    <2>1. SyncedState(wifi.found, ok) \in WifiStates
      BY SyncedStateType
    <2> QED BY <1>14, <2>1 DEF SyncDeviceState, Takes, TickPcs
  <1>15. ASSUME NEW ok \in BOOLEAN, NEW read \in BOOLEAN, AutoReconnectAndReport(ok, read)
         PROVE  NetworkInv'
    BY <1>15 DEF AutoReconnectAndReport, AddAndActivateConnection, WifiStates, TickPcs
  <1>16. CASE UNCHANGED networkVars
    BY <1>16 DEF networkVars
  <1> QED
    BY <1>1, <1>2, <1>3, <1>4, <1>5, <1>6, <1>7, <1>8, <1>9, <1>10, <1>11, <1>12, <1>13,
       <1>14, <1>15, <1>16
    DEF NetworkNext, ActorStep

\* A change of the access points that was signalled is never lost between the D-Bus
\* thread, which raises refreshPending, and the Tick handler, which lowers it before
\* it reads the list.
THEOREM RefreshIsNotLost == BusSpec => []RefreshNotLost
  <1>1. BusInit => NetworkInv
    BY NetworkInvInit DEF BusInit
  <1>2. NetworkInv /\ [BusNext]_<<part, networkVars, dbusVars>> => NetworkInv'
    BY NetworkInvStep DEF BusNext
  <1>3. NetworkInv => RefreshNotLost
    BY DEF NetworkInv
  <1> QED BY <1>1, <1>2, <1>3, PTL DEF BusSpec

-----------------------------------------------------------------------------
(* The D-Bus service                                                       *)

Told    == [id : Nat, call : Calls, opens : Nat]
Results == [type : {"result"}, isError : BOOLEAN, id : Nat, call : Calls, opens : Nat]

\* What became of a call: only an answered one says what it was answered with.
CallRecords ==
    [state : {"new", "refused", "taken", "dropped"}]
        \cup [state : {"answered"}, to : Calls, opens : Nat]

DbusTypes ==
    /\ dbusUp \in BOOLEAN
    /\ opens \in Nat /\ nextId \in Nat
    /\ DOMAIN pending \subseteq Nat
    /\ \A i \in DOMAIN pending : pending[i] \in Calls
    /\ bus # NoCall => bus \in [call : Calls, id : Nat, at : {"keep", "tell"}]
    /\ call \in [Calls -> CallRecords]
    /\ dbusbox \in Seq(Results \cup ServiceRequests)
    /\ owner \in Seq(Told)

\* The callback runs while the connection is there; a closed service keeps no call.
KeptWhileUp == ~dbusUp => bus = NoCall /\ pending = <<>>

\* Every number in use was given out since the last open().
IdsGivenOut ==
    /\ \A i \in DOMAIN pending : i < nextId
    /\ bus # NoCall => bus.id < nextId

\* The number of the callback in progress is its call's alone.
CallbackOwnsId ==
    bus # NoCall =>
        /\ bus.at = "keep" => bus.id \notin DOMAIN pending
        /\ bus.at = "tell" /\ bus.id \in DOMAIN pending => pending[bus.id] = bus.call

\* What holds of a question to the owner, or of an answer on its way back, when the
\* service was opened o times, has given out n numbers, keeps the calls p and is in
\* the callback b: no later opening is meant, and one of this opening has a number that
\* is kept, if at all, for its own call and is not about to be kept for another.
Matches(m, o, n, p, b) ==
    /\ m.opens <= o
    /\ m.opens = o =>
         /\ m.id < n
         /\ m.id \in DOMAIN p => p[m.id] = m.call
         /\ b # NoCall /\ b.at = "keep" => m.id # b.id

MessagesMatch ==
    /\ \A i \in 1 .. Len(owner) : Matches(owner[i], opens, nextId, pending, bus)
    /\ \A i \in 1 .. Len(dbusbox) :
          dbusbox[i].type = "result" => Matches(dbusbox[i], opens, nextId, pending, bus)

\* No answer is from an opening to come.
AnswersArePast == \A c \in Calls : call[c].state = "answered" => call[c].opens <= opens

DbusInv ==
    /\ DbusTypes /\ KeptWhileUp /\ IdsGivenOut /\ CallbackOwnsId
    /\ MessagesMatch /\ AnswersArePast /\ OwnReply

\* A message added to a mailbox.
LEMMA AppendFacts ==
    ASSUME NEW S, NEW s \in Seq(S), NEW e \in S
    PROVE  /\ Append(s, e) \in Seq(S)
           /\ Len(Append(s, e)) = Len(s) + 1
           /\ \A i \in 1 .. Len(s) + 1 : Append(s, e)[i] = IF i <= Len(s) THEN s[i] ELSE e
  OBVIOUS

\* The first message taken out of a mailbox.
LEMMA TailFacts ==
    ASSUME NEW S, NEW s \in Seq(S), s # <<>>
    PROVE  /\ Tail(s) \in Seq(S)
           /\ Len(s) >= 1 /\ Len(Tail(s)) = Len(s) - 1
           /\ \A i \in 1 .. Len(Tail(s)) : Tail(s)[i] = s[i + 1]
           /\ Head(s) = s[1] /\ Head(s) \in S
  OBVIOUS

\* No request is of type result.
LEMMA RequestTypes ==
    ASSUME NEW m \in ServiceRequests
    PROVE  m.type # "result"
  <1>1. ASSUME NEW t, m = [type |-> t]
        PROVE  m.type = t
    BY <1>1
  <1>2. ASSUME NEW a \in Subscribers, m = [type |-> "subscribe", by |-> a]
        PROVE  m.type = "subscribe"
    BY <1>2
  <1>3. \/ m \in {[type |-> "register"], [type |-> "unregister"], [type |-> "proxy call"]}
        \/ \E a \in Subscribers : m = [type |-> "subscribe", by |-> a]
    BY Zenon DEF ServiceRequests
  <1> QED BY <1>1, <1>2, <1>3

\* Whatever is of type result is an answer.
LEMMA ResultsOnly ==
    ASSUME NEW m \in Results \cup ServiceRequests, m.type = "result"
    PROVE  m \in Results
  BY RequestTypes

\* A mailbox that lost its first message holds no new ones.
LEMMA ShorterMailbox ==
    ASSUME DbusTypes, MessagesMatch, dbusbox # <<>>, dbusbox' = Tail(dbusbox)
    PROVE  /\ dbusbox' \in Seq(Results \cup ServiceRequests)
           /\ Head(dbusbox) \in Results \cup ServiceRequests
           /\ Head(dbusbox).type = "result" =>
                  Matches(Head(dbusbox), opens, nextId, pending, bus)
           /\ \A i \in 1 .. Len(dbusbox') : dbusbox'[i].type = "result" =>
                  Matches(dbusbox'[i], opens, nextId, pending, bus)
  <1>1. dbusbox \in Seq(Results \cup ServiceRequests)
    BY DEF DbusTypes
  <1>2. /\ dbusbox' \in Seq(Results \cup ServiceRequests)
        /\ Len(dbusbox) >= 1 /\ Len(dbusbox') = Len(dbusbox) - 1
        /\ \A i \in 1 .. Len(dbusbox') : dbusbox'[i] = dbusbox[i + 1]
        /\ Head(dbusbox) = dbusbox[1] /\ Head(dbusbox) \in Results \cup ServiceRequests
    BY <1>1, TailFacts
  <1>3. ASSUME NEW i \in 1 .. Len(dbusbox'), dbusbox'[i].type = "result"
        PROVE  Matches(dbusbox'[i], opens, nextId, pending, bus)
    <2>1. i + 1 \in 1 .. Len(dbusbox) /\ dbusbox[i + 1].type = "result"
      BY <1>1, <1>2, <1>3
    <2> QED BY <1>2, <2>1 DEF MessagesMatch
  <1>4. Head(dbusbox).type = "result" => Matches(Head(dbusbox), opens, nextId, pending, bus)
    <2>1. 1 \in 1 .. Len(dbusbox)
      BY <1>1, <1>2
    <2> QED BY <1>2, <2>1 DEF MessagesMatch
  <1> QED BY <1>2, <1>3, <1>4

\* The D-Bus service starts in the invariant.
LEMMA DbusInvInit == DbusInit => DbusInv
  <1> SUFFICES ASSUME DbusInit PROVE DbusInv
    OBVIOUS
  <1>1. DbusTypes
    <2>1. [state |-> "new"] \in CallRecords
      BY DEF CallRecords
    <2>2. call \in [Calls -> CallRecords]
      BY <2>1 DEF DbusInit
    <2>3. DOMAIN pending = {}
      BY DEF DbusInit
    <2>4. dbusbox \in Seq(Results \cup ServiceRequests) /\ owner \in Seq(Told)
      BY DEF DbusInit
    <2> QED BY <2>2, <2>3, <2>4 DEF DbusInit, DbusTypes
  <1>2. KeptWhileUp /\ IdsGivenOut /\ CallbackOwnsId
    BY DEF DbusInit, KeptWhileUp, IdsGivenOut, CallbackOwnsId
  <1>3. MessagesMatch
    BY DEF DbusInit, MessagesMatch
  <1>4. AnswersArePast /\ OwnReply
    BY DEF DbusInit, AnswersArePast, OwnReply
  <1> QED BY <1>1, <1>2, <1>3, <1>4 DEF DbusInv

\* What the types say of the messages under way and of the calls answered.
LEMMA UnderWay ==
    ASSUME DbusTypes
    PROVE  /\ \A i \in 1 .. Len(owner) : owner[i] \in Told
           /\ \A i \in 1 .. Len(dbusbox) : dbusbox[i].type = "result" => dbusbox[i] \in Results
           /\ \A c \in Calls : call[c].state = "answered" => call[c].opens \in Nat
  <1>1. \A i \in 1 .. Len(owner) : owner[i] \in Told
    BY DEF DbusTypes
  <1>2. ASSUME NEW i \in 1 .. Len(dbusbox), dbusbox[i].type = "result"
        PROVE  dbusbox[i] \in Results
    <2>1. dbusbox[i] \in Results \cup ServiceRequests
      BY DEF DbusTypes
    <2> QED BY <1>2, <2>1, ResultsOnly
  <1>3. \A c \in Calls : call[c].state = "answered" => call[c].opens \in Nat
    BY DEF DbusTypes, CallRecords
  <1> QED BY <1>1, <1>2, <1>3

\* Opening starts the numbers over: everything under way is of an earlier opening.
LEMMA OpenDbusStep ==
    ASSUME DbusInv, NEW ok \in BOOLEAN, OpenDbus(ok)
    PROVE  DbusInv'
  <1> USE DEF OpenDbus
  <1>1. DbusTypes'
    BY DEF DbusInv, DbusTypes
  <1>2. KeptWhileUp' /\ IdsGivenOut' /\ CallbackOwnsId'
    BY DEF DbusInv, KeptWhileUp, IdsGivenOut, CallbackOwnsId
  <1>3. ASSUME NEW m, m.opens \in Nat, Matches(m, opens, nextId, pending, bus)
        PROVE  Matches(m, opens', nextId', pending', bus')
    BY <1>3 DEF DbusInv, DbusTypes, Matches
  <1>4. /\ \A i \in 1 .. Len(owner) : owner[i].opens \in Nat
        /\ \A i \in 1 .. Len(dbusbox) : dbusbox[i].type = "result" => dbusbox[i].opens \in Nat
        /\ \A c \in Calls : call[c].state = "answered" => call[c].opens \in Nat
    BY UnderWay DEF DbusInv, Told, Results
  <1>5. MessagesMatch'
    BY <1>3, <1>4 DEF DbusInv, MessagesMatch
  <1>6. AnswersArePast' /\ OwnReply'
    BY <1>4 DEF DbusInv, DbusTypes, AnswersArePast, OwnReply
  <1> QED BY <1>1, <1>2, <1>5, <1>6 DEF DbusInv

\* What the messages under way refer to is unchanged: so is what holds of them.
LEMMA MessagesStay ==
    ASSUME MessagesMatch, UNCHANGED <<owner, dbusbox, opens>>,
           \A m : Matches(m, opens, nextId, pending, bus) =>
                  Matches(m, opens, nextId', pending', bus')
    PROVE  MessagesMatch'
  BY DEF MessagesMatch

\* Closing forgets the calls that are kept.
LEMMA CloseDbusStep ==
    ASSUME DbusInv, CloseDbus
    PROVE  DbusInv'
  <1> USE DEF CloseDbus
  <1>1. \A c \in Calls : call'[c] = IF c \in Forgotten THEN [state |-> "dropped"] ELSE call[c]
    OBVIOUS
  <1>2. DOMAIN pending' = {}
    OBVIOUS
  <1>3. DbusTypes'
    <2>1. [state |-> "dropped"] \in CallRecords
      BY DEF CallRecords
    <2>2. call' \in [Calls -> CallRecords]
      BY <2>1 DEF DbusInv, DbusTypes
    <2> QED BY <1>2, <2>2 DEF DbusInv, DbusTypes
  <1>4. KeptWhileUp' /\ IdsGivenOut' /\ CallbackOwnsId'
    BY <1>2 DEF DbusInv, KeptWhileUp, IdsGivenOut, CallbackOwnsId
  <1>5. \A m : Matches(m, opens, nextId, pending, bus) =>
               Matches(m, opens, nextId', pending', bus')
    BY <1>2 DEF Matches
  <1>6. MessagesMatch'
    BY <1>5, MessagesStay DEF DbusInv
  <1>7. AnswersArePast' /\ OwnReply'
    BY <1>1 DEF DbusInv, AnswersArePast, OwnReply
  <1> QED BY <1>3, <1>4, <1>6, <1>7 DEF DbusInv

\* A call that is refused or taken is not answered.
LEMMA NewState ==
    ASSUME DbusTypes, AnswersArePast, OwnReply, UNCHANGED opens,
           NEW c \in Calls, call[c].state = "new", NEW s \in {"refused", "taken"},
           call' = [call EXCEPT ![c].state = s]
    PROVE  call' \in [Calls -> CallRecords] /\ AnswersArePast' /\ OwnReply'
  <1>1. call[c] \in [state : {"new", "refused", "taken", "dropped"}]
    BY DEF DbusTypes, CallRecords
  <1>2. /\ [call[c] EXCEPT !.state = s] \in CallRecords
        /\ [call[c] EXCEPT !.state = s].state = s
    BY <1>1 DEF CallRecords
  <1>3. \A d \in Calls : call'[d] = IF d = c THEN [call[c] EXCEPT !.state = s] ELSE call[d]
    BY DEF DbusTypes
  <1>4. call' \in [Calls -> CallRecords]
    BY <1>2 DEF DbusTypes
  <1>5. AnswersArePast' /\ OwnReply'
    BY <1>2, <1>3 DEF AnswersArePast, OwnReply
  <1> QED BY <1>4, <1>5

\* A call that is refused takes no number.
LEMMA CallRefusedStep ==
    ASSUME DbusInv, NEW c \in Calls, CallRefused(c)
    PROVE  DbusInv'
  <1> USE DEF CallRefused
  <1>1. call' \in [Calls -> CallRecords] /\ AnswersArePast' /\ OwnReply'
    BY NewState DEF DbusInv
  <1>2. DbusTypes'
    BY <1>1 DEF DbusInv, DbusTypes
  <1>3. KeptWhileUp' /\ IdsGivenOut' /\ CallbackOwnsId'
    BY DEF DbusInv, KeptWhileUp, IdsGivenOut, CallbackOwnsId
  <1>4. MessagesMatch'
    BY DEF DbusInv, MessagesMatch
  <1> QED BY <1>1, <1>2, <1>3, <1>4 DEF DbusInv

\* A call that arrives takes a number nobody has.
LEMMA CallArrivesStep ==
    ASSUME DbusInv, NEW c \in Calls, CallArrives(c)
    PROVE  DbusInv'
  <1> USE DEF CallArrives
  <1>1. call' \in [Calls -> CallRecords] /\ AnswersArePast' /\ OwnReply'
    BY NewState DEF DbusInv
  <1>2. bus'.call = c /\ bus'.id = nextId /\ bus'.at = "keep"
    OBVIOUS
  <1>3. DbusTypes'
    BY <1>1 DEF DbusInv, DbusTypes
  <1>4. KeptWhileUp' /\ IdsGivenOut' /\ CallbackOwnsId'
    BY <1>2 DEF DbusInv, DbusTypes, KeptWhileUp, IdsGivenOut, CallbackOwnsId
  <1>5. ASSUME NEW m, m.id \in Nat, Matches(m, opens, nextId, pending, bus)
        PROVE  Matches(m, opens, nextId', pending', bus')
    BY <1>2, <1>5 DEF DbusInv, DbusTypes, Matches
  <1>6. /\ \A i \in 1 .. Len(owner) : owner[i].id \in Nat
        /\ \A i \in 1 .. Len(dbusbox) : dbusbox[i].type = "result" => dbusbox[i].id \in Nat
    BY UnderWay DEF DbusInv, Told, Results
  <1>7. MessagesMatch'
    BY <1>5, <1>6 DEF DbusInv, MessagesMatch
  <1> QED BY <1>1, <1>3, <1>4, <1>7 DEF DbusInv

\* The call is kept under its number, which no message carries yet.
LEMMA KeepCallStep ==
    ASSUME DbusInv, KeepCall("keep", "tell")
    PROVE  DbusInv'
  <1> USE DEF KeepCall
  <1>1. bus \in [call : Calls, id : Nat, at : {"keep", "tell"}] /\ bus.at = "keep"
    BY DEF DbusInv, DbusTypes
  <1>2. /\ bus' \in [call : Calls, id : Nat, at : {"keep", "tell"}]
        /\ bus'.call = bus.call /\ bus'.id = bus.id /\ bus'.at = "tell"
    BY <1>1
  <1>3. /\ DOMAIN pending' = DOMAIN pending \cup {bus.id}
        /\ \A i \in DOMAIN pending' : pending'[i] = IF i = bus.id THEN bus.call ELSE pending[i]
    OBVIOUS
  <1>4. DbusTypes'
    BY <1>1, <1>2, <1>3 DEF DbusInv, DbusTypes
  <1>5. dbusUp
    BY DEF DbusInv, DbusTypes, KeptWhileUp
  <1>6. KeptWhileUp' /\ IdsGivenOut' /\ CallbackOwnsId'
    BY <1>1, <1>2, <1>3, <1>5 DEF DbusInv, KeptWhileUp, IdsGivenOut, CallbackOwnsId
  <1>7. \A m : Matches(m, opens, nextId, pending, bus) =>
               Matches(m, opens, nextId', pending', bus')
    BY <1>1, <1>2, <1>3 DEF Matches
  <1>8. MessagesMatch'
    BY <1>7, MessagesStay DEF DbusInv
  <1>9. AnswersArePast' /\ OwnReply'
    BY DEF DbusInv, AnswersArePast, OwnReply
  <1> QED BY <1>4, <1>6, <1>8, <1>9 DEF DbusInv

\* The owner is asked: the number on the question is kept for that call.
LEMMA OwnerToldStep ==
    ASSUME DbusInv, TellOwner("tell", "return"),
           owner' = Append(owner, [id |-> bus.id, call |-> bus.call, opens |-> opens])
    PROVE  DbusInv'
  <1> USE DEF TellOwner
  <1> DEFINE m == [id |-> bus.id, call |-> bus.call, opens |-> opens]
  <1>1. bus \in [call : Calls, id : Nat, at : {"keep", "tell"}] /\ bus.at = "tell"
    BY DEF DbusInv, DbusTypes
  <1>2. /\ m \in Told
        /\ m.id = bus.id /\ m.call = bus.call /\ m.opens = opens
    BY <1>1 DEF DbusInv, DbusTypes, Told
  <1>3. bus' = NoCall /\ owner' = Append(owner, m)
    OBVIOUS
  <1>4. Matches(m, opens, nextId, pending, bus')
    BY <1>1, <1>2, <1>3 DEF DbusInv, DbusTypes, Matches, IdsGivenOut, CallbackOwnsId
  <1> HIDE DEF m
  <1>5. /\ owner' \in Seq(Told) /\ Len(owner') = Len(owner) + 1 /\ Len(owner) \in Nat
        /\ \A i \in 1 .. Len(owner) + 1 : owner'[i] = IF i <= Len(owner) THEN owner[i] ELSE m
    BY <1>2, <1>3, AppendFacts DEF DbusInv, DbusTypes
  <1>6. DbusTypes'
    BY <1>3, <1>5 DEF DbusInv, DbusTypes
  <1>7. KeptWhileUp' /\ IdsGivenOut' /\ CallbackOwnsId'
    BY <1>3 DEF DbusInv, KeptWhileUp, IdsGivenOut, CallbackOwnsId
  <1>8. \A x : Matches(x, opens, nextId, pending, bus) => Matches(x, opens, nextId, pending, bus')
    BY <1>3 DEF Matches
  <1>9. MessagesMatch'
    <2>1. \A i \in 1 .. Len(owner') : Matches(owner'[i], opens, nextId, pending, bus')
      BY <1>4, <1>5, <1>8 DEF DbusInv, MessagesMatch
    <2> QED BY <1>8, <2>1 DEF DbusInv, MessagesMatch
  <1>10. AnswersArePast' /\ OwnReply'
    BY DEF DbusInv, AnswersArePast, OwnReply
  <1> QED BY <1>6, <1>7, <1>9, <1>10 DEF DbusInv

\* The message to the owner is dropped: the call stays kept under its number.
LEMMA OwnerMissedStep ==
    ASSUME DbusInv, TellOwner("tell", "return"), UNCHANGED owner
    PROVE  DbusInv'
  <1> USE DEF TellOwner
  <1>1. bus' = NoCall
    OBVIOUS
  <1>2. DbusTypes' /\ KeptWhileUp' /\ IdsGivenOut' /\ CallbackOwnsId'
    BY <1>1 DEF DbusInv, DbusTypes, KeptWhileUp, IdsGivenOut, CallbackOwnsId
  <1>3. \A x : Matches(x, opens, nextId, pending, bus) => Matches(x, opens, nextId, pending, bus')
    BY <1>1 DEF Matches
  <1>4. MessagesMatch'
    BY <1>3 DEF DbusInv, MessagesMatch
  <1>5. AnswersArePast' /\ OwnReply'
    BY DEF DbusInv, AnswersArePast, OwnReply
  <1> QED BY <1>2, <1>4, <1>5 DEF DbusInv

LEMMA TellOwnerStep ==
    ASSUME DbusInv, TellOwner("tell", "return")
    PROVE  DbusInv'
  BY OwnerToldStep, OwnerMissedStep DEF TellOwner

\* The owner's answer carries what its question carried.
LEMMA OwnerHeardStep ==
    ASSUME DbusInv, NEW isError \in BOOLEAN, OwnerAnswers(isError),
           dbusbox' = Append(dbusbox, [type |-> "result", isError |-> isError,
                                       id |-> Head(owner).id, call |-> Head(owner).call,
                                       opens |-> Head(owner).opens])
    PROVE  DbusInv'
  <1> USE DEF OwnerAnswers
  <1> DEFINE q == Head(owner)
             m == [type |-> "result", isError |-> isError,
                   id |-> q.id, call |-> q.call, opens |-> q.opens]
  <1>1. /\ owner' \in Seq(Told)
        /\ Len(owner) >= 1 /\ Len(owner') = Len(owner) - 1
        /\ \A i \in 1 .. Len(owner') : owner'[i] = owner[i + 1]
        /\ q = owner[1] /\ q \in Told
    BY TailFacts DEF DbusInv, DbusTypes
  <1>2. Matches(q, opens, nextId, pending, bus)
    BY <1>1 DEF DbusInv, DbusTypes, MessagesMatch
  <1>3. m \in Results /\ m.id = q.id /\ m.call = q.call /\ m.opens = q.opens
    BY <1>1 DEF Told, Results
  <1>4. Matches(m, opens, nextId, pending, bus)
    BY <1>2, <1>3 DEF Matches
  <1>5. dbusbox' = Append(dbusbox, m)
    OBVIOUS
  <1> HIDE DEF q, m
  <1>6. /\ dbusbox' \in Seq(Results \cup ServiceRequests) /\ Len(dbusbox') = Len(dbusbox) + 1
        /\ Len(dbusbox) \in Nat
        /\ \A i \in 1 .. Len(dbusbox) + 1 :
              dbusbox'[i] = IF i <= Len(dbusbox) THEN dbusbox[i] ELSE m
    BY <1>3, <1>5, AppendFacts DEF DbusInv, DbusTypes
  <1>7. DbusTypes'
    BY <1>1, <1>6 DEF DbusInv, DbusTypes
  <1>8. KeptWhileUp' /\ IdsGivenOut' /\ CallbackOwnsId'
    BY DEF DbusInv, KeptWhileUp, IdsGivenOut, CallbackOwnsId
  <1>9. MessagesMatch'
    <2>1. \A i \in 1 .. Len(owner') : Matches(owner'[i], opens, nextId, pending, bus)
      BY <1>1 DEF DbusInv, DbusTypes, MessagesMatch
    <2>2. \A i \in 1 .. Len(dbusbox') : dbusbox'[i].type = "result" =>
              Matches(dbusbox'[i], opens, nextId, pending, bus)
      BY <1>4, <1>6 DEF DbusInv, MessagesMatch
    <2> QED BY <2>1, <2>2 DEF MessagesMatch
  <1>10. AnswersArePast' /\ OwnReply'
    BY DEF DbusInv, AnswersArePast, OwnReply
  <1> QED BY <1>7, <1>8, <1>9, <1>10 DEF DbusInv

\* The owner's answer is dropped at the actor's mailbox.
LEMMA AnswerMissedStep ==
    ASSUME DbusInv, NEW isError \in BOOLEAN, OwnerAnswers(isError), UNCHANGED dbusbox
    PROVE  DbusInv'
  <1> USE DEF OwnerAnswers
  <1>1. /\ owner' \in Seq(Told)
        /\ Len(owner) >= 1 /\ Len(owner') = Len(owner) - 1
        /\ \A i \in 1 .. Len(owner') : owner'[i] = owner[i + 1]
    BY TailFacts DEF DbusInv, DbusTypes
  <1>2. DbusTypes' /\ KeptWhileUp' /\ IdsGivenOut' /\ CallbackOwnsId'
    BY <1>1 DEF DbusInv, DbusTypes, KeptWhileUp, IdsGivenOut, CallbackOwnsId
  <1>3. MessagesMatch'
    <2>1. \A i \in 1 .. Len(owner') : Matches(owner'[i], opens, nextId, pending, bus)
      BY <1>1 DEF DbusInv, DbusTypes, MessagesMatch
    <2> QED BY <2>1 DEF DbusInv, MessagesMatch
  <1>4. AnswersArePast' /\ OwnReply'
    BY DEF DbusInv, AnswersArePast, OwnReply
  <1> QED BY <1>2, <1>3, <1>4 DEF DbusInv

LEMMA OwnerAnswersStep ==
    ASSUME DbusInv, NEW isError \in BOOLEAN, OwnerAnswers(isError)
    PROVE  DbusInv'
  BY OwnerHeardStep, AnswerMissedStep DEF OwnerAnswers

\* A request of another actor is no answer.
LEMMA SendRequestStep ==
    ASSUME DbusInv, NEW m \in ServiceRequests, SendRequest(m)
    PROVE  DbusInv'
  <1>0. /\ dbusbox' = Append(dbusbox, m)
        /\ UNCHANGED <<dbusUp, opens, nextId, pending, bus, call, owner>>
    BY DEF SendRequest
  <1>1. /\ dbusbox' \in Seq(Results \cup ServiceRequests) /\ Len(dbusbox') = Len(dbusbox) + 1
        /\ Len(dbusbox) \in Nat
        /\ \A i \in 1 .. Len(dbusbox) + 1 :
              dbusbox'[i] = IF i <= Len(dbusbox) THEN dbusbox[i] ELSE m
    <2>1. m \in Results \cup ServiceRequests /\ dbusbox \in Seq(Results \cup ServiceRequests)
      BY DEF DbusInv, DbusTypes
    <2>2. Len(dbusbox) \in Nat
      BY <2>1
    <2> QED BY <1>0, <2>1, <2>2, AppendFacts
  <1>2. m.type # "result"
    BY RequestTypes
  <1>3. DbusTypes'
    BY <1>0, <1>1 DEF DbusInv, DbusTypes
  <1>4. KeptWhileUp' /\ IdsGivenOut' /\ CallbackOwnsId'
    BY <1>0 DEF DbusInv, KeptWhileUp, IdsGivenOut, CallbackOwnsId
  <1>5. MessagesMatch'
    <2>1. \A i \in 1 .. Len(dbusbox') : dbusbox'[i].type = "result" =>
              Matches(dbusbox'[i], opens, nextId, pending, bus)
      BY <1>1, <1>2 DEF DbusInv, MessagesMatch
    <2> QED BY <1>0, <2>1 DEF DbusInv, MessagesMatch
  <1>6. AnswersArePast' /\ OwnReply'
    BY <1>0 DEF DbusInv, AnswersArePast, OwnReply
  <1> QED BY <1>3, <1>4, <1>5, <1>6 DEF DbusInv

\* The handlers that only take a message leave calls and numbers alone.
LEMMA TakesOnlyStep ==
    ASSUME DbusInv, dbusbox # <<>>, dbusbox' = Tail(dbusbox),
           UNCHANGED <<dbusUp, opens, nextId, pending, bus, call, owner>>
    PROVE  DbusInv'
  <1>1. /\ dbusbox' \in Seq(Results \cup ServiceRequests)
        /\ \A i \in 1 .. Len(dbusbox') : dbusbox'[i].type = "result" =>
               Matches(dbusbox'[i], opens, nextId, pending, bus)
    BY ShorterMailbox DEF DbusInv
  <1>2. DbusTypes'
    BY <1>1 DEF DbusInv, DbusTypes
  <1>3. KeptWhileUp' /\ IdsGivenOut' /\ CallbackOwnsId'
    BY DEF DbusInv, KeptWhileUp, IdsGivenOut, CallbackOwnsId
  <1>4. MessagesMatch'
    BY <1>1 DEF DbusInv, MessagesMatch
  <1>5. AnswersArePast' /\ OwnReply'
    BY DEF DbusInv, AnswersArePast, OwnReply
  <1> QED BY <1>2, <1>3, <1>4, <1>5 DEF DbusInv

\* An answer goes to the call kept under its number: its own, unless it was given to
\* an earlier opening, and then it is marked with that opening.
LEMMA ResultStep ==
    ASSUME DbusInv, NEW ok \in BOOLEAN, HandleMethodCallResult(ok)
    PROVE  DbusInv'
  <1> DEFINE m == Head(dbusbox)
  <1>1. dbusbox # <<>> /\ m.type = "result" /\ dbusbox' = Tail(dbusbox) /\ dbusUp
    BY DEF HandleMethodCallResult, TakesDbus
  <1>2. /\ dbusbox' \in Seq(Results \cup ServiceRequests)
        /\ m \in Results \cup ServiceRequests
        /\ Matches(m, opens, nextId, pending, bus)
        /\ \A i \in 1 .. Len(dbusbox') : dbusbox'[i].type = "result" =>
               Matches(dbusbox'[i], opens, nextId, pending, bus)
    BY <1>1, ShorterMailbox DEF DbusInv
  <1>3. m \in Results
    BY <1>1, <1>2, ResultsOnly
  <1>4. CASE m.id \notin DOMAIN pending
    <2>1. UNCHANGED <<dbusUp, opens, nextId, pending, bus, call, owner>>
      BY <1>4 DEF HandleMethodCallResult
    <2> QED BY <1>1, <2>1, TakesOnlyStep
  <1>5. CASE m.id \in DOMAIN pending
    <2> DEFINE c == pending[m.id]
               reply == IF ok THEN [state |-> "answered", to |-> m.call, opens |-> m.opens]
                        ELSE [state |-> "dropped"]
    <2>1. /\ pending' = Restrict(pending, DOMAIN pending \ {m.id})
          /\ call' = [call EXCEPT ![c] = reply]
          /\ UNCHANGED <<dbusUp, opens, nextId, bus, owner>>
      BY <1>5 DEF HandleMethodCallResult, Replied
    <2>2. c \in Calls
      BY <1>5 DEF DbusInv, DbusTypes
    <2>3. /\ reply \in CallRecords
          /\ reply.state = "answered" => reply.to = m.call /\ reply.opens = m.opens
      BY <1>3 DEF Results, CallRecords
    <2>4. /\ m.opens \in Nat /\ m.opens <= opens
          /\ m.opens = opens => c = m.call
      BY <1>2, <1>3, <1>5 DEF Matches, Results
    <2>5. /\ DOMAIN pending' = DOMAIN pending \ {m.id}
          /\ \A i \in DOMAIN pending' : pending'[i] = pending[i]
      BY <2>1 DEF Restrict
    <2>6. /\ call' \in [Calls -> CallRecords]
          /\ \A d \in Calls : call'[d] = IF d = c THEN reply ELSE call[d]
      <3> HIDE DEF c, reply
      <3> QED BY <2>1, <2>2, <2>3 DEF DbusInv, DbusTypes
    <2> HIDE DEF m, c, reply
    <2>7. DbusTypes'
      BY <1>2, <2>1, <2>5, <2>6 DEF DbusInv, DbusTypes
    <2>8. KeptWhileUp' /\ IdsGivenOut' /\ CallbackOwnsId'
      BY <1>1, <2>1, <2>5 DEF DbusInv, KeptWhileUp, IdsGivenOut, CallbackOwnsId
    <2>9. \A x : Matches(x, opens, nextId, pending, bus) =>
                 Matches(x, opens, nextId, pending', bus)
      BY <2>5 DEF Matches
    <2>10. MessagesMatch'
      BY <1>2, <2>1, <2>9 DEF DbusInv, MessagesMatch
    <2>11. AnswersArePast' /\ OwnReply'
      BY <2>1, <2>2, <2>3, <2>4, <2>6 DEF DbusInv, AnswersArePast, OwnReply
    <2> QED BY <2>7, <2>8, <2>10, <2>11 DEF DbusInv
  <1> QED BY <1>4, <1>5

\* Every step of the service, of the bus, of the owner and of the actors that use the
\* service keeps the invariant.
LEMMA DbusInvStep == DbusInv /\ [DbusNext]_dbusVars => DbusInv'
  <1> SUFFICES ASSUME DbusInv, [DbusNext]_dbusVars
               PROVE  DbusInv'
    OBVIOUS
  <1>1. ASSUME NEW ok \in BOOLEAN, OpenDbus(ok) PROVE DbusInv'
    BY <1>1, OpenDbusStep
  <1>2. CASE CloseDbus
    BY <1>2, CloseDbusStep
  <1>3. ASSUME NEW c \in Calls, CallRefused(c) \/ CallArrives(c) PROVE DbusInv'
    BY <1>3, CallRefusedStep, CallArrivesStep
  <1>4. ASSUME NEW m \in ServiceRequests, SendRequest(m) PROVE DbusInv'
    BY <1>4, SendRequestStep
  <1>5. CASE Callback
    BY <1>5, KeepCallStep, TellOwnerStep DEF Callback
  <1>6. CASE OwnerStep
    BY <1>6, OwnerAnswersStep DEF OwnerStep
  <1>7. CASE IgnoreDbus
    BY <1>7, TakesOnlyStep DEF IgnoreDbus
  <1>8. CASE HandleUnregisterMethod
    BY <1>8, TakesOnlyStep DEF HandleUnregisterMethod, TakesDbus
  <1>9. CASE HandleProxyCallRequest
    BY <1>9, TakesOnlyStep DEF HandleProxyCallRequest, TakesDbus
  <1>10. ASSUME NEW ok \in BOOLEAN, HandleRegisterMethod(ok) PROVE DbusInv'
    BY <1>10, TakesOnlyStep DEF HandleRegisterMethod, TakesDbus
  <1>11. ASSUME NEW ok \in BOOLEAN, HandleMethodCallResult(ok) PROVE DbusInv'
    BY <1>11, ResultStep
  <1>12. ASSUME NEW ok \in BOOLEAN, HandleSubscribeSignal(ok) PROVE DbusInv'
    BY <1>12, TakesOnlyStep DEF HandleSubscribeSignal, TakesDbus
  <1>13. CASE UNCHANGED dbusVars
    <2> USE <1>13 DEF dbusVars
    <2>1. DbusTypes' /\ KeptWhileUp' /\ IdsGivenOut' /\ CallbackOwnsId'
      BY DEF DbusInv, DbusTypes, KeptWhileUp, IdsGivenOut, CallbackOwnsId
    <2>2. MessagesMatch' /\ AnswersArePast' /\ OwnReply'
      BY DEF DbusInv, MessagesMatch, AnswersArePast, OwnReply
    <2> QED BY <2>1, <2>2 DEF DbusInv
  <1> QED
    BY <1>1, <1>2, <1>3, <1>4, <1>5, <1>6, <1>7, <1>8, <1>9, <1>10, <1>11, <1>12, <1>13
    DEF DbusNext, DbusStep

\* Every caller on the bus gets the answer its own question was given, however calls,
\* answers, registrations and openings interleave; only an answer that outlived a close
\* and a new open may be a stranger's (nextCallId_, pendingMethodCalls_).
THEOREM EveryReplyIsOwn == BusSpec => []OwnReply
  <1>1. BusInit => DbusInv
    BY DbusInvInit DEF BusInit
  <1>2. DbusInv /\ [BusNext]_<<part, networkVars, dbusVars>> => DbusInv'
    BY DbusInvStep DEF BusNext
  <1>3. DbusInv => OwnReply
    BY DEF DbusInv
  <1> QED BY <1>1, <1>2, <1>3, PTL DEF BusSpec
==============================================================================
