------------------------------ MODULE Network ------------------------------
(***************************************************************************)
(* NetworkManagerActor and its WifiHandler between three parties that act  *)
(* on their own: the NetworkManager daemon (device state and access points *)
(* change at will), the D-Bus connection's thread (delivers signals) and   *)
(* the user (wifi commands, actor enable and disable through CmdActor).    *)
(* The actor's Tick handler is a sequence of D-Bus calls: the others act   *)
(* between them.  Every D-Bus call may fail.                               *)
(*                                                                         *)
(* One network, so an SSID is known or not, and of the access points only  *)
(* whether they were read; addresses and texts are left out.  The D-Bus    *)
(* actor opens or fails at the start and is not restarted.                 *)
(***************************************************************************)
EXTENDS Naturals, Sequences

CONSTANTS DeviceStates,   \* what NetworkManager may report of the device
          MaxNmMail         \* bound: requests in the actor's mailbox

ASSUME NetworkAssumption ==
    /\ MaxNmMail \in Nat
    /\ {"disconnected", "activating"} \subseteq DeviceStates
    /\ DeviceStates \subseteq {"unavailable", "disconnected", "activating", "activated", "deactivating"}

VARIABLES device,   \* NetworkManager: its state of the wireless device
          unseen,   \* the access points changed and no read has followed, failed or not
          signal,   \* a device signal is on its way to the D-Bus thread
          dbus,     \* is the D-Bus actor open?
          wifi,     \* WifiHandler: device found, signals subscribed, state, reconnect_, refreshPending
          nm,       \* NetworkManagerActor: open, its timer, where its Tick handler stands
          nmbox,    \* its mailbox
          status    \* CmdActor::lastStatus_, a message on its way included

networkVars == <<device, unseen, signal, dbus, wifi, nm, nmbox, status>>

\* mapDeviceState; a state that cannot be read is 0, an error.
MapDeviceState(s) ==
    CASE s = "disconnected" -> "Disconnected"
      [] s = "activating"   -> "Connecting"
      [] s = "activated"    -> "Connected"
      [] s = "deactivating" -> "Disconnecting"
      [] OTHER              -> "Error"

\* getDeviceState and mapDeviceState: without a proxy, or when the call fails, 0.
SyncedState(found, ok) == IF found /\ ok THEN MapDeviceState(device) ELSE "Error"

Requests == {"scan", "connect", "disconnect", "auto on", "auto off"}

NetworkInit ==
    /\ device \in DeviceStates /\ unseen = FALSE
    /\ signal = FALSE /\ dbus \in BOOLEAN
    /\ wifi = [found |-> FALSE, subscribed |-> FALSE, state |-> "Disconnected",
               last |-> FALSE, enabled |-> TRUE, pending |-> FALSE]
    /\ nm = [up |-> FALSE, timer |-> FALSE, pc |-> "idle"] /\ nmbox = <<>>
    /\ status = [state |-> "Disconnected", network |-> FALSE]

-----------------------------------------------------------------------------
(* The environment                                                         *)

\* The device changes by itself: a link is lost or found, an activation goes on.
DeviceChanges(s) ==
    /\ s # device
    /\ device' = s
    /\ UNCHANGED <<unseen, signal, dbus, wifi, nm, nmbox, status>>

\* An access point appears or disappears; NetworkManager signals it to a subscriber.
ApsChange ==
    /\ wifi.subscribed
    /\ unseen' = TRUE /\ signal' = TRUE
    /\ UNCHANGED <<device, dbus, wifi, nm, nmbox, status>>

\* The signal's callback, on the thread of the D-Bus connection.
DeliverSignal ==
    /\ signal
    /\ signal' = FALSE
    /\ wifi' = [wifi EXCEPT !.pending = TRUE]
    /\ UNCHANGED <<device, unseen, dbus, nm, nmbox, status>>

\* CmdActor::handleWifi
HandleWifi(r) ==
    /\ Len(nmbox) < MaxNmMail
    /\ nmbox' = Append(nmbox, r)
    /\ UNCHANGED <<device, unseen, signal, dbus, wifi, nm, status>>

\* The repeating timer; bound: one Tick in the mailbox.
TimerTick ==
    /\ nm.timer /\ \A i \in DOMAIN nmbox : nmbox[i] # "tick"
    /\ nmbox' = Append(nmbox, "tick")
    /\ UNCHANGED <<device, unseen, signal, dbus, wifi, nm, status>>

-----------------------------------------------------------------------------
(* open and close, at start and stop or by ActorEnable/DisableRequest      *)

\* The first wireless device of GetAllDevices; none if there is none or a call fails.
FindWirelessDevice == BOOLEAN

\* WifiHandler::open subscribes to the device it found, or fails to and goes on.
SubscribeSignals(found) == IF found THEN BOOLEAN ELSE {FALSE}

\* The D-Bus actor must be open.  The wireless device is found in one of four
\* tries or not at all; without it there is no timer.  Its signals may not be had.
Open(found, subscribed, ok) ==
    /\ ~nm.up /\ dbus
    /\ nm' = [up |-> TRUE, timer |-> found, pc |-> "idle"]
    /\ wifi' = [wifi EXCEPT !.found = found, !.subscribed = subscribed,
                            !.state = IF found THEN SyncedState(TRUE, ok) ELSE @]
    /\ UNCHANGED <<device, unseen, signal, dbus, nmbox, status>>

\* cancelAllTimers and WifiHandler::close.  refreshPending is cleared before the
\* proxy is released, so a last signal may set it again.  Messages stay in the mailbox.
Close ==
    /\ nm.up /\ nm.pc = "idle"
    /\ nm' = [up |-> FALSE, timer |-> FALSE, pc |-> "idle"]
    /\ \E p \in {FALSE, signal} :
         wifi' = [wifi EXCEPT !.found = FALSE, !.subscribed = FALSE, !.pending = p,
                              !.state = "Disconnected"]
    /\ signal' = FALSE /\ unseen' = FALSE
    /\ UNCHANGED <<device, dbus, nmbox, status>>

\* handle(Message) of an actor that is not open
Ignore ==
    /\ ~nm.up /\ nmbox # <<>>
    /\ nmbox' = Tail(nmbox)
    /\ UNCHANGED <<device, unseen, signal, dbus, wifi, nm, status>>

-----------------------------------------------------------------------------
(* WifiHandler's operations                                                *)

Ready == wifi.found /\ wifi.state \in {"Disconnected", "Connected"}

\* addAndActivateConnection: Connected as soon as NetworkManager accepts.
AddAndActivateConnection(ok) ==
    IF Ready
    THEN /\ wifi' = [wifi EXCEPT !.state = IF ok THEN "Connected" ELSE "Disconnected",
                                 !.last = @ \/ ok]
         /\ device' = IF ok THEN "activating" ELSE device
    ELSE UNCHANGED <<wifi, device>>

\* getActiveApPath and readApInfo; readInterfaceName and readIp4Address.  There is
\* something to read once the device is activated; what cannot be read is empty.
ReadActiveAp(read) == wifi.found /\ read /\ device = "activated"
ReadAddress(read)  == wifi.found /\ read /\ device = "activated"

\* reportStatus, and CmdActor::handle(WifiStatusResult).  The network and the address
\* are read only when connected.
ReportStatus(s, read) ==
    status' = [state |-> s,
               network |-> s = "Connected" /\ ReadActiveAp(read) /\ ReadAddress(read)]

\* What `wifi status' prints of the last report.
FormatStatus ==
    [state   |-> CASE status.state = "Disconnected"  -> "disconnected"
                   [] status.state = "Scanning"      -> "scanning"
                   [] status.state = "Connecting"    -> "connecting"
                   [] status.state = "Connected"     -> "connected"
                   [] status.state = "Disconnecting" -> "disconnecting"
                   [] status.state = "Error"         -> "error",
     network |-> IF status.state = "Connected" THEN status.network ELSE FALSE]

Takes(msg) ==
    /\ nm.up /\ nm.pc = "idle" /\ nmbox # <<>> /\ Head(nmbox) = msg
    /\ nmbox' = Tail(nmbox)

RequestScan(ok) ==
    /\ Takes("scan")
    /\ wifi' = IF Ready /\ ok THEN [wifi EXCEPT !.state = "Scanning"] ELSE wifi
    /\ UNCHANGED <<device, unseen, signal, dbus, nm, status>>

Connect(ok) ==
    /\ Takes("connect")
    /\ AddAndActivateConnection(ok)
    /\ UNCHANGED <<unseen, signal, dbus, nm, status>>

\* Without a proxy the state would stay Disconnecting.
DisconnectDevice(ok) ==
    /\ Takes("disconnect")
    /\ IF wifi.state \in {"Connected", "Connecting"}
       THEN IF wifi.found
            THEN /\ wifi' = [wifi EXCEPT !.state = IF ok THEN "Disconnected" ELSE "Connected"]
                 /\ device' = IF ok THEN "disconnected" ELSE device
            ELSE wifi' = [wifi EXCEPT !.state = "Disconnecting"] /\ UNCHANGED device
       ELSE UNCHANGED <<wifi, device>>
    /\ UNCHANGED <<unseen, signal, dbus, nm, status>>

SetAutoReconnect ==
    /\ \E on \in BOOLEAN :
         /\ Takes(IF on THEN "auto on" ELSE "auto off")
         /\ wifi' = [wifi EXCEPT !.enabled = on]
    /\ UNCHANGED <<device, unseen, signal, dbus, nm, status>>

-----------------------------------------------------------------------------
(* handle(Tick): syncDeviceState; consumeScanRefreshPending; refreshAps;   *)
(* autoReconnect and reportStatus                                          *)

\* Seeded fault: the tick does not look at the device.
SyncDeviceStateSkipped(ok) ==
    /\ Takes("tick")
    /\ nm' = [nm EXCEPT !.pc = "consume"]
    /\ UNCHANGED <<device, unseen, signal, dbus, wifi, status>>

SyncDeviceState(ok) ==
    /\ Takes("tick")
    /\ wifi' = [wifi EXCEPT !.state = SyncedState(wifi.found, ok)]
    /\ nm' = [nm EXCEPT !.pc = "consume"]
    /\ UNCHANGED <<device, unseen, signal, dbus, status>>

\* exchange(false), before the list is read.
ConsumeScanRefreshPending ==
    /\ nm.pc = "consume"
    /\ nm' = [nm EXCEPT !.pc = IF wifi.pending THEN "refresh" ELSE "reconnect"]
    /\ wifi' = [wifi EXCEPT !.pending = FALSE]
    /\ UNCHANGED <<device, unseen, signal, dbus, nmbox, status>>

\* A failure is caught and not repeated: the flag is not set again.
RefreshAps ==
    /\ nm.pc = "refresh"
    /\ nm' = [nm EXCEPT !.pc = "reconnect"]
    /\ unseen' = FALSE
    /\ UNCHANGED <<device, signal, dbus, wifi, nmbox, status>>

\* Seeded fault: the flag is cleared after the list was read.
ScanRefreshReversed ==
    \/ /\ nm.pc = "consume"
       /\ nm' = [nm EXCEPT !.pc = IF wifi.pending THEN "clear" ELSE "reconnect"]
       /\ unseen' = (unseen /\ ~wifi.pending)
       /\ UNCHANGED <<device, signal, dbus, wifi, nmbox, status>>
    \/ /\ nm.pc = "clear"
       /\ nm' = [nm EXCEPT !.pc = "reconnect"]
       /\ wifi' = [wifi EXCEPT !.pending = FALSE]
       /\ UNCHANGED <<device, unseen, signal, dbus, nmbox, status>>

ScanRefresh == ConsumeScanRefreshPending \/ RefreshAps

AutoReconnectAndReport(ok, read) ==
    /\ nm.pc = "reconnect"
    /\ nm' = [nm EXCEPT !.pc = "idle"]
    /\ IF wifi.enabled /\ wifi.state = "Disconnected" /\ wifi.last
       THEN AddAndActivateConnection(ok)
       ELSE UNCHANGED <<wifi, device>>
    /\ ReportStatus(wifi'.state, read)
    /\ UNCHANGED <<unseen, signal, dbus, nmbox>>

-----------------------------------------------------------------------------
ActorStep ==
    \/ Ignore \/ SetAutoReconnect \/ ScanRefresh
    \/ \E ok \in BOOLEAN :
         \/ RequestScan(ok) \/ Connect(ok) \/ DisconnectDevice(ok)
         \/ SyncDeviceState(ok)
         \/ \E read \in BOOLEAN : AutoReconnectAndReport(ok, read)

NetworkNext ==
    \/ \E s \in DeviceStates : DeviceChanges(s)
    \/ ApsChange \/ DeliverSignal \/ TimerTick
    \/ \E r \in Requests : HandleWifi(r)
    \/ \E found \in FindWirelessDevice : \E subscribed \in SubscribeSignals(found), ok \in BOOLEAN :
          Open(found, subscribed, ok)
    \/ Close \/ ActorStep

\* The workers, the D-Bus thread and the timer are scheduled; reading the device's
\* state does not fail for ever, nor does reading the network of a connection.
NetworkFairness ==
    /\ WF_networkVars(ActorStep) /\ SF_networkVars(SyncDeviceState(TRUE))
    /\ SF_networkVars(wifi.state = "Connected" /\ \E ok \in BOOLEAN : AutoReconnectAndReport(ok, TRUE))
    /\ WF_networkVars(TimerTick) /\ WF_networkVars(DeliverSignal)

-----------------------------------------------------------------------------
\* A change of the access points that was signalled is followed by a read, or the flag,
\* the signal or the refresh that will read it is still there
\* (refreshPending between the D-Bus thread and the Tick handler).
RefreshNotLost ==
    unseen => signal \/ wifi.pending \/ nm.pc = "refresh"

Shows(s) ==
    /\ FormatStatus.state = CASE s = "disconnected" -> "disconnected"
                              [] s = "activating"   -> "connecting"
                              [] s = "activated"    -> "connected"
                              [] s = "deactivating" -> "disconnecting"
                              [] OTHER              -> "error"
    /\ s = "activated" => FormatStatus.network

\* A device state that lasts is what `wifi status' shows in the end, with the network
\* and the address of a connection, whatever the user asked for meanwhile
\* (Tick, syncDeviceState, reportStatus, lastStatus_, formatStatus).
StatusCatchesUp ==
    \A s \in DeviceStates :
        (device = s /\ nm.timer) ~> (Shows(s) \/ device # s \/ ~nm.timer)
=============================================================================
