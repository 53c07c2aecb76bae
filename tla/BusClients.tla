----------------------------- MODULE BusClients -----------------------------
(***************************************************************************)
(* The two services on the system bus.  The network manager uses only the  *)
(* connection of the D-Bus actor (Network's variable dbus), never its      *)
(* messages, so a behaviour is one of the network manager or one of the    *)
(* D-Bus service; of the other nothing has happened yet.                   *)
(***************************************************************************)
EXTENDS Network, DbusService

VARIABLE part   \* "network" or "dbus", fixed in a behaviour

BusInit ==
    /\ NetworkInit /\ DbusInit
    /\ part = "network" \/ (part = "dbus" /\ device = "disconnected" /\ ~dbus)

BusNext ==
    \/ part = "network" /\ NetworkNext /\ UNCHANGED <<part, dbusVars>>
    \/ part = "dbus" /\ DbusNext /\ UNCHANGED <<part, networkVars>>

BusSpec ==
    /\ BusInit /\ [][BusNext]_<<part, networkVars, dbusVars>>
    /\ NetworkFairness /\ DbusFairness
=============================================================================
