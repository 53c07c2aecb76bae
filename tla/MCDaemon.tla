------------------------------ MODULE MCDaemon ------------------------------
(***************************************************************************)
(* One run for the main program (Application) and the two services on the  *)
(* system bus (BusClients).  Their models share no state, so a behaviour   *)
(* is one of a single part and of the others nothing has happened yet.     *)
(***************************************************************************)
EXTENDS Application, BusClients

CONSTANTS system_manager, tick, dbus_actor
ThreeActors == <<system_manager, tick, dbus_actor>>

ApplicationOn == part = "application"

DaemonInit ==
    /\ Init
    /\ \/ BusInit
       \/ NetworkInit /\ DbusInit /\ device = "disconnected" /\ ~dbus /\ ApplicationOn

DaemonNext ==
    \/ ApplicationOn /\ Next /\ UNCHANGED <<part, networkVars, dbusVars>>
    \/ BusNext /\ UNCHANGED vars

\* The fairness of each part, within its own behaviours; a network manager and a D-Bus
\* service that nobody has opened have no step to be fair to.
DaemonSpec ==
    /\ DaemonInit /\ [][DaemonNext]_<<part, vars, networkVars, dbusVars>>
    /\ WF_vars(ApplicationOn /\ MainStep)
    /\ \A w \in Workers : WF_vars(ApplicationOn /\ HandleSignal(w))
    /\ \A t \in Threads : WF_vars(ApplicationOn /\ (UseHandle(t) \/ SendFound(t)))
    /\ NetworkFairness /\ DbusFairness
=============================================================================
