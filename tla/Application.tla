---------------------------- MODULE Application ----------------------------
(***************************************************************************)
(* The daemon from main() to its end: MainApp wires the ActorSystem, the   *)
(* ActorRegistry hands out plain pointers to actors, the SignalHandler     *)
(* turns a signal into a byte in a pipe, a message and requestStop(), and  *)
(* the main thread, which is also the event loop, closes and destroys what *)
(* the workers and the D-Bus thread may still hold pointers to.            *)
(*                                                                         *)
(* The runtime of the actors is in WorkDispatch and Supervision; here a    *)
(* worker looks an actor up, sends to it later, and handles SignalNotify.  *)
(***************************************************************************)
EXTENDS Naturals, Sequences, FiniteSets, SequencesExt

CONSTANTS Created,        \* the actors in the order of createActors
          SystemManager,  \* the one that reads the signal pipe
          Dbus,           \* the one whose open() starts a thread of sdbus
          Workers,
          MaxSignals,     \* bound: signals sent to the process
          MaxSends        \* bound: messages sent by the workers and the D-Bus thread

Actors   == ToSet(Created)
Threads  == Workers \cup {Dbus}
None     == "none"
NoHandle == [actor |-> None, gen |-> 0]

ASSUME ApplicationAssumption ==
    /\ Created \in Seq(Actors)
    /\ SystemManager \in Actors /\ Dbus \in Actors /\ None \notin Actors
    /\ MaxSignals \in Nat /\ MaxSends \in Nat

VARIABLES main,      \* where the main thread is
          k,         \* the actor its loops are at
          pass,      \* the call of ActorSystem::stop it is in
          throwing,  \* an exception of an open() is on its way out of main()
          registry,  \* byId_ and byName_: actor -> generation
          gens,      \* generations_
          alive,     \* runtimes that exist
          state,     \* Actor::state_
          isRunning, loopRunning,
          pipe, pipeOpen,   \* SignalHandler::pipeFd_
          notified,  \* SignalNotify messages in the system manager's mailbox
          thread,    \* per worker and the D-Bus thread: pc, the pointer or handle it found
          signals, sends

mainVars == <<main, k, pass, throwing>>
sigVars  == <<pipe, pipeOpen, notified, signals>>
vars == <<mainVars, registry, gens, alive, state, isRunning, loopRunning, sigVars, thread, sends>>

Init ==
    /\ main = "create" /\ k = 1 /\ pass = 1 /\ throwing = FALSE
    /\ registry = <<>> /\ gens = [a \in Actors |-> 0] /\ alive = {}
    /\ state = [a \in Actors |-> "Closed"]
    /\ isRunning = FALSE /\ loopRunning = FALSE
    /\ pipe = 0 /\ pipeOpen = FALSE /\ notified = 0 /\ signals = 0
    /\ thread = [t \in Threads |-> [pc |-> "none", ptr |-> None, handle |-> NoHandle]]
    /\ sends = 0

-----------------------------------------------------------------------------
(* ActorRegistry                                                           *)

Registered == DOMAIN registry

RegistryAdd(a) ==
    /\ gens' = [gens EXCEPT ![a] = @ + 1]
    /\ registry' = [b \in Registered \cup {a} |-> IF b = a THEN gens[a] ELSE registry[b]]

RegistryRemove(a) ==
    /\ gens' = [gens EXCEPT ![a] = @ + 1]
    /\ registry' = [b \in Registered \ {a} |-> registry[b]]

\* findActorByName and findActorById: a plain pointer, used after the lock is
\* released.
Find(a) == IF a \in Registered THEN a ELSE None

\* resolve: only for the generation the handle was made in.
Resolve(h) == IF h.actor \in Registered /\ registry[h.actor] = h.gen THEN h.actor ELSE None

-----------------------------------------------------------------------------
(* MainApp::open: createActors, then ActorSystem::start                    *)

\* createActor and attachActor.
CreateActor ==
    /\ main = "create" /\ k <= Len(Created)
    /\ alive' = alive \cup {Created[k]} /\ RegistryAdd(Created[k])
    /\ k' = k + 1
    /\ UNCHANGED <<main, pass, throwing, state, isRunning, loopRunning, sigVars, thread, sends>>

SystemStart ==
    /\ main = "create" /\ k > Len(Created)
    /\ loopRunning' = TRUE
    /\ main' = "open" /\ k' = 1
    /\ UNCHANGED <<pass, throwing, registry, gens, alive, state, isRunning, sigVars, thread, sends>>

\* What open() of a service leaves behind.
AfterOpen(outcome) == CASE outcome = "ok" -> "Opened" [] outcome = "fail" -> "Closed" [] OTHER -> "Opening"

\* Seeded fault: the exception leaves start() without stop().
OpenActorEscapes(outcome) ==
    LET a == Created[k] IN
    /\ main = "open" /\ k <= Len(Created)
    /\ state' = [state EXCEPT ![a] = AfterOpen(outcome)]
    /\ pipeOpen' = (pipeOpen \/ a = SystemManager)
    /\ thread' = IF a = Dbus /\ outcome = "ok" THEN [thread EXCEPT ![a].pc = "idle"] ELSE thread
    /\ k' = k + 1
    /\ throwing' = (outcome = "throw")
    /\ main' = IF outcome = "throw" THEN "terminated" ELSE main
    /\ UNCHANGED <<pass, registry, gens, alive, isRunning, loopRunning, pipe, notified, signals, sends>>

\* open() succeeds, returns Fail (logged, nothing more), or throws.  The system
\* manager makes the signal pipe, the D-Bus actor starts its thread.
OpenActor(outcome) ==
    LET a == Created[k] IN
    /\ main = "open" /\ k <= Len(Created)
    /\ state' = [state EXCEPT ![a] = AfterOpen(outcome)]
    /\ pipeOpen' = (pipeOpen \/ a = SystemManager)
    /\ thread' = IF a = Dbus /\ outcome = "ok" THEN [thread EXCEPT ![a].pc = "idle"] ELSE thread
    /\ k' = k + 1
    /\ throwing' = (outcome = "throw")
    /\ main' = IF outcome = "throw" THEN "stop" ELSE main
    /\ UNCHANGED <<pass, registry, gens, alive, isRunning, loopRunning, pipe, notified, signals, sends>>

StartWorkers ==
    /\ main = "open" /\ k > Len(Created)
    /\ thread' = [t \in Threads |-> IF t \in Workers THEN [thread[t] EXCEPT !.pc = "idle"] ELSE thread[t]]
    /\ main' = "ready"
    /\ UNCHANGED <<k, pass, throwing, registry, gens, alive, state, isRunning, loopRunning, sigVars, sends>>

-----------------------------------------------------------------------------
(* MainApp::run: the event loop, then the sleep loop                       *)

Run ==
    /\ main = "ready" /\ main' = "loop" /\ isRunning' = TRUE
    /\ UNCHANGED <<k, pass, throwing, registry, gens, alive, state, loopRunning, sigVars, thread, sends>>

\* The system manager's handler of the pipe.
ReadPipe ==
    /\ main = "loop" /\ pipe > 0 /\ state[SystemManager] # "Closed"
    /\ pipe' = pipe - 1 /\ notified' = notified + 1
    /\ UNCHANGED <<mainVars, registry, gens, alive, state, isRunning, loopRunning, pipeOpen,
                   signals, thread, sends>>

LeaveLoop ==
    /\ main = "loop" /\ ~loopRunning /\ main' = "sleep"
    /\ UNCHANGED <<k, pass, throwing, registry, gens, alive, state, isRunning, loopRunning,
                   sigVars, thread, sends>>

\* run() returns; ~MainApp calls close().
LeaveSleep ==
    /\ main = "sleep" /\ ~isRunning /\ main' = "stop"
    /\ UNCHANGED <<k, pass, throwing, registry, gens, alive, state, isRunning, loopRunning,
                   sigVars, thread, sends>>

-----------------------------------------------------------------------------
(* ActorSystem::stop, once from MainApp::close and once from ~ActorSystem   *)

\* The scheduler, the event loop and beginDrain.
StopLoop ==
    /\ main = "stop"
    /\ loopRunning' = FALSE /\ main' = "join"
    /\ UNCHANGED <<k, pass, throwing, registry, gens, alive, state, isRunning, sigVars, thread, sends>>

\* Worker::stop joins the worker once it has handled what is queued.
JoinWorker(w) ==
    /\ main = "join" /\ thread[w].pc = "idle" /\ notified = 0
    /\ thread' = [thread EXCEPT ![w].pc = "gone"]
    /\ UNCHANGED <<mainVars, registry, gens, alive, state, isRunning, loopRunning, sigVars, sends>>

\* Seeded fault: the actors are closed while workers still run.
WorkersJoinedEarly ==
    /\ main = "join"
    /\ main' = "close" /\ k' = 1
    /\ UNCHANGED <<pass, throwing, registry, gens, alive, state, isRunning, loopRunning, sigVars, thread, sends>>

WorkersJoined ==
    /\ main = "join" /\ \A w \in Workers : thread[w].pc \in {"gone", "none"}
    /\ main' = "close" /\ k' = 1
    /\ UNCHANGED <<pass, throwing, registry, gens, alive, state, isRunning, loopRunning, sigVars, thread, sends>>

\* close() of one actor; the D-Bus actor leaves its event loop, which joins the
\* thread.
CloseActor ==
    LET a == Created[k] IN
    /\ main = "close" /\ k <= Len(Created)
    /\ a = Dbus => thread[Dbus].pc \in {"idle", "none", "gone"}
    /\ thread' = IF a = Dbus /\ thread[Dbus].pc = "idle"
                 THEN [thread EXCEPT ![Dbus].pc = "gone"] ELSE thread
    /\ state' = [state EXCEPT ![a] = "Closed"]
    /\ k' = k + 1
    /\ UNCHANGED <<main, pass, throwing, registry, gens, alive, isRunning, loopRunning, sigVars, sends>>

\* The exception goes on and nothing catches it; or ~ActorSystem calls stop()
\* again and clears the registry.
StopDone ==
    /\ main = "close" /\ k > Len(Created)
    /\ main' = IF throwing THEN "terminated" ELSE IF pass = 1 THEN "stop" ELSE "destroy"
    /\ pass' = 2 /\ k' = 1
    /\ registry' = IF throwing \/ pass = 1 THEN registry ELSE <<>>
    /\ UNCHANGED <<throwing, gens, alive, state, isRunning, loopRunning, sigVars, thread, sends>>

\* actorRuntimes_ goes: ~ActorRuntime takes its actor out of the registry.
DestroyRuntime ==
    /\ main = "destroy" /\ k <= Len(Created)
    /\ alive' = alive \ {Created[k]} /\ RegistryRemove(Created[k])
    /\ k' = k + 1
    /\ UNCHANGED <<main, pass, throwing, state, isRunning, loopRunning, sigVars, thread, sends>>

Exit ==
    /\ main = "destroy" /\ k > Len(Created) /\ main' = "exited"
    /\ UNCHANGED <<k, pass, throwing, registry, gens, alive, state, isRunning, loopRunning,
                   sigVars, thread, sends>>

-----------------------------------------------------------------------------
(* Signals, workers and the D-Bus thread                                   *)

\* SignalHandler::onSignal: without a pipe the signal is dropped.
Signal ==
    /\ signals < MaxSignals /\ main \notin {"exited", "terminated"}
    /\ signals' = signals + 1
    /\ pipe' = IF pipeOpen THEN pipe + 1 ELSE pipe
    /\ UNCHANGED <<mainVars, registry, gens, alive, state, isRunning, loopRunning, pipeOpen,
                   notified, thread, sends>>

\* Seeded fault: requestStop() only lowers the flag of the sleep loop.
HandleSignalFlagOnly(w) ==
    /\ thread[w].pc = "idle" /\ notified > 0
    /\ notified' = notified - 1
    /\ isRunning' = IF state[SystemManager] = "Opened" THEN FALSE ELSE isRunning
    /\ UNCHANGED <<mainVars, registry, gens, alive, state, loopRunning, pipe, pipeOpen, signals,
                   thread, sends>>

\* SignalNotify: SignalHandler::dispatch calls MainApp::requestStop.
HandleSignal(w) ==
    LET opened == state[SystemManager] = "Opened" IN
    /\ thread[w].pc = "idle" /\ notified > 0
    /\ notified' = notified - 1
    /\ isRunning' = IF opened THEN FALSE ELSE isRunning
    /\ loopRunning' = IF opened THEN FALSE ELSE loopRunning
    /\ UNCHANGED <<mainVars, registry, gens, alive, state, pipe, pipeOpen, signals, thread, sends>>

\* Actor::sendMsg: the lookup, and the enqueue that follows.
LookUp(t, a) ==
    /\ thread[t].pc = "idle" /\ sends < MaxSends /\ Find(a) # None
    /\ thread' = [thread EXCEPT ![t].pc = "found", ![t].ptr = Find(a)]
    /\ sends' = sends + 1
    /\ UNCHANGED <<mainVars, registry, gens, alive, state, isRunning, loopRunning, sigVars>>

\* findHandleByName, findHandleById, forEachActor's snapshot ...
TakeHandle(t, a) ==
    /\ thread[t].pc = "idle" /\ sends < MaxSends /\ a \in Registered
    /\ thread' = [thread EXCEPT ![t].pc = "handle",
                                ![t].handle = [actor |-> a, gen |-> registry[a]]]
    /\ sends' = sends + 1
    /\ UNCHANGED <<mainVars, registry, gens, alive, state, isRunning, loopRunning, sigVars>>

\* ... and ActorHandle::get or send, later.
UseHandle(t) ==
    LET a == Resolve(thread[t].handle) IN
    /\ thread[t].pc = "handle"
    /\ thread' = [thread EXCEPT ![t].pc = IF a = None THEN "idle" ELSE "found", ![t].ptr = a,
                                ![t].handle = NoHandle]
    /\ UNCHANGED <<mainVars, registry, gens, alive, state, isRunning, loopRunning, sigVars, sends>>

SendFound(t) ==
    /\ thread[t].pc = "found"
    /\ thread' = [thread EXCEPT ![t].pc = "idle", ![t].ptr = None]
    /\ UNCHANGED <<mainVars, registry, gens, alive, state, isRunning, loopRunning, sigVars, sends>>

MainStep ==
    \/ CreateActor \/ SystemStart \/ StartWorkers \/ Run \/ ReadPipe \/ LeaveLoop \/ LeaveSleep
    \/ \E outcome \in {"ok", "fail", "throw"} : OpenActor(outcome)
    \/ StopLoop \/ WorkersJoined \/ CloseActor \/ StopDone \/ DestroyRuntime \/ Exit
    \/ \E w \in Workers : JoinWorker(w)

Next ==
    \/ MainStep \/ Signal
    \/ \E w \in Workers : HandleSignal(w)
    \/ \E t \in Threads : UseHandle(t) \/ SendFound(t)
    \/ \E t \in Threads, a \in Actors : LookUp(t, a) \/ TakeHandle(t, a)

\* The main thread and the workers go on, and a thread that is about to send sends.
Spec ==
    /\ Init /\ [][Next]_vars
    /\ WF_vars(MainStep)
    /\ \A w \in Workers : WF_vars(HandleSignal(w))
    /\ \A t \in Threads : WF_vars(UseHandle(t) \/ SendFound(t))

-----------------------------------------------------------------------------
\* No thread ever holds a pointer to an actor whose runtime is destroyed, although
\* the registry gives pointers out and forgets about them: everyone who may hold
\* one is joined before ~ActorSystem (ActorRegistry::find*, ActorHandle::send).
NoDanglingActor ==
    \A t \in Threads : thread[t].pc = "found" => thread[t].ptr \in alive

\* When the process ends, by exit or by an exception of open(), every actor has been
\* closed, and a runtime is destroyed only after its actor's close()
\* (ActorSystem::start's catch clauses, stop, ~ActorSystem).
ClosedAtEnd ==
    /\ main \in {"exited", "terminated"} => \A a \in Actors : state[a] = "Closed"
    /\ main \in {"destroy", "exited"} => \A a \in Actors \ alive : state[a] = "Closed"

\* A signal that reached the pipe ends the program, wherever the threads are
\* (SystemManagerActor's pipe handler, MainApp::requestStop, run and close).
SignalStopsApp ==
    (pipe > 0 /\ state[SystemManager] = "Opened") ~> (main \in {"exited", "terminated"})
=============================================================================
