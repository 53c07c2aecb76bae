------------------------- MODULE ApplicationProofs -------------------------
(***************************************************************************)
(* Proofs about the daemon from main() to its end, for any list of actors, *)
(* any number of workers, signals and messages: no thread holds a pointer  *)
(* to a destroyed actor, and every actor is closed when the process ends,  *)
(* also when an open() throws.                                             *)
(***************************************************************************)
EXTENDS Application, TLAPS

MainPcs == {"create", "open", "ready", "loop", "sleep", "stop", "join", "close",
            "destroy", "exited", "terminated"}
ThreadPcs == {"none", "idle", "found", "handle", "gone"}
ThreadRecords == [pc : ThreadPcs, ptr : Actors \cup {None},
                  handle : [actor : Actors \cup {None}, gen : Nat]]

Types ==
    /\ main \in MainPcs /\ k \in Nat \ {0}
    /\ gens \in [Actors -> Nat]
    /\ Registered \subseteq Actors
    /\ \A a \in Registered : registry[a] \in Nat
    /\ state \in [Actors -> {"Closed", "Opening", "Opened"}]
    /\ thread \in [Threads -> ThreadRecords]

\* The registry knows only actors that exist, and none once they are being destroyed.
RegistryAlive ==
    /\ Registered \subseteq alive
    /\ main \in {"destroy", "exited"} => Registered = {}

Active(t) == thread[t].pc \notin {"none", "gone"}

\* Workers run from the end of start() to the join in stop().
WorkersBetween ==
    \A w \in Workers \ {Dbus} :
        Active(w) => main \in {"ready", "loop", "sleep", "stop", "join"}

\* The D-Bus thread runs from its actor's open() to its close().
DbusBetween ==
    /\ main \in {"destroy", "exited"} => ~Active(Dbus)
    /\ main = "close" => \A i \in 1 .. k - 1 : Created[i] = Dbus => ~Active(Dbus)

\* stop() has closed the actors its loop has passed; after it all are closed.
ClosedSoFar ==
    /\ main = "close" => \A i \in 1 .. k - 1 : state[Created[i]] = "Closed"
    /\ main \in {"destroy", "exited", "terminated"} => \A a \in Actors : state[a] = "Closed"

AppInv ==
    /\ Types /\ RegistryAlive /\ WorkersBetween /\ DbusBetween /\ ClosedSoFar
    /\ NoDanglingActor

-----------------------------------------------------------------------------
\* The actors are the elements of the list createActors goes through.
LEMMA CreatedFacts ==
    /\ Len(Created) \in Nat
    /\ \A i \in 1 .. Len(Created) : Created[i] \in Actors
    /\ \A a \in Actors : \E i \in 1 .. Len(Created) : Created[i] = a
    /\ Dbus \in Actors /\ Dbus \in Threads /\ Workers \subseteq Threads
  <1>1. Created \in Seq(Actors) /\ Dbus \in Actors
    BY ApplicationAssumption
  <1>2. Len(Created) \in Nat /\ DOMAIN Created = 1 .. Len(Created)
    BY <1>1
  <1>3. \A a \in Actors : \E i \in 1 .. Len(Created) : Created[i] = a
    BY <1>2 DEF Actors, ToSet
  <1> QED BY <1>1, <1>2, <1>3 DEF Threads

\* main() starts in the invariant.
LEMMA AppInvInit == Init => AppInv
  <1> SUFFICES ASSUME Init PROVE AppInv
    OBVIOUS
  <1>1. Registered = {}
    BY DEF Init, Registered
  <1>2. [pc |-> "none", ptr |-> None, handle |-> NoHandle] \in ThreadRecords
    BY DEF ThreadRecords, ThreadPcs, NoHandle
  <1>3. Types
    BY <1>1, <1>2 DEF Init, Types, MainPcs
  <1>4. \A t \in Threads : thread[t].pc = "none"
    BY DEF Init
  <1>5. RegistryAlive /\ ClosedSoFar
    BY <1>1 DEF Init, RegistryAlive, ClosedSoFar
  <1>6. WorkersBetween /\ DbusBetween /\ NoDanglingActor
    BY <1>4, CreatedFacts DEF Init, WorkersBetween, DbusBetween, NoDanglingActor, Active
  <1> QED BY <1>3, <1>5, <1>6 DEF AppInv

\* A thread that is somewhere else.
LEMMA NewPc ==
    ASSUME NEW f \in [Threads -> ThreadRecords], NEW t \in Threads, NEW p \in ThreadPcs
    PROVE  [f EXCEPT ![t].pc = p] \in [Threads -> ThreadRecords]
  <1>1. [f[t] EXCEPT !.pc = p] \in ThreadRecords
    BY DEF ThreadRecords
  <1> QED BY <1>1

\* Steps of the main thread that only move it on.
LEMMA MovesOn ==
    ASSUME AppInv, k' \in Nat \ {0},
           UNCHANGED <<registry, gens, alive, state, thread>>,
           \/ main = "create" /\ main' = "open"
           \/ main = "ready" /\ main' = "loop"
           \/ main = "loop" /\ main' = "sleep"
           \/ main = "sleep" /\ main' = "stop"
           \/ main = "stop" /\ main' = "join"
           \/ main = "destroy" /\ main' = "exited"
           \/ main' = main /\ k' = k
    PROVE  AppInv'
  <1>1. Types'
    BY DEF AppInv, Types, MainPcs, Registered
  <1>2. RegistryAlive' /\ ClosedSoFar'
    BY DEF AppInv, RegistryAlive, ClosedSoFar, Registered
  <1>3. WorkersBetween' /\ DbusBetween' /\ NoDanglingActor'
    BY DEF AppInv, WorkersBetween, DbusBetween, NoDanglingActor, Active
  <1> QED BY <1>1, <1>2, <1>3 DEF AppInv

\* createActors
LEMMA CreateActorStep ==
    ASSUME AppInv, CreateActor
    PROVE  AppInv'
  <1>0. /\ main = "create" /\ k \in 1 .. Len(Created) /\ k' = k + 1
        /\ alive' = alive \cup {Created[k]} /\ RegistryAdd(Created[k])
        /\ UNCHANGED <<main, state, thread>>
    BY CreatedFacts DEF CreateActor, AppInv, Types
  <1>1. Created[k] \in Actors
    BY <1>0, CreatedFacts
  <1>2. /\ Registered' = Registered \cup {Created[k]}
        /\ \A b \in Registered' : registry'[b] = IF b = Created[k] THEN gens[b] ELSE registry[b]
    BY <1>0 DEF RegistryAdd, Registered
  <1>3. gens' \in [Actors -> Nat]
    BY <1>0, <1>1 DEF RegistryAdd, AppInv, Types
  <1>4. Types'
    BY <1>0, <1>1, <1>2, <1>3 DEF AppInv, Types
  <1>5. RegistryAlive' /\ ClosedSoFar'
    BY <1>0, <1>2 DEF AppInv, RegistryAlive, ClosedSoFar
  <1>6. WorkersBetween' /\ DbusBetween' /\ NoDanglingActor'
    BY <1>0 DEF AppInv, WorkersBetween, DbusBetween, NoDanglingActor, Active
  <1> QED BY <1>4, <1>5, <1>6 DEF AppInv

\* ActorSystem::start opens an actor; the D-Bus actor's thread may begin.
LEMMA OpenActorStep ==
    ASSUME AppInv, NEW outcome \in {"ok", "fail", "throw"}, OpenActor(outcome)
    PROVE  AppInv'
  <1> DEFINE a == Created[k]
  <1>0. /\ main = "open" /\ k \in 1 .. Len(Created) /\ k' = k + 1
        /\ state' = [state EXCEPT ![a] = AfterOpen(outcome)]
        /\ main' \in {"open", "stop"}
        /\ UNCHANGED <<registry, gens, alive>>
    BY CreatedFacts DEF OpenActor, AppInv, Types
  <1>1. thread' \in [Threads -> ThreadRecords]
    <2>1. thread \in [Threads -> ThreadRecords] /\ "idle" \in ThreadPcs
      BY DEF AppInv, Types, ThreadPcs
    <2>2. thread' = thread \/ thread' = [thread EXCEPT ![Dbus].pc = "idle"]
      BY DEF OpenActor
    <2> QED BY <2>1, <2>2, NewPc, CreatedFacts
  <1>2. \A t \in Threads : /\ t # Dbus => thread'[t] = thread[t]
                           /\ thread'[t].pc = "found" => thread'[t] = thread[t]
    BY DEF OpenActor, AppInv, Types, ThreadRecords
  <1>3. state' \in [Actors -> {"Closed", "Opening", "Opened"}]
    BY <1>0, CreatedFacts DEF AfterOpen, AppInv, Types
  <1>4. Types'
    BY <1>0, <1>1, <1>3 DEF AppInv, Types, MainPcs, Registered
  <1>5. RegistryAlive' /\ ClosedSoFar'
    BY <1>0 DEF AppInv, RegistryAlive, ClosedSoFar, Registered
  <1>6. WorkersBetween' /\ DbusBetween'
    BY <1>0, <1>2, CreatedFacts DEF AppInv, WorkersBetween, DbusBetween, Active
  <1>7. NoDanglingActor'
    BY <1>0, <1>2 DEF AppInv, NoDanglingActor
  <1> QED BY <1>4, <1>5, <1>6, <1>7 DEF AppInv

\* The workers start.
LEMMA StartWorkersStep ==
    ASSUME AppInv, StartWorkers
    PROVE  AppInv'
  <1>0. main = "open" /\ main' = "ready" /\ UNCHANGED <<k, registry, gens, alive, state>>
    BY DEF StartWorkers
  <1>1. thread' \in [Threads -> ThreadRecords]
    BY DEF StartWorkers, AppInv, Types, ThreadRecords, ThreadPcs
  <1>2. \A t \in Threads : thread'[t].pc = "found" => thread'[t] = thread[t]
    BY DEF StartWorkers, AppInv, Types, ThreadRecords
  <1>3. Types'
    BY <1>0, <1>1 DEF AppInv, Types, MainPcs, Registered
  <1>4. RegistryAlive' /\ ClosedSoFar' /\ WorkersBetween' /\ DbusBetween'
    BY <1>0 DEF AppInv, RegistryAlive, ClosedSoFar, WorkersBetween, DbusBetween, Registered
  <1>5. NoDanglingActor'
    BY <1>0, <1>2 DEF AppInv, NoDanglingActor
  <1> QED BY <1>3, <1>4, <1>5 DEF AppInv

\* A worker is joined: it runs no more.
LEMMA JoinWorkerStep ==
    ASSUME AppInv, NEW w \in Workers, JoinWorker(w)
    PROVE  AppInv'
  <1>0. UNCHANGED <<main, k, registry, gens, alive, state>>
    BY DEF JoinWorker, mainVars
  <1>1. thread' \in [Threads -> ThreadRecords]
    <2>1. thread \in [Threads -> ThreadRecords] /\ "gone" \in ThreadPcs
      BY DEF AppInv, Types, ThreadPcs
    <2> QED BY <2>1, NewPc, CreatedFacts DEF JoinWorker
  <1>2. \A t \in Threads : thread'[t] = thread[t] \/ thread'[t].pc = "gone"
    BY DEF JoinWorker, AppInv, Types, ThreadRecords
  <1>3. Types'
    BY <1>0, <1>1 DEF AppInv, Types, MainPcs, Registered
  <1>4. RegistryAlive' /\ ClosedSoFar'
    BY <1>0 DEF AppInv, RegistryAlive, ClosedSoFar, Registered
  <1>5. WorkersBetween' /\ DbusBetween' /\ NoDanglingActor'
    BY <1>0, <1>2, CreatedFacts DEF AppInv, WorkersBetween, DbusBetween, NoDanglingActor, Active
  <1> QED BY <1>3, <1>4, <1>5 DEF AppInv

\* All workers are joined before the actors are closed.
LEMMA WorkersJoinedStep ==
    ASSUME AppInv, WorkersJoined
    PROVE  AppInv'
  <1>0. /\ main = "join" /\ main' = "close" /\ k' = 1
        /\ \A w \in Workers : thread[w].pc \in {"gone", "none"}
        /\ UNCHANGED <<registry, gens, alive, state, thread>>
    BY DEF WorkersJoined
  <1>1. Types'
    BY <1>0 DEF AppInv, Types, MainPcs, Registered
  <1>2. RegistryAlive' /\ ClosedSoFar'
    BY <1>0 DEF AppInv, RegistryAlive, ClosedSoFar, Registered
  <1>3. WorkersBetween' /\ DbusBetween' /\ NoDanglingActor'
    BY <1>0 DEF AppInv, WorkersBetween, DbusBetween, NoDanglingActor, Active
  <1> QED BY <1>1, <1>2, <1>3 DEF AppInv

\* stop() closes an actor; the D-Bus actor's close() waits for its thread.
LEMMA CloseActorStep ==
    ASSUME AppInv, CloseActor
    PROVE  AppInv'
  <1> DEFINE a == Created[k]
  <1>0. /\ main = "close" /\ k \in 1 .. Len(Created) /\ k' = k + 1
        /\ state' = [state EXCEPT ![a] = "Closed"]
        /\ UNCHANGED <<main, registry, gens, alive>>
    BY CreatedFacts DEF CloseActor, AppInv, Types
  <1>1. thread' \in [Threads -> ThreadRecords]
    <2>1. thread \in [Threads -> ThreadRecords] /\ "gone" \in ThreadPcs
      BY DEF AppInv, Types, ThreadPcs
    <2>2. thread' = thread \/ thread' = [thread EXCEPT ![Dbus].pc = "gone"]
      BY DEF CloseActor
    <2> QED BY <2>1, <2>2, NewPc, CreatedFacts
  <1>2. /\ \A t \in Threads : thread'[t] = thread[t] \/ thread'[t].pc = "gone"
        /\ a = Dbus => thread'[Dbus].pc \in {"none", "gone"}
    BY CreatedFacts DEF CloseActor, AppInv, Types, ThreadRecords
  <1>3. a \in Actors
    BY <1>0, CreatedFacts
  <1>4. /\ state' \in [Actors -> {"Closed", "Opening", "Opened"}]
        /\ \A b \in Actors : state'[b] = IF b = a THEN "Closed" ELSE state[b]
    BY <1>0, <1>3 DEF AppInv, Types
  <1>5. Types'
    BY <1>0, <1>1, <1>4 DEF AppInv, Types, MainPcs, Registered
  <1>6. RegistryAlive'
    BY <1>0 DEF AppInv, RegistryAlive, Registered
  <1>7. ClosedSoFar'
    <2>1. ASSUME NEW i \in 1 .. k' - 1 PROVE state'[Created[i]] = "Closed"
      <3>1. i \in 1 .. Len(Created) /\ (i = k \/ i \in 1 .. k - 1)
        BY <1>0, CreatedFacts
      <3> QED BY <1>0, <1>4, <3>1, CreatedFacts DEF AppInv, ClosedSoFar
    <2> QED BY <1>0, <2>1 DEF ClosedSoFar
  <1>8. DbusBetween'
    <2>1. ASSUME NEW i \in 1 .. k' - 1, Created[i] = Dbus PROVE ~Active(Dbus)'
      <3>1. i = k \/ i \in 1 .. k - 1
        BY <1>0
      <3> QED BY <1>0, <1>2, <2>1, <3>1, CreatedFacts DEF AppInv, DbusBetween, Active
    <2> QED BY <1>0, <2>1 DEF DbusBetween
  <1>9. WorkersBetween' /\ NoDanglingActor'
    BY <1>0, <1>2, CreatedFacts DEF AppInv, WorkersBetween, NoDanglingActor, Active
  <1> QED BY <1>5, <1>6, <1>7, <1>8, <1>9 DEF AppInv

\* stop() returns with every actor closed and the D-Bus thread gone.
LEMMA StopDoneStep ==
    ASSUME AppInv, StopDone
    PROVE  AppInv'
  <1>0. /\ main = "close" /\ k > Len(Created) /\ k' = 1
        /\ main' \in {"terminated", "stop", "destroy"}
        /\ registry' = registry \/ registry' = <<>>
        /\ main' = "destroy" => registry' = <<>>
        /\ UNCHANGED <<gens, alive, state, thread>>
    BY DEF StopDone
  <1>1. Registered' \in {Registered, {}} /\ (main' = "destroy" => Registered' = {})
    BY <1>0 DEF Registered
  <1>2. \A i \in 1 .. Len(Created) : i \in 1 .. k - 1
    BY <1>0, CreatedFacts DEF AppInv, Types
  <1>3. \A a \in Actors : state[a] = "Closed"
    BY <1>0, <1>2, CreatedFacts DEF AppInv, ClosedSoFar
  <1>4. ~Active(Dbus)
    BY <1>0, <1>2, CreatedFacts DEF AppInv, DbusBetween
  <1>5. \A a \in Registered' : registry'[a] \in Nat
    BY <1>0, <1>1 DEF AppInv, Types, Registered
  <1>6. Types'
    BY <1>0, <1>1, <1>5 DEF AppInv, Types, MainPcs
  <1>7. RegistryAlive' /\ ClosedSoFar'
    BY <1>0, <1>1, <1>3 DEF AppInv, RegistryAlive, ClosedSoFar
  <1>8. WorkersBetween' /\ DbusBetween' /\ NoDanglingActor'
    BY <1>0, <1>4 DEF AppInv, WorkersBetween, DbusBetween, NoDanglingActor, Active
  <1> QED BY <1>6, <1>7, <1>8 DEF AppInv

\* A runtime is destroyed when no thread is left that could hold a pointer to it.
LEMMA DestroyRuntimeStep ==
    ASSUME AppInv, DestroyRuntime
    PROVE  AppInv'
  <1>0. /\ main = "destroy" /\ k \in 1 .. Len(Created) /\ k' = k + 1
        /\ RegistryRemove(Created[k])
        /\ UNCHANGED <<main, state, thread>>
    BY CreatedFacts DEF DestroyRuntime, AppInv, Types
  <1>1. Created[k] \in Actors
    BY <1>0, CreatedFacts
  <1>2. Registered = {} /\ Registered' = {}
    BY <1>0 DEF RegistryRemove, Registered, AppInv, RegistryAlive
  <1>3. gens' \in [Actors -> Nat]
    BY <1>0, <1>1 DEF RegistryRemove, AppInv, Types
  <1>4. Types'
    BY <1>0, <1>2, <1>3 DEF AppInv, Types
  <1>5. RegistryAlive' /\ ClosedSoFar'
    BY <1>0, <1>2 DEF AppInv, RegistryAlive, ClosedSoFar
  <1>6. WorkersBetween' /\ DbusBetween'
    BY <1>0 DEF AppInv, WorkersBetween, DbusBetween, Active
  <1>7. \A t \in Threads : ~Active(t)
    BY <1>0 DEF AppInv, WorkersBetween, DbusBetween, Threads
  <1>8. NoDanglingActor'
    BY <1>0, <1>7 DEF NoDanglingActor, Active
  <1> QED BY <1>4, <1>5, <1>6, <1>8 DEF AppInv

\* What a thread does between two steps of the main thread: it stays active, and a
\* pointer it finds is one of an actor in the registry, which exists.
LEMMA ThreadStep ==
    ASSUME AppInv, NEW t \in Threads, Active(t),
           UNCHANGED <<main, k, registry, gens, alive, state>>,
           NEW r \in ThreadRecords, r.pc = "found" => r.ptr \in Registered,
           thread' = [thread EXCEPT ![t] = r]
    PROVE  AppInv'
  <1>1. /\ thread' \in [Threads -> ThreadRecords]
        /\ \A u \in Threads : thread'[u] = IF u = t THEN r ELSE thread[u]
    BY DEF AppInv, Types
  <1>2. Types'
    BY <1>1 DEF AppInv, Types, Registered
  <1>3. RegistryAlive' /\ ClosedSoFar'
    BY DEF AppInv, RegistryAlive, ClosedSoFar, Registered
  <1>4. WorkersBetween' /\ DbusBetween'
    BY <1>1, CreatedFacts DEF AppInv, WorkersBetween, DbusBetween, Active
  <1>5. NoDanglingActor'
    BY <1>1 DEF AppInv, NoDanglingActor, RegistryAlive
  <1> QED BY <1>2, <1>3, <1>4, <1>5 DEF AppInv

\* A lookup, a handle taken or used, and the send that follows.
LEMMA SendingStep ==
    ASSUME AppInv, NEW t \in Threads, NEW a \in Actors,
           LookUp(t, a) \/ TakeHandle(t, a) \/ UseHandle(t) \/ SendFound(t)
    PROVE  AppInv'
  <1>0. UNCHANGED <<main, k, registry, gens, alive, state>>
    BY DEF LookUp, TakeHandle, UseHandle, SendFound, mainVars
  <1>1. /\ thread \in [Threads -> ThreadRecords] /\ thread[t] \in ThreadRecords
        /\ None \notin Actors /\ Registered \subseteq Actors
        /\ \A b \in Registered : registry[b] \in Nat
    BY ApplicationAssumption DEF AppInv, Types
  <1>2. CASE LookUp(t, a)
    <2> DEFINE r == [thread[t] EXCEPT !.pc = "found", !.ptr = a]
    <2>1. Find(a) = a /\ a \in Registered
      BY <1>2 DEF LookUp, Find
    <2>2. thread' = [thread EXCEPT ![t] = r]
      BY <1>2, <2>1 DEF LookUp
    <2>3. r \in ThreadRecords /\ r.ptr = a
      BY <1>1 DEF ThreadRecords, ThreadPcs
    <2>4. Active(t)
      BY <1>2 DEF LookUp, Active
    <2> HIDE DEF r
    <2> QED BY <1>0, <2>1, <2>2, <2>3, <2>4, ThreadStep
  <1>3. CASE TakeHandle(t, a)
    <2> DEFINE h == [actor |-> a, gen |-> registry[a]]
               r == [thread[t] EXCEPT !.pc = "handle", !.handle = h]
    <2>1. a \in Registered /\ Active(t)
      BY <1>3 DEF TakeHandle, Active
    <2>2. thread' = [thread EXCEPT ![t] = r]
      BY <1>3 DEF TakeHandle
    <2>3. h \in [actor : Actors \cup {None}, gen : Nat]
      BY <1>1, <2>1
    <2>4. r \in ThreadRecords /\ r.pc = "handle"
      <3> HIDE DEF h
      <3> QED BY <1>1, <2>3 DEF ThreadRecords, ThreadPcs
    <2> HIDE DEF r
    <2> QED BY <1>0, <2>1, <2>2, <2>4, ThreadStep
  <1>4. CASE UseHandle(t)
    <2> DEFINE b == Resolve(thread[t].handle)
               r == [thread[t] EXCEPT !.pc = IF b = None THEN "idle" ELSE "found",
                                      !.ptr = b, !.handle = NoHandle]
    <2>1. Active(t) /\ thread' = [thread EXCEPT ![t] = r]
      BY <1>4 DEF UseHandle, Active
    <2>2. b = None \/ b \in Registered
      BY DEF Resolve
    <2>3. NoHandle \in [actor : Actors \cup {None}, gen : Nat]
      BY DEF NoHandle
    <2>4. r \in ThreadRecords /\ (r.pc = "found" => r.ptr \in Registered)
      <3> HIDE DEF b
      <3> QED BY <1>1, <2>2, <2>3 DEF ThreadRecords, ThreadPcs
    <2> HIDE DEF r
    <2> QED BY <1>0, <2>1, <2>4, ThreadStep
  <1>5. CASE SendFound(t)
    <2> DEFINE r == [thread[t] EXCEPT !.pc = "idle", !.ptr = None]
    <2>1. Active(t) /\ thread' = [thread EXCEPT ![t] = r]
      BY <1>5 DEF SendFound, Active
    <2>2. r \in ThreadRecords /\ r.pc = "idle"
      BY <1>1 DEF ThreadRecords, ThreadPcs
    <2> HIDE DEF r
    <2> QED BY <1>0, <2>1, <2>2, ThreadStep
  <1> QED BY <1>2, <1>3, <1>4, <1>5

\* Every step of the main thread, a signal, a worker or the D-Bus thread keeps the
\* invariant.
LEMMA AppInvStep == AppInv /\ [Next]_vars => AppInv'
  <1> SUFFICES ASSUME AppInv, [Next]_vars
               PROVE  AppInv'
    OBVIOUS
  <1>0. k \in Nat \ {0} /\ 1 \in Nat \ {0}
    BY DEF AppInv, Types
  <1>1. CASE SystemStart \/ Run \/ LeaveLoop \/ LeaveSleep \/ StopLoop \/ Exit
    <2>1. /\ k' \in Nat \ {0}
          /\ UNCHANGED <<registry, gens, alive, state, thread>>
      BY <1>0, <1>1 DEF SystemStart, Run, LeaveLoop, LeaveSleep, StopLoop, Exit
    <2>2. \/ main = "create" /\ main' = "open"
          \/ main = "ready" /\ main' = "loop"
          \/ main = "loop" /\ main' = "sleep"
          \/ main = "sleep" /\ main' = "stop"
          \/ main = "stop" /\ main' = "join"
          \/ main = "destroy" /\ main' = "exited"
      BY <1>1 DEF SystemStart, Run, LeaveLoop, LeaveSleep, StopLoop, Exit
    <2> QED BY <2>1, <2>2, MovesOn
  <1>2. CASE ReadPipe \/ Signal \/ (\E w \in Workers : HandleSignal(w)) \/ UNCHANGED vars
    <2>1. UNCHANGED <<main, k, registry, gens, alive, state, thread>>
      BY <1>2 DEF ReadPipe, Signal, HandleSignal, vars, mainVars
    <2> QED BY <1>0, <2>1, MovesOn
  <1>3. CASE CreateActor
    BY <1>3, CreateActorStep
  <1>4. ASSUME NEW outcome \in {"ok", "fail", "throw"}, OpenActor(outcome) PROVE AppInv'
    BY <1>4, OpenActorStep
  <1>5. CASE StartWorkers
    BY <1>5, StartWorkersStep
  <1>6. ASSUME NEW w \in Workers, JoinWorker(w) PROVE AppInv'
    BY <1>6, JoinWorkerStep
  <1>7. CASE WorkersJoined
    BY <1>7, WorkersJoinedStep
  <1>8. CASE CloseActor
    BY <1>8, CloseActorStep
  <1>9. CASE StopDone
    BY <1>9, StopDoneStep
  <1>10. CASE DestroyRuntime
    BY <1>10, DestroyRuntimeStep
  <1>11. ASSUME NEW t \in Threads, UseHandle(t) \/ SendFound(t) PROVE AppInv'
    BY <1>11, SendingStep, CreatedFacts
  <1>12. ASSUME NEW t \in Threads, NEW a \in Actors, LookUp(t, a) \/ TakeHandle(t, a)
         PROVE  AppInv'
    BY <1>12, SendingStep
  <1> QED
    BY <1>1, <1>2, <1>3, <1>4, <1>5, <1>6, <1>7, <1>8, <1>9, <1>10, <1>11, <1>12
    DEF Next, MainStep

\* The invariant holds in every behaviour.
LEMMA AppInvariant == Spec => []AppInv
  BY AppInvInit, AppInvStep, PTL DEF Spec

\* Whatever the threads look up, and whenever, no pointer or handle they resolved
\* outlives its actor: all of them are joined before ~ActorSystem destroys a runtime
\* (ActorRegistry::find*, ActorHandle::send, Worker::stop, DbusActor::close).
THEOREM NoPointerDangles == Spec => []NoDanglingActor
  BY AppInvariant, PTL DEF AppInv

\* However the process ends, every actor has been closed, also one whose open() failed
\* or threw half way, and before its runtime is destroyed
\* (ActorSystem::start's catch clauses, stop, ~ActorSystem).
THEOREM EveryActorClosed == Spec => []ClosedAtEnd
  <1>1. AppInv => ClosedAtEnd
    BY DEF AppInv, ClosedSoFar, ClosedAtEnd
  <1> QED BY <1>1, AppInvariant, PTL
=============================================================================
