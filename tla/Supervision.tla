---------------------------- MODULE Supervision ----------------------------
(***************************************************************************)
(* Failure handling: ActorRuntime's lifecycle messages, restart and        *)
(* shutdown, Supervisor::onActorFailed with its three strategies, the      *)
(* dead-letter queue and the one-for-all broadcast, between the open()     *)
(* and close() calls of ActorSystem::start and stop.                       *)
(*                                                                         *)
(* At most one worker executes an actor (module WorkDispatch shows it), so *)
(* an actor has one program counter: where the worker that executes it is. *)
(* processBatch reads stopped_ once and then handles up to maxBatch        *)
(* messages; a shutdown in a restart that a message asked for is not an    *)
(* exception and does not end the batch.                                   *)
(* onActorFailed calls itself when open() throws in a restart; `frames'    *)
(* are the calls in progress, innermost last, each with the policy it      *)
(* read.  open() and close() are virtual: they succeed, open() may return  *)
(* Fail with the actor Closed or throw half way, close() may throw half    *)
(* way.                                                                    *)
(***************************************************************************)
EXTENDS Integers, Sequences, FiniteSets

CONSTANTS Actors,
          Essential,           \* actors with essential_ set
          MailboxCapacity,
          MaxBatch,            \* workerMaxBatch: messages of one processBatch
          DeadLetterCapacity,
          Scenarios,           \* supervisorDefaultStrategy, supervisorMaxRestarts, what
                               \* open() and close() may do; bounds: calls of the
                               \* setters and messages from outside
          Strategies, Limits,  \* what the policy setters may choose from
          MaxCount,            \* bound: statistics saturate here
          NoMsg

ASSUME SupervisionAssumption ==
    /\ Essential \subseteq Actors /\ IsFiniteSet(Actors)
    /\ MailboxCapacity \in Nat \ {0} /\ MaxBatch \in Nat \ {0} /\ DeadLetterCapacity \in Nat \ {0}
    /\ Strategies \subseteq {"OneForOne", "OneForAll", "None"}
    /\ \A s \in Scenarios :
          /\ s.strategy \in {"OneForOne", "OneForAll", "None"} /\ s.maxRestarts \in Nat
          /\ s.faults \subseteq {"open fails", "open throws", "close throws"}
          /\ s.maxChanges \in Nat /\ s.maxSends \in Nat
    /\ Limits \subseteq Nat /\ MaxCount \in Nat

VARIABLES
    state,        \* Actor::state_
    stopped,      \* ActorRuntime::stopped_
    restartCount, \* ActorRuntime::restartCount_
    inbox,        \* the mailbox: message kinds, oldest first
    pc,           \* where the worker executing the actor is
    msg,          \* the message it is handling
    inTry,        \* it is inside the try block of processBatch
    frames,       \* calls of onActorFailed in progress
    todo,         \* actors the broadcast has yet to reach
    taken,        \* messages taken in the batch in progress
    strategy,     \* defaultStrategy_
    override,     \* perActorStrategy_
    limit,        \* maxRestarts_
    broadcasts,   \* oneForAllRestartCount_
    letters,      \* length of the dead-letter queue
    failures,     \* totalFailures_, each actor's share of it
    totalRestarts,
    phase,        \* where ActorSystem::start or stop is
    opened,       \* actors start() has opened, or stop() has closed
    crashed,      \* an exception left a thread: std::terminate
    sent, changes,
    scenario,     \* one of Scenarios, fixed in a behaviour
    reopened      \* history: how often an actor came to be Opened after it was stopped

actorVars  == <<state, stopped, restartCount, inbox>>
callVars   == <<pc, msg, inTry, frames, todo, taken>>
policyVars == <<strategy, override, limit, broadcasts>>
statVars   == <<letters, failures, totalRestarts>>
mainVars   == <<phase, opened, crashed>>
boundVars  == <<sent, changes, scenario, reopened>>
vars == <<actorVars, callVars, policyVars, statVars, mainVars, boundVars>>

Goto(a, l) == pc' = [pc EXCEPT ![a] = l]

Count(n, k) == IF n + k < MaxCount THEN n + k ELSE MaxCount

StrategyOf(a) == IF override[a] = "unset" THEN strategy ELSE override[a]

\* deadLetterQueue_.push: a full queue drops the letter.
PushLetter == letters' = IF letters < DeadLetterCapacity THEN letters + 1 ELSE letters

Init ==
    /\ state = [a \in Actors |-> "Closed"]
    /\ stopped = [a \in Actors |-> FALSE]
    /\ restartCount = [a \in Actors |-> 0]
    /\ inbox = [a \in Actors |-> <<>>]
    /\ pc = [a \in Actors |-> "idle"]
    /\ msg = [a \in Actors |-> NoMsg]
    /\ inTry = [a \in Actors |-> FALSE]
    /\ frames = [a \in Actors |-> <<>>]
    /\ todo = [a \in Actors |-> {}] /\ taken = [a \in Actors |-> 0]
    /\ scenario \in Scenarios
    /\ strategy = scenario.strategy /\ limit = scenario.maxRestarts
    /\ override = [a \in Actors |-> "unset"]
    /\ broadcasts = [a \in Actors |-> 0]
    /\ letters = 0 /\ totalRestarts = 0 /\ failures = [a \in Actors |-> 0]
    /\ phase = "starting" /\ opened = {} /\ crashed = FALSE
    /\ sent = 0 /\ changes = 0 /\ reopened = [a \in Actors |-> 0]

-----------------------------------------------------------------------------
(* open() and close() of a service actor                                   *)

\* The actor comes to be in state st.
Becomes(a, st) ==
    /\ state' = [state EXCEPT ![a] = st]
    /\ reopened' = [reopened EXCEPT ![a] = IF stopped[a] /\ st = "Opened" THEN Count(@, 1) ELSE @]

\* What open() may leave behind, and whether it threw.
OpenOutcomes ==
    {<<"Opened", FALSE>>}
    \cup (IF "open fails" \in scenario.faults THEN {<<"Closed", FALSE>>} ELSE {})
    \cup (IF "open throws" \in scenario.faults THEN {<<"Opening", TRUE>>} ELSE {})

\* close() of a Closed actor returns at once.
CloseOutcomes(a) ==
    {<<"Closed", FALSE>>}
    \cup (IF "close throws" \in scenario.faults /\ state[a] # "Closed" THEN {<<"Closing", TRUE>>} ELSE {})

-----------------------------------------------------------------------------
(* The outside: producers, and the supervisor's policy setters             *)

\* ActorRuntime::enqueue of a message of kind m; a full mailbox drops it.
Delivered(box, m) == IF Len(box) < MailboxCapacity THEN Append(box, m) ELSE box

Send(a, m) ==
    /\ phase \in {"starting", "up"} /\ ~crashed
    /\ sent < scenario.maxSends
    /\ sent' = sent + 1
    /\ inbox' = [inbox EXCEPT ![a] = Delivered(@, m)]
    /\ UNCHANGED <<state, stopped, restartCount, callVars, policyVars, statVars, mainVars,
                   changes, scenario, reopened>>

\* setDefaultStrategy, setStrategy, removePolicy and setMaxRestarts, each
\* under the lock.
SetDefaultStrategy(s) ==
    /\ ~crashed /\ changes < scenario.maxChanges
    /\ changes' = changes + 1
    /\ strategy' = s
    /\ UNCHANGED <<actorVars, callVars, override, limit, broadcasts, statVars, mainVars, sent, scenario, reopened>>

SetStrategy(a, s) ==
    /\ ~crashed /\ changes < scenario.maxChanges
    /\ changes' = changes + 1
    /\ override' = [override EXCEPT ![a] = s]
    /\ UNCHANGED <<actorVars, callVars, strategy, limit, broadcasts, statVars, mainVars, sent, scenario, reopened>>

RemovePolicy(a) ==
    /\ ~crashed /\ changes < scenario.maxChanges
    /\ changes' = changes + 1
    /\ override' = [override EXCEPT ![a] = "unset"]
    /\ broadcasts' = [broadcasts EXCEPT ![a] = 0]
    /\ UNCHANGED <<actorVars, callVars, strategy, limit, statVars, mainVars, sent, scenario, reopened>>

SetMaxRestarts(n) ==
    /\ ~crashed /\ changes < scenario.maxChanges
    /\ changes' = changes + 1
    /\ limit' = n
    /\ UNCHANGED <<actorVars, callVars, strategy, override, broadcasts, statVars, mainVars,
                   sent, scenario, reopened>>

-----------------------------------------------------------------------------
(* ActorRuntime::processBatch and tryConsumeLifecycle                      *)

Pop(a) ==
    /\ inbox[a] # <<>> /\ ~crashed
    /\ msg' = [msg EXCEPT ![a] = Head(inbox[a])]
    /\ inbox' = [inbox EXCEPT ![a] = Tail(@)]
    /\ inTry' = [inTry EXCEPT ![a] = TRUE]
    /\ taken' = [taken EXCEPT ![a] = @ + 1]
    /\ Goto(a, "handle")
    /\ UNCHANGED <<state, stopped, restartCount, frames, todo, policyVars, statVars,
                   mainVars, boundVars>>

\* Seeded fault: processBatch does not look at stopped_.
TakeFirstOfStopped(a) ==
    /\ phase \in {"up", "draining"}
    /\ pc[a] = "idle"
    /\ Pop(a)

\* A batch begins unless the actor is stopped ...
TakeFirst(a) ==
    /\ phase \in {"up", "draining"}
    /\ pc[a] = "idle" /\ ~stopped[a]
    /\ Pop(a)

\* ... and goes on without another look at stopped_.
TakeNext(a) ==
    /\ pc[a] = "batch" /\ taken[a] < MaxBatch
    /\ Pop(a)

EndBatch(a) ==
    /\ pc[a] = "batch" /\ (taken[a] = MaxBatch \/ inbox[a] = <<>>) /\ ~crashed
    /\ taken' = [taken EXCEPT ![a] = 0]
    /\ Goto(a, "idle")
    /\ UNCHANGED <<actorVars, msg, inTry, frames, todo, policyVars, statVars, mainVars, boundVars>>

\* The message is done with; the batch goes on.
Finish(a) ==
    /\ Goto(a, "batch")
    /\ msg' = [msg EXCEPT ![a] = NoMsg]
    /\ inTry' = [inTry EXCEPT ![a] = FALSE]

\* An exception reaches the catch clauses of processBatch.
Caught(a) ==
    /\ Goto(a, "report")
    /\ inTry' = [inTry EXCEPT ![a] = FALSE]
    /\ UNCHANGED msg

\* A handler returns or throws; one of an actor that is not Opened returns.
HandleWork(a) ==
    /\ pc[a] = "handle" /\ msg[a] = "work" /\ ~crashed
    /\ Finish(a) \/ (state[a] = "Opened" /\ Caught(a))
    /\ UNCHANGED <<actorVars, frames, todo, taken, policyVars, statVars, mainVars, boundVars>>

EnableRequest(a) ==
    /\ pc[a] = "handle" /\ msg[a] = "enable" /\ ~crashed
    /\ \/ /\ state[a] = "Closed"
          /\ \E o \in OpenOutcomes :
                /\ Becomes(a, o[1])
                /\ IF o[2] THEN Caught(a) ELSE Finish(a)
       \/ state[a] # "Closed" /\ Finish(a) /\ UNCHANGED <<state, reopened>>
    /\ UNCHANGED <<stopped, restartCount, inbox, frames, todo, taken, policyVars, statVars,
                   mainVars, sent, changes, scenario>>

DisableRequest(a) ==
    /\ pc[a] = "handle" /\ msg[a] = "disable" /\ ~crashed
    /\ LET closes == state[a] = "Opened" /\ a \notin Essential IN
       \/ /\ closes
          /\ \E o \in CloseOutcomes(a) :
                /\ state' = [state EXCEPT ![a] = o[1]]
                /\ IF o[2] THEN Caught(a) ELSE Finish(a)
       \/ ~closes /\ Finish(a) /\ UNCHANGED state
    /\ UNCHANGED <<stopped, restartCount, inbox, frames, todo, taken, policyVars, statVars,
                   mainVars, boundVars>>

\* The broadcast's message: only an Opened actor restarts.
RestartRequest(a) ==
    /\ pc[a] = "handle" /\ msg[a] = "restart" /\ ~crashed
    /\ \/ state[a] = "Opened" /\ Goto(a, "close") /\ UNCHANGED <<msg, inTry>>
       \/ state[a] # "Opened" /\ Finish(a)
    /\ UNCHANGED <<actorVars, frames, todo, taken, policyVars, statVars, mainVars, boundVars>>

-----------------------------------------------------------------------------
(* Supervisor::onActorFailed                                               *)

\* The policy snapshot, under one lock.
Report(a) ==
    /\ pc[a] = "report" /\ ~crashed
    /\ failures' = [failures EXCEPT ![a] = Count(@, 1)]
    /\ frames' = [frames EXCEPT ![a] = Append(@, [strategy |-> StrategyOf(a), limit |-> limit])]
    /\ Goto(a, "letter")
    /\ UNCHANGED <<actorVars, msg, inTry, todo, taken, policyVars, letters, totalRestarts,
                   mainVars, boundVars>>

\* The failed message becomes a dead letter ...
FailedLetter(a) ==
    /\ pc[a] = "letter" /\ ~crashed
    /\ PushLetter
    /\ Goto(a, "drain")
    /\ UNCHANGED <<actorVars, msg, inTry, frames, todo, taken, policyVars, failures,
                   totalRestarts, mainVars, boundVars>>

\* ... and so does what is left in the mailbox, one popDeadLetter at a time.
DrainLetter(a) ==
    /\ pc[a] = "drain" /\ ~crashed
    /\ \/ /\ inbox[a] # <<>>
          /\ inbox' = [inbox EXCEPT ![a] = Tail(@)]
          /\ PushLetter
          /\ UNCHANGED pc
       \/ /\ inbox[a] = <<>>
          /\ Goto(a, "apply")
          /\ UNCHANGED <<inbox, letters>>
    /\ UNCHANGED <<state, stopped, restartCount, msg, inTry, frames, todo, taken, policyVars,
                   failures, totalRestarts, mainVars, boundVars>>

\* The innermost call's snapshot.
Policy(a) == frames[a][Len(frames[a])]

\* tryRestart: within the budget performRestart, else shut down.
ApplyOneForOne(a) ==
    /\ pc[a] = "apply" /\ Policy(a).strategy = "OneForOne" /\ ~crashed
    /\ \/ /\ restartCount[a] < Policy(a).limit
          /\ restartCount' = [restartCount EXCEPT ![a] = @ + 1]
          /\ Goto(a, "close")
       \/ /\ restartCount[a] >= Policy(a).limit
          /\ Goto(a, "shutdown")
          /\ UNCHANGED restartCount
    /\ UNCHANGED <<state, stopped, inbox, msg, inTry, frames, todo, taken, policyVars, statVars,
                   mainVars, boundVars>>

\* Seeded fault: a broadcast does not use up the actor's budget.
ApplyOneForAllFree(a) ==
    /\ pc[a] = "apply" /\ Policy(a).strategy = "OneForAll" /\ ~crashed
    /\ todo' = [todo EXCEPT ![a] = Actors]
    /\ Goto(a, "broadcast")
    /\ UNCHANGED <<actorVars, msg, inTry, frames, taken, policyVars, statVars, mainVars, boundVars>>

\* The budget of broadcasts, under the lock.
ApplyOneForAll(a) ==
    /\ pc[a] = "apply" /\ Policy(a).strategy = "OneForAll" /\ ~crashed
    /\ \/ /\ broadcasts[a] < Policy(a).limit
          /\ broadcasts' = [broadcasts EXCEPT ![a] = @ + 1]
          /\ todo' = [todo EXCEPT ![a] = Actors]
          /\ Goto(a, "broadcast")
       \/ /\ broadcasts[a] >= Policy(a).limit
          /\ Goto(a, "shutdown")
          /\ UNCHANGED <<broadcasts, todo>>
    /\ UNCHANGED <<actorVars, msg, inTry, frames, taken, strategy, override, limit, statVars,
                   mainVars, boundVars>>

ApplyNone(a) ==
    /\ pc[a] = "apply" /\ Policy(a).strategy = "None" /\ ~crashed
    /\ Goto(a, "shutdown")
    /\ UNCHANGED <<actorVars, msg, inTry, frames, todo, taken, policyVars, statVars, mainVars,
                   boundVars>>

\* restartAll_: a request to every registered actor, the failed one included.
Broadcast(a, b) ==
    /\ pc[a] = "broadcast" /\ b \in todo[a] /\ ~crashed
    /\ inbox' = [inbox EXCEPT ![b] = Delivered(@, "restart")]
    /\ todo' = [todo EXCEPT ![a] = @ \ {b}]
    /\ UNCHANGED <<state, stopped, restartCount, pc, msg, inTry, frames, taken, policyVars,
                   statVars, mainVars, boundVars>>

\* onActorFailed returns to the restart that called it, or to processBatch.
Leave(a) ==
    /\ frames' = [frames EXCEPT ![a] = SubSeq(@, 1, Len(@) - 1)]
    /\ Goto(a, "return")

\* Every request counts as a restart, also one a full mailbox dropped.
BroadcastDone(a) ==
    /\ pc[a] = "broadcast" /\ todo[a] = {} /\ ~crashed
    /\ totalRestarts' = Count(totalRestarts, Cardinality(Actors))
    /\ Leave(a)
    /\ UNCHANGED <<actorVars, msg, inTry, todo, taken, policyVars, letters, failures,
                   mainVars, boundVars>>

\* ActorRuntime::shutdown.  Nobody catches what close() throws before
\* processBatch, and its catch clauses do not catch what they throw themselves.
Shutdown(a) ==
    /\ pc[a] = "shutdown" /\ ~crashed
    /\ stopped' = [stopped EXCEPT ![a] = TRUE]
    /\ \E o \in CloseOutcomes(a) :
          /\ state' = [state EXCEPT ![a] = o[1]]
          /\ \/ ~o[2] /\ Leave(a) /\ UNCHANGED <<msg, inTry, crashed>>
             \/ /\ o[2] /\ inTry[a]
                /\ Caught(a)
                /\ frames' = [frames EXCEPT ![a] = <<>>]
                /\ UNCHANGED crashed
             \/ o[2] /\ ~inTry[a] /\ crashed' = TRUE /\ UNCHANGED <<pc, msg, inTry, frames>>
    /\ UNCHANGED <<restartCount, inbox, todo, taken, policyVars, statVars, phase, opened, boundVars>>

-----------------------------------------------------------------------------
(* ActorRuntime::performRestart                                            *)

\* What close() throws is logged; open() follows only if the actor is Closed.
RestartClose(a) ==
    /\ pc[a] = "close" /\ ~crashed
    /\ \E o \in CloseOutcomes(a) :
          /\ state' = [state EXCEPT ![a] = o[1]]
          /\ Goto(a, IF o[2] THEN "return" ELSE "open")
    /\ UNCHANGED <<stopped, restartCount, inbox, msg, inTry, frames, todo, taken, policyVars,
                   statVars, mainVars, boundVars>>

\* Seeded fault: what open() throws in a restart is only logged.
RestartOpenUnreported(a) ==
    /\ pc[a] = "open" /\ ~crashed
    /\ \E o \in OpenOutcomes :
          /\ Becomes(a, o[1])
          /\ Goto(a, "return")
    /\ UNCHANGED <<stopped, restartCount, inbox, msg, inTry, frames, todo, taken, policyVars,
                   statVars, mainVars, sent, changes, scenario>>

\* What open() throws is a failure of its own.
RestartOpen(a) ==
    /\ pc[a] = "open" /\ ~crashed
    /\ \E o \in OpenOutcomes :
          /\ Becomes(a, o[1])
          /\ Goto(a, IF o[2] THEN "report" ELSE "return")
    /\ UNCHANGED <<stopped, restartCount, inbox, msg, inTry, frames, todo, taken, policyVars,
                   statVars, mainVars, sent, changes, scenario>>

\* performRestart returns: to tryRestart, which returns true whatever
\* happened, or to the lifecycle message that asked for it.
RestartReturn(a) ==
    /\ pc[a] = "return" /\ frames[a] # <<>> /\ ~crashed
    /\ totalRestarts' = Count(totalRestarts, 1)
    /\ Leave(a)
    /\ UNCHANGED <<actorVars, msg, inTry, todo, taken, policyVars, letters, failures,
                   mainVars, boundVars>>

BatchReturn(a) ==
    /\ pc[a] = "return" /\ frames[a] = <<>> /\ ~crashed
    /\ \/ inTry[a] /\ Finish(a) /\ UNCHANGED taken
       \/ /\ ~inTry[a]
          /\ Goto(a, "idle")
          /\ msg' = [msg EXCEPT ![a] = NoMsg] /\ taken' = [taken EXCEPT ![a] = 0]
          /\ UNCHANGED inTry
    /\ UNCHANGED <<actorVars, frames, todo, policyVars, statVars, mainVars, boundVars>>

-----------------------------------------------------------------------------
(* ActorSystem::start and stop                                             *)

\* start() opens the actors before any worker runs; an exception stops it.
StartOpen(a) ==
    /\ phase = "starting" /\ a \notin opened
    /\ \E o \in OpenOutcomes :
          /\ state' = [state EXCEPT ![a] = o[1]]
          /\ opened' = IF o[2] THEN {} ELSE opened \cup {a}
          /\ phase' = IF o[2] THEN "closing"
                      ELSE IF opened \cup {a} = Actors THEN "up" ELSE "starting"
    /\ UNCHANGED <<stopped, restartCount, inbox, callVars, policyVars, statVars, crashed,
                   boundVars>>

BeginDrain ==
    /\ phase = "up" /\ ~crashed
    /\ phase' = "draining"
    /\ opened' = {}
    /\ UNCHANGED <<actorVars, callVars, policyVars, statVars, crashed, boundVars>>

\* Seeded fault: the actors are closed while workers still run.
WorkersLeftRunning ==
    /\ phase = "draining" /\ ~crashed
    /\ phase' = "closing"
    /\ UNCHANGED <<actorVars, callVars, policyVars, statVars, opened, crashed, boundVars>>

\* The workers were joined; a message may be left over (module WorkDispatch).
WorkersJoined ==
    /\ phase = "draining" /\ ~crashed
    /\ \A a \in Actors : pc[a] = "idle"
    /\ phase' = "closing"
    /\ UNCHANGED <<actorVars, callVars, policyVars, statVars, opened, crashed, boundVars>>

\* stop() closes the actors; what close() throws leaves it (and a destructor).
StopClose(a) ==
    /\ phase = "closing" /\ a \notin opened /\ ~crashed
    /\ \E o \in CloseOutcomes(a) :
          /\ state' = [state EXCEPT ![a] = o[1]]
          /\ crashed' = o[2]
    /\ opened' = opened \cup {a}
    /\ phase' = IF opened' = Actors THEN "stopped" ELSE "closing"
    /\ UNCHANGED <<stopped, restartCount, inbox, callVars, policyVars, statVars, boundVars>>

-----------------------------------------------------------------------------
MainStep == (\E a \in Actors : StartOpen(a) \/ StopClose(a)) \/ BeginDrain \/ WorkersJoined

Outside ==
    \/ \E a \in Actors, m \in {"work", "enable", "disable"} : Send(a, m)
    \/ \E s \in Strategies : SetDefaultStrategy(s)
    \/ \E a \in Actors, s \in Strategies : SetStrategy(a, s)
    \/ \E a \in Actors : RemovePolicy(a)
    \/ \E n \in Limits : SetMaxRestarts(n)

ActorStep(a) ==
    \/ TakeFirst(a) \/ TakeNext(a) \/ EndBatch(a) \/ HandleWork(a) \/ EnableRequest(a) \/ DisableRequest(a)
    \/ RestartRequest(a) \/ Report(a) \/ FailedLetter(a) \/ DrainLetter(a)
    \/ ApplyOneForOne(a) \/ ApplyOneForAll(a) \/ ApplyNone(a)
    \/ (\E b \in Actors : Broadcast(a, b)) \/ BroadcastDone(a) \/ Shutdown(a)
    \/ RestartClose(a) \/ RestartOpen(a) \/ RestartReturn(a) \/ BatchReturn(a)

Next == MainStep \/ Outside \/ \E a \in Actors : ActorStep(a)

Spec == Init /\ [][Next]_vars
-----------------------------------------------------------------------------
ActorStates == {"Closed", "Closing", "Opening", "Opened"}

TypeOK ==
    /\ state \in [Actors -> ActorStates]
    /\ stopped \in [Actors -> BOOLEAN]
    /\ restartCount \in [Actors -> Nat]
    /\ inbox \in [Actors -> Seq({"work", "enable", "disable", "restart"})]
    /\ \A a \in Actors : Len(inbox[a]) <= MailboxCapacity
    /\ pc \in [Actors -> {"idle", "batch", "handle", "report", "letter", "drain", "apply",
                          "broadcast", "shutdown", "close", "open", "return"}]
    /\ msg \in [Actors -> {"work", "enable", "disable", "restart", NoMsg}]
    /\ inTry \in [Actors -> BOOLEAN]
    /\ frames \in [Actors -> Seq([strategy : {"OneForOne", "OneForAll", "None"},
                                limit : Nat])]
    /\ todo \in [Actors -> SUBSET Actors]
    /\ strategy \in {"OneForOne", "OneForAll", "None"} /\ limit \in Nat
    /\ override \in [Actors -> {"OneForOne", "OneForAll", "None", "unset"}]
    /\ broadcasts \in [Actors -> Nat]
    /\ letters \in 0 .. DeadLetterCapacity
    /\ failures \in [Actors -> 0 .. MaxCount] /\ totalRestarts \in 0 .. MaxCount
    /\ taken \in [Actors -> 0 .. MaxBatch] /\ reopened \in [Actors -> 0 .. MaxCount]
    /\ phase \in {"starting", "up", "draining", "closing", "stopped"}
    /\ opened \in SUBSET Actors
    /\ crashed \in BOOLEAN
    /\ sent \in 0 .. scenario.maxSends /\ changes \in 0 .. scenario.maxChanges /\ scenario \in Scenarios

\* The restart budget bounds the damage: while the policies stay as they are and
\* close() does not throw, an actor fails at most maxRestarts + 1 times, also when every
\* open() throws and restarts nest; under one-for-all the batch that shut it down may
\* open it and let it fail again with every two messages that are left
\* (Supervisor::onActorFailed, ActorRuntime::tryRestart, processBatch).
FailureBudget ==
    changes = 0 /\ "close throws" \notin scenario.faults
        => \A a \in Actors :
              failures[a] <= scenario.maxRestarts + 1
                                 + IF scenario.strategy = "OneForAll" THEN MaxBatch \div 2 ELSE 0

\* Under one-for-one, with an open() that succeeds or throws, a failure ends in a
\* restart or in a shutdown: with nothing left in its mailbox, an actor nobody may
\* disable is Opened or stopped for good (tryRestart, performRestart, shutdown).
RestartedOrStopped ==
    /\ phase = "up" /\ scenario.strategy = "OneForOne"
    /\ scenario.faults = {"open throws"} /\ changes = 0
    => \A a \in Essential :
          pc[a] \in {"idle", "batch"} /\ inbox[a] = <<>> => state[a] = "Opened" \/ stopped[a]

\* What is left of `shut down for good': only the batch that shut an actor down can open
\* it again, once for each message that is left of it, and under one-for-one nothing
\* can; a close() that throws in the shutdown leads to one more failure, whose policy may
\* have changed (ActorRuntime::shutdown, processBatch).
StoppedStaysDown ==
    \A a \in Actors :
        /\ reopened[a] <= IF "close throws" \in scenario.faults THEN MaxBatch ELSE MaxBatch - 1
        /\ changes = 0 /\ scenario.strategy # "OneForAll" => reopened[a] = 0

\* The documentation's safety valve: an actor whose budget is used up is shut down for
\* good, so it is never opened again (supervision.md, `maxRestarts').  It does not hold
\* for what is left of the batch: see the README, `Other differences'.
ShutDownForGood ==
    [][\A a \in Actors : stopped[a] => state'[a] # "Opened"]_vars

\* When ActorSystem::stop returns every actor is Closed, whatever requests were
\* still in the mailboxes.
ClosedAfterStop == phase = "stopped" /\ ~crashed => \A a \in Actors : state[a] = "Closed"
=============================================================================
