---------------------------- MODULE WorkDispatch ----------------------------
(***************************************************************************)
(* The execution-token protocol of the actor engine: ActorRuntime::enqueue *)
(* and run, WorkDispatcher (dispatch, acquire, settleToken, drain) and     *)
(* Worker::runLoop, started and stopped by ActorSystem.                    *)
(*                                                                         *)
(* Threads are the workers, external producers (the event loop, timer and  *)
(* D-Bus threads, all of which call ActorRuntime::enqueue) and the main    *)
(* thread that starts and stops the system.  Every atomic read-modify-     *)
(* write, queue operation and semaphore operation is a step of its own;    *)
(* `pc' says where a thread is.  A mailbox is the number of messages       *)
(* published in it; a worker queue is the sequence of actors whose token   *)
(* is in it.  The lock-free queues themselves are modelled elsewhere; here *)
(* push and pop are atomic, except that they may fail in the ways the ring *)
(* buffer lets them fail while another thread is in the middle of one.     *)
(***************************************************************************)
EXTENDS WorkRouting, FiniteSets

CONSTANTS Actors,           \* actor ids (below kMaxActors: one slot each)
          Producers,        \* threads outside the worker pool
          QueueCapacity,    \* queueCapacity_ of each worker queue
          MailboxCapacity,  \* capacity of each mailbox
          MaxBatch,         \* maxBatch_: messages handled per token
          ParkSpin,         \* parkSpinNs_ > 0
          LateProducers,    \* producers still run while the system drains
          StalledPop,       \* a pop may be preempted for a whole ring lap
          DrainWindow,      \* beginDrain may be preempted between its two stores
          MaxSends,         \* bound: messages the mailboxes accept in a behaviour
          MaxPermits,       \* bound: a semaphore saturates here
          None

ASSUME DispatchAssumption ==
    /\ Actors \subseteq Nat /\ IsFiniteSet(Actors)
    /\ Producers \cap Workers = {}
    /\ QueueCapacity \in Nat \ {0, 1}
    /\ MailboxCapacity \in Nat \ {0, 1}
    /\ MaxBatch \in Nat \ {0}
    /\ ParkSpin \in BOOLEAN /\ LateProducers \in BOOLEAN /\ StalledPop \in BOOLEAN
    /\ DrainWindow \in BOOLEAN
    /\ MaxSends \in Nat
    /\ MaxPermits \in Nat \ {0}
    /\ None \notin Actors \cup Workers

Threads == Workers \cup Producers

VARIABLES
    mail,         \* messages published in each actor's mailbox
    stopped,      \* ActorRuntime::stopped_
    held,         \* inFlightSlots_[actor].held
    queue,        \* queues_
    sema,         \* semas_: available permits
    pended,       \* pendedActorList_
    mutex,        \* who holds WorkDispatcher::mutex_ across steps
    pendingWork,  \* pendingWork_ (size_t; below zero stands for wrapped around)
    running,      \* WorkDispatcher::running_
    draining,     \* WorkDispatcher::draining_
    wrun,         \* Worker::running_
    pc,           \* where each thread is
    cur,          \* the actor whose token the worker acquired
    tgt,          \* the actor being enqueued, dispatched or redispatched
    dst,          \* the queue routed to, or popped from
    ret,          \* where enqueue or redispatch returns to
    idx,          \* batch counter, steal distance or pended-list position
    main,         \* where ActorSystem::start/stop is
    next,         \* the worker start/stop is at
    sent          \* messages the mailboxes accepted so far

actorVars == <<mail, stopped, held>>
queueVars == <<queue, sema, pended, mutex, pendingWork>>
flagVars  == <<running, draining, wrun>>
localVars == <<cur, tgt, dst, ret, idx>>
mainVars  == <<main, next>>
vars == <<actorVars, queueVars, flagVars, pc, localVars, mainVars, sent>>

PCs == {"off", "top", "loop", "spin", "park", "poll", "steal", "permit", "null",
        "drainPended", "drainCount", "exitCheck", "done",
        "run", "batch", "handle", "failed", "release", "recheck", "reclaim",
        "retire", "wake",
        "idle", "publish", "dispatch", "route", "push", "signal", "count", "pend"}

Goto(t, l) == pc' = [pc EXCEPT ![t] = l]

\* Leave enqueue, dispatch or redispatch: back to the caller, registers dead.
Return(t) ==
    /\ pc' = [pc EXCEPT ![t] = ret[t]]
    /\ tgt' = [tgt EXCEPT ![t] = None]
    /\ dst' = [dst EXCEPT ![t] = None]
    /\ ret' = [ret EXCEPT ![t] = "idle"]
    /\ UNCHANGED <<cur, idx>>

-----------------------------------------------------------------------------
(* Mailbox and queue observations                                          *)

\* Threads that reserved a slot of a's mailbox and have not published it.
Reserving(a) == {t \in Threads : pc[t] = "publish" /\ tgt[t] = a}

\* LockFreeMpscQueue::count() counts reserved slots too.
MailboxCount(a) == mail[a] + Cardinality(Reserving(a))

\* mailboxCount() != 0
Backlog(a) == mail[a] # 0 \/ Reserving(a) # {}

\* LockFreeMpscQueue::pop returns false on an empty mailbox, and also while
\* the slot at the head is reserved and not published.
MailPopMayFail(a) == mail[a] = 0 \/ Reserving(a) # {}

\* Threads in the middle of a push to worker w's queue.
Pushing(w) == {t \in Threads : pc[t] = "push" /\ dst[t] = w}

\* LockFreeMpmcQueue::pop (and empty()) find nothing when the queue is empty
\* or when its head slot is reserved by a push that has not published.
PopMayFail(w) == queue[w] = <<>> \/ Pushing(w) # {}

\* LockFreeMpmcQueue::push returns false when the ring is full, reserved slots
\* included, and when the slot at the tail still belongs to a pop that moved
\* head_ and has not yet stored the slot's sequence.
PushMayFail(t, w) ==
    \/ Len(queue[w]) + Cardinality(Pushing(w) \ {t}) >= QueueCapacity
    \/ StalledPop /\ \E v \in Workers : pc[v] \in {"permit", "run"} /\ dst[v] = w

QueueCounts == [w \in Workers |-> Len(queue[w])]

AddPermit(s, w) == [s EXCEPT ![w] = IF @ < MaxPermits THEN @ + 1 ELSE @]

AllPermits(s) == [w \in Workers |-> IF s[w] < MaxPermits THEN s[w] + 1 ELSE s[w]]

-----------------------------------------------------------------------------
Init ==
    /\ mail = [a \in Actors |-> 0]
    /\ stopped = [a \in Actors |-> FALSE]
    /\ held = [a \in Actors |-> FALSE]
    /\ queue = [w \in Workers |-> <<>>]
    /\ sema = [w \in Workers |-> 0]
    /\ pended = <<>>
    /\ mutex = None
    /\ pendingWork = 0
    /\ running = FALSE
    /\ draining = FALSE
    /\ wrun = [w \in Workers |-> FALSE]
    /\ pc = [t \in Threads |-> IF t \in Workers THEN "off" ELSE "idle"]
    /\ cur = [w \in Workers |-> None]
    /\ tgt = [t \in Threads |-> None]
    /\ dst = [t \in Threads |-> None]
    /\ ret = [t \in Threads |-> "idle"]
    /\ idx = [w \in Workers |-> 0]
    /\ main = "init"
    /\ next = 0
    /\ sent = 0

-----------------------------------------------------------------------------
(* ActorRuntime::enqueue and WorkDispatcher::dispatch, on any thread       *)

\* A producer may call enqueue while the system is up; later ones only if
\* LateProducers.  A worker calls it from a handler ("handle") or from the
\* one-for-all broadcast of its supervisor ("failed").
MaySend(t) ==
    \/ t \in Producers /\ pc[t] = "idle" /\ (main = "up" \/ LateProducers)
    \/ t \in Workers /\ pc[t] \in {"handle", "failed"}

\* mailbox_->push reserves a slot.
Enqueue(t, a) ==
    /\ MaySend(t)
    /\ sent < MaxSends
    /\ MailboxCount(a) < MailboxCapacity
    /\ sent' = sent + 1
    /\ tgt' = [tgt EXCEPT ![t] = a]
    /\ ret' = [ret EXCEPT ![t] = pc[t]]
    /\ Goto(t, "publish")
    /\ UNCHANGED <<actorVars, queueVars, flagVars, cur, dst, idx, mainVars>>

\* mailbox_->push fails: the message is dropped and nothing is dispatched.
EnqueueDrop(t, a) ==
    /\ MaySend(t)
    /\ MailboxCount(a) >= MailboxCapacity
    /\ UNCHANGED <<actorVars, queueVars, flagVars, pc, localVars, mainVars, sent>>

Publish(t) ==
    /\ pc[t] = "publish"
    /\ mail' = [mail EXCEPT ![tgt[t]] = @ + 1]
    /\ Goto(t, "dispatch")
    /\ UNCHANGED <<stopped, held, queueVars, flagVars, localVars, mainVars, sent>>

\* Seeded fault: the slot is stored, not exchanged, so nothing deduplicates.
DispatchWithoutDedup(t) ==
    /\ pc[t] = "dispatch"
    /\ held' = [held EXCEPT ![tgt[t]] = TRUE]
    /\ Goto(t, "route")
    /\ UNCHANGED <<mail, stopped, queueVars, flagVars, localVars, mainVars, sent>>

\* held.exchange(1): a set slot means a live token; this call only deduplicates.
Dispatch(t) ==
    /\ pc[t] = "dispatch"
    /\ \/ /\ held[tgt[t]]
          /\ Return(t)
          /\ UNCHANGED held
       \/ /\ ~held[tgt[t]]
          /\ held' = [held EXCEPT ![tgt[t]] = TRUE]
          /\ Goto(t, "route")
          /\ UNCHANGED localVars
    /\ UNCHANGED <<mail, stopped, queueVars, flagVars, mainVars, sent>>

\* enqueueEntry: pickWorker ...
Route(t) ==
    /\ pc[t] = "route"
    /\ \E w \in Workers :
          /\ w = PickWorker(tgt[t], QueueCounts)
          /\ dst' = [dst EXCEPT ![t] = w]
    /\ Goto(t, "push")
    /\ UNCHANGED <<actorVars, queueVars, flagVars, cur, tgt, ret, idx, mainVars, sent>>

\* ... then push the entry to the chosen queue ...
Push(t) ==
    /\ pc[t] = "push"
    /\ Len(queue[dst[t]]) < QueueCapacity
    /\ queue' = [queue EXCEPT ![dst[t]] = Append(@, tgt[t])]
    /\ Goto(t, "signal")
    /\ UNCHANGED <<actorVars, sema, pended, mutex, pendingWork, flagVars, localVars,
                   mainVars, sent>>

\* ... or, the queue refusing it, to the pended list under mutex_ ...
PushFail(t) ==
    /\ pc[t] = "push"
    /\ PushMayFail(t, dst[t])
    /\ Goto(t, "pend")
    /\ UNCHANGED <<actorVars, queueVars, flagVars, localVars, mainVars, sent>>

\* Seeded fault: a token that does not fit is not remembered.
PendForgets(t) ==
    /\ pc[t] = "pend"
    /\ mutex = None
    /\ Return(t)
    /\ UNCHANGED <<actorVars, queueVars, flagVars, mainVars, sent>>

\* A failed dispatch returns without counting; so does a failed redispatch,
\* whose token stays counted.
Pend(t) ==
    /\ pc[t] = "pend"
    /\ mutex = None
    /\ pended' = Append(pended, tgt[t])
    /\ Return(t)
    /\ UNCHANGED <<actorVars, queue, sema, mutex, pendingWork, flagVars, mainVars, sent>>

\* Seeded fault: redispatch counts its token like dispatch does.
SignalAlwaysCounts(t) ==
    /\ pc[t] = "signal"
    /\ sema' = AddPermit(sema, dst[t])
    /\ Goto(t, "count")
    /\ UNCHANGED <<actorVars, queue, pended, mutex, pendingWork, flagVars, localVars,
                   mainVars, sent>>

\* ... and wake the worker.  redispatch (ret = "top") ends here.
Signal(t) ==
    /\ pc[t] = "signal"
    /\ sema' = AddPermit(sema, dst[t])
    /\ \/ ret[t] = "top" /\ Return(t)
       \/ ret[t] # "top" /\ Goto(t, "count") /\ UNCHANGED localVars
    /\ UNCHANGED <<actorVars, queue, pended, mutex, pendingWork, flagVars, mainVars, sent>>

\* dispatch counts the token after it was pushed: pendingWork_.fetch_add(1).
Count(t) ==
    /\ pc[t] = "count"
    /\ pendingWork' = pendingWork + 1
    /\ Return(t)
    /\ UNCHANGED <<actorVars, queue, sema, pended, mutex, flagVars, mainVars, sent>>

EnqueueStep(t) ==
    \/ \E a \in Actors : Enqueue(t, a)
    \/ \E a \in Actors : EnqueueDrop(t, a)
    \/ Publish(t) \/ Dispatch(t) \/ Route(t) \/ Push(t) \/ PushFail(t)
    \/ Pend(t) \/ Signal(t) \/ Count(t)

-----------------------------------------------------------------------------
(* WorkDispatcher::acquire, on worker w                                    *)

\* A pop of worker v's queue by w succeeds: w holds the token at the head.
\* idx is the batch counter from here on.
Take(w, v, l) ==
    /\ queue[v] # <<>>
    /\ queue' = [queue EXCEPT ![v] = Tail(@)]
    /\ cur' = [cur EXCEPT ![w] = Head(queue[v])]
    /\ dst' = [dst EXCEPT ![w] = v]
    /\ idx' = [idx EXCEPT ![w] = 0]
    /\ Goto(w, l)
    /\ UNCHANGED <<tgt, ret>>

\* A pop fails: go to l.
TakeNothing(w, v, l) ==
    /\ PopMayFail(v)
    /\ Goto(w, l)
    /\ UNCHANGED <<queue, localVars>>

\* runLoop's condition, then acquire's first tryAcquireOwn (no permit taken).
Top(w) ==
    /\ pc[w] = "top"
    /\ \/ /\ wrun[w] \/ draining
          /\ Take(w, w, "run") \/ TakeNothing(w, w, "loop")
       \/ /\ ~wrun[w] /\ ~draining
          /\ Goto(w, "done")
          /\ UNCHANGED <<queue, localVars>>
    /\ UNCHANGED <<actorVars, sema, pended, mutex, pendingWork, flagVars, mainVars, sent>>

\* Seeded fault: a draining worker leaves without looking at pendingWork_.
LoopIgnoresPending(w) ==
    /\ pc[w] = "loop"
    /\ Goto(w, IF ~running THEN "null" ELSE IF ParkSpin THEN "spin" ELSE "park")
    /\ UNCHANGED <<actorVars, queueVars, flagVars, localVars, mainVars, sent>>

\* acquire's while condition and drain test.
Loop(w) ==
    /\ pc[w] = "loop"
    /\ Goto(w, IF (~running /\ ~draining) \/ (draining /\ pendingWork = 0)
               THEN "null"
               ELSE IF ParkSpin THEN "spin" ELSE "park")
    /\ UNCHANGED <<actorVars, queueVars, flagVars, localVars, mainVars, sent>>

\* spinAcquire polls its own queue, only while running_.
Spin(w) ==
    /\ pc[w] = "spin"
    /\ \/ /\ running
          /\ Take(w, w, "run") \/ TakeNothing(w, w, "park")
       \/ /\ ~running
          /\ Goto(w, "park")
          /\ UNCHANGED <<queue, localVars>>
    /\ UNCHANGED <<actorVars, sema, pended, mutex, pendingWork, flagVars, mainVars, sent>>

\* semas_[w]->try_acquire_for obtains a permit ...
ParkWake(w) ==
    /\ pc[w] = "park"
    /\ sema[w] > 0
    /\ sema' = [sema EXCEPT ![w] = @ - 1]
    /\ Goto(w, "poll")
    /\ UNCHANGED <<actorVars, queue, pended, mutex, pendingWork, flagVars, localVars,
                   mainVars, sent>>

\* ... or times out (the length of the interval, idleBackoff_, is left out).
ParkTimeout(w) ==
    /\ pc[w] = "park"
    /\ sema[w] = 0
    /\ idx' = [idx EXCEPT ![w] = 1]
    /\ Goto(w, "steal")
    /\ UNCHANGED <<actorVars, queueVars, flagVars, cur, tgt, dst, ret, mainVars, sent>>

Poll(w) ==
    /\ pc[w] = "poll"
    /\ Take(w, w, "run") \/ TakeNothing(w, w, "loop")
    /\ UNCHANGED <<actorVars, sema, pended, mutex, pendingWork, flagVars, mainVars, sent>>

\* trySteal visits the other workers in ring order.
Steal(w) ==
    LET victim == (w + idx[w]) % NumWorkers IN
    /\ pc[w] = "steal"
    /\ \/ /\ idx[w] < NumWorkers
          /\ Take(w, victim, "permit")
       \/ /\ idx[w] < NumWorkers
          /\ PopMayFail(victim)
          /\ idx' = [idx EXCEPT ![w] = @ + 1]
          /\ UNCHANGED <<queue, cur, tgt, dst, ret, pc>>
       \/ /\ idx[w] >= NumWorkers
          /\ idx' = [idx EXCEPT ![w] = 0]
          /\ Goto(w, "loop")
          /\ UNCHANGED <<queue, cur, tgt, dst, ret>>
    /\ UNCHANGED <<actorVars, sema, pended, mutex, pendingWork, flagVars, mainVars, sent>>

\* semas_[victim]->try_acquire(): takes a permit if there is one.
StealPermit(w) ==
    /\ pc[w] = "permit"
    /\ sema' = [sema EXCEPT ![dst[w]] = IF @ > 0 THEN @ - 1 ELSE @]
    /\ Goto(w, "run")
    /\ UNCHANGED <<actorVars, queue, pended, mutex, pendingWork, flagVars, localVars,
                   mainVars, sent>>

AcquireStep(w) ==
    Top(w) \/ Loop(w) \/ Spin(w) \/ ParkWake(w) \/ ParkTimeout(w) \/ Poll(w)
    \/ Steal(w) \/ StealPermit(w)

-----------------------------------------------------------------------------
(* acquire returned nullptr: drainPendedActor and runLoop's exit tests     *)

LockPended(w) ==
    /\ pc[w] = "null"
    /\ mutex = None
    /\ mutex' = w
    /\ idx' = [idx EXCEPT ![w] = 1]
    /\ Goto(w, "drainPended")
    /\ UNCHANGED <<actorVars, queue, sema, pended, pendingWork, flagVars, cur, tgt, dst,
                   ret, mainVars, sent>>

\* One iteration: route the entry again and push it; an entry that is not
\* pushed stays.  The erase is part of the step: the list is under mutex_.
DrainPended(w) ==
    /\ pc[w] = "drainPended"
    /\ idx[w] <= Len(pended)
    /\ \E v \in Workers :
          /\ v = PickWorker(pended[idx[w]], QueueCounts)
          /\ \/ /\ Len(queue[v]) < QueueCapacity
                /\ queue' = [queue EXCEPT ![v] = Append(@, pended[idx[w]])]
                /\ pended' = RemoveAt(pended, idx[w])
                /\ dst' = [dst EXCEPT ![w] = v]
                /\ Goto(w, "drainCount")
                /\ UNCHANGED idx
             \/ /\ PushMayFail(w, v)
                /\ idx' = [idx EXCEPT ![w] = @ + 1]
                /\ UNCHANGED <<queue, pended, dst, pc>>
    /\ UNCHANGED <<actorVars, sema, mutex, pendingWork, flagVars, cur, tgt, ret,
                   mainVars, sent>>

DrainCount(w) ==
    /\ pc[w] = "drainCount"
    /\ pendingWork' = pendingWork + 1
    /\ sema' = AddPermit(sema, dst[w])
    /\ dst' = [dst EXCEPT ![w] = None]
    /\ Goto(w, "drainPended")
    /\ UNCHANGED <<actorVars, queue, pended, mutex, flagVars, cur, tgt, ret, idx,
                   mainVars, sent>>

DrainDone(w) ==
    /\ pc[w] = "drainPended"
    /\ idx[w] > Len(pended)
    /\ mutex' = None
    /\ idx' = [idx EXCEPT ![w] = 0]
    /\ Goto(w, "exitCheck")
    /\ UNCHANGED <<actorVars, queue, sema, pended, pendingWork, flagVars, cur, tgt, dst,
                   ret, mainVars, sent>>

ExitCheck(w) ==
    /\ pc[w] = "exitCheck"
    /\ Goto(w, IF (draining /\ pendingWork = 0) \/ ~wrun[w] THEN "done" ELSE "top")
    /\ UNCHANGED <<actorVars, queueVars, flagVars, localVars, mainVars, sent>>

NullStep(w) ==
    LockPended(w) \/ DrainPended(w) \/ DrainCount(w) \/ DrainDone(w) \/ ExitCheck(w)

-----------------------------------------------------------------------------
(* ActorRuntime::run: processBatch, then settleToken                       *)

\* Seeded fault: the in-flight slot is released before the batch.
RunReleasesEarly(w) ==
    /\ pc[w] = "run"
    /\ held' = [held EXCEPT ![cur[w]] = FALSE]
    /\ Goto(w, IF stopped[cur[w]] THEN "release" ELSE "batch")
    /\ dst' = [dst EXCEPT ![w] = None]
    /\ UNCHANGED <<mail, stopped, queueVars, flagVars, cur, tgt, ret, idx, mainVars, sent>>

Run(w) ==
    /\ pc[w] = "run"
    /\ Goto(w, IF stopped[cur[w]] THEN "release" ELSE "batch")
    /\ dst' = [dst EXCEPT ![w] = None]
    /\ UNCHANGED <<actorVars, queueVars, flagVars, cur, tgt, ret, idx, mainVars, sent>>

\* Seeded fault: pop of an empty mailbox.
BatchPopUnguarded(w) ==
    /\ pc[w] = "batch"
    /\ idx[w] < MaxBatch
    /\ mail' = [mail EXCEPT ![cur[w]] = @ - 1]
    /\ Goto(w, "handle")
    /\ UNCHANGED <<stopped, held, queueVars, flagVars, localVars, mainVars, sent>>

\* mailbox_->pop
BatchPop(w) ==
    /\ pc[w] = "batch"
    /\ idx[w] < MaxBatch
    /\ mail[cur[w]] > 0
    /\ mail' = [mail EXCEPT ![cur[w]] = @ - 1]
    /\ Goto(w, "handle")
    /\ UNCHANGED <<stopped, held, queueVars, flagVars, localVars, mainVars, sent>>

BatchEnd(w) ==
    /\ pc[w] = "batch"
    /\ idx[w] >= MaxBatch \/ MailPopMayFail(cur[w])
    /\ Goto(w, "release")
    /\ UNCHANGED <<actorVars, queueVars, flagVars, localVars, mainVars, sent>>

\* The handler returns (it may have called enqueue any number of times).
Handled(w) ==
    /\ pc[w] = "handle"
    /\ idx' = [idx EXCEPT ![w] = @ + 1]
    /\ Goto(w, "batch")
    /\ UNCHANGED <<actorVars, queueVars, flagVars, cur, tgt, dst, ret, mainVars, sent>>

\* The handler throws, or open() does in a restart: Supervisor::onActorFailed moves
\* the rest of the mailbox to the dead-letter queue (up to a slot that is reserved and
\* not published) and either restarts the actor, which may fail again, or shuts it down.
Fails(w) ==
    /\ pc[w] \in {"handle", "failed"}
    /\ \E left \in 0 .. mail[cur[w]] :
          /\ left = 0 \/ Reserving(cur[w]) # {}
          /\ mail' = [mail EXCEPT ![cur[w]] = left]
    /\ UNCHANGED stopped \/ stopped' = [stopped EXCEPT ![cur[w]] = TRUE]
    /\ Goto(w, "failed")
    /\ UNCHANGED <<held, queueVars, flagVars, localVars, mainVars, sent>>

\* onActorFailed returns (a one-for-all broadcast may have enqueued).  After an
\* exception of the handler the batch is over ...
FailureHandled(w) ==
    /\ pc[w] = "failed"
    /\ Goto(w, "release")
    /\ UNCHANGED <<actorVars, queueVars, flagVars, localVars, mainVars, sent>>

\* ... but performRestart catches what open() throws: a restart request returns
\* normally and the batch goes on, also when the actor has been stopped.
FailureCaught(w) ==
    /\ pc[w] = "failed"
    /\ idx' = [idx EXCEPT ![w] = @ + 1]
    /\ Goto(w, "batch")
    /\ UNCHANGED <<actorVars, queueVars, flagVars, cur, tgt, dst, ret, mainVars, sent>>

\* settleToken: releaseInFlight (graceSpin before it only waits) ...
ReleaseInFlight(w) ==
    /\ pc[w] = "release"
    /\ held' = [held EXCEPT ![cur[w]] = FALSE]
    /\ idx' = [idx EXCEPT ![w] = 0]
    /\ Goto(w, "recheck")
    /\ UNCHANGED <<mail, stopped, queueVars, flagVars, cur, tgt, dst, ret, mainVars, sent>>

\* Seeded fault: the mailbox is not looked at again after the release.
RecheckSkipped(w) ==
    /\ pc[w] = "recheck"
    /\ Goto(w, "retire")
    /\ UNCHANGED <<actorVars, queueVars, flagVars, localVars, mainVars, sent>>

\* ... then look at the mailbox again ...
Recheck(w) ==
    /\ pc[w] = "recheck"
    /\ Goto(w, IF ~stopped[cur[w]] /\ Backlog(cur[w]) THEN "reclaim" ELSE "retire")
    /\ UNCHANGED <<actorVars, queueVars, flagVars, localVars, mainVars, sent>>

\* ... claimInFlight: the winner of the slot redispatches ...
Reclaim(w) ==
    /\ pc[w] = "reclaim"
    /\ \/ /\ held[cur[w]]
          /\ Goto(w, "retire")
          /\ UNCHANGED <<held, cur, tgt, ret>>
       \/ /\ ~held[cur[w]]
          /\ held' = [held EXCEPT ![cur[w]] = TRUE]
          /\ tgt' = [tgt EXCEPT ![w] = cur[w]]
          /\ cur' = [cur EXCEPT ![w] = None]
          /\ ret' = [ret EXCEPT ![w] = "top"]
          /\ Goto(w, "route")
    /\ UNCHANGED <<mail, stopped, queueVars, flagVars, dst, idx, mainVars, sent>>

\* Seeded fault: a dead token stays counted.
RetireForgets(w) ==
    /\ pc[w] = "retire"
    /\ cur' = [cur EXCEPT ![w] = None]
    /\ Goto(w, "top")
    /\ UNCHANGED <<actorVars, queueVars, flagVars, tgt, dst, ret, idx, mainVars, sent>>

\* ... or the token dies: retirePendingWork.
Retire(w) ==
    /\ pc[w] = "retire"
    /\ pendingWork' = pendingWork - 1
    /\ cur' = [cur EXCEPT ![w] = None]
    /\ Goto(w, IF pendingWork = 1 THEN "wake" ELSE "top")
    /\ UNCHANGED <<actorVars, queue, sema, pended, mutex, flagVars, tgt, dst, ret, idx,
                   mainVars, sent>>

Wake(w) ==
    /\ pc[w] = "wake"
    /\ sema' = IF draining THEN AllPermits(sema) ELSE sema
    /\ Goto(w, "top")
    /\ UNCHANGED <<actorVars, queue, pended, mutex, pendingWork, flagVars, localVars,
                   mainVars, sent>>

RunStep(w) ==
    Run(w) \/ BatchPop(w) \/ BatchEnd(w) \/ Handled(w) \/ Fails(w)
    \/ FailureHandled(w) \/ FailureCaught(w) \/ ReleaseInFlight(w) \/ Recheck(w)
    \/ Reclaim(w) \/ Retire(w) \/ Wake(w)

-----------------------------------------------------------------------------
(* ActorSystem::start and stop, on the main thread                         *)

DispatcherStart ==
    /\ main = "init"
    /\ running' = TRUE
    /\ main' = "starting"
    /\ UNCHANGED <<actorVars, queueVars, draining, wrun, pc, localVars, next, sent>>

WorkerStart ==
    /\ main = "starting"
    /\ wrun' = [wrun EXCEPT ![next] = TRUE]
    /\ Goto(next, "top")
    /\ next' = IF next = NumWorkers - 1 THEN 0 ELSE next + 1
    /\ main' = IF next = NumWorkers - 1 THEN "up" ELSE "starting"
    /\ UNCHANGED <<actorVars, queueVars, running, draining, localVars, sent>>

\* The scheduler and the event loop have been stopped.  beginDrain lowers
\* running_ first and raises draining_ in a second store; without DrainWindow
\* no other thread runs between the two.
StopRunning ==
    /\ main = "up"
    /\ LateProducers \/ \A p \in Producers : pc[p] = "idle"
    /\ running' = FALSE
    /\ draining' = ~DrainWindow
    /\ main' = IF DrainWindow THEN "stopping" ELSE "waking"
    /\ UNCHANGED <<actorVars, queueVars, wrun, pc, localVars, next, sent>>

RaiseDraining ==
    /\ main = "stopping"
    /\ draining' = TRUE
    /\ main' = "waking"
    /\ UNCHANGED <<actorVars, queueVars, running, wrun, pc, localVars, next, sent>>

WakeAll ==
    /\ main = "waking"
    /\ sema' = AllPermits(sema)
    /\ main' = "joining"
    /\ UNCHANGED <<actorVars, queue, pended, mutex, pendingWork, flagVars, pc, localVars,
                   next, sent>>

\* Worker::stop lowers the worker's flag ...
WorkerStop ==
    /\ main = "joining"
    /\ wrun[next]
    /\ wrun' = [wrun EXCEPT ![next] = FALSE]
    /\ UNCHANGED <<actorVars, queueVars, running, draining, pc, localVars, mainVars, sent>>

\* ... and joins its thread.
WorkerJoin ==
    /\ main = "joining"
    /\ ~wrun[next]
    /\ pc[next] = "done"
    /\ next' = IF next = NumWorkers - 1 THEN 0 ELSE next + 1
    /\ main' = IF next = NumWorkers - 1 THEN "joined" ELSE "joining"
    /\ UNCHANGED <<actorVars, queueVars, flagVars, pc, localVars, sent>>

DispatcherStop ==
    /\ main = "joined"
    /\ mutex = None
    /\ running' = FALSE
    /\ draining' = FALSE
    /\ sema' = AllPermits(sema)
    /\ pended' = <<>>
    /\ main' = "stopped"
    /\ UNCHANGED <<actorVars, queue, mutex, pendingWork, wrun, pc, localVars, next, sent>>

MainStep ==
    DispatcherStart \/ WorkerStart \/ StopRunning \/ RaiseDraining \/ WakeAll
    \/ WorkerStop \/ WorkerJoin \/ DispatcherStop

-----------------------------------------------------------------------------
WorkerStep(w) == EnqueueStep(w) \/ AcquireStep(w) \/ NullStep(w) \/ RunStep(w)

Next ==
    \/ \E p \in Producers : EnqueueStep(p)
    \/ \E w \in Workers : WorkerStep(w)
    \/ MainStep

Spec == Init /\ [][Next]_vars

\* A producer that is inside enqueue finishes it; it need not call it again.
InsideEnqueue(p) == pc[p] # "idle" /\ EnqueueStep(p)

\* Threads that can run do run: the operating system schedules every worker
\* and every thread inside enqueue, and handlers return.  Nothing obliges
\* anyone to stop the system, but a stop that began goes on.
Fairness ==
    /\ \A w \in Workers : WF_vars(WorkerStep(w))
    /\ \A p \in Producers : WF_vars(InsideEnqueue(p))
    /\ WF_vars(main # "up" /\ MainStep)

FairSpec == Spec /\ Fairness
-----------------------------------------------------------------------------
(* What the protocol promises                                              *)

TypeOK ==
    /\ mail \in [Actors -> Nat]
    /\ stopped \in [Actors -> BOOLEAN]
    /\ held \in [Actors -> BOOLEAN]
    /\ queue \in [Workers -> Seq(Actors)]
    /\ sema \in [Workers -> 0 .. MaxPermits]
    /\ pended \in Seq(Actors)
    /\ mutex \in Workers \cup {None}
    /\ pendingWork \in Int
    /\ running \in BOOLEAN /\ draining \in BOOLEAN
    /\ wrun \in [Workers -> BOOLEAN]
    /\ pc \in [Threads -> PCs]
    /\ cur \in [Workers -> Actors \cup {None}]
    /\ tgt \in [Threads -> Actors \cup {None}]
    /\ dst \in [Threads -> Workers \cup {None}]
    /\ ret \in [Threads -> {"idle", "handle", "failed", "top"}]
    /\ idx \in [Workers -> Nat]
    /\ main \in {"init", "starting", "up", "stopping", "waking", "joining", "joined",
                 "stopped"}
    /\ next \in Workers
    /\ sent \in 0 .. MaxSends

(***************************************************************************)
(* Tokens.  The token of an actor is in exactly one of four places: an     *)
(* entry of a worker queue, an entry of the pended list, in the hands of a *)
(* thread about to queue it, or with the worker executing the actor.       *)
(***************************************************************************)
EnqueuePCs == {"publish", "dispatch", "route", "push", "signal", "count", "pend"}

\* Thread t has claimed the slot of tgt[t] and not yet queued or pended it.
Claims(t) == pc[t] \in {"route", "push", "pend"}

\* Worker w acquired the token of cur[w] and has not released the slot.
Executes(w) == cur[w] # None /\ pc[w] \notin {"recheck", "reclaim", "retire"}

Queued(a) == \E w \in Workers : \E i \in DOMAIN queue[w] : queue[w][i] = a

Pended(a) == \E i \in DOMAIN pended : pended[i] = a

Claimed(a) == \E t \in Threads : Claims(t) /\ tgt[t] = a

Executed(a) == \E w \in Workers : Executes(w) /\ cur[w] = a

\* No place holds the token of an actor twice ...
QueueDistinct ==
    \A v, w \in Workers : \A i \in DOMAIN queue[v], j \in DOMAIN queue[w] :
        queue[v][i] = queue[w][j] => v = w /\ i = j

PendedDistinct ==
    \A i, j \in DOMAIN pended : pended[i] = pended[j] => i = j

ClaimDistinct ==
    \A s, t \in Threads : Claims(s) /\ Claims(t) /\ tgt[s] = tgt[t] => s = t

ExecuteDistinct ==
    \A v, w \in Workers : Executes(v) /\ Executes(w) /\ cur[v] = cur[w] => v = w

\* ... and no two places hold it.
PlacesDisjoint ==
    \A a \in Actors :
        /\ Queued(a) => ~Pended(a) /\ ~Claimed(a) /\ ~Executed(a)
        /\ Pended(a) => ~Claimed(a) /\ ~Executed(a)
        /\ Claimed(a) => ~Executed(a)

\* A token exists only while the actor's in-flight slot is set.
HeldIfLive ==
    \A a \in Actors :
        Queued(a) \/ Pended(a) \/ Claimed(a) \/ Executed(a) => held[a]

\* At most one execution token per actor, whatever the interleaving of
\* producers, workers, stealing, failed pushes and shutdown
\* (WorkDispatcher::dispatch, acquire, settleToken).
TokenUnique ==
    /\ QueueDistinct
    /\ PendedDistinct
    /\ ClaimDistinct
    /\ ExecuteDistinct
    /\ PlacesDisjoint
    /\ HeldIfLive

\* Until the dispatcher is stopped a set in-flight slot has its token: no
\* path loses a token and leaves the actor deduplicating for ever.
TokenNotLost ==
    main # "stopped" =>
        \A a \in Actors :
            held[a] => Queued(a) \/ Pended(a) \/ Claimed(a) \/ Executed(a)

\* The lost-wakeup argument of settleToken (release the slot first, look at
\* the mailbox second): a message published to an actor that is not stopped
\* is covered by a live token, by a thread about to dispatch it, or by a
\* worker that has yet to look at the mailbox again.
NoLostWakeup ==
    \A a \in Actors : mail[a] > 0 /\ ~stopped[a] =>
        \/ held[a]
        \/ \E t \in Threads : pc[t] = "dispatch" /\ tgt[t] = a
        \/ \E w \in Workers : pc[w] \in {"recheck", "reclaim"} /\ cur[w] = a

-----------------------------------------------------------------------------
(* Accounting and shutdown                                                 *)

\* The tokens in the queues, as places.
QueueEntries == UNION {{w} \X DOMAIN queue[w] : w \in Workers}

\* Workers that acquired a token and have not retired or redispatched it.
Busy == {w \in Workers : cur[w] # None}

\* Workers on the way to push a token again.
Redispatching == {w \in Workers : pc[w] \in {"route", "push"} /\ ret[w] = "top"}

\* Dispatches that pushed their entry and have not counted it.
Uncounted == {t \in Threads : (pc[t] = "signal" /\ ret[t] # "top") \/ pc[t] = "count"}

\* Load-aware routing relieves an overloaded home worker: for every actor and all
\* queue lengths, at the watermark, if any queue is shorter than the home queue the
\* token goes to a queue that is, although pickLeastLoaded counts on from the best
\* worker so far and not from the home worker (pickWorker, pickLeastLoaded).  No
\* state is involved: it is evaluated once, in the initial state.
OverflowRelieved == Init =>
    \A n \in 1 .. 4, actorId \in 0 .. 3 : \A count \in [Ids(n) -> 0 .. 3] :
        Relieved(n, 2, actorId, count)

\* pendingWork_ is the number of live tokens: entries in queues, workers that
\* acquired one and have not retired it, workers redispatching one; minus the
\* dispatches that pushed their entry and have not counted it yet.
PendingWorkAccounting ==
    pendingWork = Cardinality(QueueEntries) + Cardinality(Busy)
                  + Cardinality(Redispatching) - Cardinality(Uncounted)

\* Once ActorSystem::stop has joined the workers, every message accepted by an
\* actor that is not stopped has been taken out of its mailbox and no token is
\* left behind in a queue.
DrainComplete ==
    main \in {"joined", "stopped"} =>
        /\ \A a \in Actors : mail[a] = 0 \/ stopped[a]
        /\ \A w \in Workers : queue[w] = <<>>

\* Every published message is eventually taken by a worker, unless its actor
\* is stopped.
MessageServed ==
    \A a \in Actors : mail[a] > 0 ~> (mail[a] = 0 \/ stopped[a])

\* ActorSystem::stop returns.
StopTerminates == main \in {"stopping", "waking"} ~> main = "stopped"

-----------------------------------------------------------------------------
(* The engine implements the actor model's single-owner promise            *)

Owner == [a \in Actors |->
            IF Executed(a) THEN CHOOSE w \in Workers : Executes(w) /\ cur[w] = a
                           ELSE None]

\* Worker w may take messages of the actor it executes: not once its batch is over,
\* and none at all if processBatch will find the actor stopped.
Takes(w) ==
    /\ Executes(w) /\ pc[w] # "release"
    /\ pc[w] \in {"permit", "run"} => ~stopped[cur[w]]

Taking == {w \in Workers : Takes(w)}

Abstract == INSTANCE ActorExecution
                WITH inbox <- mail, owner <- Owner, dead <- stopped, taking <- Taking

\* Messages leave a mailbox only in the hands of the one worker that owns the actor,
\* a worker owns one actor at a time, and an actor that was stopped loses messages
\* only in the batch that stopped it: no later owner takes any
\* (ActorRuntime::processBatch, which reads stopped_ once, under WorkDispatcher's tokens).
SingleOwner == Abstract!ASpec
=============================================================================
