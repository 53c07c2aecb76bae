------------------------------- MODULE Timers -------------------------------
(***************************************************************************)
(* The timers of the actors: ActorRuntime::addTimer and its relatives, the *)
(* Scheduler that knows whom to send what, and TimerBase, whose heap of    *)
(* pool indices is served by a timerfd on the event loop (LinuxTimer) or   *)
(* by a thread of its own (Timer).                                         *)
(*                                                                         *)
(* A step is a section under TimerBase::mutex_.  The scheduler's mutex_ is *)
(* explicit, as addTimer holds it from the insertion into the heap to the  *)
(* registration of the context, and a callback waits for it.  Time counts  *)
(* in the unit of the delays; it is read again between the steps.          *)
(***************************************************************************)
EXTENDS Integers, Sequences, FiniteSets, SequencesExt, Functions

None  == 0
Never == -1

CONSTANTS Actors,
          Kinds,        \* which timers are built: subset of {"timerfd", "thread"}
          Delays,       \* delayMs
          ExactHits,    \* may a clock reading equal an expiry to the nanosecond?
          MaxTimers,    \* bound: timers ever added
          MaxTime,      \* bound: the clock
          MaxPermits    \* bound: permits kept in sema_

ASSUME TimersAssumption ==
    /\ None \notin Actors /\ Kinds \subseteq {"timerfd", "thread"} /\ Delays \subseteq Nat
    /\ ExactHits \in BOOLEAN /\ MaxTimers \in Nat /\ MaxTime \in Nat /\ MaxPermits \in Nat

VARIABLES kind, now,
          base,      \* pool_, freeList_, heap_, timers_, nextId_
          wake,      \* the timerfd's expiry, or sema_ and the time waited for
          loop,      \* the thread that serves the heap: pc, its vector ready, callbacks done
          ctxs,      \* Scheduler::timerCtxs_: id -> target
          mutex,     \* Scheduler::mutex_, while addTimer holds it
          ids,       \* ActorRuntime::timerIds_
          up,        \* what of the scheduler has been started and stopped
          born, fired, cancelled   \* history: what was asked for, what happened

vars == <<kind, now, base, wake, loop, ctxs, mutex, ids, up, born, fired, cancelled>>
history == <<born, fired, cancelled>>

Blank == [id |-> None, expiry |-> 0, interval |-> 0, repeating |-> FALSE, alive |-> TRUE]
Ids   == 1 .. MaxTimers

Init ==
    /\ kind \in Kinds /\ now = 0
    /\ base = [pool |-> <<>>, free |-> <<>>, heap |-> {}, timers |-> <<>>, nextId |-> 1]
    /\ wake = [armed |-> Never, permits |-> 0]
    /\ loop = [pc |-> "idle", ready |-> <<>>, done |-> 0]
    /\ ctxs = <<>> /\ mutex = None /\ ids = [a \in Actors |-> {}] /\ up = "new"
    /\ born = <<>> /\ fired = [id \in Ids |-> 0] /\ cancelled = {}

-----------------------------------------------------------------------------
(* TimerBase: from one state of the base to the next                       *)

\* Compare: the heap's order.
Before(b, i, j) ==
    \/ b.pool[i].expiry < b.pool[j].expiry
    \/ b.pool[i].expiry = b.pool[j].expiry /\ i < j

Top(b) == CHOOSE i \in b.heap : \A j \in b.heap \ {i} : Before(b, i, j)
HasLiveTop(b) == b.heap # {} /\ b.pool[Top(b)].alive
NextExpiry(b) == b.pool[Top(b)].expiry

\* The nodes of S as they come off the heap.
InOrder(b, S) ==
    CHOOSE s \in [1 .. Cardinality(S) -> S] :
        \A j, k \in 1 .. Cardinality(S) : j < k => Before(b, s[j], s[k])

\* freeNode for the nodes of S.
FreeNodes(b, S) ==
    [b EXCEPT !.pool = [i \in DOMAIN b.pool |-> IF i \in S THEN Blank ELSE b.pool[i]],
              !.free = @ \o InOrder(b, S)]

AllocNode(b) ==
    IF b.free # <<>> THEN [b EXCEPT !.free = Front(@)]
    ELSE [b EXCEPT !.pool = Append(@, Blank)]
AllocIndex(b) == IF b.free # <<>> THEN Last(b.free) ELSE Len(b.pool) + 1

\* purgeDeadEntries: the dead nodes above the first live one.
PurgeDead(b) ==
    LET dead == {i \in b.heap : ~b.pool[i].alive
                     /\ \A j \in b.heap : b.pool[j].alive => Before(b, i, j)}
    IN  FreeNodes([b EXCEPT !.heap = @ \ dead], dead)

IsAlive(b, id) == id \in DOMAIN b.timers /\ b.pool[b.timers[id]].alive

Insert(b, delay, repeating) ==
    LET i == AllocIndex(b) IN
    [AllocNode(b) EXCEPT
        !.pool[i] = [id |-> b.nextId, expiry |-> now + delay, interval |-> delay,
                     repeating |-> repeating, alive |-> TRUE],
        !.heap = @ \cup {i},
        !.timers = [id \in DOMAIN b.timers \cup {b.nextId} |->
                        IF id = b.nextId THEN i ELSE b.timers[id]],
        !.nextId = @ + 1]

\* Seeded fault: the node is given back although the heap still refers to it.
EraseFrees(b, id) ==
    IF id \notin DOMAIN b.timers THEN b
    ELSE FreeNodes([b EXCEPT !.timers = Restrict(@, DOMAIN b.timers \ {id})], {b.timers[id]})

\* cancel: a node inside the heap stays there, dead, until it comes to the top.
Erase(b, id) ==
    IF id \notin DOMAIN b.timers THEN b
    ELSE PurgeDead([b EXCEPT !.pool[b.timers[id]].alive = FALSE,
                             !.timers = Restrict(@, DOMAIN b.timers \ {id})])

\* executeExpiredTimers, first section: what is due leaves the heap.
Due(b) == {i \in b.heap : b.pool[i].expiry <= now}

Collect(b) ==
    FreeNodes([b EXCEPT !.heap = @ \ Due(b)], {i \in Due(b) : ~b.pool[i].alive})

\* Last section: the nodes that were collected, looked up again by their ids, as a
\* timer may be cancelled by now.
Known(b, ready) == {b.timers[id] : id \in ToSet(ready) \cap DOMAIN b.timers}

Later(b, S) == [i \in DOMAIN b.pool |->
    IF i \in S THEN [b.pool[i] EXCEPT !.expiry = @ + b.pool[i].interval] ELSE b.pool[i]]

\* Seeded fault: every timer is armed again.
RearmAlways(b, ready) ==
    [b EXCEPT !.pool = Later(b, Known(b, ready)), !.heap = @ \cup Known(b, ready)]

\* The repeating ones are armed again, the others given back.
Rearm(b, ready) ==
    LET again == {i \in Known(b, ready) : b.pool[i].repeating /\ b.pool[i].alive}
        over  == Known(b, ready) \ again
    IN  FreeNodes([b EXCEPT
            !.pool = Later(b, again), !.heap = @ \cup again,
            !.timers = Restrict(@, {id \in DOMAIN b.timers : b.timers[id] \notin over})], over)

-----------------------------------------------------------------------------
(* scheduleNextTimer: arm the timerfd, or wake the timer's thread          *)

\* Seeded fault: an expiry that has passed is left to the next call.
ArmedForFuture(b) ==
    IF HasLiveTop(b) /\ NextExpiry(b) > now THEN NextExpiry(b) ELSE Never

\* An expiry that has passed fires at once; one that is exactly now gives a zero
\* it_value, which disarms the timerfd.
ArmedFor(b) ==
    IF ~HasLiveTop(b) \/ (ExactHits /\ NextExpiry(b) = now) THEN Never
    ELSE IF NextExpiry(b) < now THEN now ELSE NextExpiry(b)

ScheduleNextTimer(b) ==
    \/ /\ kind = "timerfd" /\ up \in {"stopping", "stopped"}   \* timerFd_ < 0
       /\ base' = b /\ UNCHANGED wake
    \/ /\ kind = "timerfd" /\ up \notin {"stopping", "stopped"}
       /\ base' = PurgeDead(b)
       /\ wake' = [wake EXCEPT !.armed = ArmedFor(PurgeDead(b))]
    \/ /\ kind = "thread"
       /\ base' = b
       /\ wake' = [wake EXCEPT !.permits = IF @ < MaxPermits THEN @ + 1 ELSE @]

-----------------------------------------------------------------------------
(* What the actors' threads call                                           *)

\* addTimer up to TimerBase::add: contexts of finished timers are dropped, the
\* timer goes into the heap and may fire from here on.
AddTimer(a, delay, repeating) ==
    LET b == Insert(base, delay, repeating) IN
    /\ mutex = None /\ base.nextId \in Ids /\ now + delay <= MaxTime
    /\ ctxs' = Restrict(ctxs, {id \in DOMAIN ctxs : IsAlive(base, id)})
    /\ IF base.heap = {} \/ now + delay < NextExpiry(base)
       THEN ScheduleNextTimer(b) ELSE base' = b /\ UNCHANGED wake
    /\ mutex' = a
    /\ born' = Append(born, [at |-> now, delay |-> delay, repeating |-> repeating])
    /\ UNCHANGED <<kind, now, loop, ids, up, fired, cancelled>>

\* The context is registered and the id returned.
AddTimerDone(a) ==
    LET id == base.nextId - 1 IN
    /\ mutex = a
    /\ ctxs' = [i \in DOMAIN ctxs \cup {id} |-> IF i = id THEN a ELSE ctxs[i]]
    /\ ids' = [ids EXCEPT ![a] = @ \cup {id}]
    /\ mutex' = None
    /\ UNCHANGED <<kind, now, base, wake, loop, up, history>>

\* Seeded fault: the context of a cancelled timer is left to the next addTimer.
CancelKeepsCtx(id) ==
    /\ mutex = None
    /\ base' = Erase(base, id)
    /\ cancelled' = cancelled \cup {id} /\ UNCHANGED ctxs

\* Scheduler::cancel: both under the scheduler's mutex.
Cancel(id) ==
    /\ mutex = None
    /\ base' = Erase(base, id)
    /\ ctxs' = Restrict(ctxs, DOMAIN ctxs \ {id})
    /\ cancelled' = cancelled \cup {id}

\* cancelTimer.  cancelAllTimers and ~ActorRuntime do the same for one id after the
\* other; the scheduler's mutex is free in between.
CancelTimer(a, id) ==
    /\ id \in ids[a] /\ Cancel(id)
    /\ ids' = [ids EXCEPT ![a] = @ \ {id}]
    /\ UNCHANGED <<kind, now, wake, loop, mutex, up, born, fired>>

-----------------------------------------------------------------------------
(* The thread that serves the heap                                         *)

Moves(pc) ==
    /\ loop' = [loop EXCEPT !.pc = pc]
    /\ UNCHANGED <<kind, now, ctxs, mutex, ids, up, history>>

\* epoll reports the timerfd and onWake reads it.
OnWake ==
    /\ kind = "timerfd" /\ up = "running" /\ loop.pc = "idle"
    /\ wake.armed # Never /\ wake.armed <= now
    /\ wake' = [wake EXCEPT !.armed = Never]
    /\ Moves("expired") /\ UNCHANGED base

\* Timer::runLoop: look, then wait for a permit or for the next expiry.
RunLoopLook ==
    /\ kind = "thread" /\ up = "running" /\ loop.pc = "idle"
    /\ base' = PurgeDead(base)
    /\ IF HasLiveTop(base')
       THEN wake' = [wake EXCEPT !.armed = NextExpiry(base')] /\ Moves("waiting")
       ELSE UNCHANGED wake /\ Moves("blocked")

RunLoopNotified ==
    /\ loop.pc \in {"waiting", "blocked"} /\ wake.permits > 0
    /\ wake' = [wake EXCEPT !.permits = @ - 1]
    /\ Moves("idle") /\ UNCHANGED base

RunLoopTimeout ==
    /\ loop.pc = "waiting" /\ wake.permits = 0 /\ wake.armed <= now
    /\ Moves("expired") /\ UNCHANGED <<base, wake>>

\* executeExpiredTimers: collect under the lock ...
ExecuteExpired ==
    LET live == InOrder(base, {i \in Due(base) : base.pool[i].alive}) IN
    /\ loop.pc = "expired"
    /\ base' = Collect(base)
    /\ loop' = [pc |-> "callbacks", done |-> 0,
                ready |-> [k \in DOMAIN live |-> base.pool[live[k]].id]]
    /\ UNCHANGED <<kind, now, wake, ctxs, mutex, ids, up, history>>

\* ... the callbacks in turn, without TimerBase's lock: Scheduler::timerCallback
\* sends a clone of the message if the context is still there ...
TimerCallback ==
    LET id == loop.ready[loop.done + 1] IN
    /\ loop.pc = "callbacks" /\ loop.done < Len(loop.ready) /\ mutex = None
    /\ fired' = IF id \in DOMAIN ctxs THEN [fired EXCEPT ![id] = @ + 1] ELSE fired
    /\ loop' = [loop EXCEPT !.done = @ + 1]
    /\ UNCHANGED <<kind, now, base, wake, ctxs, mutex, ids, up, born, cancelled>>

\* ... and what is still known is armed again or given back.
Settle ==
    /\ loop.pc = "callbacks" /\ loop.done = Len(loop.ready)
    /\ ScheduleNextTimer(Rearm(base, loop.ready))
    /\ loop' = [pc |-> "idle", ready |-> <<>>, done |-> 0]
    /\ UNCHANGED <<kind, now, ctxs, mutex, ids, up, history>>

-----------------------------------------------------------------------------
(* Scheduler::start and stop.  stop() runs on the thread that ran the event *)
(* loop, or joins the timer's thread, so no callback is in progress.        *)

Start ==
    /\ up = "new" /\ up' = "running"
    /\ UNCHANGED <<kind, now, base, wake, loop, ctxs, mutex, ids, history>>

StopTimer ==
    /\ up = "running" /\ loop.pc \in {"idle", "waiting", "blocked"}
    /\ up' = "stopping"
    /\ base' = [base EXCEPT !.pool = <<>>, !.free = <<>>, !.heap = {}, !.timers = <<>>]
    /\ wake' = [armed |-> Never, permits |-> 0]
    /\ loop' = [loop EXCEPT !.pc = "idle"]
    /\ UNCHANGED <<kind, now, ctxs, mutex, ids, history>>

StopScheduler ==
    /\ up = "stopping" /\ mutex = None
    /\ up' = "stopped" /\ ctxs' = <<>>
    /\ UNCHANGED <<kind, now, base, wake, loop, mutex, ids, history>>

Clock ==
    /\ now < MaxTime /\ now' = now + 1
    /\ UNCHANGED <<kind, base, wake, loop, ctxs, mutex, ids, up, history>>

LoopStep ==
    \/ OnWake \/ RunLoopLook \/ RunLoopNotified \/ RunLoopTimeout
    \/ ExecuteExpired \/ TimerCallback \/ Settle

ActorStep(a) ==
    \/ \E delay \in Delays, repeating \in BOOLEAN : AddTimer(a, delay, repeating)
    \/ AddTimerDone(a)
    \/ \E id \in Ids : CancelTimer(a, id)

Next ==
    \/ LoopStep \/ Start \/ StopTimer \/ StopScheduler \/ Clock
    \/ \E a \in Actors : ActorStep(a)

Spec == Init /\ [][Next]_vars

\* Time passes, the serving thread runs, and a thread in addTimer comes out of it.
FairSpec ==
    /\ Spec /\ WF_vars(LoopStep) /\ WF_vars(Clock)
    /\ \A a \in Actors : WF_vars(AddTimerDone(a))

-----------------------------------------------------------------------------
\* Pool indices never alias: a free node is in no heap slot and behind no id, the
\* free list has no duplicates, an id leads to its own live node, and every live
\* node in the heap is behind its id (TimerBase's pool_, freeList_, heap_, timers_,
\* with cancellations and insertions while callbacks run).
NodesDisjoint ==
    /\ Cardinality(ToSet(base.free)) = Len(base.free)
    /\ ToSet(base.free) \cap (base.heap \cup Range(base.timers)) = {}
    /\ \A id \in DOMAIN base.timers :
          base.pool[base.timers[id]].id = id /\ base.pool[base.timers[id]].alive
    /\ \A i \in base.heap :
          base.pool[i].alive =>
              base.pool[i].id \in DOMAIN base.timers /\ base.timers[base.pool[i].id] = i

\* Whenever the serving thread is at rest, it will be woken in time for the earliest
\* timer: the timerfd is armed for it or earlier, or the thread waits for it or has
\* a permit (add, cancel and scheduleNextTimer between them).
ArmedForNext ==
    (up = "running" /\ HasLiveTop(base)) =>
        /\ (kind = "timerfd" /\ loop.pc = "idle") =>
               wake.armed # Never /\ (wake.armed <= NextExpiry(base) \/ wake.armed <= now)
        /\ loop.pc = "blocked" => wake.permits > 0
        /\ loop.pc = "waiting" => wake.permits > 0 \/ wake.armed <= NextExpiry(base)

\* After cancelTimer or cancelAllTimers has returned, the timer sends nothing more,
\* even if its callback was already collected (Scheduler::cancel, timerCallback).
NoFireAfterCancel ==
    [][\A id \in cancelled : fired'[id] = fired[id]]_fired

\* A timer fires never early, a one-shot timer once, a repeating one at most once
\* per interval (executeExpiredTimers).
OnSchedule ==
    \A id \in DOMAIN born :
        /\ fired[id] * born[id].delay <= now - born[id].at
        /\ ~born[id].repeating => fired[id] <= 1

\* Every timer that is added while the scheduler runs fires, unless it is cancelled
\* or the scheduler stopped first: no timer is lost to an add, a cancel or a
\* cleanup of contexts that comes between its expiry and its callback.
TimerFires ==
    \A id \in Ids :
        (id \in DOMAIN born /\ up = "running")
            ~> (fired[id] > 0 \/ id \in cancelled \/ up # "running")
=============================================================================
