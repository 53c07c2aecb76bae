------------------------------ MODULE Metrics ------------------------------
(***************************************************************************)
(* The counters of core/perf/metrics and the calls that move them, for one *)
(* actor: ActorRuntime::enqueue and run, WorkDispatcher::dispatch, acquire *)
(* and settleToken, Worker::runLoop, Actor::handleUnknown, and the metrics *)
(* commands of CmdActor.                                                   *)
(*                                                                         *)
(* A record call is joined to the event it counts where no thread could    *)
(* tell them apart, and is a step of its own where the count it is given   *)
(* may be another by then.  updatePeak is a load and an exchange.          *)
(* Times and failed steals are counters nothing is compared with and are   *)
(* left out.  A handler that sends to its own actor is a sender too.       *)
(***************************************************************************)
EXTENDS Integers, FiniteSets, FiniteSetsExt

CONSTANTS Senders, Workers,
          Home,         \* the worker whose queue the token enters
          Depth,        \* capacity of the mailbox
          MaxBatch,
          MaxSends,     \* bound: messages sent
          MaxCommands   \* bound: metrics commands

ASSUME MetricsAssumption ==
    /\ IsFiniteSet(Senders) /\ IsFiniteSet(Workers) /\ Senders \cap Workers = {}
    /\ Depth \in Nat /\ MaxBatch \in Nat

VARIABLES enabled,     \* enabled_
          down,        \* stopped_
          mail,        \* messages in the mailbox
          held,        \* the actor's in-flight flag
          ready,       \* tokens in the ready queues
          actorM, workerM, dispatcherM,
          pc,          \* per thread
          reg,         \* per thread: the depth or the messages counted, the peak read
          sent, commands,   \* what the bounds count
          seen         \* history: what happened while the metrics were on

countVars == <<actorM, workerM, dispatcherM>>
metricVars == <<enabled, down, mail, held, ready, countVars, pc, reg, sent, commands, seen>>

Parties == Senders \cup Workers
NoActor == [enqueued |-> 0, processed |-> 0, dropped |-> 0, batches |-> 0, peakDepth |-> 0]
NoWorker == [batches |-> 0, messages |-> 0]
NoDispatcher == [dispatchCount |-> 0, acquireCount |-> 0, deduplicated |-> 0, stealCount |-> 0,
                 readyQueuePeak |-> 0]

NoReg == [n |-> 0, peak |-> 0]
Nothing == [sent |-> 0, lost |-> 0, deepest |-> 0]

\* Metrics::init and registerActor; enable_metrics of the configuration.
MetricsInit ==
    /\ enabled \in BOOLEAN /\ down = FALSE
    /\ mail = 0 /\ held = FALSE /\ ready = 0
    /\ actorM = NoActor /\ workerM = [w \in Workers |-> NoWorker] /\ dispatcherM = NoDispatcher
    /\ pc = [t \in Parties |-> "idle"] /\ reg = [t \in Parties |-> NoReg]
    /\ sent = 0 /\ commands = 0 /\ seen = Nothing

Goto(t, from, to) == pc[t] = from /\ pc' = [pc EXCEPT ![t] = to]

\* What a record call adds to a counter: nothing while the metrics are off.
Counted(n) == IF enabled THEN n ELSE 0

-----------------------------------------------------------------------------
(* A sender: ActorRuntime::enqueue                                         *)

\* A full mailbox drops the message and counts it; nothing is dispatched.
Drop(t) ==
    /\ Goto(t, "idle", "idle") /\ sent < MaxSends /\ mail = Depth
    /\ sent' = sent + 1 /\ seen' = [seen EXCEPT !.sent = @ + Counted(1)]
    /\ actorM' = [actorM EXCEPT !.dropped = @ + Counted(1)]
    /\ UNCHANGED <<enabled, down, mail, held, ready, workerM, dispatcherM, reg, commands>>

PushMail(t) ==
    /\ Goto(t, "idle", "pushed") /\ sent < MaxSends /\ mail < Depth
    /\ mail' = mail + 1 /\ sent' = sent + 1 /\ seen' = [seen EXCEPT !.sent = @ + Counted(1)]
    /\ UNCHANGED <<enabled, down, held, ready, countVars, reg, commands>>

\* recordEnqueue: the depth is the mailbox's count by now; updatePeak loads the peak.
RecordEnqueue(t) ==
    /\ Goto(t, "pushed", IF enabled /\ mail > actorM.peakDepth THEN "peak" ELSE "dispatch")
    /\ actorM' = [actorM EXCEPT !.enqueued = @ + Counted(1)]
    /\ reg' = [reg EXCEPT ![t] = [n |-> mail, peak |-> actorM.peakDepth]]
    /\ seen' = [seen EXCEPT !.deepest = Max({@, Counted(mail)})]
    /\ UNCHANGED <<enabled, down, mail, held, ready, workerM, dispatcherM, sent, commands>>

\* Seeded fault: a store instead of the compare-and-exchange.
UpdatePeakStore(t) ==
    /\ Goto(t, "peak", "dispatch")
    /\ actorM' = [actorM EXCEPT !.peakDepth = reg[t].n]
    /\ UNCHANGED <<enabled, down, mail, held, ready, workerM, dispatcherM, reg, sent, commands, seen>>

\* The exchange; when it fails it has read the peak again.
UpdatePeak(t) ==
    LET same == actorM.peakDepth = reg[t].peak IN
    /\ Goto(t, "peak", IF same \/ reg[t].n <= actorM.peakDepth THEN "dispatch" ELSE "peak")
    /\ actorM' = IF same THEN [actorM EXCEPT !.peakDepth = reg[t].n] ELSE actorM
    /\ reg' = [reg EXCEPT ![t].peak = actorM.peakDepth]
    /\ UNCHANGED <<enabled, down, mail, held, ready, workerM, dispatcherM, sent, commands, seen>>

\* recordDispatch; the depth of a duplicate is given as 0.
RecordedDispatch(deduped, depth) ==
    [dispatcherM EXCEPT !.dispatchCount = @ + Counted(1),
                        !.deduplicated = @ + Counted(IF deduped THEN 1 ELSE 0),
                        !.readyQueuePeak = Max({@, Counted(depth)})]

\* A duplicate is counted at once; an entry first enters the queue.
DispatchToken(t) ==
    /\ Goto(t, "dispatch", IF held THEN "idle" ELSE "queued")
    /\ held' = TRUE
    /\ ready' = IF held THEN ready ELSE ready + 1
    /\ dispatcherM' = IF held THEN RecordedDispatch(TRUE, 0) ELSE dispatcherM
    /\ reg' = [reg EXCEPT ![t] = NoReg]
    /\ UNCHANGED <<enabled, down, mail, actorM, workerM, sent, commands, seen>>

RecordDispatch(t) ==
    /\ Goto(t, "queued", IF t \in Workers THEN "batch" ELSE "idle")
    /\ dispatcherM' = RecordedDispatch(FALSE, ready)
    /\ UNCHANGED <<enabled, down, mail, held, ready, actorM, workerM, reg, sent, commands, seen>>

-----------------------------------------------------------------------------
(* A worker: acquire, run, recordBatch                                     *)

\* recordAcquire and recordSteal
RecordedAcquire(stolen) ==
    [dispatcherM EXCEPT !.acquireCount = @ + Counted(1),
                        !.stealCount = @ + Counted(IF stolen THEN 1 ELSE 0)]

\* From its own queue or, stolen, from another's.
AcquireToken(w) ==
    /\ Goto(w, "idle", "handle") /\ ready > 0
    /\ ready' = ready - 1
    /\ dispatcherM' = RecordedAcquire(w # Home)
    /\ UNCHANGED <<enabled, down, mail, held, actorM, workerM, reg, sent, commands, seen>>

\* processBatch reads stopped_ before its first message only.
TakeMessage(w) ==
    /\ mail > 0 /\ mail' = mail - 1
    /\ reg[w].n < MaxBatch /\ ~(down /\ reg[w].n = 0)

\* handle() returns; a message it does not know counts as handled too.  So does a restart
\* request whose open() throws: the failure is caught inside.
HandleMessage(w) ==
    /\ \E to \in {"handle", "caught"} : Goto(w, "handle", to)
    /\ TakeMessage(w)
    /\ reg' = [reg EXCEPT ![w].n = @ + 1]
    /\ UNCHANGED <<enabled, down, held, ready, countVars, sent, commands, seen>>

RecordedHandle(n) ==
    [actorM EXCEPT !.processed = @ + Counted(n), !.batches = @ + Counted(1)]

\* handle() throws: the message is a dead letter and not counted.
HandlerThrows(w) ==
    /\ Goto(w, "handle", "failed") /\ TakeMessage(w)
    /\ seen' = [seen EXCEPT !.lost = @ + Counted(1)]
    /\ UNCHANGED <<enabled, down, held, ready, countVars, reg, sent, commands>>

\* onActorFailed makes every message in the mailbox a dead letter, one by one.
DrainMailbox(w) ==
    /\ pc[w] \in {"failed", "caught"} /\ UNCHANGED pc
    /\ mail > 0 /\ mail' = mail - 1
    /\ seen' = [seen EXCEPT !.lost = @ + Counted(1)]
    /\ UNCHANGED <<enabled, down, held, ready, countVars, reg, sent, commands>>

\* Then it restarts the actor or shuts it down.  The exception has ended the batch; a
\* batch with a failure caught inside goes on, also of an actor just shut down.
FailureHandled(w) ==
    /\ mail = 0 /\ down' \in {down, TRUE}
    /\ \/ Goto(w, "failed", "settle") /\ actorM' = RecordedHandle(reg[w].n)
       \/ Goto(w, "caught", "handle") /\ UNCHANGED actorM
    /\ UNCHANGED <<enabled, mail, held, ready, workerM, dispatcherM, reg, sent, commands, seen>>

EndBatch(w) ==
    /\ Goto(w, "handle", "settle")
    /\ mail = 0 \/ reg[w].n = MaxBatch \/ (down /\ reg[w].n = 0)
    /\ actorM' = RecordedHandle(reg[w].n)
    /\ UNCHANGED <<enabled, down, mail, held, ready, workerM, dispatcherM, reg, sent, commands, seen>>

ReleaseToken(w) ==
    /\ Goto(w, "settle", "released")
    /\ held' = FALSE
    /\ UNCHANGED <<enabled, down, mail, ready, countVars, reg, sent, commands, seen>>

\* settleToken claims the flag again if messages came and the actor lives, unless a sender was faster.
RecheckMail(w) ==
    LET again == ~down /\ mail # 0 /\ ~held IN
    /\ Goto(w, "released", IF again THEN "queued" ELSE "batch")
    /\ held' = (held \/ again)
    /\ ready' = IF again THEN ready + 1 ELSE ready
    /\ UNCHANGED <<enabled, down, mail, countVars, reg, sent, commands, seen>>

\* The token is out already: another worker may be in the actor's next batch.
RecordBatch(w) ==
    /\ Goto(w, "batch", "idle")
    /\ workerM' = [workerM EXCEPT ![w] = [batches  |-> @.batches + Counted(1),
                                          messages |-> @.messages + Counted(reg[w].n)]]
    /\ reg' = [reg EXCEPT ![w] = NoReg]
    /\ UNCHANGED <<enabled, down, mail, held, ready, actorM, dispatcherM, sent, commands, seen>>

-----------------------------------------------------------------------------
(* CmdActor::handleMetrics.                                                *)
(* Commands are bounded to moments when the actor has nothing to do.       *)

\* What `metrics snapshot' reads, and what it prints of it: nothing when disabled.
Snapshot == [actor |-> actorM, workers |-> workerM, dispatcher |-> dispatcherM]
FormatMetricsSnapshot == IF enabled THEN {Snapshot} ELSE {}

Quiet == mail = 0 /\ ready = 0 /\ \A t \in Parties : pc[t] = "idle"

SetEnabled(on) ==
    /\ Quiet /\ commands < MaxCommands /\ commands' = commands + 1
    /\ enabled' = on
    /\ UNCHANGED <<down, mail, held, ready, countVars, pc, reg, sent, seen>>

ResetMetrics ==
    /\ Quiet /\ commands < MaxCommands /\ commands' = commands + 1
    /\ actorM' = NoActor /\ workerM' = [w \in Workers |-> NoWorker] /\ dispatcherM' = NoDispatcher
    /\ seen' = Nothing
    /\ UNCHANGED <<enabled, down, mail, held, ready, pc, reg, sent>>

SenderStep(t) ==
    \/ Drop(t) \/ PushMail(t) \/ RecordEnqueue(t) \/ UpdatePeak(t) \/ DispatchToken(t) \/ RecordDispatch(t)

WorkerStep(w) ==
    \/ AcquireToken(w) \/ HandleMessage(w) \/ HandlerThrows(w)
    \/ DrainMailbox(w) \/ FailureHandled(w) \/ EndBatch(w)
    \/ ReleaseToken(w) \/ RecheckMail(w) \/ RecordDispatch(w) \/ RecordBatch(w)

CommandStep == (\E on \in BOOLEAN : SetEnabled(on)) \/ ResetMetrics

MetricsNext ==
    \/ \E t \in Senders : SenderStep(t)
    \/ \E w \in Workers : WorkerStep(w)
    \/ CommandStep

-----------------------------------------------------------------------------
\* The sum of the values of f.
TotalOf(f) == MapThenSumSet(LAMBDA x : f[x], DOMAIN f)

\* What `metrics snapshot' prints while nobody is in between adds up, across senders,
\* actor, workers and dispatcher: every message sent is counted in or dropped, every
\* message counted in was processed, or lost because it made its handler throw or was
\* drained after a failure, or waits, every batch of the actor is a batch of a worker
\* and a token acquired, and every token not refused as a duplicate was acquired or waits
\* (recordEnqueue, recordHandle, recordBatch, recordDispatch, recordAcquire, reset).
CountsAgree ==
    \A s \in FormatMetricsSnapshot :
        LET messages == [w \in Workers |-> s.workers[w].messages]
            batches  == [w \in Workers |-> s.workers[w].batches]
        IN
        (\A t \in Parties : pc[t] = "idle") =>
            /\ seen.sent = s.actor.enqueued + s.actor.dropped
            /\ s.actor.enqueued = s.actor.processed + seen.lost + mail
            /\ TotalOf(messages) = s.actor.processed
            /\ TotalOf(batches) = s.actor.batches /\ s.actor.batches = s.dispatcher.acquireCount
            /\ s.dispatcher.dispatchCount - s.dispatcher.deduplicated = s.dispatcher.acquireCount + ready

\* The peak is the largest depth a sender saw when it counted its message, although
\* senders race for it (updatePeak).
PeakIsMax ==
    (\A t \in Senders : pc[t] # "peak") => actorM.peakDepth = seen.deepest

\* What `metrics snapshot' prints is true: counts and peak (Metrics::snapshot).
SnapshotTrue == CountsAgree /\ PeakIsMax
=============================================================================
