---------------------------- MODULE WorkRouting ----------------------------
(***************************************************************************)
(* The pure routing arithmetic of WorkDispatcher: which worker's queue an  *)
(* actor's execution token is pushed to, given the queue lengths the       *)
(* dispatcher read.  `count' is a function from worker ids to the values   *)
(* LockFreeMpmcQueue::count() returned, n is workerCount_.                 *)
(***************************************************************************)
EXTENDS Integers, Sequences, SequencesExt

CONSTANTS NumWorkers,     \* workerCount_
          HighWatermark   \* highWatermark_ (cfg, or queueCapacity * 7 / 10)

ASSUME RoutingAssumption ==
    /\ NumWorkers \in Nat \ {0}
    /\ HighWatermark \in Nat

Ids(n) == 0 .. n - 1
Workers == 0 .. NumWorkers - 1

\* The home worker of an actor: actorId % workerCount_.
Home(n, actorId) == actorId % n

\* One iteration of the scan of pickLeastLoaded: the candidate index is
\* computed from the CURRENT best, not from the home worker.  The early break
\* on an empty queue changes nothing: no later count is smaller than zero.
ScanStep(n, count, best, i) ==
    LET w == (best + i) % n
    IN  IF count[w] < count[best] THEN w ELSE best

\* Seeded fault: the scan stops one worker early.
PickLeastLoadedShort(n, actorId, count) ==
    LET best[k \in 0 .. n] ==
            IF k = 0 THEN Home(n, actorId) ELSE ScanStep(n, count, best[k - 1], k - 1)
    IN  best[n - 1]

\* The best worker after k iterations, of which there are as many as workers.
PickLeastLoaded(n, actorId, count) ==
    LET best[k \in 0 .. n] ==
            IF k = 0 THEN Home(n, actorId) ELSE ScanStep(n, count, best[k - 1], k - 1)
    IN  best[n]

PickAmong(n, mark, actorId, count) ==
    IF n <= 1 \/ count[Home(n, actorId)] < mark
    THEN Home(n, actorId)
    ELSE PickLeastLoaded(n, actorId, count)

PickWorker(actorId, count) == PickAmong(NumWorkers, HighWatermark, actorId, count)

-----------------------------------------------------------------------------
\* Load-aware routing relieves an overloaded home worker: at the watermark, if any
\* queue is shorter than the home queue the token goes to a queue that is.
Relieved(n, mark, actorId, count) ==
    LET home == Home(n, actorId) IN
    count[home] >= mark /\ (\E w \in Ids(n) : count[w] < count[home])
        => count[PickAmong(n, mark, actorId, count)] < count[home]
=============================================================================
