------------------------- MODULE WorkDispatchProofs -------------------------
(***************************************************************************)
(* Proofs about WorkDispatch, for every number of workers, producers and   *)
(* actors and every capacity.  First type correctness; then the execution  *)
(* tokens: an actor has at most one, a set in-flight slot has its token,   *)
(* and no published message is left without a token or a thread that will  *)
(* look at the mailbox; then what the dispatcher promises the engine: an   *)
(* actor has one owner at a time (module ActorExecution is implemented),   *)
(* pendingWork_ is the number of live tokens, and a drain leaves no        *)
(* message and no token behind.                                            *)
(***************************************************************************)
EXTENDS WorkDispatch, SequenceTheorems, FiniteSetTheorems, WellFoundedInduction, TLAPS

-----------------------------------------------------------------------------
(* Type correctness                                                        *)

\* Where a worker that holds or is settling a token is.
TokenPCs == {"permit", "run", "batch", "handle", "failed", "release", "recheck",
             "reclaim", "retire"}

\* Where a worker without a token is.
FreePCs == {"off", "top", "loop", "spin", "park", "poll", "steal", "null",
            "drainPended", "drainCount", "exitCheck", "done", "wake"}

\* The registers of a thread hold what its position in the code says.
EnqueueRegisters(t) ==
    /\ pc[t] \in EnqueuePCs => tgt[t] \in Actors
    /\ pc[t] \in {"push", "signal", "permit", "drainCount"} => dst[t] \in Workers

WorkerRegisters(w) ==
    /\ pc[w] \in TokenPCs => cur[w] \in Actors
    /\ pc[w] \in FreePCs => cur[w] = None
    /\ pc[w] \in EnqueuePCs =>
          \/ ret[w] \in {"handle", "failed"} /\ cur[w] \in Actors
          \/ /\ ret[w] = "top" /\ cur[w] = None
             /\ pc[w] \notin {"publish", "dispatch", "count"}
    /\ pc[w] # "idle"
    /\ pc[w] \in {"drainPended", "drainCount"} => idx[w] > 0

ProducerRegisters(p) == pc[p] \in EnqueuePCs \cup {"idle"} /\ ret[p] = "idle"

RegistersOK(t) ==
    /\ EnqueueRegisters(t)
    /\ t \in Workers => WorkerRegisters(t)
    /\ t \in Producers => ProducerRegisters(t)

\* Workers that have not been started do nothing.
StartOK ==
    /\ main = "init" => next = 0
    /\ main \in {"init", "starting"} =>
          \A w \in Workers : w >= next => pc[w] = "off"

TypeInv == TypeOK /\ (\A t \in Threads : RegistersOK(t)) /\ StartOK

\* A step of thread t leaves the other threads and the main thread alone.
OnlyThread(t) ==
    /\ pc[t] # "off" /\ pc'[t] # "off"
    /\ \A s \in Threads \ {t} :
          pc'[s] = pc[s] /\ tgt'[s] = tgt[s] /\ dst'[s] = dst[s] /\ ret'[s] = ret[s]
    /\ \A s \in Workers \ {t} : cur'[s] = cur[s] /\ idx'[s] = idx[s]
    /\ UNCHANGED mainVars

\* Worker ids are 0 .. NumWorkers - 1.
LEMMA WorkersFact ==
    /\ Workers \subseteq Nat
    /\ 0 \in Workers
    /\ \A w \in Workers : w # NumWorkers - 1 => w + 1 \in Workers
BY RoutingAssumption DEF Workers

\* Removing an element of a sequence keeps its type and shifts what follows.
LEMMA RemoveAtFact ==
    ASSUME NEW S, NEW s \in Seq(S), NEW i \in 1 .. Len(s)
    PROVE  /\ RemoveAt(s, i) \in Seq(S)
           /\ Len(RemoveAt(s, i)) = Len(s) - 1
           /\ \A j \in 1 .. Len(s) - 1 :
                 RemoveAt(s, i)[j] = IF j < i THEN s[j] ELSE s[j + 1]
<1> DEFINE l == SubSeq(s, 1, i - 1)
           r == SubSeq(s, i + 1, Len(s))
<1>1. Len(s) \in Nat /\ \A j \in 1 .. Len(s) : s[j] \in S
  BY LenProperties
<1>2. /\ l \in Seq(S)
      /\ Len(l) = i - 1
      /\ \A j \in 1 .. i - 1 : l[j] = s[j]
  BY <1>1, SubSeqProperties
<1>3. /\ r \in Seq(S)
      /\ Len(r) = Len(s) - i
      /\ \A j \in 1 .. Len(s) - i : r[j] = s[i + j]
  BY <1>1, SubSeqProperties
<1>4. RemoveAt(s, i) = l \o r
  BY DEF RemoveAt
<1> HIDE DEF l, r
<1>5. /\ l \o r \in Seq(S)
      /\ Len(l \o r) = Len(l) + Len(r)
      /\ \A j \in 1 .. Len(l) + Len(r) :
            (l \o r)[j] = IF j <= Len(l) THEN l[j] ELSE r[j - Len(l)]
  BY <1>2, <1>3, ConcatProperties
<1>6. ASSUME NEW j \in 1 .. Len(s) - 1
      PROVE  (l \o r)[j] = IF j < i THEN s[j] ELSE s[j + 1]
  <2>1. CASE j < i
    BY <2>1, <1>1, <1>2, <1>3, <1>5
  <2>2. CASE ~(j < i)
    <3>1. (l \o r)[j] = r[j - (i - 1)]
      BY <2>2, <1>1, <1>2, <1>3, <1>5
    <3>2. r[j - (i - 1)] = s[i + (j - (i - 1))]
      BY <2>2, <1>1, <1>3
    <3>3. QED
      BY <2>2, <1>1, <3>1, <3>2
  <2>3. QED
    BY <2>1, <2>2
<1>7. QED
  BY <1>1, <1>2, <1>3, <1>4, <1>5, <1>6

\* A thread is a worker or a producer.
LEMMA ThreadsFact ==
    /\ Workers \subseteq Threads
    /\ Producers \subseteq Threads
    /\ \A t \in Threads : t \in Workers \/ t \in Producers
BY DEF Threads

\* Releasing semaphores keeps them within the bound.
LEMMA PermitFact ==
    ASSUME NEW s \in [Workers -> 0 .. MaxPermits], NEW w \in Workers
    PROVE  /\ AddPermit(s, w) \in [Workers -> 0 .. MaxPermits]
           /\ AllPermits(s) \in [Workers -> 0 .. MaxPermits]
<1>1. MaxPermits \in Nat
  BY DispatchAssumption
<1>2. \A v \in Workers : (IF s[v] < MaxPermits THEN s[v] + 1 ELSE s[v]) \in 0 .. MaxPermits
  BY <1>1
<1>3. QED
  BY <1>2 DEF AddPermit, AllPermits

\* The positions and registers of the threads.
LocalOK ==
    /\ pc \in [Threads -> PCs]
    /\ cur \in [Workers -> Actors \cup {None}]
    /\ tgt \in [Threads -> Actors \cup {None}]
    /\ dst \in [Threads -> Workers \cup {None}]
    /\ ret \in [Threads -> {"idle", "handle", "failed", "top"}]
    /\ idx \in [Workers -> Nat]

\* What the threads share.
SharedOK ==
    /\ mail \in [Actors -> Nat]
    /\ stopped \in [Actors -> BOOLEAN]
    /\ held \in [Actors -> BOOLEAN]
    /\ queue \in [Workers -> Seq(Actors)]
    /\ sema \in [Workers -> 0 .. MaxPermits]
    /\ pended \in Seq(Actors)
    /\ mutex \in Workers \cup {None}
    /\ pendingWork \in Int
    /\ running \in BOOLEAN /\ draining \in BOOLEAN
    /\ wrun \in [Workers -> BOOLEAN]
    /\ main \in {"init", "starting", "up", "stopping", "waking", "joining", "joined",
                 "stopped"}
    /\ next \in Workers
    /\ sent \in 0 .. MaxSends

\* The two halves of the type invariant.
LEMMA TypeParts ==
    /\ TypeOK <=> LocalOK /\ SharedOK
    /\ TypeOK' <=> LocalOK' /\ SharedOK'
BY DEF TypeOK, LocalOK, SharedOK

\* A step of one thread keeps the registers of all threads if it keeps its own.
LEMMA FrameLemma ==
    ASSUME TypeInv, TypeOK', NEW t \in Threads, OnlyThread(t), RegistersOK(t)'
    PROVE  TypeInv'
<1>1. ASSUME NEW s \in Threads, s # t PROVE RegistersOK(s)'
  BY <1>1 DEF TypeInv, OnlyThread, RegistersOK, EnqueueRegisters, WorkerRegisters,
     ProducerRegisters, Threads
<1>2. StartOK'
  BY WorkersFact DEF TypeInv, TypeOK, StartOK, OnlyThread, Threads, mainVars
<1>3. QED
  BY <1>1, <1>2 DEF TypeInv

\* Leaving enqueue, dispatch or redispatch.
LEMMA ReturnFact ==
    ASSUME TypeInv, NEW t \in Threads, pc[t] \in EnqueuePCs, Return(t),
           UNCHANGED mainVars
    PROVE  LocalOK' /\ OnlyThread(t) /\ RegistersOK(t)'
<1>1. LocalOK /\ RegistersOK(t)
  BY DEF TypeInv, TypeOK, LocalOK
<1>2. LocalOK'
  BY <1>1 DEF Return, LocalOK, PCs
<1>3. OnlyThread(t)
  BY <1>1, ThreadsFact DEF Return, LocalOK, OnlyThread, EnqueuePCs
<1>4. EnqueueRegisters(t)'
  BY <1>1 DEF Return, LocalOK, EnqueueRegisters, EnqueuePCs
<1>5. t \in Workers => WorkerRegisters(t)'
  BY <1>1 DEF Return, LocalOK, RegistersOK, WorkerRegisters, EnqueuePCs, TokenPCs, FreePCs
<1>6. t \in Producers => ProducerRegisters(t)'
  BY <1>1 DEF Return, LocalOK, RegistersOK, ProducerRegisters, EnqueuePCs
<1>7. QED
  BY <1>2, <1>3, <1>4, <1>5, <1>6 DEF RegistersOK

\* Popping a token.
LEMMA TakeFact ==
    ASSUME TypeInv, NEW w \in Workers, NEW v \in Workers, NEW l \in {"run", "permit"},
           pc[w] \in FreePCs \ {"off"}, Take(w, v, l),
           UNCHANGED <<actorVars, sema, pended, mutex, pendingWork, flagVars, mainVars,
                       sent>>
    PROVE  TypeInv'
<1>1. TypeOK /\ LocalOK /\ w \in Threads
  BY ThreadsFact DEF TypeInv, TypeOK, LocalOK
<1>2. queue[v] \in Seq(Actors) /\ queue[v] # <<>>
  BY <1>1 DEF TypeOK, Take
<1>3. Head(queue[v]) \in Actors /\ Tail(queue[v]) \in Seq(Actors)
  BY <1>2, HeadTailProperties
<1>4. queue' \in [Workers -> Seq(Actors)]
  BY <1>1, <1>3 DEF TypeOK, Take
<1>5. LocalOK'
  BY <1>1, <1>3 DEF LocalOK, Take, Goto, PCs
<1>6. TypeOK'
  BY <1>1, <1>4, <1>5 DEF TypeOK, LocalOK, actorVars, flagVars, mainVars
<1>7. OnlyThread(w)
  BY <1>1, ThreadsFact DEF LocalOK, Take, Goto, OnlyThread, FreePCs, mainVars
<1>8. EnqueueRegisters(w)'
  BY <1>1 DEF LocalOK, Take, Goto, EnqueueRegisters, EnqueuePCs
<1>9. WorkerRegisters(w)'
  BY <1>1, <1>3 DEF LocalOK, Take, Goto, WorkerRegisters, EnqueuePCs, TokenPCs, FreePCs
<1>10. w \notin Producers
  BY DispatchAssumption
<1>11. QED
  BY <1>1, <1>6, <1>7, <1>8, <1>9, <1>10, FrameLemma DEF RegistersOK

\* Moving without touching anything but the position and the batch counter.
LEMMA MoveFact ==
    ASSUME TypeInv, NEW w \in Workers, NEW l \in FreePCs \ {"off", "drainPended", "drainCount"},
           pc[w] \in FreePCs \ {"off"}, Goto(w, l), idx' \in [Workers -> Nat],
           \A v \in Workers \ {w} : idx'[v] = idx[v],
           UNCHANGED <<actorVars, queueVars, flagVars, cur, tgt, dst, ret, mainVars, sent>>
    PROVE  TypeInv'
<1>1. TypeOK /\ LocalOK /\ w \in Threads /\ RegistersOK(w)
  BY ThreadsFact DEF TypeInv, TypeOK, LocalOK
<1>2. l \in PCs
  BY DEF FreePCs, PCs
<1>3. TypeOK'
  BY <1>1, <1>2 DEF TypeOK, Goto, actorVars, queueVars, flagVars, mainVars
<1>4. OnlyThread(w)
  BY <1>1, ThreadsFact DEF LocalOK, Goto, OnlyThread, FreePCs, mainVars
<1>5. pc'[w] = l
  BY <1>1 DEF LocalOK, Goto
<1>6. RegistersOK(w)'
  BY <1>1, <1>5, DispatchAssumption DEF RegistersOK, EnqueueRegisters, WorkerRegisters,
     EnqueuePCs, TokenPCs, FreePCs
<1>7. QED
  BY <1>1, <1>3, <1>4, <1>6, FrameLemma

\* Initially.
LEMMA TypeInit == Init => TypeInv
<1> SUFFICES ASSUME Init PROVE TypeInv
  OBVIOUS
<1>1. /\ mail \in [Actors -> Nat] /\ stopped \in [Actors -> BOOLEAN]
      /\ held \in [Actors -> BOOLEAN] /\ queue \in [Workers -> Seq(Actors)]
      /\ pended \in Seq(Actors) /\ wrun \in [Workers -> BOOLEAN]
  BY DEF Init
<1>2. sema \in [Workers -> 0 .. MaxPermits] /\ sent \in 0 .. MaxSends
  BY DispatchAssumption DEF Init
<1>3. LocalOK
  BY DEF Init, LocalOK, PCs
<1>4. running \in BOOLEAN /\ draining \in BOOLEAN
  BY DEF Init
<1>5. /\ mutex \in Workers \cup {None} /\ pendingWork \in Int /\ next \in Workers
      /\ main \in {"init", "starting", "up", "stopping", "waking", "joining", "joined",
                   "stopped"}
  BY WorkersFact DEF Init
<1>6. TypeOK
  BY <1>1, <1>2, <1>3, <1>4, <1>5 DEF TypeOK, LocalOK
<1>7. \A t \in Threads : RegistersOK(t)
  BY DispatchAssumption
  DEF Init, RegistersOK, EnqueueRegisters, WorkerRegisters, ProducerRegisters,
      Threads, EnqueuePCs, TokenPCs, FreePCs
<1>8. StartOK
  BY DEF Init, StartOK, Threads
<1>9. QED
  BY <1>6, <1>7, <1>8 DEF TypeInv

\* Every step preserves the types and the registers.
LEMMA TypeStep == TypeInv /\ [Next]_vars => TypeInv'
<1> SUFFICES ASSUME TypeInv, [Next]_vars PROVE TypeInv'
  OBVIOUS
<1>a. TypeOK /\ LocalOK /\ SharedOK
  BY TypeParts DEF TypeInv
<1>1. ASSUME NEW t \in Threads, NEW a \in Actors, Enqueue(t, a)
       PROVE  TypeInv'
  <2>1. RegistersOK(t) /\ pc[t] \in {"idle", "handle", "failed"}
    BY <1>a, <1>1 DEF TypeInv, Enqueue, MaySend, RegistersOK, EnqueueRegisters,
       WorkerRegisters, ProducerRegisters, EnqueuePCs, TokenPCs, FreePCs
  <2>2. TypeOK'
    <3>1. LocalOK'
      BY <1>a, <1>1, <2>1, DispatchAssumption DEF LocalOK, Enqueue, Goto, PCs,
         localVars
    <3>2. SharedOK'
      BY <1>a, <1>1, <2>1, DispatchAssumption DEF SharedOK, Enqueue, actorVars,
         queueVars, flagVars, mainVars
    <3>3. QED
      BY <3>1, <3>2, TypeParts
  <2>3. OnlyThread(t)
    BY <1>a, <1>1, <2>1, ThreadsFact DEF LocalOK, OnlyThread, Enqueue, Goto,
       MaySend, localVars, mainVars
  <2>4. RegistersOK(t)'
    BY <1>a, <1>1, <2>1, DispatchAssumption DEF LocalOK, Enqueue, Goto, MaySend,
       RegistersOK, EnqueueRegisters, WorkerRegisters, ProducerRegisters,
       EnqueuePCs, TokenPCs, FreePCs, localVars
  <2>5. QED
    BY <2>2, <2>3, <2>4, FrameLemma
<1>2. ASSUME NEW t \in Threads, NEW a \in Actors, EnqueueDrop(t, a)
       PROVE  TypeInv'
  <2>1. sent' \in 0 .. MaxSends
    BY <1>a, <1>2, DispatchAssumption DEF TypeOK, EnqueueDrop
  <2>2. TypeOK'
    BY <1>a, <1>2, <2>1
    DEF TypeOK, EnqueueDrop, actorVars, queueVars, flagVars, localVars, mainVars
  <2>3. \A s \in Threads : RegistersOK(s)'
    BY <1>2 DEF TypeInv, EnqueueDrop, localVars, RegistersOK, EnqueueRegisters,
       WorkerRegisters, ProducerRegisters
  <2>4. QED
    BY <1>2, <2>2, <2>3 DEF TypeInv, StartOK, EnqueueDrop, mainVars
<1>3. ASSUME NEW t \in Threads, Publish(t)
       PROVE  TypeInv'
  <2>1. RegistersOK(t) /\ tgt[t] \in Actors
    BY <1>a, <1>3 DEF TypeInv, Publish, RegistersOK, EnqueueRegisters,
       WorkerRegisters, ProducerRegisters, EnqueuePCs, TokenPCs, FreePCs
  <2>2. TypeOK'
    <3>1. LocalOK'
      BY <1>a, <1>3, <2>1 DEF LocalOK, Publish, Goto, PCs, localVars
    <3>2. SharedOK'
      BY <1>a, <1>3, <2>1 DEF SharedOK, Publish, actorVars, queueVars, flagVars,
         mainVars
    <3>3. QED
      BY <3>1, <3>2, TypeParts
  <2>3. OnlyThread(t)
    BY <1>a, <1>3, <2>1, ThreadsFact DEF LocalOK, OnlyThread, Publish, Goto,
       localVars, mainVars
  <2>4. RegistersOK(t)'
    BY <1>a, <1>3, <2>1 DEF LocalOK, Publish, Goto, RegistersOK, EnqueueRegisters,
       WorkerRegisters, ProducerRegisters, EnqueuePCs, TokenPCs, FreePCs, localVars
  <2>5. QED
    BY <2>2, <2>3, <2>4, FrameLemma
<1>4. ASSUME NEW t \in Threads, Dispatch(t)
       PROVE  TypeInv'
  <2>1. RegistersOK(t) /\ tgt[t] \in Actors /\ pc[t] \in EnqueuePCs
    BY <1>4 DEF TypeInv, Dispatch, RegistersOK, EnqueueRegisters, EnqueuePCs
  <2>2. CASE Return(t) /\ UNCHANGED held
    <3>1. UNCHANGED <<mail, stopped, queueVars, flagVars, mainVars, sent>>
      BY <1>4 DEF Dispatch
    <3>2. LocalOK' /\ OnlyThread(t) /\ RegistersOK(t)'
      BY <2>1, <2>2, <3>1, ReturnFact
    <3>3. TypeOK'
      BY <1>a, <2>2, <3>1, <3>2 DEF TypeOK, LocalOK, queueVars, flagVars, mainVars
    <3>4. QED
      BY <3>2, <3>3, FrameLemma
  <2>3. CASE held' = [held EXCEPT ![tgt[t]] = TRUE] /\ Goto(t, "route") /\ UNCHANGED localVars
    <3>1. UNCHANGED <<mail, stopped, queueVars, flagVars, mainVars, sent>> /\ pc[t] = "dispatch"
      BY <1>4 DEF Dispatch
    <3>2. TypeOK'
      BY <1>a, <2>1, <2>3, <3>1
      DEF TypeOK, Goto, PCs, queueVars, flagVars, localVars, mainVars
    <3>3. OnlyThread(t)
      BY <1>a, <2>3, <3>1 DEF LocalOK, OnlyThread, Goto, localVars, mainVars
    <3>4. RegistersOK(t)'
      BY <1>a, <2>1, <2>3, <3>1 DEF LocalOK, Goto, localVars, RegistersOK,
         EnqueueRegisters, WorkerRegisters, ProducerRegisters, EnqueuePCs, TokenPCs, FreePCs
    <3>5. QED
      BY <3>2, <3>3, <3>4, FrameLemma
  <2>4. QED
    BY <1>4, <2>2, <2>3 DEF Dispatch
<1>5. ASSUME NEW t \in Threads, Route(t)
       PROVE  TypeInv'
  <2>1. RegistersOK(t) /\ tgt[t] \in Actors
    BY <1>a, <1>5 DEF TypeInv, Route, RegistersOK, EnqueueRegisters,
       WorkerRegisters, ProducerRegisters, EnqueuePCs, TokenPCs, FreePCs
  <2>2. TypeOK'
    <3>1. LocalOK'
      BY <1>a, <1>5, <2>1 DEF LocalOK, Route, Goto, PCs, localVars
    <3>2. SharedOK'
      BY <1>a, <1>5, <2>1 DEF SharedOK, Route, actorVars, queueVars, flagVars,
         mainVars
    <3>3. QED
      BY <3>1, <3>2, TypeParts
  <2>3. OnlyThread(t)
    BY <1>a, <1>5, <2>1, ThreadsFact DEF LocalOK, OnlyThread, Route, Goto,
       localVars, mainVars
  <2>4. RegistersOK(t)'
    BY <1>a, <1>5, <2>1 DEF LocalOK, Route, Goto, RegistersOK, EnqueueRegisters,
       WorkerRegisters, ProducerRegisters, EnqueuePCs, TokenPCs, FreePCs, localVars
  <2>5. QED
    BY <2>2, <2>3, <2>4, FrameLemma
<1>6. ASSUME NEW t \in Threads, Push(t)
       PROVE  TypeInv'
  <2>1. RegistersOK(t) /\ tgt[t] \in Actors /\ dst[t] \in Workers
    BY <1>a, <1>6 DEF TypeInv, Push, RegistersOK, EnqueueRegisters, WorkerRegisters,
       ProducerRegisters, EnqueuePCs, TokenPCs, FreePCs
  <2>2. TypeOK'
    <3>1. LocalOK'
      BY <1>a, <1>6, <2>1 DEF LocalOK, Push, Goto, PCs, localVars
    <3>2. SharedOK'
      BY <1>a, <1>6, <2>1 DEF SharedOK, Push, actorVars, queueVars, flagVars,
         mainVars
    <3>3. QED
      BY <3>1, <3>2, TypeParts
  <2>3. OnlyThread(t)
    BY <1>a, <1>6, <2>1, ThreadsFact DEF LocalOK, OnlyThread, Push, Goto, localVars,
       mainVars
  <2>4. RegistersOK(t)'
    BY <1>a, <1>6, <2>1 DEF LocalOK, Push, Goto, RegistersOK, EnqueueRegisters,
       WorkerRegisters, ProducerRegisters, EnqueuePCs, TokenPCs, FreePCs, localVars
  <2>5. QED
    BY <2>2, <2>3, <2>4, FrameLemma
<1>7. ASSUME NEW t \in Threads, PushFail(t)
       PROVE  TypeInv'
  <2>1. RegistersOK(t)
    BY <1>a, <1>7 DEF TypeInv
  <2>2. TypeOK'
    BY <1>a, <1>7, <2>1 DEF TypeOK, PushFail, Goto, PCs, actorVars, queueVars,
       flagVars, localVars, mainVars
  <2>3. OnlyThread(t)
    BY <1>a, <1>7, <2>1, ThreadsFact DEF LocalOK, OnlyThread, PushFail, Goto,
       localVars, mainVars
  <2>4. RegistersOK(t)'
    BY <1>a, <1>7, <2>1 DEF LocalOK, PushFail, Goto, RegistersOK, EnqueueRegisters,
       WorkerRegisters, ProducerRegisters, EnqueuePCs, TokenPCs, FreePCs, localVars
  <2>5. QED
    BY <2>2, <2>3, <2>4, FrameLemma
<1>8. ASSUME NEW t \in Threads, Pend(t)
       PROVE  TypeInv'
  <2>1. pc[t] \in EnqueuePCs /\ UNCHANGED mainVars /\ Return(t) /\ tgt[t] \in Actors
    BY <1>8 DEF TypeInv, Pend, RegistersOK, EnqueueRegisters, EnqueuePCs, mainVars
  <2>2. LocalOK' /\ OnlyThread(t) /\ RegistersOK(t)'
    BY <2>1, ReturnFact
  <2>3. TypeOK'
    BY <1>a, <1>8, <2>1, <2>2 DEF TypeOK, LocalOK, Pend, actorVars, flagVars, mainVars
  <2>4. QED
    BY <2>2, <2>3, FrameLemma
<1>9. ASSUME NEW t \in Threads, Signal(t)
       PROVE  TypeInv'
  <2>1. /\ pc[t] = "signal" /\ pc[t] \in EnqueuePCs /\ dst[t] \in Workers /\ RegistersOK(t)
        /\ UNCHANGED <<actorVars, queue, pended, mutex, pendingWork, flagVars, mainVars, sent>>
    BY <1>9 DEF TypeInv, Signal, RegistersOK, EnqueueRegisters, EnqueuePCs
  <2>2. sema' \in [Workers -> 0 .. MaxPermits]
    BY <1>a, <1>9, <2>1, PermitFact DEF TypeOK, Signal
  <2>3. CASE Return(t)
    <3>1. LocalOK' /\ OnlyThread(t) /\ RegistersOK(t)'
      BY <2>1, <2>3, ReturnFact
    <3>2. TypeOK'
      BY <1>a, <2>1, <2>2, <3>1 DEF TypeOK, LocalOK, actorVars, flagVars, mainVars
    <3>3. QED
      BY <3>1, <3>2, FrameLemma
  <2>4. CASE ret[t] # "top" /\ Goto(t, "count") /\ UNCHANGED localVars
    <3>1. TypeOK'
      BY <1>a, <2>1, <2>2, <2>4
      DEF TypeOK, Goto, PCs, actorVars, flagVars, localVars, mainVars
    <3>2. OnlyThread(t)
      BY <1>a, <2>1, <2>4 DEF LocalOK, OnlyThread, Goto, localVars, mainVars
    <3>3. RegistersOK(t)'
      BY <1>a, <2>1, <2>4 DEF LocalOK, Goto, localVars, RegistersOK, EnqueueRegisters,
         WorkerRegisters, ProducerRegisters, EnqueuePCs, TokenPCs, FreePCs
    <3>4. QED
      BY <3>1, <3>2, <3>3, FrameLemma
  <2>5. QED
    BY <1>9, <2>3, <2>4 DEF Signal
<1>10. ASSUME NEW t \in Threads, Count(t)
       PROVE  TypeInv'
  <2>1. pc[t] \in EnqueuePCs /\ UNCHANGED mainVars /\ Return(t) /\ tgt[t] \in Actors
    BY <1>10 DEF TypeInv, Count, RegistersOK, EnqueueRegisters, EnqueuePCs, mainVars
  <2>2. LocalOK' /\ OnlyThread(t) /\ RegistersOK(t)'
    BY <2>1, ReturnFact
  <2>3. TypeOK'
    <3>1. LocalOK'
      BY <1>a, <1>10, <2>1, <2>2 DEF LocalOK, Count
    <3>2. SharedOK'
      BY <1>a, <1>10, <2>1, <2>2 DEF SharedOK, Count, actorVars, flagVars,
         mainVars
    <3>3. QED
      BY <3>1, <3>2, TypeParts
  <2>4. QED
    BY <2>2, <2>3, FrameLemma
<1>11. ASSUME NEW w \in Workers, Top(w)
       PROVE  TypeInv'
  <2>1. /\ pc[w] \in FreePCs \ {"off"}
        /\ UNCHANGED <<actorVars, sema, pended, mutex, pendingWork, flagVars, mainVars, sent>>
    BY <1>11 DEF Top, FreePCs
  <2>2. CASE Take(w, w, "run")
    BY <2>1, <2>2, TakeFact
  <2>3. ASSUME NEW l \in {"loop", "done"}, Goto(w, l), UNCHANGED <<queue, localVars>>
        PROVE  TypeInv'
    <3>1. l \in FreePCs \ {"off", "drainPended", "drainCount"} /\ idx \in [Workers -> Nat]
      BY <1>a DEF FreePCs, LocalOK
    <3>2. QED
      BY <2>1, <2>3, <3>1, MoveFact DEF queueVars, localVars
  <2>4. QED
    BY <1>11, <2>2, <2>3 DEF Top, TakeNothing
<1>12. ASSUME NEW w \in Workers, Loop(w)
       PROVE  TypeInv'
  <2>1. w \in Threads /\ w \notin Producers
    BY ThreadsFact, DispatchAssumption
  <2>2. RegistersOK(w)
    BY <1>a, <1>12, <2>1 DEF TypeInv
  <2>3. TypeOK'
    BY <1>a, <1>12, <2>1, <2>2 DEF TypeOK, Loop, Goto, PCs, actorVars, queueVars,
       flagVars, localVars, mainVars
  <2>4. OnlyThread(w)
    BY <1>a, <1>12, <2>1, <2>2, ThreadsFact DEF LocalOK, OnlyThread, Loop, Goto,
       localVars, mainVars
  <2>5. RegistersOK(w)'
    BY <1>a, <1>12, <2>1, <2>2 DEF LocalOK, Loop, Goto, RegistersOK,
       EnqueueRegisters, WorkerRegisters, ProducerRegisters, EnqueuePCs, TokenPCs,
       FreePCs, localVars
  <2>6. QED
    BY <2>1, <2>3, <2>4, <2>5, FrameLemma
<1>13. ASSUME NEW w \in Workers, Spin(w)
       PROVE  TypeInv'
  <2>1. /\ pc[w] \in FreePCs \ {"off"}
        /\ UNCHANGED <<actorVars, sema, pended, mutex, pendingWork, flagVars, mainVars, sent>>
    BY <1>13 DEF Spin, FreePCs
  <2>2. CASE Take(w, w, "run")
    BY <2>1, <2>2, TakeFact
  <2>3. ASSUME NEW l \in {"park"}, Goto(w, l), UNCHANGED <<queue, localVars>>
        PROVE  TypeInv'
    <3>1. l \in FreePCs \ {"off", "drainPended", "drainCount"} /\ idx \in [Workers -> Nat]
      BY <1>a DEF FreePCs, LocalOK
    <3>2. QED
      BY <2>1, <2>3, <3>1, MoveFact DEF queueVars, localVars
  <2>4. QED
    BY <1>13, <2>2, <2>3 DEF Spin, TakeNothing
<1>14. ASSUME NEW w \in Workers, ParkWake(w)
       PROVE  TypeInv'
  <2>1. w \in Threads /\ w \notin Producers
    BY ThreadsFact, DispatchAssumption
  <2>2. RegistersOK(w)
    BY <1>a, <1>14, <2>1 DEF TypeInv
  <2>3. sema' \in [Workers -> 0 .. MaxPermits]
    BY <1>a, <1>14, <2>1, <2>2, DispatchAssumption DEF TypeOK, ParkWake
  <2>4. TypeOK'
    BY <1>a, <1>14, <2>1, <2>2, <2>3 DEF TypeOK, ParkWake, Goto, PCs, actorVars,
       queueVars, flagVars, localVars, mainVars
  <2>5. OnlyThread(w)
    BY <1>a, <1>14, <2>1, <2>2, <2>3, ThreadsFact DEF LocalOK, OnlyThread, ParkWake,
       Goto, localVars, mainVars
  <2>6. RegistersOK(w)'
    BY <1>a, <1>14, <2>1, <2>2, <2>3 DEF LocalOK, ParkWake, Goto, RegistersOK,
       EnqueueRegisters, WorkerRegisters, ProducerRegisters, EnqueuePCs, TokenPCs,
       FreePCs, localVars
  <2>7. QED
    BY <2>1, <2>4, <2>5, <2>6, FrameLemma
<1>15. ASSUME NEW w \in Workers, ParkTimeout(w)
       PROVE  TypeInv'
  <2>1. w \in Threads /\ w \notin Producers
    BY ThreadsFact, DispatchAssumption
  <2>2. RegistersOK(w)
    BY <1>a, <1>15, <2>1 DEF TypeInv
  <2>3. TypeOK'
    BY <1>a, <1>15, <2>1, <2>2 DEF TypeOK, ParkTimeout, Goto, PCs, actorVars,
       queueVars, flagVars, localVars, mainVars
  <2>4. OnlyThread(w)
    BY <1>a, <1>15, <2>1, <2>2, ThreadsFact DEF LocalOK, OnlyThread, ParkTimeout,
       Goto, localVars, mainVars
  <2>5. RegistersOK(w)'
    BY <1>a, <1>15, <2>1, <2>2 DEF LocalOK, ParkTimeout, Goto, RegistersOK,
       EnqueueRegisters, WorkerRegisters, ProducerRegisters, EnqueuePCs, TokenPCs,
       FreePCs, localVars
  <2>6. QED
    BY <2>1, <2>3, <2>4, <2>5, FrameLemma
<1>16. ASSUME NEW w \in Workers, Poll(w)
       PROVE  TypeInv'
  <2>1. /\ pc[w] \in FreePCs \ {"off"}
        /\ UNCHANGED <<actorVars, sema, pended, mutex, pendingWork, flagVars, mainVars, sent>>
    BY <1>16 DEF Poll, FreePCs
  <2>2. CASE Take(w, w, "run")
    BY <2>1, <2>2, TakeFact
  <2>3. ASSUME NEW l \in {"loop"}, Goto(w, l), UNCHANGED <<queue, localVars>>
        PROVE  TypeInv'
    <3>1. l \in FreePCs \ {"off", "drainPended", "drainCount"} /\ idx \in [Workers -> Nat]
      BY <1>a DEF FreePCs, LocalOK
    <3>2. QED
      BY <2>1, <2>3, <3>1, MoveFact DEF queueVars, localVars
  <2>4. QED
    BY <1>16, <2>2, <2>3 DEF Poll, TakeNothing
<1>17. ASSUME NEW w \in Workers, Steal(w)
       PROVE  TypeInv'
  <2> DEFINE victim == (w + idx[w]) % NumWorkers
  <2>1. /\ pc[w] \in FreePCs \ {"off"} /\ pc[w] = "steal"
        /\ UNCHANGED <<actorVars, sema, pended, mutex, pendingWork, flagVars, mainVars, sent>>
    BY <1>17 DEF Steal, FreePCs
  <2>2. victim \in Workers /\ idx[w] \in Nat
    BY <1>a, RoutingAssumption, WorkersFact DEF LocalOK, Workers
  <2> HIDE DEF victim
  <2>3. CASE Take(w, victim, "permit")
    BY <2>1, <2>2, <2>3, TakeFact
  <2>4. CASE /\ idx' = [idx EXCEPT ![w] = @ + 1]
             /\ UNCHANGED <<queue, cur, tgt, dst, ret, pc>>
    <3>1. Goto(w, "steal")
      BY <1>a, <2>1, <2>4, ThreadsFact DEF LocalOK, Goto
    <3>2. idx' \in [Workers -> Nat] /\ \A v \in Workers \ {w} : idx'[v] = idx[v]
      BY <1>a, <2>2, <2>4 DEF LocalOK
    <3>3. "steal" \in FreePCs \ {"off", "drainPended", "drainCount"}
      BY DEF FreePCs
    <3>4. QED
      BY <2>1, <2>4, <3>1, <3>2, <3>3, MoveFact DEF queueVars
  <2>5. CASE /\ idx' = [idx EXCEPT ![w] = 0]
             /\ Goto(w, "loop")
             /\ UNCHANGED <<queue, cur, tgt, dst, ret>>
    <3>1. idx' \in [Workers -> Nat] /\ \A v \in Workers \ {w} : idx'[v] = idx[v]
      BY <1>a, <2>5 DEF LocalOK
    <3>2. "loop" \in FreePCs \ {"off", "drainPended", "drainCount"}
      BY DEF FreePCs
    <3>3. QED
      BY <2>1, <2>5, <3>1, <3>2, MoveFact DEF queueVars
  <2>6. QED
    BY <1>17, <2>3, <2>4, <2>5 DEF Steal, victim
<1>18. ASSUME NEW w \in Workers, StealPermit(w)
       PROVE  TypeInv'
  <2>1. w \in Threads /\ w \notin Producers
    BY ThreadsFact, DispatchAssumption
  <2>2. RegistersOK(w) /\ dst[w] \in Workers
    BY <1>a, <1>18, <2>1 DEF TypeInv, StealPermit, RegistersOK, EnqueueRegisters,
       WorkerRegisters, ProducerRegisters, EnqueuePCs, TokenPCs, FreePCs
  <2>3. sema' \in [Workers -> 0 .. MaxPermits]
    <3>1. sema \in [Workers -> 0 .. MaxPermits] /\ MaxPermits \in Nat
      BY <1>a, DispatchAssumption DEF SharedOK
    <3>2. (IF sema[dst[w]] > 0 THEN sema[dst[w]] - 1 ELSE sema[dst[w]]) \in 0 .. MaxPermits
      BY <2>2, <3>1
    <3>3. QED
      BY <1>18, <2>2, <3>1, <3>2 DEF StealPermit
  <2>4. TypeOK'
    <3>1. LocalOK'
      BY <1>a, <1>18, <2>1, <2>2, <2>3 DEF LocalOK, StealPermit, Goto, PCs,
         localVars
    <3>2. SharedOK'
      BY <1>a, <1>18, <2>1, <2>2, <2>3 DEF SharedOK, StealPermit, actorVars,
         queueVars, flagVars, mainVars
    <3>3. QED
      BY <3>1, <3>2, TypeParts
  <2>5. OnlyThread(w)
    BY <1>a, <1>18, <2>1, <2>2, <2>3, ThreadsFact DEF LocalOK, OnlyThread,
       StealPermit, Goto, localVars, mainVars
  <2>6. RegistersOK(w)'
    BY <1>a, <1>18, <2>1, <2>2, <2>3 DEF LocalOK, StealPermit, Goto, RegistersOK,
       EnqueueRegisters, WorkerRegisters, ProducerRegisters, EnqueuePCs, TokenPCs,
       FreePCs, localVars
  <2>7. QED
    BY <2>1, <2>4, <2>5, <2>6, FrameLemma
<1>19. ASSUME NEW w \in Workers, LockPended(w)
       PROVE  TypeInv'
  <2>1. w \in Threads /\ w \notin Producers
    BY ThreadsFact, DispatchAssumption
  <2>2. RegistersOK(w)
    BY <1>a, <1>19, <2>1 DEF TypeInv
  <2>3. TypeOK'
    BY <1>a, <1>19, <2>1, <2>2 DEF TypeOK, LockPended, Goto, PCs, actorVars,
       queueVars, flagVars, localVars, mainVars
  <2>4. OnlyThread(w)
    BY <1>a, <1>19, <2>1, <2>2, ThreadsFact DEF LocalOK, OnlyThread, LockPended,
       Goto, localVars, mainVars
  <2>5. RegistersOK(w)'
    BY <1>a, <1>19, <2>1, <2>2 DEF LocalOK, LockPended, Goto, RegistersOK,
       EnqueueRegisters, WorkerRegisters, ProducerRegisters, EnqueuePCs, TokenPCs,
       FreePCs, localVars
  <2>6. QED
    BY <2>1, <2>3, <2>4, <2>5, FrameLemma
<1>20. ASSUME NEW w \in Workers, DrainPended(w)
       PROVE  TypeInv'
  <2>1. w \in Threads /\ w \notin Producers /\ RegistersOK(w)
    BY ThreadsFact, DispatchAssumption DEF TypeInv
  <2>2. /\ idx[w] \in 1 .. Len(pended) /\ pc[w] = "drainPended" /\ cur[w] = None
        /\ UNCHANGED <<actorVars, sema, mutex, pendingWork, flagVars, cur, tgt, ret,
                       mainVars, sent>>
    BY <1>a, <1>20, <2>1
    DEF LocalOK, DrainPended, RegistersOK, WorkerRegisters, FreePCs
  <2>3. /\ pended[idx[w]] \in Actors
        /\ RemoveAt(pended, idx[w]) \in Seq(Actors)
    BY <1>a, <2>2, LenProperties, RemoveAtFact DEF TypeOK
  <2>4. PICK v \in Workers :
          \/ /\ queue' = [queue EXCEPT ![v] = Append(@, pended[idx[w]])]
             /\ pended' = RemoveAt(pended, idx[w])
             /\ dst' = [dst EXCEPT ![w] = v]
             /\ Goto(w, "drainCount")
             /\ UNCHANGED idx
          \/ /\ idx' = [idx EXCEPT ![w] = @ + 1]
             /\ UNCHANGED <<queue, pended, dst, pc>>
    BY <1>20 DEF DrainPended
  <2>5. CASE /\ queue' = [queue EXCEPT ![v] = Append(@, pended[idx[w]])]
             /\ pended' = RemoveAt(pended, idx[w])
             /\ dst' = [dst EXCEPT ![w] = v]
             /\ Goto(w, "drainCount")
             /\ UNCHANGED idx
    <3>1. queue' \in [Workers -> Seq(Actors)]
      BY <1>a, <2>3, <2>5 DEF TypeOK
    <3>2. LocalOK'
      BY <1>a, <2>1, <2>2, <2>5 DEF LocalOK, Goto, PCs
    <3>3. TypeOK'
      BY <1>a, <2>2, <2>3, <2>5, <3>1, <3>2 DEF TypeOK, LocalOK, actorVars, flagVars, mainVars
    <3>4. OnlyThread(w)
      BY <1>a, <2>1, <2>2, <2>5 DEF LocalOK, OnlyThread, Goto, mainVars
    <3>5. RegistersOK(w)'
      BY <1>a, <2>1, <2>2, <2>5 DEF LocalOK, Goto, RegistersOK, EnqueueRegisters,
         WorkerRegisters, ProducerRegisters, EnqueuePCs, TokenPCs, FreePCs
    <3>6. QED
      BY <2>1, <3>3, <3>4, <3>5, FrameLemma
  <2>6. CASE idx' = [idx EXCEPT ![w] = @ + 1] /\ UNCHANGED <<queue, pended, dst, pc>>
    <3>1. idx' \in [Workers -> Nat]
      BY <1>a, <2>6 DEF LocalOK
    <3>2. TypeOK'
      BY <1>a, <2>2, <2>6, <3>1 DEF TypeOK, actorVars, flagVars, mainVars
    <3>3. OnlyThread(w)
      BY <1>a, <2>1, <2>2, <2>6 DEF LocalOK, OnlyThread, mainVars
    <3>4. RegistersOK(w)'
      BY <1>a, <2>1, <2>2, <2>6 DEF LocalOK, RegistersOK, EnqueueRegisters,
         WorkerRegisters, ProducerRegisters, EnqueuePCs, TokenPCs, FreePCs
    <3>5. QED
      BY <2>1, <3>2, <3>3, <3>4, FrameLemma
  <2>7. QED
    BY <2>4, <2>5, <2>6
<1>21. ASSUME NEW w \in Workers, DrainCount(w)
       PROVE  TypeInv'
  <2>1. w \in Threads /\ w \notin Producers /\ RegistersOK(w)
    BY ThreadsFact, DispatchAssumption DEF TypeInv
  <2>2. dst[w] \in Workers
    BY <1>21, <2>1 DEF DrainCount, RegistersOK, EnqueueRegisters
  <2>3. sema' \in [Workers -> 0 .. MaxPermits]
    BY <1>a, <1>21, <2>2, PermitFact DEF TypeOK, DrainCount
  <2>4. TypeOK'
    <3>1. LocalOK'
      BY <1>a, <1>21, <2>1, <2>3 DEF LocalOK, DrainCount, Goto, PCs
    <3>2. SharedOK'
      BY <1>a, <1>21, <2>1, <2>3 DEF SharedOK, DrainCount, actorVars, flagVars,
         mainVars
    <3>3. QED
      BY <3>1, <3>2, TypeParts
  <2>5. OnlyThread(w)
    BY <1>a, <1>21, <2>1 DEF LocalOK, OnlyThread, DrainCount, Goto, mainVars
  <2>6. RegistersOK(w)'
    BY <1>a, <1>21, <2>1 DEF LocalOK, DrainCount, Goto, RegistersOK, EnqueueRegisters,
       WorkerRegisters, ProducerRegisters, EnqueuePCs, TokenPCs, FreePCs
  <2>7. QED
    BY <2>1, <2>4, <2>5, <2>6, FrameLemma
<1>22. ASSUME NEW w \in Workers, DrainDone(w)
       PROVE  TypeInv'
  <2>1. w \in Threads /\ w \notin Producers
    BY ThreadsFact, DispatchAssumption
  <2>2. RegistersOK(w)
    BY <1>a, <1>22, <2>1 DEF TypeInv
  <2>3. TypeOK'
    BY <1>a, <1>22, <2>1, <2>2 DEF TypeOK, DrainDone, Goto, PCs, actorVars,
       queueVars, flagVars, localVars, mainVars
  <2>4. OnlyThread(w)
    BY <1>a, <1>22, <2>1, <2>2, ThreadsFact DEF LocalOK, OnlyThread, DrainDone,
       Goto, localVars, mainVars
  <2>5. RegistersOK(w)'
    BY <1>a, <1>22, <2>1, <2>2 DEF LocalOK, DrainDone, Goto, RegistersOK,
       EnqueueRegisters, WorkerRegisters, ProducerRegisters, EnqueuePCs, TokenPCs,
       FreePCs, localVars
  <2>6. QED
    BY <2>1, <2>3, <2>4, <2>5, FrameLemma
<1>23. ASSUME NEW w \in Workers, ExitCheck(w)
       PROVE  TypeInv'
  <2>1. w \in Threads /\ w \notin Producers
    BY ThreadsFact, DispatchAssumption
  <2>2. RegistersOK(w)
    BY <1>a, <1>23, <2>1 DEF TypeInv
  <2>3. TypeOK'
    BY <1>a, <1>23, <2>1, <2>2 DEF TypeOK, ExitCheck, Goto, PCs, actorVars,
       queueVars, flagVars, localVars, mainVars
  <2>4. OnlyThread(w)
    BY <1>a, <1>23, <2>1, <2>2, ThreadsFact DEF LocalOK, OnlyThread, ExitCheck,
       Goto, localVars, mainVars
  <2>5. RegistersOK(w)'
    BY <1>a, <1>23, <2>1, <2>2 DEF LocalOK, ExitCheck, Goto, RegistersOK,
       EnqueueRegisters, WorkerRegisters, ProducerRegisters, EnqueuePCs, TokenPCs,
       FreePCs, localVars
  <2>6. QED
    BY <2>1, <2>3, <2>4, <2>5, FrameLemma
<1>24. ASSUME NEW w \in Workers, Run(w)
       PROVE  TypeInv'
  <2>1. w \in Threads /\ w \notin Producers
    BY ThreadsFact, DispatchAssumption
  <2>2. RegistersOK(w)
    BY <1>a, <1>24, <2>1 DEF TypeInv
  <2>3. TypeOK'
    BY <1>a, <1>24, <2>1, <2>2 DEF TypeOK, Run, Goto, PCs, actorVars, queueVars,
       flagVars, localVars, mainVars
  <2>4. OnlyThread(w)
    BY <1>a, <1>24, <2>1, <2>2, ThreadsFact DEF LocalOK, OnlyThread, Run, Goto,
       localVars, mainVars
  <2>5. RegistersOK(w)'
    BY <1>a, <1>24, <2>1, <2>2 DEF LocalOK, Run, Goto, RegistersOK,
       EnqueueRegisters, WorkerRegisters, ProducerRegisters, EnqueuePCs, TokenPCs,
       FreePCs, localVars
  <2>6. QED
    BY <2>1, <2>3, <2>4, <2>5, FrameLemma
<1>25. ASSUME NEW w \in Workers, BatchPop(w)
       PROVE  TypeInv'
  <2>1. w \in Threads /\ w \notin Producers
    BY ThreadsFact, DispatchAssumption
  <2>2. RegistersOK(w) /\ cur[w] \in Actors
    BY <1>a, <1>25, <2>1 DEF TypeInv, BatchPop, RegistersOK, EnqueueRegisters,
       WorkerRegisters, ProducerRegisters, EnqueuePCs, TokenPCs, FreePCs
  <2>3. mail' \in [Actors -> Nat]
    BY <1>a, <1>25, <2>1, <2>2 DEF TypeOK, BatchPop
  <2>4. TypeOK'
    BY <1>a, <1>25, <2>1, <2>2, <2>3 DEF TypeOK, BatchPop, Goto, PCs, actorVars,
       queueVars, flagVars, localVars, mainVars
  <2>5. OnlyThread(w)
    BY <1>a, <1>25, <2>1, <2>2, <2>3, ThreadsFact DEF LocalOK, OnlyThread, BatchPop,
       Goto, localVars, mainVars
  <2>6. RegistersOK(w)'
    BY <1>a, <1>25, <2>1, <2>2, <2>3 DEF LocalOK, BatchPop, Goto, RegistersOK,
       EnqueueRegisters, WorkerRegisters, ProducerRegisters, EnqueuePCs, TokenPCs,
       FreePCs, localVars
  <2>7. QED
    BY <2>1, <2>4, <2>5, <2>6, FrameLemma
<1>26. ASSUME NEW w \in Workers, BatchEnd(w)
       PROVE  TypeInv'
  <2>1. w \in Threads /\ w \notin Producers
    BY ThreadsFact, DispatchAssumption
  <2>2. RegistersOK(w)
    BY <1>a, <1>26, <2>1 DEF TypeInv
  <2>3. TypeOK'
    BY <1>a, <1>26, <2>1, <2>2 DEF TypeOK, BatchEnd, Goto, PCs, actorVars,
       queueVars, flagVars, localVars, mainVars
  <2>4. OnlyThread(w)
    BY <1>a, <1>26, <2>1, <2>2, ThreadsFact DEF LocalOK, OnlyThread, BatchEnd, Goto,
       localVars, mainVars
  <2>5. RegistersOK(w)'
    BY <1>a, <1>26, <2>1, <2>2 DEF LocalOK, BatchEnd, Goto, RegistersOK,
       EnqueueRegisters, WorkerRegisters, ProducerRegisters, EnqueuePCs, TokenPCs,
       FreePCs, localVars
  <2>6. QED
    BY <2>1, <2>3, <2>4, <2>5, FrameLemma
<1>27. ASSUME NEW w \in Workers, Handled(w)
       PROVE  TypeInv'
  <2>1. w \in Threads /\ w \notin Producers
    BY ThreadsFact, DispatchAssumption
  <2>2. RegistersOK(w)
    BY <1>a, <1>27, <2>1 DEF TypeInv
  <2>3. TypeOK'
    <3>1. LocalOK'
      BY <1>a, <1>27, <2>1, <2>2 DEF LocalOK, Handled, Goto, PCs, localVars
    <3>2. SharedOK'
      BY <1>a, <1>27, <2>1, <2>2 DEF SharedOK, Handled, actorVars, queueVars,
         flagVars, mainVars
    <3>3. QED
      BY <3>1, <3>2, TypeParts
  <2>4. OnlyThread(w)
    BY <1>a, <1>27, <2>1, <2>2, ThreadsFact DEF LocalOK, OnlyThread, Handled, Goto,
       localVars, mainVars
  <2>5. RegistersOK(w)'
    BY <1>a, <1>27, <2>1, <2>2 DEF LocalOK, Handled, Goto, RegistersOK,
       EnqueueRegisters, WorkerRegisters, ProducerRegisters, EnqueuePCs, TokenPCs,
       FreePCs, localVars
  <2>6. QED
    BY <2>1, <2>3, <2>4, <2>5, FrameLemma
<1>28. ASSUME NEW w \in Workers, Fails(w)
       PROVE  TypeInv'
  <2>1. w \in Threads /\ w \notin Producers
    BY ThreadsFact, DispatchAssumption
  <2>2. RegistersOK(w) /\ cur[w] \in Actors
    BY <1>a, <1>28, <2>1 DEF TypeInv, Fails, RegistersOK, EnqueueRegisters,
       WorkerRegisters, ProducerRegisters, EnqueuePCs, TokenPCs, FreePCs
  <2>3. stopped' \in [Actors -> BOOLEAN]
    BY <1>a, <1>28, <2>1, <2>2 DEF TypeOK, Fails
  <2>4. mail' \in [Actors -> Nat]
    BY <1>a, <1>28, <2>1, <2>2, <2>3 DEF TypeOK, Fails
  <2>5. TypeOK'
    BY <1>a, <1>28, <2>1, <2>2, <2>3, <2>4 DEF TypeOK, Fails, Goto, PCs,
       actorVars, queueVars, flagVars, localVars, mainVars
  <2>6. OnlyThread(w)
    BY <1>a, <1>28, <2>1, <2>2, <2>3, <2>4, ThreadsFact DEF LocalOK, OnlyThread,
       Fails, Goto, localVars, mainVars
  <2>7. RegistersOK(w)'
    BY <1>a, <1>28, <2>1, <2>2, <2>3, <2>4 DEF LocalOK, Fails, Goto,
       RegistersOK, EnqueueRegisters, WorkerRegisters, ProducerRegisters,
       EnqueuePCs, TokenPCs, FreePCs, localVars
  <2>8. QED
    BY <2>1, <2>5, <2>6, <2>7, FrameLemma
<1>29. ASSUME NEW w \in Workers, FailureHandled(w)
       PROVE  TypeInv'
  <2>1. w \in Threads /\ w \notin Producers
    BY ThreadsFact, DispatchAssumption
  <2>2. RegistersOK(w)
    BY <1>a, <1>29, <2>1 DEF TypeInv
  <2>3. TypeOK'
    BY <1>a, <1>29, <2>1, <2>2 DEF TypeOK, FailureHandled, Goto, PCs, actorVars,
       queueVars, flagVars, localVars, mainVars
  <2>4. OnlyThread(w)
    BY <1>a, <1>29, <2>1, <2>2, ThreadsFact DEF LocalOK, OnlyThread, FailureHandled,
       Goto, localVars, mainVars
  <2>5. RegistersOK(w)'
    BY <1>a, <1>29, <2>1, <2>2 DEF LocalOK, FailureHandled, Goto, RegistersOK,
       EnqueueRegisters, WorkerRegisters, ProducerRegisters, EnqueuePCs, TokenPCs,
       FreePCs, localVars
  <2>6. QED
    BY <2>1, <2>3, <2>4, <2>5, FrameLemma
<1>30. ASSUME NEW w \in Workers, ReleaseInFlight(w)
       PROVE  TypeInv'
  <2>1. w \in Threads /\ w \notin Producers
    BY ThreadsFact, DispatchAssumption
  <2>2. RegistersOK(w) /\ cur[w] \in Actors
    BY <1>a, <1>30, <2>1 DEF TypeInv, ReleaseInFlight, RegistersOK,
       EnqueueRegisters, WorkerRegisters, ProducerRegisters, EnqueuePCs, TokenPCs,
       FreePCs
  <2>3. TypeOK'
    BY <1>a, <1>30, <2>1, <2>2 DEF TypeOK, ReleaseInFlight, Goto, PCs, actorVars,
       queueVars, flagVars, localVars, mainVars
  <2>4. OnlyThread(w)
    BY <1>a, <1>30, <2>1, <2>2, ThreadsFact DEF LocalOK, OnlyThread,
       ReleaseInFlight, Goto, localVars, mainVars
  <2>5. RegistersOK(w)'
    BY <1>a, <1>30, <2>1, <2>2 DEF LocalOK, ReleaseInFlight, Goto, RegistersOK,
       EnqueueRegisters, WorkerRegisters, ProducerRegisters, EnqueuePCs, TokenPCs,
       FreePCs, localVars
  <2>6. QED
    BY <2>1, <2>3, <2>4, <2>5, FrameLemma
<1>31. ASSUME NEW w \in Workers, Recheck(w)
       PROVE  TypeInv'
  <2>1. w \in Threads /\ w \notin Producers
    BY ThreadsFact, DispatchAssumption
  <2>2. RegistersOK(w)
    BY <1>a, <1>31, <2>1 DEF TypeInv
  <2>3. TypeOK'
    BY <1>a, <1>31, <2>1, <2>2 DEF TypeOK, Recheck, Goto, PCs, actorVars, queueVars,
       flagVars, localVars, mainVars
  <2>4. OnlyThread(w)
    BY <1>a, <1>31, <2>1, <2>2, ThreadsFact DEF LocalOK, OnlyThread, Recheck, Goto,
       localVars, mainVars
  <2>5. RegistersOK(w)'
    BY <1>a, <1>31, <2>1, <2>2 DEF LocalOK, Recheck, Goto, RegistersOK,
       EnqueueRegisters, WorkerRegisters, ProducerRegisters, EnqueuePCs, TokenPCs,
       FreePCs, localVars
  <2>6. QED
    BY <2>1, <2>3, <2>4, <2>5, FrameLemma
<1>32. ASSUME NEW w \in Workers, Reclaim(w)
       PROVE  TypeInv'
  <2>1. w \in Threads /\ w \notin Producers /\ RegistersOK(w)
    BY ThreadsFact, DispatchAssumption DEF TypeInv
  <2>2. /\ cur[w] \in Actors /\ pc[w] = "reclaim"
        /\ UNCHANGED <<mail, stopped, queueVars, flagVars, dst, idx, mainVars, sent>>
    BY <1>32, <2>1 DEF Reclaim, RegistersOK, WorkerRegisters, TokenPCs
  <2>3. CASE Goto(w, "retire") /\ UNCHANGED <<held, cur, tgt, ret>>
    <3>1. TypeOK'
      BY <1>a, <2>1, <2>2, <2>3 DEF TypeOK, Goto, PCs, queueVars, flagVars, mainVars
    <3>2. OnlyThread(w)
      BY <1>a, <2>1, <2>2, <2>3 DEF LocalOK, OnlyThread, Goto, mainVars
    <3>3. RegistersOK(w)'
      BY <1>a, <2>1, <2>2, <2>3 DEF LocalOK, Goto, RegistersOK, EnqueueRegisters,
         WorkerRegisters, ProducerRegisters, EnqueuePCs, TokenPCs, FreePCs
    <3>4. QED
      BY <2>1, <3>1, <3>2, <3>3, FrameLemma
  <2>4. CASE /\ held' = [held EXCEPT ![cur[w]] = TRUE]
             /\ tgt' = [tgt EXCEPT ![w] = cur[w]]
             /\ cur' = [cur EXCEPT ![w] = None]
             /\ ret' = [ret EXCEPT ![w] = "top"]
             /\ Goto(w, "route")
    <3>1. LocalOK'
      BY <1>a, <2>1, <2>2, <2>4 DEF LocalOK, Goto, PCs
    <3>2. TypeOK'
      BY <1>a, <2>2, <2>4, <3>1 DEF TypeOK, LocalOK, queueVars, flagVars, mainVars
    <3>3. OnlyThread(w)
      BY <1>a, <2>1, <2>2, <2>4, ThreadsFact DEF LocalOK, OnlyThread, Goto, mainVars
    <3>4. RegistersOK(w)'
      BY <1>a, <2>1, <2>2, <2>4 DEF LocalOK, Goto, RegistersOK, EnqueueRegisters,
         WorkerRegisters, ProducerRegisters, EnqueuePCs, TokenPCs, FreePCs
    <3>5. QED
      BY <2>1, <3>2, <3>3, <3>4, FrameLemma
  <2>5. QED
    BY <1>32, <2>3, <2>4 DEF Reclaim
<1>33. ASSUME NEW w \in Workers, Retire(w)
       PROVE  TypeInv'
  <2>1. w \in Threads /\ w \notin Producers
    BY ThreadsFact, DispatchAssumption
  <2>2. RegistersOK(w)
    BY <1>a, <1>33, <2>1 DEF TypeInv
  <2>3. TypeOK'
    <3>1. LocalOK'
      BY <1>a, <1>33, <2>1, <2>2 DEF LocalOK, Retire, Goto, PCs, localVars
    <3>2. SharedOK'
      BY <1>a, <1>33, <2>1, <2>2 DEF SharedOK, Retire, actorVars, queueVars,
         flagVars, mainVars
    <3>3. QED
      BY <3>1, <3>2, TypeParts
  <2>4. OnlyThread(w)
    BY <1>a, <1>33, <2>1, <2>2, ThreadsFact DEF LocalOK, OnlyThread, Retire, Goto,
       localVars, mainVars
  <2>5. RegistersOK(w)'
    BY <1>a, <1>33, <2>1, <2>2 DEF LocalOK, Retire, Goto, RegistersOK,
       EnqueueRegisters, WorkerRegisters, ProducerRegisters, EnqueuePCs, TokenPCs,
       FreePCs, localVars
  <2>6. QED
    BY <2>1, <2>3, <2>4, <2>5, FrameLemma
<1>34. ASSUME NEW w \in Workers, Wake(w)
       PROVE  TypeInv'
  <2>1. w \in Threads /\ w \notin Producers
    BY ThreadsFact, DispatchAssumption
  <2>2. RegistersOK(w)
    BY <1>a, <1>34, <2>1 DEF TypeInv
  <2>3. sema' \in [Workers -> 0 .. MaxPermits]
    BY <1>a, <1>34, <2>1, <2>2, PermitFact DEF TypeOK, Wake
  <2>4. TypeOK'
    BY <1>a, <1>34, <2>1, <2>2, <2>3 DEF TypeOK, Wake, Goto, PCs, actorVars,
       queueVars, flagVars, localVars, mainVars
  <2>5. OnlyThread(w)
    BY <1>a, <1>34, <2>1, <2>2, <2>3, ThreadsFact DEF LocalOK, OnlyThread, Wake,
       Goto, localVars, mainVars
  <2>6. RegistersOK(w)'
    BY <1>a, <1>34, <2>1, <2>2, <2>3 DEF LocalOK, Wake, Goto, RegistersOK,
       EnqueueRegisters, WorkerRegisters, ProducerRegisters, EnqueuePCs, TokenPCs,
       FreePCs, localVars
  <2>7. QED
    BY <2>1, <2>4, <2>5, <2>6, FrameLemma
<1>35. ASSUME DispatcherStart
       PROVE  TypeInv'
  <2>1. TypeOK'
    BY <1>a, <1>35 DEF TypeOK, DispatcherStart, actorVars, queueVars, flagVars,
       localVars, mainVars
  <2>2. \A t \in Threads : RegistersOK(t)'
    BY <1>35 DEF TypeInv, DispatcherStart, RegistersOK, EnqueueRegisters,
       WorkerRegisters, ProducerRegisters, localVars
  <2>3. StartOK'
    BY <1>35 DEF TypeInv, DispatcherStart, StartOK, mainVars
  <2>4. QED
    BY <2>1, <2>2, <2>3 DEF TypeInv
<1>36. ASSUME WorkerStart
       PROVE  TypeInv'
  <2>1. next \in Workers /\ next \in Threads /\ next \notin Producers /\ pc[next] = "off"
    BY <1>a, <1>36, ThreadsFact, WorkersFact, DispatchAssumption
    DEF TypeInv, TypeOK, StartOK, WorkerStart
  <2>2. next' \in Workers
    BY <1>36, <2>1, WorkersFact DEF WorkerStart
  <2>3. TypeOK'
    BY <1>a, <1>36, <2>1, <2>2
    DEF TypeOK, WorkerStart, Goto, PCs, actorVars, queueVars, flagVars, localVars, mainVars
  <2>4. RegistersOK(next) /\ cur[next] = None
    BY <2>1 DEF TypeInv, RegistersOK, WorkerRegisters, FreePCs
  <2>5. pc' = [pc EXCEPT ![next] = "top"] /\ UNCHANGED localVars
    BY <1>36 DEF WorkerStart, Goto
  <2>6. ASSUME NEW t \in Threads PROVE RegistersOK(t)'
    <3>1. CASE t = next
      BY <1>a, <2>1, <2>4, <2>5, <3>1 DEF LocalOK, localVars, RegistersOK,
         EnqueueRegisters, WorkerRegisters, EnqueuePCs, TokenPCs, FreePCs
    <3>2. CASE t # next
      <4>1. pc'[t] = pc[t] /\ RegistersOK(t)
        BY <1>a, <2>1, <2>5, <3>2 DEF TypeInv, LocalOK
      <4>2. QED
        BY <2>5, <4>1 DEF localVars, RegistersOK, EnqueueRegisters, WorkerRegisters,
           ProducerRegisters
    <3>3. QED
      BY <3>1, <3>2
  <2>7. StartOK'
    <3>1. main' # "init"
      BY <1>36 DEF WorkerStart
    <3>2. SUFFICES ASSUME main' = "starting", NEW w \in Workers, w >= next'
                   PROVE  pc'[w] = "off"
      BY <3>1 DEF StartOK
    <3>3. next' = next + 1
      BY <1>36, <3>2 DEF WorkerStart
    <3>4. w \in Nat /\ next \in Nat
      BY <2>1, WorkersFact
    <3>5. w # next /\ w >= next
      BY <3>2, <3>3, <3>4
    <3>6. pc[w] = "off"
      BY <1>36, <3>5 DEF TypeInv, StartOK, WorkerStart
    <3>7. QED
      BY <1>a, <2>5, <3>5, <3>6, ThreadsFact DEF LocalOK
  <2>8. QED
    BY <2>3, <2>6, <2>7 DEF TypeInv
<1>37. ASSUME StopRunning
       PROVE  TypeInv'
  <2>1. TypeOK'
    BY <1>a, <1>37, DispatchAssumption DEF TypeOK, StopRunning, actorVars,
       queueVars, flagVars, localVars, mainVars
  <2>2. \A t \in Threads : RegistersOK(t)'
    BY <1>37 DEF TypeInv, StopRunning, RegistersOK, EnqueueRegisters,
       WorkerRegisters, ProducerRegisters, localVars
  <2>3. StartOK'
    BY <1>37 DEF TypeInv, StopRunning, StartOK, mainVars
  <2>4. QED
    BY <2>1, <2>2, <2>3 DEF TypeInv
<1>38. ASSUME RaiseDraining
       PROVE  TypeInv'
  <2>1. TypeOK'
    BY <1>a, <1>38 DEF TypeOK, RaiseDraining, actorVars, queueVars, flagVars,
       localVars, mainVars
  <2>2. \A t \in Threads : RegistersOK(t)'
    BY <1>38 DEF TypeInv, RaiseDraining, RegistersOK, EnqueueRegisters,
       WorkerRegisters, ProducerRegisters, localVars
  <2>3. StartOK'
    BY <1>38 DEF TypeInv, RaiseDraining, StartOK, mainVars
  <2>4. QED
    BY <2>1, <2>2, <2>3 DEF TypeInv
<1>39. ASSUME WakeAll
       PROVE  TypeInv'
  <2>1. sema' \in [Workers -> 0 .. MaxPermits]
    BY <1>a, <1>39, PermitFact, WorkersFact DEF TypeOK, WakeAll
  <2>2. TypeOK'
    BY <1>a, <1>39, <2>1 DEF TypeOK, WakeAll, actorVars, queueVars, flagVars,
       localVars, mainVars
  <2>3. \A t \in Threads : RegistersOK(t)'
    BY <1>39 DEF TypeInv, WakeAll, RegistersOK, EnqueueRegisters, WorkerRegisters,
       ProducerRegisters, localVars
  <2>4. StartOK'
    BY <1>39 DEF TypeInv, WakeAll, StartOK, mainVars
  <2>5. QED
    BY <2>2, <2>3, <2>4 DEF TypeInv
<1>40. ASSUME WorkerStop
       PROVE  TypeInv'
  <2>1. TypeOK'
    BY <1>a, <1>40 DEF TypeOK, WorkerStop, actorVars, queueVars, flagVars,
       localVars, mainVars
  <2>2. \A t \in Threads : RegistersOK(t)'
    BY <1>40 DEF TypeInv, WorkerStop, RegistersOK, EnqueueRegisters,
       WorkerRegisters, ProducerRegisters, localVars
  <2>3. StartOK'
    BY <1>40 DEF TypeInv, WorkerStop, StartOK, mainVars
  <2>4. QED
    BY <2>1, <2>2, <2>3 DEF TypeInv
<1>41. ASSUME WorkerJoin
       PROVE  TypeInv'
  <2>1. TypeOK'
    BY <1>a, <1>41, WorkersFact DEF TypeOK, WorkerJoin, actorVars, queueVars,
       flagVars, localVars, mainVars
  <2>2. \A t \in Threads : RegistersOK(t)'
    BY <1>41 DEF TypeInv, WorkerJoin, RegistersOK, EnqueueRegisters,
       WorkerRegisters, ProducerRegisters, localVars
  <2>3. StartOK'
    BY <1>41 DEF TypeInv, WorkerJoin, StartOK, mainVars
  <2>4. QED
    BY <2>1, <2>2, <2>3 DEF TypeInv
<1>42. ASSUME DispatcherStop
       PROVE  TypeInv'
  <2>1. sema' \in [Workers -> 0 .. MaxPermits]
    BY <1>a, <1>42, PermitFact, WorkersFact DEF TypeOK, DispatcherStop
  <2>2. pended' \in Seq(Actors)
    BY <1>a, <1>42, <2>1 DEF DispatcherStop
  <2>3. TypeOK'
    BY <1>a, <1>42, <2>1, <2>2 DEF TypeOK, DispatcherStop, actorVars, queueVars,
       flagVars, localVars, mainVars
  <2>4. \A t \in Threads : RegistersOK(t)'
    BY <1>42 DEF TypeInv, DispatcherStop, RegistersOK, EnqueueRegisters,
       WorkerRegisters, ProducerRegisters, localVars
  <2>5. StartOK'
    BY <1>42 DEF TypeInv, DispatcherStop, StartOK, mainVars
  <2>6. QED
    BY <2>3, <2>4, <2>5 DEF TypeInv
<1>43. CASE UNCHANGED vars
  <2>1. UNCHANGED <<actorVars, queueVars, flagVars, pc, localVars, mainVars, sent>>
    BY <1>43 DEF vars
  <2>2. TypeOK'
    BY <1>a, <2>1 DEF TypeOK, actorVars, queueVars, flagVars, localVars, mainVars
  <2>3. \A t \in Threads : RegistersOK(t)'
    BY <2>1 DEF TypeInv, localVars, RegistersOK, EnqueueRegisters, WorkerRegisters,
       ProducerRegisters
  <2>4. QED
    BY <2>1, <2>2, <2>3 DEF TypeInv, StartOK, mainVars
<1>44. ASSUME NEW w \in Workers, FailureCaught(w)
       PROVE  TypeInv'
  <2>1. w \in Threads /\ w \notin Producers
    BY ThreadsFact, DispatchAssumption
  <2>2. RegistersOK(w)
    BY <1>a, <1>44, <2>1 DEF TypeInv
  <2>3. TypeOK'
    <3>1. LocalOK'
      BY <1>a, <1>44, <2>1, <2>2 DEF LocalOK, FailureCaught, Goto, PCs, localVars
    <3>2. SharedOK'
      BY <1>a, <1>44, <2>1, <2>2 DEF SharedOK, FailureCaught, actorVars, queueVars,
         flagVars, mainVars
    <3>3. QED
      BY <3>1, <3>2, TypeParts
  <2>4. OnlyThread(w)
    BY <1>a, <1>44, <2>1, <2>2, ThreadsFact DEF LocalOK, OnlyThread, FailureCaught, Goto,
       localVars, mainVars
  <2>5. RegistersOK(w)'
    BY <1>a, <1>44, <2>1, <2>2 DEF LocalOK, FailureCaught, Goto, RegistersOK,
       EnqueueRegisters, WorkerRegisters, ProducerRegisters, EnqueuePCs, TokenPCs,
       FreePCs, localVars
  <2>6. QED
    BY <2>1, <2>3, <2>4, <2>5, FrameLemma
<1>45. QED
  BY <1>1, <1>2, <1>3, <1>4, <1>5, <1>6, <1>7, <1>8, <1>9, <1>10, <1>11, <1>12,
     <1>13, <1>14, <1>15, <1>16, <1>17, <1>18, <1>19, <1>20, <1>21, <1>22, <1>23,
     <1>24, <1>25, <1>26, <1>27, <1>28, <1>29, <1>30, <1>31, <1>32, <1>33, <1>34,
     <1>35, <1>36, <1>37, <1>38, <1>39, <1>40, <1>41, <1>42, <1>43, <1>44,
     ThreadsFact
  DEF Next, EnqueueStep, WorkerStep, AcquireStep, NullStep, RunStep, MainStep

\* Type correctness, for every number of workers, producers and actors and every
\* capacity: in particular a worker never pops an empty mailbox, and every
\* register names an actor or a worker when it is used as one.
THEOREM TypeCorrect == Spec => []TypeOK
<1>1. Spec => []TypeInv
  BY TypeInit, TypeStep, PTL DEF Spec
<1>2. TypeInv => TypeOK
  BY DEF TypeInv
<1>3. QED
  BY <1>1, <1>2, PTL

-----------------------------------------------------------------------------
(* Moving an actor into and out of a queue and the pended list             *)

QueueOK == queue \in [Workers -> Seq(Actors)]

\* Pushing an actor that is in no queue.
LEMMA QueueAppend ==
    ASSUME QueueOK, QueueDistinct, NEW v \in Workers, NEW a \in Actors, ~Queued(a),
           queue' = [queue EXCEPT ![v] = Append(@, a)]
    PROVE  QueueDistinct' /\ \A b \in Actors : Queued(b)' <=> Queued(b) \/ b = a
<1> DEFINE n == Len(queue[v])
<1>1. queue[v] \in Seq(Actors) /\ n \in Nat
  BY LenProperties DEF QueueOK
<1>2. /\ DOMAIN Append(queue[v], a) = 1 .. n + 1
      /\ \A i \in 1 .. n : Append(queue[v], a)[i] = queue[v][i]
      /\ Append(queue[v], a)[n + 1] = a
      /\ DOMAIN queue[v] = 1 .. n
  BY <1>1, AppendProperties, LenProperties
<1>3. /\ queue'[v] = Append(queue[v], a)
      /\ \A w \in Workers \ {v} : queue'[w] = queue[w]
  BY DEF QueueOK
<1> HIDE DEF n
<1>4. \A w \in Workers : \A i \in DOMAIN queue[w] :
        i \in DOMAIN queue'[w] /\ queue'[w][i] = queue[w][i]
  BY <1>1, <1>2, <1>3
<1>5. \A w \in Workers : \A i \in DOMAIN queue'[w] :
        \/ i \in DOMAIN queue[w] /\ queue'[w][i] = queue[w][i]
        \/ w = v /\ i = n + 1 /\ queue'[w][i] = a
  BY <1>1, <1>2, <1>3
<1>6. n + 1 \in DOMAIN queue'[v] /\ queue'[v][n + 1] = a
  BY <1>1, <1>2, <1>3
<1>7. \A w \in Workers : \A i \in DOMAIN queue[w] : queue[w][i] # a
  BY DEF Queued
<1>8. QueueDistinct'
  BY <1>5, <1>7 DEF QueueDistinct
<1>9. ASSUME NEW b \in Actors PROVE Queued(b)' <=> Queued(b) \/ b = a
  BY <1>4, <1>5, <1>6 DEF Queued
<1>10. QED
  BY <1>8, <1>9

\* Popping the head of a queue.
LEMMA QueueTail ==
    ASSUME QueueOK, QueueDistinct, NEW v \in Workers, queue[v] # <<>>,
           queue' = [queue EXCEPT ![v] = Tail(@)]
    PROVE  /\ QueueDistinct'
           /\ Queued(Head(queue[v]))
           /\ \A b \in Actors : Queued(b)' <=> Queued(b) /\ b # Head(queue[v])
<1> DEFINE n == Len(queue[v])
           h == Head(queue[v])
<1>1. queue[v] \in Seq(Actors) /\ n \in Nat /\ DOMAIN queue[v] = 1 .. n
  BY LenProperties DEF QueueOK
<1>2. /\ DOMAIN Tail(queue[v]) = 1 .. n - 1
      /\ \A i \in 1 .. n - 1 : Tail(queue[v])[i] = queue[v][i + 1]
      /\ h = queue[v][1] /\ n >= 1
  BY <1>1, HeadTailProperties, LenProperties, EmptySeq
<1>3. /\ queue'[v] = Tail(queue[v])
      /\ \A w \in Workers \ {v} : queue'[w] = queue[w]
  BY DEF QueueOK
<1>4. 1 \in DOMAIN queue[v]
  BY <1>1, <1>2
<1> HIDE DEF n, h
<1>a. /\ DOMAIN queue'[v] = 1 .. n - 1
      /\ \A i \in 1 .. n - 1 : queue'[v][i] = queue[v][i + 1]
  BY <1>2, <1>3
<1>5. ASSUME NEW i \in DOMAIN queue'[v]
      PROVE  /\ i \in Int /\ i >= 1
             /\ i + 1 \in DOMAIN queue[v] /\ queue'[v][i] = queue[v][i + 1]
  BY <1>1, <1>a
<1>6. ASSUME NEW i \in DOMAIN queue[v], i # 1
      PROVE  i - 1 \in DOMAIN queue'[v] /\ queue'[v][i - 1] = queue[v][i]
  <2>1. i \in 2 .. n
    BY <1>1, <1>6
  <2>2. i - 1 \in 1 .. n - 1 /\ (i - 1) + 1 = i
    BY <1>1, <2>1
  <2>3. QED
    BY <1>a, <2>2
<1>7. QueueDistinct'
  <2> SUFFICES ASSUME NEW x \in Workers, NEW y \in Workers,
                      NEW i \in DOMAIN queue'[x], NEW j \in DOMAIN queue'[y],
                      queue'[x][i] = queue'[y][j]
               PROVE  x = y /\ i = j
    BY DEF QueueDistinct
  <2>1. CASE x = v /\ y = v
    <3>1. i + 1 = j + 1 /\ i \in Int /\ j \in Int
      BY <2>1, <1>5 DEF QueueDistinct
    <3>2. QED
      BY <2>1, <3>1
  <2>2. CASE x = v /\ y # v
    BY <2>2, <1>3, <1>5 DEF QueueDistinct
  <2>3. CASE x # v /\ y = v
    BY <2>3, <1>3, <1>5 DEF QueueDistinct
  <2>4. CASE x # v /\ y # v
    BY <2>4, <1>3 DEF QueueDistinct
  <2>5. QED
    BY <2>1, <2>2, <2>3, <2>4
<1>8. ASSUME NEW b \in Actors PROVE Queued(b)' => Queued(b) /\ b # h
  <2> SUFFICES ASSUME NEW w \in Workers, NEW i \in DOMAIN queue'[w], queue'[w][i] = b
               PROVE  Queued(b) /\ b # h
    BY DEF Queued
  <2>1. CASE w = v
    <3>1. i + 1 \in DOMAIN queue[v] /\ queue[v][i + 1] = b /\ i + 1 # 1
      BY <2>1, <1>5
    <3>2. QED
      BY <3>1, <1>2, <1>4 DEF Queued, QueueDistinct
  <2>2. CASE w # v
    BY <2>2, <1>2, <1>3, <1>4 DEF Queued, QueueDistinct
  <2>3. QED
    BY <2>1, <2>2
<1>9. ASSUME NEW b \in Actors PROVE Queued(b) /\ b # h => Queued(b)'
  <2> SUFFICES ASSUME NEW w \in Workers, NEW i \in DOMAIN queue[w], queue[w][i] = b, b # h
               PROVE  Queued(b)'
    BY DEF Queued
  <2>1. CASE w = v
    <3>1. i # 1
      BY <2>1, <1>2
    <3>2. QED
      BY <2>1, <3>1, <1>6 DEF Queued
  <2>2. CASE w # v
    BY <2>2, <1>3 DEF Queued
  <2>3. QED
    BY <2>1, <2>2
<1>10. Queued(h)
  BY <1>2, <1>4 DEF Queued
<1>11. QED
  BY <1>7, <1>8, <1>9, <1>10 DEF h

\* Putting an actor on the pended list.
LEMMA PendedAppend ==
    ASSUME pended \in Seq(Actors), PendedDistinct, NEW a \in Actors, ~Pended(a),
           pended' = Append(pended, a)
    PROVE  PendedDistinct' /\ \A b \in Actors : Pended(b)' <=> Pended(b) \/ b = a
<1> DEFINE n == Len(pended)
<1>1. /\ n \in Nat
      /\ DOMAIN pended = 1 .. n
      /\ DOMAIN pended' = 1 .. n + 1
      /\ \A i \in 1 .. n : pended'[i] = pended[i]
      /\ pended'[n + 1] = a
  BY AppendProperties, LenProperties
<1> HIDE DEF n
<1>2. \A i \in DOMAIN pended : i \in DOMAIN pended' /\ pended'[i] = pended[i]
  BY <1>1
<1>3. \A i \in DOMAIN pended' :
        \/ i \in DOMAIN pended /\ pended'[i] = pended[i]
        \/ i = n + 1 /\ pended'[i] = a
  BY <1>1
<1>4. n + 1 \in DOMAIN pended'
  BY <1>1
<1>5. \A i \in DOMAIN pended : pended[i] # a
  BY DEF Pended
<1>6. PendedDistinct'
  BY <1>3, <1>5 DEF PendedDistinct
<1>7. ASSUME NEW b \in Actors PROVE Pended(b)' <=> Pended(b) \/ b = a
  BY <1>1, <1>2, <1>3, <1>4 DEF Pended
<1>8. QED
  BY <1>6, <1>7

\* Erasing an entry of the pended list.
LEMMA PendedRemove ==
    ASSUME pended \in Seq(Actors), PendedDistinct, NEW k \in 1 .. Len(pended),
           pended' = RemoveAt(pended, k)
    PROVE  /\ PendedDistinct'
           /\ Pended(pended[k])
           /\ \A b \in Actors : Pended(b)' <=> Pended(b) /\ b # pended[k]
<1> DEFINE n == Len(pended)
<1>1. /\ n \in Nat /\ k \in 1 .. n
      /\ DOMAIN pended = 1 .. n
      /\ DOMAIN pended' = 1 .. n - 1
      /\ \A j \in 1 .. n - 1 : pended'[j] = IF j < k THEN pended[j] ELSE pended[j + 1]
  BY RemoveAtFact, LenProperties
<1> HIDE DEF n
<1>2. \A j \in DOMAIN pended' :
        \E i \in DOMAIN pended : /\ i # k
                                 /\ i = (IF j < k THEN j ELSE j + 1)
                                 /\ pended'[j] = pended[i]
  BY <1>1
<1>3. \A i \in DOMAIN pended : i # k => \E j \in DOMAIN pended' : pended'[j] = pended[i]
  <2> SUFFICES ASSUME NEW i \in DOMAIN pended, i # k
               PROVE  \E j \in DOMAIN pended' : pended'[j] = pended[i]
    OBVIOUS
  <2>1. CASE i < k
    BY <2>1, <1>1
  <2>2. CASE i > k
    <3>1. i - 1 \in DOMAIN pended' /\ pended'[i - 1] = pended[i]
      BY <2>2, <1>1
    <3>2. QED
      BY <3>1
  <2>3. QED
    BY <1>1, <2>1, <2>2
<1>4. ASSUME NEW i \in DOMAIN pended', NEW j \in DOMAIN pended', pended'[i] = pended'[j]
      PROVE  i = j
  <2>1. (IF i < k THEN i ELSE i + 1) = (IF j < k THEN j ELSE j + 1)
    BY <1>2, <1>4 DEF PendedDistinct
  <2>2. QED
    BY <1>1, <2>1
<1>5. PendedDistinct'
  BY <1>4 DEF PendedDistinct
<1>6. ASSUME NEW b \in Actors PROVE Pended(b)' <=> Pended(b) /\ b # pended[k]
  BY <1>1, <1>2, <1>3 DEF Pended, PendedDistinct
<1>7. Pended(pended[k])
  BY <1>1 DEF Pended
<1>8. QED
  BY <1>5, <1>6, <1>7

-----------------------------------------------------------------------------
(* Steps that leave a place of the token alone                             *)

Tokens == TokenUnique /\ TokenNotLost

SameClaims ==
    \A t \in Threads : (Claims(t)' <=> Claims(t)) /\ (Claims(t) => tgt'[t] = tgt[t])

SameExecutes ==
    \A w \in Workers : (Executes(w)' <=> Executes(w)) /\ (Executes(w) => cur'[w] = cur[w])

\* Nobody claims or gives up a claim.
LEMMA ClaimsFrame ==
    ASSUME SameClaims, ClaimDistinct
    PROVE  ClaimDistinct' /\ \A a \in Actors : Claimed(a)' <=> Claimed(a)
<1>1. ClaimDistinct'
  BY DEF SameClaims, ClaimDistinct
<1>2. ASSUME NEW a \in Actors PROVE Claimed(a)' <=> Claimed(a)
  BY DEF SameClaims, Claimed
<1>3. QED
  BY <1>1, <1>2

\* No worker begins or ends an execution.
LEMMA ExecutesFrame ==
    ASSUME SameExecutes, ExecuteDistinct
    PROVE  ExecuteDistinct' /\ \A a \in Actors : Executed(a)' <=> Executed(a)
<1>1. ExecuteDistinct'
  BY DEF SameExecutes, ExecuteDistinct
<1>2. ASSUME NEW a \in Actors PROVE Executed(a)' <=> Executed(a)
  BY DEF SameExecutes, Executed
<1>3. QED
  BY <1>1, <1>2

\* The worker queues are left alone.
LEMMA QueueFrame ==
    ASSUME UNCHANGED queue, QueueDistinct
    PROVE  QueueDistinct' /\ \A a \in Actors : Queued(a)' <=> Queued(a)
BY DEF QueueDistinct, Queued

\* The pended list is left alone.
LEMMA PendedFrame ==
    ASSUME UNCHANGED pended, PendedDistinct
    PROVE  PendedDistinct' /\ \A a \in Actors : Pended(a)' <=> Pended(a)
BY DEF PendedDistinct, Pended

\* A step that moves no token.
LEMMA TokenFrame ==
    ASSUME Tokens, UNCHANGED <<queue, pended, held>>, SameClaims, SameExecutes,
           main = "stopped" => main' = "stopped"
    PROVE  Tokens'
<1>1. TokenUnique'
  BY ClaimsFrame, ExecutesFrame, QueueFrame, PendedFrame
  DEF Tokens, TokenUnique, PlacesDisjoint, HeldIfLive
<1>2. TokenNotLost'
  BY ClaimsFrame, ExecutesFrame, QueueFrame, PendedFrame
  DEF Tokens, TokenUnique, TokenNotLost
<1>3. QED
  BY <1>1, <1>2 DEF Tokens

-----------------------------------------------------------------------------
(* Steps that move a token                                                 *)

OtherClaimsSame(t) ==
    \A s \in Threads \ {t} :
        (Claims(s)' <=> Claims(s)) /\ (Claims(s) => tgt'[s] = tgt[s])

\* The winner of the in-flight slot creates the token.
LEMMA ClaimToken ==
    ASSUME Tokens, held \in [Actors -> BOOLEAN],
           NEW t \in Threads, NEW a \in Actors, ~held[a],
           held' = [held EXCEPT ![a] = TRUE], UNCHANGED <<queue, pended, main>>,
           Claims(t)', tgt'[t] = a, ~Claims(t), OtherClaimsSame(t), SameExecutes
    PROVE  Tokens'
<1>1. ~Queued(a) /\ ~Pended(a) /\ ~Claimed(a) /\ ~Executed(a)
  BY DEF Tokens, TokenUnique, HeldIfLive
<1>2. ClaimDistinct'
  BY <1>1 DEF Tokens, TokenUnique, ClaimDistinct, Claimed, OtherClaimsSame
<1>3. \A b \in Actors : Claimed(b)' <=> Claimed(b) \/ b = a
  BY DEF Claimed, OtherClaimsSame
<1>4. /\ ExecuteDistinct' /\ QueueDistinct' /\ PendedDistinct'
      /\ \A b \in Actors : Executed(b)' <=> Executed(b)
      /\ \A b \in Actors : Queued(b)' <=> Queued(b)
      /\ \A b \in Actors : Pended(b)' <=> Pended(b)
  BY ExecutesFrame, QueueFrame, PendedFrame DEF Tokens, TokenUnique
<1>5. \A b \in Actors : held'[b] <=> held[b] \/ b = a
  BY Zenon
<1>6. PlacesDisjoint'
  BY <1>1, <1>3, <1>4 DEF Tokens, TokenUnique, PlacesDisjoint
<1>7. HeldIfLive'
  BY <1>3, <1>4, <1>5 DEF Tokens, TokenUnique, HeldIfLive
<1>8. TokenNotLost'
  BY <1>3, <1>4, <1>5 DEF Tokens, TokenNotLost
<1>9. QED
  BY <1>2, <1>4, <1>6, <1>7, <1>8 DEF Tokens, TokenUnique

\* A thread gives up the token it claimed.
LEMMA UnclaimFact ==
    ASSUME TokenUnique, NEW t \in Threads, Claims(t), ~Claims(t)', OtherClaimsSame(t)
    PROVE  /\ ClaimDistinct'
           /\ \A b \in Actors : Claimed(b)' <=> Claimed(b) /\ b # tgt[t]
<1>1. ClaimDistinct'
  BY DEF TokenUnique, ClaimDistinct, OtherClaimsSame
<1>2. ASSUME NEW b \in Actors PROVE Claimed(b)' <=> Claimed(b) /\ b # tgt[t]
  BY DEF TokenUnique, ClaimDistinct, Claimed, OtherClaimsSame
<1>3. QED
  BY <1>1, <1>2

\* ... into a worker queue ...
LEMMA PushToken ==
    ASSUME Tokens, QueueOK, NEW t \in Threads, NEW v \in Workers, tgt[t] \in Actors,
           Claims(t), ~Claims(t)', OtherClaimsSame(t), SameExecutes,
           queue' = [queue EXCEPT ![v] = Append(@, tgt[t])],
           UNCHANGED <<pended, held, main>>
    PROVE  Tokens'
<1>1. Claimed(tgt[t]) /\ ~Queued(tgt[t]) /\ ~Pended(tgt[t]) /\ ~Executed(tgt[t])
  BY DEF Tokens, TokenUnique, PlacesDisjoint, Claimed
<1>2. /\ ClaimDistinct'
      /\ \A b \in Actors : Claimed(b)' <=> Claimed(b) /\ b # tgt[t]
  BY UnclaimFact DEF Tokens
<1>3. QueueDistinct' /\ \A b \in Actors : Queued(b)' <=> Queued(b) \/ b = tgt[t]
  BY <1>1, QueueAppend DEF Tokens, TokenUnique
<1>4. /\ ExecuteDistinct' /\ PendedDistinct'
      /\ \A b \in Actors : Executed(b)' <=> Executed(b)
      /\ \A b \in Actors : Pended(b)' <=> Pended(b)
  BY ExecutesFrame, PendedFrame DEF Tokens, TokenUnique
<1>5. PlacesDisjoint'
  BY <1>1, <1>2, <1>3, <1>4 DEF Tokens, TokenUnique, PlacesDisjoint
<1>6. HeldIfLive'
  BY <1>1, <1>2, <1>3, <1>4 DEF Tokens, TokenUnique, HeldIfLive
<1>7. TokenNotLost'
  BY <1>1, <1>2, <1>3, <1>4 DEF Tokens, TokenNotLost
<1>8. QED
  BY <1>2, <1>3, <1>4, <1>5, <1>6, <1>7 DEF Tokens, TokenUnique

\* ... or onto the pended list.
LEMMA PendToken ==
    ASSUME Tokens, pended \in Seq(Actors), NEW t \in Threads, tgt[t] \in Actors,
           Claims(t), ~Claims(t)', OtherClaimsSame(t), SameExecutes,
           pended' = Append(pended, tgt[t]), UNCHANGED <<queue, held, main>>
    PROVE  Tokens'
<1>1. Claimed(tgt[t]) /\ ~Queued(tgt[t]) /\ ~Pended(tgt[t]) /\ ~Executed(tgt[t])
  BY DEF Tokens, TokenUnique, PlacesDisjoint, Claimed
<1>2. /\ ClaimDistinct'
      /\ \A b \in Actors : Claimed(b)' <=> Claimed(b) /\ b # tgt[t]
  BY UnclaimFact DEF Tokens
<1>3. PendedDistinct' /\ \A b \in Actors : Pended(b)' <=> Pended(b) \/ b = tgt[t]
  BY <1>1, PendedAppend DEF Tokens, TokenUnique
<1>4. /\ ExecuteDistinct' /\ QueueDistinct'
      /\ \A b \in Actors : Executed(b)' <=> Executed(b)
      /\ \A b \in Actors : Queued(b)' <=> Queued(b)
  BY ExecutesFrame, QueueFrame DEF Tokens, TokenUnique
<1>5. PlacesDisjoint'
  BY <1>1, <1>2, <1>3, <1>4 DEF Tokens, TokenUnique, PlacesDisjoint
<1>6. HeldIfLive'
  BY <1>1, <1>2, <1>3, <1>4 DEF Tokens, TokenUnique, HeldIfLive
<1>7. TokenNotLost'
  BY <1>1, <1>2, <1>3, <1>4 DEF Tokens, TokenNotLost
<1>8. QED
  BY <1>2, <1>3, <1>4, <1>5, <1>6, <1>7 DEF Tokens, TokenUnique

\* A worker pops a token from its own queue or another's.
LEMMA TakeToken ==
    ASSUME TypeInv, Tokens, NEW w \in Workers, NEW v \in Workers,
           NEW l \in {"run", "permit"}, pc[w] \in FreePCs \ {"off"}, Take(w, v, l),
           UNCHANGED <<actorVars, pended, mainVars>>
    PROVE  Tokens'
<1> DEFINE h == Head(queue[v])
<1>1. LocalOK /\ QueueOK /\ w \in Threads /\ cur[w] = None
  BY ThreadsFact DEF TypeInv, TypeOK, LocalOK, QueueOK, RegistersOK, WorkerRegisters
<1>2. h \in Actors /\ queue[v] # <<>>
  BY <1>1, HeadTailProperties DEF QueueOK, Take
<1>3. /\ pc'[w] = l /\ cur'[w] = h
      /\ \A s \in Threads \ {w} : pc'[s] = pc[s]
      /\ \A s \in Workers \ {w} : cur'[s] = cur[s]
      /\ UNCHANGED <<tgt, held, pended, main>>
  BY <1>1 DEF LocalOK, Take, Goto, actorVars, mainVars
<1>4. /\ QueueDistinct' /\ Queued(h)
      /\ \A b \in Actors : Queued(b)' <=> Queued(b) /\ b # h
  BY <1>1, <1>2, QueueTail DEF Take, Tokens, TokenUnique
<1> HIDE DEF h
<1>5. ~Pended(h) /\ ~Claimed(h) /\ ~Executed(h)
  BY <1>2, <1>4 DEF Tokens, TokenUnique, PlacesDisjoint
<1>6. SameClaims
  BY <1>3 DEF SameClaims, Claims, FreePCs
<1>7. ~Executes(w) /\ Executes(w)' /\ \A s \in Workers \ {w} : Executes(s)' <=> Executes(s)
  BY <1>1, <1>2, <1>3, ThreadsFact, DispatchAssumption DEF Executes
<1>8. ExecuteDistinct'
  BY <1>3, <1>5, <1>7 DEF Tokens, TokenUnique, ExecuteDistinct, Executed
<1>9. \A b \in Actors : Executed(b)' <=> Executed(b) \/ b = h
  BY <1>3, <1>7 DEF Executed
<1>10. /\ ClaimDistinct' /\ PendedDistinct'
       /\ \A b \in Actors : Claimed(b)' <=> Claimed(b)
       /\ \A b \in Actors : Pended(b)' <=> Pended(b)
  BY <1>3, <1>6, ClaimsFrame, PendedFrame DEF Tokens, TokenUnique
<1>11. PlacesDisjoint'
  BY <1>4, <1>5, <1>9, <1>10 DEF Tokens, TokenUnique, PlacesDisjoint
<1>12. HeldIfLive'
  BY <1>2, <1>3, <1>4, <1>9, <1>10 DEF Tokens, TokenUnique, HeldIfLive
<1>13. TokenNotLost'
  BY <1>3, <1>4, <1>9, <1>10 DEF Tokens, TokenNotLost
<1>14. QED
  BY <1>4, <1>8, <1>10, <1>11, <1>12, <1>13 DEF Tokens, TokenUnique

\* drainPendedActor moves a token from the pended list to a queue.
LEMMA RetryToken ==
    ASSUME Tokens, QueueOK, pended \in Seq(Actors), NEW k \in 1 .. Len(pended),
           NEW v \in Workers, SameClaims, SameExecutes,
           queue' = [queue EXCEPT ![v] = Append(@, pended[k])],
           pended' = RemoveAt(pended, k), UNCHANGED <<held, main>>
    PROVE  Tokens'
<1> DEFINE a == pended[k]
<1>1. a \in Actors
  BY LenProperties
<1>2. /\ PendedDistinct' /\ Pended(a)
      /\ \A b \in Actors : Pended(b)' <=> Pended(b) /\ b # a
  BY PendedRemove DEF Tokens, TokenUnique
<1>3. ~Queued(a) /\ ~Claimed(a) /\ ~Executed(a)
  BY <1>1, <1>2 DEF Tokens, TokenUnique, PlacesDisjoint
<1>4. QueueDistinct' /\ \A b \in Actors : Queued(b)' <=> Queued(b) \/ b = a
  BY <1>1, <1>3, QueueAppend DEF Tokens, TokenUnique
<1> HIDE DEF a
<1>5. /\ ClaimDistinct' /\ ExecuteDistinct'
      /\ \A b \in Actors : Claimed(b)' <=> Claimed(b)
      /\ \A b \in Actors : Executed(b)' <=> Executed(b)
  BY ClaimsFrame, ExecutesFrame DEF Tokens, TokenUnique
<1>6. PlacesDisjoint'
  BY <1>2, <1>3, <1>4, <1>5 DEF Tokens, TokenUnique, PlacesDisjoint
<1>7. HeldIfLive'
  BY <1>1, <1>2, <1>4, <1>5 DEF Tokens, TokenUnique, HeldIfLive
<1>8. TokenNotLost'
  BY <1>2, <1>4, <1>5 DEF Tokens, TokenNotLost
<1>9. QED
  BY <1>2, <1>4, <1>5, <1>6, <1>7, <1>8 DEF Tokens, TokenUnique

\* settleToken gives the token up.
LEMMA ReleaseToken ==
    ASSUME TypeInv, Tokens, NEW w \in Workers, ReleaseInFlight(w)
    PROVE  Tokens'
<1> DEFINE a == cur[w]
<1>1. LocalOK /\ w \in Threads /\ a \in Actors /\ held \in [Actors -> BOOLEAN]
  BY ThreadsFact
  DEF TypeInv, TypeOK, LocalOK, RegistersOK, WorkerRegisters, TokenPCs, ReleaseInFlight
<1>2. /\ pc[w] = "release" /\ pc'[w] = "recheck"
      /\ \A s \in Threads \ {w} : pc'[s] = pc[s]
      /\ held' = [held EXCEPT ![a] = FALSE]
      /\ UNCHANGED <<queue, pended, cur, tgt, main>>
  BY <1>1 DEF LocalOK, ReleaseInFlight, Goto, queueVars, mainVars
<1>3. Executes(w) /\ ~Executes(w)' /\ \A s \in Workers \ {w} : Executes(s)' <=> Executes(s)
  BY <1>1, <1>2, ThreadsFact, DispatchAssumption DEF Executes
<1>4. Executed(a) /\ ~Queued(a) /\ ~Pended(a) /\ ~Claimed(a)
  BY <1>1, <1>3 DEF Tokens, TokenUnique, PlacesDisjoint, Executed
<1>5. \A b \in Actors : held'[b] <=> held[b] /\ b # a
  BY <1>1, <1>2, Zenon
<1>6. ExecuteDistinct'
  BY <1>2, <1>3 DEF Tokens, TokenUnique, ExecuteDistinct
<1>7. \A b \in Actors : Executed(b)' <=> Executed(b) /\ b # a
  BY <1>2, <1>3 DEF Tokens, TokenUnique, ExecuteDistinct, Executed
<1> HIDE DEF a
<1>8. SameClaims
  BY <1>2 DEF SameClaims, Claims
<1>9. /\ ClaimDistinct' /\ PendedDistinct' /\ QueueDistinct'
      /\ \A b \in Actors : Claimed(b)' <=> Claimed(b)
      /\ \A b \in Actors : Pended(b)' <=> Pended(b)
      /\ \A b \in Actors : Queued(b)' <=> Queued(b)
  BY <1>2, <1>8, ClaimsFrame, PendedFrame, QueueFrame DEF Tokens, TokenUnique
<1>10. PlacesDisjoint'
  BY <1>4, <1>7, <1>9 DEF Tokens, TokenUnique, PlacesDisjoint
<1>11. HeldIfLive'
  BY <1>4, <1>5, <1>7, <1>9 DEF Tokens, TokenUnique, HeldIfLive
<1>12. TokenNotLost'
  BY <1>2, <1>5, <1>7, <1>9 DEF Tokens, TokenNotLost
<1>13. QED
  BY <1>6, <1>9, <1>10, <1>11, <1>12 DEF Tokens, TokenUnique

-----------------------------------------------------------------------------
(* At most one token per actor, and none lost                              *)

\* Initially there are no tokens.
LEMMA TokensInit == Init => Tokens
<1> SUFFICES ASSUME Init PROVE Tokens
  OBVIOUS
<1>1. \A a \in Actors : ~Queued(a) /\ ~Pended(a)
  BY DEF Init, Queued, Pended
<1>2. \A t \in Threads : ~Claims(t)
  BY DEF Init, Claims
<1>3. \A w \in Workers : ~Executes(w)
  BY DEF Init, Executes
<1>4. QueueDistinct /\ PendedDistinct
  BY DEF Init, QueueDistinct, PendedDistinct
<1>5. TokenUnique
  BY <1>1, <1>2, <1>3, <1>4 DEF TokenUnique, ClaimDistinct, ExecuteDistinct,
     PlacesDisjoint, HeldIfLive, Claimed, Executed
<1>6. TokenNotLost
  BY DEF Init, TokenNotLost
<1>7. QED
  BY <1>5, <1>6 DEF Tokens

\* Every step keeps at most one token per actor and loses none.
LEMMA TokensStep == TypeInv /\ Tokens /\ [Next]_vars => Tokens'
<1> SUFFICES ASSUME TypeInv, Tokens, [Next]_vars PROVE Tokens'
  OBVIOUS
<1>a. TypeOK /\ LocalOK /\ QueueOK
  BY DEF TypeInv, TypeOK, LocalOK, QueueOK
<1>1. ASSUME NEW t \in Threads, NEW a \in Actors, Enqueue(t, a)
       PROVE  Tokens'
  <2>1. SameClaims
    BY <1>a, <1>1 DEF LocalOK, SameClaims, Claims, Enqueue, Goto, MaySend, localVars
  <2>2. SameExecutes
    BY <1>a, <1>1, ThreadsFact DEF LocalOK, SameExecutes, Executes, Enqueue, Goto,
       MaySend, localVars
  <2>3. QED
    BY <1>1, <2>1, <2>2, TokenFrame DEF Enqueue, actorVars, queueVars, mainVars
<1>2. ASSUME NEW t \in Threads, NEW a \in Actors, EnqueueDrop(t, a)
       PROVE  Tokens'
  <2>1. SameClaims
    BY <1>a, <1>2 DEF LocalOK, SameClaims, Claims, EnqueueDrop, localVars
  <2>2. SameExecutes
    BY <1>a, <1>2, ThreadsFact DEF LocalOK, SameExecutes, Executes, EnqueueDrop,
       localVars
  <2>3. QED
    BY <1>2, <2>1, <2>2, TokenFrame DEF EnqueueDrop, actorVars, queueVars, mainVars
<1>3. ASSUME NEW t \in Threads, Publish(t)
       PROVE  Tokens'
  <2>1. SameClaims
    BY <1>a, <1>3 DEF LocalOK, SameClaims, Claims, Publish, Goto, localVars
  <2>2. SameExecutes
    BY <1>a, <1>3, ThreadsFact DEF LocalOK, SameExecutes, Executes, Publish, Goto,
       localVars
  <2>3. QED
    BY <1>3, <2>1, <2>2, TokenFrame DEF Publish, actorVars, queueVars, mainVars
<1>4. ASSUME NEW t \in Threads, Dispatch(t)
       PROVE  Tokens'
  <2>1. pc[t] = "dispatch" /\ UNCHANGED <<queueVars, mainVars>> /\ tgt[t] \in Actors
    BY <1>4 DEF Dispatch, TypeInv, RegistersOK, EnqueueRegisters, EnqueuePCs, mainVars
  <2>2. CASE Return(t) /\ UNCHANGED held
    <3>1. SameClaims
      BY <1>a, <2>1, <2>2 DEF LocalOK, SameClaims, Claims, Return
    <3>2. SameExecutes
      BY <1>a, <2>1, <2>2, ThreadsFact DEF LocalOK, SameExecutes, Executes, Return
    <3>3. QED
      BY <2>1, <2>2, <3>1, <3>2, TokenFrame DEF queueVars, mainVars
  <2>3. CASE /\ ~held[tgt[t]]
             /\ held' = [held EXCEPT ![tgt[t]] = TRUE]
             /\ Goto(t, "route")
             /\ UNCHANGED localVars
    <3>1. ~Claims(t) /\ Claims(t)' /\ OtherClaimsSame(t) /\ tgt'[t] = tgt[t]
      BY <1>a, <2>1, <2>3 DEF LocalOK, Goto, localVars, Claims, OtherClaimsSame
    <3>2. SameExecutes
      BY <1>a, <2>1, <2>3, ThreadsFact DEF LocalOK, Goto, localVars, SameExecutes, Executes
    <3>3. QED
      BY <1>a, <2>1, <2>3, <3>1, <3>2, ClaimToken DEF TypeOK, queueVars, mainVars
  <2>4. QED
    BY <1>4, <2>2, <2>3 DEF Dispatch
<1>5. ASSUME NEW t \in Threads, Route(t)
       PROVE  Tokens'
  <2>1. SameClaims
    BY <1>a, <1>5 DEF LocalOK, SameClaims, Claims, Route, Goto, localVars
  <2>2. SameExecutes
    BY <1>a, <1>5, ThreadsFact DEF LocalOK, SameExecutes, Executes, Route, Goto,
       localVars
  <2>3. QED
    BY <1>5, <2>1, <2>2, TokenFrame DEF Route, actorVars, queueVars, mainVars
<1>6. ASSUME NEW t \in Threads, Push(t)
       PROVE  Tokens'
  <2>1. /\ pc[t] = "push" /\ Goto(t, "signal") /\ UNCHANGED localVars
        /\ UNCHANGED <<pended, held, main>>
        /\ queue' = [queue EXCEPT ![dst[t]] = Append(@, tgt[t])]
        /\ tgt[t] \in Actors /\ dst[t] \in Workers
    BY <1>6 DEF Push, TypeInv, RegistersOK, EnqueueRegisters, EnqueuePCs, actorVars, mainVars
  <2>2. Claims(t) /\ ~Claims(t)' /\ OtherClaimsSame(t)
    BY <1>a, <2>1 DEF LocalOK, Goto, localVars, Claims, OtherClaimsSame
  <2>3. SameExecutes
    BY <1>a, <2>1, ThreadsFact DEF LocalOK, Goto, localVars, SameExecutes, Executes
  <2>4. QED
    BY <1>a, <2>1, <2>2, <2>3, PushToken
<1>7. ASSUME NEW t \in Threads, PushFail(t)
       PROVE  Tokens'
  <2>1. SameClaims
    BY <1>a, <1>7 DEF LocalOK, SameClaims, Claims, PushFail, Goto, localVars
  <2>2. SameExecutes
    BY <1>a, <1>7, ThreadsFact DEF LocalOK, SameExecutes, Executes, PushFail, Goto,
       localVars
  <2>3. QED
    BY <1>7, <2>1, <2>2, TokenFrame DEF PushFail, actorVars, queueVars, mainVars
<1>8. ASSUME NEW t \in Threads, Pend(t)
       PROVE  Tokens'
  <2>1. /\ pc[t] = "pend" /\ Return(t) /\ UNCHANGED <<queue, held, main>>
        /\ pended' = Append(pended, tgt[t]) /\ tgt[t] \in Actors
    BY <1>8 DEF Pend, TypeInv, RegistersOK, EnqueueRegisters, EnqueuePCs, actorVars, mainVars
  <2>2. Claims(t) /\ ~Claims(t)' /\ OtherClaimsSame(t)
    BY <1>a, <2>1 DEF LocalOK, Return, Claims, OtherClaimsSame
  <2>3. SameExecutes
    BY <1>a, <2>1, ThreadsFact DEF LocalOK, Return, SameExecutes, Executes
  <2>4. QED
    BY <1>a, <2>1, <2>2, <2>3, PendToken DEF TypeOK
<1>9. ASSUME NEW t \in Threads, Signal(t)
       PROVE  Tokens'
  <2>1. SameClaims
    BY <1>a, <1>9 DEF LocalOK, SameClaims, Claims, Signal, Goto, Return, localVars
  <2>2. SameExecutes
    BY <1>a, <1>9, ThreadsFact DEF LocalOK, SameExecutes, Executes, Signal, Goto,
       Return, localVars
  <2>3. QED
    BY <1>9, <2>1, <2>2, TokenFrame DEF Signal, actorVars, queueVars, mainVars
<1>10. ASSUME NEW t \in Threads, Count(t)
       PROVE  Tokens'
  <2>1. SameClaims
    BY <1>a, <1>10 DEF LocalOK, SameClaims, Claims, Count, Goto, Return, localVars
  <2>2. SameExecutes
    BY <1>a, <1>10, ThreadsFact DEF LocalOK, SameExecutes, Executes, Count, Goto,
       Return, localVars
  <2>3. QED
    BY <1>10, <2>1, <2>2, TokenFrame DEF Count, actorVars, queueVars, mainVars
<1>11. ASSUME NEW w \in Workers, Top(w)
       PROVE  Tokens'
  <2>1. pc[w] \in FreePCs \ {"off"} /\ UNCHANGED <<actorVars, pended, mainVars>>
    BY <1>11 DEF Top, FreePCs
  <2>2. CASE Take(w, w, "run")
    BY <2>1, <2>2, TakeToken
  <2>3. ASSUME NEW l \in {"loop", "done", "park"}, Goto(w, l), UNCHANGED <<queue, localVars>>
        PROVE  Tokens'
    <3>1. SameClaims
      BY <1>a, <2>1, <2>3 DEF LocalOK, Goto, SameClaims, Claims, FreePCs, localVars
    <3>2. SameExecutes
      BY <1>a, <2>1, <2>3, ThreadsFact
      DEF LocalOK, Goto, SameExecutes, Executes, FreePCs, localVars
    <3>3. QED
      BY <2>1, <2>3, <3>1, <3>2, TokenFrame DEF actorVars, mainVars
  <2>4. QED
    BY <1>11, <2>2, <2>3 DEF Top, TakeNothing
<1>12. ASSUME NEW w \in Workers, Loop(w)
       PROVE  Tokens'
  <2>1. SameClaims
    BY <1>a, <1>12, ThreadsFact DEF LocalOK, SameClaims, Claims, Loop, Goto,
       localVars
  <2>2. SameExecutes
    BY <1>a, <1>12, ThreadsFact DEF LocalOK, SameExecutes, Executes, Loop, Goto,
       localVars
  <2>3. QED
    BY <1>12, <2>1, <2>2, TokenFrame DEF Loop, actorVars, queueVars, mainVars
<1>13. ASSUME NEW w \in Workers, Spin(w)
       PROVE  Tokens'
  <2>1. pc[w] \in FreePCs \ {"off"} /\ UNCHANGED <<actorVars, pended, mainVars>>
    BY <1>13 DEF Spin, FreePCs
  <2>2. CASE Take(w, w, "run")
    BY <2>1, <2>2, TakeToken
  <2>3. ASSUME NEW l \in {"loop", "done", "park"}, Goto(w, l), UNCHANGED <<queue, localVars>>
        PROVE  Tokens'
    <3>1. SameClaims
      BY <1>a, <2>1, <2>3 DEF LocalOK, Goto, SameClaims, Claims, FreePCs, localVars
    <3>2. SameExecutes
      BY <1>a, <2>1, <2>3, ThreadsFact
      DEF LocalOK, Goto, SameExecutes, Executes, FreePCs, localVars
    <3>3. QED
      BY <2>1, <2>3, <3>1, <3>2, TokenFrame DEF actorVars, mainVars
  <2>4. QED
    BY <1>13, <2>2, <2>3 DEF Spin, TakeNothing
<1>14. ASSUME NEW w \in Workers, ParkWake(w)
       PROVE  Tokens'
  <2>1. SameClaims
    BY <1>a, <1>14, ThreadsFact DEF LocalOK, SameClaims, Claims, ParkWake, Goto,
       localVars
  <2>2. SameExecutes
    BY <1>a, <1>14, ThreadsFact DEF LocalOK, SameExecutes, Executes, ParkWake, Goto,
       localVars
  <2>3. QED
    BY <1>14, <2>1, <2>2, TokenFrame DEF ParkWake, actorVars, queueVars, mainVars
<1>15. ASSUME NEW w \in Workers, ParkTimeout(w)
       PROVE  Tokens'
  <2>1. SameClaims
    BY <1>a, <1>15, ThreadsFact DEF LocalOK, SameClaims, Claims, ParkTimeout, Goto,
       localVars
  <2>2. SameExecutes
    BY <1>a, <1>15, ThreadsFact DEF LocalOK, SameExecutes, Executes, ParkTimeout,
       Goto, localVars
  <2>3. QED
    BY <1>15, <2>1, <2>2, TokenFrame DEF ParkTimeout, actorVars, queueVars, mainVars
<1>16. ASSUME NEW w \in Workers, Poll(w)
       PROVE  Tokens'
  <2>1. pc[w] \in FreePCs \ {"off"} /\ UNCHANGED <<actorVars, pended, mainVars>>
    BY <1>16 DEF Poll, FreePCs
  <2>2. CASE Take(w, w, "run")
    BY <2>1, <2>2, TakeToken
  <2>3. ASSUME NEW l \in {"loop", "done", "park"}, Goto(w, l), UNCHANGED <<queue, localVars>>
        PROVE  Tokens'
    <3>1. SameClaims
      BY <1>a, <2>1, <2>3 DEF LocalOK, Goto, SameClaims, Claims, FreePCs, localVars
    <3>2. SameExecutes
      BY <1>a, <2>1, <2>3, ThreadsFact
      DEF LocalOK, Goto, SameExecutes, Executes, FreePCs, localVars
    <3>3. QED
      BY <2>1, <2>3, <3>1, <3>2, TokenFrame DEF actorVars, mainVars
  <2>4. QED
    BY <1>16, <2>2, <2>3 DEF Poll, TakeNothing
<1>17. ASSUME NEW w \in Workers, Steal(w)
       PROVE  Tokens'
  <2> DEFINE victim == (w + idx[w]) % NumWorkers
  <2>1. /\ pc[w] \in FreePCs \ {"off"} /\ pc[w] = "steal"
        /\ UNCHANGED <<actorVars, pended, mainVars>>
    BY <1>17 DEF Steal, FreePCs
  <2>2. victim \in Workers
    BY <1>a, RoutingAssumption, WorkersFact DEF LocalOK, Workers
  <2> HIDE DEF victim
  <2>3. CASE Take(w, victim, "permit")
    BY <2>1, <2>2, <2>3, TakeToken
  <2>4. CASE (UNCHANGED pc \/ Goto(w, "loop")) /\ UNCHANGED <<queue, cur, tgt>>
    <3>1. SameClaims
      BY <1>a, <2>1, <2>4 DEF LocalOK, Goto, SameClaims, Claims
    <3>2. SameExecutes
      BY <1>a, <2>1, <2>4, ThreadsFact DEF LocalOK, Goto, SameExecutes, Executes
    <3>3. QED
      BY <2>1, <2>4, <3>1, <3>2, TokenFrame DEF actorVars, mainVars
  <2>5. QED
    BY <1>17, <2>3, <2>4 DEF Steal, victim
<1>18. ASSUME NEW w \in Workers, StealPermit(w)
       PROVE  Tokens'
  <2>1. SameClaims
    BY <1>a, <1>18, ThreadsFact DEF LocalOK, SameClaims, Claims, StealPermit, Goto,
       localVars
  <2>2. SameExecutes
    BY <1>a, <1>18, ThreadsFact DEF LocalOK, SameExecutes, Executes, StealPermit,
       Goto, localVars
  <2>3. QED
    BY <1>18, <2>1, <2>2, TokenFrame DEF StealPermit, actorVars, queueVars, mainVars
<1>19. ASSUME NEW w \in Workers, LockPended(w)
       PROVE  Tokens'
  <2>1. SameClaims
    BY <1>a, <1>19, ThreadsFact DEF LocalOK, SameClaims, Claims, LockPended, Goto,
       localVars
  <2>2. SameExecutes
    BY <1>a, <1>19, ThreadsFact DEF LocalOK, SameExecutes, Executes, LockPended,
       Goto, localVars
  <2>3. QED
    BY <1>19, <2>1, <2>2, TokenFrame DEF LockPended, actorVars, queueVars, mainVars
<1>20. ASSUME NEW w \in Workers, DrainPended(w)
       PROVE  Tokens'
  <2>1. /\ pc[w] = "drainPended" /\ idx[w] \in 1 .. Len(pended)
        /\ UNCHANGED <<held, cur, tgt, main>>
    BY <1>a, <1>20, ThreadsFact
    DEF TypeInv, LocalOK, DrainPended, RegistersOK, WorkerRegisters, actorVars, mainVars
  <2>2. pc' = pc \/ Goto(w, "drainCount")
    BY <1>20 DEF DrainPended
  <2>3. SameClaims
    BY <1>a, <2>1, <2>2, ThreadsFact DEF LocalOK, Goto, SameClaims, Claims
  <2>4. SameExecutes
    BY <1>a, <2>1, <2>2, ThreadsFact DEF LocalOK, Goto, SameExecutes, Executes
  <2>5. PICK v \in Workers :
          \/ /\ queue' = [queue EXCEPT ![v] = Append(@, pended[idx[w]])]
             /\ pended' = RemoveAt(pended, idx[w])
          \/ UNCHANGED <<queue, pended>>
    BY <1>20 DEF DrainPended
  <2>6. CASE /\ queue' = [queue EXCEPT ![v] = Append(@, pended[idx[w]])]
             /\ pended' = RemoveAt(pended, idx[w])
    BY <1>a, <2>1, <2>3, <2>4, <2>6, RetryToken DEF TypeOK
  <2>7. CASE UNCHANGED <<queue, pended>>
    BY <2>1, <2>3, <2>4, <2>7, TokenFrame
  <2>8. QED
    BY <2>5, <2>6, <2>7
<1>21. ASSUME NEW w \in Workers, DrainCount(w)
       PROVE  Tokens'
  <2>1. SameClaims
    BY <1>a, <1>21, ThreadsFact DEF LocalOK, SameClaims, Claims, DrainCount, Goto,
       localVars
  <2>2. SameExecutes
    BY <1>a, <1>21, ThreadsFact DEF LocalOK, SameExecutes, Executes, DrainCount,
       Goto, localVars
  <2>3. QED
    BY <1>21, <2>1, <2>2, TokenFrame DEF DrainCount, actorVars, queueVars, mainVars
<1>22. ASSUME NEW w \in Workers, DrainDone(w)
       PROVE  Tokens'
  <2>1. SameClaims
    BY <1>a, <1>22, ThreadsFact DEF LocalOK, SameClaims, Claims, DrainDone, Goto,
       localVars
  <2>2. SameExecutes
    BY <1>a, <1>22, ThreadsFact DEF LocalOK, SameExecutes, Executes, DrainDone,
       Goto, localVars
  <2>3. QED
    BY <1>22, <2>1, <2>2, TokenFrame DEF DrainDone, actorVars, queueVars, mainVars
<1>23. ASSUME NEW w \in Workers, ExitCheck(w)
       PROVE  Tokens'
  <2>1. SameClaims
    BY <1>a, <1>23, ThreadsFact DEF LocalOK, SameClaims, Claims, ExitCheck, Goto,
       localVars
  <2>2. SameExecutes
    BY <1>a, <1>23, ThreadsFact DEF LocalOK, SameExecutes, Executes, ExitCheck,
       Goto, localVars
  <2>3. QED
    BY <1>23, <2>1, <2>2, TokenFrame DEF ExitCheck, actorVars, queueVars, mainVars
<1>24. ASSUME NEW w \in Workers, Run(w)
       PROVE  Tokens'
  <2>1. SameClaims
    BY <1>a, <1>24, ThreadsFact DEF LocalOK, SameClaims, Claims, Run, Goto,
       localVars
  <2>2. SameExecutes
    BY <1>a, <1>24, ThreadsFact DEF LocalOK, SameExecutes, Executes, Run, Goto,
       localVars
  <2>3. QED
    BY <1>24, <2>1, <2>2, TokenFrame DEF Run, actorVars, queueVars, mainVars
<1>25. ASSUME NEW w \in Workers, BatchPop(w)
       PROVE  Tokens'
  <2>1. SameClaims
    BY <1>a, <1>25, ThreadsFact DEF LocalOK, SameClaims, Claims, BatchPop, Goto,
       localVars
  <2>2. SameExecutes
    BY <1>a, <1>25, ThreadsFact DEF LocalOK, SameExecutes, Executes, BatchPop, Goto,
       localVars
  <2>3. QED
    BY <1>25, <2>1, <2>2, TokenFrame DEF BatchPop, actorVars, queueVars, mainVars
<1>26. ASSUME NEW w \in Workers, BatchEnd(w)
       PROVE  Tokens'
  <2>1. SameClaims
    BY <1>a, <1>26, ThreadsFact DEF LocalOK, SameClaims, Claims, BatchEnd, Goto,
       localVars
  <2>2. SameExecutes
    BY <1>a, <1>26, ThreadsFact DEF LocalOK, SameExecutes, Executes, BatchEnd, Goto,
       localVars
  <2>3. QED
    BY <1>26, <2>1, <2>2, TokenFrame DEF BatchEnd, actorVars, queueVars, mainVars
<1>27. ASSUME NEW w \in Workers, Handled(w)
       PROVE  Tokens'
  <2>1. SameClaims
    BY <1>a, <1>27, ThreadsFact DEF LocalOK, SameClaims, Claims, Handled, Goto,
       localVars
  <2>2. SameExecutes
    BY <1>a, <1>27, ThreadsFact DEF LocalOK, SameExecutes, Executes, Handled, Goto,
       localVars
  <2>3. QED
    BY <1>27, <2>1, <2>2, TokenFrame DEF Handled, actorVars, queueVars, mainVars
<1>28. ASSUME NEW w \in Workers, Fails(w)
       PROVE  Tokens'
  <2>1. SameClaims
    BY <1>a, <1>28, ThreadsFact DEF LocalOK, SameClaims, Claims, Fails,
       Goto, localVars
  <2>2. SameExecutes
    BY <1>a, <1>28, ThreadsFact DEF LocalOK, SameExecutes, Executes, Fails,
       Goto, localVars
  <2>3. QED
    BY <1>28, <2>1, <2>2, TokenFrame DEF Fails, actorVars, queueVars,
       mainVars
<1>29. ASSUME NEW w \in Workers, FailureHandled(w)
       PROVE  Tokens'
  <2>1. SameClaims
    BY <1>a, <1>29, ThreadsFact DEF LocalOK, SameClaims, Claims, FailureHandled,
       Goto, localVars
  <2>2. SameExecutes
    BY <1>a, <1>29, ThreadsFact DEF LocalOK, SameExecutes, Executes, FailureHandled,
       Goto, localVars
  <2>3. QED
    BY <1>29, <2>1, <2>2, TokenFrame DEF FailureHandled, actorVars, queueVars,
       mainVars
<1>30. ASSUME NEW w \in Workers, ReleaseInFlight(w)
       PROVE  Tokens'
  BY <1>30, ReleaseToken
<1>31. ASSUME NEW w \in Workers, Recheck(w)
       PROVE  Tokens'
  <2>1. SameClaims
    BY <1>a, <1>31, ThreadsFact DEF LocalOK, SameClaims, Claims, Recheck, Goto,
       localVars
  <2>2. SameExecutes
    BY <1>a, <1>31, ThreadsFact DEF LocalOK, SameExecutes, Executes, Recheck, Goto,
       localVars
  <2>3. QED
    BY <1>31, <2>1, <2>2, TokenFrame DEF Recheck, actorVars, queueVars, mainVars
<1>32. ASSUME NEW w \in Workers, Reclaim(w)
       PROVE  Tokens'
  <2>1. /\ pc[w] = "reclaim" /\ w \in Threads /\ cur[w] \in Actors
        /\ UNCHANGED <<queueVars, mainVars>>
    BY <1>32, ThreadsFact DEF Reclaim, TypeInv, RegistersOK, WorkerRegisters, TokenPCs
  <2>2. CASE Goto(w, "retire") /\ UNCHANGED <<held, cur, tgt, ret>>
    <3>1. SameClaims
      BY <1>a, <2>1, <2>2 DEF LocalOK, SameClaims, Claims, Goto
    <3>2. SameExecutes
      BY <1>a, <2>1, <2>2, ThreadsFact DEF LocalOK, SameExecutes, Executes, Goto
    <3>3. QED
      BY <2>1, <2>2, <3>1, <3>2, TokenFrame DEF queueVars, mainVars
  <2>3. CASE /\ ~held[cur[w]]
             /\ held' = [held EXCEPT ![cur[w]] = TRUE]
             /\ tgt' = [tgt EXCEPT ![w] = cur[w]]
             /\ cur' = [cur EXCEPT ![w] = None]
             /\ Goto(w, "route")
    <3>1. ~Claims(w) /\ Claims(w)' /\ OtherClaimsSame(w) /\ tgt'[w] = cur[w]
      BY <1>a, <2>1, <2>3 DEF LocalOK, Goto, Claims, OtherClaimsSame
    <3>2. SameExecutes
      BY <1>a, <2>1, <2>3, ThreadsFact DEF LocalOK, Goto, SameExecutes, Executes
    <3>3. QED
      BY <1>a, <2>1, <2>3, <3>1, <3>2, ClaimToken DEF TypeOK, queueVars, mainVars
  <2>4. QED
    BY <1>32, <2>2, <2>3 DEF Reclaim
<1>33. ASSUME NEW w \in Workers, Retire(w)
       PROVE  Tokens'
  <2>1. SameClaims
    BY <1>a, <1>33, ThreadsFact DEF LocalOK, SameClaims, Claims, Retire, Goto,
       localVars
  <2>2. SameExecutes
    BY <1>a, <1>33, ThreadsFact DEF LocalOK, SameExecutes, Executes, Retire, Goto,
       localVars
  <2>3. QED
    BY <1>33, <2>1, <2>2, TokenFrame DEF Retire, actorVars, queueVars, mainVars
<1>34. ASSUME NEW w \in Workers, Wake(w)
       PROVE  Tokens'
  <2>1. SameClaims
    BY <1>a, <1>34, ThreadsFact DEF LocalOK, SameClaims, Claims, Wake, Goto,
       localVars
  <2>2. SameExecutes
    BY <1>a, <1>34, ThreadsFact DEF LocalOK, SameExecutes, Executes, Wake, Goto,
       localVars
  <2>3. QED
    BY <1>34, <2>1, <2>2, TokenFrame DEF Wake, actorVars, queueVars, mainVars
<1>35. ASSUME DispatcherStart
       PROVE  Tokens'
  <2>1. SameClaims
    BY <1>a, <1>35 DEF LocalOK, SameClaims, Claims, DispatcherStart, localVars
  <2>2. SameExecutes
    BY <1>a, <1>35, ThreadsFact DEF LocalOK, SameExecutes, Executes,
       DispatcherStart, localVars
  <2>3. QED
    BY <1>35, <2>1, <2>2, TokenFrame DEF DispatcherStart, actorVars, queueVars,
       mainVars
<1>36. ASSUME WorkerStart
       PROVE  Tokens'
  <2>1. next \in Workers /\ next \in Threads /\ pc[next] = "off" /\ cur[next] = None
    BY <1>a, <1>36, ThreadsFact, WorkersFact
    DEF TypeInv, TypeOK, StartOK, WorkerStart, RegistersOK, WorkerRegisters, FreePCs
  <2>2. SameClaims
    BY <1>a, <1>36, <2>1 DEF LocalOK, SameClaims, Claims, WorkerStart, Goto, localVars
  <2>3. SameExecutes
    BY <1>a, <1>36, <2>1, ThreadsFact
    DEF LocalOK, SameExecutes, Executes, WorkerStart, Goto, localVars
  <2>4. QED
    BY <1>36, <2>2, <2>3, TokenFrame DEF WorkerStart, actorVars, queueVars
<1>37. ASSUME StopRunning
       PROVE  Tokens'
  <2>1. SameClaims
    BY <1>a, <1>37 DEF LocalOK, SameClaims, Claims, StopRunning, localVars
  <2>2. SameExecutes
    BY <1>a, <1>37, ThreadsFact DEF LocalOK, SameExecutes, Executes, StopRunning,
       localVars
  <2>3. QED
    BY <1>37, <2>1, <2>2, TokenFrame DEF StopRunning, actorVars, queueVars, mainVars
<1>38. ASSUME RaiseDraining
       PROVE  Tokens'
  <2>1. SameClaims
    BY <1>a, <1>38 DEF LocalOK, SameClaims, Claims, RaiseDraining, localVars
  <2>2. SameExecutes
    BY <1>a, <1>38, ThreadsFact DEF LocalOK, SameExecutes, Executes, RaiseDraining,
       localVars
  <2>3. QED
    BY <1>38, <2>1, <2>2, TokenFrame DEF RaiseDraining, actorVars, queueVars,
       mainVars
<1>39. ASSUME WakeAll
       PROVE  Tokens'
  <2>1. SameClaims
    BY <1>a, <1>39 DEF LocalOK, SameClaims, Claims, WakeAll, localVars
  <2>2. SameExecutes
    BY <1>a, <1>39, ThreadsFact DEF LocalOK, SameExecutes, Executes, WakeAll,
       localVars
  <2>3. QED
    BY <1>39, <2>1, <2>2, TokenFrame DEF WakeAll, actorVars, queueVars, mainVars
<1>40. ASSUME WorkerStop
       PROVE  Tokens'
  <2>1. SameClaims
    BY <1>a, <1>40 DEF LocalOK, SameClaims, Claims, WorkerStop, localVars
  <2>2. SameExecutes
    BY <1>a, <1>40, ThreadsFact DEF LocalOK, SameExecutes, Executes, WorkerStop,
       localVars
  <2>3. QED
    BY <1>40, <2>1, <2>2, TokenFrame DEF WorkerStop, actorVars, queueVars, mainVars
<1>41. ASSUME WorkerJoin
       PROVE  Tokens'
  <2>1. SameClaims
    BY <1>a, <1>41 DEF LocalOK, SameClaims, Claims, WorkerJoin, localVars
  <2>2. SameExecutes
    BY <1>a, <1>41, ThreadsFact DEF LocalOK, SameExecutes, Executes, WorkerJoin,
       localVars
  <2>3. QED
    BY <1>41, <2>1, <2>2, TokenFrame DEF WorkerJoin, actorVars, queueVars, mainVars
<1>42. ASSUME DispatcherStop
       PROVE  Tokens'
  <2>1. /\ UNCHANGED <<queue, held, pc, cur, tgt>>
        /\ pended' = <<>> /\ main' = "stopped"
    BY <1>42 DEF DispatcherStop, actorVars, localVars
  <2>2. SameClaims /\ SameExecutes
    BY <2>1 DEF SameClaims, Claims, SameExecutes, Executes
  <2>3. PendedDistinct' /\ \A a \in Actors : ~Pended(a)'
    BY <2>1 DEF PendedDistinct, Pended
  <2>4. TokenUnique'
    BY <2>1, <2>2, <2>3, ClaimsFrame, ExecutesFrame, QueueFrame
    DEF Tokens, TokenUnique, PlacesDisjoint, HeldIfLive
  <2>5. QED
    BY <2>1, <2>4 DEF Tokens, TokenNotLost
<1>43. CASE UNCHANGED vars
  <2>1. UNCHANGED <<queue, pended, held, pc, cur, tgt, main>>
    BY <1>43 DEF vars, actorVars, queueVars, localVars, mainVars
  <2>2. SameClaims /\ SameExecutes
    BY <2>1 DEF SameClaims, Claims, SameExecutes, Executes
  <2>3. QED
    BY <2>1, <2>2, TokenFrame
<1>44. ASSUME NEW w \in Workers, FailureCaught(w)
       PROVE  Tokens'
  <2>1. SameClaims
    BY <1>a, <1>44, ThreadsFact DEF LocalOK, SameClaims, Claims, FailureCaught, Goto,
       localVars
  <2>2. SameExecutes
    BY <1>a, <1>44, ThreadsFact DEF LocalOK, SameExecutes, Executes, FailureCaught, Goto,
       localVars
  <2>3. QED
    BY <1>44, <2>1, <2>2, TokenFrame DEF FailureCaught, actorVars, queueVars, mainVars
<1>45. QED
  BY <1>1, <1>2, <1>3, <1>4, <1>5, <1>6, <1>7, <1>8, <1>9, <1>10, <1>11, <1>12,
     <1>13, <1>14, <1>15, <1>16, <1>17, <1>18, <1>19, <1>20, <1>21, <1>22, <1>23,
     <1>24, <1>25, <1>26, <1>27, <1>28, <1>29, <1>30, <1>31, <1>32, <1>33, <1>34,
     <1>35, <1>36, <1>37, <1>38, <1>39, <1>40, <1>41, <1>42, <1>43, <1>44,
     ThreadsFact
  DEF Next, EnqueueStep, WorkerStep, AcquireStep, NullStep, RunStep, MainStep

\* The execution token of an actor is unique: over any interleaving of any
\* number of producers and workers, an actor is in at most one queue entry, or
\* pended once, or claimed by one dispatching thread, or executed by one worker
\* (WorkDispatcher::dispatch, acquire, settleToken, drainPendedActor).
THEOREM TokenUniqueness == Spec => []TokenUnique
<1>1. Init => TypeInv /\ Tokens
  BY TypeInit, TokensInit
<1>2. TypeInv /\ Tokens /\ [Next]_vars => (TypeInv /\ Tokens)'
  BY TypeStep, TokensStep
<1>3. TypeInv /\ Tokens => TokenUnique
  BY DEF Tokens
<1>4. QED
  BY <1>1, <1>2, <1>3, PTL DEF Spec

\* No path of the dispatcher loses a token: until WorkDispatcher::stop clears
\* the pended list, an actor whose in-flight slot is set has its token somewhere.
THEOREM TokenPreserved == Spec => []TokenNotLost
<1>1. Init => TypeInv /\ Tokens
  BY TypeInit, TokensInit
<1>2. TypeInv /\ Tokens /\ [Next]_vars => (TypeInv /\ Tokens)'
  BY TypeStep, TokensStep
<1>3. TypeInv /\ Tokens => TokenNotLost
  BY DEF Tokens
<1>4. QED
  BY <1>1, <1>2, <1>3, PTL DEF Spec

-----------------------------------------------------------------------------
(* No lost wakeup                                                          *)

Dispatching(t) == pc[t] = "dispatch"

Rechecking(w) == pc[w] \in {"recheck", "reclaim"}

\* Whoever is about to dispatch an actor or to look at its mailbox stays so.
KeepsDispatching == \A t \in Threads : Dispatching(t) => Dispatching(t)' /\ tgt'[t] = tgt[t]

KeepsRechecking == \A w \in Workers : Rechecking(w) => Rechecking(w)' /\ cur'[w] = cur[w]

\* Someone will see the messages of actor a.
Covered(a) ==
    \/ held[a]
    \/ \E t \in Threads : Dispatching(t) /\ tgt[t] = a
    \/ \E w \in Workers : Rechecking(w) /\ cur[w] = a

\* NoLostWakeup in terms of cover.
LEMMA WakeupCovered == NoLostWakeup <=> \A a \in Actors : mail[a] > 0 /\ ~stopped[a] => Covered(a)
BY DEF NoLostWakeup, Covered, Dispatching, Rechecking

\* What was covered stays covered.
LEMMA CoverFrame ==
    ASSUME KeepsDispatching, KeepsRechecking, NEW a \in Actors, held[a] => held'[a], Covered(a)
    PROVE  Covered(a)'
BY DEF KeepsDispatching, KeepsRechecking, Covered

\* A step that neither adds a message nor takes cover away.
LEMMA WakeupFrame ==
    ASSUME NoLostWakeup, UNCHANGED <<mail, stopped, held>>, KeepsDispatching, KeepsRechecking
    PROVE  NoLostWakeup'
<1>1. ASSUME NEW a \in Actors, mail'[a] > 0, ~stopped'[a] PROVE Covered(a)'
  <2>1. Covered(a)
    BY <1>1, WakeupCovered
  <2>2. QED
    BY <2>1, CoverFrame
<1>2. QED
  BY <1>1 DEF NoLostWakeup, Covered, Dispatching, Rechecking

\* Every step keeps every published message covered.
LEMMA WakeupStep == TypeInv /\ Tokens /\ NoLostWakeup /\ [Next]_vars => NoLostWakeup'
<1> SUFFICES ASSUME TypeInv, Tokens, NoLostWakeup, [Next]_vars PROVE NoLostWakeup'
  OBVIOUS
<1>a. TypeOK /\ LocalOK
  BY DEF TypeInv, TypeOK, LocalOK
<1>b. SUFFICES \A a \in Actors : mail'[a] > 0 /\ ~stopped'[a] => Covered(a)'
  BY DEF NoLostWakeup, Covered, Dispatching, Rechecking
<1>c. \A a \in Actors : mail[a] > 0 /\ ~stopped[a] => Covered(a)
  BY WakeupCovered
<1>d. NoLostWakeup' => \A a \in Actors : mail'[a] > 0 /\ ~stopped'[a] => Covered(a)'
  BY DEF NoLostWakeup, Covered, Dispatching, Rechecking
<1>1. ASSUME NEW t \in Threads, NEW a \in Actors, Enqueue(t, a)
       PROVE  \A b \in Actors : mail'[b] > 0 /\ ~stopped'[b] => Covered(b)'
  <2>1. KeepsDispatching
    BY <1>a, <1>1, ThreadsFact DEF LocalOK, KeepsDispatching, Dispatching, Enqueue,
       Goto, MaySend, localVars
  <2>2. KeepsRechecking
    BY <1>a, <1>1, ThreadsFact DEF LocalOK, KeepsRechecking, Rechecking, Enqueue,
       Goto, MaySend, localVars
  <2>3. UNCHANGED <<mail, stopped, held>>
    BY <1>1 DEF Enqueue, actorVars
  <2>4. QED
    BY <1>d, <2>1, <2>2, <2>3, WakeupFrame
<1>2. ASSUME NEW t \in Threads, NEW a \in Actors, EnqueueDrop(t, a)
       PROVE  \A b \in Actors : mail'[b] > 0 /\ ~stopped'[b] => Covered(b)'
  <2>1. KeepsDispatching
    BY <1>a, <1>2, ThreadsFact DEF LocalOK, KeepsDispatching, Dispatching,
       EnqueueDrop, localVars
  <2>2. KeepsRechecking
    BY <1>a, <1>2, ThreadsFact DEF LocalOK, KeepsRechecking, Rechecking,
       EnqueueDrop, localVars
  <2>3. UNCHANGED <<mail, stopped, held>>
    BY <1>2 DEF EnqueueDrop, actorVars
  <2>4. QED
    BY <1>d, <2>1, <2>2, <2>3, WakeupFrame
<1>3. ASSUME NEW t \in Threads, Publish(t)
       PROVE  \A b \in Actors : mail'[b] > 0 /\ ~stopped'[b] => Covered(b)'
  <2>1. tgt[t] \in Actors
    BY <1>3 DEF Publish, TypeInv, RegistersOK, EnqueueRegisters, EnqueuePCs
  <2>2. KeepsDispatching /\ KeepsRechecking
    BY <1>a, <1>3, ThreadsFact DEF LocalOK, KeepsDispatching, KeepsRechecking, Dispatching,
       Rechecking, Publish, Goto, localVars
  <2>3. Dispatching(t)' /\ tgt'[t] = tgt[t]
    BY <1>a, <1>3 DEF LocalOK, Dispatching, Publish, Goto, localVars
  <2>4. \A b \in Actors : b = tgt[t] => Covered(b)'
    BY <2>3 DEF Covered
  <2>5. \A b \in Actors \ {tgt[t]} : mail'[b] = mail[b]
    BY <1>a, <1>3 DEF TypeOK, Publish
  <2>6. UNCHANGED <<stopped, held>>
    BY <1>3 DEF Publish
  <2>7. ASSUME NEW b \in Actors \ {tgt[t]}, mail'[b] > 0, ~stopped'[b] PROVE Covered(b)'
    BY <1>c, <2>2, <2>5, <2>6, <2>7, CoverFrame
  <2>8. QED
    BY <2>4, <2>7
<1>4. ASSUME NEW t \in Threads, Dispatch(t)
       PROVE  \A b \in Actors : mail'[b] > 0 /\ ~stopped'[b] => Covered(b)'
  <2>1. /\ tgt[t] \in Actors /\ pc[t] = "dispatch" /\ UNCHANGED <<mail, stopped>>
        /\ pc'[t] # "dispatch"
        /\ \A s \in Threads \ {t} : pc'[s] = pc[s] /\ tgt'[s] = tgt[s]
        /\ UNCHANGED cur
    BY <1>a, <1>4 DEF LocalOK, Dispatch, Return, Goto, localVars, TypeInv, RegistersOK,
       EnqueueRegisters, EnqueuePCs
  <2>2. held'[tgt[t]] /\ \A b \in Actors : held[b] => held'[b]
    BY <1>a, <1>4, <2>1 DEF TypeOK, Dispatch
  <2>3. ASSUME NEW b \in Actors, Covered(b) PROVE Covered(b)'
    <3>1. CASE held[b] \/ b = tgt[t]
      BY <2>2, <3>1 DEF Covered
    <3>2. CASE \E s \in Threads : Dispatching(s) /\ tgt[s] = b /\ b # tgt[t]
      BY <2>1, <3>2 DEF Covered, Dispatching
    <3>3. CASE \E w \in Workers : Rechecking(w) /\ cur[w] = b
      BY <2>1, <3>3, ThreadsFact DEF Covered, Rechecking
    <3>4. QED
      BY <2>3, <3>1, <3>2, <3>3 DEF Covered
  <2>4. QED
    BY <1>c, <2>1, <2>3
<1>5. ASSUME NEW t \in Threads, Route(t)
       PROVE  \A b \in Actors : mail'[b] > 0 /\ ~stopped'[b] => Covered(b)'
  <2>1. KeepsDispatching
    BY <1>a, <1>5, ThreadsFact DEF LocalOK, KeepsDispatching, Dispatching, Route,
       Goto, localVars
  <2>2. KeepsRechecking
    BY <1>a, <1>5, ThreadsFact DEF LocalOK, KeepsRechecking, Rechecking, Route,
       Goto, localVars
  <2>3. UNCHANGED <<mail, stopped, held>>
    BY <1>5 DEF Route, actorVars
  <2>4. QED
    BY <1>d, <2>1, <2>2, <2>3, WakeupFrame
<1>6. ASSUME NEW t \in Threads, Push(t)
       PROVE  \A b \in Actors : mail'[b] > 0 /\ ~stopped'[b] => Covered(b)'
  <2>1. KeepsDispatching
    BY <1>a, <1>6, ThreadsFact DEF LocalOK, KeepsDispatching, Dispatching, Push,
       Goto, localVars
  <2>2. KeepsRechecking
    BY <1>a, <1>6, ThreadsFact DEF LocalOK, KeepsRechecking, Rechecking, Push, Goto,
       localVars
  <2>3. UNCHANGED <<mail, stopped, held>>
    BY <1>6 DEF Push, actorVars
  <2>4. QED
    BY <1>d, <2>1, <2>2, <2>3, WakeupFrame
<1>7. ASSUME NEW t \in Threads, PushFail(t)
       PROVE  \A b \in Actors : mail'[b] > 0 /\ ~stopped'[b] => Covered(b)'
  <2>1. KeepsDispatching
    BY <1>a, <1>7, ThreadsFact DEF LocalOK, KeepsDispatching, Dispatching, PushFail,
       Goto, localVars
  <2>2. KeepsRechecking
    BY <1>a, <1>7, ThreadsFact DEF LocalOK, KeepsRechecking, Rechecking, PushFail,
       Goto, localVars
  <2>3. UNCHANGED <<mail, stopped, held>>
    BY <1>7 DEF PushFail, actorVars
  <2>4. QED
    BY <1>d, <2>1, <2>2, <2>3, WakeupFrame
<1>8. ASSUME NEW t \in Threads, Pend(t)
       PROVE  \A b \in Actors : mail'[b] > 0 /\ ~stopped'[b] => Covered(b)'
  <2>1. KeepsDispatching
    BY <1>a, <1>8, ThreadsFact DEF LocalOK, KeepsDispatching, Dispatching, Pend,
       Goto, Return, localVars
  <2>2. KeepsRechecking
    BY <1>a, <1>8, ThreadsFact DEF LocalOK, KeepsRechecking, Rechecking, Pend, Goto,
       Return, localVars
  <2>3. UNCHANGED <<mail, stopped, held>>
    BY <1>8 DEF Pend, actorVars
  <2>4. QED
    BY <1>d, <2>1, <2>2, <2>3, WakeupFrame
<1>9. ASSUME NEW t \in Threads, Signal(t)
       PROVE  \A b \in Actors : mail'[b] > 0 /\ ~stopped'[b] => Covered(b)'
  <2>1. KeepsDispatching
    BY <1>a, <1>9, ThreadsFact DEF LocalOK, KeepsDispatching, Dispatching, Signal,
       Goto, Return, localVars
  <2>2. KeepsRechecking
    BY <1>a, <1>9, ThreadsFact DEF LocalOK, KeepsRechecking, Rechecking, Signal,
       Goto, Return, localVars
  <2>3. UNCHANGED <<mail, stopped, held>>
    BY <1>9 DEF Signal, actorVars
  <2>4. QED
    BY <1>d, <2>1, <2>2, <2>3, WakeupFrame
<1>10. ASSUME NEW t \in Threads, Count(t)
       PROVE  \A b \in Actors : mail'[b] > 0 /\ ~stopped'[b] => Covered(b)'
  <2>1. KeepsDispatching
    BY <1>a, <1>10, ThreadsFact DEF LocalOK, KeepsDispatching, Dispatching, Count,
       Goto, Return, localVars
  <2>2. KeepsRechecking
    BY <1>a, <1>10, ThreadsFact DEF LocalOK, KeepsRechecking, Rechecking, Count,
       Goto, Return, localVars
  <2>3. UNCHANGED <<mail, stopped, held>>
    BY <1>10 DEF Count, actorVars
  <2>4. QED
    BY <1>d, <2>1, <2>2, <2>3, WakeupFrame
<1>11. ASSUME NEW w \in Workers, Top(w)
       PROVE  \A b \in Actors : mail'[b] > 0 /\ ~stopped'[b] => Covered(b)'
  <2>1. KeepsDispatching
    BY <1>a, <1>11, ThreadsFact DEF LocalOK, KeepsDispatching, Dispatching, Top,
       Goto, Take, TakeNothing, localVars
  <2>2. KeepsRechecking
    BY <1>a, <1>11, ThreadsFact DEF LocalOK, KeepsRechecking, Rechecking, Top, Goto,
       Take, TakeNothing, localVars
  <2>3. UNCHANGED <<mail, stopped, held>>
    BY <1>11 DEF Top, actorVars
  <2>4. QED
    BY <1>d, <2>1, <2>2, <2>3, WakeupFrame
<1>12. ASSUME NEW w \in Workers, Loop(w)
       PROVE  \A b \in Actors : mail'[b] > 0 /\ ~stopped'[b] => Covered(b)'
  <2>1. KeepsDispatching
    BY <1>a, <1>12, ThreadsFact DEF LocalOK, KeepsDispatching, Dispatching, Loop,
       Goto, localVars
  <2>2. KeepsRechecking
    BY <1>a, <1>12, ThreadsFact DEF LocalOK, KeepsRechecking, Rechecking, Loop,
       Goto, localVars
  <2>3. UNCHANGED <<mail, stopped, held>>
    BY <1>12 DEF Loop, actorVars
  <2>4. QED
    BY <1>d, <2>1, <2>2, <2>3, WakeupFrame
<1>13. ASSUME NEW w \in Workers, Spin(w)
       PROVE  \A b \in Actors : mail'[b] > 0 /\ ~stopped'[b] => Covered(b)'
  <2>1. KeepsDispatching
    BY <1>a, <1>13, ThreadsFact DEF LocalOK, KeepsDispatching, Dispatching, Spin,
       Goto, Take, TakeNothing, localVars
  <2>2. KeepsRechecking
    BY <1>a, <1>13, ThreadsFact DEF LocalOK, KeepsRechecking, Rechecking, Spin,
       Goto, Take, TakeNothing, localVars
  <2>3. UNCHANGED <<mail, stopped, held>>
    BY <1>13 DEF Spin, actorVars
  <2>4. QED
    BY <1>d, <2>1, <2>2, <2>3, WakeupFrame
<1>14. ASSUME NEW w \in Workers, ParkWake(w)
       PROVE  \A b \in Actors : mail'[b] > 0 /\ ~stopped'[b] => Covered(b)'
  <2>1. KeepsDispatching
    BY <1>a, <1>14, ThreadsFact DEF LocalOK, KeepsDispatching, Dispatching,
       ParkWake, Goto, localVars
  <2>2. KeepsRechecking
    BY <1>a, <1>14, ThreadsFact DEF LocalOK, KeepsRechecking, Rechecking, ParkWake,
       Goto, localVars
  <2>3. UNCHANGED <<mail, stopped, held>>
    BY <1>14 DEF ParkWake, actorVars
  <2>4. QED
    BY <1>d, <2>1, <2>2, <2>3, WakeupFrame
<1>15. ASSUME NEW w \in Workers, ParkTimeout(w)
       PROVE  \A b \in Actors : mail'[b] > 0 /\ ~stopped'[b] => Covered(b)'
  <2>1. KeepsDispatching
    BY <1>a, <1>15, ThreadsFact DEF LocalOK, KeepsDispatching, Dispatching,
       ParkTimeout, Goto, localVars
  <2>2. KeepsRechecking
    BY <1>a, <1>15, ThreadsFact DEF LocalOK, KeepsRechecking, Rechecking,
       ParkTimeout, Goto, localVars
  <2>3. UNCHANGED <<mail, stopped, held>>
    BY <1>15 DEF ParkTimeout, actorVars
  <2>4. QED
    BY <1>d, <2>1, <2>2, <2>3, WakeupFrame
<1>16. ASSUME NEW w \in Workers, Poll(w)
       PROVE  \A b \in Actors : mail'[b] > 0 /\ ~stopped'[b] => Covered(b)'
  <2>1. KeepsDispatching
    BY <1>a, <1>16, ThreadsFact DEF LocalOK, KeepsDispatching, Dispatching, Poll,
       Goto, Take, TakeNothing, localVars
  <2>2. KeepsRechecking
    BY <1>a, <1>16, ThreadsFact DEF LocalOK, KeepsRechecking, Rechecking, Poll,
       Goto, Take, TakeNothing, localVars
  <2>3. UNCHANGED <<mail, stopped, held>>
    BY <1>16 DEF Poll, actorVars
  <2>4. QED
    BY <1>d, <2>1, <2>2, <2>3, WakeupFrame
<1>17. ASSUME NEW w \in Workers, Steal(w)
       PROVE  \A b \in Actors : mail'[b] > 0 /\ ~stopped'[b] => Covered(b)'
  <2>1. KeepsDispatching
    BY <1>a, <1>17, ThreadsFact DEF LocalOK, KeepsDispatching, Dispatching, Steal,
       Goto, Take, localVars
  <2>2. KeepsRechecking
    BY <1>a, <1>17, ThreadsFact DEF LocalOK, KeepsRechecking, Rechecking, Steal,
       Goto, Take, localVars
  <2>3. UNCHANGED <<mail, stopped, held>>
    BY <1>17 DEF Steal, actorVars
  <2>4. QED
    BY <1>d, <2>1, <2>2, <2>3, WakeupFrame
<1>18. ASSUME NEW w \in Workers, StealPermit(w)
       PROVE  \A b \in Actors : mail'[b] > 0 /\ ~stopped'[b] => Covered(b)'
  <2>1. KeepsDispatching
    BY <1>a, <1>18, ThreadsFact DEF LocalOK, KeepsDispatching, Dispatching,
       StealPermit, Goto, localVars
  <2>2. KeepsRechecking
    BY <1>a, <1>18, ThreadsFact DEF LocalOK, KeepsRechecking, Rechecking,
       StealPermit, Goto, localVars
  <2>3. UNCHANGED <<mail, stopped, held>>
    BY <1>18 DEF StealPermit, actorVars
  <2>4. QED
    BY <1>d, <2>1, <2>2, <2>3, WakeupFrame
<1>19. ASSUME NEW w \in Workers, LockPended(w)
       PROVE  \A b \in Actors : mail'[b] > 0 /\ ~stopped'[b] => Covered(b)'
  <2>1. KeepsDispatching
    BY <1>a, <1>19, ThreadsFact DEF LocalOK, KeepsDispatching, Dispatching,
       LockPended, Goto, localVars
  <2>2. KeepsRechecking
    BY <1>a, <1>19, ThreadsFact DEF LocalOK, KeepsRechecking, Rechecking,
       LockPended, Goto, localVars
  <2>3. UNCHANGED <<mail, stopped, held>>
    BY <1>19 DEF LockPended, actorVars
  <2>4. QED
    BY <1>d, <2>1, <2>2, <2>3, WakeupFrame
<1>20. ASSUME NEW w \in Workers, DrainPended(w)
       PROVE  \A b \in Actors : mail'[b] > 0 /\ ~stopped'[b] => Covered(b)'
  <2>1. KeepsDispatching
    BY <1>a, <1>20, ThreadsFact DEF LocalOK, KeepsDispatching, Dispatching,
       DrainPended, Goto, localVars
  <2>2. KeepsRechecking
    BY <1>a, <1>20, ThreadsFact DEF LocalOK, KeepsRechecking, Rechecking,
       DrainPended, Goto, localVars
  <2>3. UNCHANGED <<mail, stopped, held>>
    BY <1>20 DEF DrainPended, actorVars
  <2>4. QED
    BY <1>d, <2>1, <2>2, <2>3, WakeupFrame
<1>21. ASSUME NEW w \in Workers, DrainCount(w)
       PROVE  \A b \in Actors : mail'[b] > 0 /\ ~stopped'[b] => Covered(b)'
  <2>1. KeepsDispatching
    BY <1>a, <1>21, ThreadsFact DEF LocalOK, KeepsDispatching, Dispatching,
       DrainCount, Goto, localVars
  <2>2. KeepsRechecking
    BY <1>a, <1>21, ThreadsFact DEF LocalOK, KeepsRechecking, Rechecking,
       DrainCount, Goto, localVars
  <2>3. UNCHANGED <<mail, stopped, held>>
    BY <1>21 DEF DrainCount, actorVars
  <2>4. QED
    BY <1>d, <2>1, <2>2, <2>3, WakeupFrame
<1>22. ASSUME NEW w \in Workers, DrainDone(w)
       PROVE  \A b \in Actors : mail'[b] > 0 /\ ~stopped'[b] => Covered(b)'
  <2>1. KeepsDispatching
    BY <1>a, <1>22, ThreadsFact DEF LocalOK, KeepsDispatching, Dispatching,
       DrainDone, Goto, localVars
  <2>2. KeepsRechecking
    BY <1>a, <1>22, ThreadsFact DEF LocalOK, KeepsRechecking, Rechecking, DrainDone,
       Goto, localVars
  <2>3. UNCHANGED <<mail, stopped, held>>
    BY <1>22 DEF DrainDone, actorVars
  <2>4. QED
    BY <1>d, <2>1, <2>2, <2>3, WakeupFrame
<1>23. ASSUME NEW w \in Workers, ExitCheck(w)
       PROVE  \A b \in Actors : mail'[b] > 0 /\ ~stopped'[b] => Covered(b)'
  <2>1. KeepsDispatching
    BY <1>a, <1>23, ThreadsFact DEF LocalOK, KeepsDispatching, Dispatching,
       ExitCheck, Goto, localVars
  <2>2. KeepsRechecking
    BY <1>a, <1>23, ThreadsFact DEF LocalOK, KeepsRechecking, Rechecking, ExitCheck,
       Goto, localVars
  <2>3. UNCHANGED <<mail, stopped, held>>
    BY <1>23 DEF ExitCheck, actorVars
  <2>4. QED
    BY <1>d, <2>1, <2>2, <2>3, WakeupFrame
<1>24. ASSUME NEW w \in Workers, Run(w)
       PROVE  \A b \in Actors : mail'[b] > 0 /\ ~stopped'[b] => Covered(b)'
  <2>1. KeepsDispatching
    BY <1>a, <1>24, ThreadsFact DEF LocalOK, KeepsDispatching, Dispatching, Run,
       Goto, localVars
  <2>2. KeepsRechecking
    BY <1>a, <1>24, ThreadsFact DEF LocalOK, KeepsRechecking, Rechecking, Run, Goto,
       localVars
  <2>3. UNCHANGED <<mail, stopped, held>>
    BY <1>24 DEF Run, actorVars
  <2>4. QED
    BY <1>d, <2>1, <2>2, <2>3, WakeupFrame
<1>25. ASSUME NEW w \in Workers, BatchPop(w)
       PROVE  \A b \in Actors : mail'[b] > 0 /\ ~stopped'[b] => Covered(b)'
  <2>1. KeepsDispatching /\ KeepsRechecking /\ UNCHANGED <<stopped, held>>
    BY <1>a, <1>25, ThreadsFact DEF LocalOK, KeepsDispatching, KeepsRechecking, Dispatching,
       Rechecking, BatchPop, Goto, localVars
  <2>2. ASSUME NEW b \in Actors, mail'[b] > 0 PROVE mail[b] > 0
    BY <1>a, <1>25, <2>2 DEF TypeOK, BatchPop
  <2>3. QED
    BY <1>c, <2>1, <2>2, CoverFrame
<1>26. ASSUME NEW w \in Workers, BatchEnd(w)
       PROVE  \A b \in Actors : mail'[b] > 0 /\ ~stopped'[b] => Covered(b)'
  <2>1. KeepsDispatching
    BY <1>a, <1>26, ThreadsFact DEF LocalOK, KeepsDispatching, Dispatching,
       BatchEnd, Goto, localVars
  <2>2. KeepsRechecking
    BY <1>a, <1>26, ThreadsFact DEF LocalOK, KeepsRechecking, Rechecking, BatchEnd,
       Goto, localVars
  <2>3. UNCHANGED <<mail, stopped, held>>
    BY <1>26 DEF BatchEnd, actorVars
  <2>4. QED
    BY <1>d, <2>1, <2>2, <2>3, WakeupFrame
<1>27. ASSUME NEW w \in Workers, Handled(w)
       PROVE  \A b \in Actors : mail'[b] > 0 /\ ~stopped'[b] => Covered(b)'
  <2>1. KeepsDispatching
    BY <1>a, <1>27, ThreadsFact DEF LocalOK, KeepsDispatching, Dispatching, Handled,
       Goto, localVars
  <2>2. KeepsRechecking
    BY <1>a, <1>27, ThreadsFact DEF LocalOK, KeepsRechecking, Rechecking, Handled,
       Goto, localVars
  <2>3. UNCHANGED <<mail, stopped, held>>
    BY <1>27 DEF Handled, actorVars
  <2>4. QED
    BY <1>d, <2>1, <2>2, <2>3, WakeupFrame
<1>28. ASSUME NEW w \in Workers, Fails(w)
       PROVE  \A b \in Actors : mail'[b] > 0 /\ ~stopped'[b] => Covered(b)'
  <2>1. /\ cur[w] \in Actors /\ pc[w] \in {"handle", "failed"} /\ UNCHANGED held
        /\ \A b \in Actors \ {cur[w]} : mail'[b] = mail[b] /\ stopped'[b] = stopped[b]
    BY <1>a, <1>28, ThreadsFact DEF TypeOK, Fails, TypeInv, RegistersOK,
       WorkerRegisters, TokenPCs
  <2>2. KeepsDispatching /\ KeepsRechecking
    BY <1>a, <1>28, ThreadsFact DEF LocalOK, KeepsDispatching, KeepsRechecking, Dispatching,
       Rechecking, Fails, Goto, localVars
  <2>3. Executes(w)
    BY <2>1, DispatchAssumption DEF Executes
  <2>4. held[cur[w]]
    BY <2>1, <2>3 DEF Tokens, TokenUnique, HeldIfLive, Executed
  <2>5. \A b \in Actors : b = cur[w] => Covered(b)'
    BY <2>1, <2>4 DEF Covered
  <2>6. ASSUME NEW b \in Actors \ {cur[w]}, mail'[b] > 0, ~stopped'[b] PROVE Covered(b)'
    BY <1>c, <2>1, <2>2, <2>6, CoverFrame
  <2>7. QED
    BY <2>5, <2>6
<1>29. ASSUME NEW w \in Workers, FailureHandled(w)
       PROVE  \A b \in Actors : mail'[b] > 0 /\ ~stopped'[b] => Covered(b)'
  <2>1. KeepsDispatching
    BY <1>a, <1>29, ThreadsFact DEF LocalOK, KeepsDispatching, Dispatching,
       FailureHandled, Goto, localVars
  <2>2. KeepsRechecking
    BY <1>a, <1>29, ThreadsFact DEF LocalOK, KeepsRechecking, Rechecking,
       FailureHandled, Goto, localVars
  <2>3. UNCHANGED <<mail, stopped, held>>
    BY <1>29 DEF FailureHandled, actorVars
  <2>4. QED
    BY <1>d, <2>1, <2>2, <2>3, WakeupFrame
<1>30. ASSUME NEW w \in Workers, ReleaseInFlight(w)
       PROVE  \A b \in Actors : mail'[b] > 0 /\ ~stopped'[b] => Covered(b)'
  <2>1. KeepsDispatching /\ KeepsRechecking /\ UNCHANGED <<mail, stopped>>
    BY <1>a, <1>30, ThreadsFact DEF LocalOK, KeepsDispatching, KeepsRechecking, Dispatching,
       Rechecking, ReleaseInFlight, Goto
  <2>2. Rechecking(w)' /\ cur'[w] = cur[w]
    BY <1>a, <1>30, ThreadsFact DEF LocalOK, Rechecking, ReleaseInFlight, Goto
  <2>3. \A b \in Actors : b = cur[w] => Covered(b)'
    BY <2>2 DEF Covered
  <2>4. \A b \in Actors \ {cur[w]} : held[b] => held'[b]
    BY <1>a, <1>30 DEF TypeOK, ReleaseInFlight
  <2>5. ASSUME NEW b \in Actors \ {cur[w]}, mail'[b] > 0, ~stopped'[b] PROVE Covered(b)'
    BY <1>c, <2>1, <2>4, <2>5, CoverFrame
  <2>6. QED
    BY <2>3, <2>5
<1>31. ASSUME NEW w \in Workers, Recheck(w)
       PROVE  \A b \in Actors : mail'[b] > 0 /\ ~stopped'[b] => Covered(b)'
  <2>1. /\ pc[w] = "recheck" /\ UNCHANGED <<mail, stopped, held, cur, tgt>>
        /\ \A s \in Threads \ {w} : pc'[s] = pc[s]
    BY <1>a, <1>31 DEF LocalOK, Recheck, Goto, actorVars, localVars
  <2>2. mail[cur[w]] > 0 /\ ~stopped[cur[w]] => pc'[w] = "reclaim"
    BY <1>a, <1>31, ThreadsFact DEF LocalOK, Recheck, Goto, Backlog
  <2>3. ASSUME NEW b \in Actors, mail'[b] > 0, ~stopped'[b] PROVE Covered(b)'
    <3>1. Covered(b)
      BY <1>c, <2>1, <2>3
    <3>2. CASE b = cur[w]
      BY <2>1, <2>2, <2>3, <3>2 DEF Covered, Rechecking
    <3>3. CASE b # cur[w]
      BY <2>1, <3>1, <3>3, ThreadsFact DEF Covered, Dispatching, Rechecking
    <3>4. QED
      BY <3>2, <3>3
  <2>4. QED
    BY <2>3
<1>32. ASSUME NEW w \in Workers, Reclaim(w)
       PROVE  \A b \in Actors : mail'[b] > 0 /\ ~stopped'[b] => Covered(b)'
  <2>1. /\ pc[w] = "reclaim" /\ UNCHANGED <<mail, stopped>>
        /\ \A s \in Threads \ {w} : pc'[s] = pc[s] /\ tgt'[s] = tgt[s]
        /\ \A v \in Workers \ {w} : cur'[v] = cur[v]
    BY <1>a, <1>32 DEF LocalOK, Reclaim, Goto
  <2>2. cur[w] \in Actors
    BY <1>32, ThreadsFact DEF Reclaim, TypeInv, RegistersOK, WorkerRegisters, TokenPCs
  <2>3. held'[cur[w]] /\ \A b \in Actors : held[b] => held'[b]
    BY <1>a, <1>32, <2>2 DEF TypeOK, Reclaim
  <2>4. ASSUME NEW b \in Actors, Covered(b) PROVE Covered(b)'
    <3>1. CASE held[b] \/ b = cur[w]
      BY <2>3, <3>1 DEF Covered
    <3>2. CASE \E s \in Threads : Dispatching(s) /\ tgt[s] = b
      BY <2>1, <3>2 DEF Covered, Dispatching
    <3>3. CASE \E v \in Workers : Rechecking(v) /\ cur[v] = b /\ b # cur[w]
      BY <2>1, <3>3, ThreadsFact DEF Covered, Rechecking
    <3>4. QED
      BY <2>4, <3>1, <3>2, <3>3 DEF Covered
  <2>5. QED
    BY <1>c, <2>1, <2>4
<1>33. ASSUME NEW w \in Workers, Retire(w)
       PROVE  \A b \in Actors : mail'[b] > 0 /\ ~stopped'[b] => Covered(b)'
  <2>1. KeepsDispatching
    BY <1>a, <1>33, ThreadsFact DEF LocalOK, KeepsDispatching, Dispatching, Retire,
       Goto, localVars
  <2>2. KeepsRechecking
    BY <1>a, <1>33, ThreadsFact DEF LocalOK, KeepsRechecking, Rechecking, Retire,
       Goto, localVars
  <2>3. UNCHANGED <<mail, stopped, held>>
    BY <1>33 DEF Retire, actorVars
  <2>4. QED
    BY <1>d, <2>1, <2>2, <2>3, WakeupFrame
<1>34. ASSUME NEW w \in Workers, Wake(w)
       PROVE  \A b \in Actors : mail'[b] > 0 /\ ~stopped'[b] => Covered(b)'
  <2>1. KeepsDispatching
    BY <1>a, <1>34, ThreadsFact DEF LocalOK, KeepsDispatching, Dispatching, Wake,
       Goto, localVars
  <2>2. KeepsRechecking
    BY <1>a, <1>34, ThreadsFact DEF LocalOK, KeepsRechecking, Rechecking, Wake,
       Goto, localVars
  <2>3. UNCHANGED <<mail, stopped, held>>
    BY <1>34 DEF Wake, actorVars
  <2>4. QED
    BY <1>d, <2>1, <2>2, <2>3, WakeupFrame
<1>35. ASSUME DispatcherStart
       PROVE  \A b \in Actors : mail'[b] > 0 /\ ~stopped'[b] => Covered(b)'
  <2>1. KeepsDispatching
    BY <1>a, <1>35, ThreadsFact DEF LocalOK, KeepsDispatching, Dispatching,
       DispatcherStart, localVars
  <2>2. KeepsRechecking
    BY <1>a, <1>35, ThreadsFact DEF LocalOK, KeepsRechecking, Rechecking,
       DispatcherStart, localVars
  <2>3. UNCHANGED <<mail, stopped, held>>
    BY <1>35 DEF DispatcherStart, actorVars
  <2>4. QED
    BY <1>d, <2>1, <2>2, <2>3, WakeupFrame
<1>36. ASSUME WorkerStart
       PROVE  \A b \in Actors : mail'[b] > 0 /\ ~stopped'[b] => Covered(b)'
  <2>1. next \in Workers /\ pc[next] = "off" /\ UNCHANGED <<mail, stopped, held>>
    BY <1>a, <1>36, WorkersFact DEF TypeInv, TypeOK, StartOK, WorkerStart, actorVars
  <2>2. KeepsDispatching /\ KeepsRechecking
    BY <1>a, <1>36, <2>1, ThreadsFact DEF LocalOK, KeepsDispatching, KeepsRechecking,
       Dispatching, Rechecking, WorkerStart, Goto, localVars
  <2>3. QED
    BY <1>d, <2>1, <2>2, WakeupFrame
<1>37. ASSUME StopRunning
       PROVE  \A b \in Actors : mail'[b] > 0 /\ ~stopped'[b] => Covered(b)'
  <2>1. KeepsDispatching
    BY <1>a, <1>37, ThreadsFact DEF LocalOK, KeepsDispatching, Dispatching,
       StopRunning, localVars
  <2>2. KeepsRechecking
    BY <1>a, <1>37, ThreadsFact DEF LocalOK, KeepsRechecking, Rechecking,
       StopRunning, localVars
  <2>3. UNCHANGED <<mail, stopped, held>>
    BY <1>37 DEF StopRunning, actorVars
  <2>4. QED
    BY <1>d, <2>1, <2>2, <2>3, WakeupFrame
<1>38. ASSUME RaiseDraining
       PROVE  \A b \in Actors : mail'[b] > 0 /\ ~stopped'[b] => Covered(b)'
  <2>1. KeepsDispatching
    BY <1>a, <1>38, ThreadsFact DEF LocalOK, KeepsDispatching, Dispatching,
       RaiseDraining, localVars
  <2>2. KeepsRechecking
    BY <1>a, <1>38, ThreadsFact DEF LocalOK, KeepsRechecking, Rechecking,
       RaiseDraining, localVars
  <2>3. UNCHANGED <<mail, stopped, held>>
    BY <1>38 DEF RaiseDraining, actorVars
  <2>4. QED
    BY <1>d, <2>1, <2>2, <2>3, WakeupFrame
<1>39. ASSUME WakeAll
       PROVE  \A b \in Actors : mail'[b] > 0 /\ ~stopped'[b] => Covered(b)'
  <2>1. KeepsDispatching
    BY <1>a, <1>39, ThreadsFact DEF LocalOK, KeepsDispatching, Dispatching, WakeAll,
       localVars
  <2>2. KeepsRechecking
    BY <1>a, <1>39, ThreadsFact DEF LocalOK, KeepsRechecking, Rechecking, WakeAll,
       localVars
  <2>3. UNCHANGED <<mail, stopped, held>>
    BY <1>39 DEF WakeAll, actorVars
  <2>4. QED
    BY <1>d, <2>1, <2>2, <2>3, WakeupFrame
<1>40. ASSUME WorkerStop
       PROVE  \A b \in Actors : mail'[b] > 0 /\ ~stopped'[b] => Covered(b)'
  <2>1. KeepsDispatching
    BY <1>a, <1>40, ThreadsFact DEF LocalOK, KeepsDispatching, Dispatching,
       WorkerStop, localVars
  <2>2. KeepsRechecking
    BY <1>a, <1>40, ThreadsFact DEF LocalOK, KeepsRechecking, Rechecking,
       WorkerStop, localVars
  <2>3. UNCHANGED <<mail, stopped, held>>
    BY <1>40 DEF WorkerStop, actorVars
  <2>4. QED
    BY <1>d, <2>1, <2>2, <2>3, WakeupFrame
<1>41. ASSUME WorkerJoin
       PROVE  \A b \in Actors : mail'[b] > 0 /\ ~stopped'[b] => Covered(b)'
  <2>1. KeepsDispatching
    BY <1>a, <1>41, ThreadsFact DEF LocalOK, KeepsDispatching, Dispatching,
       WorkerJoin, localVars
  <2>2. KeepsRechecking
    BY <1>a, <1>41, ThreadsFact DEF LocalOK, KeepsRechecking, Rechecking,
       WorkerJoin, localVars
  <2>3. UNCHANGED <<mail, stopped, held>>
    BY <1>41 DEF WorkerJoin, actorVars
  <2>4. QED
    BY <1>d, <2>1, <2>2, <2>3, WakeupFrame
<1>42. ASSUME DispatcherStop
       PROVE  \A b \in Actors : mail'[b] > 0 /\ ~stopped'[b] => Covered(b)'
  <2>1. KeepsDispatching
    BY <1>a, <1>42, ThreadsFact DEF LocalOK, KeepsDispatching, Dispatching,
       DispatcherStop, localVars
  <2>2. KeepsRechecking
    BY <1>a, <1>42, ThreadsFact DEF LocalOK, KeepsRechecking, Rechecking,
       DispatcherStop, localVars
  <2>3. UNCHANGED <<mail, stopped, held>>
    BY <1>42 DEF DispatcherStop, actorVars
  <2>4. QED
    BY <1>d, <2>1, <2>2, <2>3, WakeupFrame
<1>43. CASE UNCHANGED vars
  <2>1. UNCHANGED <<mail, stopped, held, pc, cur, tgt>>
    BY <1>43 DEF vars, actorVars, localVars
  <2>2. KeepsDispatching /\ KeepsRechecking
    BY <2>1 DEF KeepsDispatching, KeepsRechecking, Dispatching, Rechecking
  <2>3. QED
    BY <1>d, <2>1, <2>2, WakeupFrame
<1>44. ASSUME NEW w \in Workers, FailureCaught(w)
       PROVE  \A b \in Actors : mail'[b] > 0 /\ ~stopped'[b] => Covered(b)'
  <2>1. KeepsDispatching
    BY <1>a, <1>44, ThreadsFact DEF LocalOK, KeepsDispatching, Dispatching, FailureCaught,
       Goto, localVars
  <2>2. KeepsRechecking
    BY <1>a, <1>44, ThreadsFact DEF LocalOK, KeepsRechecking, Rechecking, FailureCaught,
       Goto, localVars
  <2>3. UNCHANGED <<mail, stopped, held>>
    BY <1>44 DEF FailureCaught, actorVars
  <2>4. QED
    BY <1>d, <2>1, <2>2, <2>3, WakeupFrame
<1>45. QED
  BY <1>1, <1>2, <1>3, <1>4, <1>5, <1>6, <1>7, <1>8, <1>9, <1>10, <1>11, <1>12,
     <1>13, <1>14, <1>15, <1>16, <1>17, <1>18, <1>19, <1>20, <1>21, <1>22, <1>23,
     <1>24, <1>25, <1>26, <1>27, <1>28, <1>29, <1>30, <1>31, <1>32, <1>33, <1>34,
     <1>35, <1>36, <1>37, <1>38, <1>39, <1>40, <1>41, <1>42, <1>43, <1>44,
     ThreadsFact
  DEF Next, EnqueueStep, WorkerStep, AcquireStep, NullStep, RunStep, MainStep

\* The release-then-recheck order of settleToken loses no wakeup: a published
\* message of an actor that is not stopped is always covered by a token, by a
\* thread about to dispatch or by a worker about to look at the mailbox again.
THEOREM WakeupNeverLost == Spec => []NoLostWakeup
<1>1. Init => TypeInv /\ Tokens /\ NoLostWakeup
  <2>1. Init => NoLostWakeup
    BY DEF Init, NoLostWakeup
  <2>2. QED
    BY <2>1, TypeInit, TokensInit
<1>2. TypeInv /\ Tokens /\ NoLostWakeup /\ [Next]_vars
        => (TypeInv /\ Tokens /\ NoLostWakeup)'
  BY TypeStep, TokensStep, WakeupStep
<1>3. QED
  BY <1>1, <1>2, PTL DEF Spec

-----------------------------------------------------------------------------
(* The promises: who moves, and who does not                               *)

\* A step of thread t moves no other thread ...
OthersStay(t) == \A s \in Threads \ {t} : pc'[s] = pc[s] /\ ret'[s] = ret[s]

\* ... and takes, redispatches or retires no token.
SameCur == \A w \in Workers : cur'[w] = cur[w]

-----------------------------------------------------------------------------
(* Execution                                                               *)

Settling == {"recheck", "reclaim", "retire"}

\* At l a worker that executes an actor may take its messages, s being its stopped_.
Allows(l, s) == l # "release" /\ (l \in {"permit", "run"} => ~s)

\* A step of thread t that neither changes a mailbox nor begins or ends an execution.
Calm(t) ==
    /\ OthersStay(t) /\ SameCur /\ UNCHANGED <<mail, stopped>>
    /\ pc'[t] \in Settling <=> pc[t] \in Settling
    /\ t \in Workers /\ Allows(pc'[t], stopped[cur[t]]) => Allows(pc[t], stopped[cur[t]])

-----------------------------------------------------------------------------
(* Accounting                                                              *)

\* No push is ever refused: a queue has room for the tokens of all actors, and no pop
\* is preempted for a whole lap of the ring.
Roomy == QueueCapacity >= Cardinality(Actors) /\ ~StalledPop

NothingPended == pended = <<>> /\ \A t \in Threads : pc[t] \notin {"pend", "drainCount"}

Balance(n, entries, busy, again, uncounted) ==
    /\ IsFiniteSet(entries) /\ IsFiniteSet(busy) /\ IsFiniteSet(again)
    /\ IsFiniteSet(uncounted)
    /\ n = Cardinality(entries) + Cardinality(busy) + Cardinality(again)
           - Cardinality(uncounted)

Balanced == Balance(pendingWork, QueueEntries, Busy, Redispatching, Uncounted)

CountInv == NothingPended /\ Balanced

Again(l, r) == l \in {"route", "push"} /\ r = "top"

ToCount(l, r) == (l = "signal" /\ r # "top") \/ l = "count"

\* A step of thread t that queues and counts nothing.
Quiet(t) ==
    /\ OthersStay(t) /\ SameCur /\ UNCHANGED <<queue, pended, pendingWork>>
    /\ Again(pc'[t], ret'[t]) <=> Again(pc[t], ret[t])
    /\ ToCount(pc'[t], ret'[t]) <=> ToCount(pc[t], ret[t])
    /\ pc'[t] \notin {"pend", "drainCount"}

-----------------------------------------------------------------------------
(* The drain                                                               *)

Late == {"stopping", "waking", "joining", "joined", "stopped"}

ExitPCs == {"null", "drainPended", "exitCheck", "done"}

\* Nobody sends any more once stop() has begun, which lowers and raises the flags at once.
FlagsFollowMain ==
    /\ main # "stopping"
    /\ main \in Late => \A p \in Producers : pc[p] = "idle"
    /\ running <=> main \in {"starting", "up"}
    /\ draining <=> main \in {"waking", "joining", "joined"}
    /\ main \notin {"starting", "joining"} => next = 0

\* Workers are started and joined in order.
WorkersFollowMain ==
    /\ main = "starting" => \A w \in Workers : w < next => wrun[w]
    /\ main = "up" => \A w \in Workers : wrun[w]
    /\ main = "joining" => \A w \in Workers : w < next => pc[w] = "done"
    /\ main \in {"joined", "stopped"} => \A w \in Workers : pc[w] = "done"

\* A worker leaves only in a drain, and the last one leaves nothing.
LeavesNothing ==
    /\ (\E w \in Workers : pc[w] \in ExitPCs) => main \in Late
    /\ (\A w \in Workers : pc[w] \in ExitPCs) => \A w \in Workers : queue[w] = <<>>

NoMessageLeft ==
    main \in {"joined", "stopped"} => \A a \in Actors : mail[a] = 0 \/ stopped[a]

DrainInv == FlagsFollowMain /\ WorkersFollowMain /\ LeavesNothing /\ NoMessageLeft

\* acquire returns nullptr, or runLoop ends.
MayLeave(w) ==
    \/ pc[w] = "top" /\ ~wrun[w] /\ ~draining
    \/ /\ pc[w] = "loop"
       /\ (~running /\ ~draining) \/ (draining /\ pendingWork = 0)

\* A step of a thread t that has not left, and sends only when it may.
Moves(t) ==
    /\ OthersStay(t) /\ UNCHANGED <<running, draining, wrun, main, next>>
    /\ pc[t] # "done" /\ pc[t] # "off" /\ (pc[t] = "idle" => main = "up" \/ LateProducers)
    /\ pc'[t] \in ExitPCs =>
          /\ t \in Workers /\ UNCHANGED queue
          /\ pc[t] \in ExitPCs \/ MayLeave(t)

-----------------------------------------------------------------------------
(* The steps that change which token a worker has                          *)

OtherCursStay(w) == \A v \in Workers \ {w} : cur'[v] = cur[v]

SameElse == UNCHANGED <<mail, stopped, pended, running, draining, wrun, main, next>>

\* Worker w pops the head of v's queue.
Taken(w, v) ==
    /\ pc[w] \in {"top", "spin", "poll", "steal"} /\ pc'[w] \in {"run", "permit"}
    /\ ret'[w] = ret[w] /\ OthersStay(w) /\ OtherCursStay(w)
    /\ cur'[w] = Head(queue[v])
    /\ queue[v] # <<>> /\ queue' = [queue EXCEPT ![v] = Tail(@)]
    /\ SameElse /\ UNCHANGED pendingWork

\* Worker w wins the slot again and redispatches.
Redispatched(w) ==
    /\ pc[w] = "reclaim" /\ pc'[w] = "route" /\ ret'[w] = "top"
    /\ OthersStay(w) /\ OtherCursStay(w) /\ cur'[w] = None
    /\ SameElse /\ UNCHANGED <<queue, pendingWork>>

\* Worker w retires its token.
Retired(w) ==
    /\ pc[w] = "retire" /\ pc'[w] \in {"wake", "top"} /\ ret'[w] = ret[w]
    /\ OthersStay(w) /\ OtherCursStay(w) /\ cur'[w] = None
    /\ pendingWork' = pendingWork - 1
    /\ SameElse /\ UNCHANGED queue

-----------------------------------------------------------------------------
(* What the steps of the threads do                                        *)

\* The kind of Enqueue: it changes no mailbox, no queue and no count.
LEMMA EnqueueKind ==
    ASSUME TypeInv, NEW t \in Threads, NEW a \in Actors, Enqueue(t, a)
    PROVE  Calm(t) /\ Quiet(t) /\ Moves(t)
<1>1. LocalOK /\ t \in Threads /\ RegistersOK(t)
  BY ThreadsFact DEF TypeInv, TypeOK, LocalOK
<1>2. /\ pc'[t] = "publish" /\ ret'[t] = pc[t] /\ pc[t] \in {"idle", "handle", "failed"}
      /\ pc[t] = "idle" => main = "up" \/ LateProducers
      /\ t \in Workers => pc[t] # "idle"
  BY <1>1, ThreadsFact DEF LocalOK, Enqueue, MaySend, Goto, localVars, RegistersOK,
     WorkerRegisters, ProducerRegisters, EnqueuePCs, TokenPCs, FreePCs
<1>3. OthersStay(t) /\ SameCur
  BY <1>1, ThreadsFact DEF OthersStay, SameCur, LocalOK, Enqueue, MaySend, Goto, localVars
<1>4. UNCHANGED <<mail, stopped, queue, pended, pendingWork, running, draining, wrun, main, next>>
  BY DEF Enqueue, actorVars, queueVars, flagVars, mainVars
<1>5. QED
  BY <1>1, <1>2, <1>3, <1>4
  DEF LocalOK, Calm, Settling, Allows, EnqueuePCs, Quiet, Again, ToCount, Moves, ExitPCs

\* The kind of EnqueueDrop: it changes no mailbox, no queue and no count.
LEMMA EnqueueDropKind ==
    ASSUME TypeInv, NEW t \in Threads, NEW a \in Actors, EnqueueDrop(t, a)
    PROVE  Calm(t) /\ Quiet(t) /\ Moves(t)
<1>1. LocalOK /\ t \in Threads /\ RegistersOK(t)
  BY ThreadsFact DEF TypeInv, TypeOK, LocalOK
<1>2. /\ pc'[t] = pc[t] /\ ret'[t] = ret[t] /\ pc[t] \in {"idle", "handle", "failed"}
      /\ pc[t] = "idle" => main = "up" \/ LateProducers
  BY <1>1, ThreadsFact DEF LocalOK, EnqueueDrop, MaySend, localVars, RegistersOK,
     WorkerRegisters, ProducerRegisters, EnqueuePCs, TokenPCs, FreePCs
<1>3. OthersStay(t) /\ SameCur
  BY <1>1, ThreadsFact DEF OthersStay, SameCur, LocalOK, EnqueueDrop, MaySend, localVars
<1>4. UNCHANGED <<mail, stopped, queue, pended, pendingWork, running, draining, wrun, main, next>>
  BY DEF EnqueueDrop, actorVars, queueVars, flagVars, mainVars
<1>5. QED
  BY <1>1, <1>2, <1>3, <1>4
  DEF LocalOK, Calm, Settling, Allows, EnqueuePCs, Quiet, Again, ToCount, Moves, ExitPCs

\* The kind of Publish: it queues and counts nothing.
LEMMA PublishKind ==
    ASSUME TypeInv, NEW t \in Threads, Publish(t)
    PROVE  Quiet(t) /\ Moves(t)
<1>1. LocalOK /\ t \in Threads /\ RegistersOK(t)
  BY ThreadsFact DEF TypeInv, TypeOK, LocalOK
<1>2. /\ pc[t] = "publish" /\ pc'[t] = "dispatch" /\ ret'[t] = ret[t]
  BY <1>1 DEF LocalOK, Publish, Goto, localVars
<1>3. OthersStay(t) /\ SameCur
  BY <1>1, ThreadsFact DEF OthersStay, SameCur, LocalOK, Publish, Goto, localVars
<1>4. UNCHANGED <<stopped, queue, pended, pendingWork, running, draining, wrun, main, next>>
  BY DEF Publish, actorVars, queueVars, flagVars, mainVars
<1>5. QED
  BY <1>1, <1>2, <1>3, <1>4
  DEF LocalOK, Quiet, Again, ToCount, Moves, ExitPCs

\* The kind of Dispatch: it changes no mailbox, no queue and no count.
LEMMA DispatchKind ==
    ASSUME TypeInv, NEW t \in Threads, Dispatch(t)
    PROVE  Calm(t) /\ Quiet(t) /\ Moves(t)
<1>1. LocalOK /\ t \in Threads /\ RegistersOK(t)
  BY ThreadsFact DEF TypeInv, TypeOK, LocalOK
<1>2. /\ pc[t] = "dispatch"
      /\ \/ pc'[t] = ret[t] /\ ret'[t] = "idle" /\ ret[t] # "top"
         \/ pc'[t] = "route" /\ ret'[t] = ret[t] /\ ret[t] # "top"
  BY <1>1, ThreadsFact DEF LocalOK, Dispatch, Goto, Return, localVars, RegistersOK,
     WorkerRegisters, ProducerRegisters, EnqueuePCs, TokenPCs, FreePCs
<1>3. OthersStay(t) /\ SameCur
  BY <1>1, ThreadsFact DEF OthersStay, SameCur, LocalOK, Dispatch, Goto, Return, localVars
<1>4. UNCHANGED <<mail, stopped, queue, pended, pendingWork, running, draining, wrun, main, next>>
  BY DEF Dispatch, actorVars, queueVars, flagVars, mainVars
<1>5. QED
  BY <1>1, <1>2, <1>3, <1>4
  DEF LocalOK, Calm, Settling, Allows, EnqueuePCs, Quiet, Again, ToCount, Moves, ExitPCs

\* The kind of Route: it changes no mailbox, no queue and no count.
LEMMA RouteKind ==
    ASSUME TypeInv, NEW t \in Threads, Route(t)
    PROVE  Calm(t) /\ Quiet(t) /\ Moves(t)
<1>1. LocalOK /\ t \in Threads /\ RegistersOK(t)
  BY ThreadsFact DEF TypeInv, TypeOK, LocalOK
<1>2. /\ pc[t] = "route" /\ pc'[t] = "push" /\ ret'[t] = ret[t]
  BY <1>1 DEF LocalOK, Route, Goto, localVars
<1>3. OthersStay(t) /\ SameCur
  BY <1>1, ThreadsFact DEF OthersStay, SameCur, LocalOK, Route, Goto, localVars
<1>4. UNCHANGED <<mail, stopped, queue, pended, pendingWork, running, draining, wrun, main, next>>
  BY DEF Route, actorVars, queueVars, flagVars, mainVars
<1>5. QED
  BY <1>1, <1>2, <1>3, <1>4
  DEF LocalOK, Calm, Settling, Allows, EnqueuePCs, Quiet, Again, ToCount, Moves, ExitPCs

\* The kind of Push: it begins and ends no execution.
LEMMA PushKind ==
    ASSUME TypeInv, NEW t \in Threads, Push(t)
    PROVE  Calm(t) /\ Moves(t)
<1>1. LocalOK /\ t \in Threads /\ RegistersOK(t)
  BY ThreadsFact DEF TypeInv, TypeOK, LocalOK
<1>2. /\ pc[t] = "push" /\ pc'[t] = "signal" /\ ret'[t] = ret[t]
  BY <1>1 DEF LocalOK, Push, Goto, localVars
<1>3. OthersStay(t) /\ SameCur
  BY <1>1, ThreadsFact DEF OthersStay, SameCur, LocalOK, Push, Goto, localVars
<1>4. UNCHANGED <<mail, stopped, pended, pendingWork, running, draining, wrun, main, next>>
  BY DEF Push, actorVars, queueVars, flagVars, mainVars
<1>5. QED
  BY <1>1, <1>2, <1>3, <1>4
  DEF LocalOK, Calm, Settling, Allows, EnqueuePCs, Moves, ExitPCs

\* The kind of PushFail: it begins and ends no execution.
LEMMA PushFailKind ==
    ASSUME TypeInv, NEW t \in Threads, PushFail(t)
    PROVE  Calm(t)
<1>1. LocalOK /\ t \in Threads /\ RegistersOK(t)
  BY ThreadsFact DEF TypeInv, TypeOK, LocalOK
<1>2. /\ pc[t] = "push" /\ pc'[t] = "pend" /\ ret'[t] = ret[t]
  BY <1>1 DEF LocalOK, PushFail, Goto, localVars
<1>3. OthersStay(t) /\ SameCur
  BY <1>1, ThreadsFact DEF OthersStay, SameCur, LocalOK, PushFail, Goto, localVars
<1>4. UNCHANGED <<mail, stopped, queue, pended, pendingWork, running, draining, wrun, main, next>>
  BY DEF PushFail, actorVars, queueVars, flagVars, mainVars
<1>5. QED
  BY <1>1, <1>2, <1>3, <1>4
  DEF LocalOK, Calm, Settling, Allows, EnqueuePCs

\* The kind of Pend: it begins and ends no execution.
LEMMA PendKind ==
    ASSUME TypeInv, NEW t \in Threads, Pend(t)
    PROVE  Calm(t)
<1>1. LocalOK /\ t \in Threads /\ RegistersOK(t)
  BY ThreadsFact DEF TypeInv, TypeOK, LocalOK
<1>2. /\ pc[t] = "pend" /\ pc'[t] = ret[t] /\ ret'[t] = "idle"
  BY <1>1, ThreadsFact DEF LocalOK, Pend, Return, localVars, RegistersOK, WorkerRegisters,
     ProducerRegisters, EnqueuePCs, TokenPCs, FreePCs
<1>3. OthersStay(t) /\ SameCur
  BY <1>1, ThreadsFact DEF OthersStay, SameCur, LocalOK, Pend, Return, localVars
<1>4. UNCHANGED <<mail, stopped, queue, pendingWork, running, draining, wrun, main, next>>
  BY DEF Pend, actorVars, queueVars, flagVars, mainVars
<1>5. QED
  BY <1>1, <1>2, <1>3, <1>4
  DEF LocalOK, Calm, Settling, Allows, EnqueuePCs

\* The kind of Signal: it changes no mailbox, no queue and no count.
LEMMA SignalKind ==
    ASSUME TypeInv, NEW t \in Threads, Signal(t)
    PROVE  Calm(t) /\ Quiet(t) /\ Moves(t)
<1>1. LocalOK /\ t \in Threads /\ RegistersOK(t)
  BY ThreadsFact DEF TypeInv, TypeOK, LocalOK
<1>2. /\ pc[t] = "signal"
      /\ \/ ret[t] = "top" /\ pc'[t] = "top" /\ ret'[t] = "idle"
         \/ ret[t] # "top" /\ pc'[t] = "count" /\ ret'[t] = ret[t]
  BY <1>1, ThreadsFact DEF LocalOK, Signal, Goto, Return, localVars, RegistersOK,
     WorkerRegisters, ProducerRegisters, EnqueuePCs, TokenPCs, FreePCs
<1>3. OthersStay(t) /\ SameCur
  BY <1>1, ThreadsFact DEF OthersStay, SameCur, LocalOK, Signal, Goto, Return, localVars
<1>4. UNCHANGED <<mail, stopped, queue, pended, pendingWork, running, draining, wrun, main, next>>
  BY DEF Signal, actorVars, queueVars, flagVars, mainVars
<1>5. QED
  BY <1>1, <1>2, <1>3, <1>4
  DEF LocalOK, Calm, Settling, Allows, EnqueuePCs, Quiet, Again, ToCount, Moves, ExitPCs

\* The kind of Count: it begins and ends no execution.
LEMMA CountKind ==
    ASSUME TypeInv, NEW t \in Threads, Count(t)
    PROVE  Calm(t) /\ Moves(t)
<1>1. LocalOK /\ t \in Threads /\ RegistersOK(t)
  BY ThreadsFact DEF TypeInv, TypeOK, LocalOK
<1>2. /\ pc[t] = "count" /\ pc'[t] = ret[t] /\ ret'[t] = "idle"
  BY <1>1, ThreadsFact DEF LocalOK, Count, Return, localVars, RegistersOK, WorkerRegisters,
     ProducerRegisters, EnqueuePCs, TokenPCs, FreePCs
<1>3. OthersStay(t) /\ SameCur
  BY <1>1, ThreadsFact DEF OthersStay, SameCur, LocalOK, Count, Return, localVars
<1>4. UNCHANGED <<mail, stopped, queue, pended, running, draining, wrun, main, next>>
  BY DEF Count, actorVars, queueVars, flagVars, mainVars
<1>5. QED
  BY <1>1, <1>2, <1>3, <1>4
  DEF LocalOK, Calm, Settling, Allows, EnqueuePCs, Moves, ExitPCs

\* The kind of Loop: it changes no mailbox, no queue and no count.
LEMMA LoopKind ==
    ASSUME TypeInv, NEW t \in Workers, Loop(t)
    PROVE  Calm(t) /\ Quiet(t) /\ Moves(t)
<1>1. LocalOK /\ t \in Threads /\ RegistersOK(t)
  BY ThreadsFact DEF TypeInv, TypeOK, LocalOK
<1>2. /\ pc[t] = "loop" /\ pc'[t] \in {"null", "spin", "park"} /\ ret'[t] = ret[t]
      /\ pc'[t] = "null" => MayLeave(t)
  BY <1>1 DEF LocalOK, Loop, Goto, MayLeave, localVars
<1>3. OthersStay(t) /\ SameCur
  BY <1>1, ThreadsFact DEF OthersStay, SameCur, LocalOK, Loop, Goto, MayLeave, localVars
<1>4. UNCHANGED <<mail, stopped, queue, pended, pendingWork, running, draining, wrun, main, next>>
  BY DEF Loop, actorVars, queueVars, flagVars, mainVars
<1>5. QED
  BY <1>1, <1>2, <1>3, <1>4
  DEF LocalOK, Calm, Settling, Allows, EnqueuePCs, Quiet, Again, ToCount, Moves, ExitPCs

\* The kind of ParkWake: it changes no mailbox, no queue and no count.
LEMMA ParkWakeKind ==
    ASSUME TypeInv, NEW t \in Workers, ParkWake(t)
    PROVE  Calm(t) /\ Quiet(t) /\ Moves(t)
<1>1. LocalOK /\ t \in Threads /\ RegistersOK(t)
  BY ThreadsFact DEF TypeInv, TypeOK, LocalOK
<1>2. /\ pc[t] = "park" /\ pc'[t] = "poll" /\ ret'[t] = ret[t]
  BY <1>1 DEF LocalOK, ParkWake, Goto, localVars
<1>3. OthersStay(t) /\ SameCur
  BY <1>1, ThreadsFact DEF OthersStay, SameCur, LocalOK, ParkWake, Goto, localVars
<1>4. UNCHANGED <<mail, stopped, queue, pended, pendingWork, running, draining, wrun, main, next>>
  BY DEF ParkWake, actorVars, queueVars, flagVars, mainVars
<1>5. QED
  BY <1>1, <1>2, <1>3, <1>4
  DEF LocalOK, Calm, Settling, Allows, EnqueuePCs, Quiet, Again, ToCount, Moves, ExitPCs

\* The kind of ParkTimeout: it changes no mailbox, no queue and no count.
LEMMA ParkTimeoutKind ==
    ASSUME TypeInv, NEW t \in Workers, ParkTimeout(t)
    PROVE  Calm(t) /\ Quiet(t) /\ Moves(t)
<1>1. LocalOK /\ t \in Threads /\ RegistersOK(t)
  BY ThreadsFact DEF TypeInv, TypeOK, LocalOK
<1>2. /\ pc[t] = "park" /\ pc'[t] = "steal" /\ ret'[t] = ret[t]
  BY <1>1 DEF LocalOK, ParkTimeout, Goto, localVars
<1>3. OthersStay(t) /\ SameCur
  BY <1>1, ThreadsFact DEF OthersStay, SameCur, LocalOK, ParkTimeout, Goto, localVars
<1>4. UNCHANGED <<mail, stopped, queue, pended, pendingWork, running, draining, wrun, main, next>>
  BY DEF ParkTimeout, actorVars, queueVars, flagVars, mainVars
<1>5. QED
  BY <1>1, <1>2, <1>3, <1>4
  DEF LocalOK, Calm, Settling, Allows, EnqueuePCs, Quiet, Again, ToCount, Moves, ExitPCs

\* The kind of StealPermit: it changes no mailbox, no queue and no count.
LEMMA StealPermitKind ==
    ASSUME TypeInv, NEW t \in Workers, StealPermit(t)
    PROVE  Calm(t) /\ Quiet(t) /\ Moves(t)
<1>1. LocalOK /\ t \in Threads /\ RegistersOK(t)
  BY ThreadsFact DEF TypeInv, TypeOK, LocalOK
<1>2. /\ pc[t] = "permit" /\ pc'[t] = "run" /\ ret'[t] = ret[t]
  BY <1>1 DEF LocalOK, StealPermit, Goto, localVars
<1>3. OthersStay(t) /\ SameCur
  BY <1>1, ThreadsFact DEF OthersStay, SameCur, LocalOK, StealPermit, Goto, localVars
<1>4. UNCHANGED <<mail, stopped, queue, pended, pendingWork, running, draining, wrun, main, next>>
  BY DEF StealPermit, actorVars, queueVars, flagVars, mainVars
<1>5. QED
  BY <1>1, <1>2, <1>3, <1>4
  DEF LocalOK, Calm, Settling, Allows, EnqueuePCs, Quiet, Again, ToCount, Moves, ExitPCs

\* The kind of LockPended: it changes no mailbox, no queue and no count.
LEMMA LockPendedKind ==
    ASSUME TypeInv, NEW t \in Workers, LockPended(t)
    PROVE  Calm(t) /\ Quiet(t) /\ Moves(t)
<1>1. LocalOK /\ t \in Threads /\ RegistersOK(t)
  BY ThreadsFact DEF TypeInv, TypeOK, LocalOK
<1>2. /\ pc[t] = "null" /\ pc'[t] = "drainPended" /\ ret'[t] = ret[t]
  BY <1>1 DEF LocalOK, LockPended, Goto, localVars
<1>3. OthersStay(t) /\ SameCur
  BY <1>1, ThreadsFact DEF OthersStay, SameCur, LocalOK, LockPended, Goto, localVars
<1>4. UNCHANGED <<mail, stopped, queue, pended, pendingWork, running, draining, wrun, main, next>>
  BY DEF LockPended, actorVars, queueVars, flagVars, mainVars
<1>5. QED
  BY <1>1, <1>2, <1>3, <1>4
  DEF LocalOK, Calm, Settling, Allows, EnqueuePCs, Quiet, Again, ToCount, Moves, ExitPCs

\* The kind of DrainPended: it begins and ends no execution.
LEMMA DrainPendedKind ==
    ASSUME TypeInv, NEW t \in Workers, DrainPended(t)
    PROVE  Calm(t)
<1>1. LocalOK /\ t \in Threads /\ RegistersOK(t)
  BY ThreadsFact DEF TypeInv, TypeOK, LocalOK
<1>2. /\ pc[t] = "drainPended" /\ pc'[t] \in {"drainCount", "drainPended"} /\ ret'[t] = ret[t]
  BY <1>1 DEF LocalOK, DrainPended, Goto, localVars
<1>3. OthersStay(t) /\ SameCur
  BY <1>1, ThreadsFact DEF OthersStay, SameCur, LocalOK, DrainPended, Goto, localVars
<1>4. UNCHANGED <<mail, stopped, pendingWork, running, draining, wrun, main, next>>
  BY DEF DrainPended, actorVars, queueVars, flagVars, mainVars
<1>5. QED
  BY <1>1, <1>2, <1>3, <1>4
  DEF LocalOK, Calm, Settling, Allows, EnqueuePCs

\* The kind of DrainCount: it begins and ends no execution.
LEMMA DrainCountKind ==
    ASSUME TypeInv, NEW t \in Workers, DrainCount(t)
    PROVE  Calm(t)
<1>1. LocalOK /\ t \in Threads /\ RegistersOK(t)
  BY ThreadsFact DEF TypeInv, TypeOK, LocalOK
<1>2. /\ pc[t] = "drainCount" /\ pc'[t] = "drainPended" /\ ret'[t] = ret[t]
  BY <1>1 DEF LocalOK, DrainCount, Goto, localVars
<1>3. OthersStay(t) /\ SameCur
  BY <1>1, ThreadsFact DEF OthersStay, SameCur, LocalOK, DrainCount, Goto, localVars
<1>4. UNCHANGED <<mail, stopped, queue, pended, running, draining, wrun, main, next>>
  BY DEF DrainCount, actorVars, queueVars, flagVars, mainVars
<1>5. QED
  BY <1>1, <1>2, <1>3, <1>4
  DEF LocalOK, Calm, Settling, Allows, EnqueuePCs

\* The kind of DrainDone: it changes no mailbox, no queue and no count.
LEMMA DrainDoneKind ==
    ASSUME TypeInv, NEW t \in Workers, DrainDone(t)
    PROVE  Calm(t) /\ Quiet(t) /\ Moves(t)
<1>1. LocalOK /\ t \in Threads /\ RegistersOK(t)
  BY ThreadsFact DEF TypeInv, TypeOK, LocalOK
<1>2. /\ pc[t] = "drainPended" /\ pc'[t] = "exitCheck" /\ ret'[t] = ret[t]
  BY <1>1 DEF LocalOK, DrainDone, Goto, localVars
<1>3. OthersStay(t) /\ SameCur
  BY <1>1, ThreadsFact DEF OthersStay, SameCur, LocalOK, DrainDone, Goto, localVars
<1>4. UNCHANGED <<mail, stopped, queue, pended, pendingWork, running, draining, wrun, main, next>>
  BY DEF DrainDone, actorVars, queueVars, flagVars, mainVars
<1>5. QED
  BY <1>1, <1>2, <1>3, <1>4
  DEF LocalOK, Calm, Settling, Allows, EnqueuePCs, Quiet, Again, ToCount, Moves, ExitPCs

\* The kind of ExitCheck: it changes no mailbox, no queue and no count.
LEMMA ExitCheckKind ==
    ASSUME TypeInv, NEW t \in Workers, ExitCheck(t)
    PROVE  Calm(t) /\ Quiet(t) /\ Moves(t)
<1>1. LocalOK /\ t \in Threads /\ RegistersOK(t)
  BY ThreadsFact DEF TypeInv, TypeOK, LocalOK
<1>2. /\ pc[t] = "exitCheck" /\ pc'[t] \in {"done", "top"} /\ ret'[t] = ret[t]
  BY <1>1 DEF LocalOK, ExitCheck, Goto, localVars
<1>3. OthersStay(t) /\ SameCur
  BY <1>1, ThreadsFact DEF OthersStay, SameCur, LocalOK, ExitCheck, Goto, localVars
<1>4. UNCHANGED <<mail, stopped, queue, pended, pendingWork, running, draining, wrun, main, next>>
  BY DEF ExitCheck, actorVars, queueVars, flagVars, mainVars
<1>5. QED
  BY <1>1, <1>2, <1>3, <1>4
  DEF LocalOK, Calm, Settling, Allows, EnqueuePCs, Quiet, Again, ToCount, Moves, ExitPCs

\* The kind of Run: it changes no mailbox, no queue and no count.
LEMMA RunKind ==
    ASSUME TypeInv, NEW t \in Workers, Run(t)
    PROVE  Calm(t) /\ Quiet(t) /\ Moves(t)
<1>1. LocalOK /\ t \in Threads /\ RegistersOK(t)
  BY ThreadsFact DEF TypeInv, TypeOK, LocalOK
<1>2. /\ pc[t] = "run" /\ pc'[t] \in {"release", "batch"} /\ ret'[t] = ret[t]
      /\ pc'[t] = "batch" => ~stopped[cur[t]]
  BY <1>1 DEF LocalOK, Run, Goto, localVars
<1>3. OthersStay(t) /\ SameCur
  BY <1>1, ThreadsFact DEF OthersStay, SameCur, LocalOK, Run, Goto, localVars
<1>4. UNCHANGED <<mail, stopped, queue, pended, pendingWork, running, draining, wrun, main, next>>
  BY DEF Run, actorVars, queueVars, flagVars, mainVars
<1>5. QED
  BY <1>1, <1>2, <1>3, <1>4
  DEF LocalOK, Calm, Settling, Allows, EnqueuePCs, Quiet, Again, ToCount, Moves, ExitPCs

\* The kind of BatchPop: it queues and counts nothing.
LEMMA BatchPopKind ==
    ASSUME TypeInv, NEW t \in Workers, BatchPop(t)
    PROVE  Quiet(t) /\ Moves(t)
<1>1. LocalOK /\ t \in Threads /\ RegistersOK(t)
  BY ThreadsFact DEF TypeInv, TypeOK, LocalOK
<1>2. /\ pc[t] = "batch" /\ pc'[t] = "handle" /\ ret'[t] = ret[t]
  BY <1>1 DEF LocalOK, BatchPop, Goto, localVars
<1>3. OthersStay(t) /\ SameCur
  BY <1>1, ThreadsFact DEF OthersStay, SameCur, LocalOK, BatchPop, Goto, localVars
<1>4. UNCHANGED <<stopped, queue, pended, pendingWork, running, draining, wrun, main, next>>
  BY DEF BatchPop, actorVars, queueVars, flagVars, mainVars
<1>5. QED
  BY <1>1, <1>2, <1>3, <1>4
  DEF LocalOK, Quiet, Again, ToCount, Moves, ExitPCs

\* The kind of BatchEnd: it changes no mailbox, no queue and no count.
LEMMA BatchEndKind ==
    ASSUME TypeInv, NEW t \in Workers, BatchEnd(t)
    PROVE  Calm(t) /\ Quiet(t) /\ Moves(t)
<1>1. LocalOK /\ t \in Threads /\ RegistersOK(t)
  BY ThreadsFact DEF TypeInv, TypeOK, LocalOK
<1>2. /\ pc[t] = "batch" /\ pc'[t] = "release" /\ ret'[t] = ret[t]
  BY <1>1 DEF LocalOK, BatchEnd, Goto, localVars
<1>3. OthersStay(t) /\ SameCur
  BY <1>1, ThreadsFact DEF OthersStay, SameCur, LocalOK, BatchEnd, Goto, localVars
<1>4. UNCHANGED <<mail, stopped, queue, pended, pendingWork, running, draining, wrun, main, next>>
  BY DEF BatchEnd, actorVars, queueVars, flagVars, mainVars
<1>5. QED
  BY <1>1, <1>2, <1>3, <1>4
  DEF LocalOK, Calm, Settling, Allows, EnqueuePCs, Quiet, Again, ToCount, Moves, ExitPCs

\* The kind of Handled: it changes no mailbox, no queue and no count.
LEMMA HandledKind ==
    ASSUME TypeInv, NEW t \in Workers, Handled(t)
    PROVE  Calm(t) /\ Quiet(t) /\ Moves(t)
<1>1. LocalOK /\ t \in Threads /\ RegistersOK(t)
  BY ThreadsFact DEF TypeInv, TypeOK, LocalOK
<1>2. /\ pc[t] = "handle" /\ pc'[t] = "batch" /\ ret'[t] = ret[t]
  BY <1>1 DEF LocalOK, Handled, Goto, localVars
<1>3. OthersStay(t) /\ SameCur
  BY <1>1, ThreadsFact DEF OthersStay, SameCur, LocalOK, Handled, Goto, localVars
<1>4. UNCHANGED <<mail, stopped, queue, pended, pendingWork, running, draining, wrun, main, next>>
  BY DEF Handled, actorVars, queueVars, flagVars, mainVars
<1>5. QED
  BY <1>1, <1>2, <1>3, <1>4
  DEF LocalOK, Calm, Settling, Allows, EnqueuePCs, Quiet, Again, ToCount, Moves, ExitPCs

\* The kind of Fails: it queues and counts nothing.
LEMMA FailsKind ==
    ASSUME TypeInv, NEW t \in Workers, Fails(t)
    PROVE  Quiet(t) /\ Moves(t)
<1>1. LocalOK /\ t \in Threads /\ RegistersOK(t)
  BY ThreadsFact DEF TypeInv, TypeOK, LocalOK
<1>2. /\ pc[t] \in {"handle", "failed"} /\ pc'[t] = "failed" /\ ret'[t] = ret[t]
  BY <1>1 DEF LocalOK, Fails, Goto, localVars
<1>3. OthersStay(t) /\ SameCur
  BY <1>1, ThreadsFact DEF OthersStay, SameCur, LocalOK, Fails, Goto, localVars
<1>4. UNCHANGED <<queue, pended, pendingWork, running, draining, wrun, main, next>>
  BY DEF Fails, actorVars, queueVars, flagVars, mainVars
<1>5. QED
  BY <1>1, <1>2, <1>3, <1>4
  DEF LocalOK, Quiet, Again, ToCount, Moves, ExitPCs

\* The kind of FailureHandled: it changes no mailbox, no queue and no count.
LEMMA FailureHandledKind ==
    ASSUME TypeInv, NEW t \in Workers, FailureHandled(t)
    PROVE  Calm(t) /\ Quiet(t) /\ Moves(t)
<1>1. LocalOK /\ t \in Threads /\ RegistersOK(t)
  BY ThreadsFact DEF TypeInv, TypeOK, LocalOK
<1>2. /\ pc[t] = "failed" /\ pc'[t] = "release" /\ ret'[t] = ret[t]
  BY <1>1 DEF LocalOK, FailureHandled, Goto, localVars
<1>3. OthersStay(t) /\ SameCur
  BY <1>1, ThreadsFact DEF OthersStay, SameCur, LocalOK, FailureHandled, Goto, localVars
<1>4. UNCHANGED <<mail, stopped, queue, pended, pendingWork, running, draining, wrun, main, next>>
  BY DEF FailureHandled, actorVars, queueVars, flagVars, mainVars
<1>5. QED
  BY <1>1, <1>2, <1>3, <1>4
  DEF LocalOK, Calm, Settling, Allows, EnqueuePCs, Quiet, Again, ToCount, Moves, ExitPCs

\* The kind of FailureCaught: it changes no mailbox, no queue and no count.
LEMMA FailureCaughtKind ==
    ASSUME TypeInv, NEW t \in Workers, FailureCaught(t)
    PROVE  Calm(t) /\ Quiet(t) /\ Moves(t)
<1>1. LocalOK /\ t \in Threads /\ RegistersOK(t)
  BY ThreadsFact DEF TypeInv, TypeOK, LocalOK
<1>2. /\ pc[t] = "failed" /\ pc'[t] = "batch" /\ ret'[t] = ret[t]
  BY <1>1 DEF LocalOK, FailureCaught, Goto, localVars
<1>3. OthersStay(t) /\ SameCur
  BY <1>1, ThreadsFact DEF OthersStay, SameCur, LocalOK, FailureCaught, Goto, localVars
<1>4. UNCHANGED <<mail, stopped, queue, pended, pendingWork, running, draining, wrun, main, next>>
  BY DEF FailureCaught, actorVars, queueVars, flagVars, mainVars
<1>5. QED
  BY <1>1, <1>2, <1>3, <1>4
  DEF LocalOK, Calm, Settling, Allows, EnqueuePCs, Quiet, Again, ToCount, Moves, ExitPCs

\* The kind of ReleaseInFlight: it queues and counts nothing.
LEMMA ReleaseInFlightKind ==
    ASSUME TypeInv, NEW t \in Workers, ReleaseInFlight(t)
    PROVE  Quiet(t) /\ Moves(t)
<1>1. LocalOK /\ t \in Threads /\ RegistersOK(t)
  BY ThreadsFact DEF TypeInv, TypeOK, LocalOK
<1>2. /\ pc[t] = "release" /\ pc'[t] = "recheck" /\ ret'[t] = ret[t]
  BY <1>1 DEF LocalOK, ReleaseInFlight, Goto, localVars
<1>3. OthersStay(t) /\ SameCur
  BY <1>1, ThreadsFact DEF OthersStay, SameCur, LocalOK, ReleaseInFlight, Goto, localVars
<1>4. UNCHANGED <<mail, stopped, queue, pended, pendingWork, running, draining, wrun, main, next>>
  BY DEF ReleaseInFlight, actorVars, queueVars, flagVars, mainVars
<1>5. QED
  BY <1>1, <1>2, <1>3, <1>4
  DEF LocalOK, Quiet, Again, ToCount, Moves, ExitPCs

\* The kind of Recheck: it changes no mailbox, no queue and no count.
LEMMA RecheckKind ==
    ASSUME TypeInv, NEW t \in Workers, Recheck(t)
    PROVE  Calm(t) /\ Quiet(t) /\ Moves(t)
<1>1. LocalOK /\ t \in Threads /\ RegistersOK(t)
  BY ThreadsFact DEF TypeInv, TypeOK, LocalOK
<1>2. /\ pc[t] = "recheck" /\ pc'[t] \in {"reclaim", "retire"} /\ ret'[t] = ret[t]
  BY <1>1 DEF LocalOK, Recheck, Goto, localVars
<1>3. OthersStay(t) /\ SameCur
  BY <1>1, ThreadsFact DEF OthersStay, SameCur, LocalOK, Recheck, Goto, localVars
<1>4. UNCHANGED <<mail, stopped, queue, pended, pendingWork, running, draining, wrun, main, next>>
  BY DEF Recheck, actorVars, queueVars, flagVars, mainVars
<1>5. QED
  BY <1>1, <1>2, <1>3, <1>4
  DEF LocalOK, Calm, Settling, Allows, EnqueuePCs, Quiet, Again, ToCount, Moves, ExitPCs

\* The kind of Wake: it changes no mailbox, no queue and no count.
LEMMA WakeKind ==
    ASSUME TypeInv, NEW t \in Workers, Wake(t)
    PROVE  Calm(t) /\ Quiet(t) /\ Moves(t)
<1>1. LocalOK /\ t \in Threads /\ RegistersOK(t)
  BY ThreadsFact DEF TypeInv, TypeOK, LocalOK
<1>2. /\ pc[t] = "wake" /\ pc'[t] = "top" /\ ret'[t] = ret[t]
  BY <1>1 DEF LocalOK, Wake, Goto, localVars
<1>3. OthersStay(t) /\ SameCur
  BY <1>1, ThreadsFact DEF OthersStay, SameCur, LocalOK, Wake, Goto, localVars
<1>4. UNCHANGED <<mail, stopped, queue, pended, pendingWork, running, draining, wrun, main, next>>
  BY DEF Wake, actorVars, queueVars, flagVars, mainVars
<1>5. QED
  BY <1>1, <1>2, <1>3, <1>4
  DEF LocalOK, Calm, Settling, Allows, EnqueuePCs, Quiet, Again, ToCount, Moves, ExitPCs

\* A pop that succeeds.
LEMMA TakeKind ==
    ASSUME TypeInv, NEW w \in Workers, NEW v \in Workers, NEW l \in {"run", "permit"},
           pc[w] \in {"top", "spin", "poll", "steal"}, Take(w, v, l),
           UNCHANGED <<actorVars, sema, pended, mutex, pendingWork, flagVars, mainVars, sent>>
    PROVE  Taken(w, v)
<1>1. LocalOK /\ w \in Threads
  BY ThreadsFact DEF TypeInv, TypeOK, LocalOK
<1>2. /\ pc'[w] = l /\ ret'[w] = ret[w] /\ OthersStay(w)
      /\ OtherCursStay(w) /\ cur'[w] = Head(queue[v])
  BY <1>1 DEF LocalOK, Take, Goto, OthersStay, OtherCursStay
<1>3. QED
  BY <1>2 DEF Take, Taken, SameElse, actorVars, flagVars, mainVars

\* A step of acquire that pops nothing.
LEMMA NothingKind ==
    ASSUME TypeInv, NEW w \in Workers, pc[w] \in {"top", "spin", "poll", "steal"},
           NEW l \in {"loop", "park", "steal", "done"}, Goto(w, l),
           l = "done" => MayLeave(w),
           UNCHANGED <<queue, cur, ret, actorVars, pended, pendingWork, flagVars, mainVars>>
    PROVE  Calm(w) /\ Quiet(w) /\ Moves(w)
<1>1. LocalOK /\ w \in Threads
  BY ThreadsFact DEF TypeInv, TypeOK, LocalOK
<1>2. pc'[w] = l /\ ret'[w] = ret[w] /\ OthersStay(w) /\ SameCur
  BY <1>1 DEF LocalOK, Goto, OthersStay, SameCur
<1>3. UNCHANGED <<mail, stopped, queue, pended, pendingWork, running, draining, wrun, main, next>>
  BY DEF actorVars, flagVars, mainVars
<1>4. QED
  BY <1>1, <1>2, <1>3
  DEF LocalOK, Calm, Settling, Allows, EnqueuePCs, Quiet, Again, ToCount, Moves, ExitPCs

\* Top, Spin, Poll and Steal pop a token or go on.
LEMMA AcquireKind ==
    ASSUME TypeInv, NEW w \in Workers, Top(w) \/ Spin(w) \/ Poll(w) \/ Steal(w)
    PROVE  \/ Calm(w) /\ Quiet(w) /\ Moves(w)
           \/ \E v \in Workers : Taken(w, v)
<1>1. LocalOK /\ w \in Threads
  BY ThreadsFact DEF TypeInv, TypeOK, LocalOK
<1>2. CASE Top(w)
  <2>1. /\ pc[w] = "top"
        /\ UNCHANGED <<actorVars, sema, pended, mutex, pendingWork, flagVars, mainVars, sent>>
    BY <1>2 DEF Top
  <2>2. CASE Take(w, w, "run")
    BY <2>1, <2>2, TakeKind
  <2>3. CASE TakeNothing(w, w, "loop")
    BY <2>1, <2>3, NothingKind DEF TakeNothing, localVars
  <2>4. CASE /\ ~wrun[w] /\ ~draining /\ Goto(w, "done")
             /\ UNCHANGED <<queue, localVars>>
    BY <2>1, <2>4, NothingKind DEF localVars, MayLeave
  <2>5. QED
    BY <1>2, <2>2, <2>3, <2>4 DEF Top
<1>3. CASE Spin(w)
  <2>1. /\ pc[w] = "spin"
        /\ UNCHANGED <<actorVars, sema, pended, mutex, pendingWork, flagVars, mainVars, sent>>
    BY <1>3 DEF Spin
  <2>2. CASE Take(w, w, "run")
    BY <2>1, <2>2, TakeKind
  <2>3. CASE Goto(w, "park") /\ UNCHANGED <<queue, localVars>>
    BY <2>1, <2>3, NothingKind DEF localVars
  <2>4. QED
    BY <1>3, <2>2, <2>3 DEF Spin, TakeNothing
<1>4. CASE Poll(w)
  <2>1. /\ pc[w] = "poll"
        /\ UNCHANGED <<actorVars, sema, pended, mutex, pendingWork, flagVars, mainVars, sent>>
    BY <1>4 DEF Poll
  <2>2. CASE Take(w, w, "run")
    BY <2>1, <2>2, TakeKind
  <2>3. CASE TakeNothing(w, w, "loop")
    BY <2>1, <2>3, NothingKind DEF TakeNothing, localVars
  <2>4. QED
    BY <1>4, <2>2, <2>3 DEF Poll
<1>5. CASE Steal(w)
  <2> DEFINE victim == (w + idx[w]) % NumWorkers
  <2>1. /\ pc[w] = "steal"
        /\ UNCHANGED <<actorVars, sema, pended, mutex, pendingWork, flagVars, mainVars, sent>>
    BY <1>5 DEF Steal
  <2>2. victim \in Workers
    BY <1>1, RoutingAssumption, WorkersFact DEF LocalOK, Workers
  <2> HIDE DEF victim
  <2>3. CASE Take(w, victim, "permit")
    BY <2>1, <2>2, <2>3, TakeKind
  <2>4. CASE UNCHANGED <<queue, cur, tgt, dst, ret, pc>>
    <3>1. Goto(w, "steal")
      BY <1>1, <2>1, <2>4 DEF LocalOK, Goto
    <3>2. QED
      BY <2>1, <2>4, <3>1, NothingKind
  <2>5. CASE Goto(w, "loop") /\ UNCHANGED <<queue, cur, tgt, dst, ret>>
    BY <2>1, <2>5, NothingKind
  <2>6. QED
    BY <1>5, <2>3, <2>4, <2>5 DEF Steal, victim
<1>6. QED
  BY <1>2, <1>3, <1>4, <1>5

\* Reclaim loses the slot to a dispatch or wins it.
LEMMA ReclaimKind ==
    ASSUME TypeInv, NEW w \in Workers, Reclaim(w)
    PROVE  (Calm(w) /\ Quiet(w) /\ Moves(w)) \/ Redispatched(w)
<1>1. LocalOK /\ w \in Threads
  BY ThreadsFact DEF TypeInv, TypeOK, LocalOK
<1>2. /\ pc[w] = "reclaim" /\ OthersStay(w)
      /\ \/ pc'[w] = "retire" /\ ret'[w] = ret[w] /\ SameCur
         \/ pc'[w] = "route" /\ ret'[w] = "top" /\ cur'[w] = None /\ OtherCursStay(w)
  BY <1>1, ThreadsFact DEF LocalOK, Reclaim, Goto, OthersStay, SameCur, OtherCursStay
<1>3. UNCHANGED <<mail, stopped, queue, pended, pendingWork, running, draining, wrun, main, next>>
  BY DEF Reclaim, queueVars, flagVars, mainVars
<1>4. CASE pc'[w] = "retire" /\ ret'[w] = ret[w] /\ SameCur
  BY <1>1, <1>2, <1>3, <1>4
  DEF LocalOK, Calm, Settling, Allows, EnqueuePCs, Quiet, Again, ToCount, Moves, ExitPCs
<1>5. CASE pc'[w] = "route" /\ ret'[w] = "top" /\ cur'[w] = None /\ OtherCursStay(w)
  BY <1>2, <1>3, <1>5 DEF Redispatched, SameElse
<1>6. QED
  BY <1>2, <1>4, <1>5

\* The effect of Retire.
LEMMA RetireKind ==
    ASSUME TypeInv, NEW w \in Workers, Retire(w)
    PROVE  Retired(w)
<1>1. LocalOK /\ w \in Threads
  BY ThreadsFact DEF TypeInv, TypeOK, LocalOK
<1>2. /\ pc[w] = "retire" /\ pc'[w] \in {"wake", "top"} /\ ret'[w] = ret[w]
      /\ OthersStay(w) /\ OtherCursStay(w) /\ cur'[w] = None
  BY <1>1, ThreadsFact DEF LocalOK, Retire, Goto, OthersStay, OtherCursStay
<1>3. QED
  BY <1>2 DEF Retire, Retired, SameElse, actorVars, flagVars, mainVars

\* What a step of any thread may be ...
ThreadKind(t) ==
    \/ Calm(t) /\ Quiet(t) /\ Moves(t)
    \/ Quiet(t) /\ Moves(t) /\ Publish(t)
    \/ Calm(t) /\ Moves(t) /\ (Push(t) \/ Count(t))
    \/ Calm(t) /\ (PushFail(t) \/ Pend(t))

\* ... and what else a step of a worker may be.
WorkerKind(w) ==
    \/ Quiet(w) /\ Moves(w) /\ (BatchPop(w) \/ Fails(w) \/ ReleaseInFlight(w))
    \/ Calm(w) /\ (DrainPended(w) \/ DrainCount(w))
    \/ \E v \in Workers : Taken(w, v)
    \/ Redispatched(w) \/ Retired(w)

\* Every step of the system is of one of these kinds.
LEMMA StepKind ==
    ASSUME TypeInv, Next
    PROVE  \/ \E t \in Threads : ThreadKind(t)
           \/ \E w \in Workers : WorkerKind(w)
           \/ MainStep
<1>1. ASSUME NEW t \in Threads, EnqueueStep(t) PROVE ThreadKind(t)
  <2>1. CASE (\E a \in Actors : Enqueue(t, a)) \/ (\E a \in Actors : EnqueueDrop(t, a))
    BY <2>1, EnqueueKind, EnqueueDropKind DEF ThreadKind
  <2>2. CASE Publish(t) \/ Push(t) \/ PushFail(t) \/ Pend(t) \/ Count(t)
    BY <2>2, PublishKind, PushKind, PushFailKind, PendKind, CountKind DEF ThreadKind
  <2>3. CASE Dispatch(t) \/ Route(t) \/ Signal(t)
    BY <2>3, DispatchKind, RouteKind, SignalKind DEF ThreadKind
  <2>4. QED
    BY <1>1, <2>1, <2>2, <2>3 DEF EnqueueStep
<1>2. ASSUME NEW w \in Workers, AcquireStep(w) PROVE ThreadKind(w) \/ WorkerKind(w)
  BY <1>2, AcquireKind, LoopKind, ParkWakeKind, ParkTimeoutKind, StealPermitKind
  DEF AcquireStep, ThreadKind, WorkerKind
<1>3. ASSUME NEW w \in Workers, NullStep(w) PROVE ThreadKind(w) \/ WorkerKind(w)
  BY <1>3, LockPendedKind, DrainPendedKind, DrainCountKind, DrainDoneKind, ExitCheckKind
  DEF NullStep, ThreadKind, WorkerKind
<1>4. ASSUME NEW w \in Workers, RunStep(w) PROVE ThreadKind(w) \/ WorkerKind(w)
  <2>1. CASE \/ Run(w) \/ BatchEnd(w) \/ Handled(w) \/ FailureHandled(w) \/ FailureCaught(w)
             \/ Recheck(w) \/ Wake(w)
    BY <2>1, RunKind, BatchEndKind, HandledKind, FailureHandledKind, FailureCaughtKind,
       RecheckKind, WakeKind
    DEF ThreadKind
  <2>2. CASE BatchPop(w) \/ Fails(w) \/ ReleaseInFlight(w) \/ Reclaim(w) \/ Retire(w)
    BY <2>2, BatchPopKind, FailsKind, ReleaseInFlightKind, ReclaimKind, RetireKind
    DEF ThreadKind, WorkerKind
  <2>3. QED
    BY <1>4, <2>1, <2>2 DEF RunStep
<1>5. QED
  BY <1>1, <1>2, <1>3, <1>4, ThreadsFact DEF Next, WorkerStep

\* The main thread starts workers and moves no other thread.
StartsOnly ==
    \A s \in Threads : pc'[s] = pc[s] \/ (s \in Workers /\ pc[s] = "off" /\ pc'[s] = "top")

\* ActorSystem::start and stop touch no message, no queue and no register.
LEMMA MainKind ==
    ASSUME TypeInv, MainStep
    PROVE  /\ StartsOnly
           /\ UNCHANGED <<mail, stopped, queue, pendingWork, ret, cur>>
           /\ pended' = pended \/ pended' = <<>>
<1>1. /\ LocalOK /\ next \in Workers
      /\ \A w \in Workers : main = "starting" /\ w >= next => pc[w] = "off"
  BY DEF TypeInv, TypeOK, LocalOK, StartOK
<1>2. /\ UNCHANGED <<mail, stopped, queue, pendingWork, ret, cur>>
      /\ pended' = pended \/ pended' = <<>>
  BY DEF MainStep, DispatcherStart, WorkerStart, StopRunning, RaiseDraining, WakeAll,
     WorkerStop,
     WorkerJoin, DispatcherStop, actorVars, queueVars, localVars
<1>3. CASE WorkerStart
  <2>1. pc' = [pc EXCEPT ![next] = "top"] /\ pc[next] = "off"
    BY <1>1, <1>3, WorkersFact DEF WorkerStart, Goto
  <2>2. StartsOnly
    BY <1>1, <2>1, ThreadsFact DEF LocalOK, StartsOnly
  <2>3. QED
    BY <1>2, <2>2
<1>4. CASE ~WorkerStart
  <2>1. UNCHANGED pc
    BY <1>4 DEF MainStep, DispatcherStart, StopRunning, RaiseDraining, WakeAll, WorkerStop,
       WorkerJoin, DispatcherStop
  <2>2. QED
    BY <1>2, <2>1 DEF StartsOnly
<1>5. QED
  BY <1>3, <1>4

-----------------------------------------------------------------------------
(* An actor has one owner                                                  *)

\* Who processes a batch has the actor's token.
LEMMA BatchExecutes ==
    ASSUME TypeInv, NEW w \in Workers, pc[w] \in {"batch", "handle", "failed", "release"}
    PROVE  /\ Executes(w) /\ cur[w] \in Actors
           /\ Takes(w) <=> pc[w] # "release"
<1>1. cur[w] \in Actors /\ pc[w] \notin Settling
  BY ThreadsFact DEF TypeInv, RegistersOK, WorkerRegisters, TokenPCs, Settling
<1>2. QED
  BY <1>1, DispatchAssumption DEF Executes, Takes, Settling

\* Owner names the worker that executes the actor.
OwnerRight ==
    /\ Owner \in [Actors -> Workers \cup {None}]
    /\ \A a \in Actors, w \in Workers : Owner[a] = w <=> Executes(w) /\ cur[w] = a

\* An actor executed by at most one worker has the owner that executes it ...
LEMMA OwnerFact == ExecuteDistinct => OwnerRight
<1> SUFFICES ASSUME ExecuteDistinct PROVE OwnerRight
  OBVIOUS
<1>1. ASSUME NEW a \in Actors
      PROVE  \/ /\ Executed(a)
                /\ Owner[a] \in Workers /\ Executes(Owner[a]) /\ cur[Owner[a]] = a
             \/ ~Executed(a) /\ Owner[a] = None
  <2>1. CASE Executed(a)
    BY <2>1, Zenon DEF Executed, Owner
  <2>2. CASE ~Executed(a)
    BY <2>2, Zenon DEF Owner
  <2>3. QED
    BY <2>1, <2>2
<1>2. Owner \in [Actors -> Workers \cup {None}]
  <2> DEFINE F(a) == IF Executed(a) THEN CHOOSE w \in Workers : Executes(w) /\ cur[w] = a
                                   ELSE None
  <2>1. Owner = [a \in Actors |-> F(a)]
    BY DEF Owner
  <2> HIDE DEF F
  <2>2. \A a \in Actors : Owner[a] \in Workers \cup {None}
    BY <1>1
  <2>3. QED
    BY <2>1, <2>2
<1>3. ASSUME NEW a \in Actors, NEW w \in Workers
      PROVE  Owner[a] = w <=> Executes(w) /\ cur[w] = a
  <2>1. None \notin Workers
    BY DispatchAssumption
  <2>2. ASSUME Executes(w), cur[w] = a PROVE Owner[a] = w
    <3>1. Executed(a)
      BY <2>2 DEF Executed
    <3>2. Owner[a] \in Workers /\ Executes(Owner[a]) /\ cur[Owner[a]] = a
      BY <1>1, <3>1
    <3>3. QED
      BY <2>2, <3>2 DEF ExecuteDistinct
  <2>3. ASSUME Owner[a] = w PROVE Executes(w) /\ cur[w] = a
    BY <1>1, <2>1, <2>3
  <2>4. QED
    BY <2>2, <2>3
<1>4. QED
  BY <1>2, <1>3 DEF OwnerRight

\* ... in the next state too.
LEMMA OwnerFactNext == ExecuteDistinct' => OwnerRight'
BY OwnerFact, PTL

\* The owners stay when no execution begins or ends.
LEMMA OwnerFrame ==
    ASSUME OwnerRight, OwnerRight', SameExecutes
    PROVE  UNCHANGED Owner
<1>1. ASSUME NEW a \in Actors PROVE Owner'[a] = Owner[a]
  <2>1. Owner[a] \in Workers \cup {None} /\ Owner'[a] \in Workers \cup {None}
    BY DEF OwnerRight
  <2>2. \A w \in Workers : Owner'[a] = w <=> Owner[a] = w
    BY DEF OwnerRight, SameExecutes
  <2>3. QED
    BY <2>1, <2>2
<1>2. QED
  BY <1>1 DEF OwnerRight

OtherExecutesStay(w) ==
    \A v \in Workers \ {w} : (Executes(v)' <=> Executes(v)) /\ (Executes(v) => cur'[v] = cur[v])

\* An execution begins ...
LEMMA OwnerBegins ==
    ASSUME OwnerRight, OwnerRight', NEW w \in Workers, NEW a \in Actors, OtherExecutesStay(w),
           ~Executes(w), Executes(w)', cur'[w] = a, ~Executed(a)
    PROVE  /\ Owner[a] = None /\ \A b \in Actors : Owner[b] # w
           /\ Owner' = [Owner EXCEPT ![a] = w]
<1>1. Owner[a] = None /\ \A b \in Actors : Owner[b] # w
  BY DEF OwnerRight, Executed
<1>2. Owner'[a] = w
  BY DEF OwnerRight
<1>3. ASSUME NEW b \in Actors, b # a PROVE Owner'[b] = Owner[b]
  <2>1. Owner[b] \in Workers \cup {None} /\ Owner'[b] \in Workers \cup {None}
    BY DEF OwnerRight
  <2>2. \A v \in Workers : Owner'[b] = v <=> Owner[b] = v
    BY <1>3 DEF OwnerRight, OtherExecutesStay
  <2>3. QED
    BY <2>1, <2>2
<1>4. QED
  BY <1>1, <1>2, <1>3 DEF OwnerRight

\* ... and ends.
LEMMA OwnerEnds ==
    ASSUME OwnerRight, OwnerRight', NEW w \in Workers, NEW a \in Actors, OtherExecutesStay(w),
           Executes(w), ~Executes(w)', cur[w] = a
    PROVE  Owner[a] # None /\ Owner' = [Owner EXCEPT ![a] = None]
<1>1. Owner[a] = w /\ None \notin Workers
  BY DispatchAssumption DEF OwnerRight
<1>2. ASSUME NEW v \in Workers PROVE Owner'[a] # v
  BY <1>1 DEF OwnerRight, OtherExecutesStay
<1>3. Owner'[a] = None
  BY <1>2 DEF OwnerRight
<1>4. ASSUME NEW b \in Actors, b # a PROVE Owner'[b] = Owner[b]
  <2>1. Owner[b] \in Workers \cup {None} /\ Owner'[b] \in Workers \cup {None}
    BY DEF OwnerRight
  <2>2. \A v \in Workers : Owner'[b] = v <=> Owner[b] = v
    BY <1>4 DEF OwnerRight, OtherExecutesStay
  <2>3. QED
    BY <2>1, <2>2
<1>5. QED
  BY <1>1, <1>3, <1>4 DEF OwnerRight

\* A step of thread t that stops no actor and changes no other thread's place or actor
\* leaves the other takers as they are.
LEMMA OthersTake ==
    ASSUME NEW t \in Threads, OthersStay(t), OtherCursStay(t), UNCHANGED stopped
    PROVE  \A v \in Workers \ {t} : Takes(v)' <=> Takes(v)
BY ThreadsFact DEF OthersStay, OtherCursStay, Takes, Executes

\* Nobody begins or ends to take messages.
LEMMA TakingFrame ==
    ASSUME \A w \in Workers : Takes(w)' <=> Takes(w)
    PROVE  UNCHANGED Taking
BY DEF Taking

\* Only worker w may begin or end to take messages.
LEMMA TakingMoves ==
    ASSUME NEW w \in Workers, \A v \in Workers \ {w} : Takes(v)' <=> Takes(v)
    PROVE  Taking' = IF Takes(w)' THEN Taking \cup {w} ELSE Taking \ {w}
BY DEF Taking

\* A step that enters and leaves no settling begins and ends no execution.
LEMMA CalmFrame ==
    ASSUME NEW t \in Threads, OthersStay(t), SameCur, pc'[t] \in Settling <=> pc[t] \in Settling
    PROVE  SameExecutes
BY ThreadsFact DEF OthersStay, SameCur, Settling, SameExecutes, Executes

\* Whatever else a thread does, at most it ends its own batch.
LEMMA CalmStep ==
    ASSUME OwnerRight, OwnerRight', NEW t \in Threads, Calm(t)
    PROVE  [Abstract!ANext]_(Abstract!aVars)
<1>1. SameExecutes /\ UNCHANGED <<Owner, mail, stopped>>
  BY CalmFrame, OwnerFrame DEF Calm
<1>2. \A v \in Workers \ {t} : Takes(v)' <=> Takes(v)
  BY OthersTake DEF Calm, SameCur, OtherCursStay
<1>3. CASE t \notin Workers
  BY <1>1, <1>2, <1>3, TakingFrame DEF Abstract!aVars
<1>4. CASE t \in Workers
  <2>1. Takes(t)' => Takes(t)
    BY <1>1, <1>4 DEF Calm, SameCur, SameExecutes, Takes, Allows
  <2>2. CASE Takes(t)' <=> Takes(t)
    BY <1>1, <1>2, <2>2, TakingFrame DEF Abstract!aVars
  <2>3. CASE Takes(t) /\ ~Takes(t)'
    <3>1. t \in Taking /\ Taking' = Taking \ {t}
      BY <1>2, <1>4, <2>3, TakingMoves DEF Taking
    <3>2. Abstract!Rest(t)
      BY <1>1, <3>1 DEF Abstract!Rest
    <3>3. QED
      BY <1>4, <3>2 DEF Abstract!ANext
  <2>4. QED
    BY <2>1, <2>2, <2>3
<1>5. QED
  BY <1>3, <1>4

\* The owner of the actor a worker executes is that worker.
LEMMA OwnedWhileExecuted ==
    ASSUME OwnerRight, NEW w \in Workers, Executes(w), cur[w] \in Actors
    PROVE  Owner[cur[w]] = w
<1>1. PICK a \in Actors : a = cur[w]
  OBVIOUS
<1>2. Owner[a] = w
  BY <1>1 DEF OwnerRight
<1>3. QED
  BY <1>1, <1>2

\* Every step of the engine is a step of ActorExecution or leaves it alone.
LEMMA OwnerStep ==
    ASSUME TypeInv, Tokens, [Next]_vars, OwnerRight, OwnerRight'
    PROVE  [Abstract!ANext]_(Abstract!aVars)
<1>a. LocalOK /\ mail \in [Actors -> Nat] /\ stopped \in [Actors -> BOOLEAN]
  BY DEF TypeInv, TypeOK, LocalOK
<1>1. ASSUME SameExecutes, UNCHANGED <<mail, stopped, Taking>>
      PROVE  [Abstract!ANext]_(Abstract!aVars)
  BY <1>1, OwnerFrame DEF Abstract!aVars
<1>2. ASSUME NEW t \in Threads, Calm(t) PROVE [Abstract!ANext]_(Abstract!aVars)
  BY <1>2, CalmStep
<1>3. ASSUME NEW t \in Threads, Quiet(t), Publish(t) PROVE [Abstract!ANext]_(Abstract!aVars)
  <2>1. /\ OthersStay(t) /\ SameCur /\ pc[t] = "publish" /\ pc'[t] = "dispatch"
        /\ mail' = [mail EXCEPT ![tgt[t]] = @ + 1] /\ UNCHANGED stopped
    BY <1>a, <1>3 DEF Quiet, Publish, Goto, LocalOK
  <2>2. UNCHANGED Owner
    BY <2>1, CalmFrame, OwnerFrame DEF Settling
  <2>3. \A w \in Workers : Takes(w)' <=> Takes(w)
    BY <2>1, ThreadsFact DEF OthersStay, SameCur, Takes, Executes
  <2>4. tgt[t] \in Actors
    BY <2>1 DEF TypeInv, RegistersOK, EnqueueRegisters, EnqueuePCs
  <2>5. Abstract!Accept(tgt[t])
    BY <2>1, <2>2, <2>3, TakingFrame DEF Abstract!Accept
  <2>6. QED
    BY <2>4, <2>5 DEF Abstract!ANext
<1>4. ASSUME NEW w \in Workers, Quiet(w), BatchPop(w) PROVE [Abstract!ANext]_(Abstract!aVars)
  <2>1. /\ OthersStay(w) /\ SameCur /\ pc[w] = "batch" /\ pc'[w] = "handle"
        /\ mail[cur[w]] > 0
        /\ mail' = [mail EXCEPT ![cur[w]] = @ - 1] /\ UNCHANGED stopped
    BY <1>a, <1>4, ThreadsFact DEF Quiet, BatchPop, Goto, LocalOK
  <2>2. UNCHANGED Owner
    BY <2>1, CalmFrame, OwnerFrame, ThreadsFact DEF Settling
  <2>3. \A v \in Workers : Takes(v)' <=> Takes(v)
    BY <2>1, ThreadsFact DEF OthersStay, SameCur, Takes, Executes
  <2>4. Executes(w) /\ cur[w] \in Actors /\ w \in Taking
    BY <2>1, BatchExecutes DEF Taking
  <2>5. Owner[cur[w]] \in Taking
    BY <2>4, OwnedWhileExecuted
  <2>6. Abstract!Consume(cur[w])
    BY <2>1, <2>2, <2>3, <2>5, TakingFrame DEF Abstract!Consume
  <2>7. QED
    BY <2>4, <2>6 DEF Abstract!ANext
<1>5. ASSUME NEW w \in Workers, Quiet(w), Fails(w)
      PROVE  [Abstract!ANext]_(Abstract!aVars)
  <2>1. /\ OthersStay(w) /\ SameCur
        /\ pc[w] \in {"handle", "failed"} /\ pc'[w] = "failed"
    BY <1>a, <1>5, ThreadsFact DEF Quiet, Fails, Goto, LocalOK
  <2>2. UNCHANGED Owner
    BY <2>1, CalmFrame, OwnerFrame, ThreadsFact DEF Settling
  <2>3. Executes(w) /\ cur[w] \in Actors /\ w \in Taking
    BY <2>1, BatchExecutes DEF Taking
  <2>4. Owner[cur[w]] \in Taking
    BY <2>3, OwnedWhileExecuted
  <2>5. \A a \in Actors \ {cur[w]} : stopped'[a] = stopped[a]
    BY <1>a, <1>5 DEF Fails
  <2>6. ASSUME NEW v \in Workers PROVE Takes(v)' <=> Takes(v)
    <3>1. cur'[v] = cur[v]
      BY <2>1 DEF SameCur
    <3>2. CASE v = w
      BY <2>1, <2>3, <3>1, <3>2 DEF Taking, Takes, Executes
    <3>3. CASE v # w /\ Executes(v)
      <4>1. cur[v] \in Actors \ {cur[w]}
        BY <1>a, <2>3, <3>3 DEF LocalOK, Executes, Tokens, TokenUnique, ExecuteDistinct
      <4>2. stopped'[cur[v]] = stopped[cur[v]] /\ pc'[v] = pc[v]
        BY <2>1, <2>5, <3>3, <4>1, ThreadsFact DEF OthersStay
      <4>3. QED
        BY <3>1, <4>2 DEF Takes, Executes
    <3>4. CASE v # w /\ ~Executes(v)
      BY <2>1, <3>1, <3>4, ThreadsFact DEF OthersStay, Takes, Executes
    <3>5. QED
      BY <3>2, <3>3, <3>4
  <2>7. \E left \in 0 .. mail[cur[w]] : mail' = [mail EXCEPT ![cur[w]] = left]
    BY <1>5 DEF Fails
  <2>8. \E d \in BOOLEAN : (stopped[cur[w]] => d) /\ stopped' = [stopped EXCEPT ![cur[w]] = d]
    <3>1. CASE UNCHANGED stopped
      <4>1. stopped[cur[w]] \in BOOLEAN
         /\ stopped' = [stopped EXCEPT ![cur[w]] = stopped[cur[w]]]
        BY <1>a, <2>3, <3>1
      <4>2. QED
        BY <4>1
    <3>2. CASE stopped' = [stopped EXCEPT ![cur[w]] = TRUE]
      BY <3>2
    <3>3. QED
      BY <1>5, <3>1, <3>2 DEF Fails
  <2>9. Abstract!Fail(cur[w])
    BY <2>2, <2>4, <2>6, <2>7, <2>8, TakingFrame DEF Abstract!Fail
  <2>10. QED
    BY <2>3, <2>9 DEF Abstract!ANext
<1>6. ASSUME NEW w \in Workers, Quiet(w), ReleaseInFlight(w)
      PROVE  [Abstract!ANext]_(Abstract!aVars)
  <2>1. /\ OthersStay(w) /\ SameCur /\ pc[w] = "release" /\ pc'[w] = "recheck"
        /\ UNCHANGED <<mail, stopped>>
    BY <1>a, <1>6, ThreadsFact DEF Quiet, ReleaseInFlight, Goto, LocalOK
  <2>2. Executes(w) /\ cur[w] \in Actors /\ ~Takes(w)
    BY <2>1, BatchExecutes
  <2>3. ~Executes(w)' /\ OtherExecutesStay(w)
    BY <2>1, ThreadsFact DEF Executes, OtherExecutesStay, OthersStay, SameCur
  <2>4. \A v \in Workers : Takes(v)' <=> Takes(v)
    BY <2>1, <2>2, <2>3, ThreadsFact, OthersTake DEF SameCur, OtherCursStay, Takes
  <2>5. Owner[cur[w]] \notin Taking
    BY <2>2, OwnedWhileExecuted DEF Taking
  <2>6. Abstract!End(cur[w])
    BY <2>1, <2>2, <2>3, <2>4, <2>5, OwnerEnds, TakingFrame DEF Abstract!End
  <2>7. QED
    BY <2>2, <2>6 DEF Abstract!ANext
<1>7. ASSUME NEW w \in Workers, NEW v \in Workers, Taken(w, v)
      PROVE  [Abstract!ANext]_(Abstract!aVars)
  <2>1. /\ OthersStay(w) /\ OtherCursStay(w) /\ pc'[w] \in {"run", "permit"}
        /\ cur'[w] = Head(queue[v]) /\ UNCHANGED <<mail, stopped>>
    BY <1>7 DEF Taken, SameElse
  <2>2. cur[w] = None
    BY <1>7, ThreadsFact DEF Taken, TypeInv, RegistersOK, WorkerRegisters, FreePCs
  <2>3. QueueOK /\ queue[v] # <<>> /\ queue' = [queue EXCEPT ![v] = Tail(@)]
    BY <1>7 DEF Taken, TypeInv, TypeOK, QueueOK
  <2>4. PICK h \in Actors : h = Head(queue[v])
    BY <2>3, HeadTailProperties DEF QueueOK
  <2>5. Queued(h)
    BY <2>3, <2>4, QueueTail DEF Tokens, TokenUnique
  <2>6. ~Executed(h)
    BY <2>5 DEF Tokens, TokenUnique, PlacesDisjoint
  <2>7. ~Executes(w) /\ Executes(w)' /\ OtherExecutesStay(w)
    BY <2>1, <2>2, <2>4, ThreadsFact, DispatchAssumption
    DEF Executes, OtherExecutesStay, OthersStay, OtherCursStay
  <2>8. w \notin Taking /\ (Takes(w)' <=> ~stopped[h])
    BY <2>1, <2>4, <2>7 DEF Taking, Takes
  <2>9. Taking' = IF stopped[h] THEN Taking ELSE Taking \cup {w}
    BY <2>1, <2>8, ThreadsFact, OthersTake, TakingMoves
  <2>10. Abstract!Begin(h, w)
    BY <2>1, <2>4, <2>6, <2>7, <2>9, OwnerBegins DEF Abstract!Begin
  <2>11. QED
    BY <2>4, <2>10 DEF Abstract!ANext
<1>8. ASSUME NEW w \in Workers, Redispatched(w) \/ Retired(w)
      PROVE  [Abstract!ANext]_(Abstract!aVars)
  <2>1. /\ OthersStay(w) /\ OtherCursStay(w) /\ pc[w] \in Settling /\ cur'[w] = None
        /\ UNCHANGED <<mail, stopped>>
    BY <1>8 DEF Redispatched, Retired, SameElse, Settling
  <2>2. SameExecutes
    BY <2>1, ThreadsFact DEF OthersStay, OtherCursStay, SameExecutes, Executes, Settling
  <2>3. ~Executes(w) /\ ~Executes(w)'
    BY <2>1 DEF Executes, Settling
  <2>4. \A v \in Workers : Takes(v)' <=> Takes(v)
    BY <2>1, <2>3, ThreadsFact, OthersTake DEF Takes
  <2>5. QED
    BY <1>1, <2>1, <2>2, <2>4, TakingFrame
<1>9. CASE MainStep
  <2>1. StartsOnly /\ UNCHANGED <<mail, stopped, cur>>
    BY <1>9, MainKind
  <2>2. \A w \in Workers : pc[w] = "off" => cur[w] = None
    BY ThreadsFact DEF TypeInv, RegistersOK, WorkerRegisters, FreePCs
  <2>3. SameExecutes /\ \A w \in Workers : Takes(w)' <=> Takes(w)
    BY <2>1, <2>2, ThreadsFact DEF StartsOnly, SameExecutes, Executes, Takes
  <2>4. QED
    BY <1>1, <2>1, <2>3, TakingFrame
<1>10. CASE UNCHANGED vars
  <2>1. UNCHANGED <<mail, stopped, pc, cur>>
    BY <1>10 DEF vars, actorVars, localVars
  <2>2. QED
    BY <1>1, <2>1, TakingFrame DEF SameExecutes, Takes, Executes
<1>11. CASE Next
  BY <1>2, <1>3, <1>4, <1>5, <1>6, <1>7, <1>8, <1>9, <1>11, StepKind, ThreadsFact
  DEF ThreadKind, WorkerKind
<1>12. QED
  BY <1>10, <1>11

\* The dispatcher implements the actor model's promise: whatever the interleaving of
\* producers, workers, stealing and shutdown, an actor is executed by one worker at a
\* time, a worker executes one actor, messages leave a mailbox only in the hands of the
\* owner, and an owner that finds the actor stopped takes none: a stopped actor loses
\* messages only in the batch that stopped it.
THEOREM OneOwner == Spec => SingleOwner
<1>1. Spec => [](TypeInv /\ Tokens)
  BY TypeInit, TypeStep, TokensInit, TokensStep, PTL DEF Spec
<1>2. Init => Abstract!AInit
  <2> SUFFICES ASSUME Init PROVE Abstract!AInit
    OBVIOUS
  <2>1. \A a \in Actors : ~Executed(a)
    BY DEF Init, Executed, Executes
  <2>2. Owner = [a \in Actors |-> None]
    BY <2>1, Zenon DEF Owner
  <2>3. Taking = {}
    BY DEF Init, Taking, Takes, Executes
  <2>4. QED
    BY <2>2, <2>3 DEF Init, Abstract!AInit
<1>3. TypeInv /\ Tokens /\ (TypeInv /\ Tokens)' /\ [Next]_vars
        => [Abstract!ANext]_(Abstract!aVars)
  <2>1. Tokens => ExecuteDistinct
    BY DEF Tokens, TokenUnique
  <2>2. Tokens' => ExecuteDistinct'
    BY DEF Tokens, TokenUnique
  <2>3. QED
    BY <2>1, <2>2, OwnerFact, OwnerFactNext, OwnerStep
<1>4. QED
  BY <1>1, <1>2, <1>3, PTL DEF Spec, SingleOwner, Abstract!ASpec

-----------------------------------------------------------------------------
(* No push is refused                                                      *)

\* An injection into a finite set.
LEMMA InjectionBound ==
    ASSUME NEW S, NEW T, IsFiniteSet(T), NEW f \in [S -> T],
           \A x, y \in S : f[x] = f[y] => x = y
    PROVE  IsFiniteSet(S) /\ Cardinality(S) <= Cardinality(T)
<1>1. f \in Injection(S, T)
  BY DEF Injection, IsInjective
<1>2. QED
  BY <1>1, FS_Injection

\* Two disjoint subsets that both miss an element of a finite set.
LEMMA DisjointCards ==
    ASSUME NEW S, NEW T, NEW U, NEW x \in U, IsFiniteSet(U), S \subseteq U, T \subseteq U,
           S \cap T = {}, x \notin S, x \notin T
    PROVE  /\ IsFiniteSet(S) /\ IsFiniteSet(T)
           /\ Cardinality(S) \in Nat /\ Cardinality(T) \in Nat /\ Cardinality(U) \in Nat
           /\ Cardinality(S) + Cardinality(T) < Cardinality(U)
<1>1. IsFiniteSet(S) /\ IsFiniteSet(T)
  BY FS_Subset
<1>2. /\ Cardinality(S) \in Nat /\ Cardinality(T) \in Nat /\ Cardinality(U) \in Nat
  BY <1>1, FS_CardinalityType
<1>3. IsFiniteSet(S \cup T) /\ Cardinality(S \cup T) = Cardinality(S) + Cardinality(T)
  <2>1. Cardinality(S \cap T) = 0
    BY FS_EmptySet
  <2>2. /\ IsFiniteSet(S \cup T)
        /\ Cardinality(S \cup T) = Cardinality(S) + Cardinality(T) - Cardinality(S \cap T)
    BY <1>1, FS_Union
  <2>3. QED
    BY <1>2, <2>1, <2>2, SMT
<1>4. Cardinality((S \cup T) \cup {x}) = Cardinality(S \cup T) + 1
  BY <1>3, FS_AddElement
<1>5. Cardinality((S \cup T) \cup {x}) <= Cardinality(U)
  <2>1. (S \cup T) \cup {x} \in SUBSET U
    OBVIOUS
  <2>2. QED
    BY <2>1, FS_Subset
<1>6. QED
  BY <1>1, <1>2, <1>3, <1>4, <1>5

\* The tokens in a queue and on their way into it are of different actors, none of them
\* the actor being pushed: a queue with room for all actors refuses nothing.
LEMMA PushFits ==
    ASSUME TypeInv, Tokens, Roomy, NEW t \in Threads, pc[t] = "push"
    PROVE  ~PushMayFail(t, dst[t])
<1>1. PICK v \in Workers : v = dst[t]
  BY DEF TypeInv, RegistersOK, EnqueueRegisters
<1>2. PICK x \in Actors : x = tgt[t]
  BY DEF TypeInv, RegistersOK, EnqueueRegisters, EnqueuePCs
<1>3. PICK q \in Seq(Actors) : q = queue[v]
  BY DEF TypeInv, TypeOK
<1> DEFINE P == Pushing(v) \ {t}
           A == {q[i] : i \in 1 .. Len(q)}
           B == {tgt[s] : s \in P}
<1>4. Len(q) \in Nat /\ DOMAIN q = 1 .. Len(q) /\ \A i \in 1 .. Len(q) : q[i] \in Actors
  BY LenProperties
<1>5. \A s \in P : s \in Threads /\ pc[s] = "push" /\ s # t /\ tgt[s] \in Actors
  BY DEF Pushing, TypeInv, RegistersOK, EnqueueRegisters, EnqueuePCs
<1>6. IsFiniteSet(Actors) /\ Cardinality(Actors) \in Nat
  <2>1. IsFiniteSet(Actors)
    BY DispatchAssumption, Zenon
  <2>2. QED
    BY <2>1, FS_CardinalityType
<1>7. A \subseteq Actors /\ B \subseteq Actors
  BY <1>4, <1>5
<1>8. \A a \in A : Queued(a)
  BY <1>3, <1>4 DEF Queued
<1>9. /\ \A a \in B : Claimed(a)
      /\ Claimed(x)
  BY <1>2, <1>5 DEF Claimed, Claims
<1>10. A \cap B = {} /\ x \notin A
  BY <1>7, <1>8, <1>9 DEF Tokens, TokenUnique, PlacesDisjoint
<1>11. \A s \in P : tgt[s] # x
  BY <1>2, <1>5 DEF Tokens, TokenUnique, ClaimDistinct, Claims
<1>12. x \notin B
  BY <1>11
<1> HIDE DEF P
<1>13. /\ IsFiniteSet(A) /\ IsFiniteSet(B)
       /\ Cardinality(A) \in Nat /\ Cardinality(B) \in Nat
       /\ Cardinality(A) + Cardinality(B) < Cardinality(Actors)
  <2> HIDE DEF A, B
  <2>1. QED
    BY <1>6, <1>7, <1>10, <1>12, DisjointCards
<1>14. Len(q) <= Cardinality(A)
  <2> DEFINE f == [i \in 1 .. Len(q) |-> q[i]]
  <2>1. f \in [1 .. Len(q) -> A]
    OBVIOUS
  <2>2. \A i, j \in 1 .. Len(q) : f[i] = f[j] => i = j
    BY <1>3, <1>4 DEF Tokens, TokenUnique, QueueDistinct
  <2> HIDE DEF f, A
  <2>3. Cardinality(1 .. Len(q)) <= Cardinality(A)
    BY <1>13, <2>1, <2>2, InjectionBound
  <2>4. Cardinality(1 .. Len(q)) = Len(q)
    <3>1. PICK n \in Nat : n = Len(q)
      BY <1>4
    <3>2. 1 \in Int /\ n \in Int
      BY <3>1
    <3>3. Cardinality(1 .. n) = IF 1 > n THEN 0 ELSE n - 1 + 1
      BY <3>2, FS_Interval, Zenon
    <3>4. QED
      BY <3>1, <3>3
  <2>5. QED
    BY <2>3, <2>4
<1>15. IsFiniteSet(P) /\ Cardinality(P) <= Cardinality(B)
  <2> DEFINE f == [s \in P |-> tgt[s]]
  <2>1. f \in [P -> B]
    OBVIOUS
  <2>2. \A r, s \in P : f[r] = f[s] => r = s
    BY <1>5 DEF Tokens, TokenUnique, ClaimDistinct, Claims
  <2> HIDE DEF f, B
  <2>3. QED
    BY <1>13, <2>1, <2>2, InjectionBound
<1>16. Cardinality(P) \in Nat
  BY <1>15, FS_CardinalityType
<1>17. QueueCapacity \in Nat /\ QueueCapacity >= Cardinality(Actors) /\ ~StalledPop
  BY DispatchAssumption DEF Roomy
<1>18. Len(q) + Cardinality(P) < QueueCapacity
  <2> HIDE DEF A, B
  <2>1. QED
    BY <1>4, <1>6, <1>13, <1>14, <1>15, <1>16, <1>17
<1>19. QED
  BY <1>1, <1>3, <1>4, <1>16, <1>17, <1>18 DEF PushMayFail, P

-----------------------------------------------------------------------------
(* pendingWork_ counts the tokens                                          *)

\* An entry is a place in a queue ...
LEMMA InEntries ==
    \A e : e \in QueueEntries <=> \E w \in Workers : \E i \in DOMAIN queue[w] : e = <<w, i>>
BY DEF QueueEntries

\* ... in the next state too.
LEMMA InEntriesNext ==
    \A e : e \in QueueEntries' <=> \E w \in Workers : \E i \in DOMAIN queue'[w] : e = <<w, i>>
BY DEF QueueEntries

\* A push adds one entry.
LEMMA EntriesGrow ==
    ASSUME QueueOK, NEW v \in Workers, NEW a \in Actors,
           queue' = [queue EXCEPT ![v] = Append(@, a)]
    PROVE  \E e : e \notin QueueEntries /\ QueueEntries' = QueueEntries \cup {e}
<1>1. PICK q \in Seq(Actors) : q = queue[v]
  BY DEF QueueOK
<1>2. PICK n \in Nat : n = Len(q) /\ DOMAIN q = 1 .. n
  BY LenProperties
<1>3. DOMAIN Append(q, a) = 1 .. n + 1
  BY <1>2, AppendProperties, LenProperties
<1>4. DOMAIN queue'[v] = 1 .. n + 1 /\ DOMAIN queue[v] = 1 .. n
  BY <1>1, <1>2, <1>3 DEF QueueOK
<1>5. \A w \in Workers \ {v} : queue'[w] = queue[w]
  BY DEF QueueOK
<1>6. 1 .. n + 1 = (1 .. n) \cup {n + 1} /\ n + 1 \notin 1 .. n
  BY <1>2
<1>7. <<v, n + 1>> \notin QueueEntries
  BY <1>4, <1>6, InEntries
<1>8. ASSUME NEW e PROVE e \in QueueEntries' <=> e \in QueueEntries \/ e = <<v, n + 1>>
  BY <1>4, <1>5, <1>6, InEntries, InEntriesNext
<1>9. QueueEntries' = QueueEntries \cup {<<v, n + 1>>}
  BY <1>8
<1>10. QED
  BY <1>7, <1>9

\* A pop removes one entry.
LEMMA EntriesShrink ==
    ASSUME QueueOK, NEW v \in Workers, queue[v] # <<>>, queue' = [queue EXCEPT ![v] = Tail(@)]
    PROVE  \E e \in QueueEntries : QueueEntries' = QueueEntries \ {e}
<1>1. PICK q \in Seq(Actors) : q = queue[v]
  BY DEF QueueOK
<1>2. PICK n \in Nat : n = Len(q) /\ DOMAIN q = 1 .. n
  BY LenProperties
<1>3. n >= 1 /\ DOMAIN Tail(q) = 1 .. n - 1
  BY <1>1, <1>2, HeadTailProperties, LenProperties, EmptySeq
<1>4. DOMAIN queue'[v] = 1 .. n - 1 /\ DOMAIN queue[v] = 1 .. n
  BY <1>1, <1>2, <1>3 DEF QueueOK
<1>5. \A w \in Workers \ {v} : queue'[w] = queue[w]
  BY DEF QueueOK
<1>6. 1 .. n - 1 = (1 .. n) \ {n} /\ n \in 1 .. n
  BY <1>2, <1>3
<1>7. <<v, n>> \in QueueEntries
  BY <1>4, <1>6, InEntries
<1>8. ASSUME NEW e PROVE e \in QueueEntries' <=> e \in QueueEntries /\ e # <<v, n>>
  BY <1>4, <1>5, <1>6, InEntries, InEntriesNext
<1>9. QueueEntries' = QueueEntries \ {<<v, n>>}
  BY <1>8
<1>10. QED
  BY <1>7, <1>9

\* One element more, one element less.
Grows(S, T) == \E x : x \notin S /\ T = S \cup {x}

Shrinks(S, T) == \E x \in S : T = S \ {x}

\* The cardinality of a set that grows ...
LEMMA GrowCard ==
    ASSUME NEW S, NEW T, IsFiniteSet(S), Grows(S, T)
    PROVE  /\ IsFiniteSet(T) /\ Cardinality(S) \in Nat
           /\ Cardinality(T) = Cardinality(S) + 1
<1>1. PICK x : x \notin S /\ T = S \cup {x}
  BY DEF Grows
<1>2. Cardinality(S) \in Nat
  BY FS_CardinalityType
<1>3. QED
  BY <1>1, <1>2, FS_AddElement

\* ... and of one that shrinks.
LEMMA ShrinkCard ==
    ASSUME NEW S, NEW T, IsFiniteSet(S), Shrinks(S, T)
    PROVE  /\ IsFiniteSet(T) /\ Cardinality(S) \in Nat
           /\ Cardinality(T) = Cardinality(S) - 1
<1>1. PICK x \in S : T = S \ {x}
  BY DEF Shrinks
<1>2. Cardinality(S) \in Nat
  BY FS_CardinalityType
<1>3. QED
  BY <1>1, <1>2, FS_RemoveElement

\* What a balance is made of.
LEMMA BalanceTypes ==
    ASSUME NEW n, NEW E, NEW C, NEW R, NEW U, Balance(n, E, C, R, U)
    PROVE  /\ IsFiniteSet(E) /\ IsFiniteSet(C) /\ IsFiniteSet(R) /\ IsFiniteSet(U)
           /\ Cardinality(E) \in Nat /\ Cardinality(C) \in Nat
           /\ Cardinality(R) \in Nat /\ Cardinality(U) \in Nat
           /\ n = Cardinality(E) + Cardinality(C) + Cardinality(R) - Cardinality(U)
           /\ n \in Int
<1>1. /\ IsFiniteSet(E) /\ IsFiniteSet(C) /\ IsFiniteSet(R) /\ IsFiniteSet(U)
      /\ n = Cardinality(E) + Cardinality(C) + Cardinality(R) - Cardinality(U)
  BY DEF Balance
<1>2. /\ Cardinality(E) \in Nat /\ Cardinality(C) \in Nat
      /\ Cardinality(R) \in Nat /\ Cardinality(U) \in Nat
  BY <1>1, FS_CardinalityType
<1>3. QED
  BY <1>1, <1>2

\* A push: a new token not yet counted, or an old one that comes back.
LEMMA BalancePush ==
    ASSUME NEW n, NEW E, NEW C, NEW R, NEW U, Balance(n, E, C, R, U),
           NEW E2, NEW R2, NEW U2, Grows(E, E2),
           (R2 = R /\ Grows(U, U2)) \/ (Shrinks(R, R2) /\ U2 = U)
    PROVE  Balance(n, E2, C, R2, U2)
<1>1. CASE R2 = R /\ Grows(U, U2)
  BY <1>1, BalanceTypes, GrowCard DEF Balance
<1>2. CASE Shrinks(R, R2) /\ U2 = U
  BY <1>2, BalanceTypes, GrowCard, ShrinkCard DEF Balance
<1>3. QED
  BY <1>1, <1>2

\* A token is counted.
LEMMA BalanceCount ==
    ASSUME NEW n, NEW E, NEW C, NEW R, NEW U, Balance(n, E, C, R, U), NEW U2, Shrinks(U, U2)
    PROVE  Balance(n + 1, E, C, R, U2)
BY BalanceTypes, ShrinkCard DEF Balance

\* A worker takes a token out of a queue.
LEMMA BalanceTake ==
    ASSUME NEW n, NEW E, NEW C, NEW R, NEW U, Balance(n, E, C, R, U),
           NEW E2, NEW C2, Shrinks(E, E2), Grows(C, C2)
    PROVE  Balance(n, E2, C2, R, U)
BY BalanceTypes, GrowCard, ShrinkCard DEF Balance

\* A worker redispatches its token.
LEMMA BalanceAgain ==
    ASSUME NEW n, NEW E, NEW C, NEW R, NEW U, Balance(n, E, C, R, U),
           NEW C2, NEW R2, Shrinks(C, C2), Grows(R, R2)
    PROVE  Balance(n, E, C2, R2, U)
BY BalanceTypes, GrowCard, ShrinkCard DEF Balance

\* A worker retires its token.
LEMMA BalanceRetire ==
    ASSUME NEW n, NEW E, NEW C, NEW R, NEW U, Balance(n, E, C, R, U), NEW C2, Shrinks(C, C2)
    PROVE  Balance(n - 1, E, C2, R, U)
BY BalanceTypes, ShrinkCard DEF Balance

\* The sets of threads, by their rows.
LEMMA CountSets ==
    /\ Redispatching = {w \in Workers : Again(pc[w], ret[w])}
    /\ Redispatching' = {w \in Workers : Again(pc'[w], ret'[w])}
    /\ Uncounted = {t \in Threads : ToCount(pc[t], ret[t])}
    /\ Uncounted' = {t \in Threads : ToCount(pc'[t], ret'[t])}
BY DEF Redispatching, Uncounted, Again, ToCount

\* A step of t that does not change what t counts for.
LEMMA AgainFrame ==
    ASSUME NEW t \in Threads, OthersStay(t), Again(pc'[t], ret'[t]) <=> Again(pc[t], ret[t])
    PROVE  Redispatching' = Redispatching
<1>1. \A w \in Workers : Again(pc'[w], ret'[w]) <=> Again(pc[w], ret[w])
  BY ThreadsFact DEF OthersStay
<1>2. QED
  BY <1>1, CountSets

\* A step of t that does not change what t has to count.
LEMMA ToCountFrame ==
    ASSUME NEW t \in Threads, OthersStay(t), ToCount(pc'[t], ret'[t]) <=> ToCount(pc[t], ret[t])
    PROVE  Uncounted' = Uncounted
<1>1. \A s \in Threads : ToCount(pc'[s], ret'[s]) <=> ToCount(pc[s], ret[s])
  BY DEF OthersStay
<1>2. QED
  BY <1>1, CountSets

\* No token is taken or given up.
LEMMA BusyFrame == SameCur => Busy' = Busy
BY DEF SameCur, Busy

\* A worker gives up its token.
LEMMA BusyShrinks ==
    ASSUME NEW w \in Workers, OtherCursStay(w), cur[w] # None, cur'[w] = None
    PROVE  Shrinks(Busy, Busy')
<1>1. w \in Busy /\ Busy' = Busy \ {w}
  BY DEF Busy, OtherCursStay
<1>2. QED
  BY <1>1 DEF Shrinks

\* No token goes to the pended list ...
LEMMA NothingRefused ==
    ASSUME Roomy, TypeInv, Tokens, CountInv, NEW t \in Threads, PushFail(t) \/ Pend(t)
    PROVE  FALSE
BY PushFits DEF PushFail, Pend, CountInv, NothingPended

\* ... and none is retried from there.
LEMMA NothingRetried ==
    ASSUME TypeInv, CountInv, NEW w \in Workers, DrainPended(w) \/ DrainCount(w)
    PROVE  FALSE
<1>1. pc[w] # "drainCount" /\ pended = <<>>
  BY ThreadsFact DEF CountInv, NothingPended
<1>2. Len(<<>>) = 0
  OBVIOUS
<1>3. pc[w] = "drainPended" => idx[w] > 0 /\ idx[w] \in Nat
  BY ThreadsFact DEF TypeInv, TypeOK, RegistersOK, WorkerRegisters
<1>4. QED
  BY <1>1, <1>2, <1>3 DEF DrainPended, DrainCount

\* Every step keeps the account of the tokens.
LEMMA CountStep == Roomy /\ TypeInv /\ Tokens /\ CountInv /\ [Next]_vars => CountInv'
<1> SUFFICES ASSUME Roomy, TypeInv, Tokens, CountInv, [Next]_vars
             PROVE  CountInv'
  OBVIOUS
<1>a. LocalOK /\ QueueOK /\ pendingWork \in Int
  BY DEF TypeInv, TypeOK, LocalOK, QueueOK
<1>b. NothingPended /\ Balance(pendingWork, QueueEntries, Busy, Redispatching, Uncounted)
  BY DEF CountInv, Balanced
<1>c. ASSUME NEW t \in Threads, OthersStay(t), UNCHANGED pended, pc'[t] \notin {"pend", "drainCount"}
      PROVE  NothingPended'
  BY <1>b, <1>c DEF OthersStay, NothingPended
<1>d. ASSUME NothingPended',
             Balance(pendingWork', QueueEntries', Busy', Redispatching', Uncounted')
      PROVE  CountInv'
  BY <1>d DEF CountInv, Balanced
<1>e. UNCHANGED queue => QueueEntries' = QueueEntries
  BY DEF QueueEntries
<1>1. ASSUME NEW t \in Threads, Quiet(t) PROVE CountInv'
  <2>1. UNCHANGED <<queue, pended, pendingWork>> /\ OthersStay(t) /\ SameCur
    BY <1>1 DEF Quiet
  <2>2. NothingPended'
    BY <1>1, <1>c, <2>1 DEF Quiet
  <2>3. Redispatching' = Redispatching /\ Uncounted' = Uncounted /\ Busy' = Busy
    BY <1>1, <2>1, AgainFrame, ToCountFrame, BusyFrame DEF Quiet
  <2>4. QED
    BY <1>b, <1>d, <1>e, <2>1, <2>2, <2>3
<1>2. ASSUME NEW t \in Threads, Calm(t), Push(t) PROVE CountInv'
  <2>1. /\ pc[t] = "push" /\ pc'[t] = "signal" /\ ret'[t] = ret[t]
        /\ OthersStay(t) /\ SameCur /\ UNCHANGED <<pended, pendingWork>>
        /\ queue' = [queue EXCEPT ![dst[t]] = Append(@, tgt[t])]
    BY <1>a, <1>2 DEF LocalOK, Push, Goto, Calm, localVars
  <2>2. dst[t] \in Workers /\ tgt[t] \in Actors
    BY <2>1 DEF TypeInv, RegistersOK, EnqueueRegisters, EnqueuePCs
  <2>3. Grows(QueueEntries, QueueEntries')
    BY <1>a, <2>1, <2>2, EntriesGrow DEF Grows
  <2>4. NothingPended' /\ Busy' = Busy
    BY <1>c, <2>1, BusyFrame
  <2>5. CASE ret[t] = "top"
    <3>1. t \in Workers
      BY <2>5, ThreadsFact DEF TypeInv, RegistersOK, ProducerRegisters
    <3>2. Again(pc[t], ret[t]) /\ ~Again(pc'[t], ret'[t])
      BY <2>1, <2>5 DEF Again
    <3>3. t \in Redispatching /\ Redispatching' = Redispatching \ {t}
      BY <2>1, <3>1, <3>2, CountSets, ThreadsFact DEF OthersStay
    <3>4. Uncounted' = Uncounted
      BY <2>1, <2>5, ToCountFrame DEF ToCount
    <3>5. QED
      BY <1>b, <1>d, <2>1, <2>3, <2>4, <3>3, <3>4, BalancePush DEF Shrinks
  <2>6. CASE ret[t] # "top"
    <3>1. ToCount(pc'[t], ret'[t]) /\ ~ToCount(pc[t], ret[t])
      BY <2>1, <2>6 DEF ToCount
    <3>2. t \notin Uncounted /\ Uncounted' = Uncounted \cup {t}
      BY <2>1, <3>1, CountSets DEF OthersStay
    <3>3. Redispatching' = Redispatching
      BY <2>1, <2>6, AgainFrame DEF Again
    <3>4. QED
      BY <1>b, <1>d, <2>1, <2>3, <2>4, <3>2, <3>3, BalancePush DEF Grows
  <2>7. QED
    BY <2>5, <2>6
<1>3. ASSUME NEW t \in Threads, Calm(t), Count(t) PROVE CountInv'
  <2>1. /\ pc[t] = "count" /\ pc'[t] = ret[t] /\ ret'[t] = "idle"
        /\ OthersStay(t) /\ SameCur /\ UNCHANGED <<queue, pended>>
        /\ pendingWork' = pendingWork + 1
    BY <1>a, <1>3 DEF LocalOK, Count, Return, Calm
  <2>2. ret[t] \in {"idle", "handle", "failed", "top"}
    BY <1>a DEF LocalOK
  <2>3. ToCount(pc[t], ret[t]) /\ ~ToCount(pc'[t], ret'[t])
    BY <2>1, <2>2 DEF ToCount
  <2>4. t \in Uncounted /\ Uncounted' = Uncounted \ {t}
    BY <2>1, <2>3, CountSets DEF OthersStay
  <2>5. Redispatching' = Redispatching
    BY <2>1, <2>2, AgainFrame DEF Again
  <2>6. NothingPended' /\ Busy' = Busy
    BY <1>c, <2>1, <2>2, BusyFrame
  <2>7. QED
    BY <1>b, <1>d, <1>e, <2>1, <2>4, <2>5, <2>6, BalanceCount DEF Shrinks
<1>4. ASSUME NEW t \in Threads, PushFail(t) \/ Pend(t) PROVE FALSE
  BY <1>4, NothingRefused
<1>5. ASSUME NEW w \in Workers, DrainPended(w) \/ DrainCount(w) PROVE FALSE
  BY <1>5, NothingRetried
<1>6. ASSUME NEW w \in Workers, NEW v \in Workers, Taken(w, v) PROVE CountInv'
  <2>1. /\ OthersStay(w) /\ OtherCursStay(w) /\ UNCHANGED <<pended, pendingWork>>
        /\ pc[w] \in {"top", "spin", "poll", "steal"} /\ pc'[w] \in {"run", "permit"}
        /\ cur'[w] = Head(queue[v])
        /\ queue[v] # <<>> /\ queue' = [queue EXCEPT ![v] = Tail(@)]
    BY <1>6 DEF Taken, SameElse
  <2>2. cur[w] = None /\ cur'[w] # None
    <3>1. cur[w] = None
      BY <2>1, ThreadsFact DEF TypeInv, RegistersOK, WorkerRegisters, FreePCs
    <3>2. Head(queue[v]) \in Actors
      BY <1>a, <2>1, HeadTailProperties DEF QueueOK
    <3>3. QED
      BY <2>1, <3>1, <3>2, DispatchAssumption
  <2>3. w \notin Busy /\ Busy' = Busy \cup {w}
    BY <2>1, <2>2 DEF Busy, OtherCursStay
  <2>4. Shrinks(QueueEntries, QueueEntries')
    BY <1>a, <2>1, EntriesShrink DEF Shrinks
  <2>5. w \in Threads
    BY ThreadsFact
  <2>6. Redispatching' = Redispatching /\ Uncounted' = Uncounted
    BY <2>1, <2>5, AgainFrame, ToCountFrame DEF Again, ToCount
  <2>7. NothingPended'
    BY <1>c, <2>1, <2>5
  <2>8. QED
    BY <1>b, <1>d, <2>1, <2>3, <2>4, <2>6, <2>7, BalanceTake DEF Grows
<1>7. ASSUME NEW w \in Workers, Redispatched(w) PROVE CountInv'
  <2>1. /\ OthersStay(w) /\ OtherCursStay(w) /\ UNCHANGED <<queue, pended, pendingWork>>
        /\ pc[w] = "reclaim" /\ pc'[w] = "route" /\ ret'[w] = "top" /\ cur'[w] = None
        /\ w \in Threads
    BY <1>7, ThreadsFact DEF Redispatched, SameElse
  <2>2. cur[w] # None
    BY <2>1, ThreadsFact, DispatchAssumption DEF TypeInv, RegistersOK, WorkerRegisters, TokenPCs
  <2>3. Again(pc'[w], ret'[w]) /\ ~Again(pc[w], ret[w])
    BY <2>1 DEF Again
  <2>4. w \notin Redispatching /\ Redispatching' = Redispatching \cup {w}
    BY <2>1, <2>3, CountSets, ThreadsFact DEF OthersStay
  <2>5. Uncounted' = Uncounted
    BY <2>1, ToCountFrame DEF ToCount
  <2>6. NothingPended' /\ Shrinks(Busy, Busy')
    BY <1>c, <2>1, <2>2, BusyShrinks
  <2>7. QED
    BY <1>b, <1>d, <1>e, <2>1, <2>4, <2>5, <2>6, BalanceAgain DEF Grows
<1>8. ASSUME NEW w \in Workers, Retired(w) PROVE CountInv'
  <2>1. /\ OthersStay(w) /\ OtherCursStay(w) /\ UNCHANGED <<queue, pended>>
        /\ pc[w] = "retire" /\ pc'[w] \in {"wake", "top"} /\ cur'[w] = None
        /\ pendingWork' = pendingWork - 1 /\ w \in Threads
    BY <1>8, ThreadsFact DEF Retired, SameElse
  <2>2. cur[w] # None
    BY <2>1, ThreadsFact, DispatchAssumption DEF TypeInv, RegistersOK, WorkerRegisters, TokenPCs
  <2>3. Redispatching' = Redispatching /\ Uncounted' = Uncounted
    BY <2>1, AgainFrame, ToCountFrame DEF Again, ToCount
  <2>4. NothingPended' /\ Shrinks(Busy, Busy')
    BY <1>c, <2>1, <2>2, BusyShrinks
  <2>5. QED
    BY <1>b, <1>d, <1>e, <2>1, <2>3, <2>4, BalanceRetire
<1>9. CASE MainStep
  <2>1. /\ StartsOnly /\ UNCHANGED <<queue, pendingWork, ret, cur>>
        /\ pended' = pended \/ pended' = <<>>
    BY <1>9, MainKind
  <2>2. NothingPended'
    BY <1>b, <2>1 DEF StartsOnly, NothingPended
  <2>3. Busy' = Busy
    BY <2>1 DEF Busy
  <2>4. Redispatching' = Redispatching
    BY <2>1, ThreadsFact DEF StartsOnly, Redispatching
  <2>5. Uncounted' = Uncounted
    BY <2>1 DEF StartsOnly, Uncounted
  <2>6. QED
    BY <1>b, <1>d, <1>e, <2>1, <2>2, <2>3, <2>4, <2>5
<1>10. CASE UNCHANGED vars
  <2>1. UNCHANGED <<queue, pended, pendingWork, pc, cur, ret>>
    BY <1>10 DEF vars, queueVars, localVars
  <2>2. QED
    BY <1>b, <1>d, <2>1 DEF NothingPended, QueueEntries, Busy, Redispatching, Uncounted
<1>11. CASE Next
  BY <1>1, <1>2, <1>3, <1>4, <1>5, <1>6, <1>7, <1>8, <1>9, <1>11, StepKind, ThreadsFact
  DEF ThreadKind, WorkerKind
<1>12. QED
  BY <1>10, <1>11

\* Initially there is no token.
LEMMA CountInit == Init => CountInv
<1> SUFFICES ASSUME Init PROVE CountInv
  OBVIOUS
<1>1. NothingPended
  BY DEF Init, NothingPended
<1>2. \A w \in Workers : DOMAIN queue[w] = {}
  BY DEF Init
<1>3. QueueEntries = {}
  BY <1>2, InEntries
<1>4. Busy = {} /\ Redispatching = {} /\ Uncounted = {}
  BY ThreadsFact DEF Init, Busy, Redispatching, Uncounted
<1>5. IsFiniteSet({}) /\ Cardinality({}) = 0
  BY FS_EmptySet
<1>6. pendingWork = 0
  BY DEF Init
<1>7. QED
  BY <1>1, <1>3, <1>4, <1>5, <1>6 DEF CountInv, Balanced, Balance

\* When no push is refused, pendingWork_ is the number of live tokens less the dispatches
\* that have pushed their entry and not counted it yet, in every state: the drain's
\* test pendingWork_ = 0 never overlooks a token and never waits for one that is gone.
THEOREM PendingWorkExact == Roomy => (Spec => []PendingWorkAccounting)
<1>1. Roomy /\ TypeInv /\ Tokens /\ CountInv /\ [Next]_vars => (TypeInv /\ Tokens /\ CountInv)'
  BY TypeStep, TokensStep, CountStep
<1>2. Init => TypeInv /\ Tokens /\ CountInv
  BY TypeInit, TokensInit, CountInit
<1>3. CountInv => PendingWorkAccounting
  BY DEF CountInv, Balanced, Balance, PendingWorkAccounting
<1>4. ASSUME Roomy PROVE Spec => []PendingWorkAccounting
  <2>1. TypeInv /\ Tokens /\ CountInv /\ [Next]_vars => (TypeInv /\ Tokens /\ CountInv)'
    BY <1>1, <1>4
  <2>2. QED
    BY <1>2, <1>3, <2>1, PTL DEF Spec
<1>5. QED
  BY <1>4

-----------------------------------------------------------------------------
(* A drain leaves nothing behind                                           *)

\* Whoever moves has not been joined: the system is not yet down.
LEMMA MovesBeforeJoined ==
    ASSUME ~LateProducers, TypeInv, DrainInv, NEW t \in Threads, Moves(t)
    PROVE  main \notin {"joined", "stopped"} /\ (t \in Producers => main \notin Late)
<1>1. t \in Workers => main \notin {"joined", "stopped"}
  BY DEF DrainInv, WorkersFollowMain, Moves
<1>2. t \in Producers => main \notin Late
  BY DEF DrainInv, FlagsFollowMain, Moves, Late
<1>3. QED
  BY <1>1, <1>2, ThreadsFact DEF Late

\* Nobody is in the way of the last worker that leaves.
LEMMA LastLeaves ==
    ASSUME TypeInv, CountInv, DrainInv, NEW w \in Workers, pc[w] = "loop", draining,
           pendingWork = 0, \A v \in Workers \ {w} : pc[v] \in ExitPCs
    PROVE  \A v \in Workers : queue[v] = <<>>
<1>1. \A p \in Producers : pc[p] = "idle"
  BY DEF DrainInv, FlagsFollowMain, Late
<1>2. \A v \in Workers : pc[v] \in ExitPCs \cup {"loop"}
  OBVIOUS
<1>3. \A v \in Workers : cur[v] = None
  BY <1>2, ThreadsFact DEF TypeInv, RegistersOK, WorkerRegisters, FreePCs, ExitPCs
<1>4. Busy = {} /\ Redispatching = {}
  BY <1>2, <1>3 DEF Busy, Redispatching, ExitPCs
<1>5. Uncounted = {}
  BY <1>1, <1>2, ThreadsFact DEF Uncounted, ExitPCs
<1>6. Balance(0, QueueEntries, {}, {}, {})
  BY <1>4, <1>5 DEF CountInv, Balanced
<1>7. /\ IsFiniteSet(QueueEntries) /\ Cardinality(QueueEntries) \in Nat
      /\ 0 = Cardinality(QueueEntries) + Cardinality({}) + Cardinality({}) - Cardinality({})
  BY <1>6, BalanceTypes
<1>8. Cardinality({}) = 0
  BY FS_EmptySet
<1>9. Cardinality(QueueEntries) = 0
  BY <1>7, <1>8
<1>10. QueueEntries = {}
  BY <1>7, <1>9, FS_EmptySet
<1>11. ASSUME NEW v \in Workers PROVE queue[v] = <<>>
  <2>1. PICK q \in Seq(Actors) : q = queue[v]
    BY DEF TypeInv, TypeOK
  <2>2. \A i \in DOMAIN q : FALSE
    BY <1>10, <2>1, InEntries
  <2>3. PICK n \in Nat : n = Len(q) /\ DOMAIN q = 1 .. n
    BY LenProperties
  <2>4. n = 0
    <3>1. n # 0 => 1 \in 1 .. n
      BY <2>3
    <3>2. QED
      BY <2>2, <2>3, <3>1
  <2>5. QED
    BY <2>1, <2>3, <2>4, EmptySeq
<1>12. QED
  BY <1>11

\* A worker leaves only when the drain lets it.
LEMMA LeavesInDrain ==
    ASSUME TypeInv, DrainInv, NEW w \in Workers, MayLeave(w)
    PROVE  draining /\ pc[w] = "loop" /\ pendingWork = 0
<1>1. main \notin {"joined", "stopped"} /\ main # "stopping"
  BY DEF MayLeave, DrainInv, FlagsFollowMain, WorkersFollowMain
<1>2. main # "init"
  BY WorkersFact DEF MayLeave, TypeInv, TypeOK, StartOK
<1>3. running \/ draining
  BY <1>1, <1>2 DEF TypeInv, TypeOK, DrainInv, FlagsFollowMain
<1>4. wrun[w] \/ draining \/ pc[w] = "off"
  <2>1. CASE main = "starting"
    <3>1. w < next \/ w >= next
      BY WorkersFact DEF TypeInv, TypeOK
    <3>2. QED
      BY <2>1, <3>1 DEF TypeInv, StartOK, DrainInv, WorkersFollowMain
  <2>2. CASE main = "up"
    BY <2>2 DEF DrainInv, WorkersFollowMain
  <2>3. CASE main \in {"waking", "joining"}
    BY <2>3 DEF DrainInv, FlagsFollowMain
  <2>4. QED
    BY <1>1, <1>2, <2>1, <2>2, <2>3 DEF TypeInv, TypeOK
<1>5. QED
  BY <1>3, <1>4 DEF MayLeave

\* A move of a thread keeps the invariant of the drain.
LEMMA DrainMoves ==
    ASSUME ~LateProducers, TypeInv, CountInv, DrainInv, NEW t \in Threads, Moves(t)
    PROVE  DrainInv'
<1>1. /\ OthersStay(t) /\ UNCHANGED <<running, draining, wrun, main, next>>
      /\ pc[t] # "done" /\ pc[t] # "off"
  BY DEF Moves
<1>2. main \notin {"joined", "stopped"} /\ (t \in Producers => main \notin Late)
  BY MovesBeforeJoined
<1>3. FlagsFollowMain'
  <2>1. main \in Late => \A p \in Producers : pc'[p] = "idle"
    BY <1>1, <1>2, ThreadsFact DEF OthersStay, DrainInv, FlagsFollowMain
  <2>2. QED
    BY <1>1, <2>1 DEF DrainInv, FlagsFollowMain
<1>4. WorkersFollowMain'
  BY <1>1, <1>2, ThreadsFact DEF OthersStay, DrainInv, WorkersFollowMain
<1>5. NoMessageLeft'
  BY <1>1, <1>2 DEF NoMessageLeft
<1>6. ASSUME NEW w \in Workers, pc'[w] \in ExitPCs PROVE main' \in Late
  <2>1. CASE pc[w] \in ExitPCs
    BY <1>1, <2>1 DEF DrainInv, LeavesNothing
  <2>2. CASE pc[w] \notin ExitPCs
    <3>1. w = t /\ MayLeave(t)
      BY <1>1, <1>6, <2>2, ThreadsFact DEF OthersStay, Moves
    <3>2. draining
      BY <3>1, LeavesInDrain
    <3>3. QED
      BY <1>1, <3>2 DEF DrainInv, FlagsFollowMain, Late
  <2>3. QED
    BY <2>1, <2>2
<1>7. ASSUME \A w \in Workers : pc'[w] \in ExitPCs PROVE \A w \in Workers : queue'[w] = <<>>
  <2>1. main \in Late /\ t \in Workers
    BY <1>1, <1>2, <1>6, <1>7, WorkersFact, ThreadsFact
  <2>2. UNCHANGED queue /\ (pc[t] \in ExitPCs \/ MayLeave(t))
    BY <1>7, <2>1 DEF Moves
  <2>3. \A v \in Workers \ {t} : pc[v] \in ExitPCs
    BY <1>1, <1>7, ThreadsFact DEF OthersStay
  <2>4. CASE pc[t] \in ExitPCs
    BY <2>2, <2>3, <2>4 DEF DrainInv, LeavesNothing
  <2>5. CASE MayLeave(t)
    <3>1. draining /\ pc[t] = "loop" /\ pendingWork = 0
      BY <2>1, <2>5, LeavesInDrain
    <3>2. QED
      BY <2>1, <2>2, <2>3, <3>1, LastLeaves
  <2>6. QED
    BY <2>2, <2>4, <2>5
<1>8. LeavesNothing'
  BY <1>6, <1>7 DEF LeavesNothing
<1>9. QED
  BY <1>3, <1>4, <1>5, <1>8 DEF DrainInv

\* The last join finds every mailbox of a live actor empty.
LEMMA JoinedEmpty ==
    ASSUME TypeInv, Tokens, NoLostWakeup, CountInv, DrainInv, main = "joining",
           \A w \in Workers : pc[w] = "done", NEW a \in Actors, ~stopped[a]
    PROVE  mail[a] = 0
<1>1. \A t \in Threads : pc[t] \in {"done", "idle"}
  BY ThreadsFact DEF DrainInv, FlagsFollowMain, Late
<1>2. \A w \in Workers : cur[w] = None /\ queue[w] = <<>>
  <2>1. \A w \in Workers : cur[w] = None
    BY ThreadsFact DEF TypeInv, RegistersOK, WorkerRegisters, FreePCs
  <2>2. \A w \in Workers : queue[w] = <<>>
    BY DEF DrainInv, LeavesNothing, ExitPCs
  <2>3. QED
    BY <2>1, <2>2
<1>3. DOMAIN <<>> = {}
  OBVIOUS
<1>4. ~Queued(a) /\ ~Pended(a)
  BY <1>2, <1>3 DEF Queued, Pended, CountInv, NothingPended
<1>5. ~Claimed(a) /\ ~Executed(a)
  BY <1>1, <1>2 DEF Claimed, Claims, Executed, Executes
<1>6. ~held[a]
  BY <1>4, <1>5 DEF Tokens, TokenNotLost
<1>7. ~(mail[a] > 0)
  BY <1>1, <1>6, ThreadsFact DEF NoLostWakeup
<1>8. mail[a] \in Nat
  BY DEF TypeInv, TypeOK
<1>9. QED
  BY <1>7, <1>8

\* So does a step of the main thread: the last join is where the promise is due.
LEMMA DrainMain ==
    ASSUME ~LateProducers, ~DrainWindow, TypeInv, Tokens, NoLostWakeup, CountInv, DrainInv, MainStep
    PROVE  DrainInv'
<1>a. /\ next \in Workers /\ Workers \subseteq Nat /\ NumWorkers \in Nat
      /\ \A w \in Workers : w <= NumWorkers - 1
  BY RoutingAssumption DEF TypeInv, TypeOK, Workers
<1>b. UNCHANGED <<mail, stopped, queue>>
  BY MainKind
<1>c. /\ pc \in [Threads -> PCs] /\ wrun \in [Workers -> BOOLEAN]
      /\ FlagsFollowMain /\ WorkersFollowMain /\ LeavesNothing /\ NoMessageLeft
  BY DEF TypeInv, TypeOK, DrainInv
<1>d. (\E w \in Workers : pc[w] \in ExitPCs) => main \in Late
  BY <1>c DEF LeavesNothing
<1>1. CASE DispatcherStart
  <2>1. /\ main = "init" /\ main' = "starting" /\ running' /\ next = 0
        /\ UNCHANGED <<draining, wrun, pc, next>>
    BY <1>1, <1>c DEF DispatcherStart, FlagsFollowMain
  <2>2. FlagsFollowMain' /\ WorkersFollowMain'
    BY <1>a, <1>c, <2>1 DEF FlagsFollowMain, WorkersFollowMain, Late
  <2>3. LeavesNothing' /\ NoMessageLeft'
    BY <1>b, <1>c, <2>1 DEF LeavesNothing, NoMessageLeft, Late
  <2>4. QED
    BY <2>2, <2>3 DEF DrainInv
<1>2. CASE WorkerStart
  <2>1. /\ main = "starting" /\ wrun' = [wrun EXCEPT ![next] = TRUE]
        /\ pc' = [pc EXCEPT ![next] = "top"]
        /\ next' = IF next = NumWorkers - 1 THEN 0 ELSE next + 1
        /\ main' = IF next = NumWorkers - 1 THEN "up" ELSE "starting"
        /\ UNCHANGED <<running, draining>>
    BY <1>2 DEF WorkerStart, Goto
  <2>2. FlagsFollowMain'
    BY <1>a, <1>c, <2>1 DEF FlagsFollowMain, Late
  <2>3. \A w \in Workers : w <= next => wrun'[w]
    BY <1>a, <1>c, <2>1 DEF WorkersFollowMain
  <2>4. WorkersFollowMain'
    BY <1>a, <2>1, <2>3 DEF WorkersFollowMain
  <2>5. \A w \in Workers : pc'[w] \notin ExitPCs
    BY <1>c, <1>d, <2>1, ThreadsFact DEF Late, ExitPCs
  <2>6. LeavesNothing' /\ NoMessageLeft'
    BY <2>1, <2>5, WorkersFact DEF LeavesNothing, NoMessageLeft
  <2>7. QED
    BY <2>2, <2>4, <2>6 DEF DrainInv
<1>3. CASE StopRunning
  <2>1. /\ main = "up" /\ main' = "waking" /\ ~running' /\ draining'
        /\ \A p \in Producers : pc[p] = "idle"
        /\ UNCHANGED <<wrun, pc, next>>
    BY <1>3 DEF StopRunning
  <2>2. FlagsFollowMain' /\ WorkersFollowMain'
    BY <1>c, <2>1 DEF FlagsFollowMain, WorkersFollowMain, Late
  <2>3. LeavesNothing' /\ NoMessageLeft'
    BY <1>b, <1>c, <2>1 DEF LeavesNothing, NoMessageLeft, Late
  <2>4. QED
    BY <2>2, <2>3 DEF DrainInv
<1>4. CASE RaiseDraining
  BY <1>4, <1>c DEF RaiseDraining, FlagsFollowMain
<1>5. CASE WakeAll
  <2>1. /\ main = "waking" /\ main' = "joining" /\ next = 0
        /\ UNCHANGED <<running, draining, wrun, pc, next>>
    BY <1>5, <1>c DEF WakeAll, FlagsFollowMain, flagVars
  <2>2. FlagsFollowMain' /\ WorkersFollowMain'
    BY <1>a, <1>c, <2>1 DEF FlagsFollowMain, WorkersFollowMain, Late
  <2>3. LeavesNothing' /\ NoMessageLeft'
    BY <1>b, <1>c, <2>1 DEF LeavesNothing, NoMessageLeft, Late
  <2>4. QED
    BY <2>2, <2>3 DEF DrainInv
<1>6. CASE WorkerStop
  <2>1. main = "joining" /\ UNCHANGED <<running, draining, pc, main, next>>
    BY <1>6 DEF WorkerStop, mainVars
  <2>2. FlagsFollowMain' /\ WorkersFollowMain'
    BY <1>c, <2>1 DEF FlagsFollowMain, WorkersFollowMain
  <2>3. LeavesNothing' /\ NoMessageLeft'
    BY <1>b, <1>c, <2>1 DEF LeavesNothing, NoMessageLeft
  <2>4. QED
    BY <2>2, <2>3 DEF DrainInv
<1>7. CASE WorkerJoin
  <2>1. /\ main = "joining" /\ pc[next] = "done"
        /\ next' = IF next = NumWorkers - 1 THEN 0 ELSE next + 1
        /\ main' = IF next = NumWorkers - 1 THEN "joined" ELSE "joining"
        /\ UNCHANGED <<running, draining, wrun, pc>>
    BY <1>7 DEF WorkerJoin, flagVars
  <2>2. \A w \in Workers : w <= next => pc[w] = "done"
    BY <1>a, <1>c, <2>1 DEF WorkersFollowMain
  <2>3. FlagsFollowMain'
    BY <1>a, <1>c, <2>1 DEF FlagsFollowMain, Late
  <2>4. WorkersFollowMain'
    BY <1>a, <2>1, <2>2 DEF WorkersFollowMain
  <2>5. LeavesNothing'
    BY <1>b, <1>c, <2>1 DEF LeavesNothing, Late
  <2>6. NoMessageLeft'
    <3>1. CASE next = NumWorkers - 1
      <4>1. \A w \in Workers : pc[w] = "done"
        BY <1>a, <2>2, <3>1
      <4>2. \A a \in Actors : mail[a] = 0 \/ stopped[a]
        BY <2>1, <4>1, JoinedEmpty
      <4>3. QED
        BY <1>b, <4>2 DEF NoMessageLeft
    <3>2. CASE next # NumWorkers - 1
      BY <2>1, <3>2 DEF NoMessageLeft
    <3>3. QED
      BY <3>1, <3>2
  <2>7. QED
    BY <2>3, <2>4, <2>5, <2>6 DEF DrainInv
<1>8. CASE DispatcherStop
  <2>1. /\ main = "joined" /\ main' = "stopped" /\ ~running' /\ ~draining'
        /\ UNCHANGED <<wrun, pc, next>>
    BY <1>8 DEF DispatcherStop
  <2>2. FlagsFollowMain' /\ WorkersFollowMain'
    BY <1>c, <2>1 DEF FlagsFollowMain, WorkersFollowMain, Late
  <2>3. LeavesNothing' /\ NoMessageLeft'
    BY <1>b, <1>c, <2>1 DEF LeavesNothing, NoMessageLeft, Late
  <2>4. QED
    BY <2>2, <2>3 DEF DrainInv
<1>9. QED
  BY <1>1, <1>2, <1>3, <1>4, <1>5, <1>6, <1>7, <1>8 DEF MainStep

\* Taking, redispatching and retiring are moves.
LEMMA CurMoves ==
    ASSUME NEW w \in Workers, (\E v \in Workers : Taken(w, v)) \/ Redispatched(w) \/ Retired(w)
    PROVE  Moves(w)
<1>1. /\ OthersStay(w) /\ UNCHANGED <<running, draining, wrun, main, next>>
      /\ pc[w] \in {"top", "spin", "poll", "steal", "reclaim", "retire"}
      /\ pc'[w] \in {"run", "permit", "route", "wake", "top"}
  BY DEF Taken, Redispatched, Retired, SameElse
<1>2. QED
  BY <1>1 DEF Moves, ExitPCs

\* Every step keeps the invariant of the drain.
LEMMA DrainStep ==
    ASSUME Roomy, ~LateProducers, ~DrainWindow, TypeInv, Tokens, NoLostWakeup, CountInv, DrainInv,
           [Next]_vars
    PROVE  DrainInv'
<1>1. ASSUME NEW t \in Threads, Moves(t) PROVE DrainInv'
  BY <1>1, DrainMoves
<1>2. ASSUME NEW t \in Threads, PushFail(t) \/ Pend(t) PROVE FALSE
  BY <1>2, NothingRefused
<1>3. ASSUME NEW w \in Workers, DrainPended(w) \/ DrainCount(w) PROVE FALSE
  BY <1>3, NothingRetried
<1>4. CASE UNCHANGED vars
  BY <1>4 DEF vars, actorVars, queueVars, flagVars, mainVars, DrainInv, FlagsFollowMain,
     WorkersFollowMain, LeavesNothing, NoMessageLeft
<1>5. CASE Next
  BY <1>1, <1>2, <1>3, <1>5, StepKind, DrainMain, CurMoves, ThreadsFact DEF ThreadKind,
     WorkerKind
<1>6. QED
  BY <1>4, <1>5

\* Initially nobody has left.
LEMMA DrainInit == Init => DrainInv
<1> SUFFICES ASSUME Init PROVE DrainInv
  OBVIOUS
<1>1. main = "init" /\ ~running /\ ~draining /\ next = 0 /\ \A w \in Workers : pc[w] = "off"
  BY ThreadsFact DEF Init
<1>2. QED
  BY <1>1, WorkersFact DEF DrainInv, FlagsFollowMain, WorkersFollowMain, LeavesNothing,
     NoMessageLeft, Late, ExitPCs

\* When no push is refused, no producer outlives the drain and beginDrain is not
\* preempted between its two stores, ActorSystem::stop returns with every mailbox of an
\* actor that is not stopped empty and no token in any queue, whatever stop() overtakes.
THEOREM DrainLeavesNothing ==
    Roomy /\ ~LateProducers /\ ~DrainWindow => (Spec => []DrainComplete)
<1> DEFINE Inv == TypeInv /\ Tokens /\ NoLostWakeup /\ CountInv /\ DrainInv
<1>1. Init => Inv
  <2>1. Init => NoLostWakeup
    BY DEF Init, NoLostWakeup
  <2>2. QED
    BY <2>1, TypeInit, TokensInit, CountInit, DrainInit
<1>2. Inv => DrainComplete
  <2> SUFFICES ASSUME Inv, main \in {"joined", "stopped"}
               PROVE  /\ \A a \in Actors : mail[a] = 0 \/ stopped[a]
                      /\ \A w \in Workers : queue[w] = <<>>
    BY DEF DrainComplete
  <2>1. \A w \in Workers : pc[w] \in ExitPCs
    BY DEF DrainInv, WorkersFollowMain, ExitPCs
  <2>2. QED
    BY <2>1 DEF DrainInv, LeavesNothing, NoMessageLeft
<1>3. ASSUME Roomy, ~LateProducers, ~DrainWindow PROVE Spec => []DrainComplete
  <2>1. Inv /\ [Next]_vars => Inv'
    BY <1>3, TypeStep, TokensStep, WakeupStep, CountStep, DrainStep
  <2>2. QED
    BY <1>1, <1>2, <2>1, PTL DEF Spec
<1>4. QED
  BY <1>3

-----------------------------------------------------------------------------
(* Routing                                                                 *)

\* What holds from 0 on and from each number to the next holds of all; the provers
\* take the set of the numbers it holds of.
LEMMA SetInduction ==
    ASSUME NEW S \in SUBSET Nat, 0 \in S, \A k \in Nat : k \in S => k + 1 \in S
    PROVE  S = Nat
<1>. DEFINE R == {p \in Nat \X Nat : p[1] < p[2]}
            T == Nat \ S
<1>. SUFFICES ASSUME T # {} PROVE FALSE
  OBVIOUS
<1>1. IsWellFoundedOn(R, Nat)
  BY NatLessThanWellFounded, Zenon DEF OpToRel
<1>2. \E x \in T : \A y \in T : ~ (<<y, x>> \in R)
  <2>1. T \in SUBSET Nat
    OBVIOUS
  <2>. HIDE DEF R, T
  <2>. QED  BY <1>1, <2>1, WFMin
<1>3. PICK x \in T : \A y \in T : ~ (<<y, x>> \in R)
  BY <1>2
<1>4. x \in Nat /\ x # 0 /\ x - 1 \in Nat
  OBVIOUS
<1>6. \A y \in T : ~ (<<y, x>> \in R) => x <= y
  OBVIOUS
<1>5. x - 1 \notin T
  <2>. HIDE DEF R
  <2>1. \A y \in T : x <= y
    BY <1>3, <1>6
  <2>. QED  BY <1>4, <2>1
<1>. QED  BY <1>4, <1>5

LEMMA Remainder ==
    ASSUME NEW n \in Nat, n > 0, NEW a \in Nat
    PROVE  /\ a % n \in Ids(n)
           /\ a < n => a % n = a
           /\ n <= a /\ a < n + n => a % n = a - n
<1>1. /\ a = n * (a \div n) + (a % n)
      /\ (a % n) \in 0 .. n - 1 /\ (a \div n) \in Nat
  OBVIOUS
<1>2. PICK q \in Nat, r \in 0 .. n - 1 : a = n * q + r /\ a % n = r
  BY <1>1
<1>3. CASE q = 0
  BY <1>2, <1>3 DEF Ids
<1>4. CASE q = 1
  BY <1>2, <1>4 DEF Ids
<1>5. CASE q > 1
  <2>1. n * q >= n + n
    <3>1. PICK z \in Nat : q = z + 2
      BY <1>5
    <3>2. n * q = n * z + (n + n) /\ n * z \in Nat
      BY <3>1
    <3>. QED  BY <3>2
  <2>. QED  BY <1>2, <2>1 DEF Ids
<1>. QED  BY <1>3, <1>4, <1>5

LEMMA OneLap ==
    ASSUME NEW n \in Nat, n > 0, NEW a \in Nat, n <= a, a < n + n
    PROVE  a % n = a - n
  BY Remainder

LEMMA ScanStays ==
    ASSUME NEW n \in Nat \ {0}, NEW count \in [Ids(n) -> Nat], NEW best \in Ids(n), NEW i \in Nat
    PROVE  /\ (best + i) % n \in Ids(n) /\ ScanStep(n, count, best, i) \in Ids(n)
           /\ \/ ScanStep(n, count, best, i) = best /\ count[(best + i) % n] >= count[best]
              \/ count[ScanStep(n, count, best, i)] < count[best]
<1>1. best + i \in Nat /\ n > 0
  BY DEF Ids
<1>2. (best + i) % n \in Ids(n)
  BY <1>1, Remainder
<1>. QED  BY <1>2 DEF ScanStep

\* The recursion of PickLeastLoaded has a solution.
LEMMA ScanExists ==
    ASSUME NEW n \in Nat \ {0}, NEW count \in [Ids(n) -> Nat], NEW home \in Ids(n), NEW m \in Nat
    PROVE  \E g \in [0 .. m -> Ids(n)] :
              g[0] = home /\ \A k \in 1 .. m : g[k] = ScanStep(n, count, g[k - 1], k - 1)
<1>. DEFINE Scans(j, g) == g[0] = home /\ \A k \in 1 .. j : g[k] = ScanStep(n, count, g[k - 1], k - 1)
            S == {j \in Nat : \E g \in [0 .. j -> Ids(n)] : Scans(j, g)}
<1>1. 0 \in S
  <2>1. [i \in 0 .. 0 |-> home] \in [0 .. 0 -> Ids(n)] /\ Scans(0, [i \in 0 .. 0 |-> home])
    OBVIOUS
  <2>. QED  BY <2>1
<1>2. ASSUME NEW j \in Nat, j \in S
      PROVE  j + 1 \in S
  <2>1. PICK g \in [0 .. j -> Ids(n)] : Scans(j, g)
    BY <1>2
  <2>. DEFINE v == ScanStep(n, count, g[j], j)
              h == [i \in 0 .. j + 1 |-> IF i = j + 1 THEN v ELSE g[i]]
  <2>2. g[j] \in Ids(n) /\ v \in Ids(n)
    <3>1. g[j] \in Ids(n)
      OBVIOUS
    <3>. QED  BY <3>1, ScanStays
  <2>3. h \in [0 .. j + 1 -> Ids(n)] /\ h[j + 1] = v /\ \A i \in 0 .. j : h[i] = g[i]
    <3>. HIDE DEF v
    <3>. QED  BY <2>2
  <2>. HIDE DEF h
  <2>4. ASSUME NEW k \in 1 .. j + 1
        PROVE  h[k] = ScanStep(n, count, h[k - 1], k - 1)
    <3>1. CASE k \in 1 .. j
      <4>1. h[k] = g[k] /\ h[k - 1] = g[k - 1] /\ g[k] = ScanStep(n, count, g[k - 1], k - 1)
        BY <2>1, <2>3, <3>1
      <4>. QED  BY <4>1
    <3>2. CASE k = j + 1
      <4>1. h[k] = v /\ k - 1 = j /\ h[j] = g[j]
        BY <2>3, <3>2
      <4>. QED  BY <4>1
    <3>. QED  BY <3>1, <3>2
  <2>5. h[0] = home
    BY <2>1, <2>3
  <2>6. Scans(j + 1, h)
    BY <2>4, <2>5
  <2>. QED  BY <2>3, <2>6
<1>3. S = Nat
  <2>. HIDE DEF S
  <2>1. S \in SUBSET Nat
    BY DEF S
  <2>. QED  BY <1>1, <1>2, <2>1, SetInduction
<1>4. m \in S
  BY <1>3
<1>. QED  BY <1>4

\* What the scan has found after k iterations: a shorter queue, or none among the
\* first k from the home worker on.
LEMMA ScanFinds ==
    ASSUME NEW n \in Nat \ {0}, NEW count \in [Ids(n) -> Nat], NEW home \in Ids(n),
           NEW f, f[0] = home, \A k \in 1 .. n : f[k] = ScanStep(n, count, f[k - 1], k - 1)
    PROVE  /\ f[n] \in Ids(n)
           /\ \/ count[f[n]] < count[home]
              \/ \A i \in 0 .. n - 1 : count[(home + i) % n] >= count[home]
<1>. DEFINE Found(k) ==
               /\ f[k] \in Ids(n)
               /\ \/ count[f[k]] < count[home]
                  \/ f[k] = home /\ \A i \in 0 .. k - 1 : count[(home + i) % n] >= count[home]
            S == {k \in Nat : k <= n => Found(k)}
<1>1. 0 \in S
  OBVIOUS
<1>2. ASSUME NEW k \in Nat, k \in S
      PROVE  k + 1 \in S
  <2>. SUFFICES ASSUME k + 1 <= n PROVE Found(k + 1)
    OBVIOUS
  <2>1. Found(k)
    BY <1>2
  <2>2. f[k + 1] = ScanStep(n, count, f[k], k)
    <3>1. k + 1 \in 1 .. n /\ (k + 1) - 1 = k
      OBVIOUS
    <3>. QED  BY <3>1
  <2>3. /\ f[k + 1] \in Ids(n)
        /\ \/ f[k + 1] = f[k] /\ count[(f[k] + k) % n] >= count[f[k]]
           \/ count[f[k + 1]] < count[f[k]]
    BY <2>1, <2>2, ScanStays
  <2>4. count[f[k]] \in Nat /\ count[f[k + 1]] \in Nat /\ count[home] \in Nat
    BY <2>1, <2>3
  <2>5. CASE count[f[k]] < count[home]
    BY <2>3, <2>4, <2>5
  <2>6. CASE f[k] = home /\ \A i \in 0 .. k - 1 : count[(home + i) % n] >= count[home]
    <3>1. CASE count[f[k + 1]] < count[f[k]]
      BY <2>3, <2>6, <3>1
    <3>2. CASE f[k + 1] = f[k] /\ count[(f[k] + k) % n] >= count[f[k]]
      <4>1. ASSUME NEW i \in 0 .. (k + 1) - 1
            PROVE  count[(home + i) % n] >= count[home]
        <5>1. CASE i = k
          BY <2>6, <3>2, <5>1
        <5>2. CASE i \in 0 .. k - 1
          BY <2>6, <5>2
        <5>. QED  BY <5>1, <5>2
      <4>. QED  BY <2>3, <2>6, <3>2, <4>1
    <3>. QED  BY <2>3, <3>1, <3>2
  <2>. QED  BY <2>1, <2>5, <2>6
<1>3. S = Nat
  <2>1. S \in SUBSET Nat
    OBVIOUS
  <2>. HIDE DEF S
  <2>. QED  BY <1>1, <1>2, <2>1, SetInduction
<1>4. Found(n)
  <2>1. n \in S
    BY <1>3
  <2>. QED  BY <2>1
<1>. QED  BY <1>4

LEMMA ScanEndsLower ==
    ASSUME NEW n \in Nat \ {0}, NEW actorId \in Nat, NEW count \in [Ids(n) -> Nat],
           NEW w \in Ids(n), count[w] < count[Home(n, actorId)]
    PROVE  count[PickLeastLoaded(n, actorId, count)] < count[Home(n, actorId)]
<1>. DEFINE home == Home(n, actorId)
            Eqn(g) == g = [k \in 0 .. n |-> IF k = 0 THEN home ELSE ScanStep(n, count, g[k - 1], k - 1)]
            f == CHOOSE g : Eqn(g)
<1>1. home \in Ids(n)
  BY Remainder DEF Home
<1>. HIDE DEF home
<1>2. PICK g \in [0 .. n -> Ids(n)] : g[0] = home /\ \A k \in 1 .. n : g[k] = ScanStep(n, count, g[k - 1], k - 1)
  <2>1. \A m \in Nat : \E g \in [0 .. m -> Ids(n)] :
          g[0] = home /\ \A k \in 1 .. m : g[k] = ScanStep(n, count, g[k - 1], k - 1)
    BY <1>1, ScanExists
  <2>. QED  BY <2>1
<1>3. Eqn(g)
  <2>1. \A k \in 0 .. n : g[k] = IF k = 0 THEN home ELSE ScanStep(n, count, g[k - 1], k - 1)
    BY <1>2
  <2>. QED  BY <2>1
<1>4. Eqn(f)
  BY <1>3
<1>5. PickLeastLoaded(n, actorId, count) = f[n]
  BY DEF PickLeastLoaded, home
<1>. HIDE DEF f
<1>6. f[0] = home /\ \A k \in 1 .. n : f[k] = ScanStep(n, count, f[k - 1], k - 1)
  <2>1. \A k \in 0 .. n : f[k] = IF k = 0 THEN home ELSE ScanStep(n, count, f[k - 1], k - 1)
    BY <1>4
  <2>. QED  BY <2>1
<1>7. /\ f[n] \in Ids(n)
      /\ \/ count[f[n]] < count[home]
         \/ \A i \in 0 .. n - 1 : count[(home + i) % n] >= count[home]
  BY <1>1, <1>6, ScanFinds
<1>8. PICK i \in 0 .. n - 1 : (home + i) % n = w
  <2>1. CASE w >= home
    <3>1. w - home \in 0 .. n - 1 /\ home + (w - home) = w /\ w \in Nat /\ w < n
      BY <1>1, <2>1 DEF Ids
    <3>2. w % n = w
      BY <3>1, Remainder
    <3>. QED  BY <3>1, <3>2
  <2>2. CASE w < home
    <3>1. (w + n) - home \in 0 .. n - 1 /\ home + ((w + n) - home) = w + n /\ w + n \in Nat /\ w < n /\ w \in Nat
      BY <1>1, <2>2 DEF Ids
    <3>2. (w + n) % n = w
      <4>1. PICK a \in Nat : a = w + n
        BY <3>1
      <4>2. n \in Nat /\ n > 0 /\ n <= a /\ a < n + n
        BY <3>1, <4>1
      <4>3. a % n = a - n
        BY <4>2, OneLap
      <4>. QED  BY <3>1, <4>1, <4>3
    <3>. QED  BY <3>1, <3>2
  <2>. QED  BY <1>1, <2>1, <2>2 DEF Ids
<1>9. count[home] \in Nat /\ count[w] \in Nat
  BY <1>1
<1>. QED  BY <1>5, <1>7, <1>8, <1>9 DEF home

LEMMA AlwaysRelieved ==
    ASSUME NEW n \in Nat \ {0}, NEW mark \in Nat, NEW actorId \in Nat, NEW count \in [Ids(n) -> Nat]
    PROVE  Relieved(n, mark, actorId, count)
<1>. SUFFICES ASSUME count[Home(n, actorId)] >= mark,
                     NEW w \in Ids(n), count[w] < count[Home(n, actorId)]
              PROVE  count[PickAmong(n, mark, actorId, count)] < count[Home(n, actorId)]
  BY DEF Relieved
<1>1. Home(n, actorId) \in Ids(n)
  BY Remainder DEF Home
<1>2. count[Home(n, actorId)] \in Nat /\ count[w] \in Nat
  BY <1>1
<1>3. n # 1
  BY <1>1, <1>2 DEF Ids
<1>4. PickAmong(n, mark, actorId, count) = PickLeastLoaded(n, actorId, count)
  BY <1>2, <1>3 DEF PickAmong
<1>. QED  BY <1>4, ScanEndsLower

\* Load-aware routing relieves an overloaded home worker whatever the number of workers,
\* the watermark, the actor and the lengths of the queues, although the scan counts on
\* from the best worker so far (pickWorker, pickLeastLoaded).
THEOREM RoutingRelieves ==
    /\ \A n \in Nat \ {0}, mark \in Nat, actorId \in Nat :
          \A count \in [Ids(n) -> Nat] : Relieved(n, mark, actorId, count)
    /\ Spec => []OverflowRelieved
<1>1. \A n \in Nat \ {0}, mark \in Nat, actorId \in Nat :
         \A count \in [Ids(n) -> Nat] : Relieved(n, mark, actorId, count)
  BY AlwaysRelieved
<1>2. OverflowRelieved
  <2>. SUFFICES ASSUME NEW n \in 1 .. 4, NEW actorId \in 0 .. 3, NEW count \in [Ids(n) -> 0 .. 3]
                PROVE  Relieved(n, 2, actorId, count)
    BY DEF OverflowRelieved
  <2>1. n \in Nat \ {0} /\ 2 \in Nat /\ actorId \in Nat /\ count \in [Ids(n) -> Nat]
    OBVIOUS
  <2>. QED  BY <2>1, AlwaysRelieved
<1>3. Spec => []OverflowRelieved
  BY <1>2, PTL
<1>. QED  BY <1>1, <1>3
=============================================================================
