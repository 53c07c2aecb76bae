----------------------- MODULE MessageResourcesProofs -----------------------
(***************************************************************************)
(* Proofs about what every message touches.  The metrics, for any number   *)
(* of threads, actors, sends and batches: a snapshot taken at rest is      *)
(* true.  The message pool, for any number of threads and messages and any *)
(* table of size classes: a block has one owner, and the partial lists and *)
(* the counts are exact, also when memory runs out.                        *)
(***************************************************************************)
EXTENDS MessageResources, TLAPS, WellFoundedInduction, FiniteSetTheorems, SequenceTheorems

-----------------------------------------------------------------------------
(* Numbers                                                                 *)

\* A set of natural numbers has a least member, which is the one Min chooses.
LEMMA LeastIsMin ==
    ASSUME NEW S \in SUBSET Nat, S # {}
    PROVE  Min(S) \in S /\ \A y \in S : Min(S) <= y
<1>. DEFINE R == {p \in Nat \X Nat : p[1] < p[2]}
<1>1. IsWellFoundedOn(R, Nat)
  BY NatLessThanWellFounded, Zenon DEF OpToRel
<1>2. \E x \in S : \A y \in S : ~ (<<y, x>> \in R)
  BY <1>1, WFMin
<1>3. \A x, y \in S : ~ (<<y, x>> \in R) => x <= y
  OBVIOUS
<1>4. \E x \in S : \A y \in S : x <= y
  <2>. HIDE DEF R
  <2>. QED  BY <1>2, <1>3
<1>. QED  BY <1>4 DEF Min

-----------------------------------------------------------------------------
(* Sums                                                                    *)

\* What holds of 0 and of each number's successor holds of all; the provers take the set
\* of the numbers it holds of.
LEMMA SetInduction ==
    ASSUME NEW S \in SUBSET Nat, 0 \in S, \A k \in Nat : k \in S => k + 1 \in S
    PROVE  S = Nat
<1>. DEFINE T == Nat \ S
<1>. SUFFICES ASSUME T # {} PROVE FALSE
  OBVIOUS
<1>1. Min(T) \in T /\ \A y \in T : Min(T) <= y
  <2>1. T \in SUBSET Nat
    OBVIOUS
  <2>. HIDE DEF T
  <2>. QED  BY <2>1, LeastIsMin
<1>2. PICK x \in T : \A y \in T : x <= y
  BY <1>1
<1>3. x \in Nat /\ x # 0 /\ x - 1 \in Nat /\ x - 1 \notin T
  BY <1>2
<1>. QED  BY <1>3

\* The element that MapThenFoldSet takes first, and the equation of its sums.
Pick(s) == CHOOSE x \in s : TRUE
SumOf(f, h, s) == h[s] = IF s = {} THEN 0 ELSE f[Pick(s)] + h[s \ {Pick(s)}]

\* The parts of a finite set, and what is left of one without the element taken.
LEMMA Parts ==
    ASSUME NEW T, IsFiniteSet(T), NEW s \in SUBSET T
    PROVE  /\ Cardinality(s) \in Nat
           /\ Cardinality(s) <= Cardinality(T)
           /\ Cardinality(s) = 0 <=> s = {}
           /\ s # {} => /\ Pick(s) \in s /\ Pick(s) \in T /\ s \ {Pick(s)} \in SUBSET T
                        /\ Cardinality(s \ {Pick(s)}) = Cardinality(s) - 1
<1>1. IsFiniteSet(s) /\ Cardinality(s) <= Cardinality(T)
  BY FS_Subset
<1>2. Cardinality(s) \in Nat
  BY <1>1, FS_CardinalityType
<1>3. Cardinality(s) = 0 <=> s = {}
  BY <1>1, FS_EmptySet
<1>4. ASSUME s # {}
      PROVE  /\ Pick(s) \in s /\ Pick(s) \in T /\ s \ {Pick(s)} \in SUBSET T
             /\ Cardinality(s \ {Pick(s)}) = Cardinality(s) - 1
  <2>1. Pick(s) \in s
    BY <1>4 DEF Pick
  <2>2. Cardinality(s \ {Pick(s)}) = Cardinality(s) - 1
    BY <1>1, <2>1, FS_RemoveElement
  <2>. QED  BY <2>1, <2>2
<1>. QED  BY <1>1, <1>2, <1>3, <1>4

\* Only the empty part has no more than no elements.
LEMMA NoElements ==
    ASSUME NEW T, IsFiniteSet(T), NEW s \in SUBSET T, Cardinality(s) <= 0
    PROVE  s = {}
<1>1. Cardinality(s) \in Nat
  BY Parts
<1>2. Cardinality(s) = 0
  BY <1>1
<1>. QED  BY <1>2, Parts

\* The recursion of the sum has a solution.
LEMMA SumExists ==
    ASSUME NEW T, IsFiniteSet(T), NEW f \in [T -> Int]
    PROVE  \E h \in [SUBSET T -> Int] : \A s \in SUBSET T : SumOf(f, h, s)
<1>. DEFINE Solved(k, h) == \A s \in SUBSET T : Cardinality(s) <= k => SumOf(f, h, s)
            S == {k \in Nat : \E h \in [SUBSET T -> Int] : Solved(k, h)}
<1>1. 0 \in S
  <2>1. PICK h : h = [s \in SUBSET T |-> 0]
    OBVIOUS
  <2>2. h \in [SUBSET T -> Int] /\ \A s \in SUBSET T : h[s] = 0
    BY <2>1
  <2>3. ASSUME NEW s \in SUBSET T, Cardinality(s) <= 0 PROVE SumOf(f, h, s)
    <3>1. s = {}
      BY <2>3, NoElements
    <3>. QED  BY <2>2, <3>1 DEF SumOf
  <2>. QED  BY <2>2, <2>3
<1>2. ASSUME NEW k \in Nat, k \in S PROVE k + 1 \in S
  <2>1. PICK g \in [SUBSET T -> Int] : Solved(k, g)
    BY <1>2
  <2>2. PICK h : h = [s \in SUBSET T |-> IF Cardinality(s) <= k THEN g[s] ELSE f[Pick(s)] + g[s \ {Pick(s)}]]
    OBVIOUS
  <2>3. ASSUME NEW s \in SUBSET T
        PROVE  /\ Cardinality(s) <= k => h[s] = g[s]
               /\ ~(Cardinality(s) <= k) => s # {} /\ h[s] = f[Pick(s)] + g[s \ {Pick(s)}]
               /\ h[s] \in Int
    <3>1. Cardinality(s) \in Nat /\ (s = {} => Cardinality(s) = 0)
      BY Parts
    <3>2. Cardinality(s) <= k => h[s] = g[s]
      BY <2>2
    <3>3. ASSUME ~(Cardinality(s) <= k)
          PROVE  s # {} /\ h[s] = f[Pick(s)] + g[s \ {Pick(s)}] /\ f[Pick(s)] \in Int /\ g[s \ {Pick(s)}] \in Int
      <4>1. s # {}
        BY <3>1, <3>3
      <4>2. Pick(s) \in T /\ s \ {Pick(s)} \in SUBSET T
        BY <4>1, Parts
      <4>. QED  BY <2>2, <3>3, <4>1, <4>2
    <3>4. g[s] \in Int
      OBVIOUS
    <3>. QED  BY <3>2, <3>3, <3>4
  <2>4. h \in [SUBSET T -> Int]
    <3>1. DOMAIN h = SUBSET T /\ h = [s \in SUBSET T |-> h[s]]
      BY <2>2
    <3>. QED  BY <2>3, <3>1
  <2>5. ASSUME NEW s \in SUBSET T, Cardinality(s) <= k + 1 PROVE SumOf(f, h, s)
    <3>1. CASE s = {}
      <4>1. Cardinality(s) <= k
        <5>1. Cardinality(s) = 0
          BY <3>1, Parts
        <5>. QED  BY <5>1
      <4>2. h[s] = g[s] /\ SumOf(f, g, s)
        BY <2>1, <2>3, <4>1
      <4>. QED  BY <3>1, <4>2 DEF SumOf
    <3>2. CASE s # {}
      <4>1. PICK r \in SUBSET T : r = s \ {Pick(s)} /\ Cardinality(r) = Cardinality(s) - 1
        BY <3>2, Parts
      <4>2. Cardinality(s) \in Nat
        BY Parts
      <4>3. Cardinality(r) <= k
        BY <2>5, <4>1, <4>2
      <4>4. h[r] = g[r]
        BY <2>3, <4>3
      <4>5. CASE Cardinality(s) <= k
        <5>1. h[s] = g[s] /\ SumOf(f, g, s)
          BY <2>1, <2>3, <4>5
        <5>. QED  BY <3>2, <4>1, <4>4, <5>1 DEF SumOf
      <4>6. CASE ~(Cardinality(s) <= k)
        <5>1. h[s] = f[Pick(s)] + g[r]
          BY <2>3, <4>1, <4>6
        <5>. QED  BY <3>2, <4>1, <4>4, <5>1 DEF SumOf
      <4>. QED  BY <4>5, <4>6
    <3>. QED  BY <3>1, <3>2
  <2>. QED  BY <2>4, <2>5
<1>3. S = Nat
  <2>1. S \in SUBSET Nat
    OBVIOUS
  <2>. HIDE DEF S
  <2>. QED  BY <1>1, <1>2, <2>1, SetInduction
<1>4. Cardinality(T) \in Nat
  BY FS_CardinalityType
<1>5. PICK h \in [SUBSET T -> Int] : Solved(Cardinality(T), h)
  <2>1. Cardinality(T) \in S
    BY <1>3, <1>4
  <2>. QED  BY <2>1
<1>6. \A s \in SUBSET T : SumOf(f, h, s)
  BY <1>5, Parts
<1>. QED  BY <1>6

\* TotalOf is the last of a family of sums, one for each part of the domain.
LEMMA TotalIsSum ==
    ASSUME NEW T, IsFiniteSet(T), NEW f \in [T -> Int]
    PROVE  \E h \in [SUBSET T -> Int] : TotalOf(f) = h[T] /\ \A s \in SUBSET T : SumOf(f, h, s)
<1>. DEFINE Eqn(h) == h = [s \in SUBSET T |-> IF s = {} THEN 0 ELSE f[Pick(s)] + h[s \ {Pick(s)}]]
            iter == CHOOSE h : Eqn(h)
<1>1. TotalOf(f) = iter[T]
  <2>1. DOMAIN f = T
    OBVIOUS
  <2>. QED  BY <2>1, Zenon DEF TotalOf, MapThenSumSet, MapThenFoldSet, Pick
<1>2. PICK h \in [SUBSET T -> Int] : \A s \in SUBSET T : SumOf(f, h, s)
  BY SumExists
<1>3. Eqn(h)
  BY <1>2 DEF SumOf
<1>4. Eqn(iter)
  BY <1>3
<1>. HIDE DEF iter
<1>5. \A s \in SUBSET T : SumOf(f, iter, s)
  BY <1>4 DEF SumOf
<1>6. iter \in [SUBSET T -> Int]
  <2>. DEFINE S == {k \in Nat : \A s \in SUBSET T : Cardinality(s) <= k => iter[s] \in Int}
  <2>1. 0 \in S
    <3>1. ASSUME NEW s \in SUBSET T, Cardinality(s) <= 0 PROVE iter[s] \in Int
      <4>1. s = {}
        BY <3>1, NoElements
      <4>2. SumOf(f, iter, s)
        BY <1>5
      <4>. QED  BY <4>1, <4>2 DEF SumOf
    <3>. QED  BY <3>1
  <2>2. ASSUME NEW k \in Nat, k \in S PROVE k + 1 \in S
    <3>1. ASSUME NEW s \in SUBSET T, Cardinality(s) <= k + 1 PROVE iter[s] \in Int
      <4>1. CASE s = {}
        <5>1. SumOf(f, iter, s)
          BY <1>5
        <5>. QED  BY <4>1, <5>1 DEF SumOf
      <4>2. CASE s # {}
        <5>1. PICK r \in SUBSET T : r = s \ {Pick(s)} /\ Cardinality(r) = Cardinality(s) - 1
          BY <4>2, Parts
        <5>2. Cardinality(s) \in Nat /\ Pick(s) \in T
          BY <4>2, Parts
        <5>3. Cardinality(r) <= k
          BY <3>1, <5>1, <5>2
        <5>4. iter[r] \in Int /\ f[Pick(s)] \in Int
          BY <2>2, <5>2, <5>3
        <5>5. iter[s] = f[Pick(s)] + iter[r]
          BY <1>5, <4>2, <5>1 DEF SumOf
        <5>. QED  BY <5>4, <5>5
      <4>. QED  BY <4>1, <4>2
    <3>. QED  BY <3>1
  <2>3. S = Nat
    <3>1. S \in SUBSET Nat
      OBVIOUS
    <3>. HIDE DEF S
    <3>. QED  BY <2>1, <2>2, <3>1, SetInduction
  <2>4. \A s \in SUBSET T : iter[s] \in Int
    <3>1. Cardinality(T) \in S
      BY <2>3, FS_CardinalityType
    <3>. QED  BY <3>1, Parts
  <2>5. iter = [s \in SUBSET T |-> iter[s]]
    BY <1>4
  <2>. QED  BY <2>4, <2>5
<1>. QED  BY <1>1, <1>5, <1>6

\* A sum changes by as much as the one value that changes.
LEMMA TotalChanges ==
    ASSUME NEW T, IsFiniteSet(T), NEW f \in [T -> Int], NEW g \in [T -> Int], NEW w \in T,
           \A x \in T \ {w} : g[x] = f[x]
    PROVE  TotalOf(f) \in Int /\ TotalOf(g) = TotalOf(f) + (g[w] - f[w])
<1>1. PICK hf \in [SUBSET T -> Int] : TotalOf(f) = hf[T] /\ \A s \in SUBSET T : SumOf(f, hf, s)
  BY TotalIsSum
<1>2. PICK hg \in [SUBSET T -> Int] : TotalOf(g) = hg[T] /\ \A s \in SUBSET T : SumOf(g, hg, s)
  BY TotalIsSum
<1>3. PICK d \in Int : d = g[w] - f[w]
  OBVIOUS
<1>. DEFINE Differs(s) == hg[s] = IF w \in s THEN hf[s] + d ELSE hf[s]
            S == {k \in Nat : \A s \in SUBSET T : Cardinality(s) <= k => Differs(s)}
<1>4. 0 \in S
  <2>1. ASSUME NEW s \in SUBSET T, Cardinality(s) <= 0 PROVE Differs(s)
    <3>1. s = {}
      BY <2>1, NoElements
    <3>2. hg[s] = 0 /\ hf[s] = 0
      BY <1>1, <1>2, <3>1 DEF SumOf
    <3>. QED  BY <3>1, <3>2
  <2>. QED  BY <2>1
<1>5. ASSUME NEW k \in Nat, k \in S PROVE k + 1 \in S
  <2>1. ASSUME NEW s \in SUBSET T, Cardinality(s) <= k + 1 PROVE Differs(s)
    <3>1. CASE s = {}
      <4>1. hg[s] = 0 /\ hf[s] = 0
        BY <1>1, <1>2, <3>1 DEF SumOf
      <4>. QED  BY <3>1, <4>1
    <3>2. CASE s # {}
      <4>1. PICK r \in SUBSET T : r = s \ {Pick(s)} /\ Cardinality(r) = Cardinality(s) - 1
        BY <3>2, Parts
      <4>2. PICK x \in T : x = Pick(s) /\ x \in s
        BY <3>2, Parts
      <4>3. Cardinality(s) \in Nat
        BY Parts
      <4>4. Cardinality(r) <= k
        BY <2>1, <4>1, <4>3
      <4>5. Differs(r)
        BY <1>5, <4>4
      <4>6. hf[s] = f[x] + hf[r] /\ hg[s] = g[x] + hg[r]
        BY <1>1, <1>2, <3>2, <4>1, <4>2 DEF SumOf
      <4>7. hf[r] \in Int /\ hg[r] \in Int /\ f[x] \in Int /\ g[x] \in Int
        OBVIOUS
      <4>8. CASE x = w
        <5>1. w \in s /\ w \notin r
          BY <4>1, <4>2, <4>8
        <5>2. f[x] = f[w] /\ g[x] = g[w] /\ hg[r] = hf[r]
          BY <4>5, <4>8, <5>1
        <5>. QED  BY <1>3, <4>6, <4>7, <5>1, <5>2
      <4>9. CASE x # w
        <5>1. w \in s <=> w \in r
          BY <4>1, <4>2, <4>9
        <5>2. g[x] = f[x]
          BY <4>9
        <5>. QED  BY <4>5, <4>6, <4>7, <5>1, <5>2
      <4>. QED  BY <4>8, <4>9
    <3>. QED  BY <3>1, <3>2
  <2>. QED  BY <2>1
<1>6. S = Nat
  <2>1. S \in SUBSET Nat
    OBVIOUS
  <2>. HIDE DEF S
  <2>. QED  BY <1>4, <1>5, <2>1, SetInduction
<1>7. Differs(T)
  <2>1. Cardinality(T) \in S
    BY <1>6, FS_CardinalityType
  <2>2. Cardinality(T) <= Cardinality(T) /\ T \in SUBSET T
    BY FS_CardinalityType
  <2>. QED  BY <2>1, <2>2
<1>8. hf[T] \in Int
  OBVIOUS
<1>. QED  BY <1>1, <1>2, <1>3, <1>7, <1>8

\* Nothing adds up to nothing.
LEMMA TotalOfNothing ==
    ASSUME NEW T, IsFiniteSet(T), NEW f \in [T -> Int], \A x \in T : f[x] = 0
    PROVE  TotalOf(f) = 0
<1>1. PICK h \in [SUBSET T -> Int] : TotalOf(f) = h[T] /\ \A s \in SUBSET T : SumOf(f, h, s)
  BY TotalIsSum
<1>. DEFINE S == {k \in Nat : \A s \in SUBSET T : Cardinality(s) <= k => h[s] = 0}
<1>2. 0 \in S
  <2>1. ASSUME NEW s \in SUBSET T, Cardinality(s) <= 0 PROVE h[s] = 0
    <3>1. s = {}
      BY <2>1, NoElements
    <3>. QED  BY <1>1, <3>1 DEF SumOf
  <2>. QED  BY <2>1
<1>3. ASSUME NEW k \in Nat, k \in S PROVE k + 1 \in S
  <2>1. ASSUME NEW s \in SUBSET T, Cardinality(s) <= k + 1 PROVE h[s] = 0
    <3>1. CASE s = {}
      BY <1>1, <3>1 DEF SumOf
    <3>2. CASE s # {}
      <4>1. PICK r \in SUBSET T : r = s \ {Pick(s)} /\ Cardinality(r) = Cardinality(s) - 1
        BY <3>2, Parts
      <4>2. Cardinality(s) \in Nat /\ Pick(s) \in T
        BY <3>2, Parts
      <4>3. Cardinality(r) <= k
        BY <2>1, <4>1, <4>2
      <4>4. h[r] = 0 /\ f[Pick(s)] = 0
        BY <1>3, <4>2, <4>3
      <4>5. h[s] = f[Pick(s)] + h[r]
        BY <1>1, <3>2, <4>1 DEF SumOf
      <4>. QED  BY <4>4, <4>5
    <3>. QED  BY <3>1, <3>2
  <2>. QED  BY <2>1
<1>4. S = Nat
  <2>1. S \in SUBSET Nat
    OBVIOUS
  <2>. HIDE DEF S
  <2>. QED  BY <1>2, <1>3, <2>1, SetInduction
<1>5. h[T] = 0
  <2>1. Cardinality(T) \in S
    BY <1>4, FS_CardinalityType
  <2>2. Cardinality(T) <= Cardinality(T) /\ T \in SUBSET T
    BY FS_CardinalityType
  <2>. QED  BY <2>1, <2>2
<1>. QED  BY <1>1, <1>5
-----------------------------------------------------------------------------
(* The counters                                                            *)

SenderPcs == {"idle", "pushed", "peak", "dispatch", "queued"}
WorkerPcs == {"idle", "handle", "failed", "caught", "settle", "released", "queued", "batch"}

ActorCounters == [enqueued : Nat, processed : Nat, dropped : Nat, batches : Nat, peakDepth : Nat]
DispatcherCounters ==
    [dispatchCount : Nat, acquireCount : Nat, deduplicated : Nat, stealCount : Nat, readyQueuePeak : Nat]

MetricTypes ==
    /\ enabled \in BOOLEAN /\ down \in BOOLEAN /\ held \in BOOLEAN /\ mail \in Nat /\ ready \in Nat
    /\ actorM \in ActorCounters
    /\ workerM \in [Workers -> [batches : Nat, messages : Nat]]
    /\ dispatcherM \in DispatcherCounters
    /\ seen \in [sent : Nat, lost : Nat, deepest : Nat]
    /\ pc \in [Parties -> SenderPcs \cup WorkerPcs]
    /\ \A t \in Senders : pc[t] \in SenderPcs
    /\ \A w \in Workers : pc[w] \in WorkerPcs
    /\ reg \in [Parties -> [n : Nat, peak : Nat]]
    /\ \A w \in Workers : pc[w] = "idle" => reg[w].n = 0

\* What a party has done and not yet counted, while the metrics are on: a message pushed,
\* the messages of the batch it is in, a batch begun, a token queued.
Pushed(t)  == Counted(IF pc[t] = "pushed" THEN 1 ELSE 0)
InBatch(t) == pc[t] \in {"handle", "failed", "caught"}
Handled(t) == Counted(IF InBatch(t) THEN reg[t].n ELSE 0)
Begun(t)   == Counted(IF InBatch(t) THEN 1 ELSE 0)
Queued(t)  == Counted(IF pc[t] = "queued" THEN 1 ELSE 0)

\* What a worker has counted or is about to count.
Ended(w)    == pc[w] \in {"settle", "released", "queued", "batch"}
Messaged(w) == workerM[w].messages + Counted(IF Ended(w) THEN reg[w].n ELSE 0)
Batched(w)  == workerM[w].batches + Counted(IF Ended(w) THEN 1 ELSE 0)

\* The sums of these over all parties and over the workers.
AllPushed   == TotalOf([t \in Parties |-> Pushed(t)])
AllHandled  == TotalOf([t \in Parties |-> Handled(t)])
AllBegun    == TotalOf([t \in Parties |-> Begun(t)])
AllQueued   == TotalOf([t \in Parties |-> Queued(t)])
AllMessaged == TotalOf([w \in Workers |-> Messaged(w)])
AllBatched  == TotalOf([w \in Workers |-> Batched(w)])

\* CountsAgree at any moment: with what is under way.
Books ==
    /\ seen.sent = actorM.enqueued + actorM.dropped + AllPushed
    /\ actorM.enqueued + AllPushed = actorM.processed + seen.lost + Counted(mail) + AllHandled
    /\ AllMessaged = actorM.processed
    /\ AllBatched = actorM.batches
    /\ actorM.batches + AllBegun = dispatcherM.acquireCount
    /\ dispatcherM.dispatchCount + AllQueued
          = dispatcherM.deduplicated + dispatcherM.acquireCount + Counted(ready)

\* The largest depth is the peak, or a sender that saw it is still trying to store it.
PeakInv ==
    /\ actorM.peakDepth <= seen.deepest
    /\ \A t \in Senders : pc[t] = "peak" => reg[t].n > reg[t].peak /\ reg[t].n <= seen.deepest
    /\ actorM.peakDepth = seen.deepest \/ \E t \in Senders : pc[t] = "peak" /\ reg[t].n = seen.deepest

MetricsInv == MetricTypes /\ Books /\ PeakInv

\* The larger of two numbers.
LEMMA MaxOfTwo ==
    ASSUME NEW a \in Nat, NEW b \in Nat
    PROVE  Max({a, b}) = IF a >= b THEN a ELSE b
<1>. DEFINE m == IF a >= b THEN a ELSE b
<1>1. m \in {a, b} /\ \A y \in {a, b} : m >= y
  OBVIOUS
<1>2. \A x \in {a, b} : (\A y \in {a, b} : x >= y) => x = m
  OBVIOUS
<1>. QED  BY <1>1, <1>2 DEF Max

LEMMA Finite == IsFiniteSet(Parties) /\ IsFiniteSet(Workers) /\ Workers \subseteq Parties /\ Senders \subseteq Parties
  BY MetricsAssumption, FS_Union DEF Parties

\* Every share of a party is a number.
Shares ==
    /\ \A t \in Parties : Pushed(t) \in Nat /\ Handled(t) \in Nat /\ Begun(t) \in Nat /\ Queued(t) \in Nat
    /\ \A w \in Workers : Messaged(w) \in Nat /\ Batched(w) \in Nat

LEMMA ShareTypes == MetricTypes => Shares
<1>. SUFFICES ASSUME MetricTypes PROVE Shares
  OBVIOUS
<1>1. \A t \in Parties : reg[t].n \in Nat
  BY DEF MetricTypes
<1>2. \A w \in Workers : workerM[w].messages \in Nat /\ workerM[w].batches \in Nat /\ reg[w].n \in Nat
  BY <1>1, Finite DEF MetricTypes
<1>. QED  BY <1>1, <1>2 DEF Shares, Pushed, Handled, InBatch, Begun, Queued, Messaged, Batched, Counted

\* A step of t: nobody else moves.
Alone(t) ==
    /\ enabled' = enabled
    /\ \A u \in Parties \ {t} : pc'[u] = pc[u] /\ reg'[u] = reg[u]
    /\ \A w \in Workers \ {t} : workerM'[w] = workerM[w]

\* A sum over a set whose values change at most at t.
LEMMA SumStep ==
    ASSUME NEW T, IsFiniteSet(T), NEW t, NEW f, NEW g,
           f \in [T -> Int], g \in [T -> Int], \A x \in T \ {t} : g[x] = f[x]
    PROVE  /\ TotalOf(f) \in Int
           /\ t \in T => TotalOf(g) = TotalOf(f) + (g[t] - f[t])
           /\ t \notin T => TotalOf(g) = TotalOf(f)
<1>1. TotalOf(f) \in Int
  <2>1. PICK h \in [SUBSET T -> Int] : TotalOf(f) = h[T] /\ \A s \in SUBSET T : SumOf(f, h, s)
    BY TotalIsSum
  <2>2. h[T] \in Int
    OBVIOUS
  <2>. QED  BY <2>1, <2>2
<1>2. ASSUME t \in T PROVE TotalOf(g) = TotalOf(f) + (g[t] - f[t])
  BY <1>2, TotalChanges
<1>3. ASSUME t \notin T PROVE TotalOf(g) = TotalOf(f)
  <2>1. g = f
    BY <1>3
  <2>. QED  BY <2>1
<1>. QED  BY <1>1, <1>2, <1>3

\* Each sum over the parties changes by what the share of t does.
LEMMA PartySums ==
    ASSUME MetricTypes, MetricTypes', NEW t \in Parties, Alone(t)
    PROVE  /\ AllPushed \in Int /\ AllPushed' = AllPushed + (Pushed(t)' - Pushed(t))
           /\ AllHandled \in Int /\ AllHandled' = AllHandled + (Handled(t)' - Handled(t))
           /\ AllBegun \in Int /\ AllBegun' = AllBegun + (Begun(t)' - Begun(t))
           /\ AllQueued \in Int /\ AllQueued' = AllQueued + (Queued(t)' - Queued(t))
<1>1. Shares /\ Shares'
  BY ShareTypes, PTL
<1>3. \A u \in Parties \ {t} :
         Pushed(u)' = Pushed(u) /\ Handled(u)' = Handled(u) /\ Begun(u)' = Begun(u) /\ Queued(u)' = Queued(u)
  BY DEF Alone, Pushed, Handled, InBatch, Begun, Queued, Counted
<1>4. AllPushed \in Int /\ AllPushed' = AllPushed + (Pushed(t)' - Pushed(t))
  <2>1. PICK f : f = [u \in Parties |-> Pushed(u)]
    OBVIOUS
  <2>2. PICK g : g = [u \in Parties |-> Pushed(u)']
    OBVIOUS
  <2>3. f \in [Parties -> Int] /\ g \in [Parties -> Int] /\ \A x \in Parties \ {t} : g[x] = f[x]
    BY <1>1, <1>3, <2>1, <2>2 DEF Shares
  <2>4. TotalOf(f) \in Int /\ TotalOf(g) = TotalOf(f) + (g[t] - f[t])
    BY <2>3, Finite, SumStep
  <2>5. AllPushed = TotalOf(f) /\ AllPushed' = TotalOf(g)
    BY <2>1, <2>2 DEF AllPushed
  <2>. QED  BY <2>1, <2>2, <2>4, <2>5
<1>5. AllHandled \in Int /\ AllHandled' = AllHandled + (Handled(t)' - Handled(t))
  <2>1. PICK f : f = [u \in Parties |-> Handled(u)]
    OBVIOUS
  <2>2. PICK g : g = [u \in Parties |-> Handled(u)']
    OBVIOUS
  <2>3. f \in [Parties -> Int] /\ g \in [Parties -> Int] /\ \A x \in Parties \ {t} : g[x] = f[x]
    BY <1>1, <1>3, <2>1, <2>2 DEF Shares
  <2>4. TotalOf(f) \in Int /\ TotalOf(g) = TotalOf(f) + (g[t] - f[t])
    BY <2>3, Finite, SumStep
  <2>5. AllHandled = TotalOf(f) /\ AllHandled' = TotalOf(g)
    BY <2>1, <2>2 DEF AllHandled
  <2>. QED  BY <2>1, <2>2, <2>4, <2>5
<1>6. AllBegun \in Int /\ AllBegun' = AllBegun + (Begun(t)' - Begun(t))
  <2>1. PICK f : f = [u \in Parties |-> Begun(u)]
    OBVIOUS
  <2>2. PICK g : g = [u \in Parties |-> Begun(u)']
    OBVIOUS
  <2>3. f \in [Parties -> Int] /\ g \in [Parties -> Int] /\ \A x \in Parties \ {t} : g[x] = f[x]
    BY <1>1, <1>3, <2>1, <2>2 DEF Shares
  <2>4. TotalOf(f) \in Int /\ TotalOf(g) = TotalOf(f) + (g[t] - f[t])
    BY <2>3, Finite, SumStep
  <2>5. AllBegun = TotalOf(f) /\ AllBegun' = TotalOf(g)
    BY <2>1, <2>2 DEF AllBegun
  <2>. QED  BY <2>1, <2>2, <2>4, <2>5
<1>7. AllQueued \in Int /\ AllQueued' = AllQueued + (Queued(t)' - Queued(t))
  <2>1. PICK f : f = [u \in Parties |-> Queued(u)]
    OBVIOUS
  <2>2. PICK g : g = [u \in Parties |-> Queued(u)']
    OBVIOUS
  <2>3. f \in [Parties -> Int] /\ g \in [Parties -> Int] /\ \A x \in Parties \ {t} : g[x] = f[x]
    BY <1>1, <1>3, <2>1, <2>2 DEF Shares
  <2>4. TotalOf(f) \in Int /\ TotalOf(g) = TotalOf(f) + (g[t] - f[t])
    BY <2>3, Finite, SumStep
  <2>5. AllQueued = TotalOf(f) /\ AllQueued' = TotalOf(g)
    BY <2>1, <2>2 DEF AllQueued
  <2>. QED  BY <2>1, <2>2, <2>4, <2>5
<1>. QED  BY <1>4, <1>5, <1>6, <1>7

\* So do the sums over the workers, if t is one of them.
LEMMA WorkerSums ==
    ASSUME MetricTypes, MetricTypes', NEW t \in Parties, Alone(t)
    PROVE  /\ AllMessaged \in Int /\ AllBatched \in Int
           /\ t \in Workers => /\ AllMessaged' = AllMessaged + (Messaged(t)' - Messaged(t))
                               /\ AllBatched' = AllBatched + (Batched(t)' - Batched(t))
           /\ t \notin Workers => AllMessaged' = AllMessaged /\ AllBatched' = AllBatched
<1>1. Shares /\ Shares'
  BY ShareTypes, PTL
<1>3. \A u \in Workers \ {t} : Messaged(u)' = Messaged(u) /\ Batched(u)' = Batched(u)
  BY Finite DEF Alone, Messaged, Batched, Counted, Ended
<1>4. /\ AllMessaged \in Int
      /\ t \in Workers => AllMessaged' = AllMessaged + (Messaged(t)' - Messaged(t))
      /\ t \notin Workers => AllMessaged' = AllMessaged
  <2>1. PICK f : f = [u \in Workers |-> Messaged(u)]
    OBVIOUS
  <2>2. PICK g : g = [u \in Workers |-> Messaged(u)']
    OBVIOUS
  <2>3. f \in [Workers -> Int] /\ g \in [Workers -> Int] /\ \A x \in Workers \ {t} : g[x] = f[x]
    BY <1>1, <1>3, <2>1, <2>2 DEF Shares
  <2>4. /\ TotalOf(f) \in Int
        /\ t \in Workers => TotalOf(g) = TotalOf(f) + (g[t] - f[t])
        /\ t \notin Workers => TotalOf(g) = TotalOf(f)
    BY <2>3, Finite, SumStep
  <2>5. AllMessaged = TotalOf(f) /\ AllMessaged' = TotalOf(g)
    BY <2>1, <2>2 DEF AllMessaged
  <2>. QED  BY <2>1, <2>2, <2>4, <2>5
<1>5. /\ AllBatched \in Int
      /\ t \in Workers => AllBatched' = AllBatched + (Batched(t)' - Batched(t))
      /\ t \notin Workers => AllBatched' = AllBatched
  <2>1. PICK f : f = [u \in Workers |-> Batched(u)]
    OBVIOUS
  <2>2. PICK g : g = [u \in Workers |-> Batched(u)']
    OBVIOUS
  <2>3. f \in [Workers -> Int] /\ g \in [Workers -> Int] /\ \A x \in Workers \ {t} : g[x] = f[x]
    BY <1>1, <1>3, <2>1, <2>2 DEF Shares
  <2>4. /\ TotalOf(f) \in Int
        /\ t \in Workers => TotalOf(g) = TotalOf(f) + (g[t] - f[t])
        /\ t \notin Workers => TotalOf(g) = TotalOf(f)
    BY <2>3, Finite, SumStep
  <2>5. AllBatched = TotalOf(f) /\ AllBatched' = TotalOf(g)
    BY <2>1, <2>2 DEF AllBatched
  <2>. QED  BY <2>1, <2>2, <2>4, <2>5
<1>. QED  BY <1>4, <1>5

-----------------------------------------------------------------------------
(* The steps of one party                                                  *)

\* What a record call leaves in the counters.
LEMMA RecordTypes ==
    ASSUME MetricTypes, NEW n \in Nat, NEW flag \in BOOLEAN
    PROVE  /\ RecordedDispatch(flag, n) \in DispatcherCounters
           /\ RecordedAcquire(flag) \in DispatcherCounters
           /\ RecordedHandle(n) \in ActorCounters
           /\ Counted(n) \in Nat
           /\ [seen EXCEPT !.deepest = Max({@, Counted(n)})] \in [sent : Nat, lost : Nat, deepest : Nat]
<1>1. /\ dispatcherM \in DispatcherCounters /\ actorM \in ActorCounters /\ Counted(n) \in Nat
      /\ seen \in [sent : Nat, lost : Nat, deepest : Nat]
      /\ Counted(1) \in Nat /\ Counted(IF flag THEN 1 ELSE 0) \in Nat
  BY DEF MetricTypes, Counted
<1>2. PICK c \in Nat : c = Counted(n)
  BY <1>1
<1>3. PICK c1 \in Nat : c1 = Counted(1)
  BY <1>1
<1>4. PICK cf \in Nat : cf = Counted(IF flag THEN 1 ELSE 0)
  BY <1>1
<1>5. dispatcherM.readyQueuePeak \in Nat /\ seen.deepest \in Nat
  BY <1>1 DEF DispatcherCounters
<1>6. Max({dispatcherM.readyQueuePeak, c}) \in Nat /\ Max({seen.deepest, c}) \in Nat
  BY <1>5, MaxOfTwo
<1>7. PICK m \in Nat : m = Max({dispatcherM.readyQueuePeak, c})
  BY <1>6
<1>8. RecordedDispatch(flag, n) = [dispatcherM EXCEPT !.dispatchCount = @ + c1, !.deduplicated = @ + cf, !.readyQueuePeak = m]
  BY <1>2, <1>3, <1>4, <1>7 DEF RecordedDispatch
<1>d. /\ dispatcherM.dispatchCount \in Nat /\ dispatcherM.acquireCount \in Nat
      /\ dispatcherM.deduplicated \in Nat /\ dispatcherM.stealCount \in Nat
  BY <1>1 DEF DispatcherCounters
<1>a. actorM.processed \in Nat /\ actorM.batches \in Nat
  BY <1>1 DEF ActorCounters
<1>9. RecordedDispatch(flag, n) \in DispatcherCounters
  <2>1. PICK x \in Nat : x = dispatcherM.dispatchCount + c1
    BY <1>d
  <2>2. PICK y \in Nat : y = dispatcherM.deduplicated + cf
    BY <1>d
  <2>3. RecordedDispatch(flag, n) = [dispatcherM EXCEPT !.dispatchCount = x, !.deduplicated = y, !.readyQueuePeak = m]
    BY <1>8, <2>1, <2>2
  <2>. QED  BY <1>1, <2>3 DEF DispatcherCounters
<1>10. RecordedAcquire(flag) = [dispatcherM EXCEPT !.acquireCount = @ + c1, !.stealCount = @ + cf]
  BY <1>3, <1>4 DEF RecordedAcquire
<1>11. RecordedAcquire(flag) \in DispatcherCounters
  <2>1. PICK x \in Nat : x = dispatcherM.acquireCount + c1
    BY <1>d
  <2>2. PICK y \in Nat : y = dispatcherM.stealCount + cf
    BY <1>d
  <2>3. RecordedAcquire(flag) = [dispatcherM EXCEPT !.acquireCount = x, !.stealCount = y]
    BY <1>10, <2>1, <2>2
  <2>. QED  BY <1>1, <2>3 DEF DispatcherCounters
<1>12. RecordedHandle(n) = [actorM EXCEPT !.processed = @ + c, !.batches = @ + c1]
  BY <1>2, <1>3 DEF RecordedHandle
<1>13. RecordedHandle(n) \in ActorCounters
  <2>1. PICK x \in Nat : x = actorM.processed + c
    BY <1>a
  <2>2. PICK y \in Nat : y = actorM.batches + c1
    BY <1>a
  <2>3. RecordedHandle(n) = [actorM EXCEPT !.processed = x, !.batches = y]
    BY <1>12, <2>1, <2>2
  <2>. QED  BY <1>1, <2>3 DEF ActorCounters
<1>14. [seen EXCEPT !.deepest = Max({@, Counted(n)})] \in [sent : Nat, lost : Nat, deepest : Nat]
  BY <1>1, <1>2, <1>6
<1>. QED  BY <1>1, <1>9, <1>11, <1>13, <1>14

\* A step of a sender leaves every counter a number and every party where it may be.
LEMMA SenderTypes ==
    ASSUME MetricTypes, NEW t \in Senders, SenderStep(t)
    PROVE  MetricTypes' /\ Alone(t)
<1>. USE MetricsAssumption DEF MetricTypes, Alone, Goto, Counted, SenderPcs, WorkerPcs, Parties, countVars, NoReg
<1>1. CASE Drop(t)
  BY <1>1 DEF Drop, ActorCounters
<1>2. CASE PushMail(t)
  BY <1>2 DEF PushMail
<1>3. CASE RecordEnqueue(t)
  <2>1. seen' \in [sent : Nat, lost : Nat, deepest : Nat]
    BY <1>3, RecordTypes DEF RecordEnqueue
  <2>2. actorM' \in ActorCounters
    BY <1>3 DEF RecordEnqueue, ActorCounters
  <2>3. actorM.peakDepth \in Nat
    BY DEF ActorCounters
  <2>. QED  BY <1>3, <2>1, <2>2, <2>3 DEF RecordEnqueue
<1>4. CASE UpdatePeak(t)
  BY <1>4 DEF UpdatePeak, ActorCounters
<1>5. CASE DispatchToken(t)
  <2>1. dispatcherM' \in DispatcherCounters
    BY <1>5, RecordTypes DEF DispatchToken
  <2>2. ready' \in Nat /\ held' \in BOOLEAN
    BY <1>5 DEF DispatchToken
  <2>3. reg' \in [Parties -> [n : Nat, peak : Nat]]
    BY <1>5 DEF DispatchToken
  <2>. QED  BY <1>5, <2>1, <2>2, <2>3 DEF DispatchToken
<1>6. CASE RecordDispatch(t)
  <2>1. dispatcherM' \in DispatcherCounters
    BY <1>6, RecordTypes DEF RecordDispatch
  <2>. QED  BY <1>6, <2>1 DEF RecordDispatch
<1>. QED  BY <1>1, <1>2, <1>3, <1>4, <1>5, <1>6 DEF SenderStep

\* So does a step of a worker.
LEMMA WorkerTypes ==
    ASSUME MetricTypes, NEW t \in Workers, WorkerStep(t)
    PROVE  MetricTypes' /\ Alone(t)
<1>. USE MetricsAssumption DEF MetricTypes, Alone, Goto, Counted, SenderPcs, WorkerPcs, Parties, countVars, NoReg
<1>1. CASE AcquireToken(t)
  <2>1. dispatcherM' \in DispatcherCounters
    <3>1. (t # Home) \in BOOLEAN
      OBVIOUS
    <3>. QED  BY <1>1, <3>1, RecordTypes DEF AcquireToken
  <2>. QED  BY <1>1, <2>1 DEF AcquireToken
<1>2. CASE HandleMessage(t)
  BY <1>2 DEF HandleMessage, TakeMessage
<1>3. CASE HandlerThrows(t)
  BY <1>3 DEF HandlerThrows, TakeMessage
<1>9. CASE DrainMailbox(t)
  BY <1>9 DEF DrainMailbox
<1>10. CASE FailureHandled(t)
  <2>1. actorM' \in ActorCounters
    <3>1. reg[t].n \in Nat
      OBVIOUS
    <3>2. RecordedHandle(reg[t].n) \in ActorCounters /\ actorM \in ActorCounters
      BY <3>1, RecordTypes
    <3>3. actorM' = RecordedHandle(reg[t].n) \/ actorM' = actorM
      BY <1>10 DEF FailureHandled
    <3>. QED  BY <3>2, <3>3
  <2>. QED  BY <1>10, <2>1 DEF FailureHandled
<1>4. CASE EndBatch(t)
  <2>1. actorM' \in ActorCounters
    <3>1. reg[t].n \in Nat
      OBVIOUS
    <3>. QED  BY <1>4, <3>1, RecordTypes DEF EndBatch
  <2>. QED  BY <1>4, <2>1 DEF EndBatch
<1>5. CASE ReleaseToken(t)
  BY <1>5 DEF ReleaseToken
<1>6. CASE RecheckMail(t)
  BY <1>6 DEF RecheckMail
<1>7. CASE RecordBatch(t)
  BY <1>7 DEF RecordBatch
<1>8. CASE RecordDispatch(t)
  <2>1. dispatcherM' \in DispatcherCounters
    BY <1>8, RecordTypes DEF RecordDispatch
  <2>. QED  BY <1>8, <2>1 DEF RecordDispatch
<1>. QED  BY <1>1, <1>2, <1>3, <1>4, <1>5, <1>6, <1>7, <1>8, <1>9, <1>10 DEF WorkerStep

\* What a step of t does to one side of the books it does to the other.
Balanced(t) ==
    /\ (seen'.sent - seen.sent)
          = (actorM'.enqueued - actorM.enqueued) + (actorM'.dropped - actorM.dropped) + (Pushed(t)' - Pushed(t))
    /\ (actorM'.enqueued - actorM.enqueued) + (Pushed(t)' - Pushed(t))
          = (actorM'.processed - actorM.processed) + (seen'.lost - seen.lost)
            + (Counted(mail)' - Counted(mail)) + (Handled(t)' - Handled(t))
    /\ t \in Workers => /\ actorM'.processed - actorM.processed = Messaged(t)' - Messaged(t)
                        /\ actorM'.batches - actorM.batches = Batched(t)' - Batched(t)
    /\ t \notin Workers => actorM'.processed = actorM.processed /\ actorM'.batches = actorM.batches
    /\ (actorM'.batches - actorM.batches) + (Begun(t)' - Begun(t))
          = dispatcherM'.acquireCount - dispatcherM.acquireCount
    /\ (dispatcherM'.dispatchCount - dispatcherM.dispatchCount) + (Queued(t)' - Queued(t))
          = (dispatcherM'.deduplicated - dispatcherM.deduplicated)
            + (dispatcherM'.acquireCount - dispatcherM.acquireCount) + (Counted(ready)' - Counted(ready))

\* The fields that the books compare are numbers.
Numbers ==
    /\ actorM.enqueued \in Nat /\ actorM.processed \in Nat /\ actorM.dropped \in Nat
    /\ actorM.batches \in Nat /\ actorM.peakDepth \in Nat
    /\ dispatcherM.dispatchCount \in Nat /\ dispatcherM.acquireCount \in Nat /\ dispatcherM.deduplicated \in Nat
    /\ seen.sent \in Nat /\ seen.lost \in Nat /\ seen.deepest \in Nat
    /\ Counted(mail) \in Nat /\ Counted(ready) \in Nat

LEMMA FieldTypes == MetricTypes => Numbers
  BY DEF MetricTypes, Numbers, ActorCounters, DispatcherCounters, Counted

\* The two sides of an equation after changes that are equal.
LEMMA Shifted ==
    ASSUME NEW a \in Int, NEW b \in Int, NEW c \in Int, NEW d \in Int, NEW e \in Int, NEW f \in Int,
           NEW a1 \in Int, NEW c1 \in Int, NEW d1 \in Int, NEW e1 \in Int, NEW db \in Int, NEW df \in Int,
           a + b = c + d + e + f, (a1 - a) + db = (c1 - c) + (d1 - d) + (e1 - e) + df
    PROVE  a1 + (b + db) = c1 + d1 + e1 + (f + df)
  OBVIOUS

\* Balanced steps keep balanced books.
LEMMA BooksKept ==
    ASSUME MetricTypes, MetricTypes', NEW t \in Parties, Alone(t), Books, Balanced(t)
    PROVE  Books'
<1>1. Numbers /\ Numbers' /\ Shares /\ Shares'
  BY FieldTypes, ShareTypes, PTL
<1>2. /\ Pushed(t) \in Nat /\ Handled(t) \in Nat /\ Begun(t) \in Nat /\ Queued(t) \in Nat
      /\ Pushed(t)' \in Nat /\ Handled(t)' \in Nat /\ Begun(t)' \in Nat /\ Queued(t)' \in Nat
      /\ t \in Workers => /\ Messaged(t) \in Nat /\ Batched(t) \in Nat
                          /\ Messaged(t)' \in Nat /\ Batched(t)' \in Nat
  BY <1>1 DEF Shares
<1>3. /\ AllPushed \in Int /\ AllPushed' = AllPushed + (Pushed(t)' - Pushed(t))
      /\ AllHandled \in Int /\ AllHandled' = AllHandled + (Handled(t)' - Handled(t))
      /\ AllBegun \in Int /\ AllBegun' = AllBegun + (Begun(t)' - Begun(t))
      /\ AllQueued \in Int /\ AllQueued' = AllQueued + (Queued(t)' - Queued(t))
  BY PartySums
<1>4. /\ AllMessaged \in Int /\ AllBatched \in Int
      /\ t \in Workers => /\ AllMessaged' = AllMessaged + (Messaged(t)' - Messaged(t))
                          /\ AllBatched' = AllBatched + (Batched(t)' - Batched(t))
      /\ t \notin Workers => AllMessaged' = AllMessaged /\ AllBatched' = AllBatched
  BY WorkerSums
<1>5. (seen.sent = actorM.enqueued + actorM.dropped + AllPushed)'
  BY <1>1, <1>2, <1>3 DEF Numbers, Books, Balanced
<1>6. (actorM.enqueued + AllPushed = actorM.processed + seen.lost + Counted(mail) + AllHandled)'
  <2>1. actorM.enqueued + AllPushed = actorM.processed + seen.lost + Counted(mail) + AllHandled
    BY DEF Books
  <2>2. (actorM'.enqueued - actorM.enqueued) + (Pushed(t)' - Pushed(t))
          = (actorM'.processed - actorM.processed) + (seen'.lost - seen.lost)
            + (Counted(mail)' - Counted(mail)) + (Handled(t)' - Handled(t))
    BY DEF Balanced
  <2>3. /\ actorM.enqueued \in Nat /\ actorM.processed \in Nat /\ seen.lost \in Nat /\ Counted(mail) \in Nat
        /\ actorM'.enqueued \in Nat /\ actorM'.processed \in Nat /\ seen'.lost \in Nat /\ Counted(mail)' \in Nat
    BY <1>1 DEF Numbers
  <2>4. PICK dp \in Int : dp = Pushed(t)' - Pushed(t)
    BY <1>2
  <2>5. PICK dh \in Int : dh = Handled(t)' - Handled(t)
    BY <1>2
  <2>6. AllPushed \in Int /\ AllPushed' = AllPushed + dp /\ AllHandled \in Int /\ AllHandled' = AllHandled + dh
    BY <1>3, <2>4, <2>5
  <2>7. (actorM'.enqueued - actorM.enqueued) + dp
          = (actorM'.processed - actorM.processed) + (seen'.lost - seen.lost) + (Counted(mail)' - Counted(mail)) + dh
    BY <2>2, <2>4, <2>5
  <2>8. PICK e0 \in Int, p0 \in Int, r0 \in Int, m0 \in Int, a0 \in Int, h0 \in Int :
           /\ e0 = actorM.enqueued /\ p0 = actorM.processed /\ r0 = seen.lost /\ m0 = Counted(mail)
           /\ a0 = AllPushed /\ h0 = AllHandled
    BY <2>3, <2>6
  <2>9. PICK e1 \in Int, p1 \in Int, r1 \in Int, m1 \in Int :
           e1 = actorM'.enqueued /\ p1 = actorM'.processed /\ r1 = seen'.lost /\ m1 = Counted(mail)'
    BY <2>3
  <2>10. e0 + a0 = p0 + r0 + m0 + h0 /\ (e1 - e0) + dp = (p1 - p0) + (r1 - r0) + (m1 - m0) + dh
    BY <2>1, <2>7, <2>8, <2>9
  <2>11. e1 + (a0 + dp) = p1 + r1 + m1 + (h0 + dh)
    BY <2>10, Shifted
  <2>. QED  BY <2>6, <2>8, <2>9, <2>11
<1>7. (AllMessaged = actorM.processed /\ AllBatched = actorM.batches)'
  BY <1>1, <1>2, <1>4 DEF Numbers, Books, Balanced
<1>8. (actorM.batches + AllBegun = dispatcherM.acquireCount)'
  <2>1. actorM.batches + AllBegun = dispatcherM.acquireCount
    BY DEF Books
  <2>2. (actorM'.batches - actorM.batches) + (Begun(t)' - Begun(t))
          = dispatcherM'.acquireCount - dispatcherM.acquireCount
    BY DEF Balanced
  <2>3. /\ actorM.batches \in Nat /\ dispatcherM.acquireCount \in Nat
        /\ actorM'.batches \in Nat /\ dispatcherM'.acquireCount \in Nat
    BY <1>1 DEF Numbers
  <2>. QED  BY <1>2, <1>3, <2>1, <2>2, <2>3
<1>9. (dispatcherM.dispatchCount + AllQueued = dispatcherM.deduplicated + dispatcherM.acquireCount + Counted(ready))'
  <2>1. dispatcherM.dispatchCount + AllQueued = dispatcherM.deduplicated + dispatcherM.acquireCount + Counted(ready)
    BY DEF Books
  <2>2. (dispatcherM'.dispatchCount - dispatcherM.dispatchCount) + (Queued(t)' - Queued(t))
          = (dispatcherM'.deduplicated - dispatcherM.deduplicated)
            + (dispatcherM'.acquireCount - dispatcherM.acquireCount) + (Counted(ready)' - Counted(ready))
    BY DEF Balanced
  <2>3. /\ dispatcherM.dispatchCount \in Nat /\ dispatcherM.deduplicated \in Nat
        /\ dispatcherM.acquireCount \in Nat /\ Counted(ready) \in Nat
        /\ dispatcherM'.dispatchCount \in Nat /\ dispatcherM'.deduplicated \in Nat
        /\ dispatcherM'.acquireCount \in Nat /\ Counted(ready)' \in Nat
    BY <1>1 DEF Numbers
  <2>. QED  BY <1>2, <1>3, <2>1, <2>2, <2>3
<1>. QED  BY <1>5, <1>6, <1>7, <1>8, <1>9 DEF Books

\* Every step of a sender is balanced.
LEMMA SenderBalanced ==
    ASSUME MetricTypes, NEW t \in Senders, SenderStep(t)
    PROVE  Balanced(t)
<1>1. Numbers /\ t \in Parties /\ t \notin Workers /\ pc \in [Parties -> SenderPcs \cup WorkerPcs] /\ mail \in Nat
      /\ ready \in Nat /\ reg \in [Parties -> [n : Nat, peak : Nat]]
      /\ actorM \in ActorCounters /\ dispatcherM \in DispatcherCounters /\ seen \in [sent : Nat, lost : Nat, deepest : Nat]
      /\ enabled \in BOOLEAN
  BY FieldTypes, Finite, MetricsAssumption DEF MetricTypes
<1>. USE DEF Balanced, Numbers, Goto, Counted, countVars, Pushed, Handled, InBatch, Begun, Queued, ActorCounters, DispatcherCounters
<1>2. CASE Drop(t)
  BY <1>1, <1>2 DEF Drop
<1>3. CASE PushMail(t)
  BY <1>1, <1>3 DEF PushMail
<1>4. CASE RecordEnqueue(t)
  BY <1>1, <1>4 DEF RecordEnqueue
<1>5. CASE UpdatePeak(t)
  BY <1>1, <1>5 DEF UpdatePeak
<1>6. CASE DispatchToken(t)
  BY <1>1, <1>6 DEF DispatchToken, RecordedDispatch
<1>7. CASE RecordDispatch(t)
  BY <1>1, <1>7 DEF RecordDispatch, RecordedDispatch
<1>. QED  BY <1>2, <1>3, <1>4, <1>5, <1>6, <1>7 DEF SenderStep

\* So is every step of a worker.
LEMMA WorkerBalanced ==
    ASSUME MetricTypes, NEW t \in Workers, WorkerStep(t)
    PROVE  Balanced(t)
<1>1. Numbers /\ t \in Parties /\ pc \in [Parties -> SenderPcs \cup WorkerPcs] /\ mail \in Nat
      /\ ready \in Nat /\ reg \in [Parties -> [n : Nat, peak : Nat]]
      /\ actorM \in ActorCounters /\ dispatcherM \in DispatcherCounters /\ seen \in [sent : Nat, lost : Nat, deepest : Nat]
      /\ workerM \in [Workers -> [batches : Nat, messages : Nat]] /\ enabled \in BOOLEAN
      /\ (pc[t] = "idle" => reg[t].n = 0)
  BY FieldTypes, Finite DEF MetricTypes
<1>. USE DEF Balanced, Numbers, Goto, Counted, countVars, Pushed, Handled, InBatch, Begun, Queued, Messaged, Batched, Ended,
             ActorCounters, DispatcherCounters
<1>2. CASE AcquireToken(t)
  BY <1>1, <1>2 DEF AcquireToken, RecordedAcquire
<1>3. CASE HandleMessage(t)
  BY <1>1, <1>3 DEF HandleMessage, TakeMessage
<1>4. CASE HandlerThrows(t)
  BY <1>1, <1>4 DEF HandlerThrows, TakeMessage
<1>10. CASE DrainMailbox(t)
  BY <1>1, <1>10 DEF DrainMailbox
<1>11. CASE FailureHandled(t)
  <2>1. CASE Goto(t, "failed", "settle") /\ actorM' = RecordedHandle(reg[t].n)
    BY <1>1, <1>11, <2>1 DEF FailureHandled, RecordedHandle
  <2>2. CASE Goto(t, "caught", "handle") /\ UNCHANGED actorM
    BY <1>1, <1>11, <2>2 DEF FailureHandled
  <2>. QED  BY <1>11, <2>1, <2>2 DEF FailureHandled
<1>5. CASE EndBatch(t)
  BY <1>1, <1>5 DEF EndBatch, RecordedHandle
<1>6. CASE ReleaseToken(t)
  BY <1>1, <1>6 DEF ReleaseToken
<1>7. CASE RecheckMail(t)
  BY <1>1, <1>7 DEF RecheckMail
<1>8. CASE RecordBatch(t)
  BY <1>1, <1>8 DEF RecordBatch
<1>9. CASE RecordDispatch(t)
  BY <1>1, <1>9 DEF RecordDispatch, RecordedDispatch
<1>. QED  BY <1>2, <1>3, <1>4, <1>5, <1>6, <1>7, <1>8, <1>9, <1>10, <1>11 DEF WorkerStep

\* A step that moves nobody to or from the exchange of the peak.
PeakStays ==
    /\ actorM'.peakDepth = actorM.peakDepth /\ seen'.deepest = seen.deepest
    /\ \A u \in Senders : (pc'[u] = "peak" <=> pc[u] = "peak") /\ (pc[u] = "peak" => reg'[u] = reg[u])

LEMMA PeakKept == ASSUME PeakInv, PeakStays PROVE PeakInv'
  BY DEF PeakInv, PeakStays

\* Senders race for the peak and none of them loses the largest depth.
LEMMA SenderPeak ==
    ASSUME MetricTypes, PeakInv, NEW t \in Senders, SenderStep(t)
    PROVE  PeakInv'
<1>1. /\ Numbers /\ t \in Parties /\ Senders \subseteq Parties /\ pc \in [Parties -> SenderPcs \cup WorkerPcs]
      /\ mail \in Nat /\ reg \in [Parties -> [n : Nat, peak : Nat]] /\ enabled \in BOOLEAN
      /\ actorM \in ActorCounters /\ seen \in [sent : Nat, lost : Nat, deepest : Nat]
  BY FieldTypes, Finite DEF MetricTypes
<1>. USE DEF Goto, countVars
<1>2. CASE Drop(t)
  <2>1. PeakStays
    BY <1>1, <1>2 DEF Drop, PeakStays, ActorCounters
  <2>. QED  BY <2>1, PeakKept
<1>3. CASE PushMail(t)
  <2>1. PeakStays
    BY <1>1, <1>3 DEF PushMail, PeakStays
  <2>. QED  BY <2>1, PeakKept
<1>4. CASE RecordEnqueue(t)
  <2>1. /\ actorM'.peakDepth = actorM.peakDepth
        /\ \A u \in Senders \ {t} : pc'[u] = pc[u] /\ reg'[u] = reg[u]
        /\ pc[t] = "pushed" /\ reg'[t].n = mail /\ reg'[t].peak = actorM.peakDepth
        /\ pc'[t] = IF enabled /\ mail > actorM.peakDepth THEN "peak" ELSE "dispatch"
    BY <1>1, <1>4 DEF RecordEnqueue, ActorCounters
  <2>2. seen'.deepest = IF enabled /\ mail > seen.deepest THEN mail ELSE seen.deepest
    <3>1. seen'.deepest = Max({seen.deepest, Counted(mail)})
      BY <1>1, <1>4 DEF RecordEnqueue
    <3>2. Counted(mail) \in Nat /\ seen.deepest \in Nat
      BY <1>1 DEF Numbers
    <3>3. seen'.deepest = IF seen.deepest >= Counted(mail) THEN seen.deepest ELSE Counted(mail)
      BY <3>1, <3>2, MaxOfTwo
    <3>. QED  BY <1>1, <3>2, <3>3 DEF Counted
  <2>3. actorM.peakDepth \in Nat /\ seen.deepest \in Nat /\ \A u \in Senders : reg[u].n \in Nat /\ reg[u].peak \in Nat
    BY <1>1 DEF Numbers
  <2>4. CASE enabled /\ mail > seen.deepest
    <3>1. mail > actorM.peakDepth /\ pc'[t] = "peak" /\ seen'.deepest = mail
      BY <1>1, <2>1, <2>2, <2>3, <2>4 DEF PeakInv
    <3>2. \A u \in Senders : pc'[u] = "peak" => reg'[u].n > reg'[u].peak /\ reg'[u].n <= seen'.deepest
      BY <1>1, <2>1, <2>3, <2>4, <3>1 DEF PeakInv
    <3>. QED  BY <1>1, <2>1, <2>3, <3>1, <3>2 DEF PeakInv
  <2>5. CASE ~(enabled /\ mail > seen.deepest)
    <3>1. seen'.deepest = seen.deepest
      BY <2>2, <2>5
    <3>2. \A u \in Senders : pc'[u] = "peak" => reg'[u].n > reg'[u].peak /\ reg'[u].n <= seen'.deepest
      BY <1>1, <2>1, <2>3, <2>5, <3>1 DEF PeakInv
    <3>3. ASSUME NEW u \in Senders, pc[u] = "peak", reg[u].n = seen.deepest
          PROVE  \E v \in Senders : pc'[v] = "peak" /\ reg'[v].n = seen'.deepest
      BY <2>1, <3>1, <3>3
    <3>. QED  BY <2>1, <3>1, <3>2, <3>3 DEF PeakInv
  <2>. QED  BY <2>4, <2>5
<1>5. CASE UpdatePeak(t)
  <2>1. /\ seen' = seen /\ pc[t] = "peak" /\ reg'[t].n = reg[t].n /\ reg'[t].peak = actorM.peakDepth
        /\ \A u \in Senders \ {t} : pc'[u] = pc[u] /\ reg'[u] = reg[u]
        /\ actorM'.peakDepth = IF actorM.peakDepth = reg[t].peak THEN reg[t].n ELSE actorM.peakDepth
        /\ pc'[t] = IF actorM.peakDepth = reg[t].peak \/ reg[t].n <= actorM.peakDepth THEN "dispatch" ELSE "peak"
    BY <1>1, <1>5 DEF UpdatePeak, ActorCounters
  <2>2. actorM.peakDepth \in Nat /\ seen.deepest \in Nat /\ \A u \in Senders : reg[u].n \in Nat /\ reg[u].peak \in Nat
    BY <1>1 DEF Numbers
  <2>3. reg[t].n > reg[t].peak /\ reg[t].n <= seen.deepest /\ actorM.peakDepth <= seen.deepest
    BY <2>1 DEF PeakInv
  <2>4. actorM'.peakDepth <= seen'.deepest
    BY <2>1, <2>2, <2>3
  <2>5. \A u \in Senders : pc'[u] = "peak" => reg'[u].n > reg'[u].peak /\ reg'[u].n <= seen'.deepest
    BY <2>1, <2>2, <2>3 DEF PeakInv
  <2>6. actorM'.peakDepth = seen'.deepest \/ \E u \in Senders : pc'[u] = "peak" /\ reg'[u].n = seen'.deepest
    <3>1. CASE actorM.peakDepth = seen.deepest
      <4>1. actorM.peakDepth # reg[t].peak
        BY <2>2, <2>3, <3>1
      <4>. QED  BY <2>1, <3>1, <4>1
    <3>2. ASSUME NEW u \in Senders, pc[u] = "peak", reg[u].n = seen.deepest
          PROVE  actorM'.peakDepth = seen'.deepest \/ \E v \in Senders : pc'[v] = "peak" /\ reg'[v].n = seen'.deepest
      <4>1. CASE u # t
        BY <2>1, <3>2, <4>1
      <4>2. CASE u = t
        <5>1. CASE actorM.peakDepth = reg[t].peak
          BY <2>1, <3>2, <4>2, <5>1
        <5>2. CASE actorM.peakDepth # reg[t].peak /\ reg[t].n <= actorM.peakDepth
          BY <2>1, <2>2, <2>3, <3>2, <4>2, <5>2
        <5>3. CASE actorM.peakDepth # reg[t].peak /\ ~(reg[t].n <= actorM.peakDepth)
          BY <2>1, <3>2, <4>2, <5>3
        <5>. QED  BY <5>1, <5>2, <5>3
      <4>. QED  BY <4>1, <4>2
    <3>. QED  BY <3>1, <3>2 DEF PeakInv
  <2>. QED  BY <2>4, <2>5, <2>6 DEF PeakInv
<1>6. CASE DispatchToken(t)
  <2>1. PeakStays
    BY <1>1, <1>6 DEF DispatchToken, PeakStays
  <2>. QED  BY <2>1, PeakKept
<1>7. CASE RecordDispatch(t)
  <2>1. PeakStays
    BY <1>1, <1>7 DEF RecordDispatch, PeakStays
  <2>. QED  BY <2>1, PeakKept
<1>. QED  BY <1>2, <1>3, <1>4, <1>5, <1>6, <1>7 DEF SenderStep

\* Workers have no part in it.
LEMMA WorkerPeak ==
    ASSUME MetricTypes, PeakInv, NEW t \in Workers, WorkerStep(t)
    PROVE  PeakInv'
<1>1. /\ t \in Parties /\ t \notin Senders /\ Senders \subseteq Parties /\ pc \in [Parties -> SenderPcs \cup WorkerPcs]
      /\ actorM \in ActorCounters /\ seen \in [sent : Nat, lost : Nat, deepest : Nat]
      /\ reg \in [Parties -> [n : Nat, peak : Nat]]
  BY Finite, MetricsAssumption DEF MetricTypes
<1>2. actorM'.peakDepth = actorM.peakDepth /\ seen'.deepest = seen.deepest
  BY <1>1 DEF WorkerStep, AcquireToken, HandleMessage, HandlerThrows, DrainMailbox, FailureHandled,
              EndBatch, ReleaseToken, RecheckMail,
              RecordDispatch, RecordBatch, RecordedHandle, ActorCounters, countVars
<1>3. Alone(t)
  BY WorkerTypes
<1>4. PeakStays
  BY <1>1, <1>2, <1>3 DEF PeakStays, Alone
<1>. QED  BY <1>4, PeakKept

-----------------------------------------------------------------------------
(* The commands, and the invariant                                         *)

\* While everyone is idle nobody has anything left to count.
AtRest ==
    /\ AllPushed = 0 /\ AllHandled = 0 /\ AllBegun = 0 /\ AllQueued = 0
    /\ AllMessaged = TotalOf([w \in Workers |-> workerM[w].messages])
    /\ AllBatched = TotalOf([w \in Workers |-> workerM[w].batches])
AllIdle == \A t \in Parties : pc[t] = "idle"

LEMMA IdleSums == MetricTypes /\ AllIdle => AtRest
<1>. SUFFICES ASSUME MetricTypes, AllIdle PROVE AtRest
  OBVIOUS
<1>. USE DEF AllIdle
<1>1. \A t \in Parties : Pushed(t) = 0 /\ Handled(t) = 0 /\ Begun(t) = 0 /\ Queued(t) = 0
  BY DEF Pushed, Handled, InBatch, Begun, Queued, Counted
<1>2. AllPushed = 0
  <2>1. PICK f : f = [t \in Parties |-> Pushed(t)]
    OBVIOUS
  <2>2. f \in [Parties -> Int] /\ \A x \in Parties : f[x] = 0
    BY <1>1, <2>1
  <2>. QED  BY <2>1, <2>2, Finite, TotalOfNothing DEF AllPushed
<1>3. AllHandled = 0
  <2>1. PICK f : f = [t \in Parties |-> Handled(t)]
    OBVIOUS
  <2>2. f \in [Parties -> Int] /\ \A x \in Parties : f[x] = 0
    BY <1>1, <2>1
  <2>. QED  BY <2>1, <2>2, Finite, TotalOfNothing DEF AllHandled
<1>4. AllBegun = 0
  <2>1. PICK f : f = [t \in Parties |-> Begun(t)]
    OBVIOUS
  <2>2. f \in [Parties -> Int] /\ \A x \in Parties : f[x] = 0
    BY <1>1, <2>1
  <2>. QED  BY <2>1, <2>2, Finite, TotalOfNothing DEF AllBegun
<1>5. AllQueued = 0
  <2>1. PICK f : f = [t \in Parties |-> Queued(t)]
    OBVIOUS
  <2>2. f \in [Parties -> Int] /\ \A x \in Parties : f[x] = 0
    BY <1>1, <2>1
  <2>. QED  BY <2>1, <2>2, Finite, TotalOfNothing DEF AllQueued
<1>6. \A w \in Workers : Messaged(w) = workerM[w].messages /\ Batched(w) = workerM[w].batches
  <2>. SUFFICES ASSUME NEW w \in Workers
                PROVE  Messaged(w) = workerM[w].messages /\ Batched(w) = workerM[w].batches
    OBVIOUS
  <2>1. workerM[w].messages \in Nat /\ workerM[w].batches \in Nat
    BY DEF MetricTypes
  <2>2. ~Ended(w)
    BY Finite DEF Ended
  <2>. QED  BY <2>1, <2>2 DEF Messaged, Batched, Counted
<1>7. /\ AllMessaged = TotalOf([w \in Workers |-> workerM[w].messages])
      /\ AllBatched = TotalOf([w \in Workers |-> workerM[w].batches])
  <2>1. /\ [w \in Workers |-> Messaged(w)] = [w \in Workers |-> workerM[w].messages]
        /\ [w \in Workers |-> Batched(w)] = [w \in Workers |-> workerM[w].batches]
    BY <1>6
  <2>. QED  BY <2>1 DEF AllMessaged, AllBatched
<1>. QED  BY <1>2, <1>3, <1>4, <1>5, <1>7 DEF AtRest

\* Everything at zero is right.
Fresh ==
    /\ mail = 0 /\ ready = 0 /\ \A t \in Parties : pc[t] = "idle"
    /\ actorM = NoActor /\ workerM = [w \in Workers |-> NoWorker] /\ dispatcherM = NoDispatcher /\ seen = Nothing

LEMMA FreshBooks == MetricTypes /\ Fresh => Books /\ PeakInv
<1>. SUFFICES ASSUME MetricTypes, Fresh PROVE Books /\ PeakInv
  OBVIOUS
<1>1. /\ AllPushed = 0 /\ AllHandled = 0 /\ AllBegun = 0 /\ AllQueued = 0
      /\ AllMessaged = TotalOf([w \in Workers |-> workerM[w].messages])
      /\ AllBatched = TotalOf([w \in Workers |-> workerM[w].batches])
  BY IdleSums DEF Fresh, AllIdle, AtRest
<1>2. AllMessaged = 0 /\ AllBatched = 0
  <2>1. PICK f : f = [w \in Workers |-> workerM[w].messages]
    OBVIOUS
  <2>2. PICK g : g = [w \in Workers |-> workerM[w].batches]
    OBVIOUS
  <2>3. f \in [Workers -> Int] /\ (\A x \in Workers : f[x] = 0) /\ g \in [Workers -> Int] /\ \A x \in Workers : g[x] = 0
    BY <2>1, <2>2 DEF Fresh, NoWorker
  <2>4. TotalOf(f) = 0 /\ TotalOf(g) = 0
    BY <2>3, Finite, TotalOfNothing
  <2>. QED  BY <1>1, <2>1, <2>2, <2>4
<1>3. Counted(mail) = 0 /\ Counted(ready) = 0
  BY DEF Fresh, Counted
<1>4. Books
  BY <1>1, <1>2, <1>3 DEF Books, Fresh, NoActor, NoDispatcher, Nothing
<1>5. PeakInv
  <2>1. actorM.peakDepth = 0 /\ seen.deepest = 0 /\ \A t \in Senders : pc[t] = "idle"
    BY Finite DEF Fresh, NoActor, Nothing
  <2>. QED  BY <2>1 DEF PeakInv
<1>. QED  BY <1>4, <1>5

\* The commands come while everyone is idle, so turning the metrics on or off leaves the
\* books as they are and a reset begins new ones.
LEMMA CommandKeeps ==
    ASSUME MetricsInv, CommandStep
    PROVE  MetricsInv'
<1>1. ASSUME NEW on \in BOOLEAN, SetEnabled(on) PROVE MetricsInv'
  <2>1. MetricTypes'
    BY <1>1 DEF MetricsInv, MetricTypes, SetEnabled, countVars
  <2>2. /\ mail = 0 /\ ready = 0 /\ (\A t \in Parties : pc[t] = "idle") /\ (\A t \in Parties : pc'[t] = "idle")
        /\ UNCHANGED <<mail, ready, actorM, workerM, dispatcherM, pc, reg, seen>>
    BY <1>1 DEF SetEnabled, Quiet, countVars
  <2>3. /\ AllPushed = 0 /\ AllHandled = 0 /\ AllBegun = 0 /\ AllQueued = 0
        /\ AllMessaged = TotalOf([w \in Workers |-> workerM[w].messages])
        /\ AllBatched = TotalOf([w \in Workers |-> workerM[w].batches])
    BY <2>2, IdleSums DEF MetricsInv, AllIdle, AtRest
  <2>4. (/\ AllPushed = 0 /\ AllHandled = 0 /\ AllBegun = 0 /\ AllQueued = 0
         /\ AllMessaged = TotalOf([w \in Workers |-> workerM[w].messages])
         /\ AllBatched = TotalOf([w \in Workers |-> workerM[w].batches]))'
    <3>1. AllIdle'
      BY <2>2 DEF AllIdle
    <3>2. AtRest'
      BY <2>1, <3>1, IdleSums, PTL
    <3>. QED  BY <3>2 DEF AtRest
  <2>5. AllMessaged' = AllMessaged /\ AllBatched' = AllBatched
    BY <2>2, <2>3, <2>4
  <2>6. Counted(mail) = 0 /\ Counted(ready) = 0 /\ Counted(mail)' = 0 /\ Counted(ready)' = 0
    BY <2>2 DEF Counted
  <2>7. Books'
    BY <2>2, <2>3, <2>4, <2>5, <2>6 DEF MetricsInv, Books
  <2>8. PeakInv'
    BY <2>2 DEF MetricsInv, PeakInv
  <2>. QED  BY <2>1, <2>7, <2>8 DEF MetricsInv
<1>2. CASE ResetMetrics
  <2>1. MetricTypes'
    BY <1>2 DEF MetricsInv, MetricTypes, ResetMetrics, NoActor, NoWorker, NoDispatcher, Nothing, ActorCounters, DispatcherCounters
  <2>2. Fresh'
    BY <1>2 DEF ResetMetrics, Fresh, Quiet
  <2>3. Books' /\ PeakInv'
    BY <2>1, <2>2, FreshBooks, PTL
  <2>. QED  BY <2>1, <2>3 DEF MetricsInv
<1>. QED  BY <1>1, <1>2 DEF CommandStep

\* The books are right from the start.
LEMMA MetricsInvInit == MetricsInit => MetricsInv
<1>. SUFFICES ASSUME MetricsInit PROVE MetricsInv
  OBVIOUS
<1>1. MetricTypes
  BY Finite DEF MetricsInit, MetricTypes, NoActor, NoWorker, NoDispatcher, Nothing, NoReg, ActorCounters,
                DispatcherCounters, SenderPcs, WorkerPcs
<1>2. Fresh
  BY DEF MetricsInit, Fresh
<1>. QED  BY <1>1, <1>2, FreshBooks DEF MetricsInv

LEMMA MetricsInvStep == MetricsInv /\ [MetricsNext]_metricVars => MetricsInv'
<1>. SUFFICES ASSUME MetricsInv, [MetricsNext]_metricVars PROVE MetricsInv'
  OBVIOUS
<1>1. ASSUME NEW t \in Senders, SenderStep(t) PROVE MetricsInv'
  <2>1. MetricTypes /\ Books /\ PeakInv /\ t \in Parties
    BY Finite DEF MetricsInv
  <2>2. MetricTypes' /\ Alone(t)
    BY <1>1, <2>1, SenderTypes
  <2>3. Balanced(t)
    BY <1>1, <2>1, SenderBalanced
  <2>4. Books'
    BY <2>1, <2>2, <2>3, BooksKept
  <2>5. PeakInv'
    BY <1>1, <2>1, SenderPeak
  <2>. QED  BY <2>2, <2>4, <2>5 DEF MetricsInv
<1>2. ASSUME NEW t \in Workers, WorkerStep(t) PROVE MetricsInv'
  <2>1. MetricTypes /\ Books /\ PeakInv /\ t \in Parties
    BY Finite DEF MetricsInv
  <2>2. MetricTypes' /\ Alone(t)
    BY <1>2, <2>1, WorkerTypes
  <2>3. Balanced(t)
    BY <1>2, <2>1, WorkerBalanced
  <2>4. Books'
    BY <2>1, <2>2, <2>3, BooksKept
  <2>5. PeakInv'
    BY <1>2, <2>1, WorkerPeak
  <2>. QED  BY <2>2, <2>4, <2>5 DEF MetricsInv
<1>3. CASE CommandStep
  BY <1>3, CommandKeeps
<1>4. CASE UNCHANGED metricVars
  <2>1. UNCHANGED <<enabled, down, mail, held, ready, actorM, workerM, dispatcherM, pc, reg, seen>>
    BY <1>4 DEF metricVars, countVars
  <2>2. MetricTypes'
    BY <2>1 DEF MetricsInv, MetricTypes
  <2>3. Books'
    BY <2>1 DEF MetricsInv, Books, AllPushed, AllHandled, AllBegun, AllQueued, AllMessaged, AllBatched,
                Pushed, Handled, InBatch, Begun, Queued, Messaged, Batched, Ended, Counted
  <2>4. PeakInv'
    BY <2>1 DEF MetricsInv, PeakInv
  <2>. QED  BY <2>2, <2>3, <2>4 DEF MetricsInv
<1>. QED  BY <1>1, <1>2, <1>3, <1>4 DEF MetricsNext

\* The invariant gives what the snapshot shows.
LEMMA MetricsInvSnapshot == MetricsInv => SnapshotTrue
<1>. SUFFICES ASSUME MetricsInv PROVE SnapshotTrue
  OBVIOUS
<1>1. CountsAgree
  <2>. SUFFICES ASSUME enabled, \A t \in Parties : pc[t] = "idle"
                PROVE  /\ seen.sent = actorM.enqueued + actorM.dropped
                       /\ actorM.enqueued = actorM.processed + seen.lost + mail
                       /\ TotalOf([w \in Workers |-> workerM[w].messages]) = actorM.processed
                       /\ TotalOf([w \in Workers |-> workerM[w].batches]) = actorM.batches
                       /\ actorM.batches = dispatcherM.acquireCount
                       /\ dispatcherM.dispatchCount - dispatcherM.deduplicated = dispatcherM.acquireCount + ready
    BY DEF CountsAgree, FormatMetricsSnapshot, Snapshot
  <2>1. /\ AllPushed = 0 /\ AllHandled = 0 /\ AllBegun = 0 /\ AllQueued = 0
        /\ AllMessaged = TotalOf([w \in Workers |-> workerM[w].messages])
        /\ AllBatched = TotalOf([w \in Workers |-> workerM[w].batches])
    BY IdleSums DEF MetricsInv, AllIdle, AtRest
  <2>2. Numbers /\ Counted(mail) = mail /\ Counted(ready) = ready
    BY FieldTypes DEF MetricsInv, Counted
  <2>3. Books
    BY DEF MetricsInv
  <2>. QED  BY <2>1, <2>2, <2>3 DEF Books, Numbers
<1>2. PeakIsMax
  BY DEF MetricsInv, PeakInv, PeakIsMax
<1>. QED  BY <1>1, <1>2 DEF SnapshotTrue

\* What `metrics snapshot' prints is true for any number of senders and workers, however
\* their record calls interleave: whenever everyone is idle the counters of senders,
\* actor, workers and dispatcher add up, and whenever nobody is at the exchange the peak
\* is the largest depth that was seen (Metrics::snapshot and the record calls).
THEOREM SnapshotsAreTrue == ResourcesSpec => []SnapshotTrue
<1>1. ResourcesInit => MetricsInv
  BY MetricsInvInit DEF ResourcesInit
<1>2. MetricsInv /\ [ResourcesNext]_<<part, poolVars, metricVars>> => MetricsInv'
  <2>1. [ResourcesNext]_<<part, poolVars, metricVars>> => [MetricsNext]_metricVars
    BY DEF ResourcesNext
  <2>. QED  BY <2>1, MetricsInvStep
<1>. QED  BY <1>1, <1>2, MetricsInvSnapshot, PTL DEF ResourcesSpec

-----------------------------------------------------------------------------
(* Lists of blocks and of slabs                                            *)

\* No entry twice.
Distinct(s) == \A i, j \in DOMAIN s : s[i] = s[j] => i = j

LEMMA Listed ==
    ASSUME NEW B, NEW s \in Seq(B)
    PROVE  /\ Len(s) \in Nat /\ DOMAIN s = 1 .. Len(s) /\ ToSet(s) \subseteq B
           /\ \A b : b \in ToSet(s) <=> \E i \in 1 .. Len(s) : s[i] = b
           /\ Len(s) = 0 <=> s = <<>>
           /\ s = <<>> <=> ToSet(s) = {}
  BY DEF ToSet

\* A list cut in two.
LEMMA Cut ==
    ASSUME NEW B, NEW s \in Seq(B), Distinct(s), NEW k \in 0 .. Len(s)
    PROVE  LET u == SubSeq(s, 1, k)
               v == SubSeq(s, k + 1, Len(s))
           IN  /\ u \in Seq(B) /\ Len(u) = k /\ Distinct(u)
               /\ v \in Seq(B) /\ Len(v) = Len(s) - k /\ Distinct(v)
               /\ ToSet(u) \cup ToSet(v) = ToSet(s) /\ ToSet(u) \cap ToSet(v) = {}
<1>. DEFINE u == SubSeq(s, 1, k)
            v == SubSeq(s, k + 1, Len(s))
<1>1. u \in Seq(B) /\ Len(u) = k /\ \A i \in 1 .. k : u[i] = s[i]
  OBVIOUS
<1>2. v \in Seq(B) /\ Len(v) = Len(s) - k /\ \A i \in 1 .. Len(s) - k : v[i] = s[k + i]
  OBVIOUS
<1>3. DOMAIN u = 1 .. k /\ DOMAIN v = 1 .. Len(s) - k /\ DOMAIN s = 1 .. Len(s) /\ Len(s) \in Nat
  BY <1>1, <1>2
<1>. HIDE DEF u, v
<1>a. /\ \A i \in 1 .. k : i \in 1 .. Len(s) /\ u[i] = s[i]
      /\ \A i \in 1 .. Len(s) - k : k + i \in 1 .. Len(s) /\ v[i] = s[k + i]
  BY <1>1, <1>2, <1>3
<1>b. \A i, j \in 1 .. Len(s) : s[i] = s[j] => i = j
  BY <1>3 DEF Distinct
<1>4. Distinct(u)
  BY <1>a, <1>b, <1>3 DEF Distinct
<1>5. Distinct(v)
  <2>. SUFFICES ASSUME NEW i \in 1 .. Len(s) - k, NEW j \in 1 .. Len(s) - k, v[i] = v[j] PROVE i = j
    BY <1>3 DEF Distinct
  <2>1. k + i = k + j
    BY <1>a, <1>b
  <2>. QED  BY <2>1
<1>6. ToSet(u) \cap ToSet(v) = {}
  <2>. SUFFICES ASSUME NEW b, b \in ToSet(u), b \in ToSet(v) PROVE FALSE
    OBVIOUS
  <2>1. PICK i \in 1 .. k : u[i] = b
    BY <1>3 DEF ToSet
  <2>2. PICK j \in 1 .. Len(s) - k : v[j] = b
    BY <1>3 DEF ToSet
  <2>3. i = k + j
    BY <1>a, <1>b, <2>1, <2>2
  <2>. QED  BY <2>3
<1>7. ToSet(u) \subseteq ToSet(s) /\ ToSet(v) \subseteq ToSet(s)
  BY <1>a, <1>3 DEF ToSet
<1>8. ASSUME NEW b \in ToSet(s) PROVE b \in ToSet(u) \cup ToSet(v)
  <2>1. PICK i \in 1 .. Len(s) : s[i] = b
    BY <1>3 DEF ToSet
  <2>2. CASE i <= k
    BY <1>1, <1>3, <2>1, <2>2 DEF ToSet
  <2>3. CASE i > k
    <3>1. i - k \in 1 .. Len(s) - k /\ v[i - k] = b
      BY <1>2, <1>3, <2>1, <2>3
    <3>. QED  BY <1>3, <3>1 DEF ToSet
  <2>. QED  BY <1>3, <2>2, <2>3
<1>9. ToSet(u) \cup ToSet(v) = ToSet(s)
  BY <1>7, <1>8
<1>. QED  BY <1>1, <1>2, <1>4, <1>5, <1>6, <1>9 DEF u, v

\* Two lists with nothing in common, one after the other.
LEMMA Joined ==
    ASSUME NEW B, NEW s \in Seq(B), NEW r \in Seq(B), Distinct(s), Distinct(r),
           ToSet(s) \cap ToSet(r) = {}
    PROVE  /\ s \o r \in Seq(B) /\ Len(s \o r) = Len(s) + Len(r)
           /\ Distinct(s \o r) /\ ToSet(s \o r) = ToSet(s) \cup ToSet(r)
<1>. DEFINE w == s \o r
<1>1. /\ w \in Seq(B) /\ Len(w) = Len(s) + Len(r)
      /\ \A i \in 1 .. Len(s) : w[i] = s[i]
      /\ \A i \in 1 .. Len(r) : w[Len(s) + i] = r[i]
      /\ \A i \in Len(s) + 1 .. Len(s) + Len(r) : w[i] = r[i - Len(s)]
  OBVIOUS
<1>2. /\ DOMAIN s = 1 .. Len(s) /\ DOMAIN r = 1 .. Len(r) /\ DOMAIN w = 1 .. Len(s) + Len(r)
      /\ Len(s) \in Nat /\ Len(r) \in Nat
  BY <1>1
<1>. HIDE DEF w
<1>3. ASSUME NEW i \in 1 .. Len(s) + Len(r)
      PROVE  \/ i \in 1 .. Len(s) /\ w[i] = s[i] /\ s[i] \in ToSet(s)
             \/ i \in Len(s) + 1 .. Len(s) + Len(r) /\ i - Len(s) \in 1 .. Len(r)
                   /\ w[i] = r[i - Len(s)] /\ r[i - Len(s)] \in ToSet(r)
  <2>1. CASE i <= Len(s)
    BY <1>1, <1>2, <2>1 DEF ToSet
  <2>2. CASE i > Len(s)
    <3>1. i - Len(s) \in 1 .. Len(r) /\ i \in Len(s) + 1 .. Len(s) + Len(r)
      BY <1>2, <2>2
    <3>. QED  BY <1>1, <1>2, <3>1 DEF ToSet
  <2>. QED  BY <1>2, <2>1, <2>2
<1>4. Distinct(w)
  <2>. SUFFICES ASSUME NEW i \in 1 .. Len(s) + Len(r), NEW j \in 1 .. Len(s) + Len(r), w[i] = w[j]
                PROVE  i = j
    BY <1>2 DEF Distinct
  <2>1. CASE i \in 1 .. Len(s) /\ j \in 1 .. Len(s)
    BY <1>1, <1>2, <2>1 DEF Distinct
  <2>2. CASE i \in Len(s) + 1 .. Len(s) + Len(r) /\ j \in Len(s) + 1 .. Len(s) + Len(r)
    <3>1. i - Len(s) \in DOMAIN r /\ j - Len(s) \in DOMAIN r /\ r[i - Len(s)] = r[j - Len(s)]
      BY <1>1, <1>2, <2>2
    <3>2. i - Len(s) = j - Len(s)
      BY <3>1 DEF Distinct
    <3>. QED  BY <1>2, <3>2
  <2>. QED  BY <1>2, <1>3, <2>1, <2>2
<1>5. ToSet(w) \subseteq ToSet(s) \cup ToSet(r)
  <2>. SUFFICES ASSUME NEW b \in ToSet(w) PROVE b \in ToSet(s) \cup ToSet(r)
    OBVIOUS
  <2>1. PICK i \in 1 .. Len(s) + Len(r) : w[i] = b
    BY <1>2 DEF ToSet
  <2>. QED  BY <1>3, <2>1
<1>6. ToSet(s) \subseteq ToSet(w)
  <2>1. \A i \in 1 .. Len(s) : i \in 1 .. Len(s) + Len(r) /\ w[i] = s[i]
    BY <1>1, <1>2
  <2>. QED  BY <1>2, <2>1 DEF ToSet
<1>7. ToSet(r) \subseteq ToSet(w)
  <2>1. \A i \in 1 .. Len(r) : Len(s) + i \in 1 .. Len(s) + Len(r) /\ w[Len(s) + i] = r[i]
    BY <1>1, <1>2
  <2>. QED  BY <1>2, <2>1 DEF ToSet
<1>. QED  BY <1>1, <1>4, <1>5, <1>6, <1>7 DEF w

\* A list of one block.
LEMMA OneBlock ==
    ASSUME NEW B, NEW b \in B
    PROVE  <<b>> \in Seq(B) /\ Len(<<b>>) = 1 /\ Distinct(<<b>>) /\ ToSet(<<b>>) = {b}
  BY DEF Distinct, ToSet

\* The first of a list and the others.
LEMMA FirstAndRest ==
    ASSUME NEW B, NEW s \in Seq(B), s # <<>>, Distinct(s)
    PROVE  /\ Head(s) \in B /\ Tail(s) \in Seq(B) /\ Len(Tail(s)) = Len(s) - 1 /\ Distinct(Tail(s))
           /\ ToSet(s) = ToSet(Tail(s)) \cup {Head(s)} /\ Head(s) \notin ToSet(Tail(s))
<1>1. /\ Tail(s) \in Seq(B) /\ Len(s) \in Nat /\ Len(s) > 0 /\ Len(Tail(s)) = Len(s) - 1
      /\ DOMAIN s = 1 .. Len(s) /\ DOMAIN Tail(s) = 1 .. Len(s) - 1
      /\ Head(s) = s[1] /\ Head(s) \in B
      /\ \A i \in 1 .. Len(s) - 1 : Tail(s)[i] = s[i + 1]
  OBVIOUS
<1>. DEFINE v == Tail(s)
            h == Head(s)
<1>2. v \in Seq(B) /\ Len(v) = Len(s) - 1 /\ DOMAIN v = 1 .. Len(s) - 1 /\ h = s[1] /\ h \in B
  BY <1>1
<1>3. \A i \in 1 .. Len(s) - 1 : i + 1 \in 1 .. Len(s) /\ i + 1 # 1 /\ v[i] = s[i + 1]
  BY <1>1
<1>4. ASSUME NEW i \in 1 .. Len(s), i # 1 PROVE i - 1 \in 1 .. Len(s) - 1 /\ v[i - 1] = s[i]
  <2>1. i - 1 \in 1 .. Len(s) - 1 /\ (i - 1) + 1 = i
    BY <1>1, <1>4
  <2>. QED  BY <1>1, <2>1
<1>. HIDE DEF v, h
<1>5. Distinct(v)
  <2>. SUFFICES ASSUME NEW i \in 1 .. Len(s) - 1, NEW j \in 1 .. Len(s) - 1, v[i] = v[j] PROVE i = j
    BY <1>2 DEF Distinct
  <2>1. i + 1 = j + 1
    BY <1>1, <1>3 DEF Distinct
  <2>. QED  BY <2>1
<1>6. h \notin ToSet(v)
  <2>. SUFFICES ASSUME NEW i \in 1 .. Len(s) - 1, v[i] = h PROVE FALSE
    BY <1>2 DEF ToSet
  <2>1. i + 1 \in DOMAIN s /\ 1 \in DOMAIN s /\ s[i + 1] = s[1] /\ i + 1 # 1
    BY <1>1, <1>2, <1>3
  <2>. QED  BY <2>1 DEF Distinct
<1>7. ToSet(s) = ToSet(v) \cup {h}
  <2>1. ToSet(v) \subseteq ToSet(s)
    BY <1>1, <1>2, <1>3 DEF ToSet
  <2>2. h \in ToSet(s)
    BY <1>1, <1>2 DEF ToSet
  <2>3. ASSUME NEW b \in ToSet(s), b # h PROVE b \in ToSet(v)
    <3>1. PICK i \in 1 .. Len(s) : s[i] = b
      BY <1>1 DEF ToSet
    <3>2. i # 1
      BY <1>2, <2>3, <3>1
    <3>3. i - 1 \in DOMAIN v /\ v[i - 1] = b
      BY <1>2, <1>4, <3>1, <3>2
    <3>. QED  BY <3>3 DEF ToSet
  <2>. QED  BY <2>1, <2>2, <2>3
<1>. QED  BY <1>2, <1>5, <1>6, <1>7 DEF v, h

LEMMA Reversed ==
    ASSUME NEW B, NEW s \in Seq(B), Distinct(s)
    PROVE  /\ Reverse(s) \in Seq(B) /\ Len(Reverse(s)) = Len(s)
           /\ Distinct(Reverse(s)) /\ ToSet(Reverse(s)) = ToSet(s)
<1>. DEFINE w == Reverse(s)
<1>1. Len(s) \in Nat /\ DOMAIN s = 1 .. Len(s) /\ \A i \in 1 .. Len(s) : s[i] \in B
  OBVIOUS
<1>2. /\ w \in Seq(B) /\ Len(w) = Len(s) /\ DOMAIN w = 1 .. Len(s)
      /\ \A i \in 1 .. Len(s) : w[i] = s[(Len(s) - i) + 1]
  BY <1>1 DEF Reverse
<1>. HIDE DEF w
<1>3. \A i \in 1 .. Len(s) : (Len(s) - i) + 1 \in 1 .. Len(s) /\ w[(Len(s) - i) + 1] = s[i]
  BY <1>1, <1>2
<1>4. Distinct(w)
  <2>. SUFFICES ASSUME NEW i \in 1 .. Len(s), NEW j \in 1 .. Len(s), w[i] = w[j] PROVE i = j
    BY <1>2 DEF Distinct
  <2>1. (Len(s) - i) + 1 = (Len(s) - j) + 1
    BY <1>1, <1>2, <1>3 DEF Distinct
  <2>. QED  BY <1>1, <2>1
<1>5. ToSet(w) = ToSet(s)
  <2>1. ToSet(w) \subseteq ToSet(s)
    BY <1>1, <1>2, <1>3 DEF ToSet
  <2>2. ToSet(s) \subseteq ToSet(w)
    BY <1>1, <1>2, <1>3 DEF ToSet
  <2>. QED  BY <2>1, <2>2
<1>. QED  BY <1>2, <1>4, <1>5 DEF w

\* Entries are counted by their number, once each.
LEMMA CountedOnce ==
    ASSUME NEW B, NEW s \in Seq(B), Distinct(s)
    PROVE  /\ IsFiniteSet(ToSet(s)) /\ Cardinality(ToSet(s)) = Len(s)
           /\ \A b : Occurs(b, s) = IF b \in ToSet(s) THEN 1 ELSE 0
<1>1. Len(s) \in Nat /\ DOMAIN s = 1 .. Len(s)
  OBVIOUS
<1>2. IsFiniteSet(1 .. Len(s)) /\ Cardinality(1 .. Len(s)) = Len(s)
  <2>1. IsFiniteSet(1 .. Len(s)) /\ Cardinality(1 .. Len(s)) = IF 1 > Len(s) THEN 0 ELSE Len(s) - 1 + 1
    BY <1>1, FS_Interval
  <2>. QED  BY <1>1, <2>1
<1>3. s \in Bijection(1 .. Len(s), ToSet(s))
  BY <1>1 DEF Distinct, ToSet, Bijection, Injection, Surjection, IsInjective
<1>4. ExistsBijection(1 .. Len(s), ToSet(s))
  BY <1>3 DEF ExistsBijection
<1>5. IsFiniteSet(ToSet(s)) /\ Cardinality(ToSet(s)) = Len(s)
  BY <1>2, <1>4, FS_Bijection
<1>6. ASSUME NEW b PROVE Occurs(b, s) = IF b \in ToSet(s) THEN 1 ELSE 0
  <2>1. CASE b \notin ToSet(s)
    <3>1. {i \in DOMAIN s : s[i] = b} = {}
      BY <2>1 DEF ToSet
    <3>. QED  BY <2>1, <3>1, FS_EmptySet DEF Occurs
  <2>2. CASE b \in ToSet(s)
    <3>1. PICK i \in DOMAIN s : s[i] = b
      BY <2>2 DEF ToSet
    <3>2. {j \in DOMAIN s : s[j] = b} = {i}
      BY <3>1 DEF Distinct
    <3>. QED  BY <2>2, <3>2, FS_Singleton DEF Occurs
  <2>. QED  BY <2>1, <2>2
<1>. QED  BY <1>5, <1>6

-----------------------------------------------------------------------------
(* Folds over lists                                                        *)

\* FoldLeft takes the parts of the domain that are left, by their last element.
FoldStep(base, g, s, h, p) ==
    h[p] = IF p = {} THEN base ELSE g[<<h[p \ {Max(p)}], s[Max(p)]>>]

LEMMA LastOfPart ==
    ASSUME NEW k \in Nat, NEW p \in SUBSET (1 .. k + 1), k + 1 \in p
    PROVE  Max(p) = k + 1 /\ p \ {Max(p)} \in SUBSET (1 .. k)
<1>1. \A y \in p : k + 1 >= y
  OBVIOUS
<1>2. Max(p) \in p /\ \A y \in p : Max(p) >= y
  BY <1>1 DEF Max
<1>3. Max(p) \in 1 .. k + 1 /\ Max(p) >= k + 1
  BY <1>2
<1>4. Max(p) = k + 1
  BY <1>3
<1>5. \A x \in 1 .. k + 1 : x # k + 1 => x \in 1 .. k
  OBVIOUS
<1>. QED  BY <1>4, <1>5

LEMMA LastInPart ==
    ASSUME NEW n \in Nat, NEW p \in SUBSET (1 .. n), p # {}
    PROVE  Max(p) \in 1 .. n
<1>. DEFINE D == {n - y : y \in p}
<1>1. D \in SUBSET Nat /\ D # {}
  <2>1. \A y \in p : n - y \in Nat
    OBVIOUS
  <2>. QED  BY <2>1
<1>2. Min(D) \in D /\ \A d \in D : Min(D) <= d
  <2>. HIDE DEF D
  <2>. QED  BY <1>1, LeastIsMin
<1>3. PICK x \in p : n - x = Min(D)
  BY <1>2
<1>4. ASSUME NEW y \in p PROVE x >= y
  <2>1. n - y \in D
    OBVIOUS
  <2>2. n - x <= n - y
    BY <1>2, <1>3, <2>1
  <2>. QED  BY <2>2
<1>5. Max(p) \in p
  BY <1>4 DEF Max
<1>. QED  BY <1>5

\* The recursion of a fold has a solution.
LEMMA FoldExists ==
    ASSUME NEW A, NEW B, NEW g \in [A \X B -> A], NEW base \in A, NEW s \in Seq(B)
    PROVE  \E h \in [SUBSET (1 .. Len(s)) -> A] :
               \A p \in SUBSET (1 .. Len(s)) : FoldStep(base, g, s, h, p)
<1>. DEFINE T == 1 .. Len(s)
            Solved(k, h) == \A p \in SUBSET T : p \subseteq 1 .. k => FoldStep(base, g, s, h, p)
            Solvable(k) == k <= Len(s) => \E h \in [SUBSET T -> A] : Solved(k, h)
            S == {k \in Nat : Solvable(k)}
<1>0. Len(s) \in Nat /\ \A i \in 1 .. Len(s) : s[i] \in B
  OBVIOUS
<1>1. Solvable(0)
  <2>1. PICK h : h = [p \in SUBSET T |-> base]
    OBVIOUS
  <2>2. h \in [SUBSET T -> A]
    BY <2>1
  <2>3. ASSUME NEW p \in SUBSET T, p \subseteq 1 .. 0 PROVE FoldStep(base, g, s, h, p)
    <3>1. p = {}
      BY <2>3
    <3>. QED  BY <2>1, <3>1 DEF FoldStep
  <2>. QED  BY <2>2, <2>3
<1>2. ASSUME NEW k \in Nat, Solvable(k) PROVE Solvable(k + 1)
  <2>. SUFFICES ASSUME k + 1 <= Len(s) PROVE \E h \in [SUBSET T -> A] : Solved(k + 1, h)
    OBVIOUS
  <2>1. PICK f \in [SUBSET T -> A] : Solved(k, f)
    <3>1. k <= Len(s)
      BY <1>0
    <3>. QED  BY <1>2, <3>1
  <2>2. PICK h : h = [p \in SUBSET T |-> IF p \subseteq 1 .. k THEN f[p]
                                         ELSE g[<<f[p \ {k + 1}], s[k + 1]>>]]
    OBVIOUS
  <2>3. s[k + 1] \in B
    BY <1>0
  <2>4. h \in [SUBSET T -> A]
    <3>1. ASSUME NEW p \in SUBSET T PROVE g[<<f[p \ {k + 1}], s[k + 1]>>] \in A
      <4>1. p \ {k + 1} \in SUBSET T
        OBVIOUS
      <4>2. <<f[p \ {k + 1}], s[k + 1]>> \in A \X B
        BY <2>3, <4>1
      <4>. QED  BY <4>2
    <3>. QED  BY <2>2, <3>1
  <2>5. ASSUME NEW p \in SUBSET T, p \subseteq 1 .. k + 1 PROVE FoldStep(base, g, s, h, p)
    <3>1. CASE p \subseteq 1 .. k
      <4>1. h[p] = f[p] /\ FoldStep(base, g, s, f, p)
        BY <2>1, <2>2, <3>1
      <4>2. p \ {Max(p)} \in SUBSET T /\ p \ {Max(p)} \subseteq 1 .. k
        BY <3>1
      <4>3. h[p \ {Max(p)}] = f[p \ {Max(p)}]
        BY <2>2, <4>2
      <4>. QED  BY <4>1, <4>3 DEF FoldStep
    <3>2. CASE ~(p \subseteq 1 .. k)
      <4>1. k + 1 \in p
        BY <2>5, <3>2
      <4>2. Max(p) = k + 1 /\ p \ {k + 1} \subseteq 1 .. k
        BY <2>5, <4>1, LastOfPart
      <4>3. p \ {k + 1} \in SUBSET T
        OBVIOUS
      <4>4. h[p \ {k + 1}] = f[p \ {k + 1}]
        BY <2>2, <4>2, <4>3
      <4>5. h[p] = g[<<f[p \ {k + 1}], s[k + 1]>>]
        BY <2>2, <3>2
      <4>. QED  BY <4>1, <4>2, <4>4, <4>5 DEF FoldStep
    <3>. QED  BY <3>1, <3>2
  <2>. QED  BY <2>4, <2>5
<1>. HIDE DEF Solvable
<1>3. S = Nat
  <2>1. S \in SUBSET Nat /\ 0 \in S /\ \A k \in Nat : k \in S => k + 1 \in S
    BY <1>1, <1>2
  <2>. HIDE DEF S
  <2>. QED  BY <2>1, SetInduction
<1>4. PICK h \in [SUBSET T -> A] : Solved(Len(s), h)
  <2>1. Solvable(Len(s)) /\ Len(s) <= Len(s)
    BY <1>0, <1>3
  <2>. HIDE DEF Solved
  <2>. QED  BY <2>1 DEF Solvable
<1>. QED  BY <1>4

\* What the fold is after the first i elements.
Folded(f, i) == f[1 .. i]

FoldsBy(A, B, g, base, s, f) ==
    /\ g \in [A \X B -> A] /\ base \in A /\ s \in Seq(B) /\ f[{}] = base
    /\ \A p \in SUBSET (1 .. Len(s)) :
          p # {} /\ f[p \ {Max(p)}] \in A => f[p] = g[<<f[p \ {Max(p)}], s[Max(p)]>>]

LEMMA FoldChain ==
    ASSUME NEW A, NEW B, NEW g, NEW base, NEW s, NEW f, FoldsBy(A, B, g, base, s, f)
    PROVE  /\ Folded(f, 0) = base
           /\ \A i \in 0 .. Len(s) : Folded(f, i) \in A
           /\ \A i \in 0 .. Len(s) - 1 : Folded(f, i + 1) = g[<<Folded(f, i), s[i + 1]>>]
<1>. USE DEF FoldsBy
<1>0. Len(s) \in Nat /\ \A i \in 1 .. Len(s) : s[i] \in B
  OBVIOUS
<1>1. Folded(f, 0) = base
  <2>1. 1 .. 0 = {}
    OBVIOUS
  <2>. QED  BY <2>1 DEF Folded
<1>2. ASSUME NEW i \in Nat, i < Len(s), Folded(f, i) \in A
      PROVE  Folded(f, i + 1) = g[<<Folded(f, i), s[i + 1]>>] /\ Folded(f, i + 1) \in A
  <2>. DEFINE p == 1 .. i + 1
  <2>1. p \in SUBSET (1 .. Len(s)) /\ i + 1 \in p /\ p # {} /\ p \ {i + 1} = 1 .. i
    BY <1>0, <1>2
  <2>2. Max(p) = i + 1
    BY <2>1, LastOfPart
  <2>3. f[p] = g[<<f[1 .. i], s[i + 1]>>]
    <3>1. f[p \ {Max(p)}] \in A
      BY <1>2, <2>1, <2>2 DEF Folded
    <3>. HIDE DEF p
    <3>2. f[p] = g[<<f[p \ {Max(p)}], s[Max(p)]>>]
      BY <2>1, <3>1
    <3>. QED  BY <2>1, <2>2, <3>2
  <2>4. <<Folded(f, i), s[i + 1]>> \in A \X B
    BY <1>0, <1>2
  <2>5. Folded(f, i + 1) = g[<<Folded(f, i), s[i + 1]>>]
    BY <2>3 DEF Folded
  <2>. QED  BY <2>4, <2>5
<1>3. \A i \in 0 .. Len(s) : Folded(f, i) \in A
  <2>. DEFINE S == {i \in Nat : i <= Len(s) => Folded(f, i) \in A}
  <2>1. 0 \in S
    BY <1>1
  <2>2. ASSUME NEW i \in Nat, i \in S PROVE i + 1 \in S
    <3>1. i + 1 <= Len(s) => i < Len(s) /\ i <= Len(s)
      BY <1>0
    <3>2. i + 1 <= Len(s) => Folded(f, i + 1) \in A
      BY <1>2, <2>2, <3>1
    <3>. QED  BY <3>2
  <2>3. S = Nat
    <3>1. S \in SUBSET Nat
      OBVIOUS
    <3>. HIDE DEF S
    <3>. QED  BY <2>1, <2>2, <3>1, SetInduction
  <2>4. \A i \in 0 .. Len(s) : i \in S
    BY <1>0, <2>3
  <2>. QED  BY <2>4
<1>4. ASSUME NEW i \in 0 .. Len(s) - 1 PROVE Folded(f, i + 1) = g[<<Folded(f, i), s[i + 1]>>]
  <2>1. i \in Nat /\ i < Len(s) /\ i \in 0 .. Len(s)
    BY <1>0
  <2>. QED  BY <1>2, <1>3, <2>1
<1>. QED  BY <1>1, <1>3, <1>4

\* The list without n, one element after the other.
Removes(f, list, n) ==
    /\ Without(list, n) = Folded(f, Len(list))
    /\ Folded(f, 0) = <<>> /\ \A i \in 0 .. Len(list) : Folded(f, i) \in Seq(Nat)
    /\ \A i \in 0 .. Len(list) - 1 :
          Folded(f, i + 1) = IF list[i + 1] = n THEN Folded(f, i)
                             ELSE Append(Folded(f, i), list[i + 1])

LEMMA WithoutIsFold ==
    ASSUME NEW list \in Seq(Nat), NEW n
    PROVE  \E f : Removes(f, list, n)
<1>. DEFINE T == 1 .. Len(list)
            A == Seq(Nat)
            op(kept, k) == IF k = n THEN kept ELSE Append(kept, k)
            g == [x \in A \X Nat |-> op(x[1], x[2])]
            Eqn(f) == f = [p \in SUBSET T |-> IF p = {} THEN <<>>
                                              ELSE op(f[p \ {Max(p)}], list[Max(p)])]
            iter == CHOOSE f : Eqn(f)
<1>0. Len(list) \in Nat /\ DOMAIN list = T /\ <<>> \in A /\ \A i \in T : list[i] \in Nat
  OBVIOUS
<1>1. Without(list, n) = iter[T]
  BY <1>0, Zenon DEF Without, FoldLeft, MapThenFoldSet
<1>2. /\ g \in [A \X Nat -> A]
      /\ \A a \in A, x \in Nat : g[<<a, x>>] = op(a, x)
  OBVIOUS
<1>3. \A p \in SUBSET T : p # {} => Max(p) \in T
  BY <1>0, LastInPart
<1>4. PICK h \in [SUBSET T -> A] : \A p \in SUBSET T : FoldStep(<<>>, g, list, h, p)
  BY <1>0, <1>2, FoldExists
<1>5. Eqn(h)
  <2>. HIDE DEF g, op
  <2>1. ASSUME NEW p \in SUBSET T
        PROVE  h[p] = IF p = {} THEN <<>> ELSE op(h[p \ {Max(p)}], list[Max(p)])
    <3>1. h[p \ {Max(p)}] \in A
      OBVIOUS
    <3>2. p # {} => list[Max(p)] \in Nat
      BY <1>0, <1>3
    <3>. QED  BY <1>2, <1>4, <3>1, <3>2 DEF FoldStep
  <2>. QED  BY <2>1
<1>6. Eqn(iter)
  BY <1>5
<1>. HIDE DEF iter, g
<1>7. iter[{}] = <<>>
  BY <1>6
<1>8. ASSUME NEW p \in SUBSET T, p # {}, iter[p \ {Max(p)}] \in A
      PROVE  iter[p] = g[<<iter[p \ {Max(p)}], list[Max(p)]>>]
  <2>1. iter[p] = op(iter[p \ {Max(p)}], list[Max(p)])
    BY <1>6, <1>8
  <2>2. list[Max(p)] \in Nat
    BY <1>0, <1>3, <1>8
  <2>. HIDE DEF op
  <2>. QED  BY <1>2, <1>8, <2>1, <2>2
<1>9. /\ Folded(iter, 0) = <<>>
      /\ \A i \in 0 .. Len(list) : Folded(iter, i) \in A
      /\ \A i \in 0 .. Len(list) - 1 : Folded(iter, i + 1) = g[<<Folded(iter, i), list[i + 1]>>]
  <2>1. \A p \in SUBSET (1 .. Len(list)) :
           p # {} /\ iter[p \ {Max(p)}] \in A => iter[p] = g[<<iter[p \ {Max(p)}], list[Max(p)]>>]
    BY <1>8
  <2>2. <<>> \in A /\ g \in [A \X Nat -> A]
    BY <1>2
  <2>3. FoldsBy(A, Nat, g, <<>>, list, iter)
    BY <1>7, <2>1, <2>2 DEF FoldsBy
  <2>. HIDE DEF A, T
  <2>. QED  BY <2>3, FoldChain
<1>10. ASSUME NEW i \in 0 .. Len(list) - 1
       PROVE  Folded(iter, i + 1) = op(Folded(iter, i), list[i + 1])
  <2>1. i + 1 \in T /\ i \in 0 .. Len(list)
    BY <1>0
  <2>. QED  BY <1>0, <1>2, <1>9, <2>1
<1>11. Without(list, n) = Folded(iter, Len(list))
  BY <1>1 DEF Folded
<1>12. Removes(iter, list, n)
  BY <1>9, <1>10, <1>11 DEF Removes
<1>. QED  BY <1>12

LEMMA Appended ==
    ASSUME NEW B, NEW s \in Seq(B), NEW x \in B, Distinct(s), x \notin ToSet(s)
    PROVE  /\ Append(s, x) \in Seq(B) /\ Distinct(Append(s, x))
           /\ ToSet(Append(s, x)) = ToSet(s) \cup {x}
<1>1. Append(s, x) = s \o <<x>>
  OBVIOUS
<1>2. <<x>> \in Seq(B) /\ Distinct(<<x>>) /\ ToSet(<<x>>) = {x}
  BY OneBlock
<1>3. ToSet(s) \cap ToSet(<<x>>) = {}
  BY <1>2
<1>4. /\ s \o <<x>> \in Seq(B) /\ Distinct(s \o <<x>>)
      /\ ToSet(s \o <<x>>) = ToSet(s) \cup ToSet(<<x>>)
  <2>. DEFINE r == <<x>>
  <2>. HIDE DEF r
  <2>1. r \in Seq(B) /\ Distinct(r) /\ ToSet(s) \cap ToSet(r) = {}
    BY <1>2, <1>3 DEF r
  <2>2. s \o r \in Seq(B) /\ Distinct(s \o r) /\ ToSet(s \o r) = ToSet(s) \cup ToSet(r)
    BY <2>1, Joined
  <2>. QED  BY <2>2 DEF r
<1>. QED  BY <1>1, <1>2, <1>4

LEMMA WithoutRemoves ==
    ASSUME NEW list \in Seq(Nat), Distinct(list), NEW n
    PROVE  /\ Without(list, n) \in Seq(Nat) /\ Distinct(Without(list, n))
           /\ ToSet(Without(list, n)) = ToSet(list) \ {n}
<1>0. PICK f : Removes(f, list, n)
  BY WithoutIsFold
<1>1. /\ Without(list, n) = Folded(f, Len(list))
      /\ Folded(f, 0) = <<>> /\ \A i \in 0 .. Len(list) : Folded(f, i) \in Seq(Nat)
      /\ \A i \in 0 .. Len(list) - 1 :
            Folded(f, i + 1) = IF list[i + 1] = n THEN Folded(f, i)
                               ELSE Append(Folded(f, i), list[i + 1])
  BY <1>0 DEF Removes
<1>. DEFINE Before(i) == {list[j] : j \in 1 .. i}
            Kept(i) == i <= Len(list) =>
                           Distinct(Folded(f, i)) /\ ToSet(Folded(f, i)) = Before(i) \ {n}
            S == {i \in Nat : Kept(i)}
<1>2. Len(list) \in Nat /\ DOMAIN list = 1 .. Len(list) /\ \A i \in 1 .. Len(list) : list[i] \in Nat
  OBVIOUS
<1>3. Kept(0)
  BY <1>1 DEF Distinct, ToSet
<1>4. ASSUME NEW i \in Nat, Kept(i) PROVE Kept(i + 1)
  <2>. SUFFICES ASSUME i + 1 <= Len(list)
                PROVE  Distinct(Folded(f, i + 1)) /\ ToSet(Folded(f, i + 1)) = Before(i + 1) \ {n}
    OBVIOUS
  <2>1. i \in 0 .. Len(list) /\ i \in 0 .. Len(list) - 1 /\ i <= Len(list) /\ i + 1 \in 1 .. Len(list)
    BY <1>2
  <2>2. Distinct(Folded(f, i)) /\ ToSet(Folded(f, i)) = Before(i) \ {n}
    BY <1>4, <2>1
  <2>3. Before(i + 1) = Before(i) \cup {list[i + 1]}
    <3>1. 1 .. i + 1 = (1 .. i) \cup {i + 1}
      OBVIOUS
    <3>. QED  BY <3>1
  <2>4. list[i + 1] \notin Before(i)
    <3>. SUFFICES ASSUME NEW j \in 1 .. i, list[i + 1] = list[j] PROVE FALSE
      OBVIOUS
    <3>1. j \in DOMAIN list /\ i + 1 \in DOMAIN list /\ j # i + 1
      BY <1>2, <2>1
    <3>. QED  BY <3>1 DEF Distinct
  <2>. HIDE DEF Before
  <2>5. CASE list[i + 1] = n
    <3>1. Folded(f, i + 1) = Folded(f, i)
      BY <1>1, <2>1, <2>5
    <3>. QED  BY <2>2, <2>3, <2>5, <3>1
  <2>6. CASE list[i + 1] # n
    <3>1. Folded(f, i + 1) = Append(Folded(f, i), list[i + 1])
      BY <1>1, <2>1, <2>6
    <3>2. Folded(f, i) \in Seq(Nat) /\ list[i + 1] \in Nat
      BY <1>1, <1>2, <2>1
    <3>3. list[i + 1] \notin ToSet(Folded(f, i))
      BY <2>2, <2>4
    <3>4. /\ Distinct(Append(Folded(f, i), list[i + 1]))
          /\ ToSet(Append(Folded(f, i), list[i + 1])) = ToSet(Folded(f, i)) \cup {list[i + 1]}
      BY <2>2, <3>2, <3>3, Appended
    <3>. QED  BY <2>2, <2>3, <2>6, <3>1, <3>4
  <2>. QED  BY <2>5, <2>6
<1>. HIDE DEF Kept
<1>5. S = Nat
  <2>1. S \in SUBSET Nat /\ 0 \in S /\ \A k \in Nat : k \in S => k + 1 \in S
    BY <1>3, <1>4
  <2>. HIDE DEF S
  <2>. QED  BY <2>1, SetInduction
<1>6. Kept(Len(list)) /\ Len(list) <= Len(list) /\ Len(list) \in 0 .. Len(list)
  BY <1>2, <1>5
<1>7. Before(Len(list)) = ToSet(list)
  BY <1>2 DEF ToSet
<1>. HIDE DEF Before
<1>. QED  BY <1>1, <1>6, <1>7 DEF Kept

-----------------------------------------------------------------------------
(* One central cache                                                       *)

BlockIds == Nat \X Nat \X Nat
SlabRecs == [free : Seq(BlockIds), used : Int]
CentralRecs == [slabs : Seq(SlabRecs), partial : Seq(Nat), allocated : Int]

\* What a slab, and a list of partial slabs, should be.
SlabOK(c, n, slab) ==
    /\ Distinct(slab.free) /\ ToSet(slab.free) \subseteq {c} \X {n} \X (1 .. Total(c))
    /\ slab.used + Len(slab.free) = Total(c)

PartialOK(c, cc) ==
    /\ Distinct(cc.partial)
    /\ ToSet(cc.partial) = {n \in DOMAIN cc.slabs : SlabState(c, cc.slabs[n]) = "Partial"}

Sound(c, cc) == PartialOK(c, cc) /\ \A n \in DOMAIN cc.slabs : SlabOK(c, n, cc.slabs[n])

FreeIn(cc) == UNION {ToSet(cc.slabs[n].free) : n \in DOMAIN cc.slabs}

\* What the code's constants give.
LEMMA ClassFacts ==
    ASSUME NEW c \in Classes
    PROVE  /\ c \in Nat /\ Table[c].batchSize \in Nat /\ Table[c].batchSize > 0
           /\ Table[c].batchSize <= MaxBatchSize /\ MaxBatchSize \in Nat /\ MaxSlabs \in Nat
           /\ Total(c) \in Nat /\ Total(c) > 0 /\ Total(c) <= SlabSize /\ SlabSize \in Nat
<1>1. Table[c].batchSize \in 1 .. MaxBatchSize /\ Total(c) \in 1 .. SlabSize
  BY PoolAssumption
<1>2. {SlabSize, MaxBatchSize, MaxSlabs} \subseteq Nat
  BY PoolAssumption
<1>3. c \in Nat
  <2>1. Len(Table) \in Nat
    BY PoolAssumption
  <2>. QED  BY <2>1 DEF Classes
<1>. QED  BY <1>1, <1>2, <1>3

\* A slab's list changes, and it is put on the partial list or taken off.
SlabChanged(c, cc, n, after) ==
    [cc EXCEPT !.slabs[n] = after,
               !.partial = Transition(@, SlabState(c, cc.slabs[n]), SlabState(c, after), n)]

LEMMA PartialListKept ==
    ASSUME NEW c \in Classes, NEW cc \in CentralRecs, PartialOK(c, cc),
           NEW n \in DOMAIN cc.slabs, NEW after \in SlabRecs
    PROVE  LET cc2 == SlabChanged(c, cc, n, after)
           IN  cc2.partial \in Seq(Nat) /\ PartialOK(c, cc2)
<1>. DEFINE cc2  == SlabChanged(c, cc, n, after)
            was  == SlabState(c, cc.slabs[n])
            is   == SlabState(c, after)
            kept == IF was = "Partial" THEN Without(cc.partial, n) ELSE cc.partial
            Part == {k \in DOMAIN cc.slabs : SlabState(c, cc.slabs[k]) = "Partial"}
            Part2 == {k \in DOMAIN cc.slabs : SlabState(c, cc2.slabs[k]) = "Partial"}
<1>1. /\ cc.slabs \in Seq(SlabRecs) /\ cc.partial \in Seq(Nat) /\ n \in Nat
      /\ Distinct(cc.partial) /\ ToSet(cc.partial) = Part
  BY DEF PartialOK, CentralRecs
<1>2. /\ cc2.partial = Transition(cc.partial, was, is, n)
      /\ DOMAIN cc2.slabs = DOMAIN cc.slabs /\ cc2.slabs[n] = after
      /\ \A k \in DOMAIN cc.slabs : k # n => cc2.slabs[k] = cc.slabs[k]
  BY <1>1 DEF SlabChanged, CentralRecs
<1>3. n \in Part <=> was = "Partial"
  OBVIOUS
<1>4. /\ \A k \in DOMAIN cc.slabs : k # n => (k \in Part2 <=> k \in Part)
      /\ n \in Part2 <=> is = "Partial"
  BY <1>2
<1>. HIDE DEF was, is, Part, cc2
<1>5. /\ Part2 \subseteq DOMAIN cc.slabs /\ Part \subseteq DOMAIN cc.slabs
  BY DEF Part
<1>. HIDE DEF Part2
<1>6. kept \in Seq(Nat) /\ Distinct(kept) /\ ToSet(kept) = Part \ {n}
  <2>1. CASE was = "Partial"
    BY <1>1, <2>1, WithoutRemoves
  <2>2. CASE was # "Partial"
    BY <1>1, <1>3, <2>2
  <2>. QED  BY <2>1, <2>2
<1>7. cc2.partial \in Seq(Nat) /\ Distinct(cc2.partial) /\ ToSet(cc2.partial) = Part2
  <2>1. CASE was = is
    <3>1. cc2.partial = cc.partial
      BY <1>2, <2>1 DEF Transition
    <3>2. Part2 = Part
      BY <1>3, <1>4, <1>5, <2>1
    <3>. QED  BY <1>1, <3>1, <3>2
  <2>2. CASE was # is /\ is = "Partial"
    <3>1. cc2.partial = Append(kept, n)
      BY <1>2, <2>2 DEF Transition
    <3>2. Part2 = (Part \ {n}) \cup {n}
      BY <1>4, <1>5, <2>2
    <3>3. n \notin ToSet(kept)
      BY <1>6
    <3>. HIDE DEF kept
    <3>4. /\ Append(kept, n) \in Seq(Nat) /\ Distinct(Append(kept, n))
          /\ ToSet(Append(kept, n)) = ToSet(kept) \cup {n}
      BY <1>1, <1>6, <3>3, Appended
    <3>. QED  BY <1>6, <3>1, <3>2, <3>4
  <2>3. CASE was # is /\ is # "Partial"
    <3>1. cc2.partial = kept
      BY <1>2, <2>3 DEF Transition
    <3>2. Part2 = Part \ {n}
      BY <1>4, <1>5, <2>3
    <3>. HIDE DEF kept
    <3>. QED  BY <1>6, <3>1, <3>2
  <2>. QED  BY <2>1, <2>2, <2>3
<1>. QED  BY <1>2, <1>7 DEF PartialOK, cc2, Part2

LEMMA SlabChange ==
    ASSUME NEW c \in Classes, NEW cc \in CentralRecs, Sound(c, cc),
           NEW n \in DOMAIN cc.slabs, NEW after \in SlabRecs, SlabOK(c, n, after)
    PROVE  LET cc2 == SlabChanged(c, cc, n, after)
           IN  /\ cc2 \in CentralRecs /\ Sound(c, cc2)
               /\ DOMAIN cc2.slabs = DOMAIN cc.slabs /\ Len(cc2.slabs) = Len(cc.slabs)
               /\ cc2.allocated = cc.allocated
               /\ FreeIn(cc2) = (FreeIn(cc) \ ToSet(cc.slabs[n].free)) \cup ToSet(after.free)
               /\ \A b \in FreeIn(cc) : b \in ToSet(cc.slabs[n].free) <=> b[2] = n
               /\ ToSet(cc.slabs[n].free) \subseteq FreeIn(cc)
<1>. DEFINE cc2 == SlabChanged(c, cc, n, after)
<1>1. cc.slabs \in Seq(SlabRecs) /\ DOMAIN cc.slabs = 1 .. Len(cc.slabs) /\ n \in 1 .. Len(cc.slabs)
  BY DEF CentralRecs
<1>2. cc2.partial \in Seq(Nat) /\ PartialOK(c, cc2)
  BY PartialListKept DEF Sound
<1>3. /\ cc2.slabs \in Seq(SlabRecs) /\ Len(cc2.slabs) = Len(cc.slabs)
      /\ DOMAIN cc2.slabs = DOMAIN cc.slabs /\ cc2.slabs[n] = after
      /\ \A k \in DOMAIN cc.slabs : k # n => cc2.slabs[k] = cc.slabs[k]
  BY <1>1 DEF SlabChanged, CentralRecs
<1>4. cc2 \in CentralRecs /\ cc2.allocated = cc.allocated
  BY <1>2, <1>3 DEF SlabChanged, CentralRecs
<1>. HIDE DEF cc2
<1>5. Sound(c, cc2)
  BY <1>2, <1>3 DEF Sound
<1>6. \A k \in DOMAIN cc.slabs : \A b \in ToSet(cc.slabs[k].free) : b[2] = k
  BY DEF Sound, SlabOK
<1>7. \A b \in ToSet(after.free) : b[2] = n
  BY DEF SlabOK
<1>8. FreeIn(cc2) = (FreeIn(cc) \ ToSet(cc.slabs[n].free)) \cup ToSet(after.free)
  <2>1. ASSUME NEW b \in FreeIn(cc2)
        PROVE  b \in (FreeIn(cc) \ ToSet(cc.slabs[n].free)) \cup ToSet(after.free)
    <3>1. PICK k \in DOMAIN cc.slabs : b \in ToSet(cc2.slabs[k].free)
      BY <1>3 DEF FreeIn
    <3>2. CASE k = n
      BY <1>3, <3>1, <3>2
    <3>3. CASE k # n
      BY <1>3, <1>6, <3>1, <3>3 DEF FreeIn
    <3>. QED  BY <3>2, <3>3
  <2>2. ASSUME NEW b \in FreeIn(cc), b \notin ToSet(cc.slabs[n].free) PROVE b \in FreeIn(cc2)
    <3>1. PICK k \in DOMAIN cc.slabs : b \in ToSet(cc.slabs[k].free)
      BY DEF FreeIn
    <3>2. k # n
      BY <2>2, <3>1
    <3>. QED  BY <1>3, <3>1, <3>2 DEF FreeIn
  <2>3. ToSet(after.free) \subseteq FreeIn(cc2)
    BY <1>1, <1>3 DEF FreeIn
  <2>. QED  BY <2>1, <2>2, <2>3
<1>9. \A b \in FreeIn(cc) : b \in ToSet(cc.slabs[n].free) <=> b[2] = n
  BY <1>6 DEF FreeIn
<1>10. ToSet(cc.slabs[n].free) \subseteq FreeIn(cc)
  BY DEF FreeIn
<1>. QED  BY <1>3, <1>4, <1>5, <1>8, <1>9, <1>10 DEF cc2

-----------------------------------------------------------------------------
(* Batches from the central cache                                          *)

LEMMA LesserOfTwo ==
    ASSUME NEW a \in Nat, NEW b \in Nat
    PROVE  Min({a, b}) \in Nat /\ Min({a, b}) <= a /\ Min({a, b}) <= b /\ Min({a, b}) \in {a, b}
<1>1. {a, b} \in SUBSET Nat /\ {a, b} # {}
  OBVIOUS
<1>2. Min({a, b}) \in {a, b} /\ \A y \in {a, b} : Min({a, b}) <= y
  BY <1>1, LeastIsMin
<1>. QED  BY <1>2

\* The blocks of a class that are not in their slab's list.
OutOf(c, cc) == ({c} \X (DOMAIN cc.slabs) \X (1 .. Total(c))) \ FreeIn(cc)

LEMMA FreeBlocks ==
    ASSUME NEW c \in Classes, NEW cc \in CentralRecs, Sound(c, cc)
    PROVE  /\ FreeIn(cc) \subseteq {c} \X (DOMAIN cc.slabs) \X (1 .. Total(c))
           /\ FreeIn(cc) \subseteq BlockIds /\ OutOf(c, cc) \subseteq BlockIds
<1>1. c \in Nat /\ Total(c) \in Nat /\ DOMAIN cc.slabs \subseteq Nat
  BY ClassFacts DEF CentralRecs
<1>2. FreeIn(cc) \subseteq {c} \X (DOMAIN cc.slabs) \X (1 .. Total(c))
  BY DEF FreeIn, Sound, SlabOK
<1>3. {c} \X (DOMAIN cc.slabs) \X (1 .. Total(c)) \subseteq BlockIds
  BY <1>1 DEF BlockIds
<1>. QED  BY <1>2, <1>3 DEF OutOf

\* Between two slabs of fetchBatch: what is in out was free before and is free no more.
Fetching == [cc : CentralRecs, out : Seq(BlockIds)]
Taken(c, cc, acc) ==
    /\ acc \in Fetching /\ Sound(c, acc.cc)
    /\ Len(acc.cc.slabs) = Len(cc.slabs) /\ acc.cc.allocated = cc.allocated
    /\ Distinct(acc.out) /\ Len(acc.out) <= Table[c].batchSize
    /\ ToSet(acc.out) \cap FreeIn(acc.cc) = {}
    /\ ToSet(acc.out) \cup FreeIn(acc.cc) = FreeIn(cc)

LEMMA TakeFromKeeps ==
    ASSUME NEW c \in Classes, NEW cc, NEW acc, Taken(c, cc, acc), NEW n \in DOMAIN acc.cc.slabs
    PROVE  /\ Taken(c, cc, TakeFrom(c, acc, n))
           /\ Len(TakeFrom(c, acc, n).out)
                = Len(acc.out) + Min({Len(acc.cc.slabs[n].free), Table[c].batchSize - Len(acc.out)})
<1>. DEFINE slab  == acc.cc.slabs[n]
            k     == Min({Len(slab.free), Table[c].batchSize - Len(acc.out)})
            u     == SubSeq(slab.free, 1, k)
            v     == SubSeq(slab.free, k + 1, Len(slab.free))
            after == [free |-> v, used |-> slab.used + k]
            cc2   == SlabChanged(c, acc.cc, n, after)
            out2  == acc.out \o u
<1>1. /\ acc.cc \in CentralRecs /\ Sound(c, acc.cc) /\ acc.out \in Seq(BlockIds)
      /\ Len(acc.out) \in Nat /\ Len(acc.out) <= Table[c].batchSize /\ Distinct(acc.out)
      /\ slab \in SlabRecs /\ SlabOK(c, n, slab)
  BY DEF Taken, Fetching, Sound, CentralRecs
<1>2. TakeFrom(c, acc, n) = [cc |-> cc2, out |-> out2]
  BY DEF TakeFrom, SlabChanged
<1>3. slab.free \in Seq(BlockIds) /\ Len(slab.free) \in Nat /\ slab.used \in Int /\ Distinct(slab.free)
  BY <1>1 DEF SlabRecs, SlabOK
<1>4. k \in 0 .. Len(slab.free) /\ k <= Table[c].batchSize - Len(acc.out) /\ k \in Nat
  <2>1. Table[c].batchSize - Len(acc.out) \in Nat
    BY <1>1, ClassFacts
  <2>. HIDE DEF slab
  <2>. QED  BY <1>3, <2>1, LesserOfTwo
<1>. HIDE DEF k
<1>5. /\ u \in Seq(BlockIds) /\ Len(u) = k /\ Distinct(u)
      /\ v \in Seq(BlockIds) /\ Len(v) = Len(slab.free) - k /\ Distinct(v)
      /\ ToSet(u) \cup ToSet(v) = ToSet(slab.free) /\ ToSet(u) \cap ToSet(v) = {}
  <2>. HIDE DEF slab
  <2>. QED  BY <1>3, <1>4, Cut
<1>. HIDE DEF u, v
<1>6. after \in SlabRecs /\ SlabOK(c, n, after)
  <2>1. after \in SlabRecs
    BY <1>3, <1>4, <1>5 DEF SlabRecs
  <2>2. ToSet(v) \subseteq {c} \X {n} \X (1 .. Total(c))
    BY <1>1, <1>5 DEF SlabOK
  <2>3. slab.used + Len(slab.free) = Total(c)
    BY <1>1 DEF SlabOK
  <2>4. (slab.used + k) + Len(v) = Total(c)
    <3>. HIDE DEF slab
    <3>. QED  BY <1>3, <1>4, <1>5, <2>3
  <2>. HIDE DEF slab
  <2>. QED  BY <1>5, <2>1, <2>2, <2>4 DEF SlabOK
<1>. HIDE DEF after
<1>7. /\ cc2 \in CentralRecs /\ Sound(c, cc2)
      /\ Len(cc2.slabs) = Len(acc.cc.slabs) /\ cc2.allocated = acc.cc.allocated
      /\ FreeIn(cc2) = (FreeIn(acc.cc) \ ToSet(slab.free)) \cup ToSet(after.free)
      /\ ToSet(slab.free) \subseteq FreeIn(acc.cc)
  BY <1>1, <1>6, SlabChange
<1>8. after.free = v
  BY DEF after
<1>. HIDE DEF cc2, slab
<1>9. /\ ToSet(acc.out) \cap FreeIn(acc.cc) = {}
      /\ ToSet(acc.out) \cup FreeIn(acc.cc) = FreeIn(cc)
  BY DEF Taken
<1>10. ToSet(acc.out) \cap ToSet(u) = {}
  BY <1>5, <1>7, <1>9
<1>11. /\ out2 \in Seq(BlockIds) /\ Len(out2) = Len(acc.out) + Len(u)
       /\ Distinct(out2) /\ ToSet(out2) = ToSet(acc.out) \cup ToSet(u)
  <2>1. PICK r : r = acc.out
    OBVIOUS
  <2>2. r \in Seq(BlockIds) /\ Distinct(r) /\ ToSet(r) \cap ToSet(u) = {}
    BY <1>1, <1>10, <2>1
  <2>3. u \in Seq(BlockIds) /\ Distinct(u)
    BY <1>5
  <2>4. /\ r \o u \in Seq(BlockIds) /\ Len(r \o u) = Len(r) + Len(u)
        /\ Distinct(r \o u) /\ ToSet(r \o u) = ToSet(r) \cup ToSet(u)
    BY <2>2, <2>3, Joined
  <2>. QED  BY <2>1, <2>4
<1>. HIDE DEF out2
<1>12. ToSet(out2) \cap FreeIn(cc2) = {}
  BY <1>5, <1>7, <1>8, <1>9, <1>11
<1>13. ToSet(out2) \cup FreeIn(cc2) = FreeIn(cc)
  BY <1>5, <1>7, <1>8, <1>9, <1>11
<1>14. Len(out2) <= Table[c].batchSize
  BY <1>1, <1>4, <1>5, <1>11, ClassFacts
<1>15. Taken(c, cc, [cc |-> cc2, out |-> out2])
  BY <1>7, <1>11, <1>12, <1>13, <1>14 DEF Taken, Fetching
<1>. QED  BY <1>2, <1>5, <1>11, <1>15 DEF k, slab

LEMMA FromPartialTakes ==
    ASSUME NEW c \in Classes, central[c] \in CentralRecs, Sound(c, central[c])
    PROVE  Taken(c, central[c], FromPartial(c))
<1>. DEFINE list == central[c].partial
            T == 1 .. Len(list)
            B == DOMAIN central[c].slabs
            base == [cc |-> central[c], out |-> <<>>]
            A == {acc \in Fetching : Taken(c, central[c], acc)}
            op(acc, n) == IF Len(acc.out) < Table[c].batchSize THEN TakeFrom(c, acc, n) ELSE acc
            g == [x \in A \X B |-> op(x[1], x[2])]
            Eqn(f) == f = [p \in SUBSET T |-> IF p = {} THEN base
                                              ELSE op(f[p \ {Max(p)}], list[Max(p)])]
            iter == CHOOSE f : Eqn(f)
<1>0. list \in Seq(B) /\ Len(list) \in Nat /\ DOMAIN list = T /\ \A i \in T : list[i] \in B
  <2>1. list \in Seq(Nat)
    BY DEF CentralRecs
  <2>2. \A i \in DOMAIN list : list[i] \in B
    BY DEF Sound, PartialOK, ToSet
  <2>. QED  BY <2>1, <2>2
<1>1. FromPartial(c) = iter[T]
  BY <1>0, Zenon DEF FromPartial, FoldLeft, MapThenFoldSet
<1>2. base \in A
  <2>1. <<>> \in Seq(BlockIds) /\ Distinct(<<>>) /\ Len(<<>>) = 0 /\ ToSet(<<>>) = {}
    BY DEF Distinct, ToSet
  <2>2. base.cc = central[c] /\ base.out = <<>> /\ base \in Fetching
    BY <2>1 DEF Fetching
  <2>3. Table[c].batchSize \in Nat
    BY ClassFacts
  <2>4. Taken(c, central[c], base)
    <3>1. /\ Distinct(base.out) /\ Len(base.out) <= Table[c].batchSize
          /\ ToSet(base.out) \cap FreeIn(base.cc) = {}
          /\ ToSet(base.out) \cup FreeIn(base.cc) = FreeIn(central[c])
      BY <2>1, <2>2, <2>3
    <3>. HIDE DEF base
    <3>. QED  BY <2>2, <3>1 DEF Taken
  <2>. QED  BY <2>2, <2>4
<1>3. ASSUME NEW acc \in A, NEW n \in B PROVE op(acc, n) \in A /\ g[<<acc, n>>] = op(acc, n)
  <2>1. Taken(c, central[c], acc) /\ n \in DOMAIN acc.cc.slabs
    <3>1. Taken(c, central[c], acc)
      OBVIOUS
    <3>2. acc.cc.slabs \in Seq(SlabRecs) /\ Len(acc.cc.slabs) = Len(central[c].slabs)
          /\ central[c].slabs \in Seq(SlabRecs)
      BY <3>1 DEF Taken, Fetching, CentralRecs
    <3>. QED  BY <3>1, <3>2
  <2>2. Taken(c, central[c], TakeFrom(c, acc, n))
    BY <2>1, TakeFromKeeps
  <2>3. op(acc, n) \in A
    BY <2>1, <2>2 DEF Taken
  <2>. QED  BY <2>3
<1>4. g \in [A \X B -> A]
  <2>. HIDE DEF op, A, B
  <2>. QED  BY <1>3
<1>5. \A p \in SUBSET T : p # {} => Max(p) \in T
  BY <1>0, LastInPart
<1>6. PICK h \in [SUBSET T -> A] : \A p \in SUBSET T : FoldStep(base, g, list, h, p)
  <2>. HIDE DEF A, B, g, list, base
  <2>. QED  BY <1>0, <1>2, <1>4, FoldExists
<1>. HIDE DEF g, op, A, B, base, list
<1>7. Eqn(h)
  <2>1. ASSUME NEW p \in SUBSET T
        PROVE  h[p] = IF p = {} THEN base ELSE op(h[p \ {Max(p)}], list[Max(p)])
    <3>1. h[p \ {Max(p)}] \in A
      OBVIOUS
    <3>2. p # {} => list[Max(p)] \in B
      BY <1>0, <1>5
    <3>. QED  BY <1>3, <1>6, <3>1, <3>2 DEF FoldStep
  <2>. QED  BY <2>1
<1>8. Eqn(iter)
  BY <1>7
<1>. HIDE DEF iter
<1>9. FoldsBy(A, B, g, base, list, iter)
  <2>1. ASSUME NEW p \in SUBSET T, p # {}, iter[p \ {Max(p)}] \in A
        PROVE  iter[p] = g[<<iter[p \ {Max(p)}], list[Max(p)]>>]
    <3>1. iter[p] = op(iter[p \ {Max(p)}], list[Max(p)])
      BY <1>8, <2>1
    <3>2. list[Max(p)] \in B
      BY <1>0, <1>5, <2>1
    <3>. QED  BY <1>3, <2>1, <3>1, <3>2
  <2>2. iter[{}] = base
    BY <1>8
  <2>. QED  BY <1>0, <1>2, <1>4, <2>1, <2>2 DEF FoldsBy
<1>10. \A i \in 0 .. Len(list) : Folded(iter, i) \in A
  BY <1>9, FoldChain
<1>11. FromPartial(c) \in A
  BY <1>0, <1>1, <1>10 DEF Folded
<1>. QED  BY <1>11 DEF A

\* addSlab.
Grown(c, cc) == [cc EXCEPT !.slabs = Append(@, FreshSlab(c, Len(cc.slabs) + 1))]
NewBlocks(c, cc) == {c} \X {Len(cc.slabs) + 1} \X (1 .. Total(c))

LEMMA FreshSlabOK ==
    ASSUME NEW c \in Classes, NEW n \in Nat
    PROVE  /\ FreshSlab(c, n) \in SlabRecs /\ SlabOK(c, n, FreshSlab(c, n))
           /\ ToSet(FreshSlab(c, n).free) = {c} \X {n} \X (1 .. Total(c))
           /\ Len(FreshSlab(c, n).free) = Total(c)
           /\ SlabState(c, FreshSlab(c, n)) = "Empty"
<1>. DEFINE K == Total(c)
            list == [i \in 1 .. K |-> <<c, n, K + 1 - i>>]
<1>1. c \in Nat /\ K \in Nat /\ K > 0
  BY ClassFacts
<1>2. FreshSlab(c, n) = [free |-> list, used |-> 0]
  BY DEF FreshSlab
<1>. HIDE DEF K
<1>3. \A i \in 1 .. K : <<c, n, K + 1 - i>> \in BlockIds
  BY <1>1 DEF BlockIds
<1>4. list \in Seq(BlockIds) /\ Len(list) = K /\ DOMAIN list = 1 .. K
      /\ \A i \in 1 .. K : list[i] = <<c, n, K + 1 - i>>
  BY <1>1, <1>3
<1>. HIDE DEF list
<1>5. Distinct(list)
  BY <1>1, <1>4 DEF Distinct
<1>6. ToSet(list) = {c} \X {n} \X (1 .. K)
  <2>1. ToSet(list) \subseteq {c} \X {n} \X (1 .. K)
    <3>1. ASSUME NEW i \in 1 .. K PROVE list[i] \in {c} \X {n} \X (1 .. K)
      <4>1. PICK j \in 1 .. K : j = K + 1 - i
        BY <1>1
      <4>2. list[i] = <<c, n, j>>
        BY <1>4, <4>1
      <4>. QED  BY <4>2
    <3>. QED  BY <1>4, <3>1 DEF ToSet
  <2>2. ASSUME NEW j \in 1 .. K PROVE <<c, n, j>> \in ToSet(list)
    <3>1. K + 1 - j \in 1 .. K /\ K + 1 - (K + 1 - j) = j
      BY <1>1
    <3>. QED  BY <1>4, <3>1 DEF ToSet
  <2>3. \A b \in {c} \X {n} \X (1 .. K) : \E j \in 1 .. K : b = <<c, n, j>>
    OBVIOUS
  <2>. QED  BY <2>1, <2>2, <2>3
<1>7. [free |-> list, used |-> 0] \in SlabRecs
  BY <1>4 DEF SlabRecs
<1>. QED  BY <1>1, <1>2, <1>4, <1>5, <1>6, <1>7 DEF K, SlabOK, SlabState

LEMMA GrownKeeps ==
    ASSUME NEW c \in Classes, NEW cc \in CentralRecs, Sound(c, cc)
    PROVE  LET n == Len(cc.slabs) + 1
               cc2 == Grown(c, cc)
           IN  /\ cc2 \in CentralRecs /\ Sound(c, cc2)
               /\ n \in DOMAIN cc2.slabs /\ Len(cc2.slabs) = n /\ cc2.allocated = cc.allocated
               /\ Len(cc2.slabs[n].free) = Total(c)
               /\ FreeIn(cc2) = FreeIn(cc) \cup NewBlocks(c, cc)
               /\ FreeIn(cc) \cap NewBlocks(c, cc) = {}
               /\ OutOf(c, cc2) = OutOf(c, cc)
<1>. DEFINE n == Len(cc.slabs) + 1
            cc2 == Grown(c, cc)
            fresh == FreshSlab(c, n)
<1>1. /\ cc.slabs \in Seq(SlabRecs) /\ DOMAIN cc.slabs = 1 .. Len(cc.slabs) /\ Len(cc.slabs) \in Nat
      /\ n \in Nat /\ n \notin DOMAIN cc.slabs
  BY DEF CentralRecs
<1>2. /\ fresh \in SlabRecs /\ SlabOK(c, n, fresh) /\ ToSet(fresh.free) = NewBlocks(c, cc)
      /\ Len(fresh.free) = Total(c) /\ SlabState(c, fresh) = "Empty"
  BY <1>1, FreshSlabOK DEF NewBlocks
<1>. HIDE DEF fresh
<1>3. /\ cc2.slabs \in Seq(SlabRecs) /\ Len(cc2.slabs) = n /\ DOMAIN cc2.slabs = (DOMAIN cc.slabs) \cup {n}
      /\ cc2.slabs[n] = fresh /\ \A k \in DOMAIN cc.slabs : cc2.slabs[k] = cc.slabs[k]
      /\ cc2.partial = cc.partial /\ cc2.allocated = cc.allocated /\ cc2 \in CentralRecs
  <2>1. cc2 = [cc EXCEPT !.slabs = Append(@, fresh)]
    BY DEF Grown, fresh
  <2>2. PICK s \in Seq(SlabRecs) : s = Append(cc.slabs, fresh)
    <3>1. \A s0 \in Seq(SlabRecs), r \in SlabRecs : Append(s0, r) \in Seq(SlabRecs)
      OBVIOUS
    <3>. QED  BY <1>1, <1>2, <3>1
  <2>3. /\ Len(s) = n /\ DOMAIN s = (DOMAIN cc.slabs) \cup {n}
        /\ s[n] = fresh /\ \A k \in DOMAIN cc.slabs : s[k] = cc.slabs[k]
    BY <1>1, <1>2, <2>2
  <2>. QED  BY <2>1, <2>2, <2>3 DEF CentralRecs
<1>. HIDE DEF cc2
<1>4. {k \in DOMAIN cc2.slabs : SlabState(c, cc2.slabs[k]) = "Partial"}
         = {k \in DOMAIN cc.slabs : SlabState(c, cc.slabs[k]) = "Partial"}
  BY <1>2, <1>3
<1>5. Sound(c, cc2)
  BY <1>2, <1>3, <1>4 DEF Sound, PartialOK
<1>6. FreeIn(cc2) = FreeIn(cc) \cup NewBlocks(c, cc)
  BY <1>2, <1>3 DEF FreeIn
<1>7. FreeIn(cc) \subseteq {c} \X (DOMAIN cc.slabs) \X (1 .. Total(c))
  BY FreeBlocks
<1>8. {c} \X (DOMAIN cc2.slabs) \X (1 .. Total(c))
         = ({c} \X (DOMAIN cc.slabs) \X (1 .. Total(c))) \cup NewBlocks(c, cc)
  BY <1>3 DEF NewBlocks
<1>9. ({c} \X (DOMAIN cc.slabs) \X (1 .. Total(c))) \cap NewBlocks(c, cc) = {}
  BY <1>1 DEF NewBlocks
<1>10. OutOf(c, cc2) = OutOf(c, cc)
  BY <1>6, <1>7, <1>8, <1>9 DEF OutOf
<1>. QED  BY <1>2, <1>3, <1>5, <1>6, <1>7, <1>9, <1>10 DEF cc2

\* What was taken for a batch is out of the slabs.
LEMMA TakenIsOut ==
    ASSUME NEW c \in Classes, NEW cc, NEW acc, Sound(c, cc), cc \in CentralRecs, Taken(c, cc, acc)
    PROVE  /\ OutOf(c, acc.cc) = OutOf(c, cc) \cup ToSet(acc.out)
           /\ OutOf(c, cc) \cap ToSet(acc.out) = {}
<1>1. /\ acc.cc \in CentralRecs /\ Sound(c, acc.cc) /\ Len(acc.cc.slabs) = Len(cc.slabs)
      /\ ToSet(acc.out) \cap FreeIn(acc.cc) = {}
      /\ ToSet(acc.out) \cup FreeIn(acc.cc) = FreeIn(cc)
  BY DEF Taken, Fetching
<1>2. DOMAIN acc.cc.slabs = DOMAIN cc.slabs
  <2>1. acc.cc.slabs \in Seq(SlabRecs) /\ cc.slabs \in Seq(SlabRecs)
    BY <1>1 DEF CentralRecs
  <2>. QED  BY <1>1, <2>1
<1>3. FreeIn(cc) \subseteq {c} \X (DOMAIN cc.slabs) \X (1 .. Total(c))
  BY FreeBlocks
<1>. QED  BY <1>1, <1>2, <1>3 DEF OutOf

\* What fetchBatch gives: blocks that were free, at least one, and counted.
LEMMA FetchBatchGives ==
    ASSUME NEW c \in Classes, central[c] \in CentralRecs, Sound(c, central[c]),
           Len(central[c].slabs) <= MaxSlabs, MustGrow(c) => Len(central[c].slabs) < MaxSlabs
    PROVE  LET got == FetchBatch(c)
           IN  /\ got.cc \in CentralRecs /\ Sound(c, got.cc) /\ Len(got.cc.slabs) <= MaxSlabs
               /\ got.out \in Seq(BlockIds) /\ Distinct(got.out) /\ got.out # <<>>
               /\ Len(got.out) <= Table[c].batchSize
               /\ got.cc.allocated = central[c].allocated + Len(got.out)
               /\ OutOf(c, got.cc) = OutOf(c, central[c]) \cup ToSet(got.out)
               /\ OutOf(c, central[c]) \cap ToSet(got.out) = {}
<1>. DEFINE cc == central[c]
            acc == FromPartial(c)
            res == IF MustGrow(c) THEN WithNewSlab(c, acc) ELSE acc
            got == FetchBatch(c)
            Good == /\ res \in Fetching /\ Sound(c, res.cc) /\ Len(res.cc.slabs) <= MaxSlabs
                    /\ res.cc.allocated = cc.allocated
                    /\ Distinct(res.out) /\ Len(res.out) > 0 /\ Len(res.out) <= Table[c].batchSize
                    /\ OutOf(c, res.cc) = OutOf(c, cc) \cup ToSet(res.out)
                    /\ OutOf(c, cc) \cap ToSet(res.out) = {}
<1>1. Taken(c, cc, acc)
  BY FromPartialTakes
<1>2. /\ Table[c].batchSize \in Nat /\ Table[c].batchSize > 0 /\ Total(c) \in Nat /\ Total(c) > 0
      /\ MaxSlabs \in Nat
  BY ClassFacts
<1>3. Len(acc.out) \in Nat /\ Len(cc.slabs) \in Nat
  <2>1. acc.out \in Seq(BlockIds) /\ cc.slabs \in Seq(SlabRecs)
    BY <1>1 DEF Taken, Fetching, CentralRecs
  <2>. HIDE DEF acc, cc
  <2>. QED  BY <2>1
<1>4. ASSUME ~MustGrow(c) PROVE Good
  <2>1. res = acc /\ ~(Len(acc.out) < Table[c].batchSize)
    BY <1>4 DEF MustGrow
  <2>2. Len(acc.out) > 0
    BY <1>2, <1>3, <2>1
  <2>3. OutOf(c, acc.cc) = OutOf(c, cc) \cup ToSet(acc.out) /\ OutOf(c, cc) \cap ToSet(acc.out) = {}
    BY <1>1, TakenIsOut
  <2>4. Good
    <3>. HIDE DEF acc
    <3>. QED  BY <1>1, <2>1, <2>2, <2>3 DEF Taken
  <2>. QED  BY <2>4
<1>5. ASSUME MustGrow(c) PROVE Good
  <2>. DEFINE n == Len(acc.cc.slabs) + 1
              acc2 == [acc EXCEPT !.cc.slabs = Append(@, FreshSlab(c, n))]
              gcc == Grown(c, cc)
              acc3 == TakeFrom(c, acc2, n)
  <2>1. res = acc3
    BY <1>5 DEF WithNewSlab
  <2>2. Len(acc.out) < Table[c].batchSize
    BY <1>5 DEF MustGrow
  <2>. HIDE DEF acc, res
  <2>3. /\ acc \in Fetching /\ acc.cc \in CentralRecs /\ Sound(c, acc.cc) /\ acc.out \in Seq(BlockIds)
        /\ Len(acc.cc.slabs) = Len(cc.slabs) /\ acc.cc.allocated = cc.allocated
        /\ Distinct(acc.out) /\ Len(acc.out) <= Table[c].batchSize
        /\ ToSet(acc.out) \cap FreeIn(acc.cc) = {}
        /\ ToSet(acc.out) \cup FreeIn(acc.cc) = FreeIn(cc)
    BY <1>1 DEF Taken, Fetching
  <2>4. acc2.cc = Grown(c, acc.cc) /\ acc2.out = acc.out /\ acc2 = [cc |-> acc2.cc, out |-> acc2.out]
    <3>1. acc = [cc |-> acc.cc, out |-> acc.out]
      BY <2>3 DEF Fetching
    <3>2. acc2 = [cc |-> [acc.cc EXCEPT !.slabs = Append(@, FreshSlab(c, n))], out |-> acc.out]
      BY <3>1
    <3>. QED  BY <3>2 DEF Grown
  <2>5. /\ Grown(c, acc.cc) \in CentralRecs /\ Sound(c, Grown(c, acc.cc))
        /\ n \in DOMAIN Grown(c, acc.cc).slabs /\ Len(Grown(c, acc.cc).slabs) = n
        /\ Grown(c, acc.cc).allocated = acc.cc.allocated
        /\ Len(Grown(c, acc.cc).slabs[n].free) = Total(c)
        /\ FreeIn(Grown(c, acc.cc)) = FreeIn(acc.cc) \cup NewBlocks(c, acc.cc)
    BY <2>3, GrownKeeps
  <2>6. /\ gcc \in CentralRecs /\ Sound(c, gcc) /\ Len(gcc.slabs) = Len(cc.slabs) + 1
        /\ gcc.allocated = cc.allocated
        /\ FreeIn(gcc) = FreeIn(cc) \cup NewBlocks(c, cc) /\ FreeIn(cc) \cap NewBlocks(c, cc) = {}
        /\ OutOf(c, gcc) = OutOf(c, cc)
    BY GrownKeeps
  <2>7. NewBlocks(c, acc.cc) = NewBlocks(c, cc) /\ n = Len(cc.slabs) + 1
    BY <2>3 DEF NewBlocks
  <2>. HIDE DEF acc2, gcc, cc, n
  <2>8. ToSet(acc.out) \cap FreeIn(acc2.cc) = {} /\ ToSet(acc.out) \cup FreeIn(acc2.cc) = FreeIn(gcc)
    BY <2>3, <2>4, <2>5, <2>6, <2>7
  <2>9. Taken(c, gcc, acc2)
    <3>1. acc2 \in Fetching
      BY <2>3, <2>4, <2>5 DEF Fetching
    <3>. QED  BY <2>3, <2>4, <2>5, <2>6, <2>7, <2>8, <3>1 DEF Taken
  <2>10. /\ Taken(c, gcc, acc3)
         /\ Len(acc3.out) = Len(acc2.out) + Min({Len(acc2.cc.slabs[n].free), Table[c].batchSize - Len(acc2.out)})
    <3>1. n \in DOMAIN acc2.cc.slabs
      BY <2>4, <2>5
    <3>. QED  BY <2>9, <3>1, TakeFromKeeps
  <2>11. Len(acc3.out) > 0
    <3>1. Len(acc3.out) = Len(acc.out) + Min({Total(c), Table[c].batchSize - Len(acc.out)})
      BY <2>4, <2>5, <2>10
    <3>2. Table[c].batchSize - Len(acc.out) \in Nat /\ Table[c].batchSize - Len(acc.out) > 0
      BY <1>2, <1>3, <2>2
    <3>3. Min({Total(c), Table[c].batchSize - Len(acc.out)}) > 0
      BY <1>2, <3>2, LesserOfTwo
    <3>. HIDE DEF acc3
    <3>4. Min({Total(c), Table[c].batchSize - Len(acc.out)}) \in Nat
      BY <1>2, <3>2, LesserOfTwo
    <3>. QED  BY <1>3, <3>1, <3>3, <3>4
  <2>. HIDE DEF acc3
  <2>12. OutOf(c, acc3.cc) = OutOf(c, gcc) \cup ToSet(acc3.out) /\ OutOf(c, gcc) \cap ToSet(acc3.out) = {}
    BY <2>6, <2>10, TakenIsOut
  <2>13. Len(acc3.cc.slabs) <= MaxSlabs
    <3>1. Len(acc3.cc.slabs) = Len(cc.slabs) + 1
      BY <2>6, <2>10 DEF Taken
    <3>2. Len(cc.slabs) < MaxSlabs
      BY <1>5 DEF cc
    <3>. QED  BY <1>2, <1>3, <3>1, <3>2
  <2>14. /\ acc3 \in Fetching /\ Sound(c, acc3.cc) /\ acc3.cc.allocated = gcc.allocated
         /\ Distinct(acc3.out) /\ Len(acc3.out) <= Table[c].batchSize
    BY <2>10 DEF Taken
  <2>15. Good
    BY <2>1, <2>6, <2>11, <2>12, <2>13, <2>14
  <2>. QED  BY <2>15
<1>6. Good
  BY <1>4, <1>5
<1>7. got = [res EXCEPT !.cc.allocated = @ + Len(res.out)]
  BY DEF FetchBatch
<1>. HIDE DEF res, got
<1>8. /\ got.out = res.out /\ got.cc.slabs = res.cc.slabs /\ got.cc.partial = res.cc.partial
      /\ got.cc.allocated = res.cc.allocated + Len(res.out)
      /\ got.cc = [slabs |-> res.cc.slabs, partial |-> res.cc.partial, allocated |-> res.cc.allocated + Len(res.out)]
  <2>1. res \in Fetching
    BY <1>6
  <2>. QED  BY <1>7, <2>1 DEF Fetching, CentralRecs
<1>9. got.out \in Seq(BlockIds) /\ Len(got.out) \in Nat /\ got.cc \in CentralRecs
  BY <1>6, <1>8 DEF Fetching, CentralRecs
<1>10. Sound(c, got.cc) /\ OutOf(c, got.cc) = OutOf(c, res.cc)
  BY <1>6, <1>8 DEF Sound, PartialOK, OutOf, FreeIn
<1>11. got.out # <<>>
  <2>1. Len(got.out) > 0
    BY <1>6, <1>8
  <2>. QED  BY <2>1
<1>. HIDE DEF Good
<1>12. /\ Len(got.cc.slabs) <= MaxSlabs /\ Distinct(got.out) /\ Len(got.out) <= Table[c].batchSize
       /\ got.cc.allocated = cc.allocated + Len(got.out)
       /\ OutOf(c, got.cc) = OutOf(c, cc) \cup ToSet(got.out)
       /\ OutOf(c, cc) \cap ToSet(got.out) = {}
  BY <1>6, <1>8, <1>10 DEF Good
<1>. QED  BY <1>9, <1>10, <1>11, <1>12 DEF got

-----------------------------------------------------------------------------
(* Batches to the central cache                                            *)

Given(slab, b) == [free |-> <<b>> \o slab.free, used |-> slab.used - 1]

LEMMA GiveBackIsChange ==
    ASSUME NEW c, NEW cc, NEW b
    PROVE  GiveBack(c, cc, b) = SlabChanged(c, cc, b[2], Given(cc.slabs[b[2]], b))
BY DEF GiveBack, SlabChanged, Given

LEMMA GivenTyped ==
    ASSUME NEW slab \in SlabRecs, NEW b \in BlockIds
    PROVE  Given(slab, b) \in SlabRecs
<1>1. slab.free \in Seq(BlockIds) /\ slab.used - 1 \in Int
  BY DEF SlabRecs
<1>2. \A s \in Seq(BlockIds) : <<b>> \o s \in Seq(BlockIds)
  OBVIOUS
<1>. QED  BY <1>1, <1>2 DEF Given, SlabRecs

LEMMA TransitionTyped ==
    ASSUME NEW list \in Seq(Nat), NEW before, NEW after, NEW n \in Nat
    PROVE  Transition(list, before, after, n) \in Seq(Nat)
<1>1. Without(list, n) \in Seq(Nat)
  <2>1. PICK f : Removes(f, list, n)
    BY WithoutIsFold
  <2>2. Len(list) \in 0 .. Len(list)
    OBVIOUS
  <2>. QED  BY <2>1, <2>2 DEF Removes
<1>2. \A s \in Seq(Nat) : Append(s, n) \in Seq(Nat)
  OBVIOUS
<1>. QED  BY <1>1, <1>2 DEF Transition

\* Whatever is given back, the cache's record stays one.
LEMMA GiveBackTyped ==
    ASSUME NEW c \in Classes, NEW cc \in CentralRecs,
           NEW b \in BlockIds, b[2] \in 1 .. Len(cc.slabs)
    PROVE  GiveBack(c, cc, b) \in CentralRecs /\ Len(GiveBack(c, cc, b).slabs) = Len(cc.slabs)
<1>. DEFINE n == b[2]
            after == Given(cc.slabs[n], b)
<1>1. cc.slabs \in Seq(SlabRecs) /\ cc.partial \in Seq(Nat) /\ n \in Nat
  BY DEF CentralRecs
<1>2. n \in 1 .. Len(cc.slabs)
  OBVIOUS
<1>. HIDE DEF n
<1>3. cc.slabs[n] \in SlabRecs
  BY <1>1, <1>2
<1>4. after \in SlabRecs
  BY <1>3, GivenTyped
<1>. HIDE DEF after
<1>5. [cc.slabs EXCEPT ![n] = after] \in Seq(SlabRecs) /\ Len([cc.slabs EXCEPT ![n] = after]) = Len(cc.slabs)
  BY <1>1, <1>2, <1>4
<1>6. Transition(cc.partial, SlabState(c, cc.slabs[n]), SlabState(c, after), n) \in Seq(Nat)
  BY <1>1, TransitionTyped
<1>7. GiveBack(c, cc, b) = [slabs |-> [cc.slabs EXCEPT ![n] = after],
          partial |-> Transition(cc.partial, SlabState(c, cc.slabs[n]), SlabState(c, after), n),
          allocated |-> cc.allocated]
  BY GiveBackIsChange DEF SlabChanged, CentralRecs, n, after
<1>. QED  BY <1>5, <1>6, <1>7 DEF CentralRecs

LEMMA GiveBackKeeps ==
    ASSUME NEW c \in Classes, NEW cc \in CentralRecs, Sound(c, cc), NEW b \in OutOf(c, cc)
    PROVE  LET cc2 == GiveBack(c, cc, b)
           IN  /\ cc2 \in CentralRecs /\ Sound(c, cc2) /\ Len(cc2.slabs) = Len(cc.slabs)
               /\ cc2.allocated = cc.allocated /\ FreeIn(cc2) = FreeIn(cc) \cup {b}
<1>. DEFINE n == b[2]
            slab == cc.slabs[n]
            after == Given(slab, b)
            one == <<b>>
<1>1. b \in {c} \X (DOMAIN cc.slabs) \X (1 .. Total(c)) /\ b \notin FreeIn(cc) /\ b \in BlockIds
  BY FreeBlocks DEF OutOf
<1>2. n \in DOMAIN cc.slabs /\ b \in {c} \X {n} \X (1 .. Total(c))
  BY <1>1
<1>3. slab \in SlabRecs /\ SlabOK(c, n, slab)
  BY <1>2 DEF Sound, CentralRecs
<1>4. slab.free \in Seq(BlockIds) /\ Len(slab.free) \in Nat /\ slab.used \in Int /\ Distinct(slab.free)
  BY <1>3 DEF SlabRecs, SlabOK
<1>5. b \notin ToSet(slab.free)
  BY <1>1, <1>2 DEF FreeIn
<1>. HIDE DEF n, slab, one
<1>6. one \in Seq(BlockIds) /\ Len(one) = 1 /\ Distinct(one) /\ ToSet(one) = {b}
  BY <1>1, OneBlock DEF one
<1>7. /\ one \o slab.free \in Seq(BlockIds) /\ Len(one \o slab.free) = 1 + Len(slab.free)
      /\ Distinct(one \o slab.free) /\ ToSet(one \o slab.free) = {b} \cup ToSet(slab.free)
  <2>1. PICK r : r = slab.free
    OBVIOUS
  <2>2. r \in Seq(BlockIds) /\ Distinct(r) /\ ToSet(one) \cap ToSet(r) = {}
    BY <1>4, <1>5, <1>6, <2>1
  <2>0. one \in Seq(BlockIds) /\ Distinct(one)
    BY <1>6
  <2>3. /\ one \o r \in Seq(BlockIds) /\ Len(one \o r) = Len(one) + Len(r)
        /\ Distinct(one \o r) /\ ToSet(one \o r) = ToSet(one) \cup ToSet(r)
    BY <2>0, <2>2, Joined
  <2>. QED  BY <1>6, <2>1, <2>3
<1>8. after = [free |-> one \o slab.free, used |-> slab.used - 1]
  BY DEF Given, one
<1>. HIDE DEF after
<1>9. after \in SlabRecs
  BY <1>4, <1>7, <1>8 DEF SlabRecs
<1>10. SlabOK(c, n, after)
  <2>1. /\ after.free = one \o slab.free /\ after.used = slab.used - 1
        /\ ToSet(slab.free) \subseteq {c} \X {n} \X (1 .. Total(c))
        /\ slab.used + Len(slab.free) = Total(c)
    BY <1>3, <1>8 DEF SlabOK
  <2>2. ToSet(after.free) \subseteq {c} \X {n} \X (1 .. Total(c))
    BY <1>2, <1>7, <2>1
  <2>3. after.used + Len(after.free) = Total(c)
    BY <1>4, <1>7, <2>1
  <2>. QED  BY <1>7, <2>1, <2>2, <2>3 DEF SlabOK
<1>11. LET cc2 == SlabChanged(c, cc, n, after)
       IN  /\ cc2 \in CentralRecs /\ Sound(c, cc2) /\ Len(cc2.slabs) = Len(cc.slabs)
           /\ cc2.allocated = cc.allocated
           /\ FreeIn(cc2) = (FreeIn(cc) \ ToSet(slab.free)) \cup ToSet(after.free)
           /\ ToSet(slab.free) \subseteq FreeIn(cc)
  BY <1>2, <1>9, <1>10, SlabChange DEF slab
<1>12. GiveBack(c, cc, b) = SlabChanged(c, cc, n, after)
  BY GiveBackIsChange DEF n, slab, after
<1>. QED  BY <1>7, <1>8, <1>11, <1>12

\* The blocks of a batch, given back one after the other.
GivesBack(f, c, cc, blocks) ==
    /\ ReturnBatch(c, cc, blocks) = [Folded(f, Len(blocks)) EXCEPT !.allocated = @ - Len(blocks)]
    /\ Folded(f, 0) = cc
    /\ \A i \in 0 .. Len(blocks) - 1 : Folded(f, i + 1) = GiveBack(c, Folded(f, i), blocks[i + 1])

LEMMA ReturnIsFold ==
    ASSUME NEW c \in Classes, NEW cc \in CentralRecs, NEW blocks \in Seq(BlockIds),
           \A b \in ToSet(blocks) : b[2] \in DOMAIN cc.slabs
    PROVE  \E f : GivesBack(f, c, cc, blocks)
<1>. DEFINE T == 1 .. Len(blocks)
            N == Len(cc.slabs)
            A == {x \in CentralRecs : Len(x.slabs) = N}
            B == {b \in BlockIds : b[2] \in 1 .. N}
            op(x, b) == GiveBack(c, x, b)
            g == [y \in A \X B |-> op(y[1], y[2])]
            Eqn(f) == f = [p \in SUBSET T |-> IF p = {} THEN cc
                                              ELSE op(f[p \ {Max(p)}], blocks[Max(p)])]
            iter == CHOOSE f : Eqn(f)
<1>0. blocks \in Seq(B) /\ Len(blocks) \in Nat /\ DOMAIN blocks = T /\ \A i \in T : blocks[i] \in B
  <2>1. DOMAIN cc.slabs = 1 .. N
    BY DEF CentralRecs
  <2>2. \A i \in DOMAIN blocks : blocks[i] \in BlockIds /\ blocks[i] \in ToSet(blocks)
    BY DEF ToSet
  <2>3. \A i \in DOMAIN blocks : blocks[i] \in B
    BY <2>1, <2>2
  <2>. HIDE DEF B
  <2>. QED  BY <2>3
<1>1. ReturnBatch(c, cc, blocks) = [iter[T] EXCEPT !.allocated = @ - Len(blocks)]
  BY <1>0, Zenon DEF ReturnBatch, FoldLeft, MapThenFoldSet
<1>2. cc \in A
  OBVIOUS
<1>3. ASSUME NEW x \in A, NEW b \in B PROVE op(x, b) \in A /\ g[<<x, b>>] = op(x, b)
  <2>1. op(x, b) \in A
    BY GiveBackTyped
  <2>. HIDE DEF op
  <2>. QED  BY <2>1
<1>4. g \in [A \X B -> A]
  <2>. HIDE DEF op, A, B
  <2>. QED  BY <1>3
<1>5. \A p \in SUBSET T : p # {} => Max(p) \in T
  BY <1>0, LastInPart
<1>6. PICK h \in [SUBSET T -> A] : \A p \in SUBSET T : FoldStep(cc, g, blocks, h, p)
  <2>. HIDE DEF A, B, g
  <2>. QED  BY <1>0, <1>2, <1>4, FoldExists
<1>. HIDE DEF g, op, A, B
<1>7. Eqn(h)
  <2>1. ASSUME NEW p \in SUBSET T
        PROVE  h[p] = IF p = {} THEN cc ELSE op(h[p \ {Max(p)}], blocks[Max(p)])
    <3>1. h[p \ {Max(p)}] \in A
      OBVIOUS
    <3>2. p # {} => blocks[Max(p)] \in B
      BY <1>0, <1>5
    <3>. QED  BY <1>3, <1>6, <3>1, <3>2 DEF FoldStep
  <2>. QED  BY <2>1
<1>8. Eqn(iter)
  BY <1>7
<1>. HIDE DEF iter
<1>9. FoldsBy(A, B, g, cc, blocks, iter)
  <2>1. ASSUME NEW p \in SUBSET T, p # {}, iter[p \ {Max(p)}] \in A
        PROVE  iter[p] = g[<<iter[p \ {Max(p)}], blocks[Max(p)]>>]
    <3>1. iter[p] = op(iter[p \ {Max(p)}], blocks[Max(p)])
      BY <1>8, <2>1
    <3>2. blocks[Max(p)] \in B
      BY <1>0, <1>5, <2>1
    <3>. QED  BY <1>3, <2>1, <3>1, <3>2
  <2>2. iter[{}] = cc
    BY <1>8
  <2>. QED  BY <1>0, <1>2, <1>4, <2>1, <2>2 DEF FoldsBy
<1>10. /\ Folded(iter, 0) = cc /\ \A i \in 0 .. Len(blocks) : Folded(iter, i) \in A
       /\ \A i \in 0 .. Len(blocks) - 1 : Folded(iter, i + 1) = g[<<Folded(iter, i), blocks[i + 1]>>]
  BY <1>9, FoldChain
<1>11. ASSUME NEW i \in 0 .. Len(blocks) - 1
       PROVE  Folded(iter, i + 1) = op(Folded(iter, i), blocks[i + 1])
  <2>1. i + 1 \in T /\ i \in 0 .. Len(blocks)
    BY <1>0
  <2>. QED  BY <1>0, <1>3, <1>10, <2>1
<1>12. GivesBack(iter, c, cc, blocks)
  BY <1>1, <1>10, <1>11 DEF GivesBack, Folded, op
<1>. QED  BY <1>12

\* What returnBatch does: the blocks are free again, and counted off.
LEMMA ReturnBatchTakes ==
    ASSUME NEW c \in Classes, NEW cc \in CentralRecs, Sound(c, cc), NEW blocks \in Seq(BlockIds),
           Distinct(blocks), ToSet(blocks) \subseteq OutOf(c, cc)
    PROVE  LET cc2 == ReturnBatch(c, cc, blocks)
           IN  /\ cc2 \in CentralRecs /\ Sound(c, cc2) /\ Len(cc2.slabs) = Len(cc.slabs)
               /\ cc2.allocated = cc.allocated - Len(blocks)
               /\ OutOf(c, cc2) = OutOf(c, cc) \ ToSet(blocks)
<1>. DEFINE K == Len(blocks)
            Before(i) == {blocks[j] : j \in 1 .. i}
            After(x, i) == /\ x \in CentralRecs /\ Sound(c, x) /\ Len(x.slabs) = Len(cc.slabs)
                           /\ x.allocated = cc.allocated /\ FreeIn(x) = FreeIn(cc) \cup Before(i)
<1>1. /\ K \in Nat /\ DOMAIN blocks = 1 .. K /\ \A i \in 1 .. K : blocks[i] \in ToSet(blocks)
      /\ ToSet(blocks) = Before(K)
  BY DEF ToSet
<1>2. \A b \in OutOf(c, cc) : b[2] \in DOMAIN cc.slabs
  BY DEF OutOf
<1>3. PICK f : GivesBack(f, c, cc, blocks)
  BY <1>2, ReturnIsFold
<1>. DEFINE S == {i \in Nat : i <= K => After(Folded(f, i), i)}
<1>4. Before(0) = {}
  OBVIOUS
<1>5. ASSUME NEW i \in Nat, i + 1 <= K
      PROVE  /\ Before(i + 1) = Before(i) \cup {blocks[i + 1]} /\ blocks[i + 1] \notin Before(i)
             /\ blocks[i + 1] \in OutOf(c, cc) /\ i \in 0 .. K - 1 /\ i <= K
  <2>1. 1 .. i + 1 = (1 .. i) \cup {i + 1} /\ i + 1 \in 1 .. K /\ i \in 0 .. K - 1 /\ i <= K
    BY <1>1, <1>5
  <2>2. Before(i + 1) = Before(i) \cup {blocks[i + 1]}
    BY <2>1
  <2>3. blocks[i + 1] \notin Before(i)
    <3>. SUFFICES ASSUME NEW j \in 1 .. i, blocks[i + 1] = blocks[j] PROVE FALSE
      OBVIOUS
    <3>1. j \in DOMAIN blocks /\ i + 1 \in DOMAIN blocks /\ j # i + 1
      BY <1>1, <2>1
    <3>. QED  BY <3>1 DEF Distinct
  <2>4. blocks[i + 1] \in OutOf(c, cc)
    BY <1>1, <2>1
  <2>. QED  BY <2>1, <2>2, <2>3, <2>4
<1>6. DOMAIN cc.slabs = 1 .. Len(cc.slabs) /\ cc.slabs \in Seq(SlabRecs)
  BY DEF CentralRecs
<1>7. ASSUME NEW x \in CentralRecs, Len(x.slabs) = Len(cc.slabs) PROVE DOMAIN x.slabs = DOMAIN cc.slabs
  BY <1>7 DEF CentralRecs
<1>. HIDE DEF K, Before
<1>8. 0 \in S
  BY <1>3, <1>4 DEF GivesBack
<1>9. ASSUME NEW i \in Nat, i \in S PROVE i + 1 \in S
  <2>. SUFFICES ASSUME i + 1 <= K PROVE After(Folded(f, i + 1), i + 1)
    OBVIOUS
  <2>. DEFINE x == Folded(f, i)
              b == blocks[i + 1]
  <2>1. After(x, i)
    BY <1>5, <1>9
  <2>2. Folded(f, i + 1) = GiveBack(c, x, b)
    BY <1>3, <1>5 DEF GivesBack, K
  <2>. HIDE DEF x, b
  <2>3. b \in OutOf(c, x)
    <3>1. DOMAIN x.slabs = DOMAIN cc.slabs
      BY <1>7, <2>1
    <3>2. b \in OutOf(c, cc) /\ b \notin Before(i)
      BY <1>5 DEF b
    <3>. QED  BY <2>1, <3>1, <3>2 DEF OutOf
  <2>4. LET y == GiveBack(c, x, b)
        IN  /\ y \in CentralRecs /\ Sound(c, y) /\ Len(y.slabs) = Len(x.slabs)
            /\ y.allocated = x.allocated /\ FreeIn(y) = FreeIn(x) \cup {b}
    BY <2>1, <2>3, GiveBackKeeps
  <2>5. Before(i + 1) = Before(i) \cup {b}
    BY <1>5 DEF b
  <2>. QED  BY <2>1, <2>2, <2>4, <2>5
<1>10. S = Nat
  <2>1. S \in SUBSET Nat
    OBVIOUS
  <2>. HIDE DEF S
  <2>. QED  BY <1>8, <1>9, <2>1, SetInduction
<1>. DEFINE x == Folded(f, K)
            cc2 == ReturnBatch(c, cc, blocks)
<1>11. After(x, K)
  <2>1. K \in S /\ K <= K
    BY <1>1, <1>10
  <2>. QED  BY <2>1
<1>12. cc2 = [x EXCEPT !.allocated = @ - K]
  BY <1>3 DEF GivesBack, K
<1>. HIDE DEF x, cc2
<1>13. cc2 \in CentralRecs /\ cc2.slabs = x.slabs /\ cc2.partial = x.partial /\ cc2.allocated = cc.allocated - K
  <2>1. /\ x.slabs \in Seq(SlabRecs) /\ x.partial \in Seq(Nat) /\ x.allocated \in Int
        /\ x.allocated = cc.allocated
        /\ x = [slabs |-> x.slabs, partial |-> x.partial, allocated |-> x.allocated]
    BY <1>11 DEF CentralRecs
  <2>2. cc2 = [slabs |-> x.slabs, partial |-> x.partial, allocated |-> x.allocated - K]
    BY <1>12, <2>1
  <2>3. x.allocated - K \in Int
    BY <1>1, <2>1
  <2>. QED  BY <2>1, <2>2, <2>3 DEF CentralRecs
<1>14. Sound(c, cc2) /\ FreeIn(cc2) = FreeIn(x)
  BY <1>11, <1>13 DEF Sound, PartialOK, FreeIn
<1>15. OutOf(c, cc2) = OutOf(c, cc) \ ToSet(blocks)
  <2>1. DOMAIN cc2.slabs = DOMAIN cc.slabs
    BY <1>7, <1>11, <1>13
  <2>2. FreeIn(cc2) = FreeIn(cc) \cup ToSet(blocks)
    BY <1>1, <1>11, <1>14
  <2>. QED  BY <2>1, <2>2 DEF OutOf
<1>. QED  BY <1>11, <1>13, <1>14, <1>15 DEF cc2, K

-----------------------------------------------------------------------------
(* Who owns the blocks                                                     *)

MessageRecs == [mode : {"Empty", "Inline", "Pool"}, size : Nat, ptr : BlockIds \cup {NoBlock, LargePtr}]

PoolTyped(ce, ca, me) ==
    /\ ce \in [Classes -> CentralRecs] /\ me \in [Messages -> MessageRecs]
    /\ ca \in [Threads -> [Classes -> Seq(BlockIds)]]

CentralsSound(ce) == \A c \in Classes : Sound(c, ce[c]) /\ Len(ce[c].slabs) <= MaxSlabs

\* The blocks of a thread's caches are out of their slabs and in no other thread's caches
\* and not in hand.
CachesOwn(ce, ca, hand) ==
    \A t \in Threads, c \in Classes :
        /\ Distinct(ca[t][c]) /\ Len(ca[t][c]) <= Table[c].batchSize
        /\ ToSet(ca[t][c]) \subseteq OutOf(c, ce[c]) /\ ToSet(ca[t][c]) \cap hand = {}
        /\ \A u \in Threads \ {t} : ToSet(ca[t][c]) \cap ToSet(ca[u][c]) = {}

\* A message's block is of the class that its size asks for, and nobody else's.
MessagesOwn(ce, ca, me, hand) ==
    \A m \in Messages :
        /\ me[m].mode # "Pool" => me[m].ptr = NoBlock
        /\ me[m].ptr \in BlockIds =>
              /\ InPool(me[m].size) /\ me[m].ptr \notin hand
              /\ me[m].ptr \in OutOf(Index(me[m].size), ce[Index(me[m].size)])
              /\ \A t \in Threads : me[m].ptr \notin ToSet(ca[t][Index(me[m].size)])
              /\ \A n \in Messages \ {m} : me[n].ptr # me[m].ptr

\* What is out of the slabs is somebody's, and counted.
AllOwned(ce, ca, me, hand) ==
    \A c \in Classes :
        /\ ce[c].allocated = Cardinality(OutOf(c, ce[c]))
        /\ \A b \in OutOf(c, ce[c]) : \/ b \in hand
                                      \/ \E t \in Threads : b \in ToSet(ca[t][c])
                                      \/ \E m \in Messages : me[m].ptr = b

\* The blocks in hand are those that a call has taken from one owner and not yet
\* given to the next.
Own(ce, ca, me, hand, st) ==
    /\ PoolTyped(ce, ca, me) /\ CentralsSound(ce)
    /\ CachesOwn(ce, ca, hand) /\ MessagesOwn(ce, ca, me, hand)
    /\ hand \subseteq UNION {OutOf(c, ce[c]) : c \in Classes}
    /\ ~st => AllOwned(ce, ca, me, hand)

PoolInv == Own(central, cache, message, {}, starved)

LEMMA NotBlocks == NoBlock \notin BlockIds /\ LargePtr \notin BlockIds
<1>1. \A b \in BlockIds : b = <<b[1], b[2], b[3]>>
  BY DEF BlockIds
<1>2. \A b \in BlockIds : DOMAIN b = 1 .. 3
  BY <1>1
<1>3. DOMAIN NoBlock = {} /\ DOMAIN LargePtr = 1 .. 1
  BY DEF NoBlock, LargePtr
<1>4. 2 \in 1 .. 3 /\ 2 \notin 1 .. 1 /\ 1 .. 3 # {}
  OBVIOUS
<1>. QED  BY <1>2, <1>3, <1>4

LEMMA EmptyTyped == Empty \in MessageRecs /\ Empty.ptr = NoBlock /\ Empty.mode # "Pool"
BY DEF Empty, MessageRecs

\* What fits into the pool has a class, and one large enough.
LEMMA IndexIsClass ==
    ASSUME NEW size \in Nat, InPool(size)
    PROVE  Index(size) \in Classes
<1>. DEFINE S == {c \in Classes : size <= Table[c].blockSize}
<1>1. Len(Table) \in Nat \ {0} /\ Classes = 1 .. Len(Table) /\ \A c \in Classes : Table[c].blockSize \in Nat
  <2>1. Table \in Seq([blockSize : Nat \ {0}, batchSize : Nat]) /\ Table # <<>>
    BY PoolAssumption
  <2>2. Len(Table) \in Nat /\ Len(Table) # 0 /\ \A c \in 1 .. Len(Table) : Table[c] \in [blockSize : Nat \ {0}, batchSize : Nat]
    <3>1. PICK B : B = [blockSize : Nat \ {0}, batchSize : Nat]
      OBVIOUS
    <3>2. Table \in Seq(B) /\ Table # <<>>
      BY <2>1, <3>1
    <3>3. Len(Table) \in Nat /\ Len(Table) # 0 /\ \A c \in 1 .. Len(Table) : Table[c] \in B
      BY <3>2
    <3>. QED  BY <3>1, <3>3
  <2>. QED  BY <2>2 DEF Classes
<1>2. Len(Table) \in S
  <2>1. MaxAllocSize \in 0 .. Table[Len(Table)].blockSize
    BY PoolAssumption
  <2>. QED  BY <1>1, <2>1 DEF InPool
<1>3. S \in SUBSET Nat /\ S # {}
  BY <1>1, <1>2
<1>4. Min(S) \in S /\ \A y \in S : Min(S) <= y
  <2>. HIDE DEF S
  <2>. QED  BY <1>3, LeastIsMin
<1>5. PICK c \in Classes : size <= Table[c].blockSize /\ \A y \in S : c <= y
  BY <1>4
<1>6. \A d \in 1 .. c - 1 : size > Table[d].blockSize
  <2>1. \A d \in 1 .. c - 1 : d \in Classes /\ ~(c <= d)
    BY <1>1
  <2>. QED  BY <1>1, <1>5, <2>1
<1>. HIDE DEF S
<1>. QED  BY <1>5, <1>6 DEF Index

LEMMA OutBlocks ==
    ASSUME NEW c \in Classes, NEW cc \in CentralRecs, Sound(c, cc)
    PROVE  /\ OutOf(c, cc) \subseteq BlockIds /\ \A b \in OutOf(c, cc) : b[1] = c
           /\ IsFiniteSet(OutOf(c, cc)) /\ Cardinality(OutOf(c, cc)) \in Nat
<1>1. OutOf(c, cc) \subseteq BlockIds
  BY FreeBlocks
<1>2. \A b \in OutOf(c, cc) : b[1] = c
  BY DEF OutOf
<1>3. IsFiniteSet({c} \X (DOMAIN cc.slabs) \X (1 .. Total(c)))
  <2>1. IsFiniteSet({c}) /\ IsFiniteSet(1 .. Total(c)) /\ IsFiniteSet(DOMAIN cc.slabs)
    <3>1. DOMAIN cc.slabs = 1 .. Len(cc.slabs) /\ Len(cc.slabs) \in Nat /\ Total(c) \in Nat
      BY ClassFacts DEF CentralRecs
    <3>2. \A k \in Nat : IsFiniteSet(1 .. k)
      BY FS_Interval
    <3>3. IsFiniteSet({c})
      BY FS_Singleton
    <3>. QED  BY <3>1, <3>2, <3>3
  <2>. DEFINE D == DOMAIN cc.slabs
              E == 1 .. Total(c)
              X == D \X E
              h == [x \in {c} \X X |-> <<x[1], x[2][1], x[2][2]>>]
  <2>2. IsFiniteSet(X)
    BY <2>1, FS_Product
  <2>. HIDE DEF X
  <2>3. IsFiniteSet({c} \X X)
    BY <2>1, <2>2, FS_Product
  <2>. USE DEF X
  <2>. HIDE DEF D, E
  <2>4. {c} \X D \X E = {<<x[1], x[2][1], x[2][2]>> : x \in {c} \X X}
    <3>1. ASSUME NEW b \in {c} \X D \X E PROVE b \in {<<x[1], x[2][1], x[2][2]>> : x \in {c} \X X}
      <4>1. <<b[1], <<b[2], b[3]>>>> \in {c} \X X /\ b = <<b[1], b[2], b[3]>>
        BY <3>1
      <4>. QED  BY <4>1
    <3>2. ASSUME NEW x \in {c} \X X PROVE <<x[1], x[2][1], x[2][2]>> \in {c} \X D \X E
      OBVIOUS
    <3>. QED  BY <3>1, <3>2
  <2>5. IsFiniteSet({<<x[1], x[2][1], x[2][2]>> : x \in {c} \X X})
    <3>. DEFINE Y == {c} \X X
                Z == {<<x[1], x[2][1], x[2][2]>> : x \in Y}
    <3>1. h \in Surjection(Y, Z)
      BY DEF Surjection
    <3>. HIDE DEF h, Y, Z
    <3>2. IsFiniteSet(Z)
      BY <2>3, <3>1, FS_Surjection DEF Y
    <3>. QED  BY <3>2 DEF Z, Y
  <2>. QED  BY <2>4, <2>5 DEF D, E
<1>4. IsFiniteSet(OutOf(c, cc))
  <2>1. OutOf(c, cc) \subseteq {c} \X (DOMAIN cc.slabs) \X (1 .. Total(c))
    BY DEF OutOf
  <2>. QED  BY <1>3, <2>1, FS_Subset
<1>. QED  BY <1>1, <1>2, <1>4, FS_CardinalityType

\* A class's central cache changes: what was in hand may go to it, and what comes from it
\* is in hand.
Passed(c, cc, hand, st, cc2, hand2, st2) ==
    /\ hand \subseteq OutOf(c, cc) /\ hand2 \subseteq OutOf(c, cc2)
    /\ OutOf(c, cc) \ hand \subseteq OutOf(c, cc2) /\ hand2 \cap (OutOf(c, cc) \ hand) = {}
    /\ ~st2 => /\ ~st /\ OutOf(c, cc2) = (OutOf(c, cc) \ hand) \cup hand2
               /\ cc2.allocated = Cardinality(OutOf(c, cc2))

LEMMA Recentred ==
    ASSUME NEW ce, NEW ca, NEW me, NEW hand, NEW st, Own(ce, ca, me, hand, st),
           NEW c \in Classes, NEW cc2 \in CentralRecs, Sound(c, cc2), Len(cc2.slabs) <= MaxSlabs,
           NEW hand2, NEW st2, Passed(c, ce[c], hand, st, cc2, hand2, st2)
    PROVE  Own([ce EXCEPT ![c] = cc2], ca, me, hand2, st2)
<1>. DEFINE ce2 == [ce EXCEPT ![c] = cc2]
<1>1. /\ PoolTyped(ce, ca, me) /\ CentralsSound(ce) /\ CachesOwn(ce, ca, hand)
      /\ MessagesOwn(ce, ca, me, hand)
      /\ ~st => AllOwned(ce, ca, me, hand)
  BY DEF Own
<1>. USE DEF Passed
<1>2. /\ ce2 \in [Classes -> CentralRecs] /\ ce2[c] = cc2
      /\ \A d \in Classes : d # c => ce2[d] = ce[d]
      /\ \A d \in Classes : ce[d] \in CentralRecs
  BY <1>1 DEF PoolTyped
<1>. HIDE DEF ce2
<1>3. PoolTyped(ce2, ca, me)
  BY <1>1, <1>2 DEF PoolTyped
<1>4. CentralsSound(ce2)
  BY <1>1, <1>2 DEF CentralsSound
<1>5. \A d \in Classes : \A b \in OutOf(d, ce[d]) : b[1] = d
  BY <1>1, <1>2, OutBlocks DEF CentralsSound
<1>6. \A b \in OutOf(c, cc2) : b[1] = c
  BY OutBlocks
<1>7. ASSUME NEW d \in Classes, NEW b \in OutOf(d, ce[d]), b \notin hand
      PROVE  b \in OutOf(d, ce2[d]) /\ b \notin hand2
  <2>1. CASE d = c
    BY <1>2, <1>7, <2>1
  <2>2. CASE d # c
    BY <1>2, <1>5, <1>6, <2>2
  <2>. QED  BY <2>1, <2>2
<1>8. CachesOwn(ce2, ca, hand2)
  <2>1. ASSUME NEW t \in Threads, NEW d \in Classes
        PROVE  ToSet(ca[t][d]) \subseteq OutOf(d, ce2[d]) /\ ToSet(ca[t][d]) \cap hand2 = {}
    <3>1. ToSet(ca[t][d]) \subseteq OutOf(d, ce[d]) /\ ToSet(ca[t][d]) \cap hand = {}
      BY <1>1 DEF CachesOwn
    <3>. QED  BY <1>7, <3>1
  <2>. QED  BY <1>1, <2>1 DEF CachesOwn
<1>9. MessagesOwn(ce2, ca, me, hand2)
  <2>1. ASSUME NEW m \in Messages, me[m].ptr \in BlockIds
        PROVE  me[m].ptr \notin hand2 /\ me[m].ptr \in OutOf(Index(me[m].size), ce2[Index(me[m].size)])
    <3>1. /\ InPool(me[m].size) /\ me[m].ptr \notin hand
          /\ me[m].ptr \in OutOf(Index(me[m].size), ce[Index(me[m].size)])
      BY <1>1, <2>1 DEF MessagesOwn
    <3>2. Index(me[m].size) \in Classes
      BY <1>1, <3>1, IndexIsClass DEF PoolTyped, MessageRecs
    <3>. QED  BY <1>7, <3>1, <3>2
  <2>. QED  BY <1>1, <2>1 DEF MessagesOwn
<1>10. hand2 \subseteq UNION {OutOf(d, ce2[d]) : d \in Classes}
  BY <1>2
<1>11. ASSUME ~st2 PROVE AllOwned(ce2, ca, me, hand2)
  <2>1. AllOwned(ce, ca, me, hand)
    BY <1>1, <1>11
  <2>2. ASSUME NEW d \in Classes PROVE ce2[d].allocated = Cardinality(OutOf(d, ce2[d]))
    BY <1>2, <1>11, <2>1 DEF AllOwned
  <2>3. ASSUME NEW d \in Classes, NEW b \in OutOf(d, ce2[d])
        PROVE  b \in hand2 \/ (\E t \in Threads : b \in ToSet(ca[t][d])) \/ \E m \in Messages : me[m].ptr = b
    <3>1. CASE d = c
      <4>1. CASE b \in hand2
        BY <4>1
      <4>2. CASE b \notin hand2
        <5>1. b \in OutOf(c, ce[c]) /\ b \notin hand
          BY <1>2, <1>11, <3>1, <4>2
        <5>. QED  BY <2>1, <3>1, <5>1 DEF AllOwned
      <4>. QED  BY <4>1, <4>2
    <3>2. CASE d # c
      <4>1. b \in OutOf(d, ce[d]) /\ b \notin hand
        BY <1>2, <1>5, <3>2
      <4>. QED  BY <2>1, <4>1 DEF AllOwned
    <3>. QED  BY <3>1, <3>2
  <2>. QED  BY <2>2, <2>3 DEF AllOwned
<1>. QED  BY <1>3, <1>4, <1>8, <1>9, <1>10, <1>11 DEF Own, ce2

\* Blocks pass between a thread's cache and the hand.
LEMMA Recached ==
    ASSUME NEW ce, NEW ca, NEW me, NEW hand, NEW st, Own(ce, ca, me, hand, st),
           NEW t \in Threads, NEW c \in Classes,
           NEW v \in Seq(BlockIds), Distinct(v), Len(v) <= Table[c].batchSize,
           NEW hand2, hand \subseteq OutOf(c, ce[c]),
           ToSet(v) \cup hand2 = ToSet(ca[t][c]) \cup hand, ToSet(v) \cap hand2 = {}
    PROVE  Own(ce, [ca EXCEPT ![t][c] = v], me, hand2, st) /\ hand2 \subseteq OutOf(c, ce[c])
<1>. DEFINE ca2 == [ca EXCEPT ![t][c] = v]
<1>1. /\ PoolTyped(ce, ca, me) /\ CentralsSound(ce) /\ CachesOwn(ce, ca, hand)
      /\ MessagesOwn(ce, ca, me, hand) /\ hand \subseteq UNION {OutOf(d, ce[d]) : d \in Classes}
      /\ ~st => AllOwned(ce, ca, me, hand)
  BY DEF Own
<1>2. /\ ca2 \in [Threads -> [Classes -> Seq(BlockIds)]] /\ ca2[t][c] = v
      /\ \A u \in Threads, d \in Classes : u # t \/ d # c => ca2[u][d] = ca[u][d]
  BY <1>1 DEF PoolTyped
<1>. HIDE DEF ca2
<1>3. PoolTyped(ce, ca2, me)
  BY <1>1, <1>2 DEF PoolTyped
<1>4. \A d \in Classes : \A b \in OutOf(d, ce[d]) : b[1] = d
  BY <1>1, OutBlocks DEF CentralsSound, PoolTyped
<1>5. /\ \A u \in Threads, d \in Classes :
           ToSet(ca[u][d]) \subseteq OutOf(d, ce[d]) /\ ToSet(ca[u][d]) \cap hand = {}
      /\ \A u \in Threads \ {t} : ToSet(ca[t][c]) \cap ToSet(ca[u][c]) = {}
  BY <1>1 DEF CachesOwn
<1>6. ToSet(v) \subseteq OutOf(c, ce[c]) /\ hand2 \subseteq OutOf(c, ce[c])
  BY <1>5
<1>7. ASSUME NEW u \in Threads, NEW d \in Classes, u # t \/ d # c
      PROVE  ToSet(ca[u][d]) \cap hand2 = {} /\ (d = c => ToSet(ca[u][d]) \cap ToSet(v) = {})
  <2>1. CASE d = c
    <3>1. ToSet(ca[u][c]) \cap ToSet(ca[t][c]) = {} /\ ToSet(ca[u][c]) \cap hand = {}
      BY <1>1, <1>7, <2>1 DEF CachesOwn
    <3>. QED  BY <2>1, <3>1
  <2>2. CASE d # c
    BY <1>4, <1>5, <1>6, <2>2
  <2>. QED  BY <2>1, <2>2
<1>8. CachesOwn(ce, ca2, hand2)
  <2>. SUFFICES ASSUME NEW u \in Threads, NEW d \in Classes
                PROVE  /\ Distinct(ca2[u][d]) /\ Len(ca2[u][d]) <= Table[d].batchSize
                       /\ ToSet(ca2[u][d]) \subseteq OutOf(d, ce[d]) /\ ToSet(ca2[u][d]) \cap hand2 = {}
                       /\ \A w \in Threads \ {u} : ToSet(ca2[u][d]) \cap ToSet(ca2[w][d]) = {}
    BY DEF CachesOwn
  <2>1. CASE u = t /\ d = c
    <3>1. \A w \in Threads \ {t} : ToSet(v) \cap ToSet(ca[w][c]) = {} /\ ca2[w][c] = ca[w][c]
      BY <1>2, <1>7
    <3>. QED  BY <1>2, <1>6, <2>1, <3>1
  <2>2. CASE u # t \/ d # c
    <3>1. ca2[u][d] = ca[u][d]
      BY <1>2, <2>2
    <3>2. /\ Distinct(ca[u][d]) /\ Len(ca[u][d]) <= Table[d].batchSize
          /\ \A w \in Threads \ {u} : ToSet(ca[u][d]) \cap ToSet(ca[w][d]) = {}
      BY <1>1 DEF CachesOwn
    <3>3. \A w \in Threads \ {u} : ToSet(ca[u][d]) \cap ToSet(ca2[w][d]) = {}
      BY <1>2, <1>7, <2>2, <3>2
    <3>. QED  BY <1>5, <1>7, <2>2, <3>1, <3>2, <3>3
  <2>. QED  BY <2>1, <2>2
<1>9. MessagesOwn(ce, ca2, me, hand2)
  <2>1. ASSUME NEW m \in Messages, me[m].ptr \in BlockIds
        PROVE  /\ me[m].ptr \notin hand2
               /\ \A u \in Threads : me[m].ptr \notin ToSet(ca2[u][Index(me[m].size)])
    <3>. DEFINE d == Index(me[m].size)
                b == me[m].ptr
    <3>1. /\ InPool(me[m].size) /\ b \notin hand /\ b \in OutOf(d, ce[d])
          /\ \A u \in Threads : b \notin ToSet(ca[u][d])
      BY <1>1, <2>1 DEF MessagesOwn
    <3>2. d \in Classes
      BY <1>1, <3>1, IndexIsClass DEF PoolTyped, MessageRecs
    <3>. HIDE DEF d, b
    <3>3. b \notin hand2 /\ (d = c => b \notin ToSet(v))
      <4>1. CASE d = c
        BY <3>1, <4>1
      <4>2. CASE d # c
        BY <1>4, <1>6, <3>1, <3>2, <4>2
      <4>. QED  BY <4>1, <4>2
    <3>4. \A u \in Threads : b \notin ToSet(ca2[u][d])
      BY <1>2, <3>1, <3>2, <3>3
    <3>. QED  BY <3>3, <3>4 DEF b, d
  <2>. QED  BY <1>1, <2>1 DEF MessagesOwn
<1>10. hand2 \subseteq UNION {OutOf(d, ce[d]) : d \in Classes}
  BY <1>6
<1>11. ASSUME ~st PROVE AllOwned(ce, ca2, me, hand2)
  <2>1. AllOwned(ce, ca, me, hand)
    BY <1>1, <1>11
  <2>2. ASSUME NEW d \in Classes, NEW b \in OutOf(d, ce[d])
        PROVE  b \in hand2 \/ (\E u \in Threads : b \in ToSet(ca2[u][d])) \/ \E m \in Messages : me[m].ptr = b
    <3>1. b \in hand \/ (\E u \in Threads : b \in ToSet(ca[u][d])) \/ \E m \in Messages : me[m].ptr = b
      BY <2>1 DEF AllOwned
    <3>2. CASE b \in hand
      <4>1. d = c
        BY <1>4, <3>2
      <4>2. b \in ToSet(v) \/ b \in hand2
        BY <3>2
      <4>. QED  BY <1>2, <4>1, <4>2
    <3>3. ASSUME NEW u \in Threads, b \in ToSet(ca[u][d])
          PROVE  b \in hand2 \/ \E w \in Threads : b \in ToSet(ca2[w][d])
      <4>1. CASE u = t /\ d = c
        BY <1>2, <3>3, <4>1
      <4>2. CASE u # t \/ d # c
        BY <1>2, <3>3, <4>2
      <4>. QED  BY <4>1, <4>2
    <3>. QED  BY <3>1, <3>2, <3>3
  <2>. QED  BY <2>1, <2>2 DEF AllOwned
<1>. QED  BY <1>1, <1>3, <1>6, <1>8, <1>9, <1>10, <1>11 DEF Own, ca2

\* A message gets the block in hand.
LEMMA PutBlock ==
    ASSUME NEW ce, NEW ca, NEW me, NEW b, NEW st, Own(ce, ca, me, {b}, st),
           NEW m \in Messages, me[m].ptr \notin BlockIds,
           NEW r \in MessageRecs, r.mode = "Pool", r.ptr = b, InPool(r.size),
           b \in OutOf(Index(r.size), ce[Index(r.size)])
    PROVE  Own(ce, ca, [me EXCEPT ![m] = r], {}, st)
<1>. DEFINE me2 == [me EXCEPT ![m] = r]
            c == Index(r.size)
<1>1. /\ PoolTyped(ce, ca, me) /\ CentralsSound(ce) /\ CachesOwn(ce, ca, {b})
      /\ MessagesOwn(ce, ca, me, {b}) /\ (~st => AllOwned(ce, ca, me, {b}))
  BY DEF Own
<1>2. /\ me2 \in [Messages -> MessageRecs] /\ me2[m] = r
      /\ \A n \in Messages : n # m => me2[n] = me[n]
  BY <1>1 DEF PoolTyped
<1>3. c \in Classes
  BY IndexIsClass DEF MessageRecs
<1>. HIDE DEF me2, c
<1>4. PoolTyped(ce, ca, me2)
  BY <1>1, <1>2 DEF PoolTyped
<1>5. CachesOwn(ce, ca, {})
  BY <1>1 DEF CachesOwn
<1>6. \A t \in Threads : b \notin ToSet(ca[t][c])
  BY <1>1, <1>3 DEF CachesOwn
<1>7. b \in BlockIds /\ \A n \in Messages : me[n].ptr # b
  <2>1. b \in BlockIds
    <3>1. ce[c] \in CentralRecs /\ Sound(c, ce[c]) /\ b \in OutOf(c, ce[c])
      BY <1>1, <1>3 DEF PoolTyped, CentralsSound, c
    <3>. QED  BY <1>3, <3>1, OutBlocks
  <2>. QED  BY <1>1, <2>1 DEF MessagesOwn
<1>8. MessagesOwn(ce, ca, me2, {})
  <2>. SUFFICES ASSUME NEW n \in Messages
                PROVE  /\ me2[n].mode # "Pool" => me2[n].ptr = NoBlock
                       /\ me2[n].ptr \in BlockIds =>
                             /\ InPool(me2[n].size)
                             /\ me2[n].ptr \in OutOf(Index(me2[n].size), ce[Index(me2[n].size)])
                             /\ \A t \in Threads : me2[n].ptr \notin ToSet(ca[t][Index(me2[n].size)])
                             /\ \A k \in Messages \ {n} : me2[k].ptr # me2[n].ptr
    BY DEF MessagesOwn
  <2>1. CASE n = m
    <3>1. \A k \in Messages \ {m} : me2[k].ptr # b
      BY <1>2, <1>7
    <3>. QED  BY <1>2, <1>6, <2>1, <3>1 DEF c
  <2>2. CASE n # m
    <3>1. me2[n] = me[n]
      BY <1>2, <2>2
    <3>2. /\ me[n].mode # "Pool" => me[n].ptr = NoBlock
          /\ me[n].ptr \in BlockIds =>
                /\ InPool(me[n].size)
                /\ me[n].ptr \in OutOf(Index(me[n].size), ce[Index(me[n].size)])
                /\ \A t \in Threads : me[n].ptr \notin ToSet(ca[t][Index(me[n].size)])
                /\ \A k \in Messages \ {n} : me[k].ptr # me[n].ptr
      BY <1>1 DEF MessagesOwn
    <3>3. me[n].ptr \in BlockIds => \A k \in Messages \ {n} : me2[k].ptr # me[n].ptr
      BY <1>2, <1>7, <3>2
    <3>. QED  BY <3>1, <3>2, <3>3
  <2>. QED  BY <2>1, <2>2
<1>9. ASSUME ~st PROVE AllOwned(ce, ca, me2, {})
  <2>1. AllOwned(ce, ca, me, {b})
    BY <1>1, <1>9
  <2>2. ASSUME NEW d \in Classes, NEW a \in OutOf(d, ce[d])
        PROVE  (\E u \in Threads : a \in ToSet(ca[u][d])) \/ \E n \in Messages : me2[n].ptr = a
    <3>1. a = b \/ (\E u \in Threads : a \in ToSet(ca[u][d])) \/ \E n \in Messages : me[n].ptr = a
      BY <2>1 DEF AllOwned
    <3>2. CASE a = b
      BY <1>2, <3>2
    <3>3. ASSUME NEW n \in Messages, me[n].ptr = a PROVE me2[n].ptr = a
      <4>1. a \in BlockIds
        BY <1>1, OutBlocks DEF PoolTyped, CentralsSound
      <4>. QED  BY <1>2, <3>3, <4>1
    <3>. QED  BY <3>1, <3>2, <3>3
  <2>. QED  BY <2>1, <2>2 DEF AllOwned
<1>. QED  BY <1>1, <1>4, <1>5, <1>8, <1>9 DEF Own, me2

\* A message without a block gets a payload that has none either.
LEMMA PutOther ==
    ASSUME NEW ce, NEW ca, NEW me, NEW st, Own(ce, ca, me, {}, st),
           NEW m \in Messages, me[m].ptr \notin BlockIds,
           NEW r \in MessageRecs, r.ptr \notin BlockIds, r.mode # "Pool" => r.ptr = NoBlock
    PROVE  Own(ce, ca, [me EXCEPT ![m] = r], {}, st)
<1>. DEFINE me2 == [me EXCEPT ![m] = r]
<1>1. /\ PoolTyped(ce, ca, me) /\ CentralsSound(ce) /\ CachesOwn(ce, ca, {})
      /\ MessagesOwn(ce, ca, me, {}) /\ (~st => AllOwned(ce, ca, me, {}))
  BY DEF Own
<1>2. /\ me2 \in [Messages -> MessageRecs] /\ me2[m] = r
      /\ \A n \in Messages : n # m => me2[n] = me[n]
  BY <1>1 DEF PoolTyped
<1>. HIDE DEF me2
<1>3. PoolTyped(ce, ca, me2)
  BY <1>1, <1>2 DEF PoolTyped
<1>4. MessagesOwn(ce, ca, me2, {})
  BY <1>1, <1>2 DEF MessagesOwn
<1>5. ASSUME ~st PROVE AllOwned(ce, ca, me2, {})
  <2>1. AllOwned(ce, ca, me, {})
    BY <1>1, <1>5
  <2>2. \A d \in Classes : OutOf(d, ce[d]) \subseteq BlockIds
    BY <1>1, OutBlocks DEF PoolTyped, CentralsSound
  <2>3. ASSUME NEW a \in BlockIds, NEW n \in Messages, me[n].ptr = a PROVE me2[n].ptr = a
    BY <1>2, <2>3
  <2>. QED  BY <2>1, <2>2, <2>3 DEF AllOwned
<1>. QED  BY <1>1, <1>3, <1>4, <1>5 DEF Own, me2

\* A message's block is in hand when the message is emptied.
LEMMA TakeBlock ==
    ASSUME NEW ce, NEW ca, NEW me, NEW st, Own(ce, ca, me, {}, st),
           NEW m \in Messages, me[m].ptr \in BlockIds
    PROVE  /\ Own(ce, ca, [me EXCEPT ![m] = Empty], {me[m].ptr}, st)
           /\ Index(me[m].size) \in Classes
           /\ me[m].ptr \in OutOf(Index(me[m].size), ce[Index(me[m].size)])
<1>. DEFINE me2 == [me EXCEPT ![m] = Empty]
            b == me[m].ptr
            c == Index(me[m].size)
<1>1. /\ PoolTyped(ce, ca, me) /\ CentralsSound(ce) /\ CachesOwn(ce, ca, {})
      /\ MessagesOwn(ce, ca, me, {}) /\ (~st => AllOwned(ce, ca, me, {}))
  BY DEF Own
<1>2. /\ me2 \in [Messages -> MessageRecs] /\ me2[m] = Empty
      /\ \A n \in Messages : n # m => me2[n] = me[n]
  BY <1>1, EmptyTyped DEF PoolTyped
<1>3. /\ InPool(me[m].size) /\ b \in OutOf(c, ce[c]) /\ \A t \in Threads : b \notin ToSet(ca[t][c])
      /\ \A n \in Messages \ {m} : me[n].ptr # b
  BY <1>1 DEF MessagesOwn
<1>4. c \in Classes
  BY <1>1, <1>3, IndexIsClass DEF PoolTyped, MessageRecs
<1>. HIDE DEF me2, b, c
<1>5. PoolTyped(ce, ca, me2)
  BY <1>1, <1>2 DEF PoolTyped
<1>6. \A d \in Classes : \A a \in OutOf(d, ce[d]) : a[1] = d
  BY <1>1, OutBlocks DEF PoolTyped, CentralsSound
<1>7. \A t \in Threads, d \in Classes : b \notin ToSet(ca[t][d])
  <2>1. \A t \in Threads, d \in Classes : ToSet(ca[t][d]) \subseteq OutOf(d, ce[d])
    BY <1>1 DEF CachesOwn
  <2>. QED  BY <1>3, <1>4, <1>6, <2>1
<1>8. CachesOwn(ce, ca, {b})
  BY <1>1, <1>7 DEF CachesOwn
<1>9. MessagesOwn(ce, ca, me2, {b})
  BY <1>1, <1>2, <1>3, EmptyTyped, NotBlocks DEF MessagesOwn
<1>10. ASSUME ~st PROVE AllOwned(ce, ca, me2, {b})
  <2>1. AllOwned(ce, ca, me, {})
    BY <1>1, <1>10
  <2>2. ASSUME NEW a, NEW n \in Messages, me[n].ptr = a PROVE a = b \/ me2[n].ptr = a
    BY <1>2, <2>2 DEF b
  <2>. QED  BY <2>1, <2>2 DEF AllOwned
<1>11. {b} \subseteq UNION {OutOf(d, ce[d]) : d \in Classes}
  BY <1>3, <1>4
<1>12. Own(ce, ca, me2, {b}, st)
  BY <1>1, <1>5, <1>8, <1>9, <1>10, <1>11 DEF Own
<1>. QED  BY <1>3, <1>4, <1>12 DEF me2, b, c

\* A payload moves from one message to another that holds no block.
LEMMA MoveBlock ==
    ASSUME NEW ce, NEW ca, NEW me, NEW hand, NEW st, Own(ce, ca, me, hand, st),
           NEW m \in Messages, NEW n \in Messages, m # n, me[n].ptr \notin BlockIds
    PROVE  Own(ce, ca, [me EXCEPT ![n] = me[m], ![m] = Empty], hand, st)
<1>. DEFINE me2 == [me EXCEPT ![n] = me[m], ![m] = Empty]
<1>1. /\ PoolTyped(ce, ca, me) /\ CentralsSound(ce) /\ CachesOwn(ce, ca, hand)
      /\ MessagesOwn(ce, ca, me, hand) /\ (~st => AllOwned(ce, ca, me, hand))
      /\ hand \subseteq UNION {OutOf(d, ce[d]) : d \in Classes}
  BY DEF Own
<1>2. /\ me2 \in [Messages -> MessageRecs] /\ me2[m] = Empty /\ me2[n] = me[m]
      /\ \A k \in Messages : k # m /\ k # n => me2[k] = me[k]
  BY <1>1, EmptyTyped DEF PoolTyped
<1>. HIDE DEF me2
<1>3. PoolTyped(ce, ca, me2)
  BY <1>1, <1>2 DEF PoolTyped
<1>4. MessagesOwn(ce, ca, me2, hand)
  <2>1. \A k \in Messages :
           /\ me2[k].ptr \in BlockIds => \E j \in Messages : me2[k] = me[j] /\ k # m
           /\ me2[k].mode # "Pool" => me2[k].ptr = NoBlock
    BY <1>1, <1>2, EmptyTyped, NotBlocks DEF MessagesOwn
  <2>2. ASSUME NEW k \in Messages, me2[k].ptr \in BlockIds, NEW j \in Messages \ {k}
        PROVE  me2[j].ptr # me2[k].ptr
    <3>1. CASE k = n
      BY <1>1, <1>2, <2>2, <3>1, EmptyTyped, NotBlocks DEF MessagesOwn
    <3>2. CASE k # n
      <4>1. k # m /\ me2[k] = me[k]
        BY <1>2, <2>2, <3>2, EmptyTyped, NotBlocks
      <4>. QED  BY <1>1, <1>2, <2>2, <4>1, EmptyTyped, NotBlocks DEF MessagesOwn
    <3>. QED  BY <3>1, <3>2
  <2>3. ASSUME NEW k \in Messages, me2[k].ptr \in BlockIds
        PROVE  /\ InPool(me2[k].size) /\ me2[k].ptr \notin hand
               /\ me2[k].ptr \in OutOf(Index(me2[k].size), ce[Index(me2[k].size)])
               /\ \A t \in Threads : me2[k].ptr \notin ToSet(ca[t][Index(me2[k].size)])
    <3>1. PICK j \in Messages : me2[k] = me[j]
      BY <2>1, <2>3
    <3>. QED  BY <1>1, <2>3, <3>1 DEF MessagesOwn
  <2>. QED  BY <2>1, <2>2, <2>3 DEF MessagesOwn
<1>5. ASSUME ~st PROVE AllOwned(ce, ca, me2, hand)
  <2>1. AllOwned(ce, ca, me, hand)
    BY <1>1, <1>5
  <2>2. \A d \in Classes : OutOf(d, ce[d]) \subseteq BlockIds
    BY <1>1, OutBlocks DEF PoolTyped, CentralsSound
  <2>3. ASSUME NEW a \in BlockIds, NEW k \in Messages, me[k].ptr = a PROVE \E j \in Messages : me2[j].ptr = a
    BY <1>2, <2>3
  <2>. QED  BY <2>1, <2>2, <2>3 DEF AllOwned
<1>. QED  BY <1>1, <1>3, <1>4, <1>5 DEF Own, me2

-----------------------------------------------------------------------------
(* The calls                                                               *)

\* What Own says of one class.
LEMMA OwnClass ==
    ASSUME NEW ce, NEW ca, NEW me, NEW hand, NEW st, Own(ce, ca, me, hand, st), NEW c \in Classes
    PROVE  /\ ce[c] \in CentralRecs /\ Sound(c, ce[c]) /\ Len(ce[c].slabs) <= MaxSlabs
           /\ ~st => ce[c].allocated = Cardinality(OutOf(c, ce[c]))
           /\ \A t \in Threads : /\ ca[t][c] \in Seq(BlockIds) /\ Distinct(ca[t][c])
                                 /\ Len(ca[t][c]) <= Table[c].batchSize
                                 /\ ToSet(ca[t][c]) \subseteq OutOf(c, ce[c])
                                 /\ ToSet(ca[t][c]) \cap hand = {}
BY DEF Own, PoolTyped, CentralsSound, CachesOwn, AllOwned

\* MemoryPool::allocate: the caller has a block that was free or cached.
LEMMA AllocateGives ==
    ASSUME Own(central, cache, message, {}, starved), NEW t \in Threads,
           NEW size \in Nat, InPool(size), CanAllocate(t, size)
    PROVE  LET a == Allocate(t, size)
           IN  /\ Own(a.central, a.cache, message, {a.ptr}, starved)
               /\ a.ptr \in OutOf(Index(size), a.central[Index(size)])
<1>. DEFINE c == Index(size)
            a == Allocate(t, size)
            list == cache[t][c]
<1>1. c \in Classes
  BY IndexIsClass
<1>2. /\ central[c] \in CentralRecs /\ Sound(c, central[c]) /\ Len(central[c].slabs) <= MaxSlabs
      /\ ~starved => central[c].allocated = Cardinality(OutOf(c, central[c]))
      /\ list \in Seq(BlockIds) /\ Distinct(list) /\ Len(list) <= Table[c].batchSize
  BY <1>1, OwnClass
<1>3. Table[c].batchSize \in Nat
  BY <1>1, ClassFacts
<1>4. ASSUME list # <<>>
      PROVE  Own(a.central, a.cache, message, {a.ptr}, starved) /\ a.ptr \in OutOf(c, a.central[c])
  <2>1. a = [ptr |-> Head(list), central |-> central, cache |-> [cache EXCEPT ![t][c] = Tail(@)]]
    BY <1>4 DEF Allocate
  <2>2. a.ptr = Head(list) /\ a.central = central /\ a.cache = [cache EXCEPT ![t][c] = Tail(list)]
    BY <2>1
  <2>. HIDE DEF c, list, a
  <2>3. /\ Tail(list) \in Seq(BlockIds) /\ Len(Tail(list)) = Len(list) - 1 /\ Distinct(Tail(list))
        /\ ToSet(list) = ToSet(Tail(list)) \cup {Head(list)} /\ Head(list) \notin ToSet(Tail(list))
    BY <1>2, <1>4, FirstAndRest
  <2>4. PICK v \in Seq(BlockIds) : v = Tail(list)
    BY <2>3
  <2>5. Len(v) <= Table[c].batchSize
    <3>1. Len(list) \in Nat
      BY <1>2
    <3>. QED  BY <1>2, <1>3, <2>3, <2>4, <3>1
  <2>6. ToSet(v) \cup {Head(list)} = ToSet(cache[t][c]) \cup {} /\ ToSet(v) \cap {Head(list)} = {}
    BY <2>3, <2>4 DEF list
  <2>7. /\ Own(central, [cache EXCEPT ![t][c] = v], message, {Head(list)}, starved)
        /\ {Head(list)} \subseteq OutOf(c, central[c])
    BY <1>1, <2>3, <2>4, <2>5, <2>6, Recached
  <2>. QED  BY <2>2, <2>4, <2>7
<1>5. ASSUME list = <<>>
      PROVE  Own(a.central, a.cache, message, {a.ptr}, starved) /\ a.ptr \in OutOf(c, a.central[c])
  <2>. DEFINE got == FetchBatch(c)
              ce == [central EXCEPT ![c] = got.cc]
  <2>1. a = [ptr |-> Head(got.out), central |-> ce, cache |-> [cache EXCEPT ![t][c] = Reverse(Tail(got.out))]]
    BY <1>5 DEF Allocate
  <2>2. MustGrow(c) => Len(central[c].slabs) < MaxSlabs
    BY <1>5 DEF CanAllocate
  <2>. HIDE DEF c, list, a
  <2>3. /\ got.cc \in CentralRecs /\ Sound(c, got.cc) /\ Len(got.cc.slabs) <= MaxSlabs
        /\ got.out \in Seq(BlockIds) /\ Distinct(got.out) /\ got.out # <<>>
        /\ Len(got.out) <= Table[c].batchSize
        /\ got.cc.allocated = central[c].allocated + Len(got.out)
        /\ OutOf(c, got.cc) = OutOf(c, central[c]) \cup ToSet(got.out)
        /\ OutOf(c, central[c]) \cap ToSet(got.out) = {}
    BY <1>1, <1>2, <2>2, FetchBatchGives
  <2>. HIDE DEF got
  <2>4. PICK out \in Seq(BlockIds) : out = got.out
    BY <2>3
  <2>5. ~starved => got.cc.allocated = Cardinality(OutOf(c, got.cc))
    <3>1. /\ IsFiniteSet(OutOf(c, central[c])) /\ Cardinality(OutOf(c, central[c])) \in Nat
      BY <1>1, <1>2, OutBlocks
    <3>2. IsFiniteSet(ToSet(out)) /\ Cardinality(ToSet(out)) = Len(out)
      BY <2>3, <2>4, CountedOnce
    <3>3. Cardinality(OutOf(c, got.cc)) = Cardinality(OutOf(c, central[c])) + Len(out)
      <4>1. Cardinality(OutOf(c, central[c]) \cup ToSet(out))
               = Cardinality(OutOf(c, central[c])) + Cardinality(ToSet(out))
                 - Cardinality(OutOf(c, central[c]) \cap ToSet(out))
        BY <3>1, <3>2, FS_Union
      <4>2. Cardinality(OutOf(c, central[c]) \cap ToSet(out)) = 0
        BY <2>3, <2>4, FS_EmptySet
      <4>3. Len(out) \in Nat
        OBVIOUS
      <4>. QED  BY <2>3, <2>4, <3>1, <3>2, <4>1, <4>2, <4>3
    <3>. QED  BY <1>2, <2>3, <2>4, <3>3
  <2>6. Own(ce, cache, message, ToSet(out), starved)
    <3>1. Passed(c, central[c], {}, starved, got.cc, ToSet(out), starved)
      BY <2>3, <2>4, <2>5 DEF Passed
    <3>. QED  BY <1>1, <2>3, <3>1, Recentred
  <2>7. ce[c] = got.cc
    <3>1. c \in DOMAIN central
      BY <1>1 DEF Own, PoolTyped
    <3>. QED  BY <3>1
  <2>. HIDE DEF ce
  <2>8. /\ Tail(out) \in Seq(BlockIds) /\ Len(Tail(out)) = Len(out) - 1 /\ Distinct(Tail(out))
        /\ ToSet(out) = ToSet(Tail(out)) \cup {Head(out)} /\ Head(out) \notin ToSet(Tail(out))
    BY <2>3, <2>4, FirstAndRest
  <2>9. PICK rest \in Seq(BlockIds) : rest = Tail(out)
    BY <2>8
  <2>10. /\ Reverse(rest) \in Seq(BlockIds) /\ Len(Reverse(rest)) = Len(rest)
         /\ Distinct(Reverse(rest)) /\ ToSet(Reverse(rest)) = ToSet(rest)
    BY <2>8, <2>9, Reversed
  <2>11. PICK v \in Seq(BlockIds) : v = Reverse(rest)
    BY <2>10
  <2>12. Len(v) <= Table[c].batchSize
    <3>1. Len(out) \in Nat
      OBVIOUS
    <3>. QED  BY <1>3, <2>3, <2>4, <2>8, <2>9, <2>10, <2>11, <3>1
  <2>13. ToSet(list) = {}
    BY <1>5 DEF ToSet
  <2>14. /\ ToSet(v) \cup {Head(out)} = ToSet(cache[t][c]) \cup ToSet(out) /\ ToSet(v) \cap {Head(out)} = {}
         /\ ToSet(out) \subseteq OutOf(c, ce[c]) /\ Distinct(v)
    BY <2>3, <2>4, <2>7, <2>8, <2>9, <2>10, <2>11, <2>13 DEF list
  <2>15. /\ Own(ce, [cache EXCEPT ![t][c] = v], message, {Head(out)}, starved)
         /\ {Head(out)} \subseteq OutOf(c, ce[c])
    BY <1>1, <2>6, <2>12, <2>14, Recached
  <2>16. a.ptr = Head(out) /\ a.central = ce /\ a.cache = [cache EXCEPT ![t][c] = v]
    BY <2>1, <2>4, <2>9, <2>11 DEF ce
  <2>. QED  BY <2>15, <2>16
<1>. QED  BY <1>4, <1>5

\* The blocks in hand go back to the central cache of their class.
LEMMA ReturnGives ==
    ASSUME NEW ce, NEW ca, NEW me, NEW st, NEW c \in Classes,
           NEW blocks \in Seq(BlockIds), Distinct(blocks), ToSet(blocks) \subseteq OutOf(c, ce[c]),
           Own(ce, ca, me, ToSet(blocks), st)
    PROVE  Own([ce EXCEPT ![c] = ReturnBatch(c, @, blocks)], ca, me, {}, st)
<1>. DEFINE cc2 == ReturnBatch(c, ce[c], blocks)
            hand == ToSet(blocks)
<1>1. /\ ce[c] \in CentralRecs /\ Sound(c, ce[c]) /\ Len(ce[c].slabs) <= MaxSlabs
      /\ ~st => ce[c].allocated = Cardinality(OutOf(c, ce[c]))
  BY OwnClass
<1>2. /\ cc2 \in CentralRecs /\ Sound(c, cc2) /\ Len(cc2.slabs) = Len(ce[c].slabs)
      /\ cc2.allocated = ce[c].allocated - Len(blocks)
      /\ OutOf(c, cc2) = OutOf(c, ce[c]) \ hand
  BY <1>1, ReturnBatchTakes
<1>. HIDE DEF cc2
<1>3. ~st => cc2.allocated = Cardinality(OutOf(c, cc2))
  <2>1. IsFiniteSet(OutOf(c, ce[c])) /\ Cardinality(OutOf(c, ce[c])) \in Nat
    BY <1>1, OutBlocks
  <2>2. Cardinality(hand) = Len(blocks) /\ Len(blocks) \in Nat
    BY CountedOnce
  <2>. HIDE DEF hand
  <2>3. Cardinality(OutOf(c, ce[c]) \ hand) = Cardinality(OutOf(c, ce[c])) - Cardinality(OutOf(c, ce[c]) \cap hand)
    BY <2>1, FS_Difference
  <2>4. OutOf(c, ce[c]) \cap hand = hand
    BY DEF hand
  <2>. QED  BY <1>1, <1>2, <2>1, <2>2, <2>3, <2>4
<1>4. Passed(c, ce[c], hand, st, cc2, {}, st)
  BY <1>2, <1>3 DEF Passed
<1>. HIDE DEF hand
<1>5. Own([ce EXCEPT ![c] = cc2], ca, me, {}, st)
  <2>1. Len(cc2.slabs) <= MaxSlabs /\ cc2 \in CentralRecs /\ Sound(c, cc2)
    BY <1>1, <1>2
  <2>2. Own(ce, ca, me, hand, st)
    BY DEF hand
  <2>. QED  BY <1>4, <2>1, <2>2, Recentred
<1>. QED  BY <1>5 DEF cc2

\* MemoryPool::deallocate: the block in hand is cached, or free with others of its batch.
LEMMA DeallocateTakes ==
    ASSUME NEW me, NEW ptr, Own(central, cache, me, {ptr}, starved), NEW t \in Threads, NEW size,
           Index(size) \in Classes, ptr \in OutOf(Index(size), central[Index(size)]),
           Deallocate(t, size, ptr)
    PROVE  Own(central', cache', me, {}, starved)
<1>. DEFINE c == Index(size)
            one == <<ptr>>
            old == cache[t][c]
            list == one \o old
            k == Table[c].batchSize
<1>1. /\ central[c] \in CentralRecs /\ Sound(c, central[c])
      /\ old \in Seq(BlockIds) /\ Distinct(old) /\ Len(old) <= k
      /\ ToSet(old) \subseteq OutOf(c, central[c]) /\ ToSet(old) \cap {ptr} = {}
  BY OwnClass
<1>2. ptr \in BlockIds /\ ptr \notin {NoBlock, LargePtr}
  BY <1>1, OutBlocks, NotBlocks
<1>3. k \in Nat /\ k > 0
  BY ClassFacts
<1>4. \/ /\ Len(list) <= k
         /\ cache' = [cache EXCEPT ![t][c] = list]
         /\ UNCHANGED central
      \/ /\ Len(list) > k
         /\ cache' = [cache EXCEPT ![t][c] = SubSeq(list, k + 1, Len(list))]
         /\ central' = [central EXCEPT ![c] = ReturnBatch(c, @, SubSeq(list, 1, k))]
  BY <1>2 DEF Deallocate
<1>. HIDE DEF c, one, old, k
<1>5. one \in Seq(BlockIds) /\ Len(one) = 1 /\ Distinct(one) /\ ToSet(one) = {ptr}
  BY <1>2, OneBlock DEF one
<1>6. /\ list \in Seq(BlockIds) /\ Len(list) = 1 + Len(old)
      /\ Distinct(list) /\ ToSet(list) = {ptr} \cup ToSet(old)
  <2>1. one \in Seq(BlockIds) /\ Distinct(one) /\ ToSet(one) \cap ToSet(old) = {}
    BY <1>1, <1>5
  <2>2. old \in Seq(BlockIds) /\ Distinct(old)
    BY <1>1
  <2>3. /\ one \o old \in Seq(BlockIds) /\ Len(one \o old) = Len(one) + Len(old)
        /\ Distinct(one \o old) /\ ToSet(one \o old) = ToSet(one) \cup ToSet(old)
    BY <2>1, <2>2, Joined
  <2>. QED  BY <1>5, <2>3
<1>. HIDE DEF list
<1>7. {ptr} \subseteq OutOf(c, central[c]) /\ c \in Classes
  BY DEF c
<1>8. CASE Len(list) <= k /\ cache' = [cache EXCEPT ![t][c] = list] /\ UNCHANGED central
  <2>1. ToSet(list) \cup {} = ToSet(cache[t][c]) \cup {ptr} /\ ToSet(list) \cap {} = {}
    BY <1>6 DEF old
  <2>2. Own(central, [cache EXCEPT ![t][c] = list], me, {}, starved)
    BY <1>6, <1>7, <1>8, <2>1, Recached DEF k
  <2>. QED  BY <1>8, <2>2
<1>9. CASE /\ Len(list) > k /\ cache' = [cache EXCEPT ![t][c] = SubSeq(list, k + 1, Len(list))]
           /\ central' = [central EXCEPT ![c] = ReturnBatch(c, @, SubSeq(list, 1, k))]
  <2>. DEFINE u == SubSeq(list, 1, k)
              v == SubSeq(list, k + 1, Len(list))
  <2>1. Len(old) \in Nat /\ Len(list) \in Nat /\ k \in 0 .. Len(list)
    BY <1>1, <1>3, <1>6, <1>9
  <2>2. /\ u \in Seq(BlockIds) /\ Distinct(u)
        /\ v \in Seq(BlockIds) /\ Len(v) = Len(list) - k /\ Distinct(v)
        /\ ToSet(u) \cup ToSet(v) = ToSet(list) /\ ToSet(u) \cap ToSet(v) = {}
    BY <1>6, <2>1, Cut
  <2>. HIDE DEF u, v
  <2>3. Len(v) <= Table[c].batchSize
    BY <1>1, <1>3, <1>6, <2>1, <2>2 DEF k
  <2>4. ToSet(v) \cup ToSet(u) = ToSet(cache[t][c]) \cup {ptr} /\ ToSet(v) \cap ToSet(u) = {}
    BY <1>6, <2>2 DEF old
  <2>5. /\ Own(central, [cache EXCEPT ![t][c] = v], me, ToSet(u), starved)
        /\ ToSet(u) \subseteq OutOf(c, central[c])
    <3>1. v \in Seq(BlockIds) /\ Distinct(v)
      BY <2>2
    <3>2. PICK hand2 : hand2 = ToSet(u)
      OBVIOUS
    <3>3. ToSet(v) \cup hand2 = ToSet(cache[t][c]) \cup {ptr} /\ ToSet(v) \cap hand2 = {}
      BY <2>4, <3>2
    <3>4. /\ Own(central, [cache EXCEPT ![t][c] = v], me, hand2, starved)
          /\ hand2 \subseteq OutOf(c, central[c])
      BY <1>7, <2>3, <3>1, <3>3, Recached
    <3>. QED  BY <3>2, <3>4
  <2>6. Own([central EXCEPT ![c] = ReturnBatch(c, @, u)], [cache EXCEPT ![t][c] = v], me, {}, starved)
    BY <1>7, <2>2, <2>5, ReturnGives
  <2>. QED  BY <1>9, <2>6 DEF u, v
<1>. QED  BY <1>4, <1>8, <1>9

LEMMA DrainKeeps ==
    ASSUME PoolInv, NEW t \in Threads, NEW c \in Classes, DrainBatch(t, c)
    PROVE  PoolInv'
<1>. DEFINE list == cache[t][c]
            k == Min({Len(list), MaxBatchSize})
            u == SubSeq(list, 1, k)
            v == SubSeq(list, k + 1, Len(list))
<1>1. /\ central' = [central EXCEPT ![c] = ReturnBatch(c, @, u)]
      /\ cache' = [cache EXCEPT ![t][c] = v] /\ UNCHANGED <<message, starved>>
  BY DEF DrainBatch
<1>2. Own(central, cache, message, {}, starved)
  BY DEF PoolInv
<1>. HIDE DEF list
<1>3. /\ list \in Seq(BlockIds) /\ Distinct(list) /\ Len(list) <= Table[c].batchSize
      /\ ToSet(list) \subseteq OutOf(c, central[c])
  BY <1>2, OwnClass DEF list
<1>4. Len(list) \in Nat /\ MaxBatchSize \in Nat
  BY <1>3, ClassFacts
<1>5. k \in 0 .. Len(list)
  BY <1>4, LesserOfTwo
<1>. HIDE DEF k
<1>6. /\ u \in Seq(BlockIds) /\ Distinct(u)
      /\ v \in Seq(BlockIds) /\ Len(v) = Len(list) - k /\ Distinct(v)
      /\ ToSet(u) \cup ToSet(v) = ToSet(list) /\ ToSet(u) \cap ToSet(v) = {}
  BY <1>3, <1>5, Cut
<1>. HIDE DEF u, v
<1>7. Len(v) <= Table[c].batchSize
  BY <1>3, <1>4, <1>5, <1>6, ClassFacts
<1>8. PICK hand : hand = ToSet(u)
  OBVIOUS
<1>9. Own(central, [cache EXCEPT ![t][c] = v], message, hand, starved)
  <2>1. /\ {} \subseteq OutOf(c, central[c]) /\ ToSet(v) \cap hand = {}
        /\ ToSet(v) \cup hand = ToSet(cache[t][c]) \cup {}
    BY <1>6, <1>8 DEF list
  <2>2. v \in Seq(BlockIds) /\ Distinct(v)
    BY <1>6
  <2>. QED  BY <1>2, <1>7, <2>1, <2>2, Recached
<1>10. ToSet(u) \subseteq OutOf(c, central[c])
  BY <1>3, <1>6
<1>11. Own([central EXCEPT ![c] = ReturnBatch(c, @, u)], [cache EXCEPT ![t][c] = v], message, {}, starved)
  BY <1>6, <1>8, <1>9, <1>10, ReturnGives
<1>. QED  BY <1>1, <1>11 DEF PoolInv

\* What the partial slabs gave before memory ran out is lost.
LEMMA FailureKeeps ==
    ASSUME PoolInv, NEW t \in Threads, NEW size \in Nat, AllocateFails(t, size),
           UNCHANGED cache
    PROVE  PoolInv'
<1>. DEFINE c == Index(size)
            acc == FromPartial(c)
<1>1. /\ InPool(size) /\ central' = [central EXCEPT ![c] = acc.cc]
      /\ starved' = TRUE /\ UNCHANGED <<cache, message>>
  BY DEF AllocateFails
<1>2. c \in Classes
  BY <1>1, IndexIsClass
<1>3. Own(central, cache, message, {}, starved)
  BY DEF PoolInv
<1>. HIDE DEF c, acc
<1>4. central[c] \in CentralRecs /\ Sound(c, central[c]) /\ Len(central[c].slabs) <= MaxSlabs
  BY <1>2, <1>3, OwnClass
<1>5. Taken(c, central[c], acc)
  BY <1>2, <1>4, FromPartialTakes DEF acc
<1>6. OutOf(c, acc.cc) = OutOf(c, central[c]) \cup ToSet(acc.out)
  BY <1>2, <1>4, <1>5, TakenIsOut
<1>7. acc.cc \in CentralRecs /\ Sound(c, acc.cc) /\ Len(acc.cc.slabs) <= MaxSlabs
  BY <1>4, <1>5 DEF Taken, Fetching
<1>8. Passed(c, central[c], {}, starved, acc.cc, {}, TRUE)
  BY <1>6 DEF Passed
<1>9. Own([central EXCEPT ![c] = acc.cc], cache, message, {}, TRUE)
  BY <1>2, <1>3, <1>7, <1>8, Recentred
<1>. QED  BY <1>1, <1>9 DEF PoolInv

\* A message gets a payload outside itself: a block of its own, or memory of its own.
LEMMA AllocateKeeps ==
    ASSUME PoolInv, NEW t \in Threads, NEW size \in Nat, CanAllocate(t, size),
           NEW m \in Messages, message[m] = Empty,
           central' = Allocate(t, size).central, cache' = Allocate(t, size).cache,
           message' = [message EXCEPT ![m] = [mode |-> "Pool", size |-> size,
                                              ptr |-> Allocate(t, size).ptr]],
           starved' = starved
    PROVE  PoolInv'
<1>. DEFINE a == Allocate(t, size)
            r == [mode |-> "Pool", size |-> size, ptr |-> a.ptr]
<1>1. Own(central, cache, message, {}, starved)
  BY DEF PoolInv
<1>2. message[m].ptr \notin BlockIds
  BY EmptyTyped, NotBlocks
<1>3. CASE InPool(size)
  <2>1. Own(a.central, a.cache, message, {a.ptr}, starved) /\ a.ptr \in OutOf(Index(size), a.central[Index(size)])
    BY <1>1, <1>3, AllocateGives
  <2>2. Index(size) \in Classes
    BY <1>3, IndexIsClass
  <2>. HIDE DEF a
  <2>3. a.ptr \in BlockIds
    BY <2>1, <2>2, OwnClass, OutBlocks
  <2>4. r \in MessageRecs /\ r.mode = "Pool" /\ r.ptr = a.ptr /\ r.size = size
    BY <2>3 DEF MessageRecs
  <2>. HIDE DEF r
  <2>5. Own(a.central, a.cache, [message EXCEPT ![m] = r], {}, starved)
    BY <1>2, <1>3, <2>1, <2>4, PutBlock
  <2>. QED  BY <2>5 DEF PoolInv, a, r
<1>4. CASE ~InPool(size)
  <2>1. a = [ptr |-> LargePtr, central |-> central, cache |-> cache]
    BY <1>4 DEF Allocate
  <2>2. a.ptr = LargePtr /\ a.central = central /\ a.cache = cache
    BY <2>1
  <2>. HIDE DEF a
  <2>3. r \in MessageRecs /\ r.ptr \notin BlockIds /\ r.mode = "Pool"
    BY <2>2, NotBlocks DEF MessageRecs
  <2>. HIDE DEF r
  <2>4. Own(central, cache, [message EXCEPT ![m] = r], {}, starved)
    BY <1>1, <1>2, <2>3, PutOther
  <2>. QED  BY <2>2, <2>4 DEF PoolInv, a, r
<1>. QED  BY <1>3, <1>4

LEMMA MakeKeeps ==
    ASSUME PoolInv, NEW t \in Threads, NEW m \in Messages, NEW ty \in Types,
           Make(t, m, ty) \/ MakeFails(t, m, ty), ~undefined'
    PROVE  PoolInv'
<1>1. ty \in [size : Nat, nothrow : BOOLEAN] /\ ty.size \in Nat
  <2>1. Types \subseteq [size : Nat, nothrow : BOOLEAN]
    BY PoolAssumption
  <2>. QED  BY <2>1
<1>2. CASE /\ message[m] = Empty
           /\ message' = [message EXCEPT ![m] = [mode |-> "Inline", size |-> ty.size, ptr |-> NoBlock]]
           /\ UNCHANGED <<central, cache, starved>>
  <2>. DEFINE r == [mode |-> "Inline", size |-> ty.size, ptr |-> NoBlock]
  <2>1. r \in MessageRecs /\ r.ptr = NoBlock
    BY <1>1 DEF MessageRecs
  <2>. HIDE DEF r
  <2>2. message[m].ptr \notin BlockIds
    BY <1>2, EmptyTyped, NotBlocks
  <2>3. Own(central, cache, [message EXCEPT ![m] = r], {}, starved)
    BY <2>1, <2>2, NotBlocks, PutOther DEF PoolInv
  <2>. QED  BY <1>2, <2>3 DEF PoolInv, r
<1>3. CASE /\ message[m] = Empty /\ CanAllocate(t, ty.size)
           /\ LET a == Allocate(t, ty.size) IN
              /\ central' = a.central /\ cache' = a.cache
              /\ message' = [message EXCEPT ![m] = [mode |-> "Pool", size |-> ty.size, ptr |-> a.ptr]]
           /\ UNCHANGED starved
  BY <1>1, <1>3, AllocateKeeps
<1>4. CASE MakeFails(t, m, ty)
  BY <1>1, <1>4, FailureKeeps DEF MakeFails
<1>. QED  BY <1>2, <1>3, <1>4 DEF Make

LEMMA CloneKeeps ==
    ASSUME PoolInv, NEW t \in Threads, NEW m \in Messages, NEW n \in Messages,
           Clone(t, m, n) \/ CloneFails(t, m, n)
    PROVE  PoolInv'
<1>1. message[m] \in MessageRecs /\ Own(central, cache, message, {}, starved)
  BY DEF PoolInv, Own, PoolTyped
<1>2. message[m].size \in Nat
  BY <1>1 DEF MessageRecs
<1>3. CASE /\ message[n] = Empty /\ message[m].mode = "Inline" /\ message' = [message EXCEPT ![n] = message[m]]
           /\ UNCHANGED <<central, cache, starved>>
  <2>1. message[m].ptr = NoBlock
    BY <1>1, <1>3 DEF Own, MessagesOwn
  <2>2. message[n].ptr \notin BlockIds
    BY <1>3, EmptyTyped, NotBlocks
  <2>3. Own(central, cache, [message EXCEPT ![n] = message[m]], {}, starved)
    BY <1>1, <2>1, <2>2, NotBlocks, PutOther
  <2>. QED  BY <1>3, <2>3 DEF PoolInv
<1>4. CASE /\ message[n] = Empty /\ message[m].mode = "Pool" /\ CanAllocate(t, message[m].size)
           /\ LET a == Allocate(t, message[m].size) IN
              /\ central' = a.central /\ cache' = a.cache
              /\ message' = [message EXCEPT ![n] = [message[m] EXCEPT !.ptr = a.ptr]]
           /\ UNCHANGED starved
  <2>1. \A p : [message[m] EXCEPT !.ptr = p] = [mode |-> "Pool", size |-> message[m].size, ptr |-> p]
    BY <1>1, <1>4 DEF MessageRecs
  <2>. QED  BY <1>2, <1>4, <2>1, AllocateKeeps
<1>5. CASE CloneFails(t, m, n)
  BY <1>2, <1>5, FailureKeeps DEF CloneFails
<1>. QED  BY <1>3, <1>4, <1>5 DEF Clone

\* A message loses what it had: nothing, memory of its own, or a block.
LEMMA EmptiedKeeps ==
    ASSUME PoolInv, NEW t \in Threads, NEW m \in Messages,
           Deallocate(t, message[m].size, message[m].ptr)
    PROVE  Own(central', cache', [message EXCEPT ![m] = Empty], {}, starved)
<1>1. message[m] \in MessageRecs /\ Own(central, cache, message, {}, starved)
  BY DEF PoolInv, Own, PoolTyped
<1>2. CASE message[m].ptr \in BlockIds
  <2>1. /\ Own(central, cache, [message EXCEPT ![m] = Empty], {message[m].ptr}, starved)
        /\ Index(message[m].size) \in Classes
        /\ message[m].ptr \in OutOf(Index(message[m].size), central[Index(message[m].size)])
    BY <1>1, <1>2, TakeBlock
  <2>. QED  BY <2>1, DeallocateTakes
<1>3. CASE message[m].ptr \notin BlockIds
  <2>1. message[m].ptr \in {NoBlock, LargePtr}
    BY <1>1, <1>3 DEF MessageRecs
  <2>2. UNCHANGED <<central, cache>>
    BY <2>1 DEF Deallocate
  <2>3. Own(central, cache, [message EXCEPT ![m] = Empty], {}, starved)
    BY <1>1, <1>3, EmptyTyped, NotBlocks, PutOther
  <2>. QED  BY <2>2, <2>3
<1>. QED  BY <1>2, <1>3

LEMMA MoveKeeps ==
    ASSUME PoolInv, NEW t \in Threads, NEW m \in Messages, NEW n \in Messages,
           Move(t, m, n) \/ Destroy(t, m)
    PROVE  PoolInv'
<1>1. CASE Move(t, m, n)
  <2>1. /\ m # n /\ Deallocate(t, message[n].size, message[n].ptr)
        /\ message' = [message EXCEPT ![n] = message[m], ![m] = Empty] /\ starved' = starved
    BY <1>1 DEF Move
  <2>2. Own(central', cache', [message EXCEPT ![n] = Empty], {}, starved)
    BY <2>1, EmptiedKeeps
  <2>. DEFINE me == [message EXCEPT ![n] = Empty]
  <2>3. me[n].ptr \notin BlockIds /\ message' = [me EXCEPT ![n] = me[m], ![m] = Empty]
    <3>1. message \in [Messages -> MessageRecs]
      BY DEF PoolInv, Own, PoolTyped
    <3>. QED  BY <2>1, <3>1, EmptyTyped, NotBlocks
  <2>. HIDE DEF me
  <2>4. Own(central', cache', [me EXCEPT ![n] = me[m], ![m] = Empty], {}, starved)
    BY <2>1, <2>2, <2>3, MoveBlock DEF me
  <2>. QED  BY <2>1, <2>3, <2>4 DEF PoolInv
<1>2. CASE Destroy(t, m)
  BY <1>2, EmptiedKeeps DEF Destroy, PoolInv
<1>. QED  BY <1>1, <1>2

-----------------------------------------------------------------------------
(* The theorem                                                             *)

LEMMA PoolStarts == PoolInit => PoolInv
<1>. SUFFICES ASSUME PoolInit PROVE PoolInv
  OBVIOUS
<1>. DEFINE none == [slabs |-> <<>>, partial |-> <<>>, allocated |-> 0]
<1>1. /\ \A c \in Classes : central[c] = none
      /\ \A t \in Threads, c \in Classes : cache[t][c] = <<>>
      /\ \A m \in Messages : message[m] = Empty
      /\ central = [c \in Classes |-> none]
      /\ cache = [t \in Threads |-> [c \in Classes |-> <<>>]]
      /\ message = [m \in Messages |-> Empty]
  BY DEF PoolInit
<1>2. Distinct(<<>>) /\ ToSet(<<>>) = {} /\ <<>> \in Seq(BlockIds)
  BY DEF Distinct, ToSet
<1>3. none \in CentralRecs /\ none.slabs = <<>> /\ none.partial = <<>> /\ none.allocated = 0
  BY DEF CentralRecs
<1>. HIDE DEF none
<1>4. PoolTyped(central, cache, message)
  BY <1>1, <1>2, <1>3, EmptyTyped DEF PoolTyped
<1>5. \A c \in Classes : Sound(c, none) /\ OutOf(c, none) = {} /\ Len(none.slabs) <= MaxSlabs
  <2>1. MaxSlabs \in Nat
    BY PoolAssumption
  <2>2. DOMAIN none.slabs = {} /\ Len(none.slabs) = 0
    BY <1>3
  <2>. QED  BY <1>2, <1>3, <2>1, <2>2 DEF Sound, PartialOK, OutOf
<1>6. CentralsSound(central)
  BY <1>1, <1>5 DEF CentralsSound
<1>7. CachesOwn(central, cache, {})
  <2>1. \A c \in Classes : Len(<<>>) <= Table[c].batchSize
    BY ClassFacts
  <2>. QED  BY <1>1, <1>2, <2>1 DEF CachesOwn
<1>8. MessagesOwn(central, cache, message, {})
  BY <1>1, EmptyTyped, NotBlocks DEF MessagesOwn
<1>9. AllOwned(central, cache, message, {})
  BY <1>1, <1>3, <1>5, FS_EmptySet DEF AllOwned
<1>. QED  BY <1>4, <1>6, <1>7, <1>8, <1>9 DEF PoolInv, Own

\* As long as nothing undefined has happened.
DefinedInv == ~undefined => PoolInv

LEMMA PoolSteps == DefinedInv /\ [PoolNext]_poolVars => DefinedInv'
<1>. SUFFICES ASSUME DefinedInv, [PoolNext]_poolVars, ~undefined' PROVE PoolInv'
  BY DEF DefinedInv
<1>0. PoolInv
  BY DEF DefinedInv, PoolNext, poolVars
<1>1. CASE UNCHANGED poolVars
  BY <1>0, <1>1 DEF poolVars, PoolInv
<1>2. CASE PoolNext
  <2>. SUFFICES ASSUME NEW t \in Threads,
                       \/ \E m \in Messages, ty \in Types : Make(t, m, ty) \/ MakeFails(t, m, ty)
                       \/ \E m, n \in Messages : Clone(t, m, n) \/ CloneFails(t, m, n) \/ Move(t, m, n)
                       \/ \E m \in Messages : Destroy(t, m)
                       \/ ThreadEnds(t) \/ DrainDone(t) \/ \E c \in Classes : DrainBatch(t, c)
                PROVE  PoolInv'
    BY <1>2 DEF PoolNext
  <2>1. ASSUME NEW m \in Messages, NEW ty \in Types, Make(t, m, ty) \/ MakeFails(t, m, ty) PROVE PoolInv'
    BY <1>0, <2>1, MakeKeeps
  <2>2. ASSUME NEW m \in Messages, NEW n \in Messages, Clone(t, m, n) \/ CloneFails(t, m, n) PROVE PoolInv'
    BY <1>0, <2>2, CloneKeeps
  <2>3. ASSUME NEW m \in Messages, NEW n \in Messages, Move(t, m, n) \/ Destroy(t, m) PROVE PoolInv'
    BY <1>0, <2>3, MoveKeeps
  <2>4. CASE ThreadEnds(t) \/ DrainDone(t)
    BY <1>0, <2>4 DEF ThreadEnds, DrainDone, PoolInv
  <2>5. ASSUME NEW c \in Classes, DrainBatch(t, c) PROVE PoolInv'
    BY <1>0, <2>5, DrainKeeps
  <2>. QED  BY <2>1, <2>2, <2>3, <2>4, <2>5
<1>. QED  BY <1>1, <1>2

\* A set with no two members has one or none.
LEMMA AtMostOne ==
    ASSUME NEW S, \A x, y \in S : x = y
    PROVE  Cardinality(S) = IF S = {} THEN 0 ELSE 1
<1>1. CASE S = {}
  BY <1>1, FS_EmptySet
<1>2. CASE S # {}
  <2>1. PICK x : S = {x}
    BY <1>2
  <2>. QED  BY <1>2, <2>1, FS_Singleton
<1>. QED  BY <1>1, <1>2

LEMMA PoolInvSuffices == DefinedInv => PoolConsistent
<1>. SUFFICES ASSUME PoolInv PROVE BlockOwnedOnce /\ PartialListExact /\ AllocatedExact
  BY DEF DefinedInv, PoolConsistent
<1>1. /\ PoolTyped(central, cache, message) /\ CentralsSound(central)
      /\ CachesOwn(central, cache, {}) /\ MessagesOwn(central, cache, message, {})
      /\ ~starved => AllOwned(central, cache, message, {})
  BY DEF PoolInv, Own
<1>2. ASSUME NEW c \in Classes
      PROVE  /\ central[c] \in CentralRecs /\ Sound(c, central[c]) /\ Len(central[c].slabs) <= MaxSlabs
             /\ central[c].slabs \in Seq(SlabRecs) /\ central[c].partial \in Seq(Nat)
             /\ DOMAIN central[c].slabs = 1 .. Len(central[c].slabs) /\ Len(central[c].slabs) \in Nat
             /\ \A n \in DOMAIN central[c].slabs :
                   /\ central[c].slabs[n].free \in Seq(BlockIds) /\ Distinct(central[c].slabs[n].free)
                   /\ \A b \in ToSet(central[c].slabs[n].free) : b[2] = n
  <2>1. central[c] \in CentralRecs /\ Sound(c, central[c]) /\ Len(central[c].slabs) <= MaxSlabs
    BY <1>1 DEF PoolTyped, CentralsSound
  <2>2. central[c].slabs \in Seq(SlabRecs) /\ central[c].partial \in Seq(Nat)
    BY <2>1 DEF CentralRecs
  <2>3. DOMAIN central[c].slabs = 1 .. Len(central[c].slabs) /\ Len(central[c].slabs) \in Nat
    BY <2>2
  <2>4. ASSUME NEW n \in DOMAIN central[c].slabs
        PROVE  /\ central[c].slabs[n].free \in Seq(BlockIds) /\ Distinct(central[c].slabs[n].free)
               /\ \A b \in ToSet(central[c].slabs[n].free) : b[2] = n
    <3>1. central[c].slabs[n] \in SlabRecs /\ SlabOK(c, n, central[c].slabs[n])
      BY <2>1, <2>2 DEF Sound
    <3>. QED  BY <3>1 DEF SlabRecs, SlabOK
  <2>. QED  BY <2>1, <2>2, <2>3, <2>4
<1>3. ASSUME NEW c \in Classes, NEW b, b \in {c} \X Slabs(c) \X (1 .. Total(c))
      PROVE  /\ Occurs(b, central[c].slabs[b[2]].free) = IF b \in FreeIn(central[c]) THEN 1 ELSE 0
             /\ b \in FreeIn(central[c]) <=> b \notin OutOf(c, central[c])
  <2>1. b[2] \in DOMAIN central[c].slabs
    BY <1>3 DEF Slabs
  <2>2. b \in FreeIn(central[c]) <=> b \in ToSet(central[c].slabs[b[2]].free)
    BY <1>2, <2>1 DEF FreeIn
  <2>3. Occurs(b, central[c].slabs[b[2]].free) = IF b \in ToSet(central[c].slabs[b[2]].free) THEN 1 ELSE 0
    BY <1>2, <2>1, CountedOnce
  <2>. QED  BY <1>3, <2>2, <2>3 DEF OutOf, Slabs
<1>4. ASSUME NEW b \in Blocks
      PROVE  b[1] \in Classes /\ b \in {b[1]} \X Slabs(b[1]) \X (1 .. Total(b[1])) /\ b \in BlockIds
  <2>1. /\ b \in Classes \X (1 .. MaxSlabs) \X (1 .. SlabSize) /\ b[2] \in Slabs(b[1]) /\ b[3] <= Total(b[1])
    BY <1>4 DEF Blocks
  <2>2. b[1] \in Classes /\ b[2] \in Nat /\ b[3] \in Nat /\ b[3] >= 1 /\ b = <<b[1], b[2], b[3]>>
    BY <2>1, PoolAssumption
  <2>3. b[3] \in 1 .. Total(b[1]) /\ b[1] \in Nat
    BY <2>1, <2>2, ClassFacts
  <2>. QED  BY <2>1, <2>2, <2>3 DEF BlockIds
<1>5. BlockOwnedOnce
  <2>. SUFFICES ASSUME NEW b \in Blocks PROVE Places(b) <= 1 /\ (~starved => Places(b) = 1)
    BY DEF BlockOwnedOnce
  <2>. DEFINE c == b[1]
              InCache == {at \in Threads \X (1 .. MaxBatchSize) :
                             at[2] <= Len(cache[at[1]][c]) /\ cache[at[1]][c][at[2]] = b}
              InMessage == {m \in Messages : message[m].ptr = b}
              Cached == \E t \in Threads : b \in ToSet(cache[t][c])
              Held == \E m \in Messages : message[m].ptr = b
              Out == b \in OutOf(c, central[c])
  <2>1. c \in Classes /\ b \in BlockIds /\ b \in {c} \X Slabs(c) \X (1 .. Total(c))
    BY <1>4
  <2>. HIDE DEF c
  <2>2. Occurs(b, central[c].slabs[b[2]].free) = IF Out THEN 0 ELSE 1
    BY <1>3, <2>1
  <2>3. ASSUME NEW t \in Threads
        PROVE  /\ cache[t][c] \in Seq(BlockIds) /\ Distinct(cache[t][c]) /\ Len(cache[t][c]) \in Nat
               /\ DOMAIN cache[t][c] = 1 .. Len(cache[t][c])
               /\ Len(cache[t][c]) <= MaxBatchSize /\ ToSet(cache[t][c]) \subseteq OutOf(c, central[c])
               /\ \A u \in Threads \ {t} : ToSet(cache[t][c]) \cap ToSet(cache[u][c]) = {}
    <3>1. cache[t][c] \in Seq(BlockIds) /\ Len(cache[t][c]) <= Table[c].batchSize
      BY <1>1, <2>1 DEF PoolTyped, CachesOwn
    <3>2. Len(cache[t][c]) \in Nat /\ DOMAIN cache[t][c] = 1 .. Len(cache[t][c])
      BY <3>1
    <3>3. Len(cache[t][c]) <= MaxBatchSize
      BY <2>1, <3>1, <3>2, ClassFacts
    <3>. QED  BY <1>1, <2>1, <3>1, <3>2, <3>3 DEF CachesOwn
  <2>4. Cardinality(InCache) = IF Cached THEN 1 ELSE 0
    <3>1. ASSUME NEW x \in InCache
          PROVE  /\ x[1] \in Threads /\ x[2] \in DOMAIN cache[x[1]][c] /\ cache[x[1]][c][x[2]] = b
                 /\ x = <<x[1], x[2]>> /\ b \in ToSet(cache[x[1]][c])
      <4>1. x \in Threads \X (1 .. MaxBatchSize) /\ x[2] <= Len(cache[x[1]][c]) /\ cache[x[1]][c][x[2]] = b
        OBVIOUS
      <4>2. x[1] \in Threads /\ x[2] \in 1 .. MaxBatchSize /\ x = <<x[1], x[2]>>
        BY <4>1
      <4>3. x[2] \in DOMAIN cache[x[1]][c]
        BY <2>3, <4>1, <4>2
      <4>. QED  BY <4>1, <4>2, <4>3 DEF ToSet
    <3>2. ASSUME NEW x \in InCache, NEW y \in InCache PROVE x = y
      <4>1. x[1] = y[1]
        BY <2>3, <3>1
      <4>2. x[2] = y[2]
        <5>1. Distinct(cache[x[1]][c])
          BY <2>3, <3>1
        <5>. QED  BY <3>1, <4>1, <5>1 DEF Distinct
      <4>. QED  BY <3>1, <4>1, <4>2
    <3>3. InCache # {} => Cached
      BY <3>1
    <3>4. ASSUME NEW t \in Threads, b \in ToSet(cache[t][c]) PROVE InCache # {}
      <4>1. PICK i \in DOMAIN cache[t][c] : cache[t][c][i] = b
        BY <3>4 DEF ToSet
      <4>2. i \in 1 .. MaxBatchSize /\ i <= Len(cache[t][c])
        BY <2>1, <2>3, ClassFacts
      <4>3. <<t, i>> \in InCache
        BY <4>1, <4>2
      <4>. QED  BY <4>3
    <3>. HIDE DEF InCache
    <3>. QED  BY <3>2, <3>3, <3>4, AtMostOne
  <2>5. Cardinality(InMessage) = IF Held THEN 1 ELSE 0
    <3>1. \A m, n \in InMessage : m = n
      BY <1>1, <2>1 DEF MessagesOwn
    <3>2. InMessage # {} <=> Held
      OBVIOUS
    <3>. HIDE DEF InMessage
    <3>. QED  BY <3>1, <3>2, AtMostOne
  <2>6. Cached => Out
    BY <2>3
  <2>7. Held => Out /\ ~Cached
    <3>. SUFFICES ASSUME NEW m \in Messages, message[m].ptr = b PROVE Out /\ ~Cached
      OBVIOUS
    <3>. DEFINE d == Index(message[m].size)
    <3>1. /\ InPool(message[m].size) /\ b \in OutOf(d, central[d])
          /\ \A t \in Threads : b \notin ToSet(cache[t][d])
      BY <1>1, <2>1 DEF MessagesOwn
    <3>2. d \in Classes
      BY <1>1, <3>1, IndexIsClass DEF PoolTyped, MessageRecs
    <3>. HIDE DEF d
    <3>3. d = c
      BY <1>2, <3>1, <3>2, OutBlocks DEF c
    <3>. QED  BY <3>1, <3>3
  <2>8. ~starved /\ Out => Cached \/ Held
    BY <1>1, <2>1 DEF AllOwned
  <2>9. Places(b) = (IF Out THEN 0 ELSE 1) + (IF Cached THEN 1 ELSE 0) + (IF Held THEN 1 ELSE 0)
    <3>1. Places(b) = Occurs(b, central[c].slabs[b[2]].free) + Cardinality(InCache) + Cardinality(InMessage)
      BY DEF Places, c
    <3>. HIDE DEF InCache, InMessage, Cached, Held, Out
    <3>. QED  BY <2>2, <2>4, <2>5, <3>1
  <2>. HIDE DEF Cached, Held, Out
  <2>. QED  BY <2>6, <2>7, <2>8, <2>9
<1>6. PartialListExact
  <2>. SUFFICES ASSUME NEW c \in Classes
                PROVE  /\ ToSet(central[c].partial)
                            = {n \in Slabs(c) : SlabState(c, central[c].slabs[n]) = "Partial"}
                       /\ \A n \in Slabs(c) : Occurs(n, central[c].partial) <= 1
    BY DEF PartialListExact
  <2>1. PartialOK(c, central[c]) /\ central[c].partial \in Seq(Nat)
    BY <1>2 DEF Sound
  <2>2. \A n : Occurs(n, central[c].partial) <= 1
    BY <2>1, CountedOnce DEF PartialOK
  <2>. QED  BY <2>1, <2>2 DEF PartialOK, Slabs
<1>7. AllocatedExact
  <2>. SUFFICES ASSUME ~starved, NEW c \in Classes
                PROVE  central[c].allocated
                         = Cardinality({b \in Blocks : b[1] = c /\ Occurs(b, central[c].slabs[b[2]].free) = 0})
    BY DEF AllocatedExact
  <2>1. central[c].allocated = Cardinality(OutOf(c, central[c]))
    BY <1>1 DEF AllOwned
  <2>2. ASSUME NEW b \in Blocks, b[1] = c, Occurs(b, central[c].slabs[b[2]].free) = 0
        PROVE  b \in OutOf(c, central[c])
    BY <1>3, <1>4, <2>2
  <2>3. ASSUME NEW b \in OutOf(c, central[c])
        PROVE  b \in Blocks /\ b[1] = c /\ Occurs(b, central[c].slabs[b[2]].free) = 0
    <3>1. b \in {c} \X Slabs(c) \X (1 .. Total(c))
      BY DEF OutOf, Slabs
    <3>2. b[1] = c /\ b[2] \in Slabs(c) /\ b[3] \in 1 .. Total(c) /\ b = <<b[1], b[2], b[3]>>
      BY <3>1
    <3>3. b[2] \in 1 .. MaxSlabs /\ b[3] \in 1 .. SlabSize /\ b[3] <= Total(c)
      BY <1>2, <3>2, ClassFacts DEF Slabs
    <3>4. b \in Blocks
      BY <3>2, <3>3 DEF Blocks
    <3>. QED  BY <1>3, <3>1, <3>2, <3>4
  <2>4. {b \in Blocks : b[1] = c /\ Occurs(b, central[c].slabs[b[2]].free) = 0} = OutOf(c, central[c])
    BY <2>2, <2>3
  <2>. QED  BY <2>1, <2>4
<1>. QED  BY <1>5, <1>6, <1>7

\* Whichever threads fetch, return or end, a block has one owner, the partial lists and the
\* counts are exact, also after a clone that ran out of memory and until a failed make frees
\* an uninitialised pointer (CentralCache, Slab, ThreadLocalCache, Message).
THEOREM BlocksOwnedOnce == ResourcesSpec => []PoolConsistent
<1>1. ResourcesInit => DefinedInv
  BY PoolStarts DEF ResourcesInit, DefinedInv
<1>2. DefinedInv /\ [ResourcesNext]_<<part, poolVars, metricVars>> => DefinedInv'
  <2>1. [ResourcesNext]_<<part, poolVars, metricVars>> => [PoolNext]_poolVars
    BY DEF ResourcesNext
  <2>. QED  BY <2>1, PoolSteps
<1>. QED  BY <1>1, <1>2, PoolInvSuffices, PTL DEF ResourcesSpec
=============================================================================
