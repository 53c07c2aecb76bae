---------------------------- MODULE TimersProofs ----------------------------
(***************************************************************************)
(* Proofs about Timers, for any actors, delays and bounds, for both back   *)
(* ends: no pool node is used twice, the serving thread is woken in time,  *)
(* no timer fires early or too often, and none after it was cancelled.     *)
(*                                                                         *)
(* The first part says what each operation of TimerBase does to the pool,  *)
(* the free list, the heap and the id map; the second part follows the     *)
(* timers through the steps of the actors and of the serving thread.       *)
(***************************************************************************)
EXTENDS Timers, FiniteSetTheorems, SequenceTheorems, TLAPS

Node == [id : Nat, expiry : Nat, interval : Nat, repeating : BOOLEAN, alive : BOOLEAN]
IdMaps == UNION {[D -> Nat] : D \in SUBSET Nat}
Bases == [pool : Seq(Node), free : Seq(Nat), heap : SUBSET Nat, timers : IdMaps, nextId : Nat]
Nodes(b) == 1 .. Len(b.pool)

\* The earlier expiry comes first, of two equal ones the lower index.
LEMMA BeforeIsTotal ==
    ASSUME NEW b, b.pool \in Seq(Node)
    PROVE  /\ \A i, j \in Nodes(b) : i = j \/ Before(b, i, j) \/ Before(b, j, i)
           /\ \A i, j \in Nodes(b) : ~(Before(b, i, j) /\ Before(b, j, i))
           /\ \A i, j, k \in Nodes(b) : Before(b, i, j) /\ Before(b, j, k) => Before(b, i, k)
<1>1. \A i \in Nodes(b) : b.pool[i] \in Node /\ i \in Nat
  BY DEF Nodes
<1>2. \A i \in Nodes(b) : b.pool[i].expiry \in Nat /\ i \in Nat
  BY <1>1 DEF Node
<1>. QED  BY <1>2 DEF Before

\* The order in which nodes come off the heap exists: it lists each of them once.
LEMMA InOrderEnumerates ==
    ASSUME NEW b, b.pool \in Seq(Node), NEW S, S \subseteq Nodes(b)
    PROVE  /\ Cardinality(S) \in Nat
           /\ InOrder(b, S) \in [1 .. Cardinality(S) -> S]
           /\ \A i \in S : \E k \in 1 .. Cardinality(S) : InOrder(b, S)[k] = i
           /\ \A j, k \in 1 .. Cardinality(S) :
                 j < k => Before(b, InOrder(b, S)[j], InOrder(b, S)[k])
           /\ \A j, k \in 1 .. Cardinality(S) : InOrder(b, S)[j] = InOrder(b, S)[k] => j = k
<1>. DEFINE n == Cardinality(S)
            Below(i) == {j \in S : Before(b, j, i)}
            r == [i \in S |-> Cardinality(Below(i)) + 1]
            Sorted(s) == \A j, k \in 1 .. n : j < k => Before(b, s[j], s[k])
<1>1. IsFiniteSet(S) /\ n \in Nat
  <2>1. Len(b.pool) \in Nat
    OBVIOUS
  <2>2. IsFiniteSet(Nodes(b))
    BY <2>1, FS_Interval DEF Nodes
  <2>. QED  BY <2>2, FS_Subset, FS_CardinalityType
<1>2. \A i \in S : IsFiniteSet(Below(i)) /\ Cardinality(Below(i)) \in Nat /\ i \notin Below(i)
  BY <1>1, FS_Subset, FS_CardinalityType, BeforeIsTotal
<1>3. \A i \in S : r[i] \in 1 .. n
  <2>. TAKE i \in S
  <2>1. Below(i) \subseteq S \ {i}
    BY <1>2
  <2>2. IsFiniteSet(S \ {i}) /\ Cardinality(S \ {i}) = n - 1
    BY <1>1, FS_RemoveElement
  <2>. HIDE DEF Below
  <2>3. Cardinality(Below(i)) <= Cardinality(S \ {i})
    BY <2>1, <2>2, FS_Subset
  <2>. QED  BY <1>1, <1>2, <2>2, <2>3
<1>4. ASSUME NEW i \in S, NEW j \in S, Before(b, i, j)
      PROVE  r[i] < r[j]
  <2>1. Below(i) \cup {i} \subseteq Below(j)
    BY <1>4, BeforeIsTotal
  <2>. HIDE DEF Below
  <2>2. Cardinality(Below(i) \cup {i}) = Cardinality(Below(i)) + 1
    BY <1>2, FS_AddElement
  <2>3. Cardinality(Below(i) \cup {i}) <= Cardinality(Below(j))
    BY <2>1, <1>2, FS_Subset
  <2>. QED  BY <1>2, <2>2, <2>3
<1>. HIDE DEF r, Below
<1>5. r \in Injection(S, 1 .. n)
  <2>1. \A i, j \in S : r[i] = r[j] => i = j
    BY <1>3, <1>4, BeforeIsTotal
  <2>2. r \in [S -> 1 .. n]
    BY <1>3 DEF r
  <2>. QED  BY <2>1, <2>2 DEF Injection, IsInjective
<1>6. IsFiniteSet(1 .. n) /\ Cardinality(1 .. n) = n
  BY <1>1, FS_Interval
<1>7. \A k \in 1 .. n : \E i \in S : r[i] = k
  <2>1. r \in Surjection(S, 1 .. n)
    BY <1>5, <1>6, FS_Injection
  <2>. QED  BY <2>1 DEF Surjection
<1>8. \E s \in [1 .. n -> S] : Sorted(s)
  <2>. DEFINE s == [k \in 1 .. n |-> CHOOSE i \in S : r[i] = k]
  <2>1. \A k \in 1 .. n : s[k] \in S /\ r[s[k]] = k
    BY <1>7
  <2>. HIDE DEF s
  <2>2. s \in [1 .. n -> S]
    BY <2>1 DEF s
  <2>3. Sorted(s)
    <3>. SUFFICES ASSUME NEW j \in 1 .. n, NEW k \in 1 .. n, j < k
                  PROVE  Before(b, s[j], s[k])
      OBVIOUS
    <3>1. s[j] # s[k] /\ ~ Before(b, s[k], s[j])
      BY <1>4, <2>1
    <3>. QED  BY <3>1, <2>1, BeforeIsTotal
  <2>. QED  BY <2>2, <2>3
<1>. DEFINE t == InOrder(b, S)
<1>9. t \in [1 .. n -> S] /\ Sorted(t)
  BY <1>8 DEF InOrder
<1>. HIDE DEF t
<1>10. \A j, k \in 1 .. n : t[j] = t[k] => j = k
  <2>. SUFFICES ASSUME NEW j \in 1 .. n, NEW k \in 1 .. n, j < k
                PROVE  t[j] # t[k]
    OBVIOUS
  <2>. QED  BY <1>9, BeforeIsTotal
<1>11. t \in Surjection(1 .. n, S)
  <2>1. t \in Injection(1 .. n, S)
    BY <1>9, <1>10 DEF Injection, IsInjective
  <2>. QED  BY <2>1, <1>1, <1>6, FS_Injection
<1>. QED  BY <1>1, <1>9, <1>10, <1>11 DEF t, Surjection

\* A heap that is not empty has a top, and the top is before all others.
LEMMA TopIsFirst ==
    ASSUME NEW b, b.pool \in Seq(Node), b.heap \subseteq Nodes(b), b.heap # {}
    PROVE  /\ Top(b) \in b.heap
           /\ \A j \in b.heap \ {Top(b)} : Before(b, Top(b), j)
           /\ \A j \in b.heap : NextExpiry(b) <= b.pool[j].expiry
<1>. DEFINE s == InOrder(b, b.heap)
            n == Cardinality(b.heap)
<1>1. /\ n \in Nat /\ s \in [1 .. n -> b.heap]
      /\ \A i \in b.heap : \E k \in 1 .. n : s[k] = i
      /\ \A j, k \in 1 .. n : j < k => Before(b, s[j], s[k])
  BY InOrderEnumerates
<1>. HIDE DEF s, n
<1>2. 1 \in 1 .. n
  BY <1>1
<1>3. \A j \in b.heap \ {s[1]} : Before(b, s[1], j)
  BY <1>1, <1>2
<1>4. Top(b) \in b.heap /\ \A j \in b.heap \ {Top(b)} : Before(b, Top(b), j)
  BY <1>1, <1>2, <1>3 DEF Top
<1>5. \A j \in b.heap : b.pool[j] \in Node
  BY DEF Nodes
<1>6. \A j \in b.heap : b.pool[j].expiry \in Nat
  BY <1>5 DEF Node
<1>. QED  BY <1>4, <1>6 DEF Before, NextExpiry

-----------------------------------------------------------------------------
(* What the operations of TimerBase keep                                   *)

FreeOnce(b)  == \A j, k \in 1 .. Len(b.free) : b.free[j] = b.free[k] => j = k
FreeApart(b) == \A k \in 1 .. Len(b.free) :
                    /\ b.free[k] \in Nodes(b) /\ b.free[k] \notin b.heap
                    /\ \A id \in DOMAIN b.timers : b.timers[id] # b.free[k]
OwnNode(b)   == \A id \in DOMAIN b.timers :
                    /\ id \in Nat /\ 0 < id /\ id < b.nextId /\ b.timers[id] \in Nodes(b)
                    /\ b.pool[b.timers[id]].id = id /\ b.pool[b.timers[id]].alive
HeapKnown(b) == \A i \in b.heap :
                    /\ i \in Nodes(b)
                    /\ b.pool[i].alive => /\ b.pool[i].id \in DOMAIN b.timers
                                          /\ b.timers[b.pool[i].id] = i

WellFormed(b) ==
    /\ b \in Bases /\ b.nextId > 0
    /\ FreeOnce(b) /\ FreeApart(b) /\ OwnNode(b) /\ HeapKnown(b)

\* The timers of c are among those of b, with their nodes as they were.
SameTimers(b, c) ==
    \A id \in DOMAIN c.timers :
        /\ id \in DOMAIN b.timers /\ c.timers[id] = b.timers[id]
        /\ c.pool[c.timers[id]] = b.pool[b.timers[id]]

\* The heap of c is part of that of b, with the same expiries.
SameHeap(b, c) ==
    \A i \in c.heap : i \in b.heap /\ c.pool[i].expiry = b.pool[i].expiry

LEMMA BaseFields ==
    ASSUME NEW b \in Bases
    PROVE  /\ b.pool \in Seq(Node) /\ Len(b.pool) \in Nat /\ DOMAIN b.pool = Nodes(b)
           /\ b.free \in Seq(Nat) /\ Len(b.free) \in Nat /\ b.heap \subseteq Nat
           /\ b.timers \in IdMaps /\ b.nextId \in Nat
           /\ \A i \in Nodes(b) : b.pool[i] \in Node
           /\ DOMAIN b.timers \subseteq Nat
           /\ b.timers \in [DOMAIN b.timers -> Nat]
<1>1. /\ b.pool \in Seq(Node) /\ b.free \in Seq(Nat) /\ b.heap \subseteq Nat
      /\ b.timers \in IdMaps /\ b.nextId \in Nat
  BY DEF Bases
<1>2. DOMAIN b.timers \subseteq Nat /\ b.timers \in [DOMAIN b.timers -> Nat]
  BY <1>1 DEF IdMaps
<1>. QED  BY <1>1, <1>2 DEF Nodes

LEMMA RestrictedIdMap ==
    ASSUME NEW f \in IdMaps, NEW D \in SUBSET (DOMAIN f)
    PROVE  Restrict(f, D) \in IdMaps /\ DOMAIN Restrict(f, D) = D
           /\ \A x \in D : Restrict(f, D)[x] = f[x]
<1>1. DOMAIN f \subseteq Nat /\ f \in [DOMAIN f -> Nat]
  BY DEF IdMaps
<1>2. D \in SUBSET Nat /\ Restrict(f, D) \in [D -> Nat]
  BY <1>1 DEF Restrict
<1>. QED  BY <1>2 DEF IdMaps, Restrict

LEMMA PoolUpdate ==
    ASSUME NEW p \in Seq(Node), NEW q \in [1 .. Len(p) -> Node]
    PROVE  q \in Seq(Node) /\ Len(q) = Len(p)
BY SeqDef

LEMMA BlankIsNode == Blank \in Node
BY DEF Blank, Node, None

\* freeNode for nodes nothing refers to leaves the rest as it is.
LEMMA FreeNodesKeeps ==
    ASSUME NEW b, WellFormed(b), NEW S, S \subseteq Nodes(b), S \cap b.heap = {},
           \A k \in 1 .. Len(b.free) : b.free[k] \notin S,
           \A id \in DOMAIN b.timers : b.timers[id] \notin S
    PROVE  LET c == FreeNodes(b, S) IN
           /\ WellFormed(c)
           /\ c.heap = b.heap /\ c.timers = b.timers /\ c.nextId = b.nextId
           /\ Nodes(c) = Nodes(b)
           /\ \A i \in Nodes(b) \ S : c.pool[i] = b.pool[i]
<1>. DEFINE c == FreeNodes(b, S)
            s == InOrder(b, S)
            n == Cardinality(S)
            q == [i \in DOMAIN b.pool |-> IF i \in S THEN Blank ELSE b.pool[i]]
<1>1. b \in Bases /\ b.nextId > 0 /\ FreeOnce(b) /\ FreeApart(b) /\ OwnNode(b) /\ HeapKnown(b)
  BY DEF WellFormed
<1>0. /\ b.pool \in Seq(Node) /\ Len(b.pool) \in Nat /\ DOMAIN b.pool = Nodes(b)
      /\ b.free \in Seq(Nat) /\ Len(b.free) \in Nat
      /\ \A i \in Nodes(b) : b.pool[i] \in Node
  BY <1>1, BaseFields
<1>2. /\ n \in Nat /\ s \in [1 .. n -> S]
      /\ \A j, k \in 1 .. n : s[j] = s[k] => j = k
  BY <1>0, InOrderEnumerates
<1>. HIDE DEF s, n
<1>3. s \in Seq(Nat) /\ Len(s) = n
  <2>1. s \in [1 .. n -> Nat]
    <3>1. S \subseteq Nat
      BY <1>0 DEF Nodes
    <3>. QED  BY <3>1, <1>2
  <2>. QED  BY <1>2, <2>1, SeqDef
<1>4. q \in Seq(Node) /\ Len(q) = Len(b.pool)
  <2>1. q \in [1 .. Len(b.pool) -> Node]
    BY <1>0, BlankIsNode DEF Nodes
  <2>. QED  BY <2>1, <1>0, PoolUpdate
<1>5. \A i \in Nodes(b) \ S : q[i] = b.pool[i]
  BY <1>0
<1>. HIDE DEF q
<1>6. /\ c.pool = q /\ c.free = b.free \o s
      /\ c.heap = b.heap /\ c.timers = b.timers /\ c.nextId = b.nextId
  BY <1>1 DEF FreeNodes, Bases, q, s
<1>7. c.free \in Seq(Nat) /\ c.pool \in Seq(Node)
  BY <1>0, <1>3, <1>4, <1>6
<1>8. c \in Bases
  BY <1>1, <1>7 DEF FreeNodes, Bases, q, s, c
<1>. HIDE DEF c
<1>9. Nodes(c) = Nodes(b)
  BY <1>4, <1>6 DEF Nodes
<1>10. /\ Len(c.free) = Len(b.free) + n
       /\ \A k \in 1 .. Len(b.free) + n :
             c.free[k] = IF k <= Len(b.free) THEN b.free[k] ELSE s[k - Len(b.free)]
  <2>1. /\ Len(b.free \o s) = Len(b.free) + Len(s)
        /\ \A k \in 1 .. Len(b.free) + Len(s) :
             (b.free \o s)[k] = IF k <= Len(b.free) THEN b.free[k] ELSE s[k - Len(b.free)]
    BY <1>0, <1>3, ConcatProperties
  <2>. QED  BY <2>1, <1>3, <1>6
<1>11. ASSUME NEW k \in 1 .. Len(c.free)
       PROVE  \/ k \in 1 .. Len(b.free) /\ c.free[k] = b.free[k]
              \/ /\ k > Len(b.free) /\ k - Len(b.free) \in 1 .. n
                 /\ c.free[k] = s[k - Len(b.free)] /\ c.free[k] \in S
  <2>1. k \in 1 .. Len(b.free) + n
    BY <1>10
  <2>2. CASE k <= Len(b.free)
    BY <2>1, <2>2, <1>0, <1>2, <1>10
  <2>3. CASE ~(k <= Len(b.free))
    <3>1. k > Len(b.free) /\ k - Len(b.free) \in 1 .. n
      BY <2>1, <2>3, <1>0, <1>2
    <3>2. c.free[k] = s[k - Len(b.free)]
      BY <2>1, <2>3, <1>10
    <3>. QED  BY <3>1, <3>2, <1>2
  <2>. QED  BY <2>2, <2>3
<1>12. FreeOnce(c)
  <2>. SUFFICES ASSUME NEW j \in 1 .. Len(c.free), NEW k \in 1 .. Len(c.free), c.free[j] = c.free[k]
                PROVE  j = k
    BY DEF FreeOnce
  <2>0. j \in Nat /\ k \in Nat /\ Len(b.free) \in Nat
    BY <1>0, <1>2, <1>10
  <2>1. CASE c.free[j] \in S
    <3>1. /\ j - Len(b.free) \in 1 .. n /\ c.free[j] = s[j - Len(b.free)]
          /\ k - Len(b.free) \in 1 .. n /\ c.free[k] = s[k - Len(b.free)]
      BY <2>1, <1>11
    <3>2. j - Len(b.free) = k - Len(b.free)
      BY <3>1, <1>2
    <3>. QED  BY <2>0, <3>2
  <2>2. CASE c.free[j] \notin S
    BY <2>2, <1>1, <1>11 DEF FreeOnce
  <2>. QED  BY <2>1, <2>2
<1>13. FreeApart(c)
  BY <1>1, <1>6, <1>9, <1>11 DEF FreeApart
<1>14. OwnNode(c)
  BY <1>1, <1>5, <1>6, <1>9 DEF OwnNode
<1>15. HeapKnown(c)
  BY <1>1, <1>5, <1>6, <1>9 DEF HeapKnown
<1>. QED  BY <1>1, <1>5, <1>6, <1>8, <1>9, <1>12, <1>13, <1>14, <1>15 DEF WellFormed, c

\* The heap may lose nodes, live or dead.
LEMMA HeapShrinks ==
    ASSUME NEW b, WellFormed(b), NEW D
    PROVE  LET d == [b EXCEPT !.heap = @ \ D] IN
           /\ WellFormed(d) /\ d.pool = b.pool /\ d.free = b.free /\ d.heap = b.heap \ D
           /\ d.timers = b.timers /\ d.nextId = b.nextId /\ Nodes(d) = Nodes(b)
<1>. DEFINE d == [b EXCEPT !.heap = @ \ D]
<1>1. b \in Bases
  BY DEF WellFormed
<1>2. /\ d \in Bases /\ d.pool = b.pool /\ d.free = b.free /\ d.heap = b.heap \ D
      /\ d.timers = b.timers /\ d.nextId = b.nextId
  BY <1>1 DEF Bases
<1>. HIDE DEF d
<1>3. Nodes(d) = Nodes(b)
  BY <1>2 DEF Nodes
<1>4. FreeOnce(d) /\ FreeApart(d) /\ OwnNode(d) /\ HeapKnown(d)
  BY <1>2, <1>3 DEF WellFormed, FreeOnce, FreeApart, OwnNode, HeapKnown
<1>. QED  BY <1>2, <1>3, <1>4 DEF WellFormed, d

\* purgeDeadEntries gives dead nodes back and leaves a live one at the top, if any.
LEMMA PurgeKeeps ==
    ASSUME NEW b, WellFormed(b)
    PROVE  LET c == PurgeDead(b) IN
           /\ WellFormed(c) /\ SameTimers(b, c) /\ SameHeap(b, c)
           /\ c.timers = b.timers /\ c.nextId = b.nextId
           /\ \A i \in b.heap : b.pool[i].alive => i \in c.heap
           /\ c.heap # {} => HasLiveTop(c)
<1>. DEFINE dead == {i \in b.heap : ~b.pool[i].alive
                         /\ \A j \in b.heap : b.pool[j].alive => Before(b, i, j)}
            d == [b EXCEPT !.heap = @ \ dead]
            c == FreeNodes(d, dead)
<1>1. b \in Bases /\ FreeApart(b) /\ OwnNode(b) /\ HeapKnown(b)
  BY DEF WellFormed
<1>2. /\ dead \subseteq b.heap /\ \A i \in dead : ~b.pool[i].alive
      /\ \A i \in b.heap \ dead : ~b.pool[i].alive
             => \E j \in b.heap : b.pool[j].alive /\ ~Before(b, i, j)
      /\ \A i \in b.heap : b.pool[i].alive => i \notin dead
  OBVIOUS
<1>. HIDE DEF dead
<1>3. /\ WellFormed(d) /\ d.pool = b.pool /\ d.free = b.free /\ d.heap = b.heap \ dead
      /\ d.timers = b.timers /\ d.nextId = b.nextId /\ Nodes(d) = Nodes(b)
  BY HeapShrinks
<1>. HIDE DEF d
<1>4. /\ dead \subseteq Nodes(d) /\ dead \cap d.heap = {}
      /\ \A k \in 1 .. Len(d.free) : d.free[k] \notin dead
      /\ \A id \in DOMAIN d.timers : d.timers[id] \notin dead
  BY <1>1, <1>2, <1>3 DEF HeapKnown, FreeApart, OwnNode
<1>5. /\ WellFormed(c) /\ c.heap = d.heap /\ c.timers = d.timers /\ c.nextId = d.nextId
      /\ Nodes(c) = Nodes(d) /\ \A i \in Nodes(d) \ dead : c.pool[i] = d.pool[i]
  BY <1>3, <1>4, FreeNodesKeeps
<1>6. c = PurgeDead(b)
  BY DEF PurgeDead, c, d, dead
<1>. HIDE DEF c
<1>7. /\ c.heap \subseteq Nodes(c)
      /\ \A i \in c.heap : i \in b.heap /\ i \notin dead /\ c.pool[i] = b.pool[i]
  BY <1>1, <1>3, <1>5 DEF HeapKnown
<1>8. ASSUME c.heap # {}
      PROVE  HasLiveTop(c)
  <2>. DEFINE t == Top(c)
  <2>1. c.pool \in Seq(Node) /\ b.pool \in Seq(Node)
    BY <1>1, <1>5, BaseFields DEF WellFormed
  <2>2. t \in c.heap /\ \A j \in c.heap \ {t} : Before(c, t, j)
    BY <2>1, <1>7, <1>8, TopIsFirst
  <2>. HIDE DEF t
  <2>3. SUFFICES ASSUME ~c.pool[t].alive
                 PROVE  FALSE
    BY <1>8 DEF HasLiveTop, t
  <2>4. PICK j \in b.heap : b.pool[j].alive /\ ~Before(b, t, j)
    BY <2>2, <2>3, <1>2, <1>7
  <2>5. j \in c.heap /\ j # t
    BY <2>2, <2>3, <2>4, <1>2, <1>3, <1>5, <1>7
  <2>6. Before(c, t, j) /\ c.pool[t] = b.pool[t] /\ c.pool[j] = b.pool[j]
    BY <2>2, <2>5, <1>7
  <2>. QED  BY <2>4, <2>6 DEF Before
<1>9. SameTimers(b, c)
  BY <1>1, <1>3, <1>4, <1>5 DEF SameTimers, OwnNode
<1>10. SameHeap(b, c)
  BY <1>7 DEF SameHeap
<1>11. \A i \in b.heap : b.pool[i].alive => i \in c.heap
  BY <1>2, <1>3, <1>5
<1>. QED  BY <1>3, <1>5, <1>6, <1>8, <1>9, <1>10, <1>11

\* cancel takes the id out of the map and its node out of use.
LEMMA EraseKeeps ==
    ASSUME NEW b, WellFormed(b), NEW id
    PROVE  LET c == Erase(b, id) IN
           /\ WellFormed(c) /\ SameTimers(b, c) /\ SameHeap(b, c) /\ c.nextId = b.nextId
           /\ DOMAIN c.timers = DOMAIN b.timers \ {id}
<1>1. CASE id \notin DOMAIN b.timers
  BY <1>1 DEF Erase, SameTimers, SameHeap
<1>2. CASE id \in DOMAIN b.timers
  <2>. DEFINE x == b.timers[id]
              q == [b.pool EXCEPT ![x].alive = FALSE]
              m == Restrict(b.timers, DOMAIN b.timers \ {id})
              d == [b EXCEPT !.pool[x].alive = FALSE, !.timers = m]
              c == PurgeDead(d)
  <2>1. /\ b \in Bases /\ b.nextId > 0
        /\ FreeOnce(b) /\ FreeApart(b) /\ OwnNode(b) /\ HeapKnown(b)
    BY DEF WellFormed
  <2>2. /\ b.pool \in Seq(Node) /\ Len(b.pool) \in Nat /\ DOMAIN b.pool = Nodes(b)
        /\ b.timers \in IdMaps /\ \A i \in Nodes(b) : b.pool[i] \in Node
    BY <2>1, BaseFields
  <2>3. x \in Nodes(b) /\ \A j \in DOMAIN b.timers : b.timers[j] = x => j = id
    BY <1>2, <2>1 DEF OwnNode
  <2>4. m \in IdMaps /\ DOMAIN m = DOMAIN b.timers \ {id} /\ \A j \in DOMAIN m : m[j] = b.timers[j]
    BY <2>2, RestrictedIdMap
  <2>5. q \in Seq(Node) /\ Len(q) = Len(b.pool)
    <3>1. [b.pool[x] EXCEPT !.alive = FALSE] \in Node
      BY <2>2, <2>3 DEF Node
    <3>2. q \in [1 .. Len(b.pool) -> Node]
      BY <2>2, <3>1 DEF Nodes
    <3>. QED  BY <2>2, <3>2, PoolUpdate
  <2>6. /\ \A i \in Nodes(b) : i # x => q[i] = b.pool[i]
        /\ q[x].alive = FALSE /\ q[x].expiry = b.pool[x].expiry
    BY <2>2, <2>3 DEF Node
  <2>. HIDE DEF q, m, x
  <2>7. /\ d.pool = q /\ d.free = b.free /\ d.heap = b.heap /\ d.timers = m
        /\ d.nextId = b.nextId /\ d \in Bases
    BY <2>1, <2>4, <2>5 DEF Bases, q
  <2>8. Erase(b, id) = c
    BY <1>2 DEF Erase, m, x
  <2>. HIDE DEF d, c
  <2>9. Nodes(d) = Nodes(b)
    BY <2>5, <2>7 DEF Nodes
  <2>10. FreeOnce(d) /\ FreeApart(d)
    BY <2>1, <2>4, <2>7, <2>9 DEF FreeOnce, FreeApart
  <2>11. OwnNode(d) /\ SameTimers(b, d)
    BY <2>1, <2>3, <2>4, <2>6, <2>7, <2>9 DEF OwnNode, SameTimers
  <2>12. HeapKnown(d)
    <3>. SUFFICES ASSUME NEW i \in b.heap
                  PROVE  /\ i \in Nodes(b)
                         /\ q[i].alive => q[i].id \in DOMAIN m /\ m[q[i].id] = i
      BY <2>7, <2>9 DEF HeapKnown
    <3>1. i \in Nodes(b)
      BY <2>1 DEF HeapKnown
    <3>2. ASSUME q[i].alive
          PROVE  q[i].id \in DOMAIN m /\ m[q[i].id] = i
      <4>1. i # x /\ q[i] = b.pool[i]
        BY <3>1, <3>2, <2>6
      <4>2. b.pool[i].id \in DOMAIN b.timers /\ b.timers[b.pool[i].id] = i
        BY <3>2, <4>1, <2>1 DEF HeapKnown
      <4>3. b.pool[i].id # id
        BY <4>1, <4>2 DEF x
      <4>. QED  BY <4>1, <4>2, <4>3, <2>4
    <3>. QED  BY <3>1, <3>2
  <2>13. WellFormed(d)
    BY <2>1, <2>7, <2>10, <2>11, <2>12 DEF WellFormed
  <2>14. /\ WellFormed(c) /\ SameTimers(d, c) /\ SameHeap(d, c)
         /\ c.timers = d.timers /\ c.nextId = d.nextId
    BY <2>13, PurgeKeeps DEF c
  <2>15. SameTimers(b, c)
    BY <2>11, <2>14 DEF SameTimers
  <2>16. SameHeap(b, c)
    <3>1. \A i \in b.heap : d.pool[i].expiry = b.pool[i].expiry
      BY <2>1, <2>6, <2>7 DEF HeapKnown
    <3>. QED  BY <3>1, <2>7, <2>14 DEF SameHeap
  <2>. QED  BY <2>4, <2>7, <2>8, <2>14, <2>15, <2>16
<1>. QED  BY <1>1, <1>2

\* allocNode returns a node that nothing refers to.
LEMMA AllocKeeps ==
    ASSUME NEW b, WellFormed(b)
    PROVE  LET c == AllocNode(b)
               x == AllocIndex(b)
           IN  /\ WellFormed(c) /\ c.heap = b.heap /\ c.timers = b.timers /\ c.nextId = b.nextId
               /\ x \in Nodes(c) /\ x \notin b.heap /\ \A id \in DOMAIN b.timers : b.timers[id] # x
               /\ \A k \in 1 .. Len(c.free) : c.free[k] # x
               /\ \A i \in Nodes(b) : i \in Nodes(c) /\ c.pool[i] = b.pool[i]
<1>1. /\ b \in Bases /\ b.nextId > 0
      /\ FreeOnce(b) /\ FreeApart(b) /\ OwnNode(b) /\ HeapKnown(b)
  BY DEF WellFormed
<1>2. /\ b.pool \in Seq(Node) /\ Len(b.pool) \in Nat /\ DOMAIN b.pool = Nodes(b)
      /\ b.free \in Seq(Nat) /\ Len(b.free) \in Nat
  BY <1>1, BaseFields
<1>3. CASE b.free # <<>>
  <2>. DEFINE f == SubSeq(b.free, 1, Len(b.free) - 1)
              c == [b EXCEPT !.free = f]
              x == b.free[Len(b.free)]
  <2>1. Len(b.free) \in 1 .. Len(b.free)
    BY <1>2, <1>3
  <2>2. /\ f \in Seq(Nat) /\ Len(f) = Len(b.free) - 1
        /\ \A k \in 1 .. Len(f) : k \in 1 .. Len(b.free) /\ k # Len(b.free) /\ f[k] = b.free[k]
    BY <1>2, <2>1
  <2>. HIDE DEF f
  <2>3. /\ c \in Bases /\ c.pool = b.pool /\ c.free = f /\ c.heap = b.heap
        /\ c.timers = b.timers /\ c.nextId = b.nextId
    BY <1>1, <2>2 DEF Bases
  <2>4. AllocNode(b) = c /\ AllocIndex(b) = x
    BY <1>3 DEF AllocNode, AllocIndex, Front, Last, f
  <2>. HIDE DEF c
  <2>5. Nodes(c) = Nodes(b)
    BY <2>3 DEF Nodes
  <2>6. /\ x \in Nodes(b) /\ x \notin b.heap /\ \A id \in DOMAIN b.timers : b.timers[id] # x
    BY <1>1, <2>1 DEF FreeApart
  <2>7. \A k \in 1 .. Len(f) : f[k] # x
    BY <1>1, <2>1, <2>2 DEF FreeOnce
  <2>8. FreeOnce(c)
    BY <1>1, <2>2, <2>3 DEF FreeOnce
  <2>9. FreeApart(c)
    BY <1>1, <2>2, <2>3, <2>5 DEF FreeApart
  <2>10. OwnNode(c) /\ HeapKnown(c)
    BY <1>1, <2>3, <2>5 DEF OwnNode, HeapKnown
  <2>. QED  BY <1>1, <2>3, <2>4, <2>5, <2>6, <2>7, <2>8, <2>9, <2>10 DEF WellFormed
<1>4. CASE b.free = <<>>
  <2>. DEFINE p == Append(b.pool, Blank)
              c == [b EXCEPT !.pool = p]
              x == Len(b.pool) + 1
  <2>1. /\ p \in Seq(Node) /\ Len(p) = Len(b.pool) + 1
        /\ \A i \in 1 .. Len(b.pool) : p[i] = b.pool[i]
    BY <1>2, BlankIsNode
  <2>. HIDE DEF p
  <2>2. /\ c \in Bases /\ c.pool = p /\ c.free = b.free /\ c.heap = b.heap
        /\ c.timers = b.timers /\ c.nextId = b.nextId
    BY <1>1, <2>1 DEF Bases
  <2>3. AllocNode(b) = c /\ AllocIndex(b) = x
    BY <1>4 DEF AllocNode, AllocIndex, p
  <2>. HIDE DEF c
  <2>4. /\ x \in Nodes(c) /\ x \notin Nodes(b)
        /\ \A i \in Nodes(b) : i \in Nodes(c) /\ c.pool[i] = b.pool[i]
    BY <1>2, <2>1, <2>2 DEF Nodes
  <2>5. Len(c.free) = 0 /\ FreeOnce(c) /\ FreeApart(c)
    BY <1>4, <2>2 DEF FreeOnce, FreeApart
  <2>6. OwnNode(c)
    BY <1>1, <2>2, <2>4 DEF OwnNode
  <2>7. HeapKnown(c)
    BY <1>1, <2>2, <2>4 DEF HeapKnown
  <2>8. x \notin b.heap /\ \A id \in DOMAIN b.timers : b.timers[id] # x
    BY <1>1, <2>4 DEF OwnNode, HeapKnown
  <2>. QED  BY <1>1, <2>2, <2>3, <2>4, <2>5, <2>6, <2>7, <2>8 DEF WellFormed
<1>. QED  BY <1>3, <1>4

\* add puts a new node with a new id into the heap and the map.
LEMMA InsertKeeps ==
    ASSUME NEW b, WellFormed(b), now \in Nat, NEW delay \in Nat, NEW repeating,
           repeating \in BOOLEAN
    PROVE  LET c == Insert(b, delay, repeating)
               x == c.timers[b.nextId]
           IN  /\ WellFormed(c) /\ c.nextId = b.nextId + 1
               /\ DOMAIN c.timers = DOMAIN b.timers \cup {b.nextId} /\ b.nextId \notin DOMAIN b.timers
               /\ \A id \in DOMAIN b.timers :
                     c.timers[id] = b.timers[id] /\ c.pool[c.timers[id]] = b.pool[b.timers[id]]
               /\ c.heap = b.heap \cup {x} /\ \A i \in b.heap : c.pool[i] = b.pool[i]
               /\ \A id \in DOMAIN b.timers : b.timers[id] # x
               /\ c.pool[x].expiry = now + delay /\ c.pool[x].interval = delay
               /\ c.pool[x].repeating = repeating /\ c.pool[x].alive
<1>. DEFINE a == AllocNode(b)
            x == AllocIndex(b)
            node == [id |-> b.nextId, expiry |-> now + delay, interval |-> delay,
                     repeating |-> repeating, alive |-> TRUE]
            m == [id \in DOMAIN b.timers \cup {b.nextId} |->
                      IF id = b.nextId THEN x ELSE b.timers[id]]
            q == [a.pool EXCEPT ![x] = node]
            c == Insert(b, delay, repeating)
<1>1. /\ b \in Bases /\ b.nextId > 0 /\ OwnNode(b) /\ HeapKnown(b)
  BY DEF WellFormed
<1>2. b.nextId \in Nat /\ DOMAIN b.timers \subseteq Nat /\ b.timers \in [DOMAIN b.timers -> Nat]
  BY <1>1, BaseFields
<1>3. /\ WellFormed(a) /\ a.heap = b.heap /\ a.timers = b.timers /\ a.nextId = b.nextId
      /\ x \in Nodes(a) /\ x \notin b.heap /\ \A id \in DOMAIN b.timers : b.timers[id] # x
      /\ \A k \in 1 .. Len(a.free) : a.free[k] # x
      /\ \A i \in Nodes(b) : i \in Nodes(a) /\ a.pool[i] = b.pool[i]
  BY AllocKeeps
<1>. HIDE DEF a, x
<1>4. a \in Bases /\ FreeOnce(a) /\ FreeApart(a) /\ OwnNode(a) /\ HeapKnown(a)
  BY <1>3 DEF WellFormed
<1>5. /\ a.pool \in Seq(Node) /\ Len(a.pool) \in Nat /\ DOMAIN a.pool = Nodes(a)
      /\ \A i \in Nodes(a) : a.pool[i] \in Node
  BY <1>4, BaseFields
<1>6. node \in Node
  BY <1>2 DEF Node
<1>. HIDE DEF node
<1>7. /\ q \in Seq(Node) /\ Len(q) = Len(a.pool)
      /\ q[x] = node /\ \A i \in Nodes(a) : i # x => q[i] = a.pool[i]
  <2>1. q \in [1 .. Len(a.pool) -> Node]
    BY <1>5, <1>6 DEF Nodes
  <2>. QED  BY <2>1, <1>3, <1>5, PoolUpdate DEF Nodes
<1>8. b.nextId \notin DOMAIN b.timers
  BY <1>1, <1>2 DEF OwnNode
<1>9. /\ m \in IdMaps /\ DOMAIN m = DOMAIN b.timers \cup {b.nextId} /\ m[b.nextId] = x
      /\ \A id \in DOMAIN b.timers : m[id] = b.timers[id]
  <2>1. x \in Nat
    BY <1>3, <1>5 DEF Nodes
  <2>2. m \in [DOMAIN b.timers \cup {b.nextId} -> Nat]
    BY <1>2, <2>1
  <2>. QED  BY <1>2, <1>8, <2>2 DEF IdMaps
<1>. HIDE DEF q, m
<1>10. /\ c.pool = q /\ c.free = a.free /\ c.heap = b.heap \cup {x} /\ c.timers = m
       /\ c.nextId = b.nextId + 1
  BY <1>3, <1>4 DEF Insert, Bases, q, m, a, x, node
<1>11. c \in Bases
  <2>1. x \in Nat /\ b.nextId + 1 \in Nat
    BY <1>2, <1>3, <1>5 DEF Nodes
  <2>2. c = [a EXCEPT !.pool = q, !.heap = @ \cup {x}, !.timers = m, !.nextId = @ + 1]
    BY <1>4 DEF Insert, Bases, q, m, a, x, node
  <2>. HIDE DEF c
  <2>. QED  BY <1>3, <1>4, <1>7, <1>9, <2>1, <2>2 DEF Bases
<1>. HIDE DEF c
<1>12. Nodes(c) = Nodes(a)
  BY <1>7, <1>10 DEF Nodes
<1>13. FreeOnce(c)
  BY <1>4, <1>10 DEF FreeOnce
<1>14. FreeApart(c)
  BY <1>3, <1>4, <1>9, <1>10, <1>12 DEF FreeApart
<1>15. \A id \in DOMAIN b.timers : b.timers[id] \in Nodes(b) /\ b.timers[id] # x
                                     /\ q[b.timers[id]] = b.pool[b.timers[id]]
  BY <1>1, <1>3, <1>7 DEF OwnNode
<1>16. \A i \in b.heap : i \in Nodes(b) /\ i \in Nodes(a) /\ i # x /\ q[i] = b.pool[i]
  BY <1>1, <1>3, <1>7 DEF HeapKnown
<1>17. OwnNode(c)
  <2>. SUFFICES ASSUME NEW id \in DOMAIN m
                PROVE  /\ id \in Nat /\ 0 < id /\ id < b.nextId + 1 /\ m[id] \in Nodes(a)
                       /\ q[m[id]].id = id /\ q[m[id]].alive
    BY <1>10, <1>12 DEF OwnNode
  <2>1. CASE id = b.nextId
    BY <2>1, <1>1, <1>2, <1>3, <1>7, <1>9 DEF node
  <2>2. CASE id \in DOMAIN b.timers
    <3>1. m[id] = b.timers[id] /\ q[m[id]] = b.pool[b.timers[id]] /\ m[id] \in Nodes(a)
      BY <2>2, <1>3, <1>9, <1>15
    <3>. QED  BY <2>2, <3>1, <1>1, <1>2 DEF OwnNode
  <2>. QED  BY <2>1, <2>2, <1>9
<1>18. HeapKnown(c)
  <2>. SUFFICES ASSUME NEW i \in b.heap \cup {x}
                PROVE  /\ i \in Nodes(a)
                       /\ q[i].alive => q[i].id \in DOMAIN m /\ m[q[i].id] = i
    BY <1>10, <1>12 DEF HeapKnown
  <2>1. CASE i = x
    BY <2>1, <1>3, <1>7, <1>9 DEF node
  <2>2. CASE i \in b.heap
    BY <2>2, <1>1, <1>9, <1>16 DEF HeapKnown
  <2>. QED  BY <2>1, <2>2
<1>19. WellFormed(c)
  BY <1>1, <1>2, <1>10, <1>11, <1>13, <1>14, <1>17, <1>18 DEF WellFormed
<1>. QED  BY <1>3, <1>7, <1>8, <1>9, <1>10, <1>15, <1>16, <1>19 DEF c, node

\* The first section of executeExpiredTimers takes what is due out of the heap.
LEMMA CollectKeeps ==
    ASSUME NEW b, WellFormed(b)
    PROVE  LET c == Collect(b) IN
           /\ WellFormed(c) /\ SameTimers(b, c) /\ SameHeap(b, c)
           /\ c.timers = b.timers /\ c.nextId = b.nextId /\ c.heap = b.heap \ Due(b)
<1>. DEFINE S == {i \in Due(b) : ~b.pool[i].alive}
            d == [b EXCEPT !.heap = @ \ Due(b)]
            c == FreeNodes(d, S)
<1>1. FreeApart(b) /\ OwnNode(b) /\ HeapKnown(b)
  BY DEF WellFormed
<1>2. S \subseteq b.heap /\ S \subseteq Due(b) /\ \A i \in S : ~b.pool[i].alive
  BY DEF Due
<1>. HIDE DEF S
<1>3. /\ WellFormed(d) /\ d.pool = b.pool /\ d.free = b.free /\ d.heap = b.heap \ Due(b)
      /\ d.timers = b.timers /\ d.nextId = b.nextId /\ Nodes(d) = Nodes(b)
  BY HeapShrinks
<1>. HIDE DEF d
<1>4. /\ S \subseteq Nodes(d) /\ S \cap d.heap = {}
      /\ \A k \in 1 .. Len(d.free) : d.free[k] \notin S
      /\ \A id \in DOMAIN d.timers : d.timers[id] \notin S
  BY <1>1, <1>2, <1>3 DEF HeapKnown, FreeApart, OwnNode
<1>5. /\ WellFormed(c) /\ c.heap = d.heap /\ c.timers = d.timers /\ c.nextId = d.nextId
      /\ \A i \in Nodes(d) \ S : c.pool[i] = d.pool[i]
  BY <1>3, <1>4, FreeNodesKeeps
<1>6. c = Collect(b)
  BY DEF Collect, c, d, S
<1>. HIDE DEF c
<1>7. SameTimers(b, c)
  BY <1>1, <1>3, <1>4, <1>5 DEF SameTimers, OwnNode
<1>8. SameHeap(b, c)
  BY <1>1, <1>2, <1>3, <1>5 DEF SameHeap, HeapKnown
<1>. QED  BY <1>3, <1>5, <1>6, <1>7, <1>8

Collected(b) ==
    LET live == InOrder(b, {i \in Due(b) : b.pool[i].alive})
    IN  [k \in DOMAIN live |-> b.pool[live[k]].id]

\* The vector ready holds ids of known timers that are due, each once.
LEMMA CollectedIds ==
    ASSUME NEW b, WellFormed(b)
    PROVE  /\ Collected(b) \in Seq(Nat)
           /\ \A j, k \in 1 .. Len(Collected(b)) : Collected(b)[j] = Collected(b)[k] => j = k
           /\ \A k \in 1 .. Len(Collected(b)) :
                 /\ Collected(b)[k] \in DOMAIN b.timers
                 /\ b.timers[Collected(b)[k]] \in Due(b)
<1>. DEFINE S == {i \in Due(b) : b.pool[i].alive}
            s == InOrder(b, S)
            n == Cardinality(S)
            r == [k \in DOMAIN s |-> b.pool[s[k]].id]
<1>1. b \in Bases /\ OwnNode(b) /\ HeapKnown(b)
  BY DEF WellFormed
<1>2. b.pool \in Seq(Node) /\ S \subseteq Nodes(b)
  BY <1>1, BaseFields DEF HeapKnown, Due
<1>3. \A i \in S : /\ i \in Due(b) /\ b.pool[i].id \in DOMAIN b.timers
                   /\ b.timers[b.pool[i].id] = i /\ b.pool[i].id \in Nat
  BY <1>1 DEF HeapKnown, OwnNode, Due
<1>. HIDE DEF S
<1>4. /\ n \in Nat /\ s \in [1 .. n -> S]
      /\ \A j, k \in 1 .. n : s[j] = s[k] => j = k
  BY <1>2, InOrderEnumerates
<1>. HIDE DEF s, n
<1>5. r \in [1 .. n -> Nat] /\ \A k \in 1 .. n : r[k] = b.pool[s[k]].id /\ s[k] \in S
  BY <1>3, <1>4
<1>6. Collected(b) = r
  BY DEF Collected, S, s, r
<1>. HIDE DEF r
<1>7. r \in Seq(Nat) /\ Len(r) = n
  BY <1>4, <1>5, SeqDef
<1>8. \A k \in 1 .. n : r[k] \in DOMAIN b.timers /\ b.timers[r[k]] = s[k] /\ s[k] \in Due(b)
  BY <1>3, <1>5
<1>. QED  BY <1>4, <1>6, <1>7, <1>8

LEMMA LaterNode ==
    ASSUME NEW x \in Node
    PROVE  LET y == [x EXCEPT !.expiry = @ + x.interval] IN
           /\ y \in Node /\ y.id = x.id /\ y.alive = x.alive
           /\ y.expiry = x.expiry + x.interval /\ y.interval = x.interval
           /\ y.repeating = x.repeating
<1>1. x.expiry \in Nat /\ x.interval \in Nat /\ x.expiry + x.interval \in Nat
  BY DEF Node
<1>. QED  BY <1>1 DEF Node

\* The last section arms the repeating timers again and forgets the others.
LEMMA RearmKeeps ==
    ASSUME NEW b, WellFormed(b), NEW ready \in Seq(Nat),
           \A k \in 1 .. Len(ready) :
               ready[k] \in DOMAIN b.timers => b.timers[ready[k]] \notin b.heap
    PROVE  LET c == Rearm(b, ready) IN
           /\ WellFormed(c) /\ c.nextId = b.nextId
           /\ \A id \in DOMAIN c.timers :
                 /\ id \in DOMAIN b.timers /\ c.timers[id] = b.timers[id]
                 /\ id \notin ToSet(ready) => c.pool[c.timers[id]] = b.pool[b.timers[id]]
                 /\ id \in ToSet(ready) =>
                       /\ b.pool[b.timers[id]].repeating
                       /\ c.pool[c.timers[id]] =
                             [b.pool[b.timers[id]] EXCEPT !.expiry = @ + b.pool[b.timers[id]].interval]
<1>. DEFINE known == Known(b, ready)
            again == {i \in known : b.pool[i].repeating /\ b.pool[i].alive}
            over == known \ again
            q == Later(b, again)
            m == Restrict(b.timers, {id \in DOMAIN b.timers : b.timers[id] \notin over})
            d == [b EXCEPT !.pool = q, !.heap = @ \cup again, !.timers = m]
            c == FreeNodes(d, over)
<1>1. /\ b \in Bases /\ b.nextId > 0
      /\ FreeOnce(b) /\ FreeApart(b) /\ OwnNode(b) /\ HeapKnown(b)
  BY DEF WellFormed
<1>2. /\ b.pool \in Seq(Node) /\ Len(b.pool) \in Nat /\ DOMAIN b.pool = Nodes(b)
      /\ b.timers \in IdMaps /\ \A i \in Nodes(b) : b.pool[i] \in Node
      /\ b.heap \subseteq Nat
  BY <1>1, BaseFields
<1>3. /\ \A i \in known : /\ i \in Nodes(b) /\ i \notin b.heap /\ b.pool[i].alive
                          /\ b.pool[i].id \in DOMAIN b.timers /\ b.timers[b.pool[i].id] = i
                          /\ \A k \in 1 .. Len(b.free) : b.free[k] # i
      /\ \A id \in DOMAIN b.timers : b.timers[id] \in known <=> id \in ToSet(ready)
  <2>1. ToSet(ready) = {ready[k] : k \in 1 .. Len(ready)}
    BY DEF ToSet
  <2>2. ASSUME NEW i \in known
        PROVE  \E id \in ToSet(ready) \cap DOMAIN b.timers : i = b.timers[id]
    BY <2>2 DEF Known
  <2>3. ASSUME NEW i \in known
        PROVE  /\ i \in Nodes(b) /\ i \notin b.heap /\ b.pool[i].alive
               /\ b.pool[i].id \in DOMAIN b.timers /\ b.timers[b.pool[i].id] = i
               /\ \A k \in 1 .. Len(b.free) : b.free[k] # i
               /\ b.pool[i].id \in ToSet(ready)
    <3>1. PICK id \in ToSet(ready) \cap DOMAIN b.timers : i = b.timers[id]
      BY <2>2
    <3>2. i \notin b.heap
      BY <2>1, <3>1
    <3>3. i \in Nodes(b) /\ b.pool[i].id = id /\ b.pool[i].alive
      BY <3>1, <1>1 DEF OwnNode
    <3>4. \A k \in 1 .. Len(b.free) : b.free[k] # i
      BY <3>1, <1>1 DEF FreeApart
    <3>. QED  BY <3>1, <3>2, <3>3, <3>4
  <2>4. ASSUME NEW id \in DOMAIN b.timers, b.timers[id] \in known
        PROVE  id \in ToSet(ready)
    <3>1. b.pool[b.timers[id]].id = id
      BY <1>1 DEF OwnNode
    <3>. QED  BY <2>3, <2>4, <3>1
  <2>5. ASSUME NEW id \in DOMAIN b.timers, id \in ToSet(ready)
        PROVE  b.timers[id] \in known
    BY <2>5 DEF Known
  <2>. QED  BY <2>3, <2>4, <2>5
<1>. HIDE DEF known
<1>4. /\ again \subseteq known /\ over \subseteq known
      /\ \A i \in known : i \in again <=> b.pool[i].repeating
      /\ \A i \in known : i \in over <=> i \notin again
  BY <1>3
<1>. HIDE DEF again, over
<1>5. /\ q \in Seq(Node) /\ Len(q) = Len(b.pool)
      /\ \A i \in Nodes(b) \ again : q[i] = b.pool[i]
      /\ \A i \in again : /\ q[i] = [b.pool[i] EXCEPT !.expiry = @ + b.pool[i].interval]
                          /\ q[i].id = b.pool[i].id /\ q[i].alive = b.pool[i].alive
  <2>1. \A i \in Nodes(b) : /\ [b.pool[i] EXCEPT !.expiry = @ + b.pool[i].interval] \in Node
                            /\ [b.pool[i] EXCEPT !.expiry = @ + b.pool[i].interval].id = b.pool[i].id
                            /\ [b.pool[i] EXCEPT !.expiry = @ + b.pool[i].interval].alive = b.pool[i].alive
    <3>. TAKE i \in Nodes(b)
    <3>1. b.pool[i] \in Node
      BY <1>2
    <3>. QED  BY <3>1, LaterNode
  <2>2. /\ DOMAIN q = 1 .. Len(b.pool)
        /\ \A i \in Nodes(b) : q[i] = IF i \in again
               THEN [b.pool[i] EXCEPT !.expiry = @ + b.pool[i].interval] ELSE b.pool[i]
    BY <1>2 DEF Later, Nodes
  <2>3. q \in [1 .. Len(b.pool) -> Node]
    <3>1. \A i \in Nodes(b) : q[i] \in Node
      BY <1>2, <2>1, <2>2
    <3>2. q = [i \in 1 .. Len(b.pool) |-> q[i]]
      BY <1>2 DEF Later, Nodes
    <3>. HIDE DEF q
    <3>. QED  BY <3>1, <3>2 DEF Nodes
  <2>. HIDE DEF q
  <2>4. q \in Seq(Node) /\ Len(q) = Len(b.pool)
    BY <1>2, <2>3, PoolUpdate
  <2>5. again \subseteq Nodes(b)
    BY <1>3, <1>4
  <2>. QED  BY <2>1, <2>2, <2>4, <2>5
<1>6. /\ m \in IdMaps /\ DOMAIN m = {id \in DOMAIN b.timers : b.timers[id] \notin over}
      /\ \A id \in DOMAIN m : m[id] = b.timers[id]
  BY <1>2, RestrictedIdMap
<1>. HIDE DEF q, m
<1>7. /\ d.pool = q /\ d.free = b.free /\ d.heap = b.heap \cup again
      /\ d.timers = m /\ d.nextId = b.nextId
  BY <1>1 DEF Bases
<1>8. d \in Bases
  <2>1. b.heap \cup again \in SUBSET Nat
    BY <1>2, <1>3, <1>4 DEF Nodes
  <2>. QED  BY <1>1, <1>5, <1>6, <2>1 DEF Bases
<1>9. Rearm(b, ready) = c
  BY DEF Rearm, known, again, over, q, m, d, c
<1>. HIDE DEF d
<1>10. Nodes(d) = Nodes(b)
  BY <1>5, <1>7 DEF Nodes
<1>11. FreeOnce(d)
  BY <1>1, <1>7 DEF FreeOnce
<1>12. FreeApart(d)
  BY <1>1, <1>3, <1>4, <1>6, <1>7, <1>10 DEF FreeApart
<1>13. ASSUME NEW i \in Nodes(b)
       PROVE  q[i].id = b.pool[i].id /\ q[i].alive = b.pool[i].alive
  BY <1>5
<1>14. OwnNode(d)
  BY <1>1, <1>6, <1>7, <1>10, <1>13 DEF OwnNode
<1>15. HeapKnown(d)
  <2>. SUFFICES ASSUME NEW i \in b.heap \cup again
                PROVE  /\ i \in Nodes(b)
                       /\ q[i].alive => q[i].id \in DOMAIN m /\ m[q[i].id] = i
    BY <1>7, <1>10 DEF HeapKnown
  <2>1. /\ i \in Nodes(b) /\ i \notin over
        /\ b.pool[i].alive => b.pool[i].id \in DOMAIN b.timers /\ b.timers[b.pool[i].id] = i
    BY <1>1, <1>3, <1>4 DEF HeapKnown
  <2>. QED  BY <2>1, <1>6, <1>13
<1>16. WellFormed(d)
  BY <1>1, <1>7, <1>8, <1>11, <1>12, <1>14, <1>15 DEF WellFormed
<1>17. /\ over \subseteq Nodes(d) /\ over \cap d.heap = {}
       /\ \A k \in 1 .. Len(d.free) : d.free[k] \notin over
       /\ \A id \in DOMAIN d.timers : d.timers[id] \notin over
  BY <1>3, <1>4, <1>6, <1>7, <1>10
<1>18. /\ WellFormed(c) /\ c.timers = d.timers /\ c.nextId = d.nextId
       /\ \A i \in Nodes(d) \ over : c.pool[i] = d.pool[i]
  BY <1>16, <1>17, FreeNodesKeeps
<1>. HIDE DEF c
<1>19. ASSUME NEW id \in DOMAIN c.timers
       PROVE  /\ id \in DOMAIN b.timers /\ c.timers[id] = b.timers[id]
              /\ id \notin ToSet(ready) => c.pool[c.timers[id]] = b.pool[b.timers[id]]
              /\ id \in ToSet(ready) =>
                    /\ b.pool[b.timers[id]].repeating
                    /\ c.pool[c.timers[id]] =
                          [b.pool[b.timers[id]] EXCEPT !.expiry = @ + b.pool[b.timers[id]].interval]
  <2>. DEFINE i == b.timers[id]
  <2>1. id \in DOMAIN b.timers /\ c.timers[id] = i /\ i \notin over /\ i \in Nodes(b)
    BY <1>1, <1>6, <1>7, <1>18 DEF OwnNode
  <2>2. c.pool[i] = q[i]
    BY <2>1, <1>7, <1>10, <1>18
  <2>3. id \in ToSet(ready) <=> i \in again
    BY <2>1, <1>3, <1>4
  <2>4. id \in ToSet(ready) => b.pool[i].repeating
    BY <2>1, <2>3, <1>4
  <2>. HIDE DEF i
  <2>5. i \notin again => c.pool[i] = b.pool[i]
    BY <2>1, <2>2, <1>5
  <2>6. i \in again => c.pool[i] = [b.pool[i] EXCEPT !.expiry = @ + b.pool[i].interval]
    BY <2>2, <1>5
  <2>. QED  BY <2>1, <2>3, <2>4, <2>5, <2>6 DEF i
<1>. QED  BY <1>7, <1>9, <1>18, <1>19

-----------------------------------------------------------------------------
(* The timers through the steps of the actors and of the serving thread    *)

Asked == [at : Nat, delay : Nat, repeating : BOOLEAN]
Issued(id) == id \in Nat /\ 0 < id /\ id < base.nextId
Places == {"idle", "waiting", "blocked", "expired", "callbacks"}

TypeOk ==
    /\ kind \in {"timerfd", "thread"} /\ now \in Nat
    /\ wake \in [armed : Int, permits : Nat]
    /\ loop \in [pc : Places, ready : Seq(Nat), done : Nat]
    /\ mutex \in Actors \cup {None} /\ ids \in [Actors -> SUBSET Nat]
    /\ up \in {"new", "running", "stopping", "stopped"}
    /\ born \in Seq(Asked) /\ fired \in [Ids -> Nat]
    /\ base.nextId = Len(born) + 1 /\ Len(born) <= MaxTimers

\* A cancelled timer has no context and will get none: its id is not the one that
\* addTimer is about to register.
CancelInv ==
    /\ DOMAIN ctxs \cap cancelled = {}
    /\ \A id \in cancelled \cup DOMAIN ctxs : Issued(id)
    /\ \A a \in Actors : \A id \in ids[a] : Issued(id)
    /\ mutex # None => base.nextId - 1 \notin cancelled /\ base.nextId > 1

\* While callbacks run: a collected timer that is still known is due and not in the
\* heap; one whose callback is to come is still known if it has, or is about to get,
\* a context.
RoundShape ==
    /\ loop.done <= Len(loop.ready)
    /\ loop.pc # "callbacks" => Len(loop.ready) = 0
    /\ \A j, k \in 1 .. Len(loop.ready) : loop.ready[j] = loop.ready[k] => j = k
RoundEntry(k, id) ==
    /\ Issued(id)
    /\ id \in DOMAIN base.timers => /\ base.timers[id] \notin base.heap
                                    /\ base.pool[base.timers[id]].expiry <= now
    /\ (k > loop.done /\ (id \in DOMAIN ctxs \/ (mutex # None /\ id + 1 = base.nextId)))
          => id \in DOMAIN base.timers
RoundInv == RoundShape /\ \A k \in 1 .. Len(loop.ready) : RoundEntry(k, loop.ready[k])

\* The callback of this timer is done, but it is not yet armed again.
Served(id) == \E k \in 1 .. Len(loop.ready) : k <= loop.done /\ loop.ready[k] = id

\* A known timer has its interval, and expires no earlier than the next time it is
\* due; a one-shot timer that is not yet served has not fired.
PlanInv ==
    /\ \A id \in DOMAIN base.timers :
          LET n == base.pool[base.timers[id]] IN
          /\ n.interval = born[id].delay /\ n.repeating = born[id].repeating
          /\ born[id].at + fired[id] * born[id].delay <= n.expiry
          /\ ~Served(id) =>
                /\ born[id].at + fired[id] * born[id].delay + born[id].delay <= n.expiry
                /\ ~born[id].repeating => fired[id] = 0
    /\ \A id \in Ids : id >= base.nextId => fired[id] = 0

TimersInv ==
    /\ TypeOk /\ WellFormed(base) /\ CancelInv /\ RoundInv /\ PlanInv /\ OnSchedule

LEMMA InvAtStart == Init => TimersInv
<1>. SUFFICES ASSUME Init
              PROVE  TimersInv
  OBVIOUS
<1>. USE DEF Init
<1>1. /\ base.pool = <<>> /\ base.free = <<>> /\ base.heap = {} /\ base.timers = <<>>
      /\ base.nextId = 1
  OBVIOUS
<1>2. <<>> \in IdMaps /\ DOMAIN <<>> = {}
  <2>1. <<>> \in [{} -> Nat] /\ {} \in SUBSET Nat
    OBVIOUS
  <2>. QED  BY <2>1 DEF IdMaps
<1>3. base \in Bases
  BY <1>2 DEF Bases
<1>4. WellFormed(base)
  BY <1>1, <1>2, <1>3 DEF WellFormed, FreeOnce, FreeApart, OwnNode, HeapKnown
<1>5. TypeOk
  <2>1. ids \in [Actors -> SUBSET Nat] /\ fired \in [Ids -> Nat]
    OBVIOUS
  <2>2. born \in Seq(Asked) /\ Len(born) = 0
    OBVIOUS
  <2>. QED  BY <1>1, <2>1, <2>2, TimersAssumption DEF TypeOk, Places, Never
<1>6. CancelInv
  BY <1>1, <1>2 DEF CancelInv
<1>7. RoundInv
  BY DEF RoundInv, RoundShape
<1>8. PlanInv
  BY <1>1, <1>2 DEF PlanInv
<1>9. OnSchedule
  BY DEF OnSchedule
<1>. QED  BY <1>4, <1>5, <1>6, <1>7, <1>8, <1>9 DEF TimersInv

\* scheduleNextTimer gives back dead nodes at most.
LEMMA ScheduleKeeps ==
    ASSUME NEW b, WellFormed(b), ScheduleNextTimer(b)
    PROVE  /\ WellFormed(base') /\ SameTimers(b, base') /\ SameHeap(b, base')
           /\ base'.timers = b.timers /\ base'.nextId = b.nextId
<1>1. CASE base' = b
  BY <1>1 DEF SameTimers, SameHeap
<1>2. CASE base' = PurgeDead(b)
  BY <1>2, PurgeKeeps
<1>. QED  BY <1>1, <1>2 DEF ScheduleNextTimer

LEMMA ScheduleTypes ==
    ASSUME NEW b, WellFormed(b), ScheduleNextTimer(b), now \in Nat,
           wake \in [armed : Int, permits : Nat]
    PROVE  wake' \in [armed : Int, permits : Nat]
<1>1. CASE UNCHANGED wake
  BY <1>1
<1>2. CASE wake' = [wake EXCEPT !.armed = ArmedFor(PurgeDead(b))]
  <2>. DEFINE c == PurgeDead(b)
  <2>1. WellFormed(c)
    BY PurgeKeeps
  <2>. HIDE DEF c
  <2>2. c.pool \in Seq(Node) /\ c.heap \subseteq Nodes(c)
    BY <2>1, BaseFields DEF WellFormed, HeapKnown
  <2>3. ASSUME HasLiveTop(c)
        PROVE  NextExpiry(c) \in Nat
    <3>1. Top(c) \in Nodes(c)
      BY <2>2, <2>3, TopIsFirst DEF HasLiveTop
    <3>2. c.pool[Top(c)] \in Node
      BY <2>2, <3>1 DEF Nodes
    <3>. QED  BY <3>2 DEF NextExpiry, Node
  <2>4. ArmedFor(c) \in Int
    BY <2>3 DEF ArmedFor, Never
  <2>. QED  BY <1>2, <2>4 DEF c
<1>3. CASE wake' = [wake EXCEPT !.permits = IF @ < MaxPermits THEN @ + 1 ELSE @]
  BY <1>3
<1>. QED  BY <1>1, <1>2, <1>3 DEF ScheduleNextTimer

\* A step that serves nobody keeps the plan of the timers that remain.
LEMMA PlanKept ==
    ASSUME TimersInv, SameTimers(base, base'), base'.nextId = base.nextId,
           born' = born, fired' = fired, loop'.ready = loop.ready, loop'.done = loop.done
    PROVE  PlanInv'
<1>1. \A id : Served(id)' <=> Served(id)
  BY DEF Served
<1>. QED  BY <1>1 DEF TimersInv, PlanInv, SameTimers

\* Time passes for what has fired.
LEMMA ScheduleKept ==
    ASSUME TimersInv, born' = born, fired' = fired, now' \in Nat, now <= now'
    PROVE  OnSchedule'
<1>. SUFFICES ASSUME NEW id \in DOMAIN born
              PROVE  /\ fired[id] * born[id].delay <= now' - born[id].at
                     /\ ~born[id].repeating => fired[id] <= 1
  BY DEF OnSchedule
<1>1. /\ fired[id] * born[id].delay <= now - born[id].at
      /\ ~born[id].repeating => fired[id] <= 1
  BY DEF TimersInv, OnSchedule
<1>2. id \in 1 .. Len(born) /\ Len(born) \in Nat /\ Len(born) <= MaxTimers /\ now \in Nat
      /\ fired \in [Ids -> Nat] /\ born \in Seq(Asked)
  BY DEF TimersInv, TypeOk
<1>3. id \in Ids /\ fired[id] \in Nat
  BY <1>2, TimersAssumption DEF Ids
<1>4. born[id] \in Asked
  BY <1>2
<1>5. born[id].delay \in Nat /\ born[id].at \in Nat
  BY <1>4 DEF Asked
<1>6. fired[id] * born[id].delay \in Nat
  BY <1>3, <1>5
<1>. QED  BY <1>1, <1>2, <1>5, <1>6

\* The steps that leave the ids, the vector and the history alone.
LEMMA QuietStep ==
    ASSUME TimersInv, TypeOk', WellFormed(base'), SameTimers(base, base'), SameHeap(base, base'),
           base'.timers = base.timers, base'.nextId = base.nextId,
           now <= now', DOMAIN ctxs' \subseteq DOMAIN ctxs,
           UNCHANGED <<mutex, ids, born, fired, cancelled>>,
           loop'.ready = loop.ready, loop'.done = loop.done,
           loop'.pc # "callbacks" => loop.pc # "callbacks"
    PROVE  TimersInv'
<1>1. CancelInv'
  BY DEF TimersInv, CancelInv, Issued
<1>2. RoundInv'
  <2>1. RoundInv /\ WellFormed(base) /\ now \in Nat /\ now' \in Nat
    BY DEF TimersInv, TypeOk
  <2>2. \A id \in DOMAIN base.timers :
           /\ base'.timers[id] = base.timers[id]
           /\ base.timers[id] \notin base.heap => base'.timers[id] \notin base'.heap
           /\ base'.pool[base'.timers[id]] = base.pool[base.timers[id]]
    BY DEF SameTimers, SameHeap
  <2>3. \A id \in DOMAIN base.timers : base.pool[base.timers[id]].expiry \in Nat
    <3>1. \A id \in DOMAIN base.timers : base.pool[base.timers[id]] \in Node
      BY <2>1, BaseFields DEF WellFormed, OwnNode
    <3>. QED  BY <3>1 DEF Node
  <2>4. RoundShape'
    BY <2>1 DEF RoundInv, RoundShape
  <2>5. ASSUME NEW k \in 1 .. Len(loop.ready)
        PROVE  RoundEntry(k, loop.ready[k])'
    <3>. DEFINE id == loop.ready[k]
    <3>1. RoundEntry(k, id)
      BY <2>1 DEF RoundInv
    <3>0. id' = id
      OBVIOUS
    <3>. HIDE DEF id
    <3>2. RoundEntry(k, id)'
      BY <3>0, <3>1, <2>1, <2>2, <2>3 DEF RoundEntry, Issued
    <3>. QED  BY <3>2 DEF id
  <2>. QED  BY <2>4, <2>5 DEF RoundInv
<1>3. PlanInv'
  BY PlanKept
<1>4. OnSchedule'
  BY ScheduleKept DEF TypeOk
<1>. QED  BY <1>1, <1>2, <1>3, <1>4 DEF TimersInv

LEMMA SameSelf ==
    ASSUME NEW b
    PROVE  SameTimers(b, b) /\ SameHeap(b, b)
BY DEF SameTimers, SameHeap

LEMMA QuietActions ==
    ASSUME TimersInv, \/ OnWake \/ RunLoopLook \/ RunLoopNotified \/ RunLoopTimeout
                      \/ Start \/ StopScheduler \/ Clock \/ UNCHANGED vars
    PROVE  TimersInv'
<1>0. TypeOk /\ WellFormed(base)
  BY DEF TimersInv
<1>. DEFINE Quiet ==
         /\ TypeOk' /\ WellFormed(base') /\ SameTimers(base, base') /\ SameHeap(base, base')
         /\ base'.timers = base.timers /\ base'.nextId = base.nextId
         /\ now <= now' /\ DOMAIN ctxs' \subseteq DOMAIN ctxs
         /\ UNCHANGED <<mutex, ids, born, fired, cancelled>>
         /\ loop'.ready = loop.ready /\ loop'.done = loop.done
         /\ (loop'.pc # "callbacks" => loop.pc # "callbacks")
<1>. SUFFICES Quiet
  BY QuietStep
<1>a. ASSUME NEW pc \in Places
      PROVE  /\ [loop EXCEPT !.pc = pc] \in [pc : Places, ready : Seq(Nat), done : Nat]
             /\ [loop EXCEPT !.pc = pc].ready = loop.ready /\ [loop EXCEPT !.pc = pc].done = loop.done
  BY <1>0 DEF TypeOk
<1>b. {"idle", "waiting", "blocked", "expired"} \subseteq Places
  BY DEF Places
<1>1. CASE OnWake
  <2>1. /\ loop' = [loop EXCEPT !.pc = "expired"] /\ loop.pc = "idle"
        /\ wake' = [wake EXCEPT !.armed = Never] /\ base' = base
        /\ UNCHANGED <<kind, now, ctxs, mutex, ids, up, born, fired, cancelled>>
    BY <1>1 DEF OnWake, Moves, history
  <2>2. wake' \in [armed : Int, permits : Nat]
    BY <1>0, <2>1 DEF TypeOk, Never
  <2>. QED  BY <1>0, <1>a, <1>b, <2>1, <2>2, SameSelf DEF TypeOk
<1>2. CASE RunLoopNotified
  BY <1>0, <1>2, <1>a, <1>b, SameSelf DEF RunLoopNotified, Moves, history, TypeOk
<1>3. CASE RunLoopTimeout
  BY <1>0, <1>3, <1>a, <1>b, SameSelf DEF RunLoopTimeout, Moves, history, TypeOk
<1>4. CASE Start
  BY <1>0, <1>4, SameSelf DEF Start, history, TypeOk
<1>5. CASE StopScheduler
  BY <1>0, <1>5, SameSelf DEF StopScheduler, history, TypeOk
<1>6. CASE Clock
  BY <1>0, <1>6, SameSelf DEF Clock, history, TypeOk
<1>7. CASE UNCHANGED vars
  BY <1>0, <1>7, SameSelf DEF vars, TypeOk
<1>8. CASE RunLoopLook
  <2>1. base' = PurgeDead(base) /\ loop.pc = "idle"
    BY <1>8 DEF RunLoopLook
  <2>2. /\ WellFormed(base') /\ SameTimers(base, base') /\ SameHeap(base, base')
        /\ base'.timers = base.timers /\ base'.nextId = base.nextId
    BY <1>0, <2>1, PurgeKeeps
  <2>3. HasLiveTop(base') => NextExpiry(base') \in Int
    <3>. SUFFICES ASSUME HasLiveTop(base')
                  PROVE  NextExpiry(base') \in Int
      OBVIOUS
    <3>1. base'.pool \in Seq(Node) /\ base'.heap \subseteq Nodes(base') /\ base'.heap # {}
      BY <2>2, BaseFields DEF WellFormed, HeapKnown, HasLiveTop
    <3>2. Top(base') \in Nodes(base')
      BY <3>1, TopIsFirst
    <3>3. base'.pool[Top(base')] \in Node
      BY <3>1, <3>2 DEF Nodes
    <3>. QED  BY <3>3 DEF NextExpiry, Node
  <2>4. /\ wake' \in [armed : Int, permits : Nat]
        /\ \E pc \in Places : loop' = [loop EXCEPT !.pc = pc] /\ pc # "callbacks"
        /\ UNCHANGED <<kind, now, ctxs, mutex, ids, up, born, fired, cancelled>>
    BY <1>0, <1>8, <1>b, <2>3 DEF RunLoopLook, Moves, history, TypeOk
  <2>. QED  BY <1>0, <1>a, <2>1, <2>2, <2>4 DEF TypeOk
<1>. QED  BY <1>1, <1>2, <1>3, <1>4, <1>5, <1>6, <1>7, <1>8

LEMMA StopTimerKeeps ==
    ASSUME TimersInv, StopTimer
    PROVE  TimersInv'
<1>0. TypeOk /\ WellFormed(base) /\ CancelInv /\ RoundInv /\ PlanInv
  BY DEF TimersInv
<1>1. /\ base'.pool = <<>> /\ base'.free = <<>> /\ base'.heap = {} /\ base'.timers = <<>>
      /\ base'.nextId = base.nextId /\ base' \in Bases /\ DOMAIN base'.timers = {}
  <2>1. <<>> \in [{} -> Nat] /\ {} \in SUBSET Nat /\ DOMAIN <<>> = {}
    OBVIOUS
  <2>2. <<>> \in IdMaps
    BY <2>1 DEF IdMaps
  <2>3. base \in Bases
    BY <1>0 DEF WellFormed
  <2>4. base' = [base EXCEPT !.pool = <<>>, !.free = <<>>, !.heap = {}, !.timers = <<>>]
    BY DEF StopTimer
  <2>5. /\ base'.pool = <<>> /\ base'.free = <<>> /\ base'.heap = {} /\ base'.timers = <<>>
        /\ base'.nextId = base.nextId
    BY <2>3, <2>4 DEF Bases
  <2>6. <<>> \in Seq(Node) /\ <<>> \in Seq(Nat)
    OBVIOUS
  <2>7. base' \in Bases
    BY <2>1, <2>2, <2>3, <2>4, <2>6 DEF Bases
  <2>. QED  BY <2>1, <2>5, <2>7
<1>2. WellFormed(base')
  BY <1>0, <1>1 DEF WellFormed, FreeOnce, FreeApart, OwnNode, HeapKnown
<1>3. /\ loop' = [loop EXCEPT !.pc = "idle"] /\ loop.pc # "callbacks"
      /\ UNCHANGED <<kind, now, ctxs, mutex, ids, born, fired, cancelled>>
  BY DEF StopTimer, history
<1>4. /\ loop'.ready = loop.ready /\ loop'.done = loop.done /\ loop'.pc = "idle"
      /\ loop' \in [pc : Places, ready : Seq(Nat), done : Nat]
  BY <1>0, <1>3 DEF TypeOk, Places
<1>5. TypeOk'
  BY <1>0, <1>1, <1>3, <1>4 DEF TypeOk, StopTimer, Never
<1>6. CancelInv'
  BY <1>0, <1>1, <1>3 DEF CancelInv, Issued
<1>7. RoundInv'
  BY <1>0, <1>3, <1>4 DEF RoundInv, RoundShape
<1>8. PlanInv'
  BY <1>0, <1>1, <1>3 DEF PlanInv
<1>9. OnSchedule'
  BY <1>3, <1>5, ScheduleKept DEF TypeOk
<1>. QED  BY <1>2, <1>5, <1>6, <1>7, <1>8, <1>9 DEF TimersInv

LEMMA ExecuteExpiredKeeps ==
    ASSUME TimersInv, ExecuteExpired
    PROVE  TimersInv'
<1>0. TypeOk /\ WellFormed(base) /\ CancelInv /\ RoundInv /\ PlanInv
  BY DEF TimersInv
<1>r. PICK r : r = Collected(base)
  OBVIOUS
<1>1. /\ base' = Collect(base) /\ loop.pc = "expired"
      /\ loop' = [pc |-> "callbacks", done |-> 0, ready |-> r]
      /\ UNCHANGED <<kind, now, wake, ctxs, mutex, ids, up, born, fired, cancelled>>
  BY <1>r DEF ExecuteExpired, history, Collected
<1>2. /\ WellFormed(base') /\ SameTimers(base, base') /\ SameHeap(base, base')
      /\ base'.timers = base.timers /\ base'.nextId = base.nextId
      /\ base'.heap = base.heap \ Due(base)
  BY <1>0, <1>1, CollectKeeps
<1>3. /\ r \in Seq(Nat) /\ \A j, k \in 1 .. Len(r) : r[j] = r[k] => j = k
      /\ \A k \in 1 .. Len(r) : r[k] \in DOMAIN base.timers /\ base.timers[r[k]] \in Due(base)
  BY <1>0, <1>r, CollectedIds
<1>4. loop'.ready = r /\ loop'.done = 0 /\ loop'.pc = "callbacks"
  BY <1>1
<1>5. TypeOk'
  <2>1. loop' \in [pc : Places, ready : Seq(Nat), done : Nat]
    BY <1>1, <1>3 DEF Places
  <2>. QED  BY <1>0, <1>1, <1>2, <2>1 DEF TypeOk
<1>6. CancelInv'
  BY <1>0, <1>1, <1>2 DEF CancelInv, Issued
<1>7. RoundInv'
  <2>1. RoundShape'
    BY <1>3, <1>4 DEF RoundShape
  <2>2. ASSUME NEW k \in 1 .. Len(r)
        PROVE  LET id == r[k] IN
               /\ Issued(id)' /\ id \in DOMAIN base'.timers /\ base'.timers[id] \notin base'.heap
               /\ base'.pool[base'.timers[id]].expiry <= now'
    <3>. DEFINE id == r[k]
    <3>1. id \in DOMAIN base.timers /\ base.timers[id] \in Due(base)
      BY <1>3
    <3>2. Issued(id)
      BY <1>0, <3>1 DEF WellFormed, OwnNode, Issued
    <3>3. base'.pool[base'.timers[id]] = base.pool[base.timers[id]]
      BY <1>2, <3>1 DEF SameTimers
    <3>4. base.pool[base.timers[id]].expiry <= now
      BY <3>1 DEF Due
    <3>. QED  BY <1>1, <1>2, <3>1, <3>2, <3>3, <3>4 DEF Issued
  <2>3. ASSUME NEW k \in 1 .. Len(r)
        PROVE  RoundEntry(k, r[k])'
    BY <2>2, <1>4 DEF RoundEntry, Issued
  <2>. QED  BY <2>1, <2>3, <1>4 DEF RoundInv
<1>8. PlanInv'
  <2>1. \A id : ~Served(id)
    BY <1>0, <1>1 DEF Served, RoundInv, RoundShape
  <2>. QED  BY <1>0, <1>1, <1>2, <2>1 DEF PlanInv, SameTimers
<1>9. OnSchedule'
  BY <1>1, <1>5, ScheduleKept DEF TypeOk
<1>. QED  BY <1>2, <1>5, <1>6, <1>7, <1>8, <1>9 DEF TimersInv

\* What is known of a timer that was asked for.
LEMMA BornTypes ==
    ASSUME TypeOk, NEW id \in 1 .. Len(born)
    PROVE  /\ id \in Ids /\ fired[id] \in Nat /\ born[id] \in Asked
           /\ born[id].at \in Nat /\ born[id].delay \in Nat /\ born[id].repeating \in BOOLEAN
           /\ fired[id] * born[id].delay \in Nat
           /\ (fired[id] + 1) * born[id].delay = fired[id] * born[id].delay + born[id].delay
<1>1. Len(born) \in Nat /\ Len(born) <= MaxTimers /\ fired \in [Ids -> Nat] /\ born \in Seq(Asked)
  BY DEF TypeOk
<1>2. id \in Ids /\ fired[id] \in Nat /\ born[id] \in Asked
  BY <1>1, TimersAssumption DEF Ids
<1>3. born[id].at \in Nat /\ born[id].delay \in Nat /\ born[id].repeating \in BOOLEAN
  BY <1>2 DEF Asked
<1>4. \A x, y \in Nat : x * y \in Nat /\ (x + 1) * y = x * y + y
  OBVIOUS
<1>. QED  BY <1>2, <1>3, <1>4

LEMMA TimerNodeTypes ==
    ASSUME TypeOk, WellFormed(base), NEW id \in DOMAIN base.timers
    PROVE  /\ id \in 1 .. Len(born) /\ id < base.nextId
           /\ base.pool[base.timers[id]] \in Node /\ base.pool[base.timers[id]].expiry \in Nat
<1>1. id \in Nat /\ 0 < id /\ id < base.nextId /\ base.timers[id] \in Nodes(base)
  BY DEF WellFormed, OwnNode
<1>2. base.pool[base.timers[id]] \in Node
  BY <1>1, BaseFields DEF WellFormed
<1>3. Len(born) \in Nat /\ base.nextId = Len(born) + 1
  BY DEF TypeOk
<1>. QED  BY <1>1, <1>2, <1>3 DEF Node

\* The callback: a timer that fires is due, and its next time lies one interval on.
LEMMA TimerCallbackKeeps ==
    ASSUME TimersInv, TimerCallback
    PROVE  TimersInv'
<1>0. TypeOk /\ WellFormed(base) /\ CancelInv /\ RoundInv /\ PlanInv /\ OnSchedule
  BY DEF TimersInv
<1>x. PICK x : x = loop.ready[loop.done + 1]
  OBVIOUS
<1>1. /\ loop.pc = "callbacks" /\ loop.done < Len(loop.ready) /\ mutex = None
      /\ fired' = IF x \in DOMAIN ctxs THEN [fired EXCEPT ![x] = @ + 1] ELSE fired
      /\ loop' = [loop EXCEPT !.done = @ + 1]
      /\ UNCHANGED <<kind, now, base, wake, ctxs, mutex, ids, up, born, cancelled>>
  BY <1>x DEF TimerCallback
<1>2. /\ loop'.ready = loop.ready /\ loop'.done = loop.done + 1 /\ loop'.pc = loop.pc
      /\ loop' \in [pc : Places, ready : Seq(Nat), done : Nat]
      /\ loop.done \in Nat /\ Len(loop.ready) \in Nat
  <2>1. loop \in [pc : Places, ready : Seq(Nat), done : Nat]
    BY <1>0 DEF TypeOk
  <2>2. loop.done \in Nat /\ loop.ready \in Seq(Nat)
    BY <2>1
  <2>3. loop' = [loop EXCEPT !.done = loop.done + 1] /\ loop.done + 1 \in Nat
    BY <1>1, <2>2
  <2>. QED  BY <2>1, <2>2, <2>3
<1>3. loop.done + 1 \in 1 .. Len(loop.ready) /\ RoundEntry(loop.done + 1, x)
  BY <1>0, <1>1, <1>2, <1>x DEF RoundInv
<1>4. ASSUME x \in DOMAIN ctxs
      PROVE  /\ x \in DOMAIN base.timers /\ base.pool[base.timers[x]].expiry <= now
             /\ x \in 1 .. Len(born)
  <2>1. x \in DOMAIN base.timers
    BY <1>2, <1>3, <1>4 DEF RoundEntry
  <2>. QED  BY <1>0, <1>3, <2>1, TimerNodeTypes DEF RoundEntry
<1>5. fired' \in [Ids -> Nat]
  <2>1. CASE x \in DOMAIN ctxs
    BY <1>0, <1>1, <1>4, <2>1, BornTypes DEF TypeOk
  <2>. QED  BY <1>0, <1>1, <2>1 DEF TypeOk
<1>6. TypeOk'
  BY <1>0, <1>1, <1>2, <1>5 DEF TypeOk
<1>7. CancelInv'
  BY <1>0, <1>1 DEF CancelInv, Issued
<1>8. RoundInv'
  <2>1. RoundShape'
    BY <1>0, <1>1, <1>2 DEF RoundInv, RoundShape
  <2>2. ASSUME NEW k \in 1 .. Len(loop.ready), NEW id, RoundEntry(k, id)
        PROVE  RoundEntry(k, id)'
    BY <1>1, <1>2, <2>2 DEF RoundEntry, Issued
  <2>3. ASSUME NEW k \in 1 .. Len(loop.ready)
        PROVE  RoundEntry(k, loop.ready[k])'
    <3>1. PICK id : id = loop.ready[k]
      OBVIOUS
    <3>2. RoundEntry(k, id)'
      BY <1>0, <2>2, <3>1 DEF RoundInv
    <3>. QED  BY <1>2, <3>1, <3>2
  <2>. QED  BY <1>2, <2>1, <2>3 DEF RoundInv
<1>9. ~Served(x)
  <2>1. ASSUME NEW k \in 1 .. Len(loop.ready), k <= loop.done, loop.ready[k] = x
        PROVE  FALSE
    <3>1. k = loop.done + 1
      BY <1>0, <1>3, <1>x, <2>1 DEF RoundInv, RoundShape
    <3>. QED  BY <1>2, <2>1, <3>1
  <2>. QED  BY <2>1 DEF Served
<1>10. /\ Served(x)' /\ \A id : Served(id) => Served(id)'
       /\ \A id : id # x => fired'[id] = fired[id]
       /\ x \notin DOMAIN ctxs => fired'[x] = fired[x]
       /\ x \in DOMAIN ctxs => fired'[x] = fired[x] + 1
  <2>1. Served(x)'
    BY <1>2, <1>3, <1>x DEF Served
  <2>2. \A id : Served(id) => Served(id)'
    BY <1>2 DEF Served
  <2>3. /\ \A id : id # x => fired'[id] = fired[id]
        /\ x \notin DOMAIN ctxs => fired'[x] = fired[x]
        /\ x \in DOMAIN ctxs => fired'[x] = fired[x] + 1
    <3>1. CASE x \in DOMAIN ctxs
      <4>1. x \in Ids /\ fired \in [Ids -> Nat] /\ fired' = [fired EXCEPT ![x] = fired[x] + 1]
        BY <1>0, <1>1, <1>4, <3>1, BornTypes DEF TypeOk
      <4>. QED  BY <3>1, <4>1
    <3>2. CASE x \notin DOMAIN ctxs
      BY <1>1, <3>2
    <3>. QED  BY <3>1, <3>2
  <2>. QED  BY <2>1, <2>2, <2>3
<1>11. PlanInv'
  <2>1. ASSUME NEW id \in DOMAIN base.timers
        PROVE  LET n == base.pool[base.timers[id]] IN
               /\ n.interval = born[id].delay /\ n.repeating = born[id].repeating
               /\ born[id].at + fired'[id] * born[id].delay <= n.expiry
               /\ ~Served(id)' =>
                     /\ born[id].at + fired'[id] * born[id].delay + born[id].delay <= n.expiry
                     /\ ~born[id].repeating => fired'[id] = 0
    <3>1. CASE id = x /\ x \in DOMAIN ctxs
      <4>1. born[id].at + fired[id] * born[id].delay + born[id].delay <= base.pool[base.timers[id]].expiry
        BY <1>0, <1>9, <3>1 DEF PlanInv
      <4>2. /\ born[id].at \in Nat /\ born[id].delay \in Nat /\ fired[id] * born[id].delay \in Nat
            /\ fired'[id] * born[id].delay = fired[id] * born[id].delay + born[id].delay
        BY <1>0, <1>4, <1>10, <3>1, BornTypes
      <4>3. base.pool[base.timers[id]].expiry \in Nat
        BY <1>0, TimerNodeTypes
      <4>4. born[id].at + fired'[id] * born[id].delay <= base.pool[base.timers[id]].expiry
        BY <4>1, <4>2, <4>3
      <4>. QED  BY <1>0, <1>10, <3>1, <4>4 DEF PlanInv
    <3>2. CASE ~(id = x /\ x \in DOMAIN ctxs)
      <4>1. fired'[id] = fired[id]
        BY <1>10, <3>2
      <4>. QED  BY <1>0, <1>10, <4>1 DEF PlanInv
    <3>. QED  BY <3>1, <3>2
  <2>2. ASSUME NEW id \in Ids, id >= base.nextId
        PROVE  fired'[id] = 0
    <3>1. x \in DOMAIN ctxs => x < base.nextId /\ x \in Nat
      BY <1>0, <1>4, TimerNodeTypes
    <3>2. base.nextId \in Nat /\ id \in Nat
      BY <1>0 DEF TypeOk, Ids
    <3>3. fired'[id] = fired[id]
      BY <1>10, <2>2, <3>1, <3>2
    <3>. QED  BY <1>0, <2>2, <3>3 DEF PlanInv
  <2>. QED  BY <1>1, <2>1, <2>2 DEF PlanInv
<1>12. OnSchedule'
  <2>. SUFFICES ASSUME NEW id \in DOMAIN born
                PROVE  /\ fired'[id] * born[id].delay <= now - born[id].at
                       /\ ~born[id].repeating => fired'[id] <= 1
    BY <1>1 DEF OnSchedule
  <2>1. CASE id = x /\ x \in DOMAIN ctxs
    <3>1. /\ born[id].at + fired[id] * born[id].delay + born[id].delay
                 <= base.pool[base.timers[id]].expiry
          /\ ~born[id].repeating => fired[id] = 0
          /\ base.pool[base.timers[id]].expiry <= now
      BY <1>0, <1>4, <1>9, <2>1 DEF PlanInv
    <3>2. /\ born[id].at \in Nat /\ born[id].delay \in Nat /\ fired[id] * born[id].delay \in Nat
          /\ fired'[id] * born[id].delay = fired[id] * born[id].delay + born[id].delay
          /\ fired'[id] = fired[id] + 1
      BY <1>0, <1>4, <1>10, <2>1, BornTypes
    <3>3. base.pool[base.timers[id]].expiry \in Nat /\ now \in Nat
      BY <1>0, <1>4, <2>1, TimerNodeTypes DEF TypeOk
    <3>4. fired'[id] * born[id].delay <= now - born[id].at
      BY <3>1, <3>2, <3>3
    <3>. QED  BY <3>1, <3>2, <3>4
  <2>2. CASE ~(id = x /\ x \in DOMAIN ctxs)
    BY <1>0, <1>10, <2>2 DEF OnSchedule
  <2>. QED  BY <2>1, <2>2
<1>. QED  BY <1>0, <1>1, <1>6, <1>7, <1>8, <1>11, <1>12 DEF TimersInv

\* The end of the round: the served timers are forgotten or armed one interval on.
LEMMA SettleKeeps ==
    ASSUME TimersInv, Settle
    PROVE  TimersInv'
<1>0. TypeOk /\ WellFormed(base) /\ CancelInv /\ RoundInv /\ PlanInv
  BY DEF TimersInv
<1>r. PICK r : r = loop.ready
  OBVIOUS
<1>b. PICK b : b = Rearm(base, r)
  OBVIOUS
<1>1. /\ loop.pc = "callbacks" /\ loop.done = Len(r) /\ ScheduleNextTimer(b)
      /\ loop' = [pc |-> "idle", ready |-> <<>>, done |-> 0]
      /\ UNCHANGED <<kind, now, ctxs, mutex, ids, up, born, fired, cancelled>>
  BY <1>r, <1>b DEF Settle, history
<1>2. r \in Seq(Nat) /\ Len(r) \in Nat
  BY <1>0, <1>r DEF TypeOk
<1>3. \A k \in 1 .. Len(r) : r[k] \in DOMAIN base.timers => base.timers[r[k]] \notin base.heap
  BY <1>0, <1>r DEF RoundInv, RoundEntry
<1>4. /\ WellFormed(b) /\ b.nextId = base.nextId
      /\ \A id \in DOMAIN b.timers :
            /\ id \in DOMAIN base.timers /\ b.timers[id] = base.timers[id]
            /\ id \notin ToSet(r) => b.pool[b.timers[id]] = base.pool[base.timers[id]]
            /\ id \in ToSet(r) =>
                  /\ base.pool[base.timers[id]].repeating
                  /\ b.pool[b.timers[id]] = [base.pool[base.timers[id]]
                        EXCEPT !.expiry = @ + base.pool[base.timers[id]].interval]
  <2>. DEFINE c == Rearm(base, r)
  <2>1. /\ WellFormed(c) /\ c.nextId = base.nextId
        /\ \A id \in DOMAIN c.timers :
              /\ id \in DOMAIN base.timers /\ c.timers[id] = base.timers[id]
              /\ id \notin ToSet(r) => c.pool[c.timers[id]] = base.pool[base.timers[id]]
              /\ id \in ToSet(r) =>
                    /\ base.pool[base.timers[id]].repeating
                    /\ c.pool[c.timers[id]] = [base.pool[base.timers[id]]
                          EXCEPT !.expiry = @ + base.pool[base.timers[id]].interval]
    BY <1>0, <1>2, <1>3, RearmKeeps
  <2>2. c = b
    BY <1>b
  <2>. HIDE DEF c
  <2>. QED  BY <2>1, <2>2
<1>5. /\ WellFormed(base') /\ SameTimers(b, base') /\ base'.timers = b.timers
      /\ base'.nextId = b.nextId
  BY <1>1, <1>4, ScheduleKeeps
<1>6. /\ loop'.ready = <<>> /\ Len(loop'.ready) = 0 /\ loop'.done = 0
      /\ loop' \in [pc : Places, ready : Seq(Nat), done : Nat]
  BY <1>1 DEF Places
<1>7. TypeOk'
  <2>1. wake' \in [armed : Int, permits : Nat]
    BY <1>0, <1>1, <1>4, ScheduleTypes DEF TypeOk
  <2>. QED  BY <1>0, <1>1, <1>4, <1>5, <1>6, <2>1 DEF TypeOk
<1>8. CancelInv'
  BY <1>0, <1>1, <1>4, <1>5 DEF CancelInv, Issued
<1>9. RoundInv'
  BY <1>6 DEF RoundInv, RoundShape
<1>10. \A id : Served(id) <=> id \in ToSet(r)
  BY <1>1, <1>2, <1>r DEF Served, ToSet
<1>11. PlanInv'
  <2>1. ASSUME NEW id \in DOMAIN b.timers
        PROVE  LET n == b.pool[b.timers[id]] IN
               /\ n.interval = born[id].delay /\ n.repeating = born[id].repeating
               /\ born[id].at + fired[id] * born[id].delay <= n.expiry
               /\ born[id].at + fired[id] * born[id].delay + born[id].delay <= n.expiry
               /\ ~born[id].repeating => fired[id] = 0
    <3>. DEFINE x == base.pool[base.timers[id]]
                y == b.pool[b.timers[id]]
    <3>1. /\ x.interval = born[id].delay /\ x.repeating = born[id].repeating
          /\ born[id].at + fired[id] * born[id].delay <= x.expiry
          /\ ~Served(id) =>
                /\ born[id].at + fired[id] * born[id].delay + born[id].delay <= x.expiry
                /\ ~born[id].repeating => fired[id] = 0
      BY <1>0, <1>4 DEF PlanInv
    <3>2. x \in Node /\ x.expiry \in Nat /\ id \in 1 .. Len(born)
      BY <1>0, <1>4, TimerNodeTypes
    <3>3. born[id].at \in Nat /\ born[id].delay \in Nat /\ fired[id] * born[id].delay \in Nat
      BY <1>0, <3>2, BornTypes
    <3>4. CASE id \notin ToSet(r)
      <4>1. y = x
        BY <1>4, <3>4
      <4>. QED  BY <1>10, <3>1, <3>4, <4>1
    <3>5. CASE id \in ToSet(r)
      <4>1. x.repeating /\ y = [x EXCEPT !.expiry = @ + x.interval]
        BY <1>4, <3>5
      <4>. HIDE DEF x, y
      <4>2. y.expiry = x.expiry + x.interval /\ y.interval = x.interval /\ y.repeating = x.repeating
        BY <3>2, <4>1, LaterNode
      <4>3. /\ born[id].at + fired[id] * born[id].delay <= y.expiry
            /\ born[id].at + fired[id] * born[id].delay + born[id].delay <= y.expiry
        BY <3>1, <3>2, <3>3, <4>2
      <4>. QED  BY <3>1, <4>1, <4>2, <4>3 DEF x, y
    <3>. QED  BY <3>4, <3>5
  <2>2. \A id \in DOMAIN base'.timers : id \in DOMAIN b.timers
            /\ base'.pool[base'.timers[id]] = b.pool[b.timers[id]]
    BY <1>5 DEF SameTimers
  <2>3. \A id \in DOMAIN base'.timers :
          LET n == base'.pool[base'.timers[id]] IN
          /\ n.interval = born[id].delay /\ n.repeating = born[id].repeating
          /\ born[id].at + fired[id] * born[id].delay <= n.expiry
          /\ born[id].at + fired[id] * born[id].delay + born[id].delay <= n.expiry
          /\ ~born[id].repeating => fired[id] = 0
    BY <2>1, <2>2
  <2>. QED  BY <1>0, <1>1, <1>4, <1>5, <2>3 DEF PlanInv
<1>12. OnSchedule'
  BY <1>1, <1>7, ScheduleKept DEF TypeOk
<1>. QED  BY <1>5, <1>7, <1>8, <1>9, <1>11, <1>12 DEF TimersInv

\* addTimer: a new id, not cancelled, not collected, due no earlier than now.
LEMMA AddTimerKeeps ==
    ASSUME TimersInv, NEW a \in Actors, NEW delay \in Delays, NEW repeating \in BOOLEAN,
           AddTimer(a, delay, repeating)
    PROVE  TimersInv'
<1>0. TypeOk /\ WellFormed(base) /\ CancelInv /\ RoundInv /\ PlanInv /\ OnSchedule
  BY DEF TimersInv
<1>b. PICK b : b = Insert(base, delay, repeating)
  OBVIOUS
<1>n. PICK new : new = base.nextId
  OBVIOUS
<1>1. /\ mutex = None /\ new \in Ids /\ mutex' = a
      /\ ctxs' = Restrict(ctxs, {id \in DOMAIN ctxs : IsAlive(base, id)})
      /\ ScheduleNextTimer(b) \/ (base' = b /\ UNCHANGED wake)
      /\ born' = Append(born, [at |-> now, delay |-> delay, repeating |-> repeating])
      /\ UNCHANGED <<kind, now, loop, ids, up, fired, cancelled>>
  BY <1>b, <1>n DEF AddTimer
<1>2. /\ delay \in Nat /\ now \in Nat /\ new \in Nat /\ Len(born) \in Nat /\ new = Len(born) + 1
      /\ born \in Seq(Asked)
  BY <1>0, <1>n, TimersAssumption DEF TypeOk
<1>x. PICK x : x = b.timers[new]
  OBVIOUS
<1>3. /\ WellFormed(b) /\ b.nextId = new + 1
      /\ DOMAIN b.timers = DOMAIN base.timers \cup {new} /\ new \notin DOMAIN base.timers
      /\ \A id \in DOMAIN base.timers :
            b.timers[id] = base.timers[id] /\ b.pool[b.timers[id]] = base.pool[base.timers[id]]
      /\ b.heap = base.heap \cup {x} /\ \A i \in base.heap : b.pool[i] = base.pool[i]
      /\ \A id \in DOMAIN base.timers : base.timers[id] # x
      /\ b.pool[x].expiry = now + delay /\ b.pool[x].interval = delay
      /\ b.pool[x].repeating = repeating /\ b.pool[x].alive
  <2>. DEFINE c == Insert(base, delay, repeating)
              y == c.timers[base.nextId]
  <2>1. /\ WellFormed(c) /\ c.nextId = base.nextId + 1
        /\ DOMAIN c.timers = DOMAIN base.timers \cup {base.nextId}
        /\ base.nextId \notin DOMAIN base.timers
        /\ \A id \in DOMAIN base.timers :
              c.timers[id] = base.timers[id] /\ c.pool[c.timers[id]] = base.pool[base.timers[id]]
        /\ c.heap = base.heap \cup {y} /\ \A i \in base.heap : c.pool[i] = base.pool[i]
        /\ \A id \in DOMAIN base.timers : base.timers[id] # y
        /\ c.pool[y].expiry = now + delay /\ c.pool[y].interval = delay
        /\ c.pool[y].repeating = repeating /\ c.pool[y].alive
    <3>1. WellFormed(base) /\ now \in Nat /\ delay \in Nat /\ repeating \in BOOLEAN
      BY <1>0, <1>2
    <3>. QED  BY <3>1, InsertKeeps
  <2>2. c = b
    BY <1>b
  <2>3. y = x
    BY <1>n, <1>x, <2>2
  <2>. HIDE DEF c, y
  <2>. QED  BY <1>n, <2>1, <2>2, <2>3
<1>4. /\ WellFormed(base') /\ SameTimers(b, base') /\ SameHeap(b, base')
      /\ base'.timers = b.timers /\ base'.nextId = new + 1
  BY <1>1, <1>3, ScheduleKeeps, SameSelf
<1>5. /\ DOMAIN ctxs' \subseteq DOMAIN ctxs
      /\ \A id \in DOMAIN ctxs' : id \in DOMAIN base.timers
  BY <1>1 DEF Restrict, IsAlive
<1>6. /\ born' \in Seq(Asked) /\ Len(born') = new
      /\ \A id \in 1 .. Len(born) : born'[id] = born[id]
      /\ born'[new].at = now /\ born'[new].delay = delay /\ born'[new].repeating = repeating
  <2>1. PICK e : e = [at |-> now, delay |-> delay, repeating |-> repeating]
    OBVIOUS
  <2>2. e \in Asked /\ e.at = now /\ e.delay = delay /\ e.repeating = repeating
    BY <1>2, <2>1 DEF Asked
  <2>3. /\ born' \in Seq(Asked) /\ Len(born') = Len(born) + 1
        /\ \A id \in 1 .. Len(born) : born'[id] = born[id]
        /\ born'[Len(born) + 1] = e
    BY <1>1, <1>2, <2>1, <2>2
  <2>. QED  BY <1>2, <2>2, <2>3
<1>7. TypeOk'
  <2>1. wake' \in [armed : Int, permits : Nat]
    BY <1>0, <1>1, <1>3, ScheduleTypes DEF TypeOk
  <2>2. new <= MaxTimers
    BY <1>1, TimersAssumption DEF Ids
  <2>. QED  BY <1>0, <1>1, <1>4, <1>6, <2>1, <2>2 DEF TypeOk
<1>8. CancelInv'
  <2>1. \A id : Issued(id) => Issued(id)'
    BY <1>2, <1>4, <1>n DEF Issued
  <2>2. new \notin cancelled /\ new + 1 - 1 = new /\ new + 1 > 1
    BY <1>0, <1>1, <1>2, <1>n DEF CancelInv, Issued, Ids
  <2>3. base'.nextId - 1 = new /\ base'.nextId > 1
    BY <1>2, <1>4, <2>2
  <2>4. \A id \in cancelled \cup DOMAIN ctxs : Issued(id)'
    BY <1>0, <2>1 DEF CancelInv
  <2>5. \A e \in Actors : \A id \in ids[e] : Issued(id)'
    BY <1>0, <2>1 DEF CancelInv
  <2>6. DOMAIN ctxs \cap cancelled = {}
    BY <1>0 DEF CancelInv
  <2>7. DOMAIN ctxs' \cap cancelled' = {} /\ base'.nextId - 1 \notin cancelled'
    BY <1>1, <1>5, <2>2, <2>3, <2>6
  <2>8. \A id \in cancelled' \cup DOMAIN ctxs' : Issued(id)'
    BY <1>1, <1>5, <2>4
  <2>. QED  BY <1>1, <2>3, <2>5, <2>7, <2>8 DEF CancelInv
<1>9. \A id \in DOMAIN base.timers :
         /\ id \in DOMAIN base'.timers /\ base'.timers[id] = base.timers[id]
         /\ base'.pool[base'.timers[id]] = base.pool[base.timers[id]]
         /\ base.timers[id] \notin base.heap => base'.timers[id] \notin base'.heap
  BY <1>3, <1>4 DEF SameTimers, SameHeap
<1>10. RoundInv'
  <2>1. RoundShape'
    BY <1>0, <1>1 DEF RoundInv, RoundShape
  <2>2. ASSUME NEW k \in 1 .. Len(loop.ready), NEW id, RoundEntry(k, id)
        PROVE  RoundEntry(k, id)'
    <3>1. Issued(id)' /\ id # new /\ id \in Nat
      BY <1>2, <1>4, <1>n, <2>2 DEF RoundEntry, Issued
    <3>2. id \in DOMAIN base'.timers => id \in DOMAIN base.timers
      BY <1>3, <1>4, <3>1
    <3>3. id + 1 # base'.nextId
      BY <1>2, <1>4, <3>1
    <3>. QED  BY <1>1, <1>5, <1>9, <2>2, <3>1, <3>2, <3>3 DEF RoundEntry
  <2>3. ASSUME NEW k \in 1 .. Len(loop.ready)
        PROVE  RoundEntry(k, loop.ready[k])'
    <3>1. PICK id : id = loop.ready[k]
      OBVIOUS
    <3>2. RoundEntry(k, id)'
      BY <1>0, <2>2, <3>1 DEF RoundInv
    <3>. QED  BY <1>1, <3>1, <3>2
  <2>. QED  BY <1>1, <2>1, <2>3 DEF RoundInv
<1>11. PlanInv'
  <2>0. \A id : Served(id)' <=> Served(id)
    BY <1>1 DEF Served
  <2>f. fired[new] = 0 /\ new >= base.nextId
    BY <1>0, <1>1, <1>2, <1>n DEF PlanInv
  <2>1. ASSUME NEW id \in DOMAIN base'.timers
        PROVE  LET n == base'.pool[base'.timers[id]] IN
               /\ n.interval = born'[id].delay /\ n.repeating = born'[id].repeating
               /\ born'[id].at + fired[id] * born'[id].delay <= n.expiry
               /\ ~Served(id) =>
                     /\ born'[id].at + fired[id] * born'[id].delay + born'[id].delay <= n.expiry
                     /\ ~born'[id].repeating => fired[id] = 0
    <3>1. CASE id \in DOMAIN base.timers
      <4>1. id \in 1 .. Len(born)
        BY <1>0, <3>1, TimerNodeTypes
      <4>2. born'[id] = born[id] /\ base'.pool[base'.timers[id]] = base.pool[base.timers[id]]
        BY <1>6, <1>9, <3>1, <4>1
      <4>. QED  BY <1>0, <3>1, <4>2 DEF PlanInv
    <3>2. CASE id = new
      <4>1. base'.pool[base'.timers[id]] = b.pool[x]
        BY <1>3, <1>4, <1>x, <3>2 DEF SameTimers
      <4>2. /\ b.pool[x].interval = delay /\ b.pool[x].repeating = repeating
            /\ b.pool[x].expiry = now + delay
        BY <1>3
      <4>3. fired[id] * delay = 0
        BY <1>2, <2>f, <3>2
      <4>. QED  BY <1>2, <1>6, <2>f, <3>2, <4>1, <4>2, <4>3
    <3>. QED  BY <1>3, <1>4, <3>1, <3>2
  <2>2. \A id \in Ids : id >= new + 1 => fired[id] = 0
    <3>. SUFFICES ASSUME NEW id \in Ids, id >= new + 1
                  PROVE  fired[id] = 0
      OBVIOUS
    <3>1. id >= base.nextId
      BY <1>2, <1>n DEF Ids
    <3>. QED  BY <1>0, <3>1 DEF PlanInv
  <2>. QED  BY <1>1, <1>4, <2>0, <2>1, <2>2 DEF PlanInv
<1>12. OnSchedule'
  <2>. SUFFICES ASSUME NEW id \in DOMAIN born'
                PROVE  /\ fired[id] * born'[id].delay <= now - born'[id].at
                       /\ ~born'[id].repeating => fired[id] <= 1
    BY <1>1 DEF OnSchedule
  <2>1. CASE id \in 1 .. Len(born)
    BY <1>0, <1>2, <1>6, <2>1 DEF OnSchedule
  <2>2. CASE id = new
    <3>1. fired[new] = 0
      BY <1>0, <1>1, <1>2, <1>n DEF PlanInv
    <3>2. fired[id] * delay = 0 /\ now - now = 0
      BY <1>2, <2>2, <3>1
    <3>. QED  BY <1>6, <2>2, <3>1, <3>2
  <2>3. id \in 1 .. new
    BY <1>6
  <2>. QED  BY <1>2, <2>1, <2>2, <2>3
<1>. QED  BY <1>4, <1>7, <1>8, <1>10, <1>11, <1>12 DEF TimersInv

LEMMA AddTimerDoneKeeps ==
    ASSUME TimersInv, NEW a \in Actors, AddTimerDone(a)
    PROVE  TimersInv'
<1>0. TypeOk /\ WellFormed(base) /\ CancelInv /\ RoundInv /\ PlanInv
  BY DEF TimersInv
<1>n. PICK new : new = base.nextId - 1
  OBVIOUS
<1>1. /\ mutex = a /\ mutex' = None /\ mutex # None
      /\ DOMAIN ctxs' = DOMAIN ctxs \cup {new}
      /\ ids' = [ids EXCEPT ![a] = @ \cup {new}]
      /\ UNCHANGED <<kind, now, base, wake, loop, up, born, fired, cancelled>>
  BY <1>n, TimersAssumption DEF AddTimerDone, history
<1>2. new \in Nat /\ new + 1 = base.nextId /\ Issued(new) /\ new \notin cancelled
  BY <1>0, <1>1, <1>n DEF TypeOk, CancelInv, Issued
<1>3. TypeOk'
  BY <1>0, <1>1, <1>2 DEF TypeOk
<1>4. CancelInv'
  <2>1. \A id : Issued(id)' <=> Issued(id)
    BY <1>1 DEF Issued
  <2>2. \A e \in Actors : \A id \in ids'[e] : Issued(id)
    BY <1>0, <1>1, <1>2 DEF CancelInv, TypeOk
  <2>3. DOMAIN ctxs' \cap cancelled' = {} /\ \A id \in cancelled' \cup DOMAIN ctxs' : Issued(id)
    BY <1>0, <1>1, <1>2 DEF CancelInv
  <2>. QED  BY <1>1, <2>1, <2>2, <2>3 DEF CancelInv
<1>5. RoundInv'
  <2>1. RoundShape'
    BY <1>0, <1>1 DEF RoundInv, RoundShape
  <2>2. ASSUME NEW k \in 1 .. Len(loop.ready), NEW id, RoundEntry(k, id)
        PROVE  RoundEntry(k, id)'
    BY <1>1, <1>2, <2>2 DEF RoundEntry, Issued
  <2>3. ASSUME NEW k \in 1 .. Len(loop.ready)
        PROVE  RoundEntry(k, loop.ready[k])'
    <3>1. PICK id : id = loop.ready[k]
      OBVIOUS
    <3>2. RoundEntry(k, id)'
      BY <1>0, <2>2, <3>1 DEF RoundInv
    <3>. QED  BY <1>1, <3>1, <3>2
  <2>. QED  BY <1>1, <2>1, <2>3 DEF RoundInv
<1>6. PlanInv'
  BY <1>1, PlanKept, SameSelf
<1>7. OnSchedule'
  BY <1>0, <1>1, ScheduleKept DEF TypeOk
<1>. QED  BY <1>0, <1>1, <1>3, <1>4, <1>5, <1>6, <1>7 DEF TimersInv

\* cancelTimer: the context goes with the timer, under the scheduler's mutex.
LEMMA CancelTimerKeeps ==
    ASSUME TimersInv, NEW a \in Actors, NEW x \in Ids, CancelTimer(a, x)
    PROVE  TimersInv'
<1>0. TypeOk /\ WellFormed(base) /\ CancelInv /\ RoundInv /\ PlanInv
  BY DEF TimersInv
<1>1. /\ mutex = None /\ mutex' = None /\ x \in ids[a] /\ base' = Erase(base, x)
      /\ DOMAIN ctxs' = DOMAIN ctxs \ {x}
      /\ ids' = [ids EXCEPT ![a] = @ \ {x}] /\ cancelled' = cancelled \cup {x}
      /\ UNCHANGED <<kind, now, wake, loop, up, born, fired>>
  BY DEF CancelTimer, Cancel, Restrict
<1>2. /\ WellFormed(base') /\ SameTimers(base, base') /\ SameHeap(base, base')
      /\ base'.nextId = base.nextId /\ DOMAIN base'.timers = DOMAIN base.timers \ {x}
  BY <1>0, <1>1, EraseKeeps
<1>3. TypeOk'
  BY <1>0, <1>1, <1>2 DEF TypeOk
<1>4. CancelInv'
  <2>1. \A id : Issued(id)' <=> Issued(id)
    BY <1>2 DEF Issued
  <2>2. \A e \in Actors : ids'[e] \subseteq ids[e]
    BY <1>0, <1>1 DEF TypeOk
  <2>3. Issued(x)
    BY <1>0, <1>1 DEF CancelInv
  <2>4. \A e \in Actors : \A id \in ids'[e] : Issued(id)'
    BY <1>0, <2>1, <2>2 DEF CancelInv
  <2>5. DOMAIN ctxs' \cap cancelled' = {} /\ \A id \in cancelled' \cup DOMAIN ctxs' : Issued(id)'
    BY <1>0, <1>1, <2>1, <2>3 DEF CancelInv
  <2>. QED  BY <1>1, <2>4, <2>5 DEF CancelInv
<1>5. RoundInv'
  <2>1. RoundShape'
    BY <1>0, <1>1 DEF RoundInv, RoundShape
  <2>2. ASSUME NEW k \in 1 .. Len(loop.ready), NEW id, RoundEntry(k, id)
        PROVE  RoundEntry(k, id)'
    <3>1. id \in DOMAIN base'.timers =>
             /\ id \in DOMAIN base.timers /\ base'.timers[id] = base.timers[id]
             /\ base'.pool[base'.timers[id]] = base.pool[base.timers[id]]
             /\ base.timers[id] \notin base.heap => base'.timers[id] \notin base'.heap
      BY <1>2 DEF SameTimers, SameHeap
    <3>2. id \in DOMAIN base'.timers =>
             /\ base'.timers[id] \notin base'.heap /\ base'.pool[base'.timers[id]].expiry <= now'
      BY <1>1, <2>2, <3>1 DEF RoundEntry
    <3>3. (k > loop'.done /\ id \in DOMAIN ctxs') => id \in DOMAIN base'.timers
      BY <1>1, <1>2, <2>2 DEF RoundEntry
    <3>. QED  BY <1>1, <1>2, <2>2, <3>2, <3>3 DEF RoundEntry, Issued
  <2>3. ASSUME NEW k \in 1 .. Len(loop.ready)
        PROVE  RoundEntry(k, loop.ready[k])'
    <3>1. PICK id : id = loop.ready[k]
      OBVIOUS
    <3>2. RoundEntry(k, id)'
      BY <1>0, <2>2, <3>1 DEF RoundInv
    <3>. QED  BY <1>1, <3>1, <3>2
  <2>. QED  BY <1>1, <2>1, <2>3 DEF RoundInv
<1>6. PlanInv'
  BY <1>1, <1>2, PlanKept
<1>7. OnSchedule'
  BY <1>0, <1>1, ScheduleKept DEF TypeOk
<1>. QED  BY <1>2, <1>3, <1>4, <1>5, <1>6, <1>7 DEF TimersInv

LEMMA InvInductive == TimersInv /\ [Next]_vars => TimersInv'
<1>. SUFFICES ASSUME TimersInv, [Next]_vars
              PROVE  TimersInv'
  OBVIOUS
<1>1. CASE \/ OnWake \/ RunLoopLook \/ RunLoopNotified \/ RunLoopTimeout
           \/ Start \/ StopScheduler \/ Clock \/ UNCHANGED vars
  BY <1>1, QuietActions
<1>2. CASE ExecuteExpired
  BY <1>2, ExecuteExpiredKeeps
<1>3. CASE TimerCallback
  BY <1>3, TimerCallbackKeeps
<1>4. CASE Settle
  BY <1>4, SettleKeeps
<1>5. CASE StopTimer
  BY <1>5, StopTimerKeeps
<1>6. ASSUME NEW a \in Actors, ActorStep(a)
      PROVE  TimersInv'
  <2>1. ASSUME NEW delay \in Delays, NEW repeating \in BOOLEAN, AddTimer(a, delay, repeating)
        PROVE  TimersInv'
    BY <2>1, AddTimerKeeps
  <2>2. CASE AddTimerDone(a)
    BY <2>2, AddTimerDoneKeeps
  <2>3. ASSUME NEW id \in Ids, CancelTimer(a, id)
        PROVE  TimersInv'
    BY <2>3, CancelTimerKeeps
  <2>. QED  BY <1>6, <2>1, <2>2, <2>3 DEF ActorStep
<1>. QED  BY <1>1, <1>2, <1>3, <1>4, <1>5, <1>6 DEF Next, LoopStep

LEMMA InvHolds == Spec => []TimersInv
BY InvAtStart, InvInductive, PTL DEF Spec

-----------------------------------------------------------------------------
(* The theorems                                                            *)

\* No pool node of TimerBase is used twice, whatever the actors add and cancel while
\* callbacks run: a free node is in no heap slot and behind no id, and the free list
\* names it once (allocNode, freeNode, purgeDeadEntries, executeExpiredTimers).
THEOREM NodesNeverAlias == Spec => []NodesDisjoint
<1>1. TimersInv => NodesDisjoint
  <2>. SUFFICES ASSUME TimersInv
                PROVE  NodesDisjoint
    OBVIOUS
  <2>. DEFINE f == base.free
  <2>1. base \in Bases /\ FreeOnce(base) /\ FreeApart(base) /\ OwnNode(base) /\ HeapKnown(base)
    BY DEF TimersInv, WellFormed
  <2>2. f \in Seq(Nat) /\ Len(f) \in Nat /\ DOMAIN f = 1 .. Len(f)
    BY <2>1, BaseFields
  <2>3. Cardinality(ToSet(f)) = Len(f)
    <3>1. /\ f \in [1 .. Len(f) -> ToSet(f)]
          /\ \A t \in ToSet(f) : \E k \in 1 .. Len(f) : f[k] = t
      BY <2>2 DEF ToSet
    <3>2. \A j, k \in 1 .. Len(f) : f[j] = f[k] => j = k
      BY <2>1 DEF FreeOnce
    <3>3. f \in Bijection(1 .. Len(f), ToSet(f))
      <4>1. f \in Injection(1 .. Len(f), ToSet(f))
        BY <3>1, <3>2 DEF Injection, IsInjective
      <4>2. f \in Surjection(1 .. Len(f), ToSet(f))
        BY <3>1 DEF Surjection
      <4>. QED  BY <4>1, <4>2 DEF Bijection
    <3>4. ExistsBijection(1 .. Len(f), ToSet(f))
      BY <3>3 DEF ExistsBijection
    <3>. QED  BY <2>2, <3>4, FS_CountingElements
  <2>4. ToSet(f) \cap (base.heap \cup Range(base.timers)) = {}
    BY <2>1, <2>2 DEF FreeApart, ToSet, Range
  <2>. QED  BY <2>1, <2>3, <2>4 DEF NodesDisjoint, OwnNode, HeapKnown
<1>. QED  BY <1>1, InvHolds, PTL

\* No timer fires early, a one-shot timer fires once, a repeating one at most once per
\* interval, whatever is added or cancelled between collection and callback
\* (executeExpiredTimers, Scheduler::timerCallback).
THEOREM FiresOnSchedule == Spec => []OnSchedule
<1>1. TimersInv => OnSchedule
  BY DEF TimersInv
<1>. QED  BY <1>1, InvHolds, PTL

\* A cancelled timer sends nothing more, even if it was collected before and its
\* callback runs after cancelTimer returned (Scheduler::cancel, timerCallback).
THEOREM SilentAfterCancel == Spec => NoFireAfterCancel
<1>1. TimersInv /\ [Next]_vars => [\A id \in cancelled : fired'[id] = fired[id]]_fired
  <2>. SUFFICES ASSUME TimersInv, Next, fired' # fired, NEW id \in cancelled
                PROVE  fired'[id] = fired[id]
    BY DEF vars
  <2>1. TimerCallback
    BY DEF Next, LoopStep, ActorStep, OnWake, RunLoopLook, RunLoopNotified, RunLoopTimeout, Moves,
           ExecuteExpired, Settle, Start, StopTimer, StopScheduler, Clock, AddTimer, AddTimerDone,
           CancelTimer, Cancel, history
  <2>2. id \notin DOMAIN ctxs /\ fired \in [Ids -> Nat]
    BY DEF TimersInv, CancelInv, TypeOk
  <2>. QED  BY <2>1, <2>2 DEF TimerCallback
<1>. QED  BY <1>1, InvHolds, PTL DEF Spec, NoFireAfterCancel

-----------------------------------------------------------------------------
(* The serving thread is woken in time                                     *)

\* What holds at rest for every node in the heap, live or dead, not only for the top.
WakeInv ==
    /\ kind \in Kinds
    /\ kind = "timerfd" => loop.pc \notin {"waiting", "blocked"}
    /\ (kind = "timerfd" /\ loop.pc = "idle" /\ up \in {"new", "running"}) =>
          \A i \in base.heap : /\ wake.armed # Never
                               /\ wake.armed <= base.pool[i].expiry \/ wake.armed <= now
    /\ loop.pc = "blocked" => base.heap = {} \/ wake.permits > 0
    /\ loop.pc = "waiting" =>
          wake.permits > 0 \/ \A i \in base.heap : wake.armed <= base.pool[i].expiry

\* No clock reading on the timerfd back end equals an expiry to the nanosecond, and
\* sema_ can hold a permit.
WakeAssumption == (ExactHits => "timerfd" \notin Kinds) /\ MaxPermits > 0

LEMMA HeapTypes ==
    ASSUME NEW b, WellFormed(b)
    PROVE  /\ b.pool \in Seq(Node) /\ b.heap \subseteq Nodes(b)
           /\ \A i \in b.heap : b.pool[i].expiry \in Nat
<1>1. b \in Bases /\ b.heap \subseteq Nodes(b)
  BY DEF WellFormed, HeapKnown
<1>2. b.pool \in Seq(Node) /\ \A i \in Nodes(b) : b.pool[i] \in Node
  BY <1>1, BaseFields
<1>3. \A i \in b.heap : b.pool[i] \in Node
  BY <1>1, <1>2
<1>. QED  BY <1>1, <1>2, <1>3 DEF Node

\* scheduleNextTimer arms the timerfd for the whole heap, or leaves a permit.
LEMMA ScheduleWakes ==
    ASSUME WakeAssumption, TypeOk, kind \in Kinds, NEW b, WellFormed(b), ScheduleNextTimer(b)
    PROVE  /\ (kind = "timerfd" /\ up \in {"new", "running"}) =>
                 \A i \in base'.heap : /\ wake'.armed # Never
                                       /\ wake'.armed <= base'.pool[i].expiry \/ wake'.armed <= now
           /\ kind = "thread" => wake'.permits > 0
<1>1. wake \in [armed : Int, permits : Nat] /\ now \in Nat /\ MaxPermits \in Nat
  BY TimersAssumption DEF TypeOk
<1>2. ASSUME kind = "timerfd", up \in {"new", "running"}, NEW i \in base'.heap
      PROVE  /\ wake'.armed # Never
             /\ wake'.armed <= base'.pool[i].expiry \/ wake'.armed <= now
  <2>1. base' = PurgeDead(b) /\ wake' = [wake EXCEPT !.armed = ArmedFor(base')]
    BY <1>2 DEF ScheduleNextTimer
  <2>2. WellFormed(base') /\ HasLiveTop(base')
    BY <1>2, <2>1, PurgeKeeps
  <2>3. wake'.armed = ArmedFor(base')
    BY <1>1, <2>1
  <2>4. ~ExactHits
    BY <1>2, TimersAssumption DEF WakeAssumption
  <2>5. NextExpiry(base') \in Nat /\ NextExpiry(base') <= base'.pool[i].expiry
    <3>1. /\ base'.pool \in Seq(Node) /\ base'.heap \subseteq Nodes(base')
          /\ \A j \in base'.heap : base'.pool[j].expiry \in Nat
      BY <2>2, HeapTypes
    <3>2. base'.heap # {} /\ Top(base') \in base'.heap
      BY <1>2, <3>1, TopIsFirst
    <3>. QED  BY <1>2, <3>1, <3>2, TopIsFirst DEF NextExpiry
  <2>6. base'.pool[i].expiry \in Nat
    BY <1>2, <2>2, HeapTypes
  <2>7. ArmedFor(base') = IF NextExpiry(base') < now THEN now ELSE NextExpiry(base')
    BY <2>2, <2>4 DEF ArmedFor
  <2>. QED  BY <1>1, <2>3, <2>5, <2>6, <2>7 DEF Never
<1>3. ASSUME kind = "thread"
      PROVE  wake'.permits > 0
  <2>1. wake' = [wake EXCEPT !.permits = IF wake.permits < MaxPermits THEN wake.permits + 1 ELSE wake.permits]
    BY <1>3 DEF ScheduleNextTimer
  <2>2. wake'.permits = IF wake.permits < MaxPermits THEN wake.permits + 1 ELSE wake.permits
    BY <1>1, <2>1
  <2>3. wake.permits \in Nat /\ MaxPermits > 0
    BY <1>1 DEF WakeAssumption
  <2>. QED  BY <1>1, <2>2, <2>3
<1>. QED  BY <1>2, <1>3

\* A smaller heap, a later clock and a place that did not change.
LEMMA WakeKept ==
    ASSUME TypeOk, WellFormed(base), WakeInv, SameHeap(base, base'), now' \in Nat, now <= now',
           wake' = wake, loop'.pc = loop.pc, kind' = kind,
           up' \in {"new", "running"} => up \in {"new", "running"}
    PROVE  WakeInv'
<1>1. wake.armed \in Int /\ now \in Nat
  BY DEF TypeOk
<1>2. \A i \in base'.heap : i \in base.heap /\ base'.pool[i].expiry = base.pool[i].expiry
  BY DEF SameHeap
<1>3. \A i \in base.heap : base.pool[i].expiry \in Nat
  BY HeapTypes
<1>. QED  BY <1>1, <1>2, <1>3 DEF WakeInv

LEMMA WakeInductive ==
    ASSUME WakeAssumption, TimersInv, TimersInv', WakeInv, [Next]_vars
    PROVE  WakeInv'
<1>0. TypeOk /\ WellFormed(base) /\ TypeOk'
  BY DEF TimersInv
<1>t. /\ wake \in [armed : Int, permits : Nat] /\ now \in Nat
      /\ loop \in [pc : Places, ready : Seq(Nat), done : Nat] /\ kind \in {"timerfd", "thread"}
  BY <1>0 DEF TypeOk
<1>pc. \A pc : [loop EXCEPT !.pc = pc].pc = pc
  BY <1>t
<1>1. CASE OnWake
  BY <1>1, <1>pc DEF OnWake, Moves, WakeInv
<1>2. CASE RunLoopLook
  <2>1. /\ kind = "thread" /\ kind' = kind /\ base' = PurgeDead(base)
        /\ (IF HasLiveTop(base') THEN wake' = [wake EXCEPT !.armed = NextExpiry(base')]
                                      /\ loop' = [loop EXCEPT !.pc = "waiting"]
            ELSE wake' = wake /\ loop' = [loop EXCEPT !.pc = "blocked"])
    BY <1>2 DEF RunLoopLook, Moves
  <2>2. WellFormed(base') /\ (base'.heap # {} => HasLiveTop(base'))
    BY <1>0, <2>1, PurgeKeeps
  <2>3. CASE HasLiveTop(base')
    <3>1. /\ base'.pool \in Seq(Node) /\ base'.heap \subseteq Nodes(base') /\ base'.heap # {}
      BY <2>2, <2>3, HeapTypes DEF HasLiveTop
    <3>2. \A i \in base'.heap : NextExpiry(base') <= base'.pool[i].expiry
      BY <3>1, TopIsFirst
    <3>3. wake'.armed = NextExpiry(base') /\ loop'.pc = "waiting"
      BY <1>t, <1>pc, <2>1, <2>3
    <3>. QED  BY <2>1, <3>2, <3>3 DEF WakeInv
  <2>4. CASE ~HasLiveTop(base')
    BY <1>pc, <2>1, <2>2, <2>4 DEF WakeInv
  <2>. QED  BY <2>3, <2>4
<1>3. CASE RunLoopNotified
  <2>1. loop'.pc = "idle" /\ kind' = kind /\ loop.pc \in {"waiting", "blocked"}
    BY <1>3, <1>pc DEF RunLoopNotified, Moves
  <2>. QED  BY <2>1 DEF WakeInv
<1>4. CASE RunLoopTimeout
  BY <1>4, <1>pc DEF RunLoopTimeout, Moves, WakeInv
<1>5. CASE ExecuteExpired
  BY <1>5 DEF ExecuteExpired, WakeInv
<1>6. CASE TimerCallback
  <2>1. /\ loop'.pc = loop.pc /\ base' = base
        /\ UNCHANGED <<kind, now, wake, up>>
    BY <1>6, <1>t DEF TimerCallback
  <2>. QED  BY <1>0, <1>t, <2>1, WakeKept, SameSelf
<1>7. CASE Settle
  <2>1. WellFormed(Rearm(base, loop.ready))
    <3>1. loop.ready \in Seq(Nat)
      BY <1>t
    <3>2. \A k \in 1 .. Len(loop.ready) :
             loop.ready[k] \in DOMAIN base.timers => base.timers[loop.ready[k]] \notin base.heap
      BY DEF TimersInv, RoundInv, RoundEntry
    <3>. QED  BY <1>0, <3>1, <3>2, RearmKeeps
  <2>2. /\ ScheduleNextTimer(Rearm(base, loop.ready)) /\ loop'.pc = "idle"
        /\ UNCHANGED <<kind, now, up>>
    BY <1>7 DEF Settle
  <2>3. kind \in Kinds
    BY DEF WakeInv
  <2>4. (kind = "timerfd" /\ up \in {"new", "running"}) =>
           \A i \in base'.heap : /\ wake'.armed # Never
                                 /\ wake'.armed <= base'.pool[i].expiry \/ wake'.armed <= now
    BY <1>0, <2>1, <2>2, <2>3, ScheduleWakes
  <2>. QED  BY <2>2, <2>3, <2>4 DEF WakeInv
<1>8. CASE Start
  <2>1. /\ up = "new" /\ up' = "running" /\ base' = base /\ UNCHANGED <<kind, now, wake, loop>>
    BY <1>8 DEF Start
  <2>. QED  BY <1>0, <1>t, <2>1, WakeKept, SameSelf
<1>9. CASE StopTimer
  <2>1. loop'.pc = "idle" /\ up' = "stopping" /\ kind' = kind
    BY <1>9, <1>pc DEF StopTimer
  <2>. QED  BY <2>1 DEF WakeInv
<1>10. CASE StopScheduler
  <2>1. /\ up' = "stopped" /\ base' = base /\ UNCHANGED <<kind, now, wake, loop>>
    BY <1>10 DEF StopScheduler
  <2>. QED  BY <1>0, <1>t, <2>1, WakeKept, SameSelf
<1>11. CASE Clock
  <2>1. /\ now' = now + 1 /\ base' = base /\ UNCHANGED <<kind, up, wake, loop>>
    BY <1>11 DEF Clock
  <2>2. now' \in Nat /\ now <= now'
    BY <1>t, <2>1
  <2>. QED  BY <1>0, <1>t, <2>1, <2>2, WakeKept, SameSelf
<1>12. ASSUME NEW a \in Actors, NEW delay \in Delays, NEW repeating \in BOOLEAN,
              AddTimer(a, delay, repeating)
       PROVE  WakeInv'
  <2>b. PICK b : b = Insert(base, delay, repeating)
    OBVIOUS
  <2>1. /\ IF base.heap = {} \/ now + delay < NextExpiry(base)
           THEN ScheduleNextTimer(b) ELSE base' = b /\ UNCHANGED wake
        /\ UNCHANGED <<kind, now, loop, up>>
    BY <1>12, <2>b DEF AddTimer
  <2>2. delay \in Nat /\ repeating \in BOOLEAN
    BY TimersAssumption
  <2>3. /\ WellFormed(b) /\ \A i \in b.heap : \/ i \in base.heap /\ b.pool[i] = base.pool[i]
                                              \/ b.pool[i].expiry = now + delay
    <3>. DEFINE c == Insert(base, delay, repeating)
                y == c.timers[base.nextId]
    <3>1. /\ WellFormed(c) /\ c.heap = base.heap \cup {y}
          /\ \A i \in base.heap : c.pool[i] = base.pool[i]
          /\ c.pool[y].expiry = now + delay
      <4>1. WellFormed(base) /\ now \in Nat /\ delay \in Nat /\ repeating \in BOOLEAN
        BY <1>0, <1>t, <2>2
      <4>. QED  BY <4>1, InsertKeeps
    <3>2. c = b
      BY <2>b
    <3>. HIDE DEF c, y
    <3>. QED  BY <3>1, <3>2
  <2>4. CASE base.heap = {} \/ now + delay < NextExpiry(base)
    <3>1. ScheduleNextTimer(b) /\ kind \in Kinds
      BY <2>1, <2>4 DEF WakeInv
    <3>2. /\ (kind = "timerfd" /\ up \in {"new", "running"}) =>
                \A i \in base'.heap : /\ wake'.armed # Never
                                      /\ wake'.armed <= base'.pool[i].expiry \/ wake'.armed <= now
          /\ kind = "thread" => wake'.permits > 0
      BY <1>0, <2>3, <3>1, ScheduleWakes
    <3>. QED  BY <1>t, <2>1, <3>1, <3>2 DEF WakeInv
  <2>5. CASE ~(base.heap = {} \/ now + delay < NextExpiry(base))
    <3>1. base' = b /\ wake' = wake /\ base.heap # {}
      BY <2>1, <2>5
    <3>2. /\ Top(base) \in base.heap /\ NextExpiry(base) = base.pool[Top(base)].expiry
          /\ NextExpiry(base) \in Nat /\ NextExpiry(base) <= now + delay
      <4>1. Top(base) \in base.heap
        BY <1>0, <3>1, HeapTypes, TopIsFirst
      <4>2. NextExpiry(base) \in Nat
        BY <1>0, <4>1, HeapTypes DEF NextExpiry
      <4>. QED  BY <1>t, <2>2, <2>5, <4>1, <4>2 DEF NextExpiry
    <3>3. \A i \in base.heap : base.pool[i].expiry \in Nat
      BY <1>0, HeapTypes
    <3>4. wake.armed \in Int
      BY <1>t
    <3>5. \A i \in base'.heap : \E j \in base.heap :
              /\ base'.pool[i].expiry \in Nat /\ base.pool[j].expiry \in Nat
              /\ base.pool[j].expiry <= base'.pool[i].expiry
      <4>. SUFFICES ASSUME NEW i \in base'.heap
                    PROVE  \E j \in base.heap :
                               /\ base'.pool[i].expiry \in Nat /\ base.pool[j].expiry \in Nat
                               /\ base.pool[j].expiry <= base'.pool[i].expiry
        OBVIOUS
      <4>1. CASE i \in base.heap /\ b.pool[i] = base.pool[i]
        BY <3>1, <3>3, <4>1
      <4>2. CASE b.pool[i].expiry = now + delay
        BY <1>t, <2>2, <3>1, <3>2, <4>2
      <4>. QED  BY <2>3, <3>1, <4>1, <4>2
    <3>6. /\ (kind = "timerfd" /\ loop.pc = "idle" /\ up \in {"new", "running"}) =>
                \A i \in base'.heap : /\ wake.armed # Never
                                      /\ wake.armed <= base'.pool[i].expiry \/ wake.armed <= now
          /\ loop.pc = "waiting" =>
                wake.permits > 0 \/ \A i \in base'.heap : wake.armed <= base'.pool[i].expiry
      BY <3>4, <3>5 DEF WakeInv
    <3>. QED  BY <2>1, <3>1, <3>6 DEF WakeInv
  <2>. QED  BY <2>4, <2>5
<1>13. ASSUME NEW a \in Actors, AddTimerDone(a)
       PROVE  WakeInv'
  <2>1. base' = base /\ UNCHANGED <<kind, now, up, wake, loop>>
    BY <1>13 DEF AddTimerDone
  <2>. QED  BY <1>0, <1>t, <2>1, WakeKept, SameSelf
<1>14. ASSUME NEW a \in Actors, NEW id \in Ids, CancelTimer(a, id)
       PROVE  WakeInv'
  <2>1. base' = Erase(base, id) /\ UNCHANGED <<kind, now, up, wake, loop>>
    BY <1>14 DEF CancelTimer, Cancel
  <2>2. SameHeap(base, base')
    BY <1>0, <2>1, EraseKeeps
  <2>. QED  BY <1>0, <1>t, <2>1, <2>2, WakeKept
<1>15. CASE UNCHANGED vars
  <2>1. base' = base /\ UNCHANGED <<kind, now, up, wake, loop>>
    BY <1>15 DEF vars
  <2>. QED  BY <1>0, <1>t, <2>1, WakeKept, SameSelf
<1>. QED  BY <1>1, <1>2, <1>3, <1>4, <1>5, <1>6, <1>7, <1>8, <1>9, <1>10, <1>11, <1>12, <1>13,
             <1>14, <1>15 DEF Next, LoopStep, ActorStep

\* At rest the serving thread will be woken in time for the earliest timer: the timerfd
\* is armed for it or earlier, or the thread waits for it or has a permit, whatever was
\* added and cancelled (TimerBase::add, cancel, scheduleNextTimer, Timer::runLoop); on
\* the timerfd back end as long as no expiry is hit to the nanosecond.
THEOREM WokenInTime == WakeAssumption => (Spec => []ArmedForNext)
<1>. SUFFICES ASSUME WakeAssumption
              PROVE  Spec => []ArmedForNext
  OBVIOUS
<1>1. Init => WakeInv
  BY TimersAssumption DEF Init, WakeInv
<1>2. TimersInv /\ TimersInv' /\ WakeInv /\ [Next]_vars => WakeInv'
  BY WakeInductive
<1>3. TimersInv /\ WakeInv => ArmedForNext
  <2>. SUFFICES ASSUME TimersInv, WakeInv, up = "running", HasLiveTop(base)
                PROVE  /\ (kind = "timerfd" /\ loop.pc = "idle") =>
                             wake.armed # Never /\ (wake.armed <= NextExpiry(base) \/ wake.armed <= now)
                       /\ loop.pc = "blocked" => wake.permits > 0
                       /\ loop.pc = "waiting" => wake.permits > 0 \/ wake.armed <= NextExpiry(base)
    BY DEF ArmedForNext
  <2>1. base.heap # {} /\ Top(base) \in base.heap
    BY HeapTypes, TopIsFirst DEF HasLiveTop, TimersInv
  <2>. QED  BY <2>1 DEF WakeInv, NextExpiry
<1>. QED  BY <1>1, <1>2, <1>3, InvHolds, PTL DEF Spec
=============================================================================
