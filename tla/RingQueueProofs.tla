-------------------------- MODULE RingQueueProofs --------------------------
(***************************************************************************)
(* Proofs about both lock-free queues, for any number of producers,        *)
(* consumers and pushes and every capacity from two on: the slots have one *)
(* user at a time, push and pop refuse only when they may, and the queues  *)
(* implement BoundedFifo.  Then about the byte ring, of any capacity.       *)
(*                                                                         *)
(* With one slot the sequence that publishes a position is the sequence    *)
(* that frees it for the next lap, so a push would overwrite the element:  *)
(* the constructors refuse only a capacity of zero, hence the hypothesis   *)
(* Capacity >= 2 of every theorem here.                                    *)
(*                                                                         *)
(* RingInv speaks of positions, not of slots.  The positions from head_ to *)
(* tail_ are reserved and either being written or published; the next ones *)
(* up to head_ + Capacity are free, or still held by a pop of the lap      *)
(* before.  A slot is the slot of one position of that window, so what a   *)
(* thread knows of its position it knows of the slot.                      *)
(***************************************************************************)
EXTENDS RingQueues, SequenceTheorems, TLAPS

-----------------------------------------------------------------------------
(* The inductive invariant, in terms of positions                          *)

\* Where a thread may be.
Labels == {"idle", "pushSeq", "pushReload", "pushCas", "construct", "publish",
           "popSeq", "popReload", "popCas", "move", "advance", "release"}

\* The sequence and the storage of the slot of position i.
SeqAt(i)  == sequence[Slot(i)]
ElemAt(i) == element[Slot(i)]

\* p has reserved a position and not published it.
Pushing(p) == pc[p] \in {"construct", "publish"}

\* c has moved head_ past its position and has not given the slot back.
Claimed(c) == pc[c] = "release" \/ (kind = "mpmc" /\ pc[c] = "move")

\* t is at a slot that it reserved or claimed, or has emptied the oldest one.
Holds(t) ==
    pc[t] \in {"construct", "publish", "advance", "release"} \/ (kind = "mpmc" /\ pc[t] = "move")

\* No more positions are reserved than there are slots.
Bounds == head <= tail /\ tail <= head + Capacity

\* The sequence of a slot never falls behind a position that was reserved or taken.
Passed ==
    /\ \A i \in Nat : i < tail => SeqAt(i) >= i
    /\ \A i \in Nat : i < head => SeqAt(i) >= i + 1

\* A reserved position is being written by a producer or published; the element of a
\* published one is there until the owner of an MPSC queue has moved it out.
ReservedSlots ==
    \A i \in Nat : head <= i /\ i < tail =>
        \/ SeqAt(i) = i /\ \E p \in Producers : Pushing(p) /\ pos[p] = i
        \/ /\ SeqAt(i) = i + 1
           /\ ElemAt(i) \in Values \/ (pc[Owner] = "advance" /\ pos[Owner] = i)

\* A position that may be reserved next is free, or the pop of the lap before holds it.
FreeSlots ==
    \A i \in Nat : tail <= i /\ i < head + Capacity =>
        \/ SeqAt(i) = i /\ ElemAt(i) = NoValue
        \/ SeqAt(i) = i - Capacity + 1 /\ \E c \in Consumers : Claimed(c) /\ pos[c] = i - Capacity

\* What a push knows of its position.
Producing(p) ==
    /\ pc[p] \in {"idle", "pushSeq", "pushReload", "pushCas", "construct", "publish"}
    /\ pc[p] # "idle" => msg[p] \in Values /\ pos[p] <= tail
    /\ pc[p] = "pushCas" => SeqAt(pos[p]) >= pos[p]
    /\ Pushing(p) => head <= pos[p] /\ pos[p] < tail /\ SeqAt(pos[p]) = pos[p]
    /\ pc[p] = "construct" => ElemAt(pos[p]) = NoValue
    /\ pc[p] = "publish" => ElemAt(pos[p]) = msg[p]

\* What a pop knows of its position.
Consuming(c) ==
    /\ kind = "mpmc" => pc[c] \in {"idle", "popSeq", "popReload", "popCas", "move", "release"}
    /\ kind = "mpsc" => pc[c] \in {"idle", "popSeq", "move", "advance", "release"}
    /\ kind = "mpsc" /\ c # Owner => pc[c] = "idle"
    /\ pc[c] # "idle" => pos[c] <= head
    /\ pc[c] = "popCas" => SeqAt(pos[c]) >= pos[c] + 1
    /\ Claimed(c) => pos[c] < head /\ tail <= pos[c] + Capacity /\ SeqAt(pos[c]) = pos[c] + 1
    /\ kind = "mpsc" /\ pc[c] \in {"popSeq", "move", "advance"} => pos[c] = head
    /\ kind = "mpsc" /\ pc[c] \in {"move", "advance"} => head < tail /\ SeqAt(head) = head + 1
    /\ pc[c] = "move" => ElemAt(pos[c]) \in Values
    /\ pc[c] \in {"advance", "release"} => ElemAt(pos[c]) = NoValue
    /\ out[c] \in Values <=> pc[c] \in {"advance", "release"}

\* No two pushes have a position, no two pops hold one.
OneEach ==
    /\ \A p, q \in Producers : Pushing(p) /\ Pushing(q) /\ pos[p] = pos[q] => p = q
    /\ \A c, d \in Consumers : Claimed(c) /\ Claimed(d) /\ pos[c] = pos[d] => c = d

\* The inductive invariant.
RingInv ==
    /\ TypeOK /\ kind \in {"mpmc", "mpsc"}
    /\ Bounds /\ Passed /\ ReservedSlots /\ FreeSlots /\ OneEach
    /\ \A p \in Producers : Producing(p)
    /\ \A c \in Consumers : Consuming(c)

-----------------------------------------------------------------------------
(* Arithmetic of slots                                                     *)

\* A positive multiple of N is at least N.
LEMMA Mult == ASSUME NEW N \in Nat, NEW a \in Int, a >= 1 PROVE N * a >= N
  OBVIOUS

\* Division with remainder.
LEMMA DivMod ==
    ASSUME NEW N \in Nat, N > 0, NEW a \in Nat
    PROVE  /\ a = N * (a \div N) + (a % N)
           /\ (a % N) \in 0 .. N - 1 /\ (a \div N) \in Nat
  OBVIOUS

\* Multiples of N with different factors are at least N apart.
LEMMA Gap == ASSUME NEW N \in Nat, NEW q \in Int, NEW s \in Int, q < s PROVE N * q + N <= N * s
<1>1. N * (s - q) >= N
  BY Mult
<1>2. N * (s - q) = N * s - N * q
  OBVIOUS
<1> QED BY <1>1, <1>2

\* Numbers less than N apart with the same remainder are equal.
LEMMA ModInj ==
    ASSUME NEW N \in Nat, N > 0, NEW a \in Nat, NEW b \in Nat,
           a % N = b % N, a < b + N, b < a + N
    PROVE  a = b
<1> DEFINE q == a \div N
<1> DEFINE s == b \div N
<1>1. q \in Nat /\ s \in Nat /\ a = N * q + (a % N) /\ b = N * s + (b % N) /\ a % N \in Int
  BY DivMod
<1>2. ~ q < s
  BY <1>1, Gap
<1>3. ~ s < q
  BY <1>1, Gap
<1> QED BY <1>1, <1>2, <1>3

\* A lap further the remainder is the same.
LEMMA ModLap == ASSUME NEW N \in Nat, N > 0, NEW a \in Nat PROVE (a + N) % N = a % N
<1> DEFINE q == a \div N
<1> DEFINE s == (a + N) \div N
<1>1. q \in Nat /\ s \in Nat /\ a = N * q + (a % N) /\ a + N = N * s + ((a + N) % N)
      /\ a % N \in 0 .. N-1 /\ (a + N) % N \in 0 .. N-1
  BY DivMod
<1>4. N * (q + 1) = N * q + N
  BY <1>1
<1>2. ~ q + 1 < s
  BY <1>1, <1>4, Gap
<1>3. ~ s < q + 1
  BY <1>1, <1>4, Gap
<1> QED BY <1>1, <1>2, <1>3, <1>4

\* A number below N is its own remainder.
LEMMA SmallMod == ASSUME NEW N \in Nat, N > 0, NEW a \in Nat, a < N PROVE a % N = a
<1>1. (a % N) \in 0 .. N - 1 /\ a \div N \in Nat /\ a = N * (a \div N) + (a % N)
  BY DivMod
<1>2. ~(0 < a \div N)
  BY <1>1, Gap
<1> QED BY <1>1, <1>2

\* The slot of a position (pos % capacity_): within the ring, different for positions
\* less than a lap apart, the same a lap later.
LEMMA SlotFacts ==
    /\ \A i \in Nat : Slot(i) \in 0 .. Capacity - 1
    /\ \A i, j \in Nat : Slot(i) = Slot(j) /\ i < j + Capacity /\ j < i + Capacity => i = j
    /\ \A i \in Nat : Slot(i + Capacity) = Slot(i)
<1>1. Capacity \in Nat /\ Capacity > 0
  BY RingAssumption
<1>2. \A i \in Nat : Slot(i) \in 0 .. Capacity - 1
  BY <1>1, DivMod DEF Slot
<1>3. \A i, j \in Nat : Slot(i) = Slot(j) /\ i < j + Capacity /\ j < i + Capacity => i = j
  BY <1>1, ModInj DEF Slot
<1>4. \A i \in Nat : Slot(i + Capacity) = Slot(i)
  BY <1>1, ModLap DEF Slot
<1> QED BY <1>2, <1>3, <1>4

\* The constructors throw on a capacity of zero.
LEMMA CapacityNat == Capacity \in Nat /\ Capacity > 0
  BY RingAssumption

\* What the typed state gives to the steps below.
LEMMA Typed ==
    ASSUME TypeOK
    PROVE  /\ head \in Nat /\ tail \in Nat
           /\ \A t \in Threads : pos[t] \in Nat
           /\ \A i \in Nat : SeqAt(i) \in Nat
           /\ \A i \in Nat : ElemAt(i) \in Values \cup {NoValue}
<1>1. \A i \in Nat : Slot(i) \in 0 .. Capacity - 1
  BY SlotFacts
<1>2. \A i \in Nat : SeqAt(i) \in Nat /\ ElemAt(i) \in Values \cup {NoValue}
  BY <1>1 DEF TypeOK, SeqAt, ElemAt
<1> QED BY <1>2 DEF TypeOK

\* A store to the sequence of one slot, at position h.
LEMMA StoreSequence ==
    ASSUME TypeOK, NEW h \in Nat, NEW v \in Nat, sequence' = [sequence EXCEPT ![Slot(h)] = v]
    PROVE  /\ sequence' \in [0 .. Capacity - 1 -> Nat]
           /\ SeqAt(h)' = v
           /\ \A i \in Nat : Slot(i) # Slot(h) => SeqAt(i)' = SeqAt(i)
           /\ \A i \in Nat : Slot(i) = Slot(h) => SeqAt(i)' = v /\ SeqAt(i) = SeqAt(h)
<1>1. \A i \in Nat : Slot(i) \in 0 .. Capacity - 1
  BY SlotFacts
<1>2. sequence \in [0 .. Capacity - 1 -> Nat]
  BY DEF TypeOK
<1>3. sequence' \in [0 .. Capacity - 1 -> Nat]
  BY <1>1, <1>2
<1>4. SeqAt(h)' = v
  BY <1>1, <1>2 DEF SeqAt
<1>5. ASSUME NEW i \in Nat, Slot(i) # Slot(h) PROVE SeqAt(i)' = SeqAt(i)
  BY <1>1, <1>2, <1>5 DEF SeqAt
<1>6. ASSUME NEW i \in Nat, Slot(i) = Slot(h) PROVE SeqAt(i)' = v /\ SeqAt(i) = SeqAt(h)
  BY <1>1, <1>2, <1>6 DEF SeqAt
<1> QED BY <1>3, <1>4, <1>5, <1>6

\* A construction or destruction in the storage of one slot, at position h.
LEMMA StoreElement ==
    ASSUME TypeOK, NEW h \in Nat, NEW v \in Values \cup {NoValue},
           element' = [element EXCEPT ![Slot(h)] = v]
    PROVE  /\ element' \in [0 .. Capacity - 1 -> Values \cup {NoValue}]
           /\ ElemAt(h)' = v
           /\ \A i \in Nat : Slot(i) # Slot(h) => ElemAt(i)' = ElemAt(i)
           /\ \A i \in Nat : Slot(i) = Slot(h) => ElemAt(i)' = v
<1>1. \A i \in Nat : Slot(i) \in 0 .. Capacity - 1
  BY SlotFacts
<1>2. element \in [0 .. Capacity - 1 -> Values \cup {NoValue}]
  BY DEF TypeOK
<1>3. element' \in [0 .. Capacity - 1 -> Values \cup {NoValue}]
  BY <1>1, <1>2
<1>4. ElemAt(h)' = v
  BY <1>1, <1>2 DEF ElemAt
<1>5. ASSUME NEW i \in Nat, Slot(i) # Slot(h) PROVE ElemAt(i)' = ElemAt(i)
  BY <1>1, <1>2, <1>5 DEF ElemAt
<1>6. ASSUME NEW i \in Nat, Slot(i) = Slot(h) PROVE ElemAt(i)' = v
  BY <1>1, <1>2, <1>6 DEF ElemAt
<1> QED BY <1>3, <1>4, <1>5, <1>6

\* Two positions less than a lap apart have different slots.
LEMMA Near ==
    ASSUME NEW i \in Nat, NEW h \in Nat, i # h, i < h + Capacity, h < i + Capacity
    PROVE  Slot(i) # Slot(h)
  BY SlotFacts

-----------------------------------------------------------------------------
(* The steps keep the invariant                                            *)

\* A step that only moves a thread that is not at a slot before or after it.
LEMMA LocalStep ==
    ASSUME RingInv, NEW t \in Threads,
           UNCHANGED <<head, tail, sequence, element, kind>>,
           \A u \in Threads : u # t => pc'[u] = pc[u] /\ pos'[u] = pos[u],
           ~Holds(t), ~Holds(t)'
    PROVE  /\ Bounds' /\ Passed' /\ ReservedSlots' /\ FreeSlots' /\ OneEach'
           /\ \A p \in Producers : p # t /\ msg'[p] = msg[p] => Producing(p)'
           /\ \A c \in Consumers : c # t /\ out'[c] = out[c] => Consuming(c)'
<1> USE RingAssumption DEF Threads
<1>1. \A i : SeqAt(i)' = SeqAt(i) /\ ElemAt(i)' = ElemAt(i)
  BY DEF SeqAt, ElemAt
<1>2. \A p \in Producers : Pushing(p)' = Pushing(p) /\ (Pushing(p) => pos'[p] = pos[p])
  BY DEF Pushing, Holds
<1>3. \A c \in Consumers : Claimed(c)' = Claimed(c) /\ (Claimed(c) => pos'[c] = pos[c])
  BY DEF Claimed, Holds
<1>4. Bounds' /\ Passed'
  BY <1>1 DEF RingInv, Bounds, Passed
<1>5. ReservedSlots'
  BY <1>1, <1>2 DEF RingInv, ReservedSlots, Holds
<1>6. FreeSlots'
  BY <1>1, <1>3 DEF RingInv, FreeSlots
<1>7. OneEach'
  BY <1>2, <1>3 DEF RingInv, OneEach
<1>8. ASSUME NEW p \in Producers, p # t, msg'[p] = msg[p] PROVE Producing(p)'
  BY <1>1, <1>2, <1>8 DEF RingInv, Producing
<1>9. ASSUME NEW c \in Consumers, c # t, out'[c] = out[c] PROVE Consuming(c)'
  BY <1>1, <1>3, <1>9 DEF RingInv, Consuming
<1> QED BY <1>4, <1>5, <1>6, <1>7, <1>8, <1>9

\* push's last store keeps the invariant: the position turns from written to published.
LEMMA PublishStep ==
    ASSUME Capacity >= 2, RingInv, NEW p \in Producers, PushPublish(p), UNCHANGED kind, TypeOK'
    PROVE RingInv'
<1> USE CapacityNat
<1>0. PICK h \in Nat : h = pos[p]
  BY Typed DEF RingInv, Threads
<1>1. /\ head \in Nat /\ tail \in Nat /\ pc[p] = "publish"
      /\ head <= h /\ h < tail /\ tail <= head + Capacity
      /\ SeqAt(h) = h
      /\ msg[p] \in Values /\ ElemAt(h) = msg[p]
  BY <1>0, Typed DEF RingInv, PushPublish, Bounds, Producing, Pushing, Threads
<1>2. /\ UNCHANGED <<head, tail, element, pos, out, calls, kind>>
      /\ \A t \in Threads : pc'[t] = IF t = p THEN "idle" ELSE pc[t]
      /\ \A q \in Producers : msg'[q] = IF q = p THEN NoValue ELSE msg[q]
      /\ \A i : ElemAt(i)' = ElemAt(i)
  BY DEF RingInv, PushPublish, TypeOK, Goto, ElemAt
<1>3. /\ SeqAt(h)' = h + 1
      /\ \A i \in Nat : i # h /\ i < h + Capacity /\ h < i + Capacity => SeqAt(i)' = SeqAt(i)
      /\ \A i \in Nat : SeqAt(i) \in Nat /\ SeqAt(i)' \in Nat /\ SeqAt(i)' >= SeqAt(i)
  <2>1. h + 1 \in Nat /\ sequence' = [sequence EXCEPT ![Slot(h)] = h + 1] /\ TypeOK
    BY <1>0 DEF PushPublish, RingInv
  <2>2. /\ SeqAt(h)' = h + 1
        /\ \A i \in Nat : Slot(i) # Slot(h) => SeqAt(i)' = SeqAt(i)
        /\ \A i \in Nat : Slot(i) = Slot(h) => SeqAt(i)' = h + 1 /\ SeqAt(i) = SeqAt(h)
    BY <2>1, StoreSequence, Zenon
  <2>3. \A i \in Nat : SeqAt(i) \in Nat
    BY <2>1, Typed
  <2> QED BY <1>1, <2>2, <2>3, Near
<1>4. /\ \A t \in Threads : pos[t] \in Nat
      /\ \A q \in Producers : q # p => pc'[q] = pc[q] /\ msg'[q] = msg[q] /\ Pushing(q)' = Pushing(q)
      /\ ~Pushing(p)' /\ Pushing(p)
      /\ \A c \in Consumers : pc'[c] = pc[c] /\ Claimed(c)' = Claimed(c)
  BY <1>1, <1>2, Typed, RingAssumption DEF RingInv, Threads, Claimed, Pushing
<1>b. Bounds' /\ Passed'
  <2>1. Bounds'
    BY <1>1, <1>2 DEF Bounds
  <2>2. ASSUME NEW i \in Nat, i < tail PROVE SeqAt(i)' >= i
    BY <1>1, <1>3, <2>2 DEF RingInv, Passed
  <2>3. ASSUME NEW i \in Nat, i < head PROVE SeqAt(i)' >= i + 1
    BY <1>1, <1>3, <2>3 DEF RingInv, Passed
  <2> QED BY <1>2, <2>1, <2>2, <2>3 DEF Passed
<1>c. FreeSlots'
  BY <1>1, <1>2, <1>3, <1>4 DEF RingInv, FreeSlots
<1>d. ReservedSlots'
  <2> SUFFICES ASSUME NEW i \in Nat, head <= i, i < tail
               PROVE \/ SeqAt(i)' = i /\ \E q \in Producers : Pushing(q)' /\ pos'[q] = i
                     \/ /\ SeqAt(i)' = i + 1
                        /\ ElemAt(i)' \in Values \/ (pc'[Owner] = "advance" /\ pos'[Owner] = i)
    BY <1>2 DEF ReservedSlots
  <2>1. CASE i = h
    BY <1>1, <1>2, <1>3, <2>1
  <2>2. CASE i # h
    <3>1. SeqAt(i)' = SeqAt(i)
      BY <1>1, <1>3, <2>2
    <3>2. \A q \in Producers : Pushing(q) /\ pos[q] = i => Pushing(q)'
      BY <1>0, <1>4, <2>2
    <3> QED BY <1>2, <1>4, <3>1, <3>2, RingAssumption DEF RingInv, ReservedSlots
  <2> QED BY <2>1, <2>2
<1>e. OneEach'
  BY <1>2, <1>4 DEF RingInv, OneEach
<1>f. ASSUME NEW q \in Producers PROVE Producing(q)'
  <2>1. pos[q] \in Nat /\ Producing(q) /\ (Pushing(q) /\ q # p => pos[q] # h)
    BY <1>0, <1>4 DEF RingInv, OneEach, Threads
  <2>2. CASE q = p
    BY <1>2, <1>4, <2>2 DEF Producing, Threads
  <2>3. CASE q # p
    <3>1. Pushing(q) => SeqAt(pos[q])' = SeqAt(pos[q])
      BY <1>1, <1>2, <1>3, <2>1, <2>3 DEF Producing
    <3>2. SeqAt(pos[q]) \in Nat /\ SeqAt(pos[q])' \in Nat /\ SeqAt(pos[q])' >= SeqAt(pos[q])
      BY <1>2, <1>3, <2>1
    <3> QED BY <1>2, <1>4, <2>1, <2>3, <3>1, <3>2 DEF Producing
  <2> QED BY <2>2, <2>3
<1>g. ASSUME NEW c \in Consumers PROVE Consuming(c)'
  <2>1. pos[c] \in Nat /\ Consuming(c)
    BY <1>4 DEF RingInv, Threads
  <2>2. SeqAt(pos[c]) \in Nat /\ SeqAt(pos[c])' \in Nat /\ SeqAt(pos[c])' >= SeqAt(pos[c])
    BY <1>2, <1>3, <2>1
  <2>3. Claimed(c) => SeqAt(pos[c])' = SeqAt(pos[c])
    BY <1>1, <1>2, <1>3, <2>1 DEF Consuming
  <2>4. SeqAt(head) = head + 1 => SeqAt(head)' = SeqAt(head)
    BY <1>1, <1>2, <1>3
  <2> QED BY <1>1, <1>2, <1>4, <2>1, <2>2, <2>3, <2>4 DEF Consuming
<1> QED BY <1>b, <1>c, <1>d, <1>e, <1>f, <1>g DEF RingInv

\* A successful compare-and-swap of tail_ keeps the invariant: the sequence read before
\* it is still that of a free slot, because only this swap could have changed it.
LEMMA ReserveStep ==
    ASSUME Capacity >= 2, RingInv, NEW p \in Producers, pc[p] = "pushCas", tail = pos[p],
           tail' = pos[p] + 1, Goto(p, "construct"),
           UNCHANGED <<pos, head, slotVars, msg, out, calls, kind>>, TypeOK'
    PROVE RingInv'
<1> USE CapacityNat
<1>0. PICK h \in Nat : h = pos[p]
  BY Typed DEF RingInv, Threads
<1>1. /\ head \in Nat /\ h = tail /\ head <= h /\ h <= head + Capacity
      /\ SeqAt(h) >= h /\ SeqAt(h) \in Nat
      /\ msg[p] \in Values
  BY <1>0, Typed DEF RingInv, Bounds, Producing, Threads
<1>2. /\ UNCHANGED <<head, pos, out, msg, kind>> /\ tail' = h + 1
      /\ \A t \in Threads : pc'[t] = IF t = p THEN "construct" ELSE pc[t]
      /\ \A i : ElemAt(i)' = ElemAt(i) /\ SeqAt(i)' = SeqAt(i)
  BY <1>0 DEF RingInv, TypeOK, Goto, ElemAt, SeqAt, slotVars
<1>3. h < head + Capacity
  <2> SUFFICES ASSUME h = head + Capacity PROVE FALSE
    BY <1>1
  <2>1. SeqAt(h) = SeqAt(head)
    BY <1>1, SlotFacts DEF SeqAt
  <2>2. SeqAt(head) = head \/ SeqAt(head) = head + 1
    BY <1>1 DEF RingInv, ReservedSlots
  <2> QED BY <1>1, <2>1, <2>2
<1>4. SeqAt(h) = h /\ ElemAt(h) = NoValue
  BY <1>1, <1>3 DEF RingInv, FreeSlots
<1>5. /\ \A t \in Threads : pos[t] \in Nat
      /\ \A q \in Producers : q # p => pc'[q] = pc[q] /\ Pushing(q)' = Pushing(q)
      /\ Pushing(p)' /\ ~Pushing(p)
      /\ \A c \in Consumers : pc'[c] = pc[c] /\ Claimed(c)' = Claimed(c)
  BY <1>1, <1>2, Typed, RingAssumption DEF RingInv, Threads, Claimed, Pushing
<1>6. ASSUME NEW c \in Consumers, Claimed(c) PROVE h + 1 <= pos[c] + Capacity
  <2>1. pos[c] \in Nat /\ h <= pos[c] + Capacity /\ SeqAt(pos[c]) = pos[c] + 1
    BY <1>1, <1>5, <1>6 DEF RingInv, Consuming, Threads
  <2>2. SeqAt(pos[c] + Capacity) = SeqAt(pos[c])
    BY <2>1, SlotFacts DEF SeqAt
  <2> QED BY <1>4, <2>1, <2>2
<1>b. Bounds' /\ Passed'
  BY <1>1, <1>2, <1>3, <1>4 DEF RingInv, Bounds, Passed
<1>c. FreeSlots'
  BY <1>1, <1>2, <1>5 DEF RingInv, FreeSlots
<1>d. ReservedSlots'
  <2> SUFFICES ASSUME NEW i \in Nat, head <= i, i < h + 1
               PROVE \/ SeqAt(i) = i /\ \E q \in Producers : Pushing(q)' /\ pos[q] = i
                     \/ /\ SeqAt(i) = i + 1
                        /\ ElemAt(i) \in Values \/ (pc'[Owner] = "advance" /\ pos[Owner] = i)
    BY <1>2 DEF ReservedSlots
  <2>1. CASE i = h
    BY <1>0, <1>4, <1>5, <2>1
  <2>2. CASE i < h
    <3>1. \A q \in Producers : Pushing(q) => Pushing(q)'
      BY <1>5
    <3> QED BY <1>1, <1>5, <2>2, <3>1, RingAssumption DEF RingInv, ReservedSlots
  <2> QED BY <2>1, <2>2
<1>e. OneEach'
  <2>1. \A q \in Producers : Pushing(q) => pos[q] # h
    BY <1>1, <1>5 DEF RingInv, Producing, Threads
  <2> QED BY <1>0, <1>2, <1>5, <2>1 DEF RingInv, OneEach
<1>f. ASSUME NEW q \in Producers PROVE Producing(q)'
  <2>1. pos[q] \in Nat /\ Producing(q)
    BY <1>5 DEF RingInv, Threads
  <2>2. CASE q = p
    BY <1>0, <1>1, <1>2, <1>4, <2>2 DEF Producing, Threads
  <2>3. CASE q # p
    BY <1>1, <1>2, <1>5, <2>1, <2>3 DEF Producing
  <2> QED BY <2>2, <2>3
<1>g. ASSUME NEW c \in Consumers PROVE Consuming(c)'
  <2>1. pos[c] \in Nat /\ Consuming(c)
    BY <1>5 DEF RingInv, Threads
  <2> QED BY <1>1, <1>2, <1>5, <1>6, <2>1 DEF Consuming
<1> QED BY <1>2, <1>b, <1>c, <1>d, <1>e, <1>f, <1>g DEF RingInv

\* The construction of an element disturbs no other slot.
LEMMA ConstructStep ==
    ASSUME Capacity >= 2, RingInv, NEW p \in Producers, PushConstruct(p), UNCHANGED kind, TypeOK'
    PROVE RingInv'
<1> USE CapacityNat
<1>0. PICK h \in Nat : h = pos[p]
  BY Typed DEF RingInv, Threads
<1>1. /\ head \in Nat /\ tail \in Nat /\ pc[p] = "construct"
      /\ head <= h /\ h < tail /\ tail <= head + Capacity
      /\ SeqAt(h) = h /\ msg[p] \in Values
  BY <1>0, Typed DEF RingInv, PushConstruct, Bounds, Producing, Pushing, Threads
<1>2. /\ UNCHANGED <<head, tail, pos, msg, out, kind>>
      /\ \A t \in Threads : pc'[t] = IF t = p THEN "publish" ELSE pc[t]
      /\ \A i : SeqAt(i)' = SeqAt(i)
  BY DEF RingInv, PushConstruct, TypeOK, Goto, SeqAt
<1>3. /\ ElemAt(h)' = msg[p]
      /\ \A i \in Nat : i # h /\ i < h + Capacity /\ h < i + Capacity => ElemAt(i)' = ElemAt(i)
      /\ \A i \in Nat : ElemAt(i)' \in Values \/ ElemAt(i)' = ElemAt(i)
  <2>1. PICK v \in Values \cup {NoValue} : v = msg[p]
    BY <1>1
  <2>2. element' = [element EXCEPT ![Slot(h)] = v] /\ TypeOK
    BY <1>0, <2>1 DEF PushConstruct, RingInv
  <2>3. /\ ElemAt(h)' = v
        /\ \A i \in Nat : Slot(i) # Slot(h) => ElemAt(i)' = ElemAt(i)
        /\ \A i \in Nat : Slot(i) = Slot(h) => ElemAt(i)' = v
    BY <2>2, StoreElement, Zenon
  <2> QED BY <1>1, <2>1, <2>3, Near
<1>4. /\ \A t \in Threads : pos[t] \in Nat
      /\ \A q \in Producers : Pushing(q)' = Pushing(q)
      /\ \A c \in Consumers : pc'[c] = pc[c] /\ Claimed(c)' = Claimed(c)
  BY <1>1, <1>2, Typed, RingAssumption DEF RingInv, Threads, Claimed, Pushing
<1>b. Bounds' /\ Passed'
  BY <1>2 DEF RingInv, Bounds, Passed
<1>c. FreeSlots'
  <2>1. \A i \in Nat : tail <= i /\ i < head + Capacity => ElemAt(i)' = ElemAt(i)
    BY <1>1, <1>3
  <2> QED BY <1>2, <1>4, <2>1 DEF RingInv, FreeSlots
<1>d. ReservedSlots'
  BY <1>2, <1>3, <1>4, RingAssumption DEF RingInv, ReservedSlots
<1>e. OneEach'
  BY <1>2, <1>4 DEF RingInv, OneEach
<1>f. ASSUME NEW q \in Producers PROVE Producing(q)'
  <2>1. pos[q] \in Nat /\ Producing(q) /\ (Pushing(q) /\ q # p => pos[q] # h)
    BY <1>0, <1>1, <1>4 DEF RingInv, OneEach, Threads, Pushing
  <2>2. CASE q = p
    BY <1>0, <1>1, <1>2, <1>3, <2>1, <2>2 DEF Producing, Pushing, Threads
  <2>3. CASE q # p
    <3>1. Pushing(q) => ElemAt(pos[q])' = ElemAt(pos[q])
      BY <1>1, <1>2, <1>3, <2>1, <2>3 DEF Producing
    <3>2. pc'[q] = pc[q] /\ (pc[q] \in {"construct", "publish"} => Pushing(q))
      BY <1>2, <2>3 DEF Pushing, Threads
    <3> QED BY <1>2, <1>4, <2>1, <2>3, <3>1, <3>2 DEF Producing
  <2> QED BY <2>2, <2>3
<1>g. ASSUME NEW c \in Consumers PROVE Consuming(c)'
  <2>1. pos[c] \in Nat /\ Consuming(c)
    BY <1>4 DEF RingInv, Threads
  <2>2. pc[c] \in {"move", "advance", "release"} => ElemAt(pos[c])' = ElemAt(pos[c])
    <3> SUFFICES ASSUME pc[c] \in {"move", "advance", "release"}
                 PROVE  pos[c] # h /\ pos[c] < h + Capacity /\ h < pos[c] + Capacity
      BY <1>2, <1>3, <2>1
    <3>1. SeqAt(pos[c]) = pos[c] + 1
      BY <2>1 DEF Consuming, Claimed, RingInv
    <3>2. pos[c] <= head /\ tail <= pos[c] + Capacity
      BY <1>1, <2>1 DEF Consuming, Claimed, RingInv
    <3> QED BY <1>1, <2>1, <3>1, <3>2
  <2> QED BY <1>1, <1>2, <1>4, <2>1, <2>2 DEF Consuming
<1> QED BY <1>2, <1>b, <1>c, <1>d, <1>e, <1>f, <1>g DEF RingInv

\* Both queues compute the slot alike.
LEMMA SameSlot ==
    \A i : /\ Mpmc!Slot(i) = Slot(i) /\ Mpsc!Slot(i) = Slot(i)
  BY DEF Slot, Mpmc!Slot, Mpsc!Slot

\* A pop that claims a slot of an MPMC queue or has emptied the oldest slot of an
\* MPSC queue moves head_ on.
TakesHead(c) ==
    \/ /\ kind = "mpmc" /\ pc[c] = "popCas" /\ head = pos[c]
       /\ pc' = [pc EXCEPT ![c] = "move"]
    \/ /\ kind = "mpsc" /\ c = Owner /\ pc[c] = "advance"
       /\ pc' = [pc EXCEPT ![c] = "release"]

\* Moving head_ on keeps the invariant: the position at head_ was published, and the
\* position a lap later is free but for the pop that has just claimed it.
LEMMA TakeStep ==
    ASSUME Capacity >= 2, RingInv, NEW c \in Consumers, TakesHead(c), head' = pos[c] + 1,
           UNCHANGED <<tail, slotVars, pos, msg, out, calls, kind>>, TypeOK'
    PROVE RingInv'
<1> USE CapacityNat
<1>0. PICK h \in Nat : h = pos[c]
  BY Typed DEF RingInv, Threads
<1>1. /\ tail \in Nat /\ h = head /\ h <= tail /\ tail <= h + Capacity
      /\ SeqAt(h) >= h + 1 /\ SeqAt(h) \in Nat
  BY <1>0, Typed DEF RingInv, Bounds, Consuming, Threads, TakesHead
<1>2. /\ UNCHANGED <<tail, pos, out, msg, kind>> /\ head' = h + 1
      /\ \A i : ElemAt(i)' = ElemAt(i) /\ SeqAt(i)' = SeqAt(i)
      /\ \A t \in Threads : t # c => pc'[t] = pc[t]
      /\ pc'[c] = IF kind = "mpmc" THEN "move" ELSE "release"
  BY <1>0 DEF RingInv, TypeOK, TakesHead, ElemAt, SeqAt, slotVars, Threads
<1>3. h < tail
  <2> SUFFICES ASSUME h = tail PROVE FALSE
    BY <1>1
  <2>1. SeqAt(h) = h \/ SeqAt(h) = h - Capacity + 1
    BY <1>1 DEF RingInv, FreeSlots
  <2> QED BY <1>1, <2>1
<1>4. /\ SeqAt(h) = h + 1
      /\ kind = "mpmc" => ElemAt(h) \in Values
      /\ kind = "mpsc" => ElemAt(h) = NoValue
  <2>1. kind = "mpmc" => pc[Owner] # "advance"
    BY RingAssumption DEF RingInv, Consuming
  <2>2. kind = "mpsc" => ElemAt(h) = NoValue
    BY <1>0 DEF RingInv, Consuming, TakesHead
  <2> QED BY <1>1, <1>3, <2>1, <2>2 DEF RingInv, ReservedSlots
<1>5. /\ \A t \in Threads : pos[t] \in Nat
      /\ \A q \in Producers : pc'[q] = pc[q] /\ Pushing(q)' = Pushing(q)
      /\ \A d \in Consumers : d # c => pc'[d] = pc[d] /\ Claimed(d)' = Claimed(d)
      /\ ~Claimed(c) /\ Claimed(c)'
  BY <1>1, <1>2, Typed, RingAssumption DEF RingInv, Threads, Claimed, Pushing, TakesHead
<1>6. \A q \in Producers : Pushing(q) => h + 1 <= pos[q]
  BY <1>1, <1>4, <1>5 DEF RingInv, Producing, Threads
<1>b. Bounds' /\ Passed'
  BY <1>1, <1>2, <1>3, <1>4 DEF RingInv, Bounds, Passed
<1>c. FreeSlots'
  <2> SUFFICES ASSUME NEW i \in Nat, tail <= i, i < h + 1 + Capacity
               PROVE \/ SeqAt(i) = i /\ ElemAt(i) = NoValue
                     \/ /\ SeqAt(i) = i - Capacity + 1
                        /\ \E d \in Consumers : Claimed(d)' /\ pos[d] = i - Capacity
    BY <1>2 DEF FreeSlots
  <2>1. CASE i = h + Capacity
    <3>1. SeqAt(i) = SeqAt(h)
      BY <2>1, SlotFacts DEF SeqAt
    <3> QED BY <1>0, <1>4, <1>5, <2>1, <3>1
  <2>2. CASE i < h + Capacity
    <3>1. \A d \in Consumers : Claimed(d) => Claimed(d)'
      BY <1>5
    <3> QED BY <1>1, <2>2, <3>1 DEF RingInv, FreeSlots
  <2> QED BY <2>1, <2>2
<1>d. ReservedSlots'
  <2>1. \A i \in Nat : i >= h + 1 => ~(pc[Owner] = "advance" /\ pos[Owner] = i)
    BY <1>1, RingAssumption DEF RingInv, Consuming
  <2> QED BY <1>1, <1>2, <1>5, <2>1 DEF RingInv, ReservedSlots
<1>e. OneEach'
  <2>1. \A d \in Consumers : Claimed(d) => pos[d] # h
    BY <1>1, <1>5 DEF RingInv, Consuming, Threads
  <2> QED BY <1>0, <1>2, <1>5, <2>1 DEF RingInv, OneEach
<1>f. ASSUME NEW q \in Producers PROVE Producing(q)'
  <2>1. pos[q] \in Nat /\ Producing(q)
    BY <1>5 DEF RingInv, Threads
  <2> QED BY <1>2, <1>5, <1>6, <2>1 DEF Producing
<1>g. ASSUME NEW d \in Consumers PROVE Consuming(d)'
  <2>1. pos[d] \in Nat /\ Consuming(d) /\ kind \in {"mpmc", "mpsc"}
    BY <1>5 DEF RingInv, Threads
  <2>2. CASE d = c
    <3>1. d = c /\ kind' = kind /\ pos'[d] = h /\ out'[d] = out[d] /\ tail' = tail /\ head' = h + 1
          /\ SeqAt(pos[d])' = h + 1 /\ ElemAt(pos[d])' = ElemAt(h)
      BY <1>0, <1>2, <1>4, <2>2
    <3>2. (kind = "mpmc" /\ pc[c] = "popCas") \/ (kind = "mpsc" /\ c = Owner /\ pc[c] = "advance")
      BY DEF TakesHead
    <3> QED BY <1>1, <1>2, <1>4, <2>1, <3>1, <3>2 DEF Consuming, Claimed
  <2>3. CASE d # c
    <3>1. kind = "mpsc" => pc[d] = "idle"
      BY <2>1, <2>3 DEF Consuming, TakesHead
    <3> QED BY <1>1, <1>2, <1>5, <2>1, <2>3, <3>1 DEF Consuming
  <2> QED BY <2>2, <2>3
<1> QED BY <1>2, <1>b, <1>c, <1>d, <1>e, <1>f, <1>g DEF RingInv

\* A pop moves the element out and destroys it.
MovesOut(c) ==
    /\ pc[c] = "move" /\ (kind = "mpsc" => c = Owner)
    /\ out' = [out EXCEPT ![c] = element[Slot(pos[c])]]
    /\ element' = [element EXCEPT ![Slot(pos[c])] = NoValue]
    /\ pc' = [pc EXCEPT ![c] = IF kind = "mpmc" THEN "release" ELSE "advance"]
    /\ UNCHANGED <<head, tail, sequence, pos, msg, calls, kind>>

\* Moving an element out disturbs no other slot.
LEMMA MoveStep ==
    ASSUME Capacity >= 2, RingInv, NEW c \in Consumers, MovesOut(c), TypeOK' PROVE RingInv'
<1> USE CapacityNat
<1>0. PICK h \in Nat : h = pos[c]
  BY Typed DEF RingInv, Threads
<1>1. /\ head \in Nat /\ tail \in Nat /\ pc[c] = "move"
      /\ h <= head /\ h < tail /\ tail <= h + Capacity
      /\ head <= tail /\ tail <= head + Capacity
      /\ kind = "mpmc" => h < head
      /\ kind = "mpsc" => h = head /\ c = Owner
      /\ SeqAt(h) = h + 1 /\ ElemAt(h) \in Values
      /\ kind \in {"mpmc", "mpsc"}
  BY <1>0, Typed DEF RingInv, MovesOut, Bounds, Consuming, Claimed, Threads
<1>2. /\ UNCHANGED <<head, tail, pos, msg, kind>>
      /\ \A t \in Threads : t # c => pc'[t] = pc[t]
      /\ pc'[c] = IF kind = "mpmc" THEN "release" ELSE "advance"
      /\ \A d \in Consumers : out'[d] = IF d = c THEN ElemAt(h) ELSE out[d]
      /\ \A i : SeqAt(i)' = SeqAt(i)
  BY <1>0 DEF RingInv, MovesOut, TypeOK, SeqAt, ElemAt, Threads
<1>3. /\ ElemAt(h)' = NoValue
      /\ \A i \in Nat : i # h /\ i < h + Capacity /\ h < i + Capacity => ElemAt(i)' = ElemAt(i)
      /\ \A i \in Nat : ElemAt(i)' = NoValue \/ ElemAt(i)' = ElemAt(i)
  <2>1. element' = [element EXCEPT ![Slot(h)] = NoValue] /\ TypeOK /\ NoValue \in Values \cup {NoValue}
    BY <1>0 DEF MovesOut, RingInv
  <2>2. /\ ElemAt(h)' = NoValue
        /\ \A i \in Nat : Slot(i) # Slot(h) => ElemAt(i)' = ElemAt(i)
        /\ \A i \in Nat : Slot(i) = Slot(h) => ElemAt(i)' = NoValue
    BY <2>1, StoreElement, Zenon
  <2> QED BY <2>2, Near
<1>4. /\ \A t \in Threads : pos[t] \in Nat
      /\ \A q \in Producers : pc'[q] = pc[q] /\ Pushing(q)' = Pushing(q)
      /\ \A d \in Consumers : Claimed(d)' = Claimed(d)
  BY <1>1, <1>2, Typed, RingAssumption DEF RingInv, Threads, Claimed, Pushing
<1>b. Bounds' /\ Passed'
  BY <1>2 DEF RingInv, Bounds, Passed
<1>c. FreeSlots'
  BY <1>2, <1>3, <1>4 DEF RingInv, FreeSlots
<1>d. ReservedSlots'
  <2> SUFFICES ASSUME NEW i \in Nat, head <= i, i < tail
               PROVE \/ SeqAt(i) = i /\ \E q \in Producers : Pushing(q)' /\ pos[q] = i
                     \/ /\ SeqAt(i) = i + 1
                        /\ ElemAt(i)' \in Values \/ (pc'[Owner] = "advance" /\ pos[Owner] = i)
    BY <1>2 DEF ReservedSlots
  <2>1. CASE i = h
    BY <1>0, <1>1, <1>2, <2>1
  <2>2. CASE i # h
    <3>1. ElemAt(i)' = ElemAt(i)
      BY <1>1, <1>3, <2>2
    <3>2. pc[Owner] = "advance" => pc'[Owner] = "advance"
      BY <1>1, <1>2, RingAssumption DEF Threads
    <3> QED BY <1>4, <3>1, <3>2 DEF RingInv, ReservedSlots
  <2> QED BY <2>1, <2>2
<1>e. OneEach'
  BY <1>2, <1>4 DEF RingInv, OneEach
<1>f. ASSUME NEW q \in Producers PROVE Producing(q)'
  <2>1. pos[q] \in Nat /\ Producing(q)
    BY <1>4 DEF RingInv, Threads
  <2>2. Pushing(q) => ElemAt(pos[q])' = ElemAt(pos[q])
    BY <1>1, <1>2, <1>3, <2>1 DEF Producing
  <2>3. pc[q] \in {"construct", "publish"} => Pushing(q)
    BY DEF Pushing
  <2> QED BY <1>2, <1>4, <2>1, <2>2, <2>3 DEF Producing
<1>g. ASSUME NEW d \in Consumers PROVE Consuming(d)'
  <2>1. pos[d] \in Nat /\ Consuming(d)
    BY <1>4 DEF RingInv, Threads
  <2>2. CASE d = c
    <3>1. pos'[d] = h /\ pos[d] = h /\ out'[d] \in Values /\ ElemAt(pos[d])' = NoValue
      BY <1>0, <1>1, <1>2, <1>3, <2>2
    <3> QED BY <1>1, <1>2, <1>4, <2>1, <2>2, <3>1 DEF Consuming
  <2>3. CASE d # c
    <3>1. kind = "mpsc" => pc[d] = "idle"
      BY <1>1, <2>1, <2>3 DEF Consuming
    <3>2. kind = "mpmc" /\ pc[d] = "move" => ElemAt(pos[d])' = ElemAt(pos[d])
      <4> SUFFICES ASSUME kind = "mpmc", pc[d] = "move"
                   PROVE pos[d] # h /\ pos[d] < h + Capacity /\ h < pos[d] + Capacity
        BY <1>2, <1>3, <2>1
      <4>1. Claimed(c) /\ Claimed(d)
        BY <1>1 DEF Claimed
      <4> QED BY <1>0, <1>1, <2>1, <2>3, <4>1 DEF Consuming, RingInv, OneEach
    <3>3. ElemAt(pos[d])' = NoValue \/ ElemAt(pos[d])' = ElemAt(pos[d])
      BY <1>2, <1>3, <2>1
    <3>4. pc'[d] = pc[d] /\ out'[d] = out[d] /\ pos'[d] = pos[d]
      BY <1>2, <2>3 DEF Threads
    <3> QED BY <1>1, <1>2, <1>4, <2>1, <3>1, <3>2, <3>3, <3>4 DEF Consuming
  <2> QED BY <2>2, <2>3
<1> QED BY <1>2, <1>b, <1>c, <1>d, <1>e, <1>f, <1>g DEF RingInv

\* A pop gives its slot back to the push of the next lap.
GivesBack(c) ==
    /\ pc[c] = "release"
    /\ sequence' = [sequence EXCEPT ![Slot(pos[c])] = pos[c] + Capacity]
    /\ out' = [out EXCEPT ![c] = NoValue]
    /\ pc' = [pc EXCEPT ![c] = "idle"]
    /\ UNCHANGED <<head, tail, element, pos, msg, calls, kind>>

\* Giving a slot back keeps the invariant: it is the slot of the position a lap later.
LEMMA ReleaseStep ==
    ASSUME Capacity >= 2, RingInv, NEW c \in Consumers, GivesBack(c), TypeOK' PROVE RingInv'
<1> USE CapacityNat
<1>0. PICK h \in Nat : h = pos[c]
  BY Typed DEF RingInv, Threads
<1>1. /\ head \in Nat /\ tail \in Nat /\ pc[c] = "release" /\ Claimed(c)
      /\ h < head /\ tail <= h + Capacity
      /\ head <= tail /\ tail <= head + Capacity
      /\ SeqAt(h) = h + 1 /\ ElemAt(h) = NoValue
      /\ kind \in {"mpmc", "mpsc"}
  BY <1>0, Typed DEF RingInv, GivesBack, Bounds, Consuming, Claimed, Threads
<1>2. /\ UNCHANGED <<head, tail, pos, msg, kind>>
      /\ \A t \in Threads : pc'[t] = IF t = c THEN "idle" ELSE pc[t]
      /\ \A d \in Consumers : out'[d] = IF d = c THEN NoValue ELSE out[d]
      /\ \A i : ElemAt(i)' = ElemAt(i)
  BY <1>0 DEF RingInv, GivesBack, TypeOK, ElemAt, Threads
<1>3. /\ SeqAt(h + Capacity)' = h + Capacity
      /\ \A i \in Nat : i # h /\ i < h + Capacity /\ h < i + Capacity => SeqAt(i)' = SeqAt(i)
      /\ \A i \in Nat : i # h + Capacity /\ i < h + Capacity + Capacity /\ h < i => SeqAt(i)' = SeqAt(i)
      /\ \A i \in Nat : SeqAt(i) \in Nat /\ SeqAt(i)' \in Nat /\ SeqAt(i)' >= SeqAt(i)
  <2>1. h + Capacity \in Nat /\ sequence' = [sequence EXCEPT ![Slot(h)] = h + Capacity] /\ TypeOK
    BY <1>0 DEF GivesBack, RingInv
  <2>2. /\ SeqAt(h)' = h + Capacity
        /\ \A i \in Nat : Slot(i) # Slot(h) => SeqAt(i)' = SeqAt(i)
        /\ \A i \in Nat : Slot(i) = Slot(h) => SeqAt(i)' = h + Capacity /\ SeqAt(i) = SeqAt(h)
    BY <2>1, StoreSequence, Zenon
  <2>3. \A i \in Nat : SeqAt(i) \in Nat
    BY <2>1, Typed
  <2>4. Slot(h + Capacity) = Slot(h)
    BY SlotFacts
  <2>5. ASSUME NEW i \in Nat, i # h + Capacity, i < h + Capacity + Capacity, h < i PROVE SeqAt(i)' = SeqAt(i)
    <3>1. Slot(i) # Slot(h + Capacity)
      BY <2>1, <2>5, Near
    <3> QED BY <2>2, <2>4, <3>1
  <2>6. \A i \in Nat : SeqAt(i)' \in Nat /\ SeqAt(i)' >= SeqAt(i)
    BY <1>1, <2>1, <2>2, <2>3
  <2> QED BY <2>1, <2>2, <2>3, <2>4, <2>5, <2>6, Near
<1>4. /\ \A t \in Threads : pos[t] \in Nat
      /\ \A q \in Producers : pc'[q] = pc[q] /\ Pushing(q)' = Pushing(q)
      /\ \A d \in Consumers : d # c => pc'[d] = pc[d] /\ Claimed(d)' = Claimed(d)
      /\ ~Claimed(c)'
  BY <1>1, <1>2, Typed, RingAssumption DEF RingInv, Threads, Claimed, Pushing
<1>b. Bounds' /\ Passed'
  <2>1. Bounds'
    BY <1>1, <1>2 DEF Bounds
  <2>2. ASSUME NEW i \in Nat, i < tail PROVE SeqAt(i)' >= i
    BY <1>1, <1>3, <2>2 DEF RingInv, Passed
  <2>3. ASSUME NEW i \in Nat, i < head PROVE SeqAt(i)' >= i + 1
    BY <1>1, <1>3, <2>3 DEF RingInv, Passed
  <2> QED BY <1>2, <2>1, <2>2, <2>3 DEF Passed
<1>c. FreeSlots'
  <2> SUFFICES ASSUME NEW i \in Nat, tail <= i, i < head + Capacity
               PROVE \/ SeqAt(i)' = i /\ ElemAt(i) = NoValue
                     \/ /\ SeqAt(i)' = i - Capacity + 1
                        /\ \E d \in Consumers : Claimed(d)' /\ pos[d] = i - Capacity
    BY <1>2 DEF FreeSlots
  <2>1. CASE i = h + Capacity
    <3>1. ElemAt(i) = ElemAt(h)
      BY <2>1, SlotFacts DEF ElemAt
    <3> QED BY <1>1, <1>3, <2>1, <3>1
  <2>2. CASE i # h + Capacity
    <3>1. SeqAt(i)' = SeqAt(i)
      <4>1. CASE i < h + Capacity + Capacity
        BY <1>1, <1>3, <2>2, <4>1
      <4> QED BY <1>1, <4>1
    <3>2. \A d \in Consumers : Claimed(d) /\ pos[d] = i - Capacity => Claimed(d)'
      BY <1>0, <1>4, <2>2
    <3> QED BY <3>1, <3>2 DEF RingInv, FreeSlots
  <2> QED BY <2>1, <2>2
<1>d. ReservedSlots'
  <2>1. \A i \in Nat : head <= i /\ i < tail => SeqAt(i)' = SeqAt(i)
    BY <1>1, <1>3
  <2>2. pc[Owner] = "advance" => pc'[Owner] = "advance"
    BY <1>1, <1>2, RingAssumption DEF Threads
  <2> QED BY <1>2, <1>4, <2>1, <2>2 DEF RingInv, ReservedSlots
<1>e. OneEach'
  BY <1>2, <1>4 DEF RingInv, OneEach
<1>f. ASSUME NEW q \in Producers PROVE Producing(q)'
  <2>1. pos[q] \in Nat /\ Producing(q)
    BY <1>4 DEF RingInv, Threads
  <2>2. Pushing(q) => SeqAt(pos[q])' = SeqAt(pos[q])
    BY <1>1, <1>2, <1>3, <2>1 DEF Producing
  <2>3. SeqAt(pos[q]) \in Nat /\ SeqAt(pos[q])' \in Nat /\ SeqAt(pos[q])' >= SeqAt(pos[q])
    BY <1>2, <1>3, <2>1
  <2> QED BY <1>2, <1>4, <2>1, <2>2, <2>3 DEF Producing
<1>g. ASSUME NEW d \in Consumers PROVE Consuming(d)'
  <2>1. pos[d] \in Nat /\ Consuming(d) /\ pos'[d] = pos[d]
    BY <1>2, <1>4 DEF RingInv, Threads
  <2>2. CASE d = c
    <3>1. pc'[d] = "idle" /\ out'[d] = NoValue /\ NoValue \notin Values
      BY <1>2, <2>2, RingAssumption DEF Threads, Values
    <3> QED BY <1>2, <1>4, <2>1, <2>2, <3>1 DEF Consuming
  <2>3. CASE d # c
    <3>1. SeqAt(pos[d]) \in Nat /\ SeqAt(pos[d])' \in Nat /\ SeqAt(pos[d])' >= SeqAt(pos[d])
      BY <1>2, <1>3, <2>1
    <3>2. Claimed(d) => SeqAt(pos[d])' = SeqAt(pos[d])
      <4>1. Claimed(d) => pos[d] # h
        BY <1>0, <1>1, <2>3 DEF RingInv, OneEach
      <4>2. Claimed(d) => pos[d] < head /\ tail <= pos[d] + Capacity
        BY <2>1 DEF Consuming
      <4> QED BY <1>1, <1>2, <1>3, <2>1, <4>1, <4>2
    <3>3. kind = "mpsc" => pc[d] = "idle"
      <4>1. kind = "mpsc" => c = Owner
        BY <1>1 DEF RingInv, Consuming
      <4> QED BY <2>1, <2>3, <4>1 DEF Consuming
    <3>4. pc'[d] = pc[d] /\ out'[d] = out[d] /\ Claimed(d)' = Claimed(d)
      BY <1>2, <1>4, <2>3
    <3> QED BY <1>1, <1>2, <2>1, <3>1, <3>2, <3>3, <3>4 DEF Consuming
  <2> QED BY <2>2, <2>3
<1> QED BY <1>2, <1>b, <1>c, <1>d, <1>e, <1>f, <1>g DEF RingInv

\* The types hold at first,
LEMMA TypeInit == QueuesInit => TypeOK
  BY RingAssumption DEF QueuesInit, Init, TypeOK, Values

\* ... after a step of push,
LEMMA PushTypes == ASSUME TypeOK, NEW p \in Producers, PushStep(p) PROVE TypeOK'
<1> USE RingAssumption DEF TypeOK, Threads, Goto, slotVars
<1>0. pos[p] \in Nat /\ Slot(pos[p]) \in 0 .. Capacity - 1
  BY SlotFacts
<1>1. CASE PushBegin(p)
  BY <1>1 DEF PushBegin, Values
<1>2. CASE PushReadSequence(p)
  BY <1>2 DEF PushReadSequence
<1>3. CASE PushReload(p)
  BY <1>3 DEF PushReload
<1>4. CASE PushReserve(p)
  <2>1. tail' \in Nat /\ pos' \in [Threads -> Nat]
    <3>1. (tail' = pos[p] + 1 \/ tail' = tail) /\ (pos' = pos \/ pos' = [pos EXCEPT ![p] = tail])
      BY <1>4 DEF PushReserve
    <3>2. tail \in Nat /\ pos \in [Threads -> Nat]
      OBVIOUS
    <3> QED BY <1>0, <3>1, <3>2
  <2>2. pc' \in [Threads -> {"idle", "pushSeq", "pushReload", "pushCas", "construct", "publish",
                            "popSeq", "popReload", "popCas", "move", "advance", "release"}]
    BY <1>4 DEF PushReserve
  <2> QED BY <1>4, <2>1, <2>2 DEF PushReserve
<1>5. CASE PushConstruct(p)
  BY <1>0, <1>5 DEF PushConstruct
<1>6. CASE PushPublish(p)
  <2>1. sequence' \in [0 .. Capacity - 1 -> Nat]
    BY <1>0, <1>6 DEF PushPublish
  <2> QED BY <2>1, <1>6 DEF PushPublish
<1> QED BY <1>1, <1>2, <1>3, <1>4, <1>5, <1>6 DEF PushStep

\* ... after a step of pop of the MPMC queue
LEMMA MpmcTypes == ASSUME TypeOK, NEW c \in Consumers, Mpmc!PopStep(c) PROVE TypeOK'
<1> USE RingAssumption, SameSlot DEF TypeOK, Threads, Mpmc!Goto, Mpmc!slotVars
<1>0. pos[c] \in Nat /\ Slot(pos[c]) \in 0 .. Capacity - 1
  BY SlotFacts
<1>1. CASE Mpmc!PopBegin(c)
  BY <1>1 DEF Mpmc!PopBegin
<1>2. CASE Mpmc!PopReadSequence(c)
  BY <1>2 DEF Mpmc!PopReadSequence
<1>3. CASE Mpmc!PopReload(c)
  BY <1>3 DEF Mpmc!PopReload
<1>4. CASE Mpmc!PopClaim(c)
  BY <1>4 DEF Mpmc!PopClaim
<1>5. CASE Mpmc!PopMove(c)
  BY <1>0, <1>5 DEF Mpmc!PopMove
<1>6. CASE Mpmc!PopRelease(c)
  BY <1>0, <1>6 DEF Mpmc!PopRelease
<1> QED BY <1>1, <1>2, <1>3, <1>4, <1>5, <1>6 DEF Mpmc!PopStep

\* ... and of the MPSC queue.
LEMMA MpscTypes == ASSUME TypeOK, NEW c \in Consumers, Mpsc!PopStep(c) PROVE TypeOK'
<1> USE RingAssumption, SameSlot DEF TypeOK, Threads, Mpsc!Goto, Mpsc!slotVars
<1>0. pos[c] \in Nat /\ Slot(pos[c]) \in 0 .. Capacity - 1
  BY SlotFacts
<1>1. CASE Mpsc!PopBegin(c)
  BY <1>1 DEF Mpsc!PopBegin
<1>2. CASE Mpsc!PopReadSequence(c)
  BY <1>2 DEF Mpsc!PopReadSequence
<1>4. CASE Mpsc!PopAdvance(c)
  BY <1>4 DEF Mpsc!PopAdvance
<1>5. CASE Mpsc!PopMove(c)
  BY <1>0, <1>5 DEF Mpsc!PopMove
<1>6. CASE Mpsc!PopRelease(c)
  BY <1>0, <1>6 DEF Mpsc!PopRelease
<1> QED BY <1>1, <1>2, <1>4, <1>5, <1>6 DEF Mpsc!PopStep

\* Every step of push keeps the invariant.
LEMMA PushInv ==
    ASSUME Capacity >= 2, RingInv, NEW p \in Producers, PushStep(p), UNCHANGED kind PROVE RingInv'
<1> USE CapacityNat
<1>0. TypeOK'
  BY PushTypes DEF RingInv
<1>1. ASSUME PushBegin(p) \/ PushReadSequence(p) \/ PushReload(p)
             \/ (PushReserve(p) /\ pc'[p] = "pushSeq")
      PROVE RingInv'
  <2>1. /\ UNCHANGED <<head, tail, sequence, element, out, kind>>
        /\ \A u \in Threads : u # p => pc'[u] = pc[u] /\ pos'[u] = pos[u]
        /\ \A q \in Producers : q # p => msg'[q] = msg[q]
    BY <1>1 DEF RingInv, TypeOK, PushBegin, PushReadSequence, PushReload, PushReserve, Goto,
                slotVars, Threads
  <2>2. /\ pc[p] \in {"idle", "pushSeq", "pushReload", "pushCas"}
        /\ pc'[p] \in {"idle", "pushSeq", "pushReload", "pushCas"}
    BY <1>1 DEF RingInv, TypeOK, PushBegin, PushReadSequence, PushReload, PushReserve, Goto, Threads
  <2>3. ~Holds(p) /\ ~Holds(p)'
    BY <2>2 DEF Holds
  <2>4. Producing(p)'
    <3>1. pc'[p] # "idle" => msg'[p] \in Values /\ pos'[p] <= tail
      <4>1. CASE PushBegin(p)
        <5>1. msg'[p] = calls + 1 /\ pos'[p] = tail /\ calls < MaxPushes /\ calls \in 0 .. MaxPushes
          BY <4>1 DEF RingInv, TypeOK, PushBegin, Threads
        <5> QED BY <5>1, <1>0, RingAssumption DEF RingInv, TypeOK, Values
      <4>2. CASE ~PushBegin(p)
        <5>1. tail \in Nat /\ pos[p] \in Nat /\ pc[p] # "idle" /\ pos'[p] \in {pos[p], tail}
          BY <1>1, <4>2 DEF RingInv, TypeOK, PushReadSequence, PushReload, PushReserve, Goto, Threads
        <5>2. pc'[p] # "idle" => msg'[p] = msg[p]
          BY <1>1, <4>2 DEF RingInv, TypeOK, PushReadSequence, PushReload, PushReserve, Goto, Threads
        <5> QED BY <5>1, <5>2 DEF RingInv, Producing
      <4> QED BY <4>1, <4>2
    <3>2. pc'[p] = "pushCas" => SeqAt(pos[p]) >= pos[p] /\ pos'[p] = pos[p]
      BY <1>1, Typed DEF RingInv, TypeOK, PushBegin, PushReadSequence, PushReload, PushReserve, Goto,
                         Threads, SeqAt
    <3>3. \A i : SeqAt(i)' = SeqAt(i)
      BY <2>1 DEF SeqAt
    <3> QED BY <2>1, <2>2, <3>1, <3>2, <3>3 DEF Producing, Pushing
  <2>5. p \notin Consumers /\ p \in Threads
    BY RingAssumption DEF Threads
  <2>6. /\ Bounds' /\ Passed' /\ ReservedSlots' /\ FreeSlots' /\ OneEach'
        /\ \A q \in Producers : q # p /\ msg'[q] = msg[q] => Producing(q)'
        /\ \A c \in Consumers : c # p /\ out'[c] = out[c] => Consuming(c)'
    BY <2>1, <2>3, <2>5, LocalStep
  <2> QED BY <1>0, <2>1, <2>4, <2>5, <2>6 DEF RingInv
<1>2. CASE PushReserve(p) /\ pc'[p] # "pushSeq"
  <2>1. /\ pc[p] = "pushCas" /\ tail = pos[p] /\ tail' = pos[p] + 1 /\ Goto(p, "construct")
        /\ UNCHANGED <<pos, head, slotVars, msg, out, calls, kind>>
    BY <1>2 DEF RingInv, TypeOK, PushReserve, Goto, Threads
  <2> QED BY <1>0, <2>1, ReserveStep
<1>3. CASE PushConstruct(p)
  BY <1>0, <1>3, ConstructStep
<1>4. CASE PushPublish(p)
  BY <1>0, <1>4, PublishStep
<1> QED BY <1>1, <1>2, <1>3, <1>4 DEF PushStep

\* A step of a pop at no slot that it may touch yet.
LEMMA PopLocal ==
    ASSUME RingInv, NEW c \in Consumers, TypeOK',
           UNCHANGED <<head, tail, sequence, element, msg, out, kind>>,
           \A u \in Threads : u # c => pc'[u] = pc[u] /\ pos'[u] = pos[u],
           ~Holds(c), ~Holds(c)', Consuming(c)'
    PROVE  RingInv'
<1>1. c \in Threads /\ c \notin Producers
  BY RingAssumption DEF Threads
<1>2. /\ Bounds' /\ Passed' /\ ReservedSlots' /\ FreeSlots' /\ OneEach'
      /\ \A p \in Producers : p # c /\ msg'[p] = msg[p] => Producing(p)'
      /\ \A d \in Consumers : d # c /\ out'[d] = out[d] => Consuming(d)'
  BY <1>1, LocalStep
<1> QED BY <1>1, <1>2 DEF RingInv

\* Every step of pop of an MPMC queue keeps the invariant.
LEMMA MpmcInv ==
    ASSUME Capacity >= 2, RingInv, NEW c \in Consumers, kind = "mpmc", Mpmc!PopStep(c), UNCHANGED kind
    PROVE RingInv'
<1> USE CapacityNat DEF Mpmc!Goto, Mpmc!slotVars
<1>0. TypeOK'
  BY MpmcTypes DEF RingInv
<1>1. ASSUME Mpmc!PopBegin(c) \/ Mpmc!PopReadSequence(c) \/ Mpmc!PopReload(c)
             \/ (Mpmc!PopClaim(c) /\ pc'[c] = "popSeq")
      PROVE RingInv'
  <2>1. /\ UNCHANGED <<head, tail, sequence, element, msg, out, kind>>
        /\ \A u \in Threads : u # c => pc'[u] = pc[u] /\ pos'[u] = pos[u]
    BY <1>1 DEF RingInv, TypeOK, Mpmc!PopBegin, Mpmc!PopReadSequence, Mpmc!PopReload, Mpmc!PopClaim, Threads
  <2>2. /\ pc[c] \in {"idle", "popSeq", "popReload", "popCas"}
        /\ pc'[c] \in {"idle", "popSeq", "popReload", "popCas"}
        /\ pc'[c] = "popCas" => SeqAt(pos[c]) = pos[c] + 1 /\ pos'[c] = pos[c]
        /\ pos'[c] = head \/ (pos'[c] = pos[c] /\ pc[c] # "idle")
    BY <1>1, SameSlot, Typed DEF RingInv, TypeOK, Mpmc!PopBegin, Mpmc!PopReadSequence, Mpmc!PopReload,
                Mpmc!PopClaim, Threads, SeqAt
  <2>3. ~Holds(c) /\ ~Holds(c)'
    BY <2>2 DEF Holds
  <2>4. Consuming(c)'
    <3>1. \A i : SeqAt(i)' = SeqAt(i)
      BY <2>1 DEF SeqAt
    <3>2. Consuming(c) /\ head \in Nat /\ pos[c] \in Nat
      BY Typed DEF RingInv, Threads
    <3> QED BY <2>1, <2>2, <3>1, <3>2 DEF Consuming, Claimed
  <2> QED BY <1>0, <2>1, <2>3, <2>4, PopLocal
<1>2. CASE Mpmc!PopClaim(c) /\ pc'[c] # "popSeq"
  <2>1. /\ TakesHead(c) /\ head' = pos[c] + 1
        /\ UNCHANGED <<tail, slotVars, pos, msg, out, calls, kind>>
    BY <1>2 DEF RingInv, TypeOK, Mpmc!PopClaim, TakesHead, Threads, slotVars
  <2> QED BY <1>0, <2>1, TakeStep
<1>3. CASE Mpmc!PopMove(c)
  <2>1. MovesOut(c)
    BY <1>3, SameSlot DEF Mpmc!PopMove, MovesOut
  <2> QED BY <1>0, <2>1, MoveStep
<1>4. CASE Mpmc!PopRelease(c)
  <2>1. GivesBack(c)
    BY <1>4, SameSlot DEF Mpmc!PopRelease, GivesBack
  <2> QED BY <1>0, <2>1, ReleaseStep
<1> QED BY <1>1, <1>2, <1>3, <1>4 DEF Mpmc!PopStep

\* Every step of pop of an MPSC queue keeps the invariant.
LEMMA MpscInv ==
    ASSUME Capacity >= 2, RingInv, kind = "mpsc", Mpsc!PopStep(Owner), UNCHANGED kind
    PROVE RingInv'
<1> USE CapacityNat DEF Mpsc!Goto, Mpsc!slotVars
<1>0. Owner \in Consumers /\ Owner \in Threads /\ TypeOK'
  BY MpscTypes, RingAssumption DEF RingInv, Threads
<1>1. ASSUME Mpsc!PopBegin(Owner) \/ Mpsc!PopReadSequence(Owner) PROVE RingInv'
  <2>1. /\ UNCHANGED <<head, tail, sequence, element, msg, out, kind>>
        /\ \A u \in Threads : u # Owner => pc'[u] = pc[u] /\ pos'[u] = pos[u]
    BY <1>1 DEF RingInv, TypeOK, Mpsc!PopBegin, Mpsc!PopReadSequence, Threads
  <2>2. /\ pc[Owner] \in {"idle", "popSeq"} /\ pc'[Owner] \in {"idle", "popSeq", "move"}
        /\ pc'[Owner] = "move" => SeqAt(head) = head + 1
        /\ pc'[Owner] # "idle" => pos'[Owner] = head
    BY <1>0, <1>1, SameSlot DEF RingInv, TypeOK, Mpsc!PopBegin, Mpsc!PopReadSequence, SeqAt, Consuming
  <2>3. ~Holds(Owner) /\ ~Holds(Owner)'
    BY <2>2 DEF Holds
  <2>4. pc'[Owner] = "move" => head < tail /\ ElemAt(head) \in Values
    <3> SUFFICES ASSUME pc'[Owner] = "move" PROVE head < tail /\ ElemAt(head) \in Values
      OBVIOUS
    <3>1. head \in Nat /\ tail \in Nat /\ head <= tail /\ SeqAt(head) = head + 1
      BY <2>2, Typed DEF RingInv, Bounds
    <3>2. head # tail
      BY <3>1 DEF RingInv, FreeSlots
    <3> QED BY <2>2, <3>1, <3>2 DEF RingInv, ReservedSlots
  <2>5. Consuming(Owner)'
    <3>1. \A i : SeqAt(i)' = SeqAt(i) /\ ElemAt(i)' = ElemAt(i)
      BY <2>1 DEF SeqAt, ElemAt
    <3>2. Consuming(Owner) /\ head \in Nat
      BY <1>0, Typed DEF RingInv
    <3> QED BY <1>0, <2>1, <2>2, <2>4, <3>1, <3>2 DEF Consuming, Claimed
  <2> QED BY <1>0, <2>1, <2>3, <2>5, PopLocal
<1>2. CASE Mpsc!PopAdvance(Owner)
  <2>1. /\ TakesHead(Owner) /\ head' = pos[Owner] + 1
        /\ UNCHANGED <<tail, slotVars, pos, msg, out, calls, kind>>
    BY <1>2 DEF Mpsc!PopAdvance, TakesHead, slotVars
  <2> QED BY <1>0, <2>1, TakeStep
<1>3. CASE Mpsc!PopMove(Owner)
  <2>1. MovesOut(Owner)
    BY <1>3, SameSlot DEF Mpsc!PopMove, MovesOut
  <2> QED BY <1>0, <2>1, MoveStep
<1>4. CASE Mpsc!PopRelease(Owner)
  <2>1. GivesBack(Owner)
    BY <1>4, SameSlot DEF Mpsc!PopRelease, GivesBack
  <2> QED BY <1>0, <2>1, ReleaseStep
<1> QED BY <1>1, <1>2, <1>3, <1>4 DEF Mpsc!PopStep

\* The constructor establishes the invariant.
LEMMA InitInv == QueuesInit => RingInv
<1> SUFFICES ASSUME QueuesInit PROVE RingInv
  OBVIOUS
<1> USE CapacityNat
<1>1. TypeOK /\ kind \in {"mpmc", "mpsc"} /\ head = 0 /\ tail = 0
  BY TypeInit DEF QueuesInit, Init
<1>2. \A t \in Threads : pc[t] = "idle"
  BY DEF QueuesInit, Init
<1>3. ASSUME NEW i \in Nat, i < Capacity PROVE SeqAt(i) = i /\ ElemAt(i) = NoValue
  <2>1. 0 .. Capacity - 1 \subseteq Nat /\ i \in 0 .. Capacity - 1
    BY <1>3
  <2>2. \A j \in 0 .. Capacity - 1 : sequence[j] = j /\ element[j] = NoValue
    BY DEF QueuesInit, Init
  <2>3. Slot(i) = i
    BY <1>3, SmallMod DEF Slot
  <2> QED BY <2>1, <2>2, <2>3 DEF SeqAt, ElemAt
<1>4. Bounds /\ Passed /\ ReservedSlots
  BY <1>1 DEF Bounds, Passed, ReservedSlots
<1>5. FreeSlots
  BY <1>1, <1>3 DEF FreeSlots
<1>6. OneEach /\ \A p \in Producers : Producing(p)
  BY <1>2 DEF OneEach, Pushing, Claimed, Producing, Threads
<1>7. \A c \in Consumers : Consuming(c)
  <2>1. \A c \in Consumers : out[c] = NoValue /\ NoValue \notin Values
    BY RingAssumption DEF QueuesInit, Init, Values
  <2> QED BY <1>2, <2>1 DEF Consuming, Claimed, Threads
<1> QED BY <1>1, <1>4, <1>5, <1>6, <1>7 DEF RingInv

\* push is the same in both queues.
LEMMA SamePush ==
    ASSUME NEW p, Mpmc!PushStep(p) \/ Mpsc!PushStep(p) PROVE PushStep(p)
  BY DEF PushStep, Mpmc!PushStep, Mpsc!PushStep,
         PushBegin, Mpmc!PushBegin, Mpsc!PushBegin,
         PushReadSequence, Mpmc!PushReadSequence, Mpsc!PushReadSequence,
         PushReload, Mpmc!PushReload, Mpsc!PushReload,
         PushReserve, Mpmc!PushReserve, Mpsc!PushReserve,
         PushConstruct, Mpmc!PushConstruct, Mpsc!PushConstruct,
         PushPublish, Mpmc!PushPublish, Mpsc!PushPublish,
         Goto, Mpmc!Goto, Mpsc!Goto, Slot, Mpmc!Slot, Mpsc!Slot,
         slotVars, Mpmc!slotVars, Mpsc!slotVars

\* A step is a step of one push or of one pop.
LEMMA Steps ==
    ASSUME Next
    PROVE  /\ UNCHANGED kind
           /\ \/ \E p \in Producers : PushStep(p)
              \/ kind = "mpmc" /\ \E c \in Consumers : Mpmc!PopStep(c)
              \/ kind = "mpsc" /\ Mpsc!PopStep(Owner)
  BY SamePush DEF Next, Mpmc!MpmcNext, Mpsc!MpscNext

\* Every step keeps the invariant.
LEMMA InvStep == ASSUME Capacity >= 2, RingInv, [Next]_<<vars, kind>> PROVE RingInv'
<1>1. CASE UNCHANGED <<vars, kind>>
  BY <1>1 DEF vars, slotVars, RingInv, TypeOK, Bounds, Passed, ReservedSlots, FreeSlots, OneEach,
              Producing, Consuming, Pushing, Claimed, SeqAt, ElemAt
<1>2. CASE Next
  BY <1>2, Steps, PushInv, MpmcInv, MpscInv
<1> QED BY <1>1, <1>2

\* RingInv is an invariant of both queues.
LEMMA Invariance == ASSUME Capacity >= 2 PROVE Spec => []RingInv
  BY InitInv, InvStep, PTL DEF Spec

\* The invariant implies that slots have one user at a time.
LEMMA InvOwned == ASSUME Capacity >= 2, RingInv PROVE SlotOwned
<1> USE CapacityNat
<1>1. \A p \in Producers : pc[p] = "construct" => element[Slot(pos[p])] = NoValue
  BY DEF RingInv, Producing, ElemAt
<1>2. \A c \in Consumers : pc[c] = "move" => element[Slot(pos[c])] # NoValue
  BY RingAssumption DEF RingInv, Consuming, ElemAt, Values
<1>3. ASSUME NEW t \in Threads, UsesSlot(t)
      PROVE  /\ pos[t] \in Nat /\ pos[t] < tail /\ tail <= pos[t] + Capacity
             /\ SeqAt(pos[t]) = IF t \in Producers THEN pos[t] ELSE pos[t] + 1
  BY <1>3, Typed, RingAssumption DEF RingInv, Producing, Consuming, Pushing, Claimed, UsesSlot, Threads, Bounds
<1>4. ASSUME NEW t \in Threads, NEW u \in Threads, UsesSlot(t), UsesSlot(u),
             Slot(pos[t]) = Slot(pos[u])
      PROVE  t = u
  <2>1. pos[t] = pos[u]
    <3>1. /\ pos[t] \in Nat /\ pos[t] < tail /\ tail <= pos[t] + Capacity
          /\ pos[u] \in Nat /\ pos[u] < tail /\ tail <= pos[u] + Capacity
          /\ tail \in Nat
      BY <1>3, <1>4, Typed DEF RingInv
    <3>2. pos[t] < pos[u] + Capacity /\ pos[u] < pos[t] + Capacity
      BY <3>1
    <3> QED BY <1>4, <3>1, <3>2, SlotFacts
  <2>2. t \in Producers <=> u \in Producers
    BY <1>3, <1>4, <2>1
  <2>3. CASE t \in Producers
    BY <1>4, <2>1, <2>2, <2>3 DEF RingInv, OneEach, UsesSlot, Pushing, Producing
  <2>4. CASE t \notin Producers
    <3>1. t \in Consumers /\ u \in Consumers /\ Consuming(t) /\ Consuming(u) /\ kind \in {"mpmc", "mpsc"}
      BY <2>2, <2>4 DEF Threads, RingInv
    <3>2. CASE kind = "mpsc"
      BY <1>4, <3>1, <3>2 DEF Consuming, UsesSlot
    <3>3. CASE kind = "mpmc"
      <4>1. Claimed(t) /\ Claimed(u)
        BY <1>4, <3>1, <3>3 DEF Consuming, UsesSlot, Claimed
      <4> QED BY <2>1, <3>1, <4>1 DEF RingInv, OneEach
    <3> QED BY <3>1, <3>2, <3>3
  <2> QED BY <2>3, <2>4
<1> QED BY <1>1, <1>2, <1>4 DEF SlotOwned

\* In both queues an element is constructed in raw storage only and moved out of a live
\* element only, and no two threads are at one slot, whatever the interleaving of push
\* and pop, the number of threads and the capacity (Slot::sequence, Slot::storage).
THEOREM SlotsOwned == ASSUME Capacity >= 2 PROVE Spec => []SlotOwned
  BY Invariance, InvOwned, PTL

\* A push that returns false read a sequence below its position, which then is tail_.
LEMMA RefusedStep ==
    ASSUME Capacity >= 2, RingInv, [Next]_<<vars, kind>>,
           NEW p \in Producers, pc[p] = "pushSeq", pc'[p] = "idle"
    PROVE  \/ tail - head >= Capacity
           \/ \E c \in Consumers : pc[c] \in {"move", "advance", "release"} /\ pos[c] = pos[p] - Capacity
<1> USE CapacityNat
<1>1. PushReadSequence(p)
  <2>0. pc'[p] # pc[p] /\ p \in Threads /\ p \notin Consumers /\ pc \in [Threads -> Labels] /\ Owner \in Consumers
    BY RingAssumption DEF Threads, RingInv, TypeOK, Labels
  <2>1. Next
    BY <2>0 DEF vars
  <2>2. ASSUME NEW q \in Producers, PushStep(q) PROVE q = p /\ PushReadSequence(p)
    BY <2>0, <2>2 DEF PushStep, PushBegin, PushReadSequence, PushReload, PushReserve, PushConstruct,
                PushPublish, Goto
  <2>3. ASSUME NEW c \in Consumers, Mpmc!PopStep(c) PROVE FALSE
    BY <2>0, <2>3 DEF Mpmc!PopStep, Mpmc!PopBegin, Mpmc!PopReadSequence, Mpmc!PopReload, Mpmc!PopClaim,
                Mpmc!PopMove, Mpmc!PopRelease, Mpmc!Goto
  <2>4. ~Mpsc!PopStep(Owner)
    BY <2>0 DEF Mpsc!PopStep, Mpsc!PopBegin, Mpsc!PopReadSequence, Mpsc!PopMove, Mpsc!PopAdvance,
                Mpsc!PopRelease, Mpsc!Goto
  <2> QED BY <2>1, <2>2, <2>3, <2>4, Steps
<1>2. PICK h \in Nat : h = pos[p]
  BY Typed DEF RingInv, Threads
<1>3. /\ head \in Nat /\ tail \in Nat /\ SeqAt(h) \in Nat /\ h <= tail
      /\ head <= tail /\ tail <= head + Capacity
  BY <1>2, Typed DEF RingInv, Bounds, Producing
<1>4. SeqAt(h) < h
  <2>1. pc \in [Threads -> Labels] /\ p \in Threads
    BY DEF RingInv, TypeOK, Threads, Labels
  <2> QED BY <1>1, <1>2, <1>3, <2>1 DEF PushReadSequence, SeqAt, Goto
<1>5. h = tail
  BY <1>3, <1>4 DEF RingInv, Passed
<1>6. CASE tail < head + Capacity
  <2>1. PICK c \in Consumers : Claimed(c) /\ pos[c] = h - Capacity
    BY <1>3, <1>4, <1>5, <1>6 DEF RingInv, FreeSlots
  <2> QED BY <1>2, <2>1 DEF Claimed
<1> QED BY <1>3, <1>6

\* push returns false only when every slot is reserved or a pop has not yet given back
\* the very slot it needs (push's test of the sequence against pos).
THEOREM RefusedOnlyWhenFull == ASSUME Capacity >= 2 PROVE Spec => RefusedOnlyIfFull
<1>1. ASSUME RingInv, [Next]_<<vars, kind>>
      PROVE  [\A p \in Producers : pc[p] = "pushSeq" /\ pc'[p] = "idle" =>
                \/ tail - head >= Capacity
                \/ \E c \in Consumers : pc[c] \in {"move", "advance", "release"}
                                        /\ pos[c] = pos[p] - Capacity]_vars
  BY <1>1, RefusedStep
<1> QED BY <1>1, Invariance, PTL DEF Spec, RefusedOnlyIfFull

\* A pop that returns false is at head_, where nothing is published.
LEMMA EmptyStep ==
    ASSUME Capacity >= 2, RingInv, [Next]_<<vars, kind>>,
           NEW c \in Consumers, pc[c] = "popSeq", pc'[c] = "idle"
    PROVE  \/ head = tail
           \/ \E p \in Producers : pc[p] \in {"construct", "publish"} /\ pos[p] = head
<1> USE CapacityNat
<1>0. PICK h \in Nat : h = pos[c]
  BY Typed DEF RingInv, Threads
<1>1. /\ pc'[c] # pc[c] /\ c \in Threads /\ c \notin Producers /\ pc \in [Threads -> Labels]
      /\ Owner \in Consumers
      /\ head \in Nat /\ tail \in Nat /\ SeqAt(h) \in Nat /\ h <= head /\ head <= tail
  BY <1>0, Typed, RingAssumption DEF Threads, RingInv, TypeOK, Labels, Consuming, Bounds
<1>2. Next
  BY <1>1 DEF vars
<1>3. ASSUME NEW q \in Producers, PushStep(q) PROVE FALSE
  BY <1>1, <1>3 DEF PushStep, PushBegin, PushReadSequence, PushReload, PushReserve, PushConstruct,
              PushPublish, Goto
<1>4. ASSUME NEW d \in Consumers, Mpmc!PopStep(d) PROVE SeqAt(h) < h + 1
  <2>1. d = c /\ Mpmc!PopReadSequence(c)
    BY <1>1, <1>4 DEF Mpmc!PopStep, Mpmc!PopBegin, Mpmc!PopReadSequence, Mpmc!PopReload, Mpmc!PopClaim,
                Mpmc!PopMove, Mpmc!PopRelease, Mpmc!Goto
  <2> QED BY <1>0, <1>1, <2>1, SameSlot DEF Mpmc!PopReadSequence, Mpmc!Goto, SeqAt
<1>5. ASSUME kind = "mpsc", Mpsc!PopStep(Owner) PROVE SeqAt(h) # h + 1 /\ h = head
  <2>1. Owner = c /\ Mpsc!PopReadSequence(c)
    BY <1>1, <1>5 DEF Mpsc!PopStep, Mpsc!PopBegin, Mpsc!PopReadSequence, Mpsc!PopMove, Mpsc!PopAdvance,
                Mpsc!PopRelease, Mpsc!Goto
  <2>2. h = head
    BY <1>0, <1>5 DEF RingInv, Consuming
  <2> QED BY <1>0, <1>1, <2>1, <2>2, SameSlot DEF Mpsc!PopReadSequence, Mpsc!Goto, SeqAt
<1>6. SeqAt(h) # h + 1 /\ h = head
  <2>1. SeqAt(h) < h + 1 => h = head
    BY <1>1 DEF RingInv, Passed
  <2> QED BY <1>1, <1>2, <1>3, <1>4, <1>5, <2>1, Steps
<1> QED BY <1>1, <1>6 DEF RingInv, ReservedSlots, Pushing

\* pop returns false only when nothing is reserved or the oldest reserved slot is not
\* published (pop's test of the sequence against pos + 1).
THEOREM EmptyOnlyWhenUnpublished == ASSUME Capacity >= 2 PROVE Spec => EmptyOnlyIfUnpublished
<1>1. ASSUME RingInv, [Next]_<<vars, kind>>
      PROVE  [\A c \in Consumers : pc[c] = "popSeq" /\ pc'[c] = "idle" =>
                \/ head = tail
                \/ \E p \in Producers : pc[p] \in {"construct", "publish"} /\ pos[p] = head]_vars
  BY <1>1, EmptyStep
<1> QED BY <1>1, Invariance, PTL DEF Spec, EmptyOnlyIfUnpublished

-----------------------------------------------------------------------------
(* Both queues implement BoundedFifo                                       *)

\* The value in line at position i, and the value that c's pop has taken.
Item(i) == IF kind = "mpmc" THEN Mpmc!ValueAt(i) ELSE Mpsc!QueuedAt(i)

Taken(c) ==
    IF kind = "mpmc" THEN IF pc[c] = "move" THEN ElemAt(pos[c]) ELSE out[c]
                     ELSE IF pc[c] = "release" THEN out[c] ELSE NoValue

\* The state of the FIFO.
FifoItems == [j \in 1 .. tail - head |-> Item(head + j - 1)]
FifoGiven == [c \in Consumers |-> Taken(c)]

\* The state functions of the refinement mapping are FifoItems and FifoGiven.
Mapped ==
    /\ (IF kind = "mpmc" THEN Mpmc!Items ELSE Mpsc!Items) = FifoItems
    /\ (IF kind = "mpmc" THEN Mpmc!Given ELSE Mpsc!Given) = FifoGiven

\* The refinement mapping of RingQueues in these terms.
LEMMA Mapping == ASSUME RingInv PROVE Mapped
<1> USE DEF Mapped
<1>1. CASE kind = "mpmc"
  BY <1>1, SameSlot DEF Mpmc!Items, Mpmc!Given, FifoItems, FifoGiven, Item, Taken, ElemAt
<1>2. CASE kind = "mpsc"
  BY <1>2 DEF Mpsc!Items, Mpsc!Given, FifoItems, FifoGiven, Item, Taken
<1> QED BY <1>1, <1>2 DEF RingInv

\* Where the value in line at a position is.
LEMMA ItemFacts ==
    ASSUME Capacity >= 2, RingInv, NEW i \in Nat, head <= i, i < tail
    PROVE  /\ \A p \in Producers : pc[p] = "construct" /\ pos[p] = i => Item(i) = msg[p]
           /\ pc[Owner] = "advance" /\ pos[Owner] = i => Item(i) = out[Owner]
           /\ \/ \E p \in Producers : pc[p] = "construct" /\ pos[p] = i
              \/ pc[Owner] = "advance" /\ pos[Owner] = i
              \/ Item(i) = ElemAt(i)
           /\ Item(i) \in Values
<1> DEFINE holders == {p \in Producers : pc[p] = "construct" /\ pos[p] = i}
<1> DEFINE v == IF holders # {} THEN msg[CHOOSE p \in holders : TRUE] ELSE ElemAt(i)
<1>1. Mpmc!ValueAt(i) = v /\ Mpsc!ValueAt(i) = v
  BY SameSlot DEF Mpmc!ValueAt, Mpsc!ValueAt, ElemAt
<1>2. Owner \in Consumers /\ (kind = "mpmc" => pc[Owner] # "advance") /\ kind \in {"mpmc", "mpsc"}
  BY RingAssumption DEF RingInv, Consuming
<1>3. Item(i) = IF pc[Owner] = "advance" /\ pos[Owner] = i THEN out[Owner] ELSE v
  BY <1>1, <1>2 DEF Item, Mpsc!QueuedAt
<1>4. ASSUME NEW p \in Producers, pc[p] = "construct", pos[p] = i
      PROVE  v = msg[p] /\ ~(pc[Owner] = "advance" /\ pos[Owner] = i)
  <2>1. holders = {p}
    BY <1>4 DEF RingInv, OneEach, Pushing
  <2>2. SeqAt(i) = i
    BY <1>4 DEF RingInv, Producing, Pushing
  <2>3. pc[Owner] = "advance" /\ pos[Owner] = i => SeqAt(i) = i + 1
    BY <1>2 DEF RingInv, Consuming
  <2> QED BY <2>1, <2>2, <2>3
<1>5. (\E p \in Producers : pc[p] = "construct" /\ pos[p] = i) \/ v = ElemAt(i)
  OBVIOUS
<1>6. Item(i) \in Values
  <2>1. CASE \E p \in Producers : pc[p] = "construct" /\ pos[p] = i
    <3>1. PICK p \in Producers : pc[p] = "construct" /\ pos[p] = i
      BY <2>1
    <3>2. Item(i) = msg[p]
      BY <1>3, <1>4, <3>1
    <3> QED BY <3>1, <3>2 DEF RingInv, Producing
  <2>2. CASE pc[Owner] = "advance" /\ pos[Owner] = i
    BY <1>2, <1>3, <2>2 DEF RingInv, Consuming
  <2>3. CASE /\ ~\E p \in Producers : pc[p] = "construct" /\ pos[p] = i
             /\ ~(pc[Owner] = "advance" /\ pos[Owner] = i)
    <3>1. Item(i) = ElemAt(i)
      BY <1>3, <1>5, <2>3
    <3>2. CASE SeqAt(i) = i + 1
      BY <2>3, <3>1, <3>2 DEF RingInv, ReservedSlots
    <3>3. CASE SeqAt(i) # i + 1
      <4>1. PICK p \in Producers : Pushing(p) /\ pos[p] = i
        BY <3>3 DEF RingInv, ReservedSlots
      <4> QED BY <2>3, <3>1, <4>1 DEF RingInv, Producing, Pushing
    <3> QED BY <3>2, <3>3
  <2> QED BY <2>1, <2>2, <2>3
<1> HIDE DEF v, holders
<1> QED BY <1>3, <1>4, <1>5, <1>6

\* The values in line, one for every reserved position.
FifoShape ==
    /\ FifoItems \in Seq(Values) /\ Len(FifoItems) = tail - head
    /\ tail - head \in Nat /\ head \in Nat
    /\ \A j \in 1 .. tail - head : FifoItems[j] = Item(head + j - 1)

\* What is in line is a sequence as long as head_ and tail_ are apart.
LEMMA FifoTypes == ASSUME Capacity >= 2, RingInv PROVE FifoShape
<1>1. head \in Nat /\ tail \in Nat /\ head <= tail /\ tail - head \in Nat
  BY Typed DEF RingInv, Bounds
<1>2. \A j \in 1 .. tail - head : Item(head + j - 1) \in Values
  <2> TAKE j \in 1 .. tail - head
  <2>1. head + j - 1 \in Nat /\ head <= head + j - 1 /\ head + j - 1 < tail
    BY <1>1
  <2> QED BY <2>1, ItemFacts
<1> QED BY <1>1, <1>2 DEF FifoItems, FifoShape

\* A step that leaves head_, tail_ and what is in line alone.
LEMMA ItemsStay ==
    ASSUME Capacity >= 2, RingInv, UNCHANGED <<head, tail>>,
           \A i \in Nat : head <= i /\ i < tail => Item(i)' = Item(i)
    PROVE  FifoItems' = FifoItems
<1>1. head \in Nat /\ tail \in Nat
  BY Typed DEF RingInv
<1>2. \A j \in 1 .. tail - head : Item(head + j - 1)' = Item(head + j - 1)
  <2> TAKE j \in 1 .. tail - head
  <2>1. PICK i \in Nat : i = head + j - 1 /\ head <= i /\ i < tail
    BY <1>1
  <2> QED BY <2>1
<1> QED BY <1>2 DEF FifoItems

\* The value in line at a position is with the push that reserved it, with the pop that
\* has moved it out, or in the slot.
InLine ==
    \A i \in Nat : head <= i /\ i < tail =>
        /\ \A p \in Producers : pc[p] = "construct" /\ pos[p] = i => Item(i) = msg[p]
        /\ pc[Owner] = "advance" /\ pos[Owner] = i => Item(i) = out[Owner]
        /\ \/ \E p \in Producers : pc[p] = "construct" /\ pos[p] = i
           \/ pc[Owner] = "advance" /\ pos[Owner] = i
           \/ Item(i) = ElemAt(i)

\* InLine follows from the invariant.
LEMMA InvInLine == ASSUME Capacity >= 2, RingInv PROVE InLine
  BY ItemFacts DEF InLine

\* What is in line at i, from the thread that is at i or from the slot.
LEMMA ItemsSame ==
    ASSUME Capacity >= 2, RingInv, RingInv', NEW i \in Nat,
           head <= i, i < tail, head' <= i, i < tail',
           \A p \in Producers :
              (pc[p] = "construct" /\ pos[p] = i) <=> (pc'[p] = "construct" /\ pos'[p] = i),
           (pc[Owner] = "advance" /\ pos[Owner] = i) <=> (pc'[Owner] = "advance" /\ pos'[Owner] = i),
           \A p \in Producers : pc[p] = "construct" /\ pos[p] = i => msg'[p] = msg[p],
           pc[Owner] = "advance" /\ pos[Owner] = i => out'[Owner] = out[Owner],
           \/ \E p \in Producers : pc[p] = "construct" /\ pos[p] = i
           \/ ElemAt(i)' = ElemAt(i)
           \/ pc[Owner] = "advance" /\ pos[Owner] = i
    PROVE  Item(i)' = Item(i)
<1>1. InLine
  BY InvInLine
<1>2. InLine'
  BY InvInLine, PTL
<1>3. CASE \E p \in Producers : pc[p] = "construct" /\ pos[p] = i
  <2>1. PICK p \in Producers : pc[p] = "construct" /\ pos[p] = i
    BY <1>3
  <2>2. Item(i) = msg[p]
    BY <1>1, <2>1 DEF InLine
  <2>3. Item(i)' = msg'[p]
    BY <1>2, <2>1 DEF InLine
  <2> QED BY <2>1, <2>2, <2>3
<1>4. CASE pc[Owner] = "advance" /\ pos[Owner] = i
  <2>1. Item(i) = out[Owner]
    BY <1>1, <1>4 DEF InLine
  <2>2. Item(i)' = out'[Owner]
    BY <1>2, <1>4 DEF InLine
  <2> QED BY <1>4, <2>1, <2>2
<1>5. CASE /\ ~\E p \in Producers : pc[p] = "construct" /\ pos[p] = i
           /\ ~(pc[Owner] = "advance" /\ pos[Owner] = i)
  <2>1. Item(i) = ElemAt(i)
    BY <1>1, <1>5 DEF InLine
  <2>2. Item(i)' = ElemAt(i)'
    BY <1>2, <1>5 DEF InLine
  <2> QED BY <1>5, <2>1, <2>2
<1> QED BY <1>3, <1>4, <1>5

\* A step that leaves the slots' storage, the constructions and the removals alone.
LEMMA QuietStep ==
    ASSUME Capacity >= 2, RingInv, RingInv', NEW t \in Threads,
           UNCHANGED <<head, tail, element, kind>>,
           \A u \in Threads : u # t => pc'[u] = pc[u] /\ pos'[u] = pos[u],
           pc[t] \notin {"construct", "advance"}, pc'[t] \notin {"construct", "advance"},
           \A p \in Producers : p # t => msg'[p] = msg[p],
           \A c \in Consumers : c # t => out'[c] = out[c],
           t \in Consumers => Taken(t)' = Taken(t)
    PROVE  UNCHANGED <<FifoItems, FifoGiven>>
<1>0. \A i : ElemAt(i)' = ElemAt(i)
  BY DEF ElemAt
<1>1. ASSUME NEW i \in Nat, head <= i, i < tail PROVE Item(i)' = Item(i)
  <2>1. \A p \in Producers : pc[p] = "construct" => p # t
    OBVIOUS
  <2>2. \A p \in Producers :
            (pc[p] = "construct" /\ pos[p] = i) <=> (pc'[p] = "construct" /\ pos'[p] = i)
    BY DEF Threads
  <2>3. (pc[Owner] = "advance" /\ pos[Owner] = i) <=> (pc'[Owner] = "advance" /\ pos'[Owner] = i)
    BY RingAssumption DEF Threads
  <2>4. pc[Owner] = "advance" => out'[Owner] = out[Owner]
    BY RingAssumption
  <2> QED BY <1>0, <1>1, <2>1, <2>2, <2>3, <2>4, ItemsSame
<1>2. FifoItems' = FifoItems
  BY <1>1, ItemsStay
<1>3. \A c \in Consumers : Taken(c)' = Taken(c)
  <2> TAKE c \in Consumers
  <2>1. CASE c = t
    BY <2>1
  <2>2. CASE c # t
    BY <1>0, <2>2 DEF Taken, Threads
  <2> QED BY <2>1, <2>2
<1> QED BY <1>2, <1>3 DEF FifoGiven

\* The steps of BoundedFifo in these terms.
FAccept(v) ==
    /\ Len(FifoItems) < Capacity
    /\ FifoItems' = Append(FifoItems, v)
    /\ UNCHANGED FifoGiven

FTake(c) ==
    /\ FifoItems # <<>> /\ FifoGiven[c] = NoValue
    /\ FifoGiven' = [FifoGiven EXCEPT ![c] = Head(FifoItems)]
    /\ FifoItems' = Tail(FifoItems)

FReturn(c) ==
    /\ FifoGiven[c] # NoValue
    /\ FifoGiven' = [FifoGiven EXCEPT ![c] = NoValue]
    /\ UNCHANGED FifoItems

FifoStep ==
    \/ UNCHANGED <<FifoItems, FifoGiven>>
    \/ \E v \in Values : FAccept(v)
    \/ \E c \in Consumers : FTake(c) \/ FReturn(c)

\* The compare-and-swap of tail_ appends the value.
LEMMA AcceptStep ==
    ASSUME Capacity >= 2, RingInv, RingInv', NEW p \in Producers, pc[p] = "pushCas", tail = pos[p],
           tail' = pos[p] + 1, Goto(p, "construct"),
           UNCHANGED <<pos, head, slotVars, msg, out, calls, kind>>
    PROVE  FifoStep
<1> USE CapacityNat
<1>0. PICK h \in Nat : h = pos[p]
  BY Typed DEF RingInv, Threads
<1>1. /\ UNCHANGED <<head, pos, out, msg, kind>> /\ tail = h /\ tail' = h + 1
      /\ \A t \in Threads : pc'[t] = IF t = p THEN "construct" ELSE pc[t]
      /\ \A i : ElemAt(i)' = ElemAt(i)
      /\ p \notin Consumers /\ Owner \in Consumers /\ Owner \in Threads /\ p \in Threads
      /\ msg[p] \in Values
  BY <1>0, RingAssumption DEF RingInv, TypeOK, Goto, ElemAt, slotVars, Producing, Threads
<1>2. head \in Nat /\ head <= h /\ h + 1 <= head + Capacity
  BY <1>1, Typed DEF RingInv, Bounds
<1>3. ASSUME NEW i \in Nat, head <= i, i < h PROVE Item(i)' = Item(i)
  <2>1. \A q \in Producers :
            (pc[q] = "construct" /\ pos[q] = i) <=> (pc'[q] = "construct" /\ pos'[q] = i)
    BY <1>0, <1>1, <1>3 DEF Threads
  <2>2. (pc[Owner] = "advance" /\ pos[Owner] = i) <=> (pc'[Owner] = "advance" /\ pos'[Owner] = i)
    BY <1>1
  <2>3. i < tail /\ i < tail' /\ head' <= i
    BY <1>1, <1>2, <1>3
  <2> QED BY <1>1, <1>3, <2>1, <2>2, <2>3, ItemsSame
<1>4. Item(h)' = msg[p]
  <2>1. InLine'
    BY InvInLine, PTL
  <2> QED BY <1>0, <1>1, <1>2, <2>1 DEF InLine
<1>5. FifoItems \in Seq(Values) /\ Len(FifoItems) = h - head /\ h - head \in Nat
      /\ \A j \in 1 .. h - head : FifoItems[j] = Item(head + j - 1)
  BY <1>1, FifoTypes DEF FifoShape
<1>6. FifoItems' = Append(FifoItems, msg[p])
  <2>1. FifoShape'
    BY FifoTypes, PTL
  <2>2. /\ FifoItems' \in Seq(Values) /\ Len(FifoItems') = h + 1 - head
        /\ \A j \in 1 .. h + 1 - head : FifoItems'[j] = Item(head + j - 1)'
    BY <1>1, <2>1 DEF FifoShape
  <2>3. /\ Append(FifoItems, msg[p]) \in Seq(Values)
        /\ Len(Append(FifoItems, msg[p])) = h + 1 - head
        /\ \A j \in 1 .. h - head : Append(FifoItems, msg[p])[j] = FifoItems[j]
        /\ Append(FifoItems, msg[p])[h + 1 - head] = msg[p]
    BY <1>1, <1>2, <1>5
  <2>4. ASSUME NEW j \in 1 .. h + 1 - head
        PROVE  FifoItems'[j] = Append(FifoItems, msg[p])[j]
    <3>1. PICK i \in Nat : i = head + j - 1
      BY <1>2
    <3>2. CASE j = h + 1 - head
      <4>1. head + j - 1 = h /\ head' = head
        BY <1>1, <1>2, <3>2
      <4>2. FifoItems'[j] = Item(h)'
        BY <2>2, <4>1
      <4> QED BY <1>4, <2>3, <3>2, <4>2
    <3>3. CASE j # h + 1 - head
      <4>1. head <= i /\ i < h /\ j \in 1 .. h - head
        BY <1>2, <3>1, <3>3
      <4>2. Item(i)' = Item(i) /\ FifoItems[j] = Item(i)
        BY <1>3, <1>5, <3>1, <4>1
      <4> QED BY <1>1, <2>2, <2>3, <3>1, <4>1, <4>2
    <3> QED BY <3>2, <3>3
  <2> QED BY <2>2, <2>3, <2>4, SeqEqual
<1>7. FifoGiven' = FifoGiven
  BY <1>1 DEF FifoGiven, Taken, Threads
<1>8. FAccept(msg[p])
  BY <1>2, <1>5, <1>6, <1>7 DEF FAccept
<1> QED BY <1>1, <1>8 DEF FifoStep

\* The construction does not change what is in line.
LEMMA ConstructFifo ==
    ASSUME Capacity >= 2, RingInv, RingInv', NEW p \in Producers, PushConstruct(p), UNCHANGED kind
    PROVE  FifoStep
<1> USE CapacityNat
<1>0. PICK h \in Nat : h = pos[p]
  BY Typed DEF RingInv, Threads
<1>1. /\ UNCHANGED <<head, tail, pos, out, msg, kind>> /\ pc[p] = "construct"
      /\ \A t \in Threads : pc'[t] = IF t = p THEN "publish" ELSE pc[t]
      /\ p \notin Consumers /\ Owner \in Consumers /\ Owner \in Threads /\ p \in Threads
      /\ msg[p] \in Values /\ head <= h /\ h < tail /\ SeqAt(h) = h
      /\ head \in Nat /\ tail \in Nat
      /\ \A t \in Threads : pos[t] \in Nat
  BY <1>0, Typed, RingAssumption DEF RingInv, TypeOK, PushConstruct, Goto, Producing, Pushing, Threads
<1>2. ElemAt(h)' = msg[p] /\ \A i \in Nat : Slot(i) # Slot(h) => ElemAt(i)' = ElemAt(i)
  <2>1. PICK v \in Values \cup {NoValue} : v = msg[p]
    BY <1>1
  <2>2. element' = [element EXCEPT ![Slot(h)] = v] /\ TypeOK
    BY <1>0, <2>1 DEF PushConstruct, RingInv
  <2>3. ElemAt(h)' = v /\ \A i \in Nat : Slot(i) # Slot(h) => ElemAt(i)' = ElemAt(i)
    BY <2>2, StoreElement, Zenon
  <2> QED BY <2>1, <2>3
<1>3. InLine /\ InLine'
  <2>1. InLine
    BY InvInLine
  <2>2. InLine'
    BY InvInLine, PTL
  <2> QED BY <2>1, <2>2
<1>4. tail <= head + Capacity
  BY DEF RingInv, Bounds
<1>5. ASSUME NEW i \in Nat, head <= i, i < tail PROVE Item(i)' = Item(i)
  <2>1. CASE i = h
    <3>1. ~(pc[Owner] = "advance" /\ pos[Owner] = h)
      BY <1>1 DEF RingInv, Consuming
    <3>2. \A q \in Producers : ~(pc'[q] = "construct" /\ pos'[q] = h)
      BY <1>0, <1>1 DEF RingInv, OneEach, Pushing, Threads
    <3>3. Item(h) = msg[p]
      BY <1>0, <1>1, <1>3 DEF InLine
    <3>4. Item(h)' = ElemAt(h)'
      BY <1>1, <1>3, <3>1, <3>2 DEF InLine
    <3> QED BY <1>2, <2>1, <3>3, <3>4
  <2>2. CASE i # h
    <3>1. \A q \in Producers :
            (pc[q] = "construct" /\ pos[q] = i) <=> (pc'[q] = "construct" /\ pos'[q] = i)
      BY <1>0, <1>1, <2>2 DEF Threads
    <3>2. (pc[Owner] = "advance" /\ pos[Owner] = i) <=> (pc'[Owner] = "advance" /\ pos'[Owner] = i)
      BY <1>1
    <3>3. ElemAt(i)' = ElemAt(i)
      <4>1. i < h + Capacity /\ h < i + Capacity
        BY <1>1, <1>4, <1>5
      <4> QED BY <1>2, <2>2, <4>1, Near
    <3> QED BY <1>1, <1>5, <3>1, <3>2, <3>3, ItemsSame
  <2> QED BY <2>1, <2>2
<1>6. FifoItems' = FifoItems
  BY <1>1, <1>5, ItemsStay
<1>7. ASSUME NEW c \in Consumers PROVE Taken(c)' = Taken(c)
  <2>1. kind = "mpmc" /\ pc[c] = "move" => ElemAt(pos[c])' = ElemAt(pos[c])
    <3> SUFFICES ASSUME kind = "mpmc", pc[c] = "move" PROVE ElemAt(pos[c])' = ElemAt(pos[c])
      OBVIOUS
    <3>1. pos[c] \in Nat /\ pos[c] < head /\ tail <= pos[c] + Capacity
      BY <1>1 DEF RingInv, Consuming, Claimed, Threads
    <3>2. pos[c] # h /\ pos[c] < h + Capacity /\ h < pos[c] + Capacity
      BY <1>1, <3>1
    <3> QED BY <1>1, <1>2, <3>1, <3>2, Near
  <2>2. pc'[c] = pc[c] /\ out'[c] = out[c] /\ kind' = kind
    BY <1>1 DEF Threads
  <2> QED BY <2>1, <2>2 DEF Taken
<1> QED BY <1>6, <1>7 DEF FifoStep, FifoGiven

\* Moving the element out does not change what is in line or taken.
LEMMA MoveFifo ==
    ASSUME Capacity >= 2, RingInv, RingInv', NEW c \in Consumers, MovesOut(c) PROVE FifoStep
<1> USE CapacityNat
<1>0. PICK h \in Nat : h = pos[c]
  BY Typed DEF RingInv, Threads
<1>1. /\ head \in Nat /\ tail \in Nat /\ pc[c] = "move"
      /\ h <= head /\ h < tail /\ tail <= h + Capacity
      /\ head <= tail /\ tail <= head + Capacity
      /\ kind = "mpmc" => h < head
      /\ kind = "mpsc" => h = head /\ c = Owner
      /\ SeqAt(h) = h + 1 /\ ElemAt(h) \in Values
      /\ kind \in {"mpmc", "mpsc"} /\ Owner \in Consumers /\ Owner \in Threads
      /\ \A t \in Threads : pos[t] \in Nat
  BY <1>0, Typed, RingAssumption DEF RingInv, MovesOut, Bounds, Consuming, Claimed, Threads
<1>2. /\ UNCHANGED <<head, tail, pos, msg, kind>>
      /\ \A t \in Threads : t # c => pc'[t] = pc[t]
      /\ pc'[c] = IF kind = "mpmc" THEN "release" ELSE "advance"
      /\ \A d \in Consumers : out'[d] = IF d = c THEN ElemAt(h) ELSE out[d]
      /\ \A p \in Producers : pc'[p] = pc[p]
  BY <1>0, RingAssumption DEF RingInv, MovesOut, TypeOK, ElemAt, Threads
<1>3. \A i \in Nat : i # h /\ i < h + Capacity /\ h < i + Capacity => ElemAt(i)' = ElemAt(i)
  <2>1. element' = [element EXCEPT ![Slot(h)] = NoValue] /\ TypeOK /\ NoValue \in Values \cup {NoValue}
    BY <1>0 DEF MovesOut, RingInv
  <2>2. \A i \in Nat : Slot(i) # Slot(h) => ElemAt(i)' = ElemAt(i)
    BY <2>1, StoreElement, Zenon
  <2> QED BY <2>2, Near
<1>4. InLine /\ InLine'
  <2>1. InLine
    BY InvInLine
  <2>2. InLine'
    BY InvInLine, PTL
  <2> QED BY <2>1, <2>2
<1>5. ASSUME NEW i \in Nat, head <= i, i < tail PROVE Item(i)' = Item(i)
  <2>1. CASE i = h
    <3>0. kind = "mpsc" /\ c = Owner
      BY <1>1, <1>5, <2>1
    <3>1. \A q \in Producers : ~(pc[q] = "construct" /\ pos[q] = h)
      BY <1>1 DEF RingInv, Producing, Pushing
    <3>2. Item(h) = ElemAt(h)
      BY <1>1, <1>4, <1>5, <2>1, <3>0, <3>1 DEF InLine
    <3>3. Item(h)' = out'[Owner]
      BY <1>0, <1>1, <1>2, <1>4, <1>5, <2>1, <3>0 DEF InLine
    <3> QED BY <1>2, <2>1, <3>0, <3>2, <3>3
  <2>2. CASE i # h
    <3>1. (pc[Owner] = "advance" /\ pos[Owner] = i) <=> (pc'[Owner] = "advance" /\ pos'[Owner] = i)
      BY <1>0, <1>1, <1>2, <2>2
    <3>2. pc[Owner] = "advance" => out'[Owner] = out[Owner]
      BY <1>1, <1>2
    <3>3. ElemAt(i)' = ElemAt(i)
      BY <1>1, <1>3, <1>5, <2>2
    <3> QED BY <1>2, <1>5, <3>1, <3>2, <3>3, ItemsSame
  <2> QED BY <2>1, <2>2
<1>6. FifoItems' = FifoItems
  BY <1>2, <1>5, ItemsStay
<1>7. ASSUME NEW d \in Consumers PROVE Taken(d)' = Taken(d)
  <2>1. CASE d = c
    BY <1>0, <1>1, <1>2, <2>1 DEF Taken
  <2>2. CASE d # c
    <3>1. kind = "mpmc" /\ pc[d] = "move" => ElemAt(pos[d])' = ElemAt(pos[d])
      <4> SUFFICES ASSUME kind = "mpmc", pc[d] = "move" PROVE ElemAt(pos[d])' = ElemAt(pos[d])
        OBVIOUS
      <4>1. Claimed(c) /\ Claimed(d)
        BY <1>1 DEF Claimed
      <4>2. pos[d] \in Nat /\ pos[d] < head /\ tail <= pos[d] + Capacity /\ pos[d] # h
        BY <1>0, <1>1, <2>2, <4>1 DEF RingInv, Consuming, OneEach, Threads
      <4>3. pos[d] < h + Capacity /\ h < pos[d] + Capacity
        BY <1>1, <4>2
      <4> QED BY <1>2, <1>3, <4>2, <4>3
    <3>2. pc'[d] = pc[d] /\ out'[d] = out[d] /\ kind' = kind
      BY <1>2, <2>2 DEF Threads
    <3> QED BY <3>1, <3>2 DEF Taken
  <2> QED BY <2>1, <2>2
<1> QED BY <1>6, <1>7 DEF FifoStep, FifoGiven

\* Moving head_ on takes the oldest value out of line.
LEMMA TakeFifo ==
    ASSUME Capacity >= 2, RingInv, RingInv', NEW c \in Consumers, TakesHead(c), head' = pos[c] + 1,
           UNCHANGED <<tail, slotVars, pos, msg, out, calls, kind>>
    PROVE  FifoStep
<1> USE CapacityNat
<1>0. PICK h \in Nat : h = pos[c]
  BY Typed DEF RingInv, Threads
<1>1. /\ UNCHANGED <<tail, pos, out, msg, kind>> /\ head = h /\ head' = h + 1
      /\ \A i : ElemAt(i)' = ElemAt(i)
      /\ \A t \in Threads : t # c => pc'[t] = pc[t]
      /\ pc'[c] = IF kind = "mpmc" THEN "move" ELSE "release"
      /\ kind = "mpmc" => pc[c] = "popCas"
      /\ kind = "mpsc" => c = Owner /\ pc[c] = "advance"
      /\ c \notin Producers /\ Owner \in Consumers /\ Owner \in Threads
      /\ kind \in {"mpmc", "mpsc"} /\ tail \in Nat
  BY <1>0, Typed, RingAssumption DEF RingInv, TypeOK, TakesHead, ElemAt, slotVars, Threads, Consuming
<1>2. h + 1 <= tail
  BY <1>1 DEF RingInv, Bounds
<1>3. InLine
  BY InvInLine
<1>4. ASSUME NEW i \in Nat, h + 1 <= i, i < tail PROVE Item(i)' = Item(i)
  <2>1. \A q \in Producers :
            (pc[q] = "construct" /\ pos[q] = i) <=> (pc'[q] = "construct" /\ pos'[q] = i)
    BY <1>1 DEF Threads
  <2>2. ~(pc[Owner] = "advance" /\ pos[Owner] = i) /\ ~(pc'[Owner] = "advance" /\ pos'[Owner] = i)
    <3>1. pc[Owner] = "advance" => pos[Owner] = h
      BY <1>1 DEF RingInv, Consuming
    <3> QED BY <1>1, <1>4, <3>1
  <2>3. head <= i /\ head' <= i /\ i < tail'
    BY <1>1, <1>4
  <2> QED BY <1>1, <1>4, <2>1, <2>2, <2>3, ItemsSame
<1>5. Taken(c) = NoValue /\ Taken(c)' = Item(h) /\ \A d \in Consumers : d # c => Taken(d)' = Taken(d)
  <2>1. Taken(c) = NoValue
    <3>1. kind = "mpmc" => out[c] = NoValue
      BY <1>1, RingAssumption DEF RingInv, TypeOK, Consuming
    <3> QED BY <1>1, <3>1 DEF Taken
  <2>2. Taken(c)' = Item(h)
    <3>1. CASE kind = "mpsc"
      <4>1. Item(h) = out[Owner]
        BY <1>0, <1>1, <1>2, <1>3, <3>1 DEF InLine
      <4> QED BY <1>1, <3>1, <4>1 DEF Taken
    <3>2. CASE kind = "mpmc"
      <4>1. ~(pc[Owner] = "advance")
        BY <1>1, <3>2 DEF RingInv, Consuming
      <4>2. SeqAt(h) = h + 1
        <5>1. pc'[c] = "move" /\ kind' = "mpmc"
          BY <1>1, <3>2
        <5>2. SeqAt(pos[c])' = pos'[c] + 1
          BY <5>1 DEF RingInv, Consuming, Claimed
        <5>3. SeqAt(h)' = SeqAt(h)
          BY DEF SeqAt, slotVars
        <5> QED BY <1>0, <1>1, <5>2, <5>3
      <4>3. ~\E q \in Producers : pc[q] = "construct" /\ pos[q] = h
        BY <4>2 DEF RingInv, Producing, Pushing
      <4>4. Item(h) = ElemAt(h)
        BY <1>1, <1>2, <1>3, <4>1, <4>3 DEF InLine
      <4> QED BY <1>0, <1>1, <3>2, <4>4 DEF Taken
    <3> QED BY <1>1, <3>1, <3>2
  <2>3. ASSUME NEW d \in Consumers, d # c PROVE Taken(d)' = Taken(d)
    BY <1>1, <2>3 DEF Taken, Threads
  <2> QED BY <2>1, <2>2, <2>3
<1>6. /\ FifoItems \in Seq(Values) /\ Len(FifoItems) = tail - h
      /\ \A j \in 1 .. tail - h : FifoItems[j] = Item(h + j - 1)
  BY <1>1, FifoTypes DEF FifoShape
<1>7. FifoItems # <<>> /\ Head(FifoItems) = Item(h)
  <2>1. FifoItems[1] = Item(h)
    BY <1>1, <1>2, <1>6
  <2> QED BY <1>1, <1>2, <1>6, <2>1
<1>8. FifoItems' = Tail(FifoItems)
  <2>1. FifoShape'
    BY FifoTypes, PTL
  <2>2. /\ FifoItems' \in Seq(Values) /\ Len(FifoItems') = tail - (h + 1)
        /\ \A j \in 1 .. tail - (h + 1) : FifoItems'[j] = Item(head + j - 1)'
    BY <1>1, <2>1 DEF FifoShape
  <2>3. /\ Tail(FifoItems) \in Seq(Values) /\ Len(Tail(FifoItems)) = tail - (h + 1)
        /\ \A j \in 1 .. tail - (h + 1) : Tail(FifoItems)[j] = FifoItems[j + 1]
    BY <1>1, <1>2, <1>6, <1>7, HeadTailProperties
  <2>4. ASSUME NEW j \in 1 .. tail - (h + 1) PROVE FifoItems'[j] = Tail(FifoItems)[j]
    <3>1. PICK i \in Nat : i = h + j
      BY <1>1
    <3>2. h + 1 <= i /\ i < tail /\ j + 1 \in 1 .. tail - h /\ h + 1 + j - 1 = i /\ h + (j + 1) - 1 = i
      BY <1>1, <3>1
    <3>3. FifoItems[j + 1] = Item(i)
      BY <1>6, <3>2
    <3>4. FifoItems'[j] = Item(i)'
      BY <1>1, <2>2, <3>2
    <3> QED BY <1>4, <2>3, <3>2, <3>3, <3>4
  <2> QED BY <2>2, <2>3, <2>4, SeqEqual
<1>9. FTake(c)
  BY <1>5, <1>7, <1>8 DEF FTake, FifoGiven
<1> QED BY <1>9 DEF FifoStep

\* Giving the slot back ends the pop that took a value.
LEMMA ReturnFifo ==
    ASSUME Capacity >= 2, RingInv, RingInv', NEW c \in Consumers, GivesBack(c) PROVE FifoStep
<1>1. /\ UNCHANGED <<head, tail, pos, msg, kind>>
      /\ \A t \in Threads : pc'[t] = IF t = c THEN "idle" ELSE pc[t]
      /\ \A d \in Consumers : out'[d] = IF d = c THEN NoValue ELSE out[d]
      /\ \A i : ElemAt(i)' = ElemAt(i)
      /\ pc[c] = "release" /\ c \notin Producers /\ Owner \in Consumers /\ Owner \in Threads
      /\ kind \in {"mpmc", "mpsc"}
  BY RingAssumption DEF RingInv, GivesBack, TypeOK, ElemAt, Threads
<1>2. ASSUME NEW i \in Nat, head <= i, i < tail PROVE Item(i)' = Item(i)
  <2>1. \A q \in Producers :
            (pc[q] = "construct" /\ pos[q] = i) <=> (pc'[q] = "construct" /\ pos'[q] = i)
    BY <1>1 DEF Threads
  <2>2. (pc[Owner] = "advance" /\ pos[Owner] = i) <=> (pc'[Owner] = "advance" /\ pos'[Owner] = i)
    BY <1>1
  <2>3. pc[Owner] = "advance" => out'[Owner] = out[Owner]
    BY <1>1
  <2> QED BY <1>1, <1>2, <2>1, <2>2, <2>3, ItemsSame
<1>3. FifoItems' = FifoItems
  BY <1>1, <1>2, ItemsStay
<1>4. Taken(c) # NoValue /\ Taken(c)' = NoValue /\ \A d \in Consumers : d # c => Taken(d)' = Taken(d)
  <2>1. out[c] \in Values /\ NoValue \notin Values
    BY <1>1, RingAssumption DEF RingInv, Consuming, Values
  <2>2. ASSUME NEW d \in Consumers, d # c PROVE Taken(d)' = Taken(d)
    BY <1>1, <2>2 DEF Taken, Threads
  <2> QED BY <1>1, <2>1, <2>2 DEF Taken, Threads
<1>5. FReturn(c)
  BY <1>3, <1>4 DEF FReturn, FifoGiven
<1> QED BY <1>5 DEF FifoStep

\* Every step of push is a step of the FIFO or none.
LEMMA PushFifo ==
    ASSUME Capacity >= 2, RingInv, RingInv', NEW p \in Producers, PushStep(p), UNCHANGED kind
    PROVE  FifoStep
<1>1. ASSUME PushBegin(p) \/ PushReadSequence(p) \/ PushReload(p) \/ PushPublish(p)
             \/ (PushReserve(p) /\ pc'[p] = "pushSeq")
      PROVE FifoStep
  <2>1. /\ UNCHANGED <<head, tail, element, kind>>
        /\ \A u \in Threads : u # p => pc'[u] = pc[u] /\ pos'[u] = pos[u]
        /\ \A q \in Producers : q # p => msg'[q] = msg[q]
        /\ UNCHANGED out
    BY <1>1 DEF RingInv, TypeOK, PushBegin, PushReadSequence, PushReload, PushReserve, PushPublish,
                Goto, slotVars, Threads
  <2>2. pc[p] \notin {"construct", "advance"} /\ pc'[p] \notin {"construct", "advance"}
    BY <1>1 DEF RingInv, TypeOK, PushBegin, PushReadSequence, PushReload, PushReserve, PushPublish,
                Goto, Threads
  <2>3. p \in Threads /\ p \notin Consumers
    BY RingAssumption DEF Threads
  <2>4. UNCHANGED <<FifoItems, FifoGiven>>
    BY <2>1, <2>2, <2>3, QuietStep
  <2> QED BY <2>4 DEF FifoStep
<1>2. CASE PushReserve(p) /\ pc'[p] # "pushSeq"
  <2>1. /\ pc[p] = "pushCas" /\ tail = pos[p] /\ tail' = pos[p] + 1 /\ Goto(p, "construct")
        /\ UNCHANGED <<pos, head, slotVars, msg, out, calls, kind>>
    BY <1>2 DEF RingInv, TypeOK, PushReserve, Goto, Threads
  <2> QED BY <2>1, AcceptStep
<1>3. CASE PushConstruct(p)
  BY <1>3, ConstructFifo
<1> QED BY <1>1, <1>2, <1>3 DEF PushStep

\* A pop that has not claimed a slot is not seen by the FIFO.
LEMMA PopLocalFifo ==
    ASSUME Capacity >= 2, RingInv, RingInv', NEW c \in Consumers,
           UNCHANGED <<head, tail, element, msg, out, kind>>,
           \A u \in Threads : u # c => pc'[u] = pc[u] /\ pos'[u] = pos[u],
           pc[c] \in {"idle", "popSeq", "popReload", "popCas"},
           pc'[c] \in {"idle", "popSeq", "popReload", "popCas"} \/ (kind = "mpsc" /\ pc'[c] = "move")
    PROVE  FifoStep
<1>1. c \in Threads /\ Taken(c)' = Taken(c)
  BY DEF Threads, Taken, RingInv
<1>2. pc[c] \notin {"construct", "advance"} /\ pc'[c] \notin {"construct", "advance"}
  OBVIOUS
<1>3. UNCHANGED <<FifoItems, FifoGiven>>
  BY <1>1, <1>2, QuietStep
<1> QED BY <1>3 DEF FifoStep

\* Every step of pop of an MPMC queue is a step of the FIFO or none.
LEMMA MpmcFifo ==
    ASSUME Capacity >= 2, RingInv, RingInv', NEW c \in Consumers, kind = "mpmc", Mpmc!PopStep(c),
           UNCHANGED kind
    PROVE  FifoStep
<1> USE DEF Mpmc!Goto, Mpmc!slotVars
<1>1. ASSUME Mpmc!PopBegin(c) \/ Mpmc!PopReadSequence(c) \/ Mpmc!PopReload(c)
             \/ (Mpmc!PopClaim(c) /\ pc'[c] = "popSeq")
      PROVE FifoStep
  <2>1. /\ UNCHANGED <<head, tail, element, msg, out, kind>>
        /\ \A u \in Threads : u # c => pc'[u] = pc[u] /\ pos'[u] = pos[u]
        /\ pc[c] \in {"idle", "popSeq", "popReload", "popCas"}
        /\ pc'[c] \in {"idle", "popSeq", "popReload", "popCas"}
    BY <1>1 DEF RingInv, TypeOK, Mpmc!PopBegin, Mpmc!PopReadSequence, Mpmc!PopReload, Mpmc!PopClaim, Threads
  <2> QED BY <2>1, PopLocalFifo
<1>2. CASE Mpmc!PopClaim(c) /\ pc'[c] # "popSeq"
  <2>1. /\ TakesHead(c) /\ head' = pos[c] + 1
        /\ UNCHANGED <<tail, slotVars, pos, msg, out, calls, kind>>
    BY <1>2 DEF RingInv, TypeOK, Mpmc!PopClaim, TakesHead, Threads, slotVars
  <2> QED BY <2>1, TakeFifo
<1>3. CASE Mpmc!PopMove(c)
  <2>1. MovesOut(c)
    BY <1>3, SameSlot DEF Mpmc!PopMove, MovesOut
  <2> QED BY <2>1, MoveFifo
<1>4. CASE Mpmc!PopRelease(c)
  <2>1. GivesBack(c)
    BY <1>4, SameSlot DEF Mpmc!PopRelease, GivesBack
  <2> QED BY <2>1, ReturnFifo
<1> QED BY <1>1, <1>2, <1>3, <1>4 DEF Mpmc!PopStep

\* Every step of pop of an MPSC queue is a step of the FIFO or none.
LEMMA MpscFifo ==
    ASSUME Capacity >= 2, RingInv, RingInv', kind = "mpsc", Mpsc!PopStep(Owner), UNCHANGED kind
    PROVE  FifoStep
<1> USE DEF Mpsc!Goto, Mpsc!slotVars
<1>0. Owner \in Consumers /\ Owner \in Threads
  BY RingAssumption DEF Threads
<1>1. ASSUME Mpsc!PopBegin(Owner) \/ Mpsc!PopReadSequence(Owner) PROVE FifoStep
  <2>1. /\ UNCHANGED <<head, tail, element, msg, out, kind>>
        /\ \A u \in Threads : u # Owner => pc'[u] = pc[u] /\ pos'[u] = pos[u]
        /\ pc[Owner] \in {"idle", "popSeq"} /\ pc'[Owner] \in {"idle", "popSeq", "move"}
    BY <1>0, <1>1 DEF RingInv, TypeOK, Mpsc!PopBegin, Mpsc!PopReadSequence, Threads
  <2> QED BY <1>0, <2>1, PopLocalFifo
<1>2. CASE Mpsc!PopAdvance(Owner)
  <2>1. /\ TakesHead(Owner) /\ head' = pos[Owner] + 1
        /\ UNCHANGED <<tail, slotVars, pos, msg, out, calls, kind>>
    BY <1>2 DEF Mpsc!PopAdvance, TakesHead, slotVars
  <2> QED BY <1>0, <2>1, TakeFifo
<1>3. CASE Mpsc!PopMove(Owner)
  <2>1. MovesOut(Owner)
    BY <1>3, SameSlot DEF Mpsc!PopMove, MovesOut
  <2> QED BY <1>0, <2>1, MoveFifo
<1>4. CASE Mpsc!PopRelease(Owner)
  <2>1. GivesBack(Owner)
    BY <1>4, SameSlot DEF Mpsc!PopRelease, GivesBack
  <2> QED BY <1>0, <2>1, ReturnFifo
<1> QED BY <1>1, <1>2, <1>3, <1>4 DEF Mpsc!PopStep

\* Both queues implement BoundedFifo: values leave in the order their pushes reserved a
\* slot, each once, none lost or overwritten, and never more than Capacity of them are
\* inside (push and pop of LockFreeMpmcQueue and LockFreeMpscQueue).
THEOREM QueuesAreFifos == ASSUME Capacity >= 2 PROVE Spec => IsBoundedFifo
<1>1. ASSUME QueuesInit PROVE Fifo!FInit
  <2>1. RingInv /\ kind \in {"mpmc", "mpsc"} /\ head = 0 /\ tail = 0
    BY <1>1, InitInv DEF QueuesInit, Init
  <2>2. FifoItems = <<>>
    <3>1. FifoItems \in Seq(Values) /\ Len(FifoItems) = 0
      BY <2>1, FifoTypes DEF FifoShape
    <3> QED BY <3>1, EmptySeq
  <2>3. FifoGiven = [c \in Consumers |-> NoValue]
    <3>1. \A c \in Consumers : pc[c] = "idle" /\ out[c] = NoValue
      BY <1>1 DEF QueuesInit, Init, Threads
    <3> QED BY <3>1 DEF FifoGiven, Taken
  <2> QED BY <2>1, <2>2, <2>3, Mapping DEF Mapped, Fifo!FInit
<1>2. ASSUME RingInv, RingInv', [Next]_<<vars, kind>> PROVE [Fifo!FNext]_(Fifo!fVars)
  <2>1. FifoStep
    <3>1. CASE UNCHANGED <<vars, kind>>
      <4>1. UNCHANGED <<FifoItems, FifoGiven>>
        <5>1. /\ UNCHANGED <<head, tail, kind, element, pc, pos, out>>
              /\ \A i : Item(i)' = Item(i)
          BY <3>1 DEF vars, slotVars, Item, Mpmc!ValueAt, Mpsc!QueuedAt, Mpsc!ValueAt, Mpmc!Slot, Mpsc!Slot
        <5>2. FifoItems' = FifoItems
          BY <1>2, <5>1, ItemsStay
        <5>3. \A c \in Consumers : Taken(c)' = Taken(c)
          BY <5>1 DEF Taken, ElemAt
        <5> QED BY <5>2, <5>3 DEF FifoGiven
      <4> QED BY <4>1 DEF FifoStep
    <3>2. CASE Next
      BY <1>2, <3>2, Steps, PushFifo, MpmcFifo, MpscFifo
    <3> QED BY <1>2, <3>1, <3>2
  <2>3. Mapped
    BY <1>2, Mapping
  <2>4. Mapped'
    BY <1>2, Mapping, PTL
  <2> QED BY <2>1, <2>3, <2>4
          DEF Mapped, FifoStep, FAccept, FTake, FReturn, Fifo!FNext, Fifo!Accept, Fifo!Take, Fifo!Return, Fifo!fVars
<1> QED BY <1>1, <1>2, Invariance, PTL DEF Spec, IsBoundedFifo, Fifo!FSpec

-----------------------------------------------------------------------------
(* The byte ring.  The buffer and the data are any sequences over any set; *)
(* IsByteFifo, which TLC evaluates, is the case of numbered bytes.         *)

\* A ring of N bytes of S as the constructor and the operations leave it.
ByteRings(N, S) ==
    {r \in [buffer : [1 .. N -> S], head : 0 .. N - 1, tail : 0 .. N - 1, count : 0 .. N] :
        r.head = (r.tail + r.count) % N}

\* The i-th of the bytes that a buffer holds from a position on.
ByteAt(N, buffer, from, i) == buffer[((from + i - 1) % N) + 1]

\* Up to two laps a remainder is the number itself or the number less one lap.
LEMMA TwoLaps ==
    ASSUME NEW N \in Nat, N > 0, NEW a \in Nat, a < 2 * N
    PROVE  a % N = IF a < N THEN a ELSE a - N
<1>1. CASE a < N
  BY <1>1, SmallMod
<1>2. CASE ~(a < N)
  <2>1. a - N \in Nat /\ a - N < N /\ a = (a - N) + N
    BY <1>2
  <2>2. (a - N) % N = a - N
    BY <2>1, SmallMod
  <2>3. ((a - N) + N) % N = (a - N) % N
    BY <2>1, ModLap
  <2> QED BY <1>2, <2>1, <2>2, <2>3
<1> QED BY <1>1, <1>2

\* The smaller of two numbers.
LEMMA MinOfTwo ==
    ASSUME NEW a \in Int, NEW b \in Int
    PROVE  Bytes!Min({a, b}) = IF a <= b THEN a ELSE b
<1> DEFINE m == IF a <= b THEN a ELSE b
<1>1. m \in {a, b} /\ \A y \in {a, b} : m <= y
  OBVIOUS
<1>2. \A x \in {a, b} : (\A y \in {a, b} : x <= y) => x = m
  OBVIOUS
<1> QED BY <1>1, <1>2 DEF Bytes!Min

\* A function on 1 .. N is a sequence of N elements.
LEMMA Buffer ==
    ASSUME NEW N \in Nat, NEW S, NEW f \in [1 .. N -> S]
    PROVE  f \in Seq(S) /\ Len(f) = N /\ DOMAIN f = 1 .. N
<1>1. f \in Seq(S)
  BY SeqDef
<1> QED BY <1>1, LenProperties

\* What a ring of N bytes holds.
LEMMA ContentsOf ==
    ASSUME NEW N \in Nat, N > 0, NEW S, NEW r \in ByteRings(N, S)
    PROVE  /\ Bytes!Size(r) = N
           /\ Bytes!FreeSpace(r) = N - r.count
           /\ Bytes!Contents(r) \in Seq(S)
           /\ Len(Bytes!Contents(r)) = r.count
           /\ \A i \in 1 .. r.count : Bytes!Contents(r)[i] = ByteAt(N, r.buffer, r.tail, i)
<1>1. r.buffer \in [1 .. N -> S] /\ r.tail \in 0 .. N - 1 /\ r.count \in 0 .. N
  BY DEF ByteRings
<1>2. Bytes!Size(r) = N
  BY <1>1, Buffer DEF Bytes!Size
<1>3. Bytes!Contents(r) = [i \in 1 .. r.count |-> ByteAt(N, r.buffer, r.tail, i)]
  BY <1>2 DEF Bytes!Contents, ByteAt
<1>4. \A i \in 1 .. r.count : ByteAt(N, r.buffer, r.tail, i) \in S
  <2> TAKE i \in 1 .. r.count
  <2>1. r.tail + i - 1 \in Nat
    BY <1>1
  <2>2. (r.tail + i - 1) % N \in 0 .. N - 1
    BY <2>1, DivMod
  <2> QED BY <1>1, <2>2 DEF ByteAt
<1>5. Bytes!Contents(r) \in [1 .. r.count -> S] /\ r.count \in Nat
  BY <1>1, <1>3, <1>4
<1>6. Bytes!Contents(r) \in Seq(S) /\ Len(Bytes!Contents(r)) = r.count
  BY <1>5, Buffer
<1> QED BY <1>2, <1>3, <1>6 DEF Bytes!FreeSpace

\* The second chunk of a push ends before the first one begins.
LEMMA ChunksApart ==
    ASSUME NEW N \in Nat, NEW at \in 0 .. N - 1, NEW n \in Nat, n <= N, NEW i \in 1 .. N,
           i + N <= at + n
    PROVE  ~(at < i)
  OBVIOUS

\* c is the buffer b with the n bytes of data at at, around the ring: byte j of it at
\* at + j - 1, and no other byte changed.
Written(N, S, b, at, data, n, c) ==
    /\ c \in [1 .. N -> S]
    /\ \A i \in 1 .. N :
          c[i] = IF at < i /\ i <= at + n THEN data[i - at]
                 ELSE IF i + N <= at + n THEN data[i + N - at]
                 ELSE b[i]

\* The two chunks of a push write the data around the ring.
LEMMA TwoChunks ==
    ASSUME NEW N \in Nat, N > 0, NEW S, NEW b \in [1 .. N -> S], NEW at \in 0 .. N - 1,
           NEW data \in Seq(S), NEW n \in Nat, n = Len(data), n <= N,
           NEW first \in Int, first = Bytes!Min({n, N - at}),
           NEW b1, b1 = Bytes!Copied(b, at, data, 0, first),
           NEW c, c = Bytes!Copied(b1, 0, data, first, n - first)
    PROVE  Written(N, S, b, at, data, n, c)
<1>1. n \in Nat /\ first = IF n <= N - at THEN n ELSE N - at
  BY MinOfTwo, LenProperties
<1>2. \A j \in 1 .. n : data[j] \in S
  BY ElementOfSeq
<1>3. b1 = [i \in 1 .. N |-> IF i - 1 \in at .. (at + first - 1) THEN data[i - at + 0] ELSE b[i]]
  BY Buffer DEF Bytes!Copied
<1>4. DOMAIN b1 = 1 .. N
  BY <1>3
<1>5. c = [i \in 1 .. N |-> IF i - 1 \in 0 .. (0 + (n - first) - 1) THEN data[i - 0 + first] ELSE b1[i]]
  BY <1>4 DEF Bytes!Copied
<1>7. ASSUME NEW i \in 1 .. N
      PROVE  /\ c[i] = IF at < i /\ i <= at + n THEN data[i - at]
                       ELSE IF i + N <= at + n THEN data[i + N - at]
                       ELSE b[i]
             /\ c[i] \in S
  <2>1. b1[i] = IF at < i /\ i <= at + first THEN data[i - at] ELSE b[i]
    <3>1. i - 1 \in at .. (at + first - 1) <=> at < i /\ i <= at + first
      BY <1>1
    <3>2. i - at + 0 = i - at
      OBVIOUS
    <3> QED BY <1>3, <3>1, <3>2
  <2>2. c[i] = IF i <= n - first THEN data[i + first] ELSE b1[i]
    <3>1. i - 1 \in 0 .. (0 + (n - first) - 1) <=> i <= n - first
      BY <1>1
    <3>2. i - 0 + first = i + first
      BY <1>1
    <3> QED BY <1>5, <3>1, <3>2
  <2>3. CASE n <= N - at
    <3>1. first = n /\ ~(i <= n - first) /\ ~(i + N <= at + n)
      BY <1>1, <2>3
    <3>2. c[i] = IF at < i /\ i <= at + n THEN data[i - at] ELSE b[i]
      BY <2>1, <2>2, <3>1
    <3>3. at < i /\ i <= at + n => i - at \in 1 .. n
      BY <1>1
    <3> QED BY <3>1, <3>2, <3>3, <1>2
  <2>4. CASE ~(n <= N - at)
    <3>1. first = N - at /\ at + first = N
      BY <1>1, <2>4
    <3>2. (i <= n - first) <=> (i + N <= at + n)
      BY <1>1, <3>1
    <3>3. i + N <= at + n => ~(at < i) /\ i + first = i + N - at
      <4>1. i + N <= at + n => ~(at < i)
        BY <1>1, ChunksApart
      <4>2. i + first = i + N - at
        BY <3>1
      <4> QED BY <4>1, <4>2
    <3>4. at < i => i <= at + first /\ i <= at + n
      BY <1>1, <2>4, <3>1
    <3>5. i + N <= at + n => i + N - at \in 1 .. n
      BY <1>1
    <3>6. at < i /\ i <= at + n => i - at \in 1 .. n
      BY <1>1
    <3>7. CASE i + N <= at + n
      BY <2>2, <3>2, <3>3, <3>5, <3>7, <1>2
    <3>8. CASE ~(i + N <= at + n)
      BY <2>1, <2>2, <3>2, <3>4, <3>6, <3>8, <1>2
    <3> QED BY <3>7, <3>8
  <2> QED BY <2>3, <2>4
<1>8. c \in [1 .. N -> S]
  BY <1>5, <1>7
<1> QED BY <1>7, <1>8 DEF Written

\* Push appends all of the data or refuses it whole, and leaves a ring
\* (RingBuffer::push), whatever the ring, the data and the place where they wrap.
LEMMA PushAppends ==
    ASSUME NEW N \in Nat, N > 0, NEW S, NEW r \in ByteRings(N, S), NEW data \in Seq(S)
    PROVE  LET pushed == Bytes!Push(r, data) IN
           /\ pushed.ring \in ByteRings(N, S)
           /\ Bytes!Contents(pushed.ring) =
                IF Len(data) <= Bytes!FreeSpace(r) THEN Bytes!Contents(r) \o data ELSE Bytes!Contents(r)
           /\ pushed.result = "Ok" <=> Len(data) \in 1 .. Bytes!FreeSpace(r)
<1>0. PICK buf \in [1 .. N -> S], hd \in 0 .. N - 1, tl \in 0 .. N - 1, cnt \in 0 .. N :
         r = [buffer |-> buf, head |-> hd, tail |-> tl, count |-> cnt] /\ hd = (tl + cnt) % N
  BY DEF ByteRings
<1>r. /\ r = [buffer |-> buf, head |-> hd, tail |-> tl, count |-> cnt]
      /\ r.buffer = buf /\ r.head = hd /\ r.tail = tl /\ r.count = cnt
  BY <1>0
<1>1. tl \in 0 .. N - 1 /\ hd \in 0 .. N - 1 /\ cnt \in 0 .. N /\ hd = (tl + cnt) % N
  BY <1>0
<1> DEFINE n == Len(data)
<1> DEFINE pushed == Bytes!Push(r, data)
<1> DEFINE first == Bytes!Min({n, N - hd})
<1> DEFINE c == Bytes!Copied(Bytes!Copied(buf, hd, data, 0, first), 0, data, first, n - first)
<1>2. n \in Nat
  BY LenProperties
<1>3. Bytes!Size(r) = N /\ Bytes!FreeSpace(r) = N - cnt
  BY <1>r, ContentsOf
<1>4. CASE n = 0
  <2>1. data = <<>>
    BY <1>4, EmptySeq
  <2>2. pushed = [ring |-> r, result |-> "InvalidArg"]
    BY <1>4 DEF Bytes!Push
  <2>3. Bytes!Contents(r) \in Seq(S)
    BY <1>r, ContentsOf
  <2>4. Bytes!Contents(r) \o data = Bytes!Contents(r)
    BY <2>1, <2>3, ConcatEmptySeq
  <2>5. pushed.ring = r /\ pushed.result # "Ok"
    BY <2>2
  <2> QED BY <1>4, <2>4, <2>5
<1>5. CASE n # 0 /\ n > N - cnt
  <2>1. pushed = [ring |-> r, result |-> "Fail"]
    BY <1>3, <1>5 DEF Bytes!Push
  <2>2. pushed.ring = r /\ pushed.result # "Ok"
    BY <2>1
  <2>3. ~(n <= N - cnt)
    BY <1>1, <1>2, <1>5
  <2>4. ~(n \in 1 .. (N - cnt))
    BY <1>1, <1>2, <2>3
  <2> QED BY <1>3, <2>2, <2>3, <2>4
<1>6. CASE n # 0 /\ ~(n > N - cnt)
  <2>1. n \in 1 .. (N - cnt) /\ n <= N - cnt /\ n <= N
    BY <1>1, <1>2, <1>6
  <2>h. PICK h : h = (hd + n) % N
    OBVIOUS
  <2>2. pushed = [ring |-> [r EXCEPT !.buffer = c, !.head = h, !.count = cnt + n], result |-> "Ok"]
    <3>1. n # 0 /\ ~(n > Bytes!FreeSpace(r))
      BY <1>3, <1>6
    <3>2. first = Bytes!Min({n, Bytes!Size(r) - hd}) /\ h = (hd + n) % Bytes!Size(r)
      BY <1>3, <1>r, <2>h
    <3> HIDE DEF first
    <3> QED BY <1>r, <3>1, <3>2 DEF Bytes!Push
  <2>3. /\ c \in [1 .. N -> S]
        /\ \A i \in 1 .. N :
              c[i] = IF hd < i /\ i <= hd + n THEN data[i - hd]
                     ELSE IF i + N <= hd + n THEN data[i + N - hd]
                     ELSE buf[i]
    <3>m. PICK m : m = n
      OBVIOUS
    <3>f. PICK f : f = first
      OBVIOUS
    <3> PICK b1 : b1 = Bytes!Copied(buf, hd, data, 0, f)
      OBVIOUS
    <3> PICK b2 : b2 = Bytes!Copied(b1, 0, data, f, m - f)
      OBVIOUS
    <3>1. m = Len(data) /\ m \in Nat /\ m <= N /\ f = Bytes!Min({m, N - hd})
      BY <1>2, <2>1, <3>m, <3>f
    <3>4. f \in Int
      BY <1>1, <3>1, MinOfTwo
    <3>2. b2 = c /\ m = n
      BY <3>m, <3>f
    <3> HIDE DEF first, c, n
    <3>3. Written(N, S, buf, hd, data, m, b2)
      BY <3>1, <3>4, TwoChunks
    <3> QED BY <3>2, <3>3 DEF Written
  <2> HIDE DEF first, c, n, pushed
  <2>q. PICK q : q = pushed.ring
    OBVIOUS
  <2>4. q = [buffer |-> c, head |-> h, tail |-> tl, count |-> cnt + n] /\ pushed.result = "Ok"
    BY <1>r, <2>2, <2>q
  <2>5. q.buffer = c /\ q.head = h /\ q.tail = tl /\ q.count = cnt + n
    BY <2>4
  <2>6. hd = IF tl + cnt < N THEN tl + cnt ELSE tl + cnt - N
    BY <1>1, TwoLaps
  <2>filled. PICK filled : filled = cnt + n
    OBVIOUS
  <2>7. h = (tl + filled) % N /\ h \in 0 .. N - 1
    <3>1. h = IF hd + n < N THEN hd + n ELSE hd + n - N
      BY <1>1, <1>2, <2>1, <2>h, TwoLaps
    <3>2. tl + filled \in Nat /\ tl + filled < 2 * N /\ filled = cnt + n /\ filled \in Nat
      BY <1>1, <1>2, <2>1, <2>filled
    <3>3. (tl + filled) % N = IF tl + filled < N THEN tl + filled ELSE tl + filled - N
      <4>1. PICK w : w = tl + filled
        OBVIOUS
      <4>2. w \in Nat /\ w < 2 * N
        BY <3>2, <4>1
      <4>3. w % N = IF w < N THEN w ELSE w - N
        BY <4>2, TwoLaps
      <4> QED BY <3>2, <4>1, <4>3
    <3> QED BY <1>1, <1>2, <2>1, <2>6, <3>1, <3>2, <3>3
  <2>8. q \in ByteRings(N, S)
    <3>1. q.count \in 0 .. N
      BY <1>1, <1>2, <2>1, <2>5
    <3>2. q \in [buffer : [1 .. N -> S], head : 0 .. N - 1, tail : 0 .. N - 1, count : 0 .. N]
      BY <1>1, <2>3, <2>4, <2>5, <2>7, <3>1
    <3> QED BY <2>5, <2>7, <2>filled, <3>2 DEF ByteRings
  <2>old. PICK old : old = Bytes!Contents(r)
    OBVIOUS
  <2>new. PICK new : new = Bytes!Contents(q)
    OBVIOUS
  <2>9. /\ old \in Seq(S) /\ Len(old) = cnt
        /\ \A i \in 1 .. cnt : old[i] = ByteAt(N, buf, tl, i)
    BY <1>r, <2>old, ContentsOf
  <2>10. /\ new \in Seq(S) /\ Len(new) = cnt + n
         /\ \A i \in 1 .. (cnt + n) : new[i] = ByteAt(N, c, tl, i)
    BY <2>5, <2>8, <2>new, ContentsOf
  <2>11. /\ old \o data \in Seq(S) /\ Len(old \o data) = cnt + n
         /\ \A i \in 1 .. (cnt + n) :
               (old \o data)[i] = IF i <= cnt THEN old[i] ELSE data[i - cnt]
    BY <2>9, ConcatProperties DEF n
  <2>12. ASSUME NEW i \in 1 .. (cnt + n) PROVE new[i] = (old \o data)[i]
    <3>k. PICK k : k = ((tl + i - 1) % N) + 1
      OBVIOUS
    <3>1. tl + i - 1 \in Nat /\ tl + i - 1 < 2 * N /\ i \in Nat /\ i >= 1 /\ i <= cnt + n
      BY <1>1, <1>2, <2>1
    <3>2. (tl + i - 1) % N = IF tl + i - 1 < N THEN tl + i - 1 ELSE tl + i - 1 - N
      BY <3>1, TwoLaps
    <3>3. k = (IF tl + i - 1 < N THEN tl + i ELSE tl + i - N) /\ k \in 1 .. N
      BY <1>1, <3>1, <3>2, <3>k
    <3>4. new[i] = c[k]
      BY <2>10, <3>k DEF ByteAt
    <3>5. CASE i <= cnt
      <4>1. ~(hd < k /\ k <= hd + n) /\ ~(k + N <= hd + n)
        BY <1>1, <1>2, <2>1, <2>6, <3>1, <3>3, <3>5
      <4>2. c[k] = buf[k]
        BY <2>3, <3>3, <4>1
      <4>3. old[i] = buf[k]
        BY <2>9, <3>1, <3>5, <3>k DEF ByteAt
      <4> QED BY <2>11, <3>4, <3>5, <4>2, <4>3
    <3>6. CASE ~(i <= cnt)
      <4>1. CASE hd < k
        <5>1. k <= hd + n /\ k - hd = i - cnt
          BY <1>1, <1>2, <2>1, <2>6, <3>1, <3>3, <3>6, <4>1
        <5> QED BY <2>3, <2>11, <3>3, <3>4, <3>6, <4>1, <5>1
      <4>2. CASE ~(hd < k)
        <5>1. k + N <= hd + n /\ k + N - hd = i - cnt
          BY <1>1, <1>2, <2>1, <2>6, <3>1, <3>3, <3>6, <4>2
        <5> QED BY <2>3, <2>11, <3>3, <3>4, <3>6, <4>2, <5>1
      <4> QED BY <4>1, <4>2
    <3> QED BY <3>5, <3>6
  <2>13. new = old \o data
    BY <2>10, <2>11, <2>12, SeqEqual
  <2> QED BY <1>3, <2>1, <2>4, <2>8, <2>13, <2>q, <2>old, <2>new DEF n, pushed
<1> QED BY <1>r, <1>1, <1>4, <1>5, <1>6

\* popped is what a pop of n bytes makes of the ring r: the oldest bytes in order, as many
\* as were asked for, or none.
TakesOldest(N, S, r, n, popped) ==
    /\ popped.ring \in ByteRings(N, S)
    /\ popped.out \in Seq(S)
    /\ popped.out \o Bytes!Contents(popped.ring) = Bytes!Contents(r)
    /\ popped.result = "Ok" <=> n \in 1 .. r.count
    /\ Len(popped.out) = IF n <= r.count THEN n ELSE 0

\* Pop takes the oldest bytes in order or none, and leaves a ring (RingBuffer::pop),
\* whatever the ring and the place where the bytes wrap.
LEMMA PopTakesOldest ==
    ASSUME NEW N \in Nat, N > 0, NEW S, NEW r \in ByteRings(N, S), NEW n \in Nat
    PROVE  TakesOldest(N, S, r, n, Bytes!Pop(r, n))
<1>0. PICK buf \in [1 .. N -> S], hd \in 0 .. N - 1, tl \in 0 .. N - 1, cnt \in 0 .. N :
         r = [buffer |-> buf, head |-> hd, tail |-> tl, count |-> cnt] /\ hd = (tl + cnt) % N
  BY DEF ByteRings
<1>r. /\ r = [buffer |-> buf, head |-> hd, tail |-> tl, count |-> cnt]
      /\ r.buffer = buf /\ r.head = hd /\ r.tail = tl /\ r.count = cnt
  BY <1>0
<1>1. tl \in 0 .. N - 1 /\ hd \in 0 .. N - 1 /\ cnt \in 0 .. N /\ hd = (tl + cnt) % N
  BY <1>0
<1> DEFINE popped == Bytes!Pop(r, n)
<1> DEFINE first == Bytes!Min({n, N - tl})
<1> DEFINE a == SubSeq(buf, tl + 1, tl + first)
<1> DEFINE b == SubSeq(buf, 1, n - first)
<1>2. Bytes!Size(r) = N /\ Bytes!Contents(r) \in Seq(S)
  BY <1>r, ContentsOf
<1>3. ASSUME popped.ring = r, popped.out = <<>> PROVE
         popped.out \in Seq(S) /\ popped.out \o Bytes!Contents(popped.ring) = Bytes!Contents(r) /\ Len(popped.out) = 0
  BY <1>2, <1>3, ConcatEmptySeq, EmptySeq
<1>4. CASE n = 0
  <2>1. popped = [ring |-> r, out |-> <<>>, result |-> "InvalidArg"]
    BY <1>4 DEF Bytes!Pop
  <2>2. popped.ring = r /\ popped.out = <<>> /\ popped.result # "Ok"
    BY <2>1
  <2>3. ~(n \in 1 .. cnt) /\ n <= cnt
    BY <1>1, <1>4
  <2> QED BY <1>r, <1>3, <1>4, <2>2, <2>3 DEF TakesOldest
<1>5. CASE n # 0 /\ n > cnt
  <2>1. popped = [ring |-> r, out |-> <<>>, result |-> "Fail"]
    BY <1>r, <1>5 DEF Bytes!Pop
  <2>2. popped.ring = r /\ popped.out = <<>> /\ popped.result # "Ok"
    BY <2>1
  <2>3. ~(n \in 1 .. cnt) /\ ~(n <= cnt)
    BY <1>1, <1>5
  <2> QED BY <1>r, <1>3, <2>2, <2>3 DEF TakesOldest
<1>6. CASE n # 0 /\ ~(n > cnt)
  <2>left. PICK left : left = cnt - n
    OBVIOUS
  <2>1. n \in 1 .. cnt /\ n <= cnt /\ left = cnt - n /\ left \in Nat
    BY <1>1, <1>6, <2>left
  <2>t. PICK t : t = (tl + n) % N
    OBVIOUS
  <2>2. popped = [ring |-> [r EXCEPT !.tail = t, !.count = left], out |-> a \o b, result |-> "Ok"]
    <3>2. first = Bytes!Min({n, Bytes!Size(r) - tl}) /\ t = (tl + n) % Bytes!Size(r)
      BY <1>2, <1>r, <2>t
    <3> HIDE DEF first
    <3> QED BY <1>r, <1>6, <2>left, <3>2 DEF Bytes!Pop
  <2>3. first = IF n <= N - tl THEN n ELSE N - tl
    BY <1>1, MinOfTwo
  <2> HIDE DEF first, popped, a, b
  <2>5. first \in 1 .. n /\ tl + first <= N /\ n - first <= N /\ first \in Nat
    BY <1>1, <2>1, <2>3
  <2>6. /\ a \in Seq(S) /\ Len(a) = first
        /\ \A i \in 1 .. first : a[i] = buf[tl + i]
    <3>1. \A i \in tl + 1 .. tl + first : buf[i] \in S
      BY <1>1, <2>5
    <3>2. /\ a \in Seq(S)
          /\ Len(a) = IF tl + 1 <= tl + first THEN (tl + first) - (tl + 1) + 1 ELSE 0
          /\ \A i \in 1 .. (tl + first) - (tl + 1) + 1 : a[i] = buf[(tl + 1) + i - 1]
      <4> PICK lo : lo = tl + 1
        OBVIOUS
      <4> PICK hi : hi = tl + first
        OBVIOUS
      <4>1. lo \in Int /\ hi \in Int /\ a = SubSeq(buf, lo, hi) /\ \A i \in lo .. hi : buf[i] \in S
        BY <1>1, <2>5, <3>1 DEF a
      <4>2. /\ a \in Seq(S)
            /\ Len(a) = IF lo <= hi THEN hi - lo + 1 ELSE 0
            /\ \A i \in 1 .. hi - lo + 1 : a[i] = buf[lo + i - 1]
        BY <4>1, SubSeqProperties
      <4> QED BY <4>2
    <3>3. (tl + first) - (tl + 1) + 1 = first /\ tl + 1 <= tl + first
      BY <1>1, <2>5
    <3>4. ASSUME NEW i \in 1 .. first PROVE (tl + 1) + i - 1 = tl + i
      BY <1>1
    <3> QED BY <3>2, <3>3, <3>4
  <2>7. /\ b \in Seq(S) /\ Len(b) = n - first
        /\ \A i \in 1 .. n - first : b[i] = buf[i]
    <3>1. \A i \in 1 .. n - first : buf[i] \in S
      BY <1>1, <2>5
    <3>2. /\ b \in Seq(S)
          /\ Len(b) = IF 1 <= n - first THEN (n - first) - 1 + 1 ELSE 0
          /\ \A i \in 1 .. (n - first) - 1 + 1 : b[i] = buf[1 + i - 1]
      <4> PICK hi : hi = n - first
        OBVIOUS
      <4>1. hi \in Int /\ b = SubSeq(buf, 1, hi) /\ \A i \in 1 .. hi : buf[i] \in S
        BY <1>1, <2>5, <3>1 DEF b
      <4>2. /\ b \in Seq(S)
            /\ Len(b) = IF 1 <= hi THEN hi - 1 + 1 ELSE 0
            /\ \A i \in 1 .. hi - 1 + 1 : b[i] = buf[1 + i - 1]
        BY <4>1, SubSeqProperties
      <4> QED BY <4>2
    <3>3. (n - first) - 1 + 1 = n - first /\ (~(1 <= n - first) => n - first = 0)
      BY <2>5
    <3>4. ASSUME NEW i \in 1 .. n - first PROVE 1 + i - 1 = i
      OBVIOUS
    <3> QED BY <3>2, <3>3, <3>4
  <2>taken. PICK taken : taken = a \o b
    OBVIOUS
  <2>8. /\ taken \in Seq(S) /\ Len(taken) = n
        /\ \A i \in 1 .. n : taken[i] = IF i <= first THEN buf[tl + i] ELSE buf[i - first]
    <3>1. /\ taken \in Seq(S) /\ Len(taken) = first + (n - first)
          /\ \A i \in 1 .. first + (n - first) : taken[i] = IF i <= first THEN a[i] ELSE b[i - first]
      <4>1. /\ taken \in Seq(S) /\ Len(taken) = Len(a) + Len(b)
            /\ \A i \in 1 .. Len(a) + Len(b) : taken[i] = IF i <= Len(a) THEN a[i] ELSE b[i - Len(a)]
        BY <2>6, <2>7, <2>taken, ConcatProperties
      <4> QED BY <2>6, <2>7, <4>1
    <3>2. first + (n - first) = n
      BY <2>5
    <3>3. ASSUME NEW i \in 1 .. n
          PROVE  (i <= first => i \in 1 .. first) /\ (~(i <= first) => i - first \in 1 .. n - first)
      BY <2>5
    <3> QED BY <2>6, <2>7, <3>1, <3>2, <3>3
  <2>q. PICK q : q = popped.ring
    OBVIOUS
  <2>9. q = [buffer |-> buf, head |-> hd, tail |-> t, count |-> left] /\ popped.out = taken /\ popped.result = "Ok"
    BY <1>r, <2>2, <2>q, <2>taken
  <2>10. q.buffer = buf /\ q.head = hd /\ q.tail = t /\ q.count = left
    BY <2>9
  <2>11. t = IF tl + n < N THEN tl + n ELSE tl + n - N
    BY <1>1, <2>1, <2>t, TwoLaps
  <2>12. t \in 0 .. N - 1 /\ left \in 0 .. N
    BY <1>1, <2>1, <2>11
  <2>13. hd = (t + left) % N
    <3>1. hd = IF tl + cnt < N THEN tl + cnt ELSE tl + cnt - N
      BY <1>1, TwoLaps
    <3>2. t + left \in Nat /\ t + left < 2 * N
      BY <1>1, <2>1, <2>12
    <3>3. (t + left) % N = IF t + left < N THEN t + left ELSE t + left - N
      BY <2>1, <2>12, <3>2, TwoLaps
    <3> QED BY <1>1, <2>1, <2>11, <3>1, <3>2, <3>3
  <2>14. q \in ByteRings(N, S)
    <3>1. q \in [buffer : [1 .. N -> S], head : 0 .. N - 1, tail : 0 .. N - 1, count : 0 .. N]
      BY <1>1, <2>9, <2>12
    <3> QED BY <2>10, <2>13, <3>1 DEF ByteRings
  <2>old. PICK old : old = Bytes!Contents(r)
    OBVIOUS
  <2>new. PICK new : new = Bytes!Contents(q)
    OBVIOUS
  <2>15. /\ old \in Seq(S) /\ Len(old) = cnt
         /\ \A i \in 1 .. cnt : old[i] = ByteAt(N, buf, tl, i)
    BY <1>r, <2>old, ContentsOf
  <2>16. /\ new \in Seq(S) /\ Len(new) = left
         /\ \A i \in 1 .. left : new[i] = ByteAt(N, buf, t, i)
    BY <2>10, <2>14, <2>new, ContentsOf
  <2>17. /\ taken \o new \in Seq(S) /\ Len(taken \o new) = cnt
         /\ \A i \in 1 .. cnt : (taken \o new)[i] = IF i <= n THEN taken[i] ELSE new[i - n]
    <3>1. /\ taken \o new \in Seq(S) /\ Len(taken \o new) = n + left
          /\ \A i \in 1 .. n + left : (taken \o new)[i] = IF i <= n THEN taken[i] ELSE new[i - n]
      BY <2>8, <2>16, ConcatProperties
    <3>2. n + left = cnt
      BY <1>1, <2>1
    <3> QED BY <3>1, <3>2
  <2>18. ASSUME NEW i \in 1 .. cnt PROVE (taken \o new)[i] = old[i]
    <3>k. PICK k : k = ((tl + i - 1) % N) + 1
      OBVIOUS
    <3>1. tl + i - 1 \in Nat /\ tl + i - 1 < 2 * N /\ i \in Nat /\ i >= 1 /\ i <= cnt
      BY <1>1
    <3>2. (tl + i - 1) % N = IF tl + i - 1 < N THEN tl + i - 1 ELSE tl + i - 1 - N
      BY <3>1, TwoLaps
    <3>3. k = IF tl + i - 1 < N THEN tl + i ELSE tl + i - N
      BY <1>1, <3>1, <3>2, <3>k
    <3>4. old[i] = buf[k]
      BY <2>15, <3>k DEF ByteAt
    <3>5. CASE i <= n
      <4>1. i \in 1 .. n /\ k = IF i <= first THEN tl + i ELSE i - first
        BY <1>1, <2>1, <2>3, <3>1, <3>3, <3>5
      <4> QED BY <2>8, <2>17, <3>4, <3>5, <4>1
    <3>6. CASE ~(i <= n)
      <4>1. i - n \in 1 .. left
        BY <1>1, <2>1, <3>1, <3>6
      <4>2. t + (i - n) - 1 \in Nat /\ t + (i - n) - 1 < 2 * N
        BY <1>1, <2>12, <4>1
      <4>3. (t + (i - n) - 1) % N = IF t + (i - n) - 1 < N THEN t + (i - n) - 1 ELSE t + (i - n) - 1 - N
        BY <2>12, <3>1, <4>1, <4>2, TwoLaps
      <4>4. ((t + (i - n) - 1) % N) + 1 = k
        BY <1>1, <2>1, <2>11, <3>1, <3>3, <3>6, <4>2, <4>3
      <4>5. new[i - n] = buf[k]
        BY <2>16, <4>1, <4>4 DEF ByteAt
      <4> QED BY <2>17, <3>4, <3>6, <4>5
    <3> QED BY <3>5, <3>6
  <2>19. taken \o new = old
    BY <2>15, <2>17, <2>18, SeqEqual
  <2> QED BY <1>r, <2>1, <2>8, <2>9, <2>14, <2>19, <2>q, <2>old, <2>new DEF popped, TakesOldest
<1> QED BY <1>r, <1>1, <1>4, <1>5, <1>6

\* A reset ring is empty, so a push and a pop of as many bytes return what went in
\* (RingBuffer::reset).
LEMMA ResetReturns ==
    ASSUME NEW N \in Nat, N > 0, NEW S, NEW r \in ByteRings(N, S), NEW data \in Seq(S), Len(data) <= N
    PROVE  /\ Bytes!Reset(r) \in ByteRings(N, S)
           /\ Len(data) >= 1 => Bytes!Pop(Bytes!Push(Bytes!Reset(r), data).ring, Len(data)).out = data
<1>e. PICK e : e = Bytes!Reset(r)
  OBVIOUS
<1>1. e \in ByteRings(N, S) /\ e.count = 0
  <2>1. PICK buf \in [1 .. N -> S], hd \in 0 .. N - 1, tl \in 0 .. N - 1, cnt \in 0 .. N :
           r = [buffer |-> buf, head |-> hd, tail |-> tl, count |-> cnt]
    BY DEF ByteRings
  <2>2. e = [buffer |-> buf, head |-> 0, tail |-> 0, count |-> 0]
    BY <1>e, <2>1 DEF Bytes!Reset
  <2>3. 0 = (0 + 0) % N
    BY SmallMod
  <2> QED BY <2>2, <2>3 DEF ByteRings
<1>2. Bytes!FreeSpace(e) = N /\ Bytes!Contents(e) \in Seq(S) /\ Len(Bytes!Contents(e)) = 0
  BY <1>1, ContentsOf
<1>3. Bytes!Contents(e) = <<>>
  BY <1>2, EmptySeq
<1>q. PICK q : q = Bytes!Push(e, data).ring
  OBVIOUS
<1>4. q \in ByteRings(N, S) /\ Bytes!Contents(q) = data
  <2>1. q \in ByteRings(N, S) /\ Bytes!Contents(q) = Bytes!Contents(e) \o data
    BY <1>1, <1>2, <1>q, PushAppends
  <2> QED BY <1>3, <2>1, ConcatEmptySeq
<1>5. q.count = Len(data) /\ Len(data) \in Nat
  BY <1>4, ContentsOf, LenProperties
<1>p. PICK p : p = Bytes!Pop(q, Len(data))
  OBVIOUS
<1>6. /\ p.ring \in ByteRings(N, S) /\ p.out \in Seq(S)
      /\ p.out \o Bytes!Contents(p.ring) = data /\ Len(p.out) = Len(data)
  <2>1. TakesOldest(N, S, q, Len(data), p)
    BY <1>4, <1>5, <1>p, PopTakesOldest
  <2> QED BY <1>4, <1>5, <2>1 DEF TakesOldest
<1>7. p.out = data
  <2>1. PICK s \in Seq(S) : s = Bytes!Contents(p.ring)
    BY <1>6, ContentsOf
  <2>2. PICK o \in Seq(S) : o = p.out
    BY <1>6
  <2>3. o \o s = data /\ Len(o) = Len(data)
    BY <1>6, <2>1, <2>2
  <2>4. Len(o \o s) = Len(o) + Len(s) /\ Len(s) \in Nat /\ Len(o) \in Nat
    BY ConcatProperties, LenProperties
  <2>5. Len(s) = 0
    BY <2>3, <2>4
  <2>6. s = <<>>
    BY <2>5, EmptySeq
  <2>7. o \o s = o
    BY <2>6, ConcatEmptySeq
  <2> QED BY <2>2, <2>3, <2>7
<1> QED BY <1>1, <1>e, <1>q, <1>p, <1>7

\* The rings and the data that TLC enumerates are rings and sequences of numbers.
LEMMA NumberedRings ==
    ASSUME NEW cap \in Nat, cap > 0, NEW r \in Bytes!Rings(cap), NEW n \in Nat
    PROVE  /\ r \in ByteRings(cap, Nat)
           /\ Bytes!Data(n) \in Seq(Nat) /\ Len(Bytes!Data(n)) = n
<1>1. PICK t \in 0 .. (cap - 1), k \in 0 .. cap :
        r = [buffer |-> [i \in 1 .. cap |-> 10 * i], tail |-> t, count |-> k, head |-> (t + k) % cap]
  BY DEF Bytes!Rings
<1>2. [i \in 1 .. cap |-> 10 * i] \in [1 .. cap -> Nat]
  OBVIOUS
<1>3. (t + k) % cap \in 0 .. cap - 1
  <2>1. t + k \in Nat
    OBVIOUS
  <2> QED BY <2>1, DivMod
<1>4. r \in ByteRings(cap, Nat)
  BY <1>1, <1>2, <1>3 DEF ByteRings
<1>5. Bytes!Data(n) \in [1 .. n -> Nat]
  BY DEF Bytes!Data
<1> QED BY <1>4, <1>5, Buffer

\* What TLC evaluates for rings of at most four bytes, for every bound.
LEMMA AlwaysByteFifo == ASSUME NEW MaxCapacity \in Nat PROVE Bytes!IsByteFifo(MaxCapacity)
<1> SUFFICES ASSUME NEW cap \in 1 .. MaxCapacity, NEW r \in Bytes!Rings(cap), NEW n \in 0 .. (MaxCapacity + 1)
             PROVE  LET pushed == Bytes!Push(r, Bytes!Data(n))
                        popped == Bytes!Pop(r, n)
                        fresh  == Bytes!Push(Bytes!Reset(r), Bytes!Data(n))
                    IN
                    /\ Bytes!Contents(pushed.ring) =
                         IF n <= Bytes!FreeSpace(r) THEN Bytes!Contents(r) \o Bytes!Data(n) ELSE Bytes!Contents(r)
                    /\ pushed.result = "Ok" <=> n \in 1 .. Bytes!FreeSpace(r)
                    /\ popped.out \o Bytes!Contents(popped.ring) = Bytes!Contents(r)
                    /\ popped.result = "Ok" <=> n \in 1 .. r.count
                    /\ Len(popped.out) = IF n <= r.count THEN n ELSE 0
                    /\ n \in 1 .. cap => Bytes!Pop(fresh.ring, n).out = Bytes!Data(n)
  BY DEF Bytes!IsByteFifo
<1>1. cap \in Nat /\ cap > 0 /\ n \in Nat
  OBVIOUS
<1>d. PICK d : d = Bytes!Data(n)
  OBVIOUS
<1>2. r \in ByteRings(cap, Nat) /\ d \in Seq(Nat) /\ Len(d) = n
  BY <1>1, <1>d, NumberedRings
<1>3. /\ Bytes!Contents(Bytes!Push(r, d).ring) =
           IF n <= Bytes!FreeSpace(r) THEN Bytes!Contents(r) \o d ELSE Bytes!Contents(r)
      /\ Bytes!Push(r, d).result = "Ok" <=> n \in 1 .. Bytes!FreeSpace(r)
  BY <1>1, <1>2, PushAppends
<1>4. /\ Bytes!Pop(r, n).out \o Bytes!Contents(Bytes!Pop(r, n).ring) = Bytes!Contents(r)
      /\ Bytes!Pop(r, n).result = "Ok" <=> n \in 1 .. r.count
      /\ Len(Bytes!Pop(r, n).out) = IF n <= r.count THEN n ELSE 0
  <2>1. TakesOldest(cap, Nat, r, n, Bytes!Pop(r, n))
    BY <1>1, <1>2, PopTakesOldest
  <2> QED BY <2>1 DEF TakesOldest
<1>5. ASSUME n \in 1 .. cap PROVE Bytes!Pop(Bytes!Push(Bytes!Reset(r), d).ring, n).out = d
  <2>1. Len(d) <= cap /\ Len(d) >= 1
    BY <1>1, <1>2, <1>5
  <2> QED BY <1>1, <1>2, <2>1, ResetReturns
<1> QED BY <1>3, <1>4, <1>5, <1>d

\* The byte ring is a FIFO of bytes, for every capacity, every content and every position
\* of head and tail: a push appends the whole data or refuses it whole, a pop takes the
\* oldest bytes in order or none, both leave a ring, and a reset forgets what was there
\* (RingBuffer::push, pop, reset).  So the evaluation that TLC makes holds for every bound.
THEOREM ByteRingFifo ==
    /\ \A N \in Nat \ {0} : \A S : \A r \in ByteRings(N, S) :
          /\ \A data \in Seq(S) :
                LET pushed == Bytes!Push(r, data) IN
                /\ pushed.ring \in ByteRings(N, S)
                /\ Bytes!Contents(pushed.ring) =
                     IF Len(data) <= Bytes!FreeSpace(r) THEN Bytes!Contents(r) \o data ELSE Bytes!Contents(r)
                /\ pushed.result = "Ok" <=> Len(data) \in 1 .. Bytes!FreeSpace(r)
          /\ \A n \in Nat : TakesOldest(N, S, r, n, Bytes!Pop(r, n))
    /\ Spec => []ByteRingIsFifo
<1>1. ASSUME NEW N \in Nat \ {0}, NEW S, NEW r \in ByteRings(N, S)
      PROVE  /\ \A data \in Seq(S) :
                   LET pushed == Bytes!Push(r, data) IN
                   /\ pushed.ring \in ByteRings(N, S)
                   /\ Bytes!Contents(pushed.ring) =
                        IF Len(data) <= Bytes!FreeSpace(r) THEN Bytes!Contents(r) \o data ELSE Bytes!Contents(r)
                   /\ pushed.result = "Ok" <=> Len(data) \in 1 .. Bytes!FreeSpace(r)
             /\ \A n \in Nat : TakesOldest(N, S, r, n, Bytes!Pop(r, n))
  <2>1. N \in Nat /\ N > 0
    BY <1>1
  <2> QED BY <2>1, PushAppends, PopTakesOldest
<1>2. ByteRingIsFifo
  BY AlwaysByteFifo DEF ByteRingIsFifo
<1>3. Spec => []ByteRingIsFifo
  BY <1>2, PTL
<1> QED BY <1>1, <1>3
=============================================================================
