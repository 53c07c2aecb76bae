-------------------------- MODULE RingBufferSlots --------------------------
(***************************************************************************)
(* The slots of LockFreeMpscQueue and LockFreeMpmcQueue and their push,    *)
(* which is the same in both.  Every atomic load, store and compare-and-   *)
(* swap is a step of its own, and so are the construction and the          *)
(* destruction of an element: `pc' says where a thread is.                 *)
(*                                                                         *)
(* Positions are size_t in the code; no queue lives for 2^64 pushes, so    *)
(* they are naturals here.  A value is the number of the push that         *)
(* brought it.                                                             *)
(***************************************************************************)
EXTENDS Integers, Sequences, FiniteSets

CONSTANTS Producers, Consumers,
          Owner,       \* the one consumer of an MPSC queue
          Capacity,    \* capacity_
          MaxPushes,   \* bound: calls of push in a behaviour
          NoValue      \* raw storage

ASSUME RingAssumption ==
    /\ Producers \cap Consumers = {} /\ Owner \in Consumers
    /\ Capacity \in Nat \ {0}
    /\ MaxPushes \in Nat
    /\ NoValue \notin Nat

Threads == Producers \cup Consumers

Values == 1 .. MaxPushes

VARIABLES head, tail,  \* head_, tail_
          sequence,    \* Slot::sequence
          element,     \* Slot::storage
          pc,          \* where each thread is
          pos,         \* the local `pos' of push or pop
          msg,         \* the argument of push
          out,         \* the result of pop
          calls        \* pushes so far

slotVars == <<sequence, element>>
vars == <<head, tail, slotVars, pc, pos, msg, out, calls>>

Slot(p) == p % Capacity

Goto(t, l) == pc' = [pc EXCEPT ![t] = l]

Init ==
    /\ head = 0 /\ tail = 0
    /\ sequence = [i \in 0 .. Capacity - 1 |-> i]
    /\ element = [i \in 0 .. Capacity - 1 |-> NoValue]
    /\ pc = [t \in Threads |-> "idle"]
    /\ pos = [t \in Threads |-> 0]
    /\ msg = [p \in Producers |-> NoValue]
    /\ out = [c \in Consumers |-> NoValue]
    /\ calls = 0

-----------------------------------------------------------------------------
PushBegin(p) ==
    /\ pc[p] = "idle"
    /\ calls < MaxPushes
    /\ calls' = calls + 1
    /\ msg' = [msg EXCEPT ![p] = calls + 1]
    /\ pos' = [pos EXCEPT ![p] = tail]
    /\ Goto(p, "pushSeq")
    /\ UNCHANGED <<head, tail, slotVars, out>>

\* diff = sequence - pos: reserve at 0, refuse below, reload above.
PushReadSequence(p) ==
    /\ pc[p] = "pushSeq"
    /\ LET diff == sequence[Slot(pos[p])] - pos[p] IN
       \/ diff = 0 /\ Goto(p, "pushCas") /\ UNCHANGED msg
       \/ diff < 0 /\ Goto(p, "idle") /\ msg' = [msg EXCEPT ![p] = NoValue]
       \/ diff > 0 /\ Goto(p, "pushReload") /\ UNCHANGED msg
    /\ UNCHANGED <<head, tail, slotVars, pos, out, calls>>

PushReload(p) ==
    /\ pc[p] = "pushReload"
    /\ pos' = [pos EXCEPT ![p] = tail]
    /\ Goto(p, "pushSeq")
    /\ UNCHANGED <<head, tail, slotVars, msg, out, calls>>

\* compare_exchange_weak: it may also fail without reason.
PushReserve(p) ==
    /\ pc[p] = "pushCas"
    /\ \/ /\ tail = pos[p]
          /\ tail' = pos[p] + 1
          /\ Goto(p, "construct")
          /\ UNCHANGED pos
       \/ /\ pos' = [pos EXCEPT ![p] = tail]
          /\ Goto(p, "pushSeq")
          /\ UNCHANGED tail
    /\ UNCHANGED <<head, slotVars, msg, out, calls>>

PushConstruct(p) ==
    /\ pc[p] = "construct"
    /\ element' = [element EXCEPT ![Slot(pos[p])] = msg[p]]
    /\ Goto(p, "publish")
    /\ UNCHANGED <<head, tail, sequence, pos, msg, out, calls>>

\* Seeded fault: the slot keeps the sequence of a slot to be pushed to.
PushPublishStale(p) ==
    /\ pc[p] = "publish"
    /\ sequence' = [sequence EXCEPT ![Slot(pos[p])] = pos[p]]
    /\ msg' = [msg EXCEPT ![p] = NoValue]
    /\ Goto(p, "idle")
    /\ UNCHANGED <<head, tail, element, pos, out, calls>>

PushPublish(p) ==
    /\ pc[p] = "publish"
    /\ sequence' = [sequence EXCEPT ![Slot(pos[p])] = pos[p] + 1]
    /\ msg' = [msg EXCEPT ![p] = NoValue]
    /\ Goto(p, "idle")
    /\ UNCHANGED <<head, tail, element, pos, out, calls>>

PushStep(p) ==
    \/ PushBegin(p) \/ PushReadSequence(p) \/ PushReload(p) \/ PushReserve(p)
    \/ PushConstruct(p) \/ PushPublish(p)

-----------------------------------------------------------------------------
TypeOK ==
    /\ head \in Nat /\ tail \in Nat
    /\ sequence \in [0 .. Capacity - 1 -> Nat]
    /\ element \in [0 .. Capacity - 1 -> Values \cup {NoValue}]
    /\ pc \in [Threads -> {"idle", "pushSeq", "pushReload", "pushCas", "construct",
                           "publish", "popSeq", "popReload", "popCas", "move",
                           "advance", "release"}]
    /\ pos \in [Threads -> Nat]
    /\ msg \in [Producers -> Values \cup {NoValue}]
    /\ out \in [Consumers -> Values \cup {NoValue}]
    /\ calls \in 0 .. MaxPushes

\* A slot's storage has one user at a time: an element is constructed in raw
\* storage only and moved out of a live element only, and no two threads are
\* at the same slot (the ownership the sequence numbers hand around).
UsesSlot(t) == pc[t] \in {"construct", "publish", "move", "advance", "release"}

SlotOwned ==
    /\ \A p \in Producers : pc[p] = "construct" => element[Slot(pos[p])] = NoValue
    /\ \A c \in Consumers : pc[c] = "move" => element[Slot(pos[c])] # NoValue
    /\ \A s, t \in Threads :
          UsesSlot(s) /\ UsesSlot(t) /\ Slot(pos[s]) = Slot(pos[t]) => s = t

\* push returns false only if the ring is full (reserved slots included) or a
\* pop has taken the element of that very slot and not yet given it back.
RefusedOnlyIfFull ==
    [][\A p \in Producers : pc[p] = "pushSeq" /\ pc'[p] = "idle" =>
          \/ tail - head >= Capacity
          \/ \E c \in Consumers : pc[c] \in {"move", "advance", "release"}
                                  /\ pos[c] = pos[p] - Capacity]_vars

\* pop returns false only if nothing is reserved or the oldest reserved slot
\* is not published yet.
EmptyOnlyIfUnpublished ==
    [][\A c \in Consumers : pc[c] = "popSeq" /\ pc'[c] = "idle" =>
          \/ head = tail
          \/ \E p \in Producers : pc[p] \in {"construct", "publish"} /\ pos[p] = head]_vars

\* The value at position i, wherever it is.
ValueAt(i) ==
    LET holders == {p \in Producers : pc[p] = "construct" /\ pos[p] = i}
    IN  IF holders # {} THEN msg[CHOOSE p \in holders : TRUE] ELSE element[Slot(i)]
=============================================================================
