---------------------------- MODULE MessagePool ----------------------------
(***************************************************************************)
(* Message and the slab allocator behind it: a message too large for its   *)
(* inline buffer lives in a block of defaultMemoryPool().  A block is cut  *)
(* from a slab, handed out in batches by the CentralCache of its size      *)
(* class and kept by the ThreadLocalCache of whatever thread freed it      *)
(* last, which need not be the thread that allocated it.                   *)
(*                                                                         *)
(* A call touches the central cache at most once, under its mutex, and     *)
(* otherwise only the calling thread's cache, so a call is one step; a     *)
(* thread that ends gives its blocks back batch by batch.  MaxSlabs is the *)
(* memory there is: ::operator new throws beyond it.                       *)
(***************************************************************************)
EXTENDS Integers, Sequences, FiniteSets, SequencesExt

CONSTANTS Threads,
          Messages,      \* Message objects: locals, mailbox slots, timer contexts
          Types,         \* payload types: [size, nothrow]
          Table,         \* SizeClass::kTable: [blockSize, batchSize], ascending
          SlabSize,      \* slabSize_
          MaxAllocSize,  \* maxAllocSize_
          MaxBatchSize,  \* ThreadLocalCache::kMaxBatchSize
          InlineSize,    \* Message::kInlineSize
          MaxSlabs       \* memory: slabs per size class

Classes == 1 .. Len(Table)
Total(c) == SlabSize \div Table[c].blockSize

ASSUME PoolAssumption ==
    /\ Table \in Seq([blockSize : Nat \ {0}, batchSize : Nat]) /\ Table # <<>>
    /\ \A c \in Classes : Table[c].batchSize \in 1 .. MaxBatchSize /\ Total(c) \in 1 .. SlabSize
    /\ \A c \in Classes \ {1} : Table[c - 1].blockSize < Table[c].blockSize
    /\ MaxAllocSize \in 0 .. Table[Len(Table)].blockSize
    /\ {SlabSize, MaxBatchSize, MaxSlabs} \subseteq Nat
    /\ Types \subseteq [size : Nat, nothrow : BOOLEAN]

VARIABLES central,  \* per class: slabs_, partialSlabs_, allocatedBlocks_
          cache,    \* poolCaches: per thread and class, its FreeList
          message,  \* mode_, the payload's size, storage_.ptr
          thread,   \* running, draining its caches at its end, or gone
          starved,  \* an allocation has thrown std::bad_alloc
          undefined \* a destructor has freed a pointer that was never initialised

poolVars == <<central, cache, message, thread, starved, undefined>>

NoBlock  == <<>>
LargePtr == <<"large">>
Empty    == [mode |-> "Empty", size |-> 0, ptr |-> NoBlock]

\* SizeClass::index: the first class whose blocks are large enough.
Index(size) ==
    CHOOSE c \in Classes : size <= Table[c].blockSize
                           /\ \A d \in 1 .. c - 1 : size > Table[d].blockSize

InPool(size) == size <= MaxAllocSize

Slabs(c) == DOMAIN central[c].slabs
Blocks   == {b \in Classes \X (1 .. MaxSlabs) \X (1 .. SlabSize) :
                b[2] \in Slabs(b[1]) /\ b[3] <= Total(b[1])}

PoolInit ==
    /\ central = [c \in Classes |-> [slabs |-> <<>>, partial |-> <<>>, allocated |-> 0]]
    /\ cache = [t \in Threads |-> [c \in Classes |-> <<>>]]
    /\ message = [m \in Messages |-> Empty]
    /\ thread = [t \in Threads |-> "running"]
    /\ starved = FALSE /\ undefined = FALSE

-----------------------------------------------------------------------------
(* Slab and CentralCache: operators from one central record to the next    *)

SlabState(c, slab) ==
    IF slab.used = 0 THEN "Empty" ELSE IF slab.used = Total(c) THEN "Full" ELSE "Partial"

\* A block names its class, its slab and its place in it; the list is LIFO, so
\* the block pushed last comes first.
FreshSlab(c, n) ==
    [free |-> [i \in 1 .. Total(c) |-> <<c, n, Total(c) + 1 - i>>], used |-> 0]

\* std::list::remove.
Without(list, n) ==
    FoldLeft(LAMBDA kept, k : IF k = n THEN kept ELSE Append(kept, k), <<>>, list)

\* Seeded fault: a slab that fills up stays on the partial list.
TransitionKeepsFull(partial, before, after, n) ==
    IF before = after THEN partial
    ELSE IF after = "Partial" THEN Append(partial, n)
    ELSE IF after = "Empty" THEN Without(partial, n) ELSE partial

\* transitionState: the partial list holds exactly the slabs that became Partial.
Transition(partial, before, after, n) ==
    LET kept == IF before = "Partial" THEN Without(partial, n) ELSE partial
    IN  IF before = after THEN partial
        ELSE IF after = "Partial" THEN Append(kept, n) ELSE kept

\* Slab::allocateBatch from slab n into acc.out, then transitionState.
TakeFrom(c, acc, n) ==
    LET slab  == acc.cc.slabs[n]
        k     == Min({Len(slab.free), Table[c].batchSize - Len(acc.out)})
        after == [free |-> SubSeq(slab.free, k + 1, Len(slab.free)), used |-> slab.used + k]
    IN  [cc  |-> [acc.cc EXCEPT !.slabs[n] = after,
                      !.partial = Transition(@, SlabState(c, slab), SlabState(c, after), n)],
         out |-> acc.out \o SubSeq(slab.free, 1, k)]

\* fetchBatch, first loop: the partial slabs in turn, until the batch is full.
FromPartial(c) ==
    FoldLeft(LAMBDA acc, n : IF Len(acc.out) < Table[c].batchSize
                             THEN TakeFrom(c, acc, n) ELSE acc,
             [cc |-> central[c], out |-> <<>>],
             central[c].partial)

\* addSlab, then the second loop: one slab either completes the batch or is used
\* up, which ends the loop.
WithNewSlab(c, acc) ==
    LET n == Len(acc.cc.slabs) + 1
    IN  TakeFrom(c, [acc EXCEPT !.cc.slabs = Append(@, FreshSlab(c, n))], n)

MustGrow(c) == Len(FromPartial(c).out) < Table[c].batchSize

FetchBatch(c) ==
    LET got == IF MustGrow(c) THEN WithNewSlab(c, FromPartial(c)) ELSE FromPartial(c)
    IN  [got EXCEPT !.cc.allocated = @ + Len(got.out)]

\* One iteration of returnBatch: findSlab, Slab::deallocate, transitionState.
GiveBack(c, cc, b) ==
    LET slab  == cc.slabs[b[2]]
        after == [free |-> <<b>> \o slab.free, used |-> slab.used - 1]
    IN  [cc EXCEPT !.slabs[b[2]] = after,
                   !.partial = Transition(@, SlabState(c, slab), SlabState(c, after), b[2])]

ReturnBatch(c, cc, blocks) ==
    [FoldLeft(LAMBDA x, b : GiveBack(c, x, b), cc, blocks)
        EXCEPT !.allocated = @ - Len(blocks)]

-----------------------------------------------------------------------------
(* ThreadLocalCache and MemoryPool: what one call does                     *)

\* allocate: from the thread's cache, or by a batch of which the first block is
\* used and the others are pushed one by one.
CanAllocate(t, size) ==
    InPool(size) /\ cache[t][Index(size)] = <<>> /\ MustGrow(Index(size))
        => Len(central[Index(size)].slabs) < MaxSlabs

Allocate(t, size) ==
    LET c   == Index(size)
        got == FetchBatch(c)
    IN  IF ~InPool(size) THEN [ptr |-> LargePtr, central |-> central, cache |-> cache]
        ELSE IF cache[t][c] # <<>>
        THEN [ptr |-> Head(cache[t][c]), central |-> central,
              cache |-> [cache EXCEPT ![t][c] = Tail(@)]]
        ELSE [ptr |-> Head(got.out), central |-> [central EXCEPT ![c] = got.cc],
              cache |-> [cache EXCEPT ![t][c] = Reverse(Tail(got.out))]]

\* addSlab throws in the middle of fetchBatch: what the partial slabs gave is
\* neither counted nor given back.
AllocateFails(t, size) ==
    LET c == Index(size) IN
    /\ InPool(size) /\ cache[t][c] = <<>>
    /\ MustGrow(c) /\ Len(central[c].slabs) = MaxSlabs
    /\ central' = [central EXCEPT ![c] = FromPartial(c).cc]
    /\ starved' = TRUE
    /\ UNCHANGED <<message, thread>>

\* deallocate: onto the thread's cache; one block over a batch sends a batch
\* back.  A cache left over batch-full is never seen between two calls.
Deallocate(t, size, ptr) ==
    LET c    == Index(size)
        list == <<ptr>> \o cache[t][c]
        k    == Table[c].batchSize
    IN
    \/ ptr \in {NoBlock, LargePtr} /\ UNCHANGED <<central, cache>>
    \/ /\ ptr \notin {NoBlock, LargePtr} /\ Len(list) <= k
       /\ cache' = [cache EXCEPT ![t][c] = list]
       /\ UNCHANGED central
    \/ /\ ptr \notin {NoBlock, LargePtr} /\ Len(list) > k
       /\ cache' = [cache EXCEPT ![t][c] = SubSeq(list, k + 1, Len(list))]
       /\ central' = [central EXCEPT ![c] = ReturnBatch(c, @, SubSeq(list, 1, k))]

-----------------------------------------------------------------------------
(* Message                                                                 *)

Inline(ty) == ty.size <= InlineSize /\ ty.nothrow

\* Message::make, into an empty object.
Make(t, m, ty) ==
    /\ thread[t] = "running" /\ message[m] = Empty
    /\ \/ /\ Inline(ty)
          /\ message' = [message EXCEPT ![m] = [mode |-> "Inline", size |-> ty.size, ptr |-> NoBlock]]
          /\ UNCHANGED <<central, cache, starved>>
       \/ /\ ~Inline(ty)
          /\ CanAllocate(t, ty.size)
          /\ LET a == Allocate(t, ty.size) IN
             /\ central' = a.central /\ cache' = a.cache
             /\ message' = [message EXCEPT ![m] =
                               [mode |-> "Pool", size |-> ty.size, ptr |-> a.ptr]]
          /\ UNCHANGED starved
    /\ UNCHANGED <<thread, undefined>>

\* The exception leaves make with mode_ = Pool and ops_ set, so ~Message destroys and
\* deallocates a storage_.ptr that nothing has written: undefined behaviour.  Where it
\* does not crash, the pointer is null or one that an object before it left there; its
\* block goes onto the thread's cache, which is empty, whoever owns it.
MakeFails(t, m, ty) ==
    /\ thread[t] = "running" /\ message[m] = Empty /\ ~Inline(ty)
    /\ AllocateFails(t, ty.size)
    /\ \/ UNCHANGED <<cache, undefined>>
       \/ /\ undefined' = TRUE
          /\ \E b \in Blocks : cache' = [cache EXCEPT ![t][Index(ty.size)] = <<b>>]

\* Message::clone of a copyable payload, into an empty object.
Clone(t, m, n) ==
    /\ thread[t] = "running" /\ message[m] # Empty /\ message[n] = Empty
    /\ \/ /\ message[m].mode = "Inline"
          /\ message' = [message EXCEPT ![n] = message[m]]
          /\ UNCHANGED <<central, cache>>
       \/ /\ message[m].mode = "Pool"
          /\ CanAllocate(t, message[m].size)
          /\ LET a == Allocate(t, message[m].size) IN
             /\ central' = a.central /\ cache' = a.cache
             /\ message' = [message EXCEPT ![n] = [message[m] EXCEPT !.ptr = a.ptr]]
    /\ UNCHANGED <<thread, starved, undefined>>

\* The result's mode_ is set after the allocation: its destructor does nothing.
CloneFails(t, m, n) ==
    /\ thread[t] = "running" /\ message[m].mode = "Pool" /\ message[n] = Empty
    /\ AllocateFails(t, message[m].size)
    /\ UNCHANGED <<cache, undefined>>

\* Move construction and assignment: the old payload is destroyed, the source
\* left empty.
Move(t, m, n) ==
    /\ thread[t] = "running" /\ m # n /\ message[m] # Empty
    /\ Deallocate(t, message[n].size, message[n].ptr)
    /\ message' = [message EXCEPT ![n] = message[m], ![m] = Empty]
    /\ UNCHANGED <<thread, starved, undefined>>

Destroy(t, m) ==
    /\ thread[t] = "running" /\ message[m] # Empty
    /\ Deallocate(t, message[m].size, message[m].ptr)
    /\ message' = [message EXCEPT ![m] = Empty]
    /\ UNCHANGED <<thread, starved, undefined>>

\* ~ThreadLocalCache: drainAll, one returnBatch after another, each of which
\* other threads may come between.
ThreadEnds(t) ==
    /\ thread[t] = "running"
    /\ thread' = [thread EXCEPT ![t] = "draining"]
    /\ UNCHANGED <<central, cache, message, starved, undefined>>

DrainBatch(t, c) ==
    /\ thread[t] = "draining" /\ cache[t][c] # <<>>
    /\ \A d \in 1 .. c - 1 : cache[t][d] = <<>>
    /\ LET k == Min({Len(cache[t][c]), MaxBatchSize}) IN
       /\ central' = [central EXCEPT ![c] = ReturnBatch(c, @, SubSeq(cache[t][c], 1, k))]
       /\ cache' = [cache EXCEPT ![t][c] = SubSeq(@, k + 1, Len(@))]
    /\ UNCHANGED <<message, thread, starved, undefined>>

DrainDone(t) ==
    /\ thread[t] = "draining" /\ \A c \in Classes : cache[t][c] = <<>>
    /\ thread' = [thread EXCEPT ![t] = "gone"]
    /\ UNCHANGED <<central, cache, message, starved, undefined>>

\* Nothing is said of what follows undefined behaviour.
PoolNext ==
    /\ ~undefined
    /\ \E t \in Threads :
        \/ \E m \in Messages, ty \in Types : Make(t, m, ty) \/ MakeFails(t, m, ty)
        \/ \E m, n \in Messages : Clone(t, m, n) \/ CloneFails(t, m, n) \/ Move(t, m, n)
        \/ \E m \in Messages : Destroy(t, m)
        \/ ThreadEnds(t) \/ DrainDone(t) \/ \E c \in Classes : DrainBatch(t, c)

-----------------------------------------------------------------------------
\* How often a block is in its slab's list, in the thread caches and in messages.
Occurs(b, list) == Cardinality({i \in DOMAIN list : list[i] = b})
Places(b) ==
    Occurs(b, central[b[1]].slabs[b[2]].free)
    + Cardinality({at \in Threads \X (1 .. MaxBatchSize) :
                      /\ at[2] <= Len(cache[at[1]][b[1]])
                      /\ cache[at[1]][b[1]][at[2]] = b})
    + Cardinality({m \in Messages : message[m].ptr = b})

\* A block has exactly one owner (its slab, one thread's cache or one message)
\* through batches, moves, clones, frees on other threads and thread ends; an
\* allocation that ran out of memory half way loses blocks, and as long as no failed
\* make has freed an uninitialised pointer none is owned twice
\* (Message::operator=, ThreadLocalCache, CentralCache).
BlockOwnedOnce ==
    \A b \in Blocks : Places(b) <= 1 /\ (~starved => Places(b) = 1)

\* No block is ever owned twice, also after a make that ran out of memory: it throws
\* std::bad_alloc, as ThrowAllocPolicy is documented to, and leaves the pool alone.
\* It does not hold: see the README, `Other differences' (Message::make, ~Message).
NeverOwnedTwice == \A b \in Blocks : Places(b) <= 1

\* partialSlabs_ lists each slab with both free and used blocks, once, and no
\* other: fetchBatch never meets a full slab there and never overlooks a block it
\* could hand out (transitionState).
PartialListExact ==
    \A c \in Classes :
        /\ ToSet(central[c].partial)
              = {n \in Slabs(c) : SlabState(c, central[c].slabs[n]) = "Partial"}
        /\ \A n \in Slabs(c) : Occurs(n, central[c].partial) <= 1

\* allocatedBlocks_, which the metrics report, is the number of blocks outside
\* their slabs as long as memory lasts (fetchBatch, returnBatch).
AllocatedExact ==
    ~starved =>
        \A c \in Classes :
            central[c].allocated
                = Cardinality({b \in Blocks : b[1] = c
                                  /\ Occurs(b, central[c].slabs[b[2]].free) = 0})

\* The allocator's books agree with each other and with the blocks they are about,
\* whichever threads fetch, return, end or fail to clone for want of memory
\* (CentralCache, Slab, ThreadLocalCache, Message).
PoolConsistent == ~undefined => BlockOwnedOnce /\ PartialListExact /\ AllocatedExact
=============================================================================
