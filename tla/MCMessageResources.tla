------------------------- MODULE MCMessageResources -------------------------
(* Three blocks a slab and two a batch, so that a batch may need blocks of  *)
(* two slabs.  A payload is inline, pooled, or too large for the pool.      *)
EXTENDS MessageResources, TLC

OneClass  == <<[blockSize |-> 2, batchSize |-> 2]>>
SomeTypes == {[size |-> 1, nothrow |-> TRUE], [size |-> 1, nothrow |-> FALSE],
              [size |-> 3, nothrow |-> TRUE]}
Symmetry  == Permutations(Threads) \cup Permutations(Messages) \cup Permutations(Senders)
=============================================================================
