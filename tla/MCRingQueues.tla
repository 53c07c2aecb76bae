---------------------------- MODULE MCRingQueues ----------------------------
(* Producers are interchangeable; the owner is not any consumer.           *)
EXTENDS RingQueues, TLC

ProducerSymmetry == Permutations(Producers)
=============================================================================
