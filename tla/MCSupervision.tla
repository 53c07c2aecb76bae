--------------------------- MODULE MCSupervision ---------------------------
(* Small instances of Supervision.                                         *)
EXTENDS Supervision

EveryStrategy == {"OneForOne", "OneForAll", "None"}

\* One-for-one with nested restarts; one-for-all with restarts that throw, then with a
\* policy change in between, then with everything open() and close() may do.
FourScenarios ==
    { [strategy |-> "OneForOne", maxRestarts |-> 2, faults |-> {"open throws"},
       maxChanges |-> 0, maxSends |-> 3],
      [strategy |-> "OneForAll", maxRestarts |-> 1, faults |-> {"open throws"},
       maxChanges |-> 0, maxSends |-> 3],
      [strategy |-> "OneForAll", maxRestarts |-> 1, faults |-> {"open throws"},
       maxChanges |-> 1, maxSends |-> 2],
      [strategy |-> "OneForAll", maxRestarts |-> 1,
       faults |-> {"open fails", "open throws", "close throws"},
       maxChanges |-> 0, maxSends |-> 3] }
=============================================================================
