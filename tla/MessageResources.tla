-------------------------- MODULE MessageResources --------------------------
(***************************************************************************)
(* What every thread of the process touches for every message: the pool    *)
(* its payload lives in and the counters it moves.  The two share nothing, *)
(* so a behaviour is one of the pool or one of the counters.               *)
(***************************************************************************)
EXTENDS MessagePool, Metrics

VARIABLE part   \* "pool" or "metrics", fixed in a behaviour

ResourcesInit ==
    /\ PoolInit /\ MetricsInit /\ part \in {"pool", "metrics"}
    /\ part = "pool" => enabled

ResourcesNext ==
    \/ part = "pool" /\ PoolNext /\ UNCHANGED <<part, metricVars>>
    \/ part = "metrics" /\ MetricsNext /\ UNCHANGED <<part, poolVars>>

ResourcesSpec == ResourcesInit /\ [][ResourcesNext]_<<part, poolVars, metricVars>>
=============================================================================
