----------------------- MODULE MC_LifecycleOrchestrator -----------------------
(* Bounds for model checking LifecycleOrchestrator.                        *)
EXTENDS LifecycleOrchestrator

\* resolveLaunchCandidates may find nothing, one candidate (explicit path
\* or direct mode) or two (driver mode: parusc, then parusd).
MCCandidateCounts == {0, 1, 2}
====
