-------------------------- MODULE MCWorkerScenarios --------------------------
(* The tests' tools: "mutate" and "other" require approval, "inspect" (also  *)
(* for "backpressure") does not; all are registered.                         *)
EXTENDS WorkerScenarios

MCRequests == 1..MaxCalls
MCTestTools == {"inspect", "mutate", "other"}
MCTestGated == {"mutate", "other"}
=============================================================================
