--------------------------- MODULE MCWorkerProcess ---------------------------
(* The model-checking instance of the worker process.                        *)
EXTENDS WorkerProcess

MCRequests == 1..MaxCalls
MCTools == {"bash", "read"}
MCGatedTool == {"bash"}
=============================================================================
