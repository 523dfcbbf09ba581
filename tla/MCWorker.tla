------------------------------ MODULE MCWorker ------------------------------
(* Model-checking instances of the worker session.                          *)
EXTENDS WorkerProperties, TLC

MCRequests == 1..MaxCalls
MCTools == {"bash", "read"}
MCGatedTool == {"bash"}
=============================================================================
