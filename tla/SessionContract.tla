--------------------------- MODULE SessionContract ---------------------------
(***************************************************************************)
(* What a worker session promises its daemon (docs/internal-ipc.md),       *)
(* without channels, tasks, approvals or deadlines: inputs are taken in    *)
(* the order they were sent and wait behind the running turn, as many as   *)
(* the limit allows; one turn runs at a time, on the history of the turns  *)
(* completed before it; a turn is completed, and then part of the history, *)
(* or abandoned without a trace; an input too many ends the session, and   *)
(* a session that is over takes nothing and starts nothing.                *)
(***************************************************************************)
EXTENDS Naturals, Sequences

CONSTANTS Limit           \* inputs that may wait

VARIABLES
  taken,                  \* inputs 1..taken were taken in
  waiting,                \* those not started, in order
  running,                \* the turn that runs; 0: none
  history,                \* the turns completed
  over                    \* the session has ended

sessionVars == <<taken, waiting, running, history, over>>

Init ==
  /\ taken = 0
  /\ waiting = <<>>
  /\ running = 0
  /\ history = <<>>
  /\ over = FALSE

Accept ==
  /\ ~over /\ Len(waiting) < Limit
  /\ taken' = taken + 1
  /\ waiting' = Append(waiting, taken + 1)
  /\ UNCHANGED <<running, history, over>>

Start ==
  /\ ~over /\ running = 0 /\ waiting # <<>>
  /\ running' = Head(waiting)
  /\ waiting' = Tail(waiting)
  /\ UNCHANGED <<taken, history, over>>

Complete ==
  /\ ~over /\ running # 0
  /\ history' = Append(history, running)
  /\ running' = 0
  /\ UNCHANGED <<taken, waiting, over>>

Abandon ==
  /\ ~over /\ running # 0
  /\ running' = 0
  /\ UNCHANGED <<taken, waiting, history, over>>

\* An input too many, or any other end: what runs is abandoned.
End ==
  /\ ~over
  /\ over' = TRUE
  /\ running' = 0
  /\ \/ taken' = taken
     \/ taken' = taken + 1 /\ Len(waiting) = Limit
  /\ UNCHANGED <<waiting, history>>

Next == Accept \/ Start \/ Complete \/ Abandon \/ End

Spec == Init /\ [][Next]_sessionVars
=============================================================================
