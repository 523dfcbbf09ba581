------------------------------ MODULE FrameFifo ------------------------------
(***************************************************************************)
(* What a framed connection promises its two ends: whole frames, each once *)
(* and in order; an end of the stream only after all of them; an error     *)
(* only if the sender stopped inside a frame or the connection was reset,  *)
(* and then the last frames may be lost.  The session modules assume no    *)
(* more of the socket than this.                                           *)
(***************************************************************************)
EXTENDS Naturals, Sequences

CONSTANT Frames           \* the frames a connection can carry

VARIABLES
  sent,                   \* frames sent, each as a whole
  received,               \* frames received
  sender,                 \* "open", "closed" or, inside a frame, "broken"
  lost,                   \* the connection was reset
  receiver                \* "open", "closed" or "failed"

fifoVars == <<sent, received, sender, lost, receiver>>

Init ==
  /\ sent = <<>> /\ received = <<>>
  /\ sender = "open" /\ receiver = "open"
  /\ lost = FALSE

Send(frame) ==
  /\ sender = "open"
  /\ sent' = Append(sent, frame)
  /\ UNCHANGED <<received, sender, lost, receiver>>

Stop ==
  /\ sender = "open"
  /\ sender' \in {"closed", "broken"}
  /\ UNCHANGED <<sent, received, lost, receiver>>

Reset ==
  /\ ~lost
  /\ lost' = TRUE
  /\ IF sender = "open" THEN sender' \in {"closed", "broken"} ELSE UNCHANGED sender
  /\ UNCHANGED <<sent, received, receiver>>

Receive ==
  /\ receiver = "open"
  /\ Len(received) < Len(sent)
  /\ received' = Append(received, sent[Len(received) + 1])
  /\ UNCHANGED <<sent, sender, lost, receiver>>

SeeEnd ==
  /\ receiver = "open"
  /\ received = sent
  /\ \/ sender = "closed" /\ receiver' = "closed"
     \/ sender = "broken" /\ receiver' = "failed"
  /\ UNCHANGED <<sent, received, sender, lost>>

SeeReset ==
  /\ receiver = "open"
  /\ lost
  /\ receiver' = "failed"
  /\ UNCHANGED <<sent, received, sender, lost>>

Next ==
  \/ \E frame \in Frames : Send(frame)
  \/ Stop \/ Reset
  \/ Receive \/ SeeEnd \/ SeeReset

Spec == Init /\ [][Next]_fifoVars
=============================================================================
