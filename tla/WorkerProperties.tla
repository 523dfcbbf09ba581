-------------------------- MODULE WorkerProperties --------------------------
(***************************************************************************)
(* What makes a worker session correct.                                    *)
(***************************************************************************)
EXTENDS Worker, FiniteSets

\* Types of the whole session's state, and every channel within its capacity.
TypeOK ==
  /\ MapperTypeOK /\ ApproverTypeOK /\ AgentTypeOK /\ IOTypeOK
  /\ pc \in Awaits
  /\ active \in Turns \cup {0}
  /\ queuedInputs \in Seq(Turns)
  /\ {pendingEvent, terminal} \subseteq WorkerEvent \cup {NoEvent}
  /\ approvalBarrier \in Requests \cup {0}
  /\ messages \in Seq(Turns)
  /\ result \in Results
  /\ received \in Nat
  /\ Len(approvals) <= ApprovalCapacity
  /\ Len(events) <= EventCapacity
  /\ Len(commands) <= CommandCapacity

-----------------------------------------------------------------------------
(* The order of what the peer sees                                         *)

\* What the peer has received, followed by what is on its way to it.
Outward ==
  wire \o IF writer = "running"
            THEN events \o (IF Holding THEN <<pendingEvent>> ELSE <<>>)
            ELSE <<>>

Before(out, i, P(_)) == {j \in 1..(i - 1) : P(out[j])}
OfTurn(e, t) == e.kind \in AgentEventKinds /\ e.turn = t

\* The events of a turn go out in the order the agent sent them, with none
\* missing between two of them and none twice, and turn after turn: no event
\* of a turn follows one of a later turn.  While the turn runs what has not
\* gone out is still in its channel.  The held event, the event channel, the
\* writer and the cancellation of turns all have a part in it.
OutwardInOrder ==
  LET sent(t) == {i \in DOMAIN Outward : OfTurn(Outward[i], t)}
  IN /\ \A t \in Turns : \A i \in sent(t) :
          Outward[i].stamp = Cardinality({j \in sent(t) : j <= i})
     /\ \A t, u \in Turns : t < u => \A i \in sent(t), j \in sent(u) : i < j
     /\ pc = "loop" /\ active # 0 /\ writer = "running"
          => Cardinality(sent(active)) + Len(agentEvents[active]) = emitted[active]

\* needs_approval is a barrier: what the agent sent before it asked is ahead of
\* it, and nothing it sent after is.
ApprovalIsABarrier ==
  \A i \in DOMAIN Outward :
    LET e == Outward[i]
    IN e.kind = "NeedsApproval" =>
         Cardinality(Before(Outward, i, LAMBDA f : OfTurn(f, e.turn)))
           = calls[e.call].after

\* done or crash is announced at most once, is the last event, is the one the
\* session's result calls for, and done counts the messages of the history.
TerminalIsLast ==
  LET out == Outward \o IF terminal = NoEvent THEN <<>> ELSE <<terminal>>
  IN \A i \in DOMAIN out : out[i].kind \in TerminalKinds =>
       /\ i = Len(out)
       /\ pc # "loop"
       /\ IF out[i].kind = "Done"
            THEN result \in {"ok", "writerFailed"} /\ out[i].stamp = Len(messages)
            ELSE result \in {"overflow", "cancelDeadline", "turnFailed"}

\* An event the coordinator holds is never dropped by a cancel, a stop or an
\* overflow: it leaves the coordinator by going to the writer.  Exceptions are
\* a needs_approval, whose request is withdrawn, a writer that is gone or whose
\* deadline expired, and a session whose command stream ended or was refused.
HeldEventIsSent ==
  [][pendingEvent.kind \in AgentEventKinds /\ pendingEvent' # pendingEvent
       => \/ events' = Append(events, pendingEvent)
          \/ pc = "terminal" /\ (writer # "running" \/ Len(events) = EventCapacity)
          \/ pc = "cleanup"]_vars

-----------------------------------------------------------------------------
(* Turns and history                                                       *)

\* Between two commands at most one agent task lives, that of the active turn:
\* a cancelled turn is over before another one starts.
OneTurnAtATime ==
  pc = "loop" => \A t \in Turns : IsLive(t) => t = active

\* The history holds the turns that finished, in the order of their inputs; a
\* turn starts from the whole history, and neither a cancelled nor a failed
\* turn leaves anything in it.
HistoryOfFinishedTurns ==
  /\ \A i \in DOMAIN messages : outcome[messages[i]] = "ok"
  /\ \A i, j \in DOMAIN messages : i < j => messages[i] < messages[j]
  /\ active # 0 => base[active] = messages
  /\ pc = "loop" => \A t \in Turns :
       outcome[t] = "ok" /\ ~aborting[t] /\ t # active
         => \E i \in DOMAIN messages : messages[i] = t

\* Inputs are never silently dropped: as long as the session goes on, those
\* taken in are exactly those started and those queued, in the peer's order, no
\* more than the limit, and only an input beyond the limit ends it.
InputsKept ==
  LET started == Cardinality({t \in Turns : agentAt[t] # "none"})
  IN /\ Len(queuedInputs) <= MaxQueuedInputs
     /\ pc \in {"loop", "cancelling", "joining"} =>
          /\ received = started + Len(queuedInputs)
          /\ \A i \in DOMAIN queuedInputs : queuedInputs[i] = started + i
     /\ result = "overflow" =>
          received = started + MaxQueuedInputs + 1 /\ Len(queuedInputs) = MaxQueuedInputs

\* The session implements its contract: whatever the four tasks, the channels
\* and the deadlines do, the daemon sees inputs taken, started, completed and
\* abandoned as if by one sequential machine.
Contract == INSTANCE SessionContract WITH
  Limit <- MaxQueuedInputs,
  taken <- received,
  waiting <- queuedInputs,
  running <- IF result = "none" THEN active ELSE 0,
  history <- messages,
  over <- result # "none"

ImplementsSession == Contract!Spec

\* docs/internal-ipc.md: turn_finished "Marks completion of the active user
\* turn", and on cancel "the worker retains history from completed turns".  So
\* once the peer has seen turn_finished and no turn is active, the turn's
\* messages are in the history.
FinishedTurnsKept ==
  pc = "loop" /\ active = 0 =>
    \A i \in DOMAIN wire : wire[i].kind = "TurnFinished" =>
      \E j \in DOMAIN messages : messages[j] = wire[i].turn

-----------------------------------------------------------------------------
(* Approvals                                                               *)

\* tool_start of a tool that needs approval goes out only after the peer was
\* asked about this very call and said yes on its handle, or after an allow_all
\* on an earlier call of the same tool.  A stale handle, a cancel or a reused
\* provider id is no yes.
GatedToolsNeedRuling ==
  LET yes(c, ds) == \E d \in ds : [handle |-> request[c].handle, decision |-> d] \in rulings
  IN \A i \in DOMAIN Outward :
       LET e == Outward[i] IN
       e.kind = "ToolStart" /\ IsGated(e.call) =>
         \/ /\ yes(e.call, {"Allow", "AllowAll"})
            /\ Before(Outward, i,
                 LAMBDA f : f.kind = "NeedsApproval" /\ f.call = e.call) # {}
         \/ /\ request[e.call].handle = NoHandle
            /\ \E c \in 1..(e.call - 1) :
                 calls[c].tool = calls[e.call].tool /\ yes(c, {"AllowAll"})

\* No request waits for a decision the peer cannot give: while the session goes
\* on, the active turn's waiting request is queued as a notice, held as the
\* barrier, or announced under its own handle.
WaiterIsAnnounced ==
  pc = "loop" /\ active # 0 /\ writer = "running" =>
    \A c \in DOMAIN calls :
      calls[c].turn = active /\ requestAt[c] = "waiting" /\ answer[c] = "none" =>
        \/ \E i \in DOMAIN approvals : approvals[i] = c
        \/ approvalBarrier = c
        \/ \E i \in DOMAIN Outward :
             /\ Outward[i].kind = "NeedsApproval"
             /\ Outward[i].call = c
             /\ Outward[i].handle = request[c].handle

\* A turn leaves nothing of its approvals to the next: between turns there is
\* no waiter, call id, notice, barrier or held needs_approval.
NothingLeftBetweenTurns ==
  pc = "loop" /\ active = 0 =>
    /\ pending = {}
    /\ \A p \in ProviderIds : callIds[p] = NoHandle
    /\ approvals = <<>>
    /\ approvalBarrier = 0
    /\ pendingEvent.kind # "NeedsApproval"

\* docs/internal-ipc.md: "tool_start and tool_result use the same handle as
\* that invocation's needs_approval", and every other call has a fresh one: two
\* events outside carry the same handle exactly when they are of the same call.
HandlesIdentifyCalls ==
  LET shown == {i \in DOMAIN Outward :
                  Outward[i].kind \in {"NeedsApproval", "ToolStart", "ToolResult"}}
  IN \A i, j \in shown :
       Outward[i].handle = Outward[j].handle <=> Outward[i].call = Outward[j].call

-----------------------------------------------------------------------------
(* Liveness                                                                *)

\* A stop that has been read, and the end of the command stream, end the worker
\* whatever the agent, its tools and the peer do: an agent that never yields, a
\* peer that reads nothing and full channels are outlasted by the deadlines.
SessionEnds ==
  (~readerOpen \/ \E i \in DOMAIN commands : commands[i].kind = "Stop")
    ~> pc = "exited"

\* A broken writer is noticed when the next event wants to go out, and ends the
\* session: the worker does not run on with nobody to hear it.
WriterFailureEndsSession ==
  (writer = "failed" /\ pendingEvent.kind \in AgentEventKinds) ~> pc = "exited"

\* If the peer reads, every waiting request is shown to it, unless the request
\* or the session ends first: holding tool events back behind the barrier and
\* the barrier behind tool events never deadlocks.
ApprovalReachesPeer ==
  WF_vars(Writer) =>
    \A c \in Requests :
      requestAt[c] = "waiting" ~>
        \/ \E i \in DOMAIN wire : wire[i].kind = "NeedsApproval" /\ wire[i].call = c
        \/ requestAt[c] # "waiting"
        \/ pc # "loop"
        \/ writer # "running"
=============================================================================
