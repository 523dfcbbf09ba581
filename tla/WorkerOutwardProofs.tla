------------------------ MODULE WorkerOutwardProofs ------------------------
(***************************************************************************)
(* Proofs about what the peer sees, for any capacities, tools, provider    *)
(* ids and numbers of turns, calls and commands: the order of the events,  *)
(* where the needs_approval are among them, and the handles they carry.    *)
(*                                                                         *)
(* No step moves an event in Outward: events come at its end, and what is  *)
(* lost is lost from its end (OutwardMoves).  So what was once true of the *)
(* events before one stays true, and the invariants speak of what comes    *)
(* next: the agent's channel, the notices and the call ids.                *)
(***************************************************************************)
EXTENDS WorkerApprovalProofs

-----------------------------------------------------------------------------
(* How Outward changes                                                     *)

\* What is there stays, up to a last part that may be lost.
OutwardKeeps ==
  /\ Len(Outward') <= Len(Outward)
  /\ \A i \in DOMAIN Outward' : Outward'[i] = Outward[i]

OutwardAdds(e) ==
  /\ Len(Outward') = Len(Outward) + 1
  /\ \A i \in DOMAIN Outward : Outward'[i] = Outward[i]
  /\ Outward'[Len(Outward) + 1] = e

Held == IF Holding THEN <<pendingEvent>> ELSE <<>>

\* Where the elements of two and of three sequences in a row are.
LEMMA TwoParts ==
  ASSUME NEW S, NEW a \in Seq(S), NEW b \in Seq(S)
  PROVE  /\ a \o b \in Seq(S)
         /\ Len(a \o b) = Len(a) + Len(b)
         /\ \A i \in 1..Len(a) : (a \o b)[i] = a[i]
         /\ \A i \in 1..Len(b) : (a \o b)[Len(a) + i] = b[i]
OBVIOUS

LEMMA ThreeParts ==
  ASSUME NEW S, NEW a \in Seq(S), NEW b \in Seq(S), NEW c \in Seq(S)
  PROVE  /\ a \o (b \o c) \in Seq(S)
         /\ Len(a \o (b \o c)) = Len(a) + Len(b) + Len(c)
         /\ \A i \in 1..Len(a) : (a \o (b \o c))[i] = a[i]
         /\ \A i \in 1..Len(b) : (a \o (b \o c))[Len(a) + i] = b[i]
         /\ \A i \in 1..Len(c) : (a \o (b \o c))[Len(a) + Len(b) + i] = c[i]
<1> DEFINE d == b \o c
<1>1. /\ d \in Seq(S) /\ Len(d) = Len(b) + Len(c)
      /\ \A i \in 1..Len(b) : d[i] = b[i]
      /\ \A i \in 1..Len(c) : d[Len(b) + i] = c[i]
  BY TwoParts
<1> HIDE DEF d
<1>2. /\ a \o d \in Seq(S) /\ Len(a \o d) = Len(a) + Len(d)
      /\ \A i \in 1..Len(a) : (a \o d)[i] = a[i]
      /\ \A i \in 1..Len(d) : (a \o d)[Len(a) + i] = d[i]
  <2>1. a \in Seq(S) /\ d \in Seq(S)
    BY <1>1
  <2> QED BY ONLY <2>1, TwoParts
<1>3. Len(a) \in Nat /\ Len(b) \in Nat /\ Len(c) \in Nat
  OBVIOUS
<1>4. \A i \in 1..Len(c) : Len(b) + i \in 1..Len(d) /\ Len(a) + (Len(b) + i) = Len(a) + Len(b) + i
  BY <1>1, <1>3
<1>5. \A i \in 1..Len(b) : i \in 1..Len(d)
  BY <1>1, <1>3
<1> QED BY <1>1, <1>2, <1>3, <1>4, <1>5 DEF d

\* The parts of Outward, now and after a step.
OutwardParts ==
  /\ Len(wire) \in Nat /\ Len(events) \in Nat /\ Len(Outward) \in Nat
  /\ DOMAIN Outward = 1..Len(Outward)
  /\ Outward \in Seq(WorkerEvent)
  /\ Len(Outward) = IF writer = "running" THEN Len(wire) + Len(events) + (IF Holding THEN 1 ELSE 0)
                                          ELSE Len(wire)
  /\ \A i \in 1..Len(Outward) :
       Outward[i] = IF i <= Len(wire) THEN wire[i]
                    ELSE IF i <= Len(wire) + Len(events) THEN events[i - Len(wire)]
                    ELSE pendingEvent

LEMMA OutwardIsParts == TInv => OutwardParts
<1> SUFFICES ASSUME TInv PROVE OutwardParts
  OBVIOUS
<1>1. /\ wire \in Seq(WorkerEvent) /\ events \in Seq(WorkerEvent) /\ Held \in Seq(WorkerEvent)
      /\ Len(Held) = IF Holding THEN 1 ELSE 0
      /\ Holding => Held[1] = pendingEvent
  BY EventParts DEF EventTypeOK, Held, Holding
<1>2. Len(wire) \in Nat /\ Len(events) \in Nat /\ Len(Held) \in Nat
  BY <1>1
<1>3. CASE writer = "running"
  <2>1. Outward = wire \o (events \o Held)
    BY <1>3 DEF Outward, Held
  <2>2. /\ Outward \in Seq(WorkerEvent)
        /\ Len(Outward) = Len(wire) + Len(events) + Len(Held)
        /\ \A i \in 1..Len(wire) : Outward[i] = wire[i]
        /\ \A i \in 1..Len(events) : Outward[Len(wire) + i] = events[i]
        /\ \A i \in 1..Len(Held) : Outward[Len(wire) + Len(events) + i] = Held[i]
    <3> DEFINE out == wire \o (events \o Held)
    <3>1. /\ out \in Seq(WorkerEvent)
          /\ Len(out) = Len(wire) + Len(events) + Len(Held)
          /\ \A i \in 1..Len(wire) : out[i] = wire[i]
          /\ \A i \in 1..Len(events) : out[Len(wire) + i] = events[i]
          /\ \A i \in 1..Len(Held) : out[Len(wire) + Len(events) + i] = Held[i]
      <4>1. /\ wire \in Seq(WorkerEvent) /\ events \in Seq(WorkerEvent)
            /\ Held \in Seq(WorkerEvent)
        BY <1>1
      <4> QED BY ONLY <4>1, ThreeParts
    <3> QED BY <2>1, <3>1
  <2>3. Len(Outward) \in Nat /\ DOMAIN Outward = 1..Len(Outward)
    BY <2>2
  <2>4. ASSUME NEW i \in 1..Len(Outward)
        PROVE  Outward[i] = IF i <= Len(wire) THEN wire[i]
                            ELSE IF i <= Len(wire) + Len(events) THEN events[i - Len(wire)]
                            ELSE pendingEvent
    <3>1. CASE i <= Len(wire)
      BY <1>2, <2>2, <2>3, <3>1
    <3>2. CASE i > Len(wire) /\ i <= Len(wire) + Len(events)
      <4>1. i - Len(wire) \in 1..Len(events) /\ i = Len(wire) + (i - Len(wire))
        BY <1>2, <2>3, <3>2
      <4>2. Outward[Len(wire) + (i - Len(wire))] = events[i - Len(wire)]
        BY <2>2, <4>1
      <4> QED BY <1>2, <2>3, <3>2, <4>1, <4>2
    <3>3. CASE i > Len(wire) + Len(events)
      <4>1. Holding /\ i = Len(wire) + Len(events) + 1 /\ 1 \in 1..Len(Held)
        BY <1>1, <1>2, <2>2, <2>3, <3>3
      <4>2. Outward[Len(wire) + Len(events) + 1] = Held[1]
        BY <2>2, <4>1
      <4> QED BY <1>1, <1>2, <3>3, <4>1, <4>2
    <3> QED BY <1>2, <2>3, <3>1, <3>2, <3>3
  <2> QED BY <1>1, <1>2, <1>3, <2>2, <2>3, <2>4 DEF OutwardParts
<1>4. CASE writer # "running"
  <2>1. Outward = wire \o <<>>
    BY <1>4 DEF Outward
  <2>2. wire \o <<>> = wire
    BY <1>1
  <2>3. Outward = wire /\ DOMAIN wire = 1..Len(wire)
    BY <1>1, <2>1, <2>2
  <2> QED BY <1>1, <1>2, <1>4, <2>3 DEF OutwardParts
<1> QED BY <1>3, <1>4

\* The kinds of step of the writer's queue.
QueuePass ==
  \/ UNCHANGED <<wire, events, writer>>
  \/ /\ writer = "running" /\ UNCHANGED <<writer, pendingEvent>>
     /\ events # <<>> /\ wire' = Append(wire, Head(events)) /\ events' = Tail(events)
  \/ UNCHANGED wire /\ writer' # "running"
  \/ /\ writer = "running" /\ UNCHANGED <<writer, wire>>
     /\ \/ Holding /\ events' = Append(events, pendingEvent) /\ pendingEvent' = NoEvent
        \/ /\ ~Holding /\ pc = "terminal"
           /\ events' = Append(events, terminal) /\ UNCHANGED pendingEvent

LEMMA QueuePasses == [Next]_vars => QueuePass
<1> SUFFICES ASSUME [Next]_vars PROVE QueuePass
  OBVIOUS
<1> USE DEF QueuePass, ioVars, socketVars
<1>1. CASE SendPending \/ SendTerminal
  BY <1>1 DEF SendPending, SendTerminal, Enqueue, HasRoom, HeldGoesFirst
<1>2. CASE Writer
  BY <1>2 DEF Writer, WriteFrame, WriteFails, coordinatorVars
<1>3. CASE WriterEnds
  BY <1>3 DEF WriterEnds
<1>4. CASE CommandArm
  BY <1>4
  DEF CommandArm, RecvInput, RecvApprove, RecvCancel, RecvStop, RecvEnd, Recv
<1>5. CASE WriterClosed \/ RecvNotice \/ EventsClosed \/ RecvEvent \/ DrainEvent
  BY <1>5 DEF WriterClosed, RecvNotice, EventsClosed, RecvEvent, DrainEvent, TakeEvent
<1>6. CASE StartTurn \/ DrainEmpty \/ DrainClosed \/ JoinOk \/ JoinFailed
  BY <1>6 DEF StartTurn, DrainEmpty, DrainClosed, JoinOk, JoinFailed, Joined
<1>7. CASE CancelCompletes \/ CancelTimesOut \/ StopAborted
  BY <1>7 DEF CancelCompletes, CancelTimesOut, StopAborted, ForgetTurn
<1>8. CASE TerminalGivesUp \/ Cleanup \/ Exit
  BY <1>8 DEF TerminalGivesUp, Cleanup, Exit
<1>9. CASE Reader
  BY <1>9 DEF Reader, ReadInput, ReadOrder, ReadMalformed, ReadEof, Forward
<1>10. CASE UNCHANGED vars \/ \E t \in Turns : Agent(t)
  BY <1>10 DEF Agent, vars
<1> QED BY <1>1, <1>2, <1>3, <1>4, <1>5, <1>6, <1>7, <1>8, <1>9, <1>10
        DEF Next, Select, Straight, Terminated

OutwardMove ==
  \/ OutwardKeeps /\ (GoingOn /\ GoingOn' => Len(Outward') = Len(Outward))
  \/ (Takes \/ DrainEmpty) /\ writer = "running" /\ OutwardAdds(pendingEvent')
  \/ IsTerminal(terminal) /\ OutwardAdds(terminal)

\* An event held when the loop goes on is held on, or sent.
LEMMA HeldStays ==
  ASSUME TInv, GoingOn, GoingOn', [Next]_vars, Holding, UNCHANGED <<wire, events, writer>>
  PROVE  UNCHANGED pendingEvent
<1>1. SendingStep
  BY SendingSteps
<1>2. ~Writes /\ ~Sends /\ ~SendsTerminal /\ ~Loses
  <2>1. events \in Seq(WorkerEvent) /\ wire \in Seq(WorkerEvent)
    BY EventParts DEF EventTypeOK
  <2>2. \A e \in WorkerEvent : Append(events, e) # events /\ Append(wire, e) # wire
    BY <2>1
  <2>3. events # <<>> => Head(events) \in WorkerEvent
    BY <2>1
  <2>4. Holding => pendingEvent \in WorkerEvent
    BY EventParts DEF EventTypeOK, Holding
  <2> QED BY <2>2, <2>3, <2>4 DEF Writes, Sends, SendsTerminal, Loses, GoingOn
<1>3. ~Holds /\ ~Terminates /\ ~Closes
  BY DEF Holds, Terminates, Closes, GoingOn, Early, Over
<1> QED BY <1>1, <1>2, <1>3 DEF SendingStep, GoesOn, GoingOn, eventCore

LEMMA OutwardMoves ==
  ASSUME TInv, TInv', TerminalInv, [Next]_vars
  PROVE  OutwardMove
<1>1. OutwardParts /\ OutwardParts'
  BY OutwardIsParts, PTL
<1>2. /\ wire \in Seq(WorkerEvent) /\ events \in Seq(WorkerEvent)
      /\ pendingEvent \in WorkerEvent \cup {NoEvent}
      /\ terminal \in WorkerEvent \cup {NoEvent}
      /\ wire' \in Seq(WorkerEvent) /\ events' \in Seq(WorkerEvent)
  BY EventParts DEF EventTypeOK, TInv, TypeOK, IOTypeOK
<1> USE <1>1 DEF OutwardParts
<1>3. CASE UNCHANGED <<wire, events, writer>>
  <2>1. CASE UNCHANGED pendingEvent
    BY <1>3, <2>1 DEF Holding, OutwardKeeps, OutwardMove
  <2>2. CASE pendingEvent' = NoEvent /\ Holding
    <3>1. ~(GoingOn /\ GoingOn')
      BY <1>3, <2>2, HeldStays DEF Holding
    <3> QED BY <1>3, <2>2, <3>1 DEF Holding, OutwardKeeps, OutwardMove
  <2>3. CASE (Takes \/ DrainEmpty) /\ ~Holding /\ pendingEvent' # NoEvent
    <3>1. CASE writer = "running"
      BY <1>3, <2>3, <3>1 DEF Holding, OutwardAdds, OutwardMove
    <3>2. CASE writer # "running"
      BY <1>3, <2>3, <3>2 DEF Holding, OutwardKeeps, OutwardMove
    <3> QED BY <3>1, <3>2
  <2> QED BY <2>1, <2>2, <2>3, HeldComes DEF Holding, Takes, DrainEmpty, MustDrain
<1>4. CASE /\ writer = "running" /\ UNCHANGED <<writer, pendingEvent>>
           /\ events # <<>> /\ wire' = Append(wire, Head(events)) /\ events' = Tail(events)
  <2>1. /\ Len(wire') = Len(wire) + 1 /\ Len(events') = Len(events) - 1 /\ Len(events) > 0
        /\ \A i \in 1..Len(wire) : wire'[i] = wire[i]
        /\ wire'[Len(wire) + 1] = events[1]
        /\ \A i \in 1..(Len(events) - 1) : events'[i] = events[i + 1]
    BY <1>2, <1>4
  <2>2. Len(Outward') = Len(Outward)
    BY <1>4, <2>1 DEF Holding
  <2>3. ASSUME NEW i \in 1..Len(Outward)
        PROVE  Outward'[i] = Outward[i]
    <3>1. CASE i <= Len(wire)
      BY <2>1, <2>2, <3>1
    <3>2. CASE i = Len(wire) + 1
      <4>1. Outward'[i] = wire'[i]
        BY <2>1, <2>2, <3>2
      <4>2. Outward[i] = events[1]
        BY <2>1, <3>2
      <4> QED BY <2>1, <3>2, <4>1, <4>2
    <3>3. CASE i > Len(wire) + 1 /\ i <= Len(wire) + Len(events)
      <4>1. Outward[i] = events[i - Len(wire)]
        BY <2>1, <3>3
      <4>2. Outward'[i] = events'[i - (Len(wire) + 1)]
        BY <2>1, <2>2, <3>3
      <4>3. i - (Len(wire) + 1) \in 1..(Len(events) - 1)
            /\ (i - (Len(wire) + 1)) + 1 = i - Len(wire)
        BY <2>1, <3>3
      <4> QED BY <2>1, <4>1, <4>2, <4>3
    <3>4. CASE i > Len(wire) + Len(events)
      <4>1. Outward[i] = pendingEvent
        BY <2>1, <3>4
      <4>2. Outward'[i] = pendingEvent'
        BY <2>1, <2>2, <3>4
      <4> QED BY <1>4, <4>1, <4>2
    <3> QED BY <3>1, <3>2, <3>3, <3>4
  <2> QED BY <2>2, <2>3 DEF OutwardKeeps, OutwardMove
<1>5. CASE UNCHANGED wire /\ writer' # "running"
  <2>1. OutwardKeeps
    BY <1>5 DEF OutwardKeeps
  <2> QED BY <1>5, <2>1 DEF GoingOn, OutwardMove
<1>6. CASE /\ writer = "running" /\ UNCHANGED <<writer, wire>>
           /\ Holding /\ events' = Append(events, pendingEvent) /\ pendingEvent' = NoEvent
  <2>1. /\ Len(events') = Len(events) + 1
        /\ \A i \in 1..Len(events) : events'[i] = events[i]
        /\ events'[Len(events) + 1] = pendingEvent
    BY <1>2, <1>6 DEF Holding
  <2>2. Len(Outward') = Len(Outward)
    BY <1>6, <2>1 DEF Holding
  <2>3. ASSUME NEW i \in 1..Len(Outward)
        PROVE  Outward'[i] = Outward[i]
    <3>1. CASE i <= Len(wire)
      BY <1>6, <2>1, <2>2, <3>1
    <3>2. CASE i > Len(wire) /\ i <= Len(wire) + Len(events)
      <4>1. i - Len(wire) \in 1..Len(events)
        BY <3>2
      <4>2. /\ ~(i <= Len(wire)) /\ Len(wire') = Len(wire)
            /\ i \in 1..Len(Outward') /\ i <= Len(wire) + Len(events')
        BY <1>6, <2>1, <2>2, <3>2
      <4>3. Outward[i] = events[i - Len(wire)]
        BY ONLY <1>1, <3>2, <4>2, i \in 1..Len(Outward) DEF OutwardParts
      <4>4. Outward'[i] = events'[i - Len(wire)]
        BY ONLY <1>1, <4>2 DEF OutwardParts
      <4> QED BY <2>1, <4>1, <4>3, <4>4
    <3>3. CASE i > Len(wire) + Len(events)
      <4>1. i - Len(wire) = Len(events) + 1
        <5>1. Len(Outward) = Len(wire) + Len(events) + 1
          BY <1>6
        <5>2. /\ i \in Nat /\ i <= Len(Outward) /\ Len(Outward) \in Nat
              /\ Len(wire) \in Nat /\ Len(events) \in Nat
          OBVIOUS
        <5> QED BY ONLY <3>3, <5>1, <5>2
      <4>2. Outward[i] = pendingEvent /\ Outward'[i] = events'[i - Len(wire)]
        BY <1>6, <2>1, <2>2, <3>3, <4>1
      <4> QED BY <2>1, <4>1, <4>2
    <3> QED BY <3>1, <3>2, <3>3
  <2> QED BY <2>2, <2>3 DEF OutwardKeeps, OutwardMove
<1>7. CASE /\ writer = "running" /\ UNCHANGED <<writer, wire>>
           /\ ~Holding /\ pc = "terminal"
           /\ events' = Append(events, terminal) /\ UNCHANGED pendingEvent
  <2>1. terminal \in WorkerEvent /\ IsTerminal(terminal)
    BY <1>2, <1>7 DEF TInv, Pending, TerminalInv
  <2>2. /\ Len(events') = Len(events) + 1
        /\ \A i \in 1..Len(events) : events'[i] = events[i]
        /\ events'[Len(events) + 1] = terminal
    BY <1>2, <1>7, <2>1
  <2>3. Len(Outward') = Len(Outward) + 1 /\ Len(Outward) = Len(wire) + Len(events)
    BY <1>7, <2>2 DEF Holding
  <2>4. ASSUME NEW i \in 1..Len(Outward)
        PROVE  Outward'[i] = Outward[i]
    <3>1. i \in 1..Len(Outward') /\ i <= Len(wire) + Len(events) /\ i <= Len(wire) + Len(events')
      BY <2>2, <2>3
    <3>2. CASE i <= Len(wire)
      BY <1>7, <3>1, <3>2
    <3>3. CASE i > Len(wire)
      <4>1. i - Len(wire) \in 1..Len(events)
        BY <3>1, <3>3
      <4>0. ~(i <= Len(wire)) /\ Len(wire') = Len(wire)
        BY <1>7, <3>3
      <4>2. Outward[i] = events[i - Len(wire)]
        BY ONLY <1>1, <3>1, <4>0 DEF OutwardParts
      <4>3. Outward'[i] = events'[i - Len(wire)]
        BY ONLY <1>1, <3>1, <4>0 DEF OutwardParts
      <4> QED BY <2>2, <4>1, <4>2, <4>3
    <3> QED BY <3>2, <3>3
  <2>5. Outward'[Len(Outward) + 1] = terminal
    <3> DEFINE n == Len(Outward) + 1
    <3>1. /\ n \in 1..Len(Outward') /\ Len(wire') = Len(wire)
          /\ ~(n <= Len(wire)) /\ n <= Len(wire) + Len(events')
          /\ n - Len(wire) = Len(events) + 1
      BY <1>7, <2>2, <2>3
    <3>2. Outward'[n] = events'[n - Len(wire)]
      BY ONLY <1>1, <3>1 DEF OutwardParts
    <3> QED BY <2>2, <3>1, <3>2
  <2> QED BY <2>1, <2>3, <2>4, <2>5 DEF OutwardAdds, OutwardMove
<1> QED BY <1>3, <1>4, <1>5, <1>6, <1>7, QueuePasses DEF QueuePass

-----------------------------------------------------------------------------
(* What a turn has sent, and what of it was taken                          *)

IsAgents(e) == e.kind \in AgentEventKinds

\* How many events of a turn the coordinator has taken from its channel.
Taken(t) == emitted[t] - Len(agentEvents[t])

\* A channel holds the last events of its turn, in order.
ChannelsInv ==
  \A t \in Turns :
    /\ Len(agentEvents[t]) <= emitted[t]
    /\ \A k \in DOMAIN agentEvents[t] :
         agentEvents[t][k].turn = t /\ agentEvents[t][k].stamp = Taken(t) + k
    /\ agentAt[t] = "none" => emitted[t] = 0

\* No turn after the active one has started.
LatestInv == active # 0 => \A t \in Turns : agentAt[t] # "none" => t <= active

LEMMA ChannelTypes ==
  ASSUME TInv
  PROVE  /\ agentEvents \in [Turns -> Seq(AgentEvent)]
         /\ emitted \in [Turns -> Nat]
         /\ agentAt \in [Turns -> AgentStages]
         /\ \A t \in Turns : Len(agentEvents[t]) \in Nat /\ Taken(t) \in Int
BY DEF TInv, TypeOK, AgentTypeOK, Taken

\* What an agent sends.
Emits(t) ==
  \E kind, call, next :
    kind \in AgentEventKinds /\ agentAt[t] # "none" /\ Emit(t, kind, call, next)

LEMMA EmitKinds ==
  ASSUME TInv, NEW t \in Turns, AgentStep(t)
  PROVE  UNCHANGED <<agentEvents, emitted>> \/ Emits(t)
<1> USE DEF Emits, AgentEventKinds, agentVars, taskVars
<1>1. CASE EmitText(t) \/ FinishTurn(t)
  BY <1>1 DEF EmitText, FinishTurn
<1>2. CASE StartTool(t) \/ FinishCall(t)
  BY <1>2 DEF StartTool, FinishCall, Verdict
<1>3. CASE \E tool \in Tools, p \in ProviderIds : BeginCall(t, tool, p)
  BY <1>3 DEF BeginCall
<1>4. CASE ApproveStep(t) \/ LeaveApprove(t) \/ CloseEvents(t) \/ TaskEnds(t) \/ Killed(t)
  BY <1>4 DEF ApproveStep, LeaveApprove, CloseEvents, TaskEnds, Killed
<1> QED BY <1>1, <1>2, <1>3, <1>4 DEF AgentStep

\* The first event of the active turn's channel is taken, and held.
Takes1(e, f) ==
  /\ agentEvents[active] # <<>> /\ e = Head(agentEvents[active])
  /\ e \in AgentEvent /\ 1 \in DOMAIN agentEvents[active] /\ e = agentEvents[active][1]
  /\ f.kind = e.kind /\ f.turn = e.turn /\ f.stamp = e.stamp /\ f.call = e.call
  /\ agentEvents' = [agentEvents EXCEPT ![active] = Tail(@)]
  /\ UNCHANGED <<emitted, agentAt, calls, active, wire, events, writer, pc>>

LEMMA TakesHead ==
  ASSUME TInv, Takes
  PROVE  Takes1(Head(agentEvents[active]), pendingEvent') /\ active \in Turns
<1> DEFINE e == Head(agentEvents[active])
<1>1. active \in Turns /\ agentEvents[active] \in Seq(AgentEvent) /\ agentEvents[active] # <<>>
  BY EventParts DEF Takes, TakeEvent, EventTypeOK
<1>2. e \in AgentEvent /\ 1 \in DOMAIN agentEvents[active] /\ e = agentEvents[active][1]
  BY <1>1
<1>3. \E h : pendingEvent' = Event(e.kind, e.turn, e.stamp, e.call, h)
  BY DEF Takes, TakeEvent, MapAgentEvent
<1> HIDE DEF e
<1>4. /\ pendingEvent'.kind = e.kind /\ pendingEvent'.turn = e.turn
      /\ pendingEvent'.stamp = e.stamp /\ pendingEvent'.call = e.call
  BY <1>3 DEF Event
<1>5. /\ agentEvents' = [agentEvents EXCEPT ![active] = Tail(@)]
      /\ UNCHANGED <<emitted, agentAt, calls, active, wire, events, writer, pc>>
  BY DEF Takes, TakeEvent, taskVars, ioVars, socketVars
<1> QED BY <1>1, <1>2, <1>4, <1>5 DEF Takes1, e

LEMMA ChannelsInit == Init => ChannelsInv /\ LatestInv
BY DEF Init, AgentInit, ChannelsInv, LatestInv

\* A turn that has not started stays so, or is started by this step.
LEMMA NotStarted ==
  ASSUME CoreTypeOK, CoreNext, NEW t \in Turns
  PROVE  /\ agentAt'[t] = "none" => agentAt[t] = "none"
         /\ agentAt[t] = "none" /\ agentAt'[t] # "none" => CoreStartsTurn /\ active' = t
BY DEF CoreTypeOK, CoreNext, CoreRead, CoreAgentMoves, IsLive, CoreTakesInput, CoreTakesOrder,
       CoreLeavesTurn, CoreStartsTurn, CoreJoins, CoreJoined, CoreCloses, core, turnsCore

LEMMA TailFacts ==
  ASSUME NEW S, NEW s \in Seq(S), s # <<>>
  PROVE  /\ Tail(s) \in Seq(S) /\ Len(Tail(s)) = Len(s) - 1
         /\ \A k \in DOMAIN Tail(s) : k \in Nat /\ k + 1 \in DOMAIN s /\ Tail(s)[k] = s[k + 1]
OBVIOUS

\* The channel of one turn, whatever happens to it.
Numbered(channel, t, taken) ==
  \A k \in DOMAIN channel : channel[k].turn = t /\ channel[k].stamp = taken + k

LEMMA NumberedTail ==
  ASSUME NEW s \in Seq(AgentEvent), s # <<>>, NEW t, NEW n \in Int, Numbered(s, t, n)
  PROVE  Numbered(Tail(s), t, n + 1)
<1>1. \A k \in DOMAIN Tail(s) : k \in Nat /\ k + 1 \in DOMAIN s /\ Tail(s)[k] = s[k + 1]
  BY TailFacts
<1>2. \A k \in Nat : n + (k + 1) = (n + 1) + k
  OBVIOUS
<1> QED BY <1>1, <1>2 DEF Numbered

LEMMA NumberedAppend ==
  ASSUME NEW s \in Seq(AgentEvent), NEW t, NEW n \in Int, Numbered(s, t, n),
         NEW f \in AgentEvent, f.turn = t, f.stamp = n + Len(s) + 1
  PROVE  Numbered(Append(s, f), t, n)
<1>1. /\ DOMAIN Append(s, f) = DOMAIN s \cup {Len(s) + 1}
      /\ Append(s, f)[Len(s) + 1] = f /\ Len(s) \in Nat
      /\ \A i \in DOMAIN s : Append(s, f)[i] = s[i]
  BY AppendFacts
<1>2. n + Len(s) + 1 = n + (Len(s) + 1)
  BY <1>1
<1> QED BY <1>1, <1>2 DEF Numbered

LEMMA ChannelsStep ==
  ASSUME TInv, TInv', ChannelsInv, [Next]_vars
  PROVE  ChannelsInv'
<1>0. /\ agentEvents \in [Turns -> Seq(AgentEvent)] /\ emitted \in [Turns -> Nat]
      /\ \A t \in Turns : Len(agentEvents[t]) \in Nat /\ Taken(t) \in Int
      /\ agentEvents' \in [Turns -> Seq(AgentEvent)] /\ emitted' \in [Turns -> Nat]
  BY ChannelTypes DEF TInv, TypeOK, AgentTypeOK
<1>1. \A t \in Turns : agentAt'[t] = "none" => agentAt[t] = "none"
  BY CoreTypes, CoreSteps, NotStarted
<1> SUFFICES ASSUME NEW t \in Turns
             PROVE  /\ Len(agentEvents'[t]) <= emitted'[t]
                    /\ Numbered(agentEvents'[t], t, emitted'[t] - Len(agentEvents'[t]))
                    /\ agentAt'[t] = "none" => emitted'[t] = 0
  BY DEF ChannelsInv, Numbered, Taken
<1>2. /\ Len(agentEvents[t]) <= emitted[t]
      /\ Numbered(agentEvents[t], t, emitted[t] - Len(agentEvents[t]))
      /\ agentAt[t] = "none" => emitted[t] = 0
  BY DEF ChannelsInv, Numbered, Taken
<1>3. CASE agentEvents'[t] = agentEvents[t] /\ emitted'[t] = emitted[t]
  BY <1>1, <1>2, <1>3
<1>4. CASE Takes
  <2>1. Takes1(Head(agentEvents[active]), pendingEvent') /\ active \in Turns
    BY <1>4, TakesHead
  <2>2. CASE t # active
    BY <1>0, <1>3, <2>1, <2>2 DEF Takes1
  <2>3. CASE t = active
    <3>1. /\ agentEvents'[t] = Tail(agentEvents[t]) /\ agentEvents[t] # <<>>
          /\ emitted'[t] = emitted[t] /\ agentEvents[t] \in Seq(AgentEvent)
          /\ agentAt'[t] = agentAt[t] /\ emitted[t] \in Nat
      BY <1>0, <2>1, <2>3 DEF Takes1
    <3>2. Len(agentEvents'[t]) = Len(agentEvents[t]) - 1 /\ Len(agentEvents[t]) \in Nat
      BY <1>0, <3>1, TailFacts
    <3>3. emitted'[t] - Len(agentEvents'[t]) = (emitted[t] - Len(agentEvents[t])) + 1
      BY <3>1, <3>2
    <3>4. Numbered(agentEvents'[t], t, (emitted[t] - Len(agentEvents[t])) + 1)
      BY <1>2, <3>1, <3>2, NumberedTail
    <3> QED BY <1>2, <3>1, <3>2, <3>3, <3>4
  <2> QED BY <2>2, <2>3
<1>5. CASE \E u \in Turns : AgentStep(u) /\ Emits(u)
  <2>0. PICK u \in Turns : Emits(u)
    BY <1>5
  <2>1. PICK kind, call, next :
          kind \in AgentEventKinds /\ agentAt[u] # "none" /\ Emit(u, kind, call, next)
    BY <2>0 DEF Emits
  <2> DEFINE f == [kind |-> kind, turn |-> u, stamp |-> emitted[u] + 1, call |-> call]
  <2>2. /\ agentEvents' = [agentEvents EXCEPT ![u] = Append(@, f)]
        /\ emitted' = [emitted EXCEPT ![u] = @ + 1]
        /\ agentAt[u] # "none"
    BY <2>1 DEF Emit
  <2>3. f.turn = u /\ f.stamp = emitted[u] + 1
    OBVIOUS
  <2> HIDE DEF f
  <2>4. CASE t # u
    BY <1>0, <1>3, <2>2, <2>4
  <2>5. CASE t = u
    <3>1. /\ agentEvents'[t] = Append(agentEvents[t], f) /\ emitted'[t] = emitted[t] + 1
          /\ agentEvents[t] \in Seq(AgentEvent) /\ emitted[t] \in Nat
          /\ Append(agentEvents[t], f) \in Seq(AgentEvent)
      BY <1>0, <2>2, <2>5
    <3>2. /\ Len(agentEvents'[t]) = Len(agentEvents[t]) + 1 /\ Len(agentEvents[t]) \in Nat
          /\ f \in AgentEvent
      <4>1. Len(Append(agentEvents[t], f)) = Len(agentEvents[t]) + 1
        BY <3>1
      <4>2. Append(agentEvents[t], f)[Len(agentEvents[t]) + 1] = f
        BY <3>1
      <4>3. Len(agentEvents[t]) + 1 \in DOMAIN Append(agentEvents[t], f)
        BY <3>1
      <4> QED BY <3>1, <4>1, <4>2, <4>3
    <3>3. /\ emitted'[t] - Len(agentEvents'[t]) = emitted[t] - Len(agentEvents[t])
          /\ f.stamp = (emitted[t] - Len(agentEvents[t])) + Len(agentEvents[t]) + 1
      <4>1. f.stamp = emitted[t] + 1 /\ emitted'[t] = emitted[t] + 1 /\ emitted[t] \in Nat
        BY <2>3, <2>5, <3>1
      <4> QED BY ONLY <3>2, <4>1
    <3>4. Numbered(Append(agentEvents[t], f), t, emitted[t] - Len(agentEvents[t]))
      BY <1>2, <2>3, <2>5, <3>1, <3>2, <3>3, NumberedAppend
    <3>5. Numbered(agentEvents'[t], t, emitted'[t] - Len(agentEvents'[t]))
      BY <3>1, <3>3, <3>4
    <3>6. agentAt'[t] # "none"
      BY <1>1, <2>2, <2>5
    <3>7. Len(agentEvents'[t]) <= emitted'[t]
      BY <1>2, <3>1, <3>2
    <3> QED BY <3>5, <3>6, <3>7
  <2> QED BY <2>4, <2>5
<1> QED BY <1>3, <1>4, <1>5, ChannelSteps, EmitKinds

LEMMA LatestStep ==
  ASSUME TInv, IInv, LatestInv, [Next]_vars
  PROVE  LatestInv'
<1>1. CoreTypeOK /\ CoreNext
  BY CoreTypes, CoreSteps
<1> SUFFICES ASSUME active' # 0, NEW t \in Turns, agentAt'[t] # "none"
             PROVE  t <= active'
  BY DEF LatestInv
<1>2. CASE CoreStartsTurn
  <2>1. 1 \in DOMAIN queuedInputs /\ active' = queuedInputs[1] /\ active' = Started + 1
        /\ Started \in Nat
    BY <1>1, <1>2 DEF CoreStartsTurn, MustStart, CoreTypeOK, IInv, QueueInv
  <2>2. t = active' \/ agentAt[t] # "none"
    BY <1>1, NotStarted
  <2> QED BY <2>1, <2>2, TurnsNat DEF IInv, QueueInv
<1>3. CASE ~CoreStartsTurn
  <2>1. agentAt[t] # "none" /\ active' = active
    BY <1>1, <1>3, NotStarted, TurnsNat
    DEF CoreNext, CoreRead, CoreAgentMoves, CoreTakesInput, CoreTakesOrder, CoreLeavesTurn,
        CoreJoins, CoreJoined, CoreCloses, core
  <2> QED BY <2>1 DEF LatestInv
<1> QED BY <1>2, <1>3

-----------------------------------------------------------------------------
(* The order of a turn's events, and of the turns                          *)

\* An agent's event outside was taken from its channel; what its turn sent
\* before it is ahead of it, and whatever is ahead of it is older.
SentInv ==
  \A i \in DOMAIN Outward : IsAgents(Outward[i]) =>
    LET e == Outward[i] IN
      /\ e.turn \in Turns /\ agentAt[e.turn] # "none" /\ e.stamp \in 1..Taken(e.turn)
      /\ \A k \in 1..(e.stamp - 1) :
           \E j \in 1..(i - 1) : OfTurn(Outward[j], e.turn) /\ Outward[j].stamp = k
      /\ \A j \in 1..(i - 1) : IsAgents(Outward[j]) =>
           \/ Outward[j].turn < e.turn
           \/ Outward[j].turn = e.turn /\ Outward[j].stamp < e.stamp

\* While the turn runs all that was taken from its channel is outside.
FlowInv ==
  GoingOn => \A k \in 1..Taken(active) :
    \E j \in DOMAIN Outward : OfTurn(Outward[j], active) /\ Outward[j].stamp = k

SInv == ChannelsInv /\ LatestInv /\ SentInv /\ FlowInv

\* What was taken from a channel is not put back.
LEMMA TakenGrows ==
  ASSUME TInv, TInv', ChannelsInv, [Next]_vars, NEW t \in Turns
  PROVE  /\ Taken(t) \in Nat /\ emitted'[t] - Len(agentEvents'[t]) \in Nat
         /\ Taken(t) <= emitted'[t] - Len(agentEvents'[t])
         /\ emitted'[t] - Len(agentEvents'[t]) # Taken(t) =>
              /\ Takes /\ t = active
              /\ emitted'[t] - Len(agentEvents'[t]) = Taken(t) + 1
<1>0. /\ agentEvents \in [Turns -> Seq(AgentEvent)] /\ emitted \in [Turns -> Nat]
      /\ agentEvents' \in [Turns -> Seq(AgentEvent)] /\ emitted' \in [Turns -> Nat]
      /\ Len(agentEvents[t]) <= emitted[t]
  BY DEF TInv, TypeOK, AgentTypeOK, ChannelsInv
<1>1. /\ emitted[t] \in Nat /\ Len(agentEvents[t]) \in Nat
      /\ emitted'[t] \in Nat /\ Len(agentEvents'[t]) \in Nat
  BY <1>0
<1>2. CASE agentEvents'[t] = agentEvents[t] /\ emitted'[t] = emitted[t]
  BY <1>0, <1>1, <1>2 DEF Taken
<1>3. CASE Takes
  <2>1. Takes1(Head(agentEvents[active]), pendingEvent') /\ active \in Turns
    BY <1>3, TakesHead
  <2>2. CASE t # active
    BY <1>0, <1>2, <2>1, <2>2 DEF Takes1
  <2>3. CASE t = active
    <3>1. /\ agentEvents'[t] = Tail(agentEvents[t]) /\ agentEvents[t] # <<>>
          /\ emitted'[t] = emitted[t] /\ agentEvents[t] \in Seq(AgentEvent)
      BY <1>0, <2>1, <2>3 DEF Takes1
    <3>2. Len(agentEvents'[t]) = Len(agentEvents[t]) - 1
      BY <3>1, TailFacts
    <3> QED BY <1>0, <1>1, <1>3, <2>3, <3>1, <3>2 DEF Taken
  <2> QED BY <2>2, <2>3
<1>4. CASE \E u \in Turns : AgentStep(u) /\ Emits(u)
  <2>1. PICK u \in Turns : \E f :
          /\ agentEvents' = [agentEvents EXCEPT ![u] = Append(@, f)]
          /\ emitted' = [emitted EXCEPT ![u] = @ + 1]
    BY <1>4 DEF Emits, Emit
  <2>2. CASE t # u
    BY <1>0, <1>2, <2>1, <2>2
  <2>3. CASE t = u
    <3>1. PICK f : agentEvents'[t] = Append(agentEvents[t], f)
      BY <1>0, <2>1, <2>3
    <3>2. Len(agentEvents'[t]) = Len(agentEvents[t]) + 1
      BY <1>0, <3>1
    <3>3. emitted'[t] = emitted[t] + 1
      BY <1>0, <2>1, <2>3
    <3> QED BY <1>0, <1>1, <3>2, <3>3 DEF Taken
  <2> QED BY <2>2, <2>3
<1> QED BY <1>2, <1>3, <1>4, ChannelSteps, EmitKinds

\* What is taken while the writer runs is the next event outside.
LEMMA TakesAdds ==
  ASSUME TInv, TInv', Takes, writer = "running"
  PROVE  OutwardAdds(pendingEvent')
<1>1. OutwardParts /\ OutwardParts'
  BY OutwardIsParts, PTL
<1>2. /\ UNCHANGED <<wire, events, writer>>
      /\ pendingEvent'.kind \in AgentEventKinds
  BY TakesHead DEF Takes1, AgentEvent
<1>3. ~Holding /\ Holding'
  BY <1>2 DEF Takes, Holding, NoEvent, Event, AgentEventKinds
<1> QED BY <1>1, <1>2, <1>3 DEF OutwardParts, OutwardAdds

\* What is outside and stays has what it had ahead of it.
LEMMA SentStays ==
  ASSUME TInv, TInv', ChannelsInv, SentInv, [Next]_vars,
         NEW i \in DOMAIN Outward, IsAgents(Outward[i]),
         \A j \in 1..i : Outward'[j] = Outward[j]
  PROVE  LET e == Outward'[i] IN
         /\ e.turn \in Turns /\ agentAt'[e.turn] # "none"
         /\ e.stamp \in 1..(emitted'[e.turn] - Len(agentEvents'[e.turn]))
         /\ \A k \in 1..(e.stamp - 1) :
              \E j \in 1..(i - 1) : OfTurn(Outward'[j], e.turn) /\ Outward'[j].stamp = k
         /\ \A j \in 1..(i - 1) : IsAgents(Outward'[j]) =>
              \/ Outward'[j].turn < e.turn
              \/ Outward'[j].turn = e.turn /\ Outward'[j].stamp < e.stamp
<1> DEFINE e == Outward[i]
<1>1. i \in Nat /\ i \in 1..i /\ 1..(i - 1) \subseteq 1..i
  <2>1. i \in 1..Len(Outward) /\ Len(Outward) \in Nat
    BY OutwardIsParts DEF OutwardParts
  <2> QED BY ONLY <2>1
<1>2. /\ e.turn \in Turns /\ agentAt[e.turn] # "none" /\ e.stamp \in 1..Taken(e.turn)
      /\ \A k \in 1..(e.stamp - 1) :
           \E j \in 1..(i - 1) : OfTurn(Outward[j], e.turn) /\ Outward[j].stamp = k
      /\ \A j \in 1..(i - 1) : IsAgents(Outward[j]) =>
           \/ Outward[j].turn < e.turn
           \/ Outward[j].turn = e.turn /\ Outward[j].stamp < e.stamp
  BY DEF SentInv
<1>3. agentAt'[e.turn] # "none"
  BY <1>2, CoreTypes, CoreSteps, NotStarted
<1>4. e.stamp \in 1..(emitted'[e.turn] - Len(agentEvents'[e.turn]))
  BY <1>2, TakenGrows
<1>5. Outward'[i] = e /\ \A j \in 1..(i - 1) : Outward'[j] = Outward[j]
  BY <1>1
<1> QED BY <1>2, <1>3, <1>4, <1>5

LEMMA SentStep ==
  ASSUME TInv, TInv', TerminalInv, SInv, [Next]_vars
  PROVE  SentInv'
<1> USE DEF SInv
<1>1. OutwardParts /\ OutwardParts'
  BY OutwardIsParts, PTL
<1>2. /\ DOMAIN Outward = 1..Len(Outward) /\ Len(Outward) \in Nat
      /\ DOMAIN Outward' = 1..Len(Outward') /\ Len(Outward') \in Nat
  BY <1>1 DEF OutwardParts
<1> DEFINE Placed(i) ==
      LET e == Outward'[i] IN
      /\ e.turn \in Turns /\ agentAt'[e.turn] # "none"
      /\ e.stamp \in 1..(emitted'[e.turn] - Len(agentEvents'[e.turn]))
      /\ \A k \in 1..(e.stamp - 1) :
           \E j \in 1..(i - 1) : OfTurn(Outward'[j], e.turn) /\ Outward'[j].stamp = k
      /\ \A j \in 1..(i - 1) : IsAgents(Outward'[j]) =>
           \/ Outward'[j].turn < e.turn
           \/ Outward'[j].turn = e.turn /\ Outward'[j].stamp < e.stamp
<1>3. SUFFICES ASSUME NEW i \in DOMAIN Outward', IsAgents(Outward'[i])
               PROVE  Placed(i)
  BY DEF SentInv, IsAgents, OfTurn, Taken
<1>4. CASE i \in DOMAIN Outward /\ \A j \in 1..i : Outward'[j] = Outward[j]
  <2>1. IsAgents(Outward[i])
    BY <1>2, <1>3, <1>4
  <2> QED BY <1>4, <2>1, SentStays
<1>5. CASE OutwardKeeps
  <2>1. i \in 1..Len(Outward) /\ \A j \in 1..i : j \in DOMAIN Outward'
    BY <1>2, <1>5 DEF OutwardKeeps
  <2> QED BY <1>2, <1>4, <1>5, <2>1 DEF OutwardKeeps
<1>6. ASSUME NEW f, OutwardAdds(f), i <= Len(Outward)
      PROVE  Placed(i)
  <2>1. i \in 1..Len(Outward) /\ \A j \in 1..i : j \in DOMAIN Outward
    BY <1>2, <1>6
  <2> QED BY <1>2, <1>4, <1>6, <2>1 DEF OutwardAdds
<1>7. ASSUME NEW f, OutwardAdds(f), i > Len(Outward), ~Takes
      PROVE  ~(DrainEmpty /\ f = pendingEvent') /\ ~IsTerminal(f)
  <2>1. i = Len(Outward) + 1 /\ Outward'[i] = f
    BY <1>2, <1>7 DEF OutwardAdds
  <2> QED BY <1>3, <2>1
          DEF IsAgents, DrainEmpty, Event, AgentEventKinds, IsTerminal, TerminalKinds
<1>8. CASE Takes /\ writer = "running" /\ i > Len(Outward)
  <2> DEFINE a == active
             f == pendingEvent'
  <2>1. OutwardAdds(f) /\ Takes1(Head(agentEvents[a]), f) /\ a \in Turns
    BY <1>8, TakesAdds, TakesHead
  <2>2. i = Len(Outward) + 1 /\ Outward'[i] = f
        /\ \A j \in 1..(i - 1) : j \in DOMAIN Outward /\ Outward'[j] = Outward[j]
    BY <1>2, <1>8, <2>1 DEF OutwardAdds
  <2>3. f.turn = a /\ f.stamp = Taken(a) + 1 /\ Taken(a) \in Nat
    BY <2>1, TakenGrows DEF Takes1, ChannelsInv
  <2>4. emitted'[a] - Len(agentEvents'[a]) = Taken(a) + 1
    <3>1. /\ agentEvents'[a] = Tail(agentEvents[a]) /\ agentEvents[a] # <<>>
          /\ agentEvents[a] \in Seq(AgentEvent)
          /\ emitted'[a] = emitted[a] /\ emitted[a] \in Nat
      BY <2>1, ChannelTypes DEF Takes1
    <3>2. Len(agentEvents'[a]) = Len(agentEvents[a]) - 1 /\ Len(agentEvents[a]) \in Nat
      BY <3>1, TailFacts
    <3> QED BY <3>1, <3>2 DEF Taken
  <2>5. GoingOn
    BY <1>8 DEF Takes, GoingOn
  <2>6. agentAt'[a] # "none"
    <3>1. 1 \in DOMAIN agentEvents[a] /\ agentEvents[a] \in Seq(AgentEvent)
          /\ agentAt'[a] = agentAt[a] /\ emitted[a] \in Nat
      BY <2>1, ChannelTypes DEF Takes1
    <3>2. emitted[a] # 0
      BY <2>1, <3>1 DEF ChannelsInv
    <3> QED BY <2>1, <3>1, <3>2 DEF ChannelsInv
  <2> HIDE DEF a, f
  <2>7. \A k \in 1..(f.stamp - 1) :
          \E j \in 1..(i - 1) : OfTurn(Outward'[j], f.turn) /\ Outward'[j].stamp = k
    <3>1. ASSUME NEW k \in 1..(f.stamp - 1)
          PROVE  \E j \in 1..(i - 1) : OfTurn(Outward'[j], f.turn) /\ Outward'[j].stamp = k
      <4>1. k \in 1..Taken(a)
        BY <2>3
      <4>2. PICK j \in DOMAIN Outward : OfTurn(Outward[j], a) /\ Outward[j].stamp = k
        BY <2>5, <4>1 DEF FlowInv, a
      <4>3. j \in 1..(i - 1)
        BY <1>2, <2>2
      <4> QED BY <2>2, <2>3, <4>2, <4>3 DEF OfTurn
    <3> QED BY <3>1
  <2>8. \A j \in 1..(i - 1) : IsAgents(Outward'[j]) =>
          Outward'[j].turn < f.turn \/ (Outward'[j].turn = f.turn /\ Outward'[j].stamp < f.stamp)
    <3> SUFFICES ASSUME NEW j \in 1..(i - 1), IsAgents(Outward[j])
                 PROVE  \/ Outward[j].turn < a
                        \/ Outward[j].turn = a /\ Outward[j].stamp < Taken(a) + 1
      BY <2>2, <2>3 DEF IsAgents
    <3>1. /\ Outward[j].turn \in Turns /\ agentAt[Outward[j].turn] # "none"
          /\ Outward[j].stamp \in 1..Taken(Outward[j].turn)
      BY <2>2 DEF SentInv
    <3>2. Outward[j].turn <= a
      BY <2>1, <3>1, <2>5 DEF LatestInv, GoingOn, a
    <3>3. CASE Outward[j].turn = a
      <4>1. Outward[j].stamp \in 1..Taken(a)
        BY <3>1, <3>3
      <4> QED BY <2>3, <3>3, <4>1
    <3>4. CASE Outward[j].turn # a
      <4>1. Outward[j].turn \in Nat /\ a \in Nat
        BY <2>1, <3>1, TurnsNat
      <4> QED BY <3>2, <3>4, <4>1
    <3> QED BY <3>3, <3>4
  <2> QED BY <2>1, <2>2, <2>3, <2>4, <2>6, <2>7, <2>8
<1>9. CASE Takes /\ writer # "running"
  <2>1. OutwardKeeps
    <3>1. UNCHANGED <<wire, writer>>
      BY <1>9, TakesHead DEF Takes1
    <3> QED BY <1>1, <1>9, <3>1 DEF OutwardParts, OutwardKeeps
  <2> QED BY <1>5, <2>1
<1>10. CASE Takes /\ writer = "running" /\ i <= Len(Outward)
  BY <1>6, <1>10, TakesAdds
<1>11. CASE ~Takes
  <2>1. \/ OutwardKeeps
        \/ \E f : OutwardAdds(f) /\ (IsTerminal(f) \/ (DrainEmpty /\ f = pendingEvent'))
    BY <1>11, OutwardMoves DEF OutwardMove
  <2> QED BY <1>2, <1>5, <1>6, <1>7, <1>11, <2>1
<1> QED BY <1>2, <1>8, <1>9, <1>10, <1>11

\* The loop goes on with the same turn, or with one just started.
LEMMA TurnGoesOn ==
  ASSUME TInv, IInv, [Next]_vars, GoingOn'
  PROVE  \/ GoingOn /\ active' = active
         \/ /\ agentAt[active'] = "none" /\ active' \in Turns
            /\ UNCHANGED <<agentEvents, emitted>>
<1>1. CoreTypeOK /\ CoreNext
  BY CoreTypes, CoreSteps
<1>2. pc = "loop" /\ writer = "running"
  BY <1>1, LoopIsLeft, WriterStays DEF GoingOn
<1>3. CASE active # 0
  BY <1>1, <1>2, <1>3
  DEF GoingOn, CoreNext, CoreRead, CoreAgentMoves, CoreTakesInput, CoreTakesOrder,
      CoreLeavesTurn, CoreStartsTurn, MustStart, CoreJoins, CoreJoined, CoreCloses, core
<1>4. CASE active = 0
  <2>1. CoreStartsTurn
    BY <1>1, <1>4
    DEF GoingOn, CoreNext, CoreRead, CoreAgentMoves, CoreTakesInput, CoreTakesOrder,
        CoreLeavesTurn, CoreJoins, CoreJoined, CoreCloses, core
  <2>2. 1 \in DOMAIN queuedInputs /\ active' = queuedInputs[1] /\ active' \in Turns
        /\ active' = Started + 1 /\ Started \in Nat
    BY <1>1, <2>1 DEF CoreStartsTurn, MustStart, CoreTypeOK, IInv, QueueInv
  <2>3. agentAt[active'] = "none"
    BY <2>2, TurnsNat DEF IInv, QueueInv
  <2>4. UNCHANGED <<agentEvents, emitted>>
    BY <1>4, <2>2, ChannelSteps, TurnsNat DEF Takes, coordinatorVars
  <2> QED BY <2>2, <2>3, <2>4
<1> QED BY <1>3, <1>4

LEMMA FlowStep ==
  ASSUME TInv, TInv', TerminalInv, IInv, SInv, [Next]_vars
  PROVE  FlowInv'
<1> USE DEF SInv
<1> DEFINE a == active'
<1> SUFFICES ASSUME GoingOn', NEW k \in 1..(emitted'[a] - Len(agentEvents'[a]))
             PROVE  \E j \in DOMAIN Outward' : OfTurn(Outward'[j], a) /\ Outward'[j].stamp = k
  BY DEF FlowInv, Taken, OfTurn
<1>1. OutwardParts /\ OutwardParts'
  BY OutwardIsParts, PTL
<1>2. /\ DOMAIN Outward = 1..Len(Outward) /\ Len(Outward) \in Nat
      /\ DOMAIN Outward' = 1..Len(Outward') /\ Len(Outward') \in Nat
  BY <1>1 DEF OutwardParts
<1>3. CASE /\ agentAt[a] = "none" /\ a \in Turns
           /\ UNCHANGED <<agentEvents, emitted>>
  <2>1. emitted[a] = 0 /\ Len(agentEvents[a]) \in Nat
    BY <1>3, ChannelTypes DEF ChannelsInv
  <2> QED BY <1>3, <2>1
<1>4. CASE GoingOn /\ a = active
  <2>1. a \in Turns
    BY <1>4, EventParts DEF GoingOn, EventTypeOK
  <2>2. ASSUME NEW j \in DOMAIN Outward
        PROVE  j \in DOMAIN Outward' /\ Outward'[j] = Outward[j]
    <3>1. CASE OutwardKeeps /\ Len(Outward') = Len(Outward)
      BY <1>2, <3>1 DEF OutwardKeeps
    <3>2. ASSUME NEW f, OutwardAdds(f) PROVE j \in DOMAIN Outward' /\ Outward'[j] = Outward[j]
      BY <1>2, <3>2 DEF OutwardAdds
    <3> QED BY <1>4, <3>1, <3>2, OutwardMoves DEF OutwardMove
  <2>3. CASE k \in 1..Taken(a)
    <3>1. PICK j \in DOMAIN Outward : OfTurn(Outward[j], a) /\ Outward[j].stamp = k
      BY <1>4, <2>3 DEF FlowInv
    <3> QED BY <2>2, <3>1
  <2>4. CASE k \notin 1..Taken(a)
    <3>1. Takes /\ k = Taken(a) + 1 /\ Taken(a) \in Nat
      BY <2>1, <2>4, TakenGrows
    <3>2. /\ OutwardAdds(pendingEvent') /\ Takes1(Head(agentEvents[active]), pendingEvent')
      BY <1>4, <3>1, TakesAdds, TakesHead DEF GoingOn
    <3>3. pendingEvent'.turn = a /\ pendingEvent'.stamp = k
      BY <1>4, <2>1, <3>1, <3>2 DEF Takes1, ChannelsInv
    <3>4. pendingEvent'.kind \in AgentEventKinds
      BY <3>2 DEF Takes1, AgentEvent
    <3> QED BY <1>2, <3>2, <3>3, <3>4 DEF OutwardAdds, OfTurn
  <2> QED BY <2>3, <2>4
<1> QED BY <1>3, <1>4, TurnGoesOn

LEMMA SentHolds == Spec => []SInv
<1>1. Init => SInv
  <2>1. Init => Outward = <<>> /\ ~GoingOn
    BY DEF Init, IOInit, Outward, Holding, GoingOn
  <2>2. Init => SentInv
    <3>1. DOMAIN <<>> = {}
      OBVIOUS
    <3> QED BY <2>1, <3>1 DEF SentInv
  <2> QED BY <2>1, <2>2, ChannelsInit DEF SInv, FlowInv
<1>2. TInv /\ TInv' /\ TerminalInv /\ IInv /\ SInv /\ [Next]_vars => SInv'
  BY ChannelsStep, LatestStep, SentStep, FlowStep DEF SInv
<1> QED BY <1>1, <1>2, TypesHold, TerminalHolds, InvariantHolds, PTL DEF Spec

\* As many events as they have stamps, if these are 1..n.
LEMMA CountByStamp ==
  ASSUME SentInv, NEW t \in Turns, NEW n \in Nat, NEW S,
         OutwardParts,
         \A i \in S : i \in DOMAIN Outward /\ OfTurn(Outward[i], t) /\ Outward[i].stamp \in 1..n,
         \A k \in 1..n : \E i \in S : Outward[i].stamp = k
  PROVE  Cardinality(S) = n
<1> DEFINE f == [k \in 1..n |-> CHOOSE i \in S : Outward[i].stamp = k]
<1>1. \A i, j \in S : i < j => Outward[i].stamp # Outward[j].stamp
  <2> SUFFICES ASSUME NEW i \in S, NEW j \in S, i < j
               PROVE  Outward[i].stamp # Outward[j].stamp
    OBVIOUS
  <2>1. /\ i \in DOMAIN Outward /\ OfTurn(Outward[i], t) /\ Outward[i].stamp \in 1..n
        /\ j \in DOMAIN Outward /\ OfTurn(Outward[j], t) /\ Outward[j].stamp \in 1..n
    OBVIOUS
  <2>2. i \in 1..(j - 1) /\ IsAgents(Outward[i]) /\ IsAgents(Outward[j])
    BY <2>1 DEF OutwardParts, OfTurn, IsAgents
  <2>3. \/ Outward[i].turn < Outward[j].turn
        \/ Outward[i].turn = Outward[j].turn /\ Outward[i].stamp < Outward[j].stamp
    BY <2>1, <2>2 DEF SentInv
  <2> QED BY <2>1, <2>3, TurnsNat DEF OfTurn
<1>2. \A i, j \in S : Outward[i].stamp = Outward[j].stamp => i = j
  <2>1. \A i, j \in S : i < j \/ j < i \/ i = j
    BY DEF OutwardParts
  <2> QED BY <1>1, <2>1
<1>3. \A k \in 1..n : f[k] \in S /\ Outward[f[k]].stamp = k
  OBVIOUS
<1>4. f \in [1..n -> S]
  BY <1>3
<1> HIDE DEF f
<1>5. \A i \in S : Outward[i].stamp \in 1..n /\ f[Outward[i].stamp] = i
  BY <1>2, <1>3
<1>6. f \in Bijection(1..n, S)
  BY <1>3, <1>4, <1>5 DEF Bijection, Injection, Surjection, IsInjective
<1>7. ExistsBijection(1..n, S)
  BY <1>6 DEF ExistsBijection
<1> QED BY <1>7, FS_CountingElements

\* The events of a turn go out in the order the agent sent them, with none
\* missing and none twice, turn after turn, in every reachable state: none is
\* lost, doubled or overtaken in a channel, in the coordinator's hand or in
\* the writer, and what has not gone out is still in the turn's channel.
THEOREM OutwardOrder == Spec => []OutwardInOrder
<1>1. TInv /\ SInv => OutwardInOrder
  <2> SUFFICES ASSUME TInv, SInv PROVE OutwardInOrder
    OBVIOUS
  <2> USE DEF SInv
  <2> DEFINE sent(t) == {i \in DOMAIN Outward : OfTurn(Outward[i], t)}
  <2>1. OutwardParts /\ DOMAIN Outward \subseteq Nat
    <3>1. OutwardParts
      BY OutwardIsParts
    <3>2. DOMAIN Outward = 1..Len(Outward)
      BY <3>1 DEF OutwardParts
    <3> QED BY <3>1, <3>2
  <2>2. ASSUME NEW t \in Turns, NEW i \in sent(t)
        PROVE  Outward[i].stamp = Cardinality({j \in sent(t) : j <= i})
    <3> DEFINE S == {j \in sent(t) : j <= i}
    <3>1. /\ i \in DOMAIN Outward /\ i \in Nat /\ OfTurn(Outward[i], t) /\ IsAgents(Outward[i])
          /\ Outward[i].stamp \in 1..Taken(t)
      BY <2>1 DEF OfTurn, IsAgents, SentInv
    <3>2. Outward[i].stamp \in Nat
      BY <3>1
    <3>3. ASSUME NEW j \in S
          PROVE  j \in DOMAIN Outward /\ OfTurn(Outward[j], t)
                 /\ Outward[j].stamp \in 1..Outward[i].stamp
      <4>1. j \in DOMAIN Outward /\ j \in Nat /\ j <= i /\ OfTurn(Outward[j], t)
        BY <2>1
      <4>2. Outward[j].stamp \in 1..Taken(t)
        BY <4>1 DEF SentInv, OfTurn, IsAgents
      <4>3. CASE j = i
        BY <3>2, <4>1, <4>2, <4>3
      <4>4. CASE j # i
        <5>1. j \in 1..(i - 1)
          BY <2>1, <3>1, <4>1, <4>4 DEF OutwardParts
        <5>2. ~(Outward[j].turn < Outward[i].turn)
          BY <3>1, <4>1, TurnsNat DEF OfTurn
        <5>3. Outward[j].stamp < Outward[i].stamp
          BY <3>1, <4>1, <5>1, <5>2 DEF SentInv, OfTurn, IsAgents
        <5> QED BY <3>2, <4>1, <4>2, <5>3
      <4> QED BY <4>3, <4>4
    <3>4. ASSUME NEW k \in 1..Outward[i].stamp
          PROVE  \E j \in S : Outward[j].stamp = k
      <4>1. CASE k = Outward[i].stamp
        BY <3>1, <4>1
      <4>2. CASE k # Outward[i].stamp
        <5>1. k \in 1..(Outward[i].stamp - 1)
          BY <3>2, <4>2
        <5>2. PICK j \in 1..(i - 1) : OfTurn(Outward[j], t) /\ Outward[j].stamp = k
          BY <3>1, <5>1 DEF SentInv, OfTurn
        <5>3. j \in DOMAIN Outward /\ j <= i
          BY <2>1, <3>1 DEF OutwardParts
        <5> QED BY <5>2, <5>3
      <4> QED BY <4>1, <4>2
    <3> HIDE DEF S
    <3>5. Cardinality(S) = Outward[i].stamp
      BY <2>1, <3>2, <3>3, <3>4, CountByStamp
    <3> QED BY <3>5 DEF S
  <2>3. ASSUME NEW t \in Turns, NEW u \in Turns, t < u, NEW i \in sent(t), NEW j \in sent(u)
        PROVE  i < j
    <3>1. /\ i \in DOMAIN Outward /\ OfTurn(Outward[i], t) /\ IsAgents(Outward[i])
          /\ j \in DOMAIN Outward /\ OfTurn(Outward[j], u) /\ IsAgents(Outward[j])
      BY DEF OfTurn, IsAgents
    <3>2. t # u /\ ~(u < t) /\ t \in Nat /\ u \in Nat
      BY <2>3, TurnsNat
    <3>3. i # j
      BY <3>1, <3>2 DEF OfTurn
    <3>4. CASE j < i
      <4>1. j \in 1..(i - 1)
        BY <2>1, <3>1, <3>4 DEF OutwardParts
      <4>2. Outward[j].turn < Outward[i].turn \/ Outward[j].turn = Outward[i].turn
        BY <3>1, <4>1 DEF SentInv
      <4> QED BY <3>1, <3>2, <4>2 DEF OfTurn
    <3>5. i \in Nat /\ j \in Nat
      BY <2>1, <3>1
    <3> QED BY <3>3, <3>4, <3>5
  <2>4. ASSUME GoingOn
        PROVE  Cardinality(sent(active)) + Len(agentEvents[active]) = emitted[active]
    <3> DEFINE S == sent(active)
    <3>1. active \in Turns /\ active # 0
      BY <2>4, EventParts DEF GoingOn, EventTypeOK
    <3>2. /\ emitted[active] \in Nat /\ Len(agentEvents[active]) \in Nat
          /\ Len(agentEvents[active]) <= emitted[active]
      BY <3>1, ChannelTypes DEF ChannelsInv
    <3>3. Taken(active) \in Nat
      BY <3>2 DEF Taken
    <3>4. \A i \in S : i \in DOMAIN Outward /\ OfTurn(Outward[i], active)
                     /\ Outward[i].stamp \in 1..Taken(active)
      BY DEF SentInv, OfTurn, IsAgents
    <3>5. \A k \in 1..Taken(active) : \E i \in S : Outward[i].stamp = k
      BY <2>4 DEF FlowInv
    <3> HIDE DEF S
    <3>6. Cardinality(S) = Taken(active)
      BY <2>1, <3>1, <3>3, <3>4, <3>5, CountByStamp
    <3> QED BY <3>2, <3>6 DEF Taken, S
  <2> QED BY <2>2, <2>3, <2>4 DEF OutwardInOrder, GoingOn
<1> QED BY <1>1, SentHolds, TypesHold, PTL

-----------------------------------------------------------------------------
(* Notices and the barrier                                                 *)

Engaged == pc = "loop" /\ active # 0

\* A request on its way to its await, one the peer cannot have ruled on, and
\* one the coordinator has in its hands.
Asking(r) == requestAt[r] \in {"admitted", "named", "registered"}
Unasked(r) == answer[r] = "none" /\ \A e : Goes(e) /\ e.kind = "NeedsApproval" => e.call # r
Noticed(r) == (\E i \in DOMAIN approvals : approvals[i] = r) \/ approvalBarrier = r

\* A request past its notice, and one its task, the active one, is still at.
Told(r) == requestAt[r] \in {"waiting", "dropping", "aborted"}
AtCall(r) == IsGated(r) /\ IsCurrent(r, active) /\ agentAt[active] = "calling"

\* While its turn runs, what the coordinator was told of is the one request
\* its task is at, and no answer can come before the peer was asked.
AskInv ==
  /\ \A r \in Requests : requestAt[r] = "new" => answer[r] = "none"
  /\ Engaged => \A r \in Requests : Asking(r) => Unasked(r)
  /\ Engaged /\ ~SenderDropped(active) =>
       /\ \A r \in Requests : Noticed(r) => Told(r) /\ AtCall(r) /\ Unasked(r)
       /\ approvals = <<>> \/ (Len(approvals) = 1 /\ approvalBarrier = 0)

\* A task in the middle of a call has sent nothing since it began it.
PausedInv ==
  \A t \in Turns : agentAt[t] = "calling" =>
    \A c \in DOMAIN calls : IsCurrent(c, t) => calls[c].after = emitted[t]

\* Which steps concern the tasks.
LEMMA AgentsMove ==
  ASSUME TInv, [Next]_vars
  PROVE  \/ UNCHANGED taskVars
         \/ StartTurn
         \/ \E t \in Turns : AgentStep(t) /\ UNCHANGED <<ioVars, coordinatorVars>>
<1> USE DEF agentVars
<1>1. CASE SendPending \/ SendTerminal \/ TerminalGivesUp \/ Cleanup
  BY <1>1 DEF SendPending, SendTerminal, TerminalGivesUp, Cleanup
<1>2. CASE CancelCompletes \/ CancelTimesOut \/ StopAborted
  BY <1>2 DEF CancelCompletes, CancelTimesOut, StopAborted, ForgetTurn
<1>3. CASE RecvEvent \/ DrainEvent
  BY <1>3 DEF RecvEvent, DrainEvent, TakeEvent
<1>4. CASE CommandArm \/ WriterClosed \/ RecvNotice \/ EventsClosed \/ DrainEmpty
  BY <1>4
  DEF CommandArm, RecvInput, RecvApprove, RecvCancel, RecvStop, RecvEnd, WriterClosed,
      RecvNotice, EventsClosed, DrainEmpty
<1>5. CASE DrainClosed \/ JoinOk \/ JoinFailed \/ WriterEnds \/ Exit
  BY <1>5 DEF DrainClosed, JoinOk, JoinFailed, Joined, WriterEnds, Exit
<1>6. CASE Reader \/ Writer \/ UNCHANGED vars \/ \E t \in Turns : Agent(t)
  BY <1>6 DEF Reader, Writer, Agent, vars
<1> QED BY <1>1, <1>2, <1>3, <1>4, <1>5, <1>6 DEF Next, Select, Straight, Terminated

LEMMA TurnsStart ==
  ASSUME TInv, [Next]_vars, active = 0, active' # 0
  PROVE  StartTurn
<1> USE DEF exitVars
<1>1. ~(SendPending \/ SendTerminal \/ TerminalGivesUp \/ Cleanup)
  BY DEF SendPending, SendTerminal, TerminalGivesUp, Cleanup
<1>2. ~(CancelCompletes \/ CancelTimesOut \/ StopAborted)
  BY DEF CancelCompletes, CancelTimesOut, StopAborted, ForgetTurn
<1>3. ~(RecvEvent \/ DrainEvent)
  BY DEF RecvEvent, DrainEvent, TakeEvent
<1>4. ~(CommandArm \/ WriterClosed \/ RecvNotice \/ EventsClosed \/ DrainEmpty)
  BY DEF CommandArm, RecvInput, RecvApprove, RecvCancel, RecvStop, RecvEnd, WriterClosed,
         RecvNotice, EventsClosed, DrainEmpty, coordinatorVars
<1>5. ~(DrainClosed \/ JoinOk \/ JoinFailed \/ WriterEnds \/ Exit)
  BY DEF DrainClosed, JoinOk, JoinFailed, Joined, WriterEnds, Exit, coordinatorVars
<1>6. ~(Reader \/ Writer \/ UNCHANGED vars \/ \E t \in Turns : Agent(t))
  BY DEF Reader, Writer, Agent, vars, coordinatorVars
<1> QED BY <1>1, <1>2, <1>3, <1>4, <1>5, <1>6 DEF Next, Select, Straight, Terminated

LEMMA EngagedBefore ==
  ASSUME TInv, [Next]_vars, Engaged'
  PROVE  (Engaged /\ active' = active) \/ StartTurn
<1>1. CoreNext
  BY CoreSteps
<1>2. pc = "loop"
  BY <1>1, LoopIsLeft DEF Engaged
<1>3. CASE active # 0
  BY <1>1, <1>2, <1>3
  DEF Engaged, CoreNext, CoreRead, CoreAgentMoves, CoreTakesInput, CoreTakesOrder,
      CoreLeavesTurn, CoreStartsTurn, MustStart, CoreJoins, CoreJoined, CoreCloses, core
<1> QED BY <1>3, TurnsStart DEF Engaged

\* An answer comes from a decision, or from a sweep that ends the turn.
LEMMA AnswersMove ==
  ASSUME TInv, CallInv, [Next]_vars, Engaged'
  PROVE  UNCHANGED answer \/ Resolves
<1> USE DEF approverVars, adapterVars, exitVars
<1>1. CASE SendPending \/ SendTerminal \/ TerminalGivesUp
  BY <1>1 DEF SendPending, SendTerminal, TerminalGivesUp
<1>2. ~(Cleanup \/ CancelCompletes \/ CancelTimesOut \/ StopAborted)
  BY DEF Cleanup, CancelCompletes, CancelTimesOut, StopAborted, ForgetTurn, Engaged
<1>3. CASE RecvEvent \/ DrainEvent \/ DrainEmpty \/ DrainClosed
  BY <1>3 DEF RecvEvent, DrainEvent, TakeEvent, DrainEmpty, DrainClosed
<1>4. CASE RecvApprove
  <2>1. Head(commands) \in Command /\ Head(commands).kind = "Approve"
    BY <1>4 DEF RecvApprove, Recv, TInv, TypeOK, IOTypeOK
  <2>2. Head(commands).handle \in Nat /\ Head(commands).decision \in Decisions
    BY <2>1 DEF Command
  <2> QED BY <1>4, <2>2 DEF RecvApprove, Recv, Resolves, mapperVars, agentVars, taskVars
<1>5. CASE CommandArm /\ ~RecvApprove
  BY <1>5 DEF CommandArm, RecvInput, RecvCancel, RecvStop, RecvEnd
<1>6. CASE WriterClosed \/ RecvNotice \/ EventsClosed
  BY <1>6 DEF WriterClosed, RecvNotice, EventsClosed
<1>7. CASE StartTurn \/ JoinOk \/ JoinFailed \/ WriterEnds \/ Exit
  BY <1>7 DEF StartTurn, JoinOk, JoinFailed, Joined, WriterEnds, Exit
<1>8. CASE Reader \/ Writer \/ UNCHANGED vars
  BY <1>8 DEF Reader, Writer, vars
<1>9. CASE \E t \in Turns : Agent(t)
  <2>1. PICK t \in Turns : AgentStep(t)
    BY <1>9 DEF Agent
  <2>2. CASE EmitText(t) \/ FinishTurn(t) \/ FinishCall(t) \/ StartTool(t)
    BY <2>2 DEF EmitText, FinishTurn, FinishCall, StartTool, Emit
  <2>3. CASE \E tool \in Tools, p \in ProviderIds : BeginCall(t, tool, p)
    BY <2>3 DEF BeginCall, Approve
  <2>4. CASE ApproveStep(t)
    BY <2>4 DEF ApproveStep, NameCall, Register, SendNotice, Answered, GuardRuns
  <2>5. CASE LeaveApprove(t) \/ TaskEnds(t) \/ CloseEvents(t) \/ Killed(t)
    BY <2>5 DEF TaskEnds, CloseEvents, Killed, LeaveApprove, Abort
  <2> QED BY <2>1, <2>2, <2>3, <2>4, <2>5 DEF AgentStep
<1> QED BY <1>1, <1>2, <1>3, <1>4, <1>5, <1>6, <1>7, <1>8, <1>9
        DEF Next, Select, Straight, Terminated

\* A needs_approval outside was there before, or is the barrier's.
LEMMA AskedBefore ==
  ASSUME TInv, TerminalInv, [Next]_vars, NEW e, Goes(e)', e.kind = "NeedsApproval"
  PROVE  Goes(e) \/ (DrainEmpty /\ e = pendingEvent' /\ e.call = approvalBarrier)
<1>1. ~IsTerminal(e)
  BY DEF IsTerminal, TerminalKinds
<1>2. \A f : Sent(f) => f.kind # "NeedsApproval"
  <2>1. \A f \in AgentEvent : f.kind # "NeedsApproval"
    BY DEF AgentEvent, AgentEventKinds
  <2>2. \A t \in Turns : \A i \in DOMAIN agentEvents[t] : agentEvents[t][i] \in AgentEvent
    BY EventParts
  <2> QED BY <2>1, <2>2 DEF Sent
<1>3. DrainEmpty => pendingEvent'.call = approvalBarrier
  BY DEF DrainEmpty, Event
<1> QED BY <1>1, <1>2, <1>3, EventsCome

LEMMA UnaskedStays ==
  ASSUME TInv, TerminalInv, AInv, ShownInv, [Next]_vars, Engaged',
         NEW r \in Requests, Unasked(r), ~(DrainEmpty /\ approvalBarrier = r)
  PROVE  Unasked(r)'
<1> USE DEF AInv
<1>1. answer'[r] = "none"
  <2>1. CASE UNCHANGED answer
    BY <2>1 DEF Unasked
  <2>2. CASE Resolves /\ ~UNCHANGED answer
    <3>1. PICK d \in Decisions : Resolve(Head(commands).handle, d)
      BY <2>2 DEF Resolves
    <3>2. PICK e \in pending : Rules(e, Head(commands).handle, d)
      BY <2>2, <3>1, HeadHandle, ResolveKinds DEF Resolves
    <3>3. Head(commands).handle \in ShownHandles
      BY <2>2, HeadHandle DEF Resolves, ShownInv
    <3>4. PICK j \in DOMAIN wire :
            wire[j].kind = "NeedsApproval" /\ wire[j].handle = Head(commands).handle
      BY <3>3 DEF ShownHandles
    <3>5. Goes(wire[j])
      BY DEF Goes
    <3>6. /\ wire[j].call \in Requests /\ request[wire[j].call].handle = e.handle
          /\ e.handle # NoHandle
      BY <3>2, <3>4, <3>5 DEF ShownInv, Rules
    <3>7. e.req \in Requests /\ e.handle = request[e.req].handle
      BY AdapterParts DEF HandlesInv, Entries
    <3>8. e.req = wire[j].call
      BY <3>6, <3>7 DEF HandlesInv
    <3>9. e.req # r
      BY <3>4, <3>5, <3>8 DEF Unasked
    <3> QED BY <3>2, <3>9, AdapterParts DEF Rules, Unasked
  <2> QED BY <2>1, <2>2, AnswersMove
<1>2. ASSUME NEW e, Goes(e)', e.kind = "NeedsApproval"
      PROVE  e.call # r
  BY <1>2, AskedBefore DEF Unasked
<1> QED BY <1>1, <1>2 DEF Unasked

LEMMA AskingComes ==
  ASSUME TInv, CallInv, [Next]_vars, NEW r \in Requests
  PROVE  /\ Asking(r)' => Asking(r) \/ requestAt[r] = "new"
         /\ requestAt'[r] = "new" => requestAt[r] = "new"
<1> USE AdapterParts DEF Asking
<1>1. ASSUME NEW t \in Turns, NEW tool \in Tools, NEW n, Begins(n, t, tool)
      PROVE  /\ Asking(r)' => Asking(r) \/ requestAt[r] = "new"
             /\ requestAt'[r] = "new" => requestAt[r] = "new"
  BY <1>1 DEF Begins
<1>2. ASSUME NEW c \in Requests, Approves(c)
      PROVE  /\ Asking(r)' => Asking(r) \/ requestAt[r] = "new"
             /\ requestAt'[r] = "new" => requestAt[r] = "new"
  BY <1>2 DEF Approves
<1>3. ASSUME NEW c \in Requests, LeavesCall(c)
      PROVE  /\ Asking(r)' => Asking(r) \/ requestAt[r] = "new"
             /\ requestAt'[r] = "new" => requestAt[r] = "new"
  BY <1>3 DEF LeavesCall
<1>4. CASE Resolves
  BY <1>4, HeadHandle, ResolveKinds DEF Resolves
<1>5. CASE Sweeps \/ Mints \/ \E t \in Turns : Moves(t)
  BY <1>5 DEF Sweeps, CancelPending, Mints, Moves, adapterVars
<1> QED BY <1>1, <1>2, <1>3, <1>4, <1>5, AdapterSteps, NewCall, ApproveKinds, LeaveKinds
        DEF AdapterStep

\* Who was told of and has no answer stays so, returned or not.
LEMMA ToldStays ==
  ASSUME TInv, CallInv, [Next]_vars, NEW r \in Requests, Told(r), answer[r] = "none"
  PROVE  Told(r)'
<1> USE AdapterParts DEF Told
<1>1. ASSUME NEW t \in Turns, NEW tool \in Tools, NEW n, Begins(n, t, tool)
      PROVE  Told(r)'
  BY <1>1 DEF Begins
<1>2. ASSUME NEW c \in Requests, Approves(c)
      PROVE  Told(r)'
  BY <1>2 DEF Approves
<1>3. ASSUME NEW c \in Requests, LeavesCall(c)
      PROVE  Told(r)'
  BY <1>3 DEF LeavesCall
<1>4. CASE Resolves
  BY <1>4, HeadHandle, ResolveKinds DEF Resolves
<1>5. CASE Sweeps \/ Mints \/ \E t \in Turns : Moves(t)
  BY <1>5 DEF Sweeps, CancelPending, Mints, Moves, adapterVars
<1> QED BY <1>1, <1>2, <1>3, <1>4, <1>5, AdapterSteps, NewCall, ApproveKinds, LeaveKinds
        DEF AdapterStep

\* A task at a gated call that has not returned stays at it until it ends.
LEMMA AtCallStays ==
  ASSUME TInv, [Next]_vars, active \in Turns, active' = active, ~StartTurn,
         ~SenderDropped(active)', NEW r \in Requests, AtCall(r), requestAt[r] # "returned"
  PROVE  AtCall(r)'
<1> USE AdapterParts
<1>0. r \in DOMAIN calls /\ calls[r].turn = active
  BY DEF AtCall, IsCurrent
<1>1. CASE UNCHANGED taskVars
  BY <1>1 DEF taskVars, AtCall, IsGated, IsCurrent
<1>2. ASSUME NEW t \in Turns, AgentStep(t), t # active
      PROVE  AtCall(r)'
  <2>1. agentAt'[active] = agentAt[active]
    BY <1>2
    DEF AgentStep, EmitText, Emit, BeginCall, ApproveStep, StartTool, FinishCall, FinishTurn,
        LeaveApprove, CloseEvents, TaskEnds, Killed, agentVars, taskVars
  <2>2. CASE UNCHANGED calls
    BY <2>1, <2>2 DEF AtCall, IsGated, IsCurrent
  <2>3. ASSUME NEW tool \in Tools, NEW p \in ProviderIds, BeginCall(t, tool, p)
        PROVE  AtCall(r)'
    <3>1. Begins(Len(calls) + 1, t, tool)
      BY <2>3, NewCall
    <3> QED BY <1>0, <1>2, <2>1, <3>1 DEF Begins, AtCall, IsGated, IsCurrent
  <2> QED BY <1>2, <2>2, <2>3
          DEF AgentStep, EmitText, Emit, ApproveStep, StartTool, FinishCall, FinishTurn,
              LeaveApprove, CloseEvents, TaskEnds, Killed, agentVars, taskVars
<1>3. ASSUME AgentStep(active)
      PROVE  AtCall(r)'
  <2>1. agentAt[active] = "calling" /\ IsGated(r)
    BY DEF AtCall
  <2>2. CurrentCall(active) = r
    <3>1. IsCurrent(CurrentCall(active), active) /\ CurrentCall(active) \in Nat /\ r \in Nat
      BY <2>1, CurrentCallIn DEF TInv, TypeOK
    <3> QED BY <3>1 DEF AtCall, IsCurrent
  <2>3. ~(EmitText(active) \/ FinishTurn(active) \/ StartTool(active) \/ FinishCall(active)
          \/ \E tool \in Tools, p \in ProviderIds : BeginCall(active, tool, p))
    BY <2>1, <2>2 DEF EmitText, FinishTurn, StartTool, FinishCall, BeginCall, Verdict
  <2>4. ~(CloseEvents(active) \/ TaskEnds(active) \/ Killed(active))
    BY DEF CloseEvents, TaskEnds, Killed, SenderDropped
  <2>5. UNCHANGED taskVars
    BY <1>3, <2>3, <2>4 DEF AgentStep, ApproveStep, LeaveApprove, agentVars
  <2> QED BY <1>1, <2>5
<1> QED BY <1>1, <1>2, <1>3, AgentsMove

LEMMA LeftHolds == Spec => []LeftInv
<1>1. LeftInv /\ TInv /\ IInv /\ [Next]_vars => LeftInv'
  BY LeftStep DEF IInv
<1> QED BY <1>1, LeftInit, TypesHold, InvariantHolds, PTL DEF Spec

LEMMA NewIsUnanswered ==
  ASSUME TInv, CallInv, [Next]_vars, NEW r \in Requests,
         requestAt[r] = "new" => answer[r] = "none"
  PROVE  requestAt'[r] = "new" => answer'[r] = "none"
<1> USE AdapterParts
<1>1. ASSUME NEW t \in Turns, NEW tool \in Tools, NEW n, Begins(n, t, tool)
      PROVE  UNCHANGED answer
  BY <1>1 DEF Begins
<1>2. ASSUME NEW c \in Requests, Approves(c) PROVE UNCHANGED answer
  BY <1>2 DEF Approves
<1>3. ASSUME NEW c \in Requests, LeavesCall(c) PROVE UNCHANGED answer
  BY <1>3 DEF LeavesCall
<1>4. ASSUME requestAt[r] = "new" PROVE \A e \in pending : e.req # r
  BY <1>4 DEF CallInv, HasGuard
<1>5. ASSUME Resolves, requestAt[r] = "new" PROVE answer'[r] = answer[r]
  <2>1. UNCHANGED answer \/ \E h, d : \E e \in pending : Rules(e, h, d)
    BY <1>5, HeadHandle, ResolveKinds DEF Resolves
  <2> QED BY <1>4, <1>5, <2>1 DEF Rules
<1>6. ASSUME Sweeps, requestAt[r] = "new" PROVE answer'[r] = answer[r]
  BY <1>4, <1>6 DEF Sweeps, CancelPending
<1>7. ASSUME Mints \/ \E t \in Turns : Moves(t) PROVE UNCHANGED answer
  BY <1>7 DEF Mints, Moves, adapterVars
<1>8. requestAt'[r] = "new" => requestAt[r] = "new"
  BY AskingComes
<1> QED BY <1>1, <1>2, <1>3, <1>5, <1>6, <1>7, <1>8, AdapterSteps, NewCall, ApproveKinds,
           LeaveKinds DEF AdapterStep

\* A task that has not returned had not before.
LEMMA SenderKept ==
  ASSUME TInv, [Next]_vars, NEW t \in Turns, ~SenderDropped(t)', ~StartTurn
  PROVE  ~SenderDropped(t)
<1>1. CASE UNCHANGED taskVars
  BY <1>1 DEF taskVars, SenderDropped
<1>2. CASE \E u \in Turns : AgentStep(u)
  <2>1. PICK u \in Turns : AgentStep(u)
    BY <1>2
  <2> QED BY <2>1, TaskSteps DEF SenderDropped, IsLive
<1> QED BY <1>1, <1>2, AgentsMove

LEMMA AskInit == Init => AskInv
BY DEF Init, ApproverInit, AskInv, Engaged

\* What is in the coordinator's hands came there before, or comes now.
LEMMA NoticesCome ==
  ASSUME TInv, CallInv, [Next]_vars, Engaged', NEW r \in Requests, Noticed(r)', ~Noticed(r)
  PROVE  requestAt[r] = "registered" /\ requestAt'[r] = "waiting"
<1>1. approvals \in Seq(Requests) /\ r # 0
  BY AgentAssumption DEF TInv, TypeOK, ApproverTypeOK
<1>2. CASE UNCHANGED approvals /\ (UNCHANGED approvalBarrier \/ DrainEmpty \/ DrainClosed)
  BY <1>1, <1>2 DEF Noticed, DrainEmpty, DrainClosed
<1>3. CASE RecvNotice
  <2>1. approvals # <<>> /\ approvalBarrier' = Head(approvals) /\ approvals' = Tail(approvals)
    BY <1>3 DEF RecvNotice
  <2>2. 1 \in DOMAIN approvals /\ Head(approvals) = approvals[1]
        /\ \A k \in DOMAIN Tail(approvals) : \E i \in DOMAIN approvals :
             approvals[i] = Tail(approvals)[k]
    BY <1>1, <2>1
  <2> QED BY <2>1, <2>2 DEF Noticed
<1>4. ASSUME NEW s \in Requests, requestAt[s] = "registered", requestAt'[s] = "waiting",
             approvals' = Append(approvals, s), UNCHANGED approvalBarrier
      PROVE  r = s
  <2>1. \A k \in DOMAIN Append(approvals, s) :
          Append(approvals, s)[k] = s \/ \E i \in DOMAIN approvals :
             approvals[i] = Append(approvals, s)[k]
    BY <1>1
  <2> QED BY <1>4, <2>1 DEF Noticed
<1> QED BY <1>2, <1>3, <1>4, NoticesMove DEF Engaged

LEMMA AskStep ==
  ASSUME TInv, TInv', TerminalInv, AInv, IInv, ShownInv, LeftInv, AskInv, [Next]_vars
  PROVE  AskInv'
<1> USE DEF AInv, IInv
<1>1. \A r \in Requests : requestAt'[r] = "new" => answer'[r] = "none"
  BY NewIsUnanswered DEF AskInv
<1>2. CASE ~Engaged'
  BY <1>1, <1>2 DEF AskInv
<1>3. CASE Engaged' /\ StartTurn
  <2>1. /\ pc = "loop" /\ active = 0 /\ UNCHANGED <<requestAt, approvals, approvalBarrier>>
        /\ approvals = <<>> /\ approvalBarrier = 0
    BY <1>3 DEF StartTurn, MustStart, LeftInv, approverVars, adapterVars
  <2>2. ~\E r \in Requests : Asking(r)
    BY <2>1, WaiterIsActive, TurnsNat DEF Asking, InApprove
  <2>3. ~\E r \in Requests : Asking(r)'
    BY <2>1, <2>2 DEF Asking
  <2>4. ~\E r \in Requests : Noticed(r)'
    BY <2>1, AgentAssumption DEF Noticed
  <2> QED BY <1>1, <2>1, <2>3, <2>4 DEF AskInv
<1>4. CASE Engaged' /\ Engaged /\ active' = active /\ ~StartTurn
  <2>1. active \in Turns /\ approvals \in Seq(Requests) /\ approvalBarrier \in Requests \cup {0}
        /\ \A r \in Requests : r # 0
    BY <1>4, EventParts, AgentAssumption
    DEF Engaged, EventTypeOK, TInv, TypeOK, ApproverTypeOK
  <2>2. ASSUME NEW r \in Requests, Asking(r)'
        PROVE  Unasked(r)'
    <3>1. CASE Asking(r)
      <4>1. Unasked(r)
        BY <1>4, <3>1 DEF AskInv
      <4>2. ~(DrainEmpty /\ approvalBarrier = r)
        BY <1>4, <3>1 DEF AskInv, DrainEmpty, Noticed, Asking, Told
      <4> QED BY <1>4, <4>1, <4>2, UnaskedStays
    <3>2. CASE requestAt[r] = "new"
      <4>1. request[r].handle = NoHandle /\ answer[r] = "none"
        BY <3>2 DEF HandlesInv, AskInv
      <4>2. Unasked(r) /\ approvalBarrier # r
        BY <2>1, <4>1 DEF Unasked, ShownInv
      <4> QED BY <1>4, <4>2, UnaskedStays
    <3> QED BY <2>2, <3>1, <3>2, AskingComes
  <2>3. CASE SenderDropped(active)'
    BY <1>1, <1>4, <2>2, <2>3 DEF AskInv
  <2>4. CASE ~SenderDropped(active)'
    <3>1. ~SenderDropped(active)
      BY <1>4, <2>1, <2>4, SenderKept DEF SenderDropped
    <3>2. /\ \A r \in Requests : Noticed(r) => Told(r) /\ AtCall(r) /\ Unasked(r)
          /\ approvals = <<>> \/ (Len(approvals) = 1 /\ approvalBarrier = 0)
      BY <1>4, <3>1 DEF AskInv
    <3>3. ASSUME NEW r \in Requests, Noticed(r)', Noticed(r)
          PROVE  Told(r)' /\ AtCall(r)' /\ Unasked(r)'
      <4>1. Told(r) /\ AtCall(r) /\ Unasked(r)
        BY <3>2, <3>3
      <4>2. ~(DrainEmpty /\ approvalBarrier = r)
        <5>1. ASSUME DrainEmpty, approvalBarrier = r
              PROVE  FALSE
          <6>1. approvals = <<>> /\ approvals' = approvals /\ approvalBarrier' = 0
            BY <2>1, <3>2, <5>1 DEF DrainEmpty, approverVars
          <6> QED BY <2>1, <3>3, <6>1 DEF Noticed
        <5> QED BY <5>1
      <4>3. Told(r)'
        BY <4>1, ToldStays DEF Unasked
      <4>4. AtCall(r)'
        BY <1>4, <2>1, <2>4, <4>1, AtCallStays DEF Told, SenderDropped
      <4> QED BY <1>4, <4>1, <4>2, <4>3, <4>4, UnaskedStays
    <3>4. ASSUME NEW r \in Requests, Noticed(r)', ~Noticed(r)
          PROVE  Told(r)' /\ AtCall(r)' /\ Unasked(r)'
      <4>1. requestAt[r] = "registered" /\ requestAt'[r] = "waiting" /\ approvalBarrier # r
        BY <1>4, <3>4, NoticesCome DEF Noticed
      <4>2. Unasked(r)
        BY <1>4, <4>1 DEF AskInv, Asking
      <4>3. AtCall(r)
        BY <1>4, <4>1, WaiterIsActive DEF CallInv, InApprove, Engaged, AtCall
      <4>4. AtCall(r)'
        BY <1>4, <2>1, <2>4, <4>1, <4>3, AtCallStays DEF SenderDropped
      <4> QED BY <1>4, <4>1, <4>2, <4>4, UnaskedStays DEF Told
    <3>5. approvals' = <<>> \/ (Len(approvals') = 1 /\ approvalBarrier' = 0)
      <4>1. CASE UNCHANGED approvals
                 /\ (UNCHANGED approvalBarrier \/ DrainEmpty \/ DrainClosed)
        BY <3>2, <4>1 DEF DrainEmpty, DrainClosed
      <4>2. CASE RecvNotice
        BY <2>1, <3>2, <4>2 DEF RecvNotice
      <4>3. ASSUME NEW r \in Requests, requestAt[r] = "registered",
                   approvals' = Append(approvals, r), UNCHANGED approvalBarrier
            PROVE  Len(approvals') = 1 /\ approvalBarrier' = 0
        <5>1. ~\E c \in Requests : Noticed(c)
          <6> SUFFICES ASSUME NEW c \in Requests, Noticed(c) PROVE FALSE
            OBVIOUS
          <6>1. Told(c) /\ IsCurrent(c, active)
            BY <3>2 DEF AtCall
          <6>2. IsCurrent(r, active)
            BY <1>4, <4>3, WaiterIsActive DEF CallInv, InApprove, Engaged
          <6>3. c <= r /\ r <= c /\ c \in Nat /\ r \in Nat
            BY <6>1, <6>2, AdapterParts DEF IsCurrent
          <6> QED BY <4>3, <6>1, <6>3 DEF Told
        <5>2. approvalBarrier = 0
          BY <2>1, <5>1 DEF Noticed
        <5>3. approvals = <<>>
          BY <2>1, <5>1 DEF Noticed
        <5> QED BY <2>1, <4>3, <5>2, <5>3
      <4> QED BY <1>4, <4>1, <4>2, <4>3, NoticesMove DEF Engaged
    <3> QED BY <1>1, <1>4, <2>2, <3>3, <3>4, <3>5 DEF AskInv
  <2> QED BY <2>3, <2>4
<1> QED BY <1>2, <1>3, <1>4, EngagedBefore

LEMMA PausedInit == Init => PausedInv
BY DEF Init, AgentInit, PausedInv

LEMMA PausedStep ==
  ASSUME TInv, LeftInv, PausedInv, [Next]_vars
  PROVE  PausedInv'
<1> USE AdapterParts
<1>0. emitted \in [Turns -> Nat]
  BY ChannelTypes
<1>1. CASE UNCHANGED taskVars
  BY <1>1 DEF PausedInv, IsCurrent, taskVars
<1>2. CASE StartTurn
  <2>1. PICK t : StartAgent(t, messages)
    BY <1>2 DEF StartTurn
  <2>2. \A u \in Turns : agentAt'[u] = "calling" => agentAt[u] = "calling"
    BY <2>1 DEF StartAgent
  <2> QED BY <2>1, <2>2 DEF PausedInv, IsCurrent, StartAgent
<1>3. ASSUME NEW t \in Turns, AgentStep(t)
      PROVE  PausedInv'
  <2>1. CASE UNCHANGED <<calls, emitted>>
             /\ \A u \in Turns : agentAt'[u] = "calling" => agentAt[u] = "calling"
    BY <2>1 DEF PausedInv, IsCurrent
  <2>2. ASSUME NEW kind, NEW call, NEW next, Emit(t, kind, call, next), next # "calling"
        PROVE  PausedInv'
    <3>1. /\ UNCHANGED calls /\ agentAt'[t] # "calling"
          /\ \A u \in Turns \ {t} : emitted'[u] = emitted[u] /\ agentAt'[u] = agentAt[u]
      BY <1>0, <2>2 DEF Emit
    <3> QED BY <3>1 DEF PausedInv, IsCurrent
  <2>3. ASSUME NEW tool \in Tools, NEW p \in ProviderIds, BeginCall(t, tool, p)
        PROVE  PausedInv'
    <3> DEFINE n == Len(calls) + 1
    <3>1. /\ DOMAIN calls' = DOMAIN calls \cup {n} /\ UNCHANGED emitted
          /\ \A c \in DOMAIN calls : calls'[c] = calls[c] /\ c < n
          /\ calls'[n].turn = t /\ calls'[n].after = emitted[t] /\ n \in Nat
      BY <2>3 DEF BeginCall
    <3>2. \A u \in Turns \ {t} : agentAt'[u] = agentAt[u]
      BY <2>3 DEF BeginCall
    <3>3. ASSUME NEW u \in Turns, agentAt'[u] = "calling", NEW c \in DOMAIN calls',
                 IsCurrent(c, u)'
          PROVE  calls'[c].after = emitted'[u]
      <4>1. CASE u = t
        <5>1. n <= c
          BY <3>1, <3>3, <4>1 DEF IsCurrent
        <5>2. c = n
          BY <3>1, <5>1
        <5> QED BY <3>1, <4>1, <5>2
      <4>2. CASE u # t
        <5>1. c \in DOMAIN calls /\ IsCurrent(c, u)
          BY <3>1, <3>3, <4>2 DEF IsCurrent
        <5> QED BY <3>1, <3>2, <3>3, <4>2, <5>1 DEF PausedInv
      <4> QED BY <4>1, <4>2
    <3> QED BY <3>3 DEF PausedInv, IsCurrent
  <2>4. CASE EmitText(t) \/ FinishTurn(t) \/ StartTool(t) \/ FinishCall(t)
    BY <2>2, <2>4 DEF EmitText, FinishTurn, StartTool, FinishCall
  <2>5. CASE ApproveStep(t) \/ LeaveApprove(t) \/ TaskEnds(t) \/ CloseEvents(t) \/ Killed(t)
    BY <2>1, <2>5 DEF ApproveStep, LeaveApprove, TaskEnds, CloseEvents, Killed, agentVars, taskVars
  <2> QED BY <1>3, <2>3, <2>4, <2>5 DEF AgentStep
<1> QED BY <1>1, <1>2, <1>3, AgentsMove

LEMMA AskingHolds == Spec => [](AskInv /\ PausedInv)
<1>1. TInv /\ TInv' /\ TerminalInv /\ AInv /\ IInv /\ GInv /\ LeftInv /\ AskInv /\ [Next]_vars
        => AskInv'
  BY AskStep DEF GInv
<1>2. TInv /\ LeftInv /\ PausedInv /\ [Next]_vars => PausedInv'
  BY PausedStep
<1> QED BY <1>1, <1>2, AskInit, PausedInit, TypesHold, TerminalHolds, ApprovalsHold,
           InvariantHolds, GatedHolds, LeftHolds, PTL DEF Spec

\* Ahead of a needs_approval are the events its turn had sent when the call
\* was made: all of them, and no others.
BarrierInv ==
  \A i \in DOMAIN Outward : Outward[i].kind = "NeedsApproval" =>
    LET e == Outward[i] IN
      /\ e.call \in DOMAIN calls /\ e.turn \in Turns
      /\ calls[e.call].after \in Nat
      /\ \A j \in 1..(i - 1) : OfTurn(Outward[j], e.turn) =>
           Outward[j].stamp \in 1..calls[e.call].after
      /\ \A k \in 1..calls[e.call].after :
           \E j \in 1..(i - 1) : OfTurn(Outward[j], e.turn) /\ Outward[j].stamp = k

\* The held needs_approval is of the active turn's call, which has sent nothing
\* since, and all it sent before is outside.
LEMMA BarrierFalls ==
  ASSUME TInv, IInv, AInv, SInv, AskInv, PausedInv, DrainEmpty, writer = "running"
  PROVE  LET e == pendingEvent' IN
         /\ e.call \in DOMAIN calls /\ e.turn \in Turns
         /\ calls[e.call].after \in Nat
         /\ \A j \in DOMAIN Outward : OfTurn(Outward[j], e.turn) =>
              Outward[j].stamp \in 1..calls[e.call].after
         /\ \A k \in 1..calls[e.call].after :
              \E j \in DOMAIN Outward : OfTurn(Outward[j], e.turn) /\ Outward[j].stamp = k
<1> USE AdapterParts DEF SInv
<1> DEFINE c == approvalBarrier
<1>1. /\ pc = "loop" /\ active # 0 /\ c # 0 /\ agentEvents[active] = <<>>
      /\ ~SenderDropped(active) /\ GoingOn
      /\ pendingEvent'.call = c /\ pendingEvent'.turn = active
  BY DEF DrainEmpty, MustDrain, Drained, Event, GoingOn
<1>2. c \in Requests
  BY <1>1 DEF TInv, TypeOK
<1>3. AtCall(c)
  BY <1>1, <1>2 DEF AskInv, Engaged, Noticed
<1>4. active \in Turns /\ calls[c].turn = active /\ agentAt[active] = "calling"
  BY <1>1, <1>3, EventParts DEF AtCall, IsCurrent, EventTypeOK
<1>5. IsCurrent(c, active) /\ c \in DOMAIN calls
  BY <1>3 DEF AtCall, IsCurrent
<1>6. calls[c].after = emitted[active] /\ emitted[active] \in Nat
  BY <1>4, <1>5, ChannelTypes DEF PausedInv
<1>7. Taken(active) = emitted[active]
  BY <1>1, <1>6 DEF Taken
<1>8. \A j \in DOMAIN Outward : OfTurn(Outward[j], active) =>
        Outward[j].stamp \in 1..Taken(active)
  BY DEF SentInv, OfTurn, IsAgents
<1> QED BY <1>1, <1>4, <1>5, <1>6, <1>7, <1>8 DEF FlowInv

LEMMA BarrierStep ==
  ASSUME TInv, TInv', TerminalInv, IInv, AInv, SInv, AskInv, PausedInv, BarrierInv, [Next]_vars
  PROVE  BarrierInv'
<1> DEFINE After(i) ==
      LET e == Outward'[i] IN
      /\ e.call \in DOMAIN calls' /\ e.turn \in Turns
      /\ calls'[e.call].after \in Nat
      /\ \A j \in 1..(i - 1) : OfTurn(Outward'[j], e.turn) =>
           Outward'[j].stamp \in 1..calls'[e.call].after
      /\ \A k \in 1..calls'[e.call].after :
           \E j \in 1..(i - 1) : OfTurn(Outward'[j], e.turn) /\ Outward'[j].stamp = k
<1> SUFFICES ASSUME NEW i \in DOMAIN Outward', Outward'[i].kind = "NeedsApproval"
             PROVE  After(i)
  BY DEF BarrierInv, OfTurn
<1>1. OutwardParts /\ OutwardParts'
  BY OutwardIsParts, PTL
<1>2. /\ DOMAIN Outward = 1..Len(Outward) /\ Len(Outward) \in Nat
      /\ DOMAIN Outward' = 1..Len(Outward') /\ Len(Outward') \in Nat
  BY <1>1 DEF OutwardParts
<1>3. \A c \in DOMAIN calls : c \in DOMAIN calls' /\ calls'[c] = calls[c]
  BY AdapterSteps, Steady DEF AInv
<1>4. CASE i \in DOMAIN Outward /\ \A j \in 1..i : Outward'[j] = Outward[j]
  <2>1. i \in 1..i /\ \A j \in 1..(i - 1) : j \in 1..i
    BY <1>2
  <2>2. Outward[i].kind = "NeedsApproval"
    BY <1>4, <2>1
  <2>3. LET e == Outward[i] IN
        /\ e.call \in DOMAIN calls /\ e.turn \in Turns
        /\ calls[e.call].after \in Nat
        /\ \A j \in 1..(i - 1) : OfTurn(Outward[j], e.turn) =>
             Outward[j].stamp \in 1..calls[e.call].after
        /\ \A k \in 1..calls[e.call].after :
             \E j \in 1..(i - 1) : OfTurn(Outward[j], e.turn) /\ Outward[j].stamp = k
    BY <1>4, <2>2 DEF BarrierInv
  <2> QED BY <1>3, <1>4, <2>1, <2>3
<1>5. CASE OutwardKeeps
  <2>1. i \in 1..Len(Outward) /\ \A j \in 1..i : j \in DOMAIN Outward'
    BY <1>2, <1>5 DEF OutwardKeeps
  <2> QED BY <1>2, <1>4, <1>5, <2>1 DEF OutwardKeeps
<1>6. ASSUME NEW f, OutwardAdds(f), i <= Len(Outward)
      PROVE  After(i)
  <2>1. i \in 1..Len(Outward) /\ \A j \in 1..i : j \in DOMAIN Outward
    BY <1>2, <1>6
  <2> QED BY <1>2, <1>4, <1>6, <2>1 DEF OutwardAdds
<1>7. ASSUME NEW f, OutwardAdds(f), i > Len(Outward), IsTerminal(f) \/ f.kind \in AgentEventKinds
      PROVE  FALSE
  <2>1. i = Len(Outward) + 1 /\ Outward'[i] = f
    BY <1>2, <1>7 DEF OutwardAdds
  <2> QED BY <1>7, <2>1 DEF AgentEventKinds, IsTerminal, TerminalKinds
<1>8. CASE DrainEmpty /\ OutwardAdds(pendingEvent') /\ i > Len(Outward) /\ writer = "running"
  <2>1. /\ i = Len(Outward) + 1 /\ Outward'[i] = pendingEvent'
        /\ 1..(i - 1) = DOMAIN Outward
        /\ \A j \in DOMAIN Outward : Outward'[j] = Outward[j]
    BY <1>2, <1>8 DEF OutwardAdds
  <2> QED BY <1>3, <1>8, <2>1, BarrierFalls
<1>9. CASE Takes /\ OutwardAdds(pendingEvent')
  <2>1. pendingEvent'.kind \in AgentEventKinds
    BY <1>9, TakesHead DEF Takes1, AgentEvent
  <2>2. i <= Len(Outward)
    BY <1>2, <1>7, <1>9, <2>1
  <2> QED BY <1>6, <1>9, <2>2
<1>10. CASE IsTerminal(terminal) /\ OutwardAdds(terminal)
  <2>1. i <= Len(Outward)
    BY <1>2, <1>7, <1>10
  <2> QED BY <1>6, <1>10, <2>1
<1>11. CASE DrainEmpty /\ writer = "running" /\ OutwardAdds(pendingEvent')
  <2>1. i <= Len(Outward) \/ i > Len(Outward)
    BY <1>2
  <2> QED BY <1>6, <1>8, <1>11, <2>1
<1> QED BY <1>5, <1>9, <1>10, <1>11, OutwardMoves DEF OutwardMove

LEMMA BarrierHolds == Spec => []BarrierInv
<1>1. Init => BarrierInv
  <2>1. Init => Outward = <<>>
    BY DEF Init, IOInit, Outward, Holding
  <2>2. DOMAIN <<>> = {}
    OBVIOUS
  <2> QED BY <2>1, <2>2 DEF BarrierInv
<1>2. TInv /\ TInv' /\ TerminalInv /\ IInv /\ AInv /\ SInv /\ AskInv /\ PausedInv /\ BarrierInv
        /\ [Next]_vars => BarrierInv'
  BY BarrierStep
<1> QED BY <1>1, <1>2, TypesHold, TerminalHolds, InvariantHolds, ApprovalsHold, SentHolds,
           AskingHolds, PTL DEF Spec

\* needs_approval is a barrier, in every reachable state: ahead of it outside
\* is what its turn had sent when it made the call, all of it, and nothing that
\* was sent after.
THEOREM NeedsApprovalIsABarrier == Spec => []ApprovalIsABarrier
<1>1. TInv /\ SInv /\ BarrierInv => ApprovalIsABarrier
  <2> SUFFICES ASSUME TInv, SInv, BarrierInv, NEW i \in DOMAIN Outward,
                      Outward[i].kind = "NeedsApproval"
               PROVE  Cardinality(Before(Outward, i, LAMBDA f : OfTurn(f, Outward[i].turn)))
                        = calls[Outward[i].call].after
    BY DEF ApprovalIsABarrier
  <2> DEFINE t == Outward[i].turn
             S == {j \in 1..(i - 1) : OfTurn(Outward[j], t)}
  <2>1. OutwardParts
    BY OutwardIsParts
  <2>2. 1..(i - 1) \subseteq DOMAIN Outward
    BY <2>1 DEF OutwardParts
  <2>3. /\ t \in Turns /\ calls[Outward[i].call].after \in Nat
        /\ \A j \in S : j \in DOMAIN Outward /\ OfTurn(Outward[j], t)
                        /\ Outward[j].stamp \in 1..calls[Outward[i].call].after
        /\ \A k \in 1..calls[Outward[i].call].after : \E j \in S : Outward[j].stamp = k
    BY <2>2 DEF BarrierInv
  <2> HIDE DEF S, t
  <2>4. Cardinality(S) = calls[Outward[i].call].after
    BY <2>1, <2>3, CountByStamp DEF SInv
  <2> QED BY <2>4 DEF Before, S, t
<1> QED BY <1>1, SentHolds, BarrierHolds, TypesHold, PTL

-----------------------------------------------------------------------------
(***************************************************************************)
(* A handle identifies one call for the peer as long as the provider gives *)
(* no id to two calls of a turn.  The mapper's table is keyed by the       *)
(* provider's ids, and its entries are written by the agent task inside    *)
(* approve() and read, written and removed by the coordinator, which is    *)
(* behind it by what is in the channel of events.  EntryInv says what must *)
(* hold of the entry between the two: as long as an event of a call is to  *)
(* come, the entry under its id holds the handle under which the peer      *)
(* knows the call, and no other.                                           *)
(***************************************************************************)

ShownKinds == {"NeedsApproval", "ToolStart", "ToolResult"}
Shown(e) == Goes(e) /\ e.kind \in ShownKinds

\* Entries are handles that were drawn, each under one id.
MapInv ==
  /\ \A p \in ProviderIds : callIds[p] <= minted
  /\ \A p, q \in ProviderIds : callIds[p] = callIds[q] /\ callIds[p] # NoHandle => p = q

\* A call's turn has started; approve() knows it by its own id; and with
\* distinct ids a turn's calls are told apart by them.
NamesInv ==
  /\ \A c \in DOMAIN calls : agentAt[calls[c].turn] # "none"
  /\ \A r \in Requests : requestAt[r] = "admitted" => request[r].callId = calls[r].callId
  /\ ~ReuseIds => \A c, d \in DOMAIN calls :
       calls[c].turn = calls[d].turn /\ calls[c].callId = calls[d].callId => c = d

\* What is shown is of a call that has its handle, if it is ever to have one.
AskedInv ==
  \A e : Shown(e) => e.call \in DOMAIN calls /\ ~Asking(e.call) /\ e.handle \in 1..minted

\* The call its turn's task is in the middle of.
Open(c) == agentAt[calls[c].turn] \in {"calling", "executing"} /\ IsCurrent(c, calls[c].turn)
IsToolOf(e, c) == e.kind \in ToolEvents /\ e.call = c

\* In a channel are events of the turn's own calls, and a result is the last
\* event of its call.
ToolsInv ==
  \A t \in Turns : \A k \in DOMAIN agentEvents[t] :
    LET e == agentEvents[t][k] IN
    e.kind \in ToolEvents =>
      /\ calls[e.call].turn = t /\ ~Asking(e.call)
      /\ e.kind = "ToolResult" =>
           /\ ~Open(e.call)
           /\ \A l \in DOMAIN agentEvents[t] : l > k => ~IsToolOf(agentEvents[t][l], e.call)

\* Events of call c may still come.
ToCome(c) ==
  Open(c) \/ \E k \in DOMAIN agentEvents[calls[c].turn] :
               IsToolOf(agentEvents[calls[c].turn][k], c)

EntryOf(c) == callIds[calls[c].callId]

\* The entry under a call's id is the call's handle, for all that it has shown.
HasEntry(c) ==
  /\ request[c].handle # NoHandle => EntryOf(c) = request[c].handle
  /\ \A e : Shown(e) => (e.handle = EntryOf(c) <=> e.call = c)

Unused(p) == \A c \in DOMAIN calls : calls[c].turn = active => calls[c].callId # p

EntryInv ==
  Engaged =>
    /\ \A c \in DOMAIN calls : calls[c].turn = active /\ ToCome(c) => HasEntry(c)
    /\ \A p \in ProviderIds : Unused(p) => callIds[p] = NoHandle

OneHandleInv == \A e, f : Shown(e) /\ Shown(f) => (e.handle = f.handle <=> e.call = f.call)

NInv == MapInv /\ NamesInv /\ AskedInv /\ ToolsInv

-----------------------------------------------------------------------------
(* The kinds of step                                                       *)

LEMMA MapperParts ==
  ASSUME TInv
  PROVE  /\ callIds \in [ProviderIds -> Nat] /\ minted \in Nat
         /\ \A c \in DOMAIN calls : calls[c].callId \in ProviderIds /\ calls[c].turn \in Turns
BY AdapterParts DEF TInv, TypeOK, MapperTypeOK, Call

\* A shown event was shown before, was the first of its turn's channel, or is
\* the barrier's.
LEMMA ShownComes ==
  ASSUME TInv, TerminalInv, [Next]_vars, NEW e, Shown(e)'
  PROVE  Shown(e) \/ ((Takes \/ DrainEmpty) /\ e = pendingEvent')
<1> USE EventParts DEF EventTypeOK
<1>0. e.kind \in ShownKinds /\ Goes(e)' /\ e # NoEvent /\ ~IsTerminal(e)
  BY DEF Shown, ShownKinds, NoEvent, Event, IsTerminal, TerminalKinds
<1>1. CASE e = pendingEvent'
  BY <1>0, <1>1, HeldComes DEF Shown, Goes
<1>2. CASE \E i \in DOMAIN wire' : e = wire'[i]
  BY <1>0, <1>2, WireGrows DEF Shown, Goes
<1>3. CASE \E i \in DOMAIN events' : e = events'[i]
  <2>1. PICK i \in DOMAIN events' : e = events'[i]
    BY <1>3
  <2>2. CASE events # <<>> /\ events' = Tail(events)
    <3>1. i + 1 \in DOMAIN events /\ events'[i] = events[i + 1]
      BY <2>1, <2>2
    <3> QED BY <1>0, <2>1, <3>1 DEF Shown, Goes
  <2>3. CASE events' \in {events, <<>>}
    BY <1>0, <2>1, <2>3 DEF Shown, Goes
  <2>4. ASSUME NEW x \in {pendingEvent, terminal}, events' = Append(events, x)
        PROVE  (\E k \in DOMAIN events : e = events[k]) \/ e = x
    BY <2>1, <2>4
  <2> QED BY <1>0, <2>2, <2>3, <2>4, QueuesMove DEF Shown, Goes
<1> QED BY <1>0, <1>1, <1>2, <1>3 DEF Goes

\* A task sends an event; one of a tool is of the call it is in the middle of.
Gives(t, kind, c, next) ==
  /\ agentEvents' = [agentEvents EXCEPT ![t] =
       Append(@, [kind |-> kind, turn |-> t, stamp |-> emitted[t] + 1, call |-> c])]
  /\ agentAt' = [agentAt EXCEPT ![t] = next]
  /\ UNCHANGED <<mapperVars, requestAt, request, calls>>
  /\ kind \notin ToolEvents => next \in {"working", "finishing"}
  /\ kind \in ToolEvents =>
       /\ IsCurrent(c, t) /\ agentAt[t] \in {"calling", "executing"} /\ ~Asking(c)
       /\ \/ kind = "ToolStart" /\ next = "executing"
          \/ kind = "ToolResult" /\ next = "working"

\* A call is given its handle, inside approve().
Names(t, c) ==
  /\ requestAt[c] = "admitted" /\ IsCurrent(c, t) /\ agentAt[t] = "calling"
  /\ callIds' = [callIds EXCEPT ![request[c].callId] = minted + 1]
  /\ minted' = minted + 1
  /\ \E n \in [tool : Tools \cup {"none"}, callId : ProviderIds \cup {"none"}, handle : Nat] :
       n.handle = minted + 1 /\ request' = [request EXCEPT ![c] = n]
  /\ requestAt' = [requestAt EXCEPT ![c] = "named"]
  /\ UNCHANGED <<agentEvents, agentAt, calls>>

\* A task goes on inside approve(), or ends.
GoesOnOrEnds(t) ==
  /\ \/ UNCHANGED agentAt
     \/ \E s \in {"closing", "ended"} : agentAt' = [agentAt EXCEPT ![t] = s]
  /\ \A r \in Requests : requestAt'[r] = "admitted" => requestAt[r] = "admitted"
  /\ UNCHANGED <<mapperVars, request, calls, agentEvents>>

LEMMA TaskKinds ==
  ASSUME TInv, CallInv, NEW t \in Turns, AgentStep(t)
  PROVE  \/ \E kind, c, next : Gives(t, kind, c, next)
         \/ \E tool \in Tools, p \in ProviderIds : BeginCall(t, tool, p)
         \/ \E c \in Requests : Names(t, c)
         \/ GoesOnOrEnds(t)
<1> DEFINE c == CurrentCall(t)
<1> USE AdapterParts DEF mapperVars, approverVars, adapterVars, agentVars, taskVars
<1>1. agentAt[t] \in {"calling", "executing"} => IsCurrent(c, t) /\ c \in Requests
  BY CurrentCallIn DEF TInv, AgentCalls, IsCurrent, TypeOK
<1>2. CASE EmitText(t) \/ FinishTurn(t)
  <2>1. \E kind \in {"Text", "TurnFinished"}, next \in {"working", "finishing"} :
          Emit(t, kind, 0, next)
    BY <1>2 DEF EmitText, FinishTurn
  <2> QED BY <2>1 DEF Emit, Gives, ToolEvents
<1>3. CASE StartTool(t) \/ FinishCall(t)
  <2>1. agentAt[t] \in {"calling", "executing"}
        /\ (agentAt[t] # "calling" \/ ~IsGated(c) \/ ~InApprove(c))
    BY <1>3 DEF StartTool, FinishCall, Verdict, InApprove
  <2>2. ~InApprove(c)
    BY <1>1, <2>1, Outside DEF IsCurrent
  <2>3. ~Asking(c)
    BY <2>2 DEF InApprove, Asking
  <2>4. PICK kind, next : /\ Emit(t, kind, c, next)
                          /\ \/ kind = "ToolStart" /\ next = "executing"
                             \/ kind = "ToolResult" /\ next = "working"
    BY <1>3 DEF StartTool, FinishCall
  <2> HIDE DEF c
  <2>5. Gives(t, kind, c, next)
    <3>1. /\ agentEvents' = [agentEvents EXCEPT ![t] =
               Append(@, [kind |-> kind, turn |-> t, stamp |-> emitted[t] + 1, call |-> c])]
          /\ agentAt' = [agentAt EXCEPT ![t] = next]
          /\ UNCHANGED <<mapperVars, requestAt, request, calls>>
      BY ONLY <2>4 DEF Emit, mapperVars, approverVars, adapterVars
    <3>2. IsCurrent(c, t) /\ agentAt[t] \in {"calling", "executing"} /\ ~Asking(c)
      BY <1>1, <2>1, <2>3
    <3>3. /\ kind \in ToolEvents
          /\ \/ kind = "ToolStart" /\ next = "executing"
             \/ kind = "ToolResult" /\ next = "working"
      BY <2>4 DEF ToolEvents
    <3> QED BY ONLY <3>1, <3>2, <3>3 DEF Gives
  <2> QED BY <2>5
<1>4. CASE ApproveStep(t)
  <2>1. agentAt[t] = "calling"
    BY <1>4 DEF ApproveStep
  <2>2. CASE NameCall(c)
    <3>1. /\ requestAt[c] = "admitted" /\ UNCHANGED agentVars
          /\ requestAt' = [requestAt EXCEPT ![c] = "named"]
          /\ callIds' = [callIds EXCEPT ![request[c].callId] = minted + 1]
          /\ minted' = minted + 1
      BY <1>4, <2>2 DEF ApproveStep, NameCall, StartApproval, NewHandle
    <3> DEFINE n == [tool |-> request[c].tool, callId |-> request[c].callId,
                     handle |-> minted + 1]
    <3>2. /\ request' = [request EXCEPT ![c] = n] /\ n.handle = minted + 1
          /\ n \in [tool : Tools \cup {"none"}, callId : ProviderIds \cup {"none"},
                    handle : Nat]
      BY <1>1, <2>1, <2>2 DEF NameCall, NewHandle
    <3> HIDE DEF n, c
    <3>3. Names(t, c)
      BY <1>1, <2>1, <3>1, <3>2 DEF Names
    <3> QED BY <1>1, <2>1, <3>3
  <2>3. CASE Register(c) \/ SendNotice(c) \/ Answered(c) \/ GuardRuns(c)
    <3>1. GoesOnOrEnds(t)
      BY <1>4, <2>3 DEF ApproveStep, GoesOnOrEnds, Register, SendNotice, Answered,
                         GuardRuns, Return
    <3> QED BY <3>1
  <2> QED BY <1>4, <2>2, <2>3 DEF ApproveStep
<1>5. CASE LeaveApprove(t) \/ TaskEnds(t) \/ CloseEvents(t) \/ Killed(t)
  BY <1>5 DEF GoesOnOrEnds, TaskEnds, CloseEvents, Killed, LeaveApprove, Abort
<1> QED BY <1>2, <1>3, <1>4, <1>5 DEF AgentStep

\* Every other step leaves the calls and the table alone, or ends the turn.
Others ==
  /\ UNCHANGED <<taskVars, agentEvents, requestAt, request, minted>>
  /\ UNCHANGED callIds \/ (ClearCallIds /\ ~Engaged')

LEMMA HandleSteps ==
  ASSUME TInv, [Next]_vars
  PROVE  \/ Takes
         \/ StartTurn
         \/ \E t \in Turns : AgentStep(t) /\ UNCHANGED <<ioVars, coordinatorVars>>
         \/ Others
<1> USE DEF Others, mapperVars, approverVars, adapterVars, agentVars
<1>1. CASE SendPending \/ SendTerminal \/ TerminalGivesUp
  BY <1>1 DEF SendPending, SendTerminal, TerminalGivesUp
<1>2. CASE CancelCompletes \/ CancelTimesOut \/ StopAborted \/ Cleanup
  BY <1>2 DEF CancelCompletes, CancelTimesOut, StopAborted, Cleanup, ForgetTurn, CancelPending,
              ClearCallIds, Engaged
<1>3. CASE RecvEvent \/ DrainEvent
  BY <1>3 DEF RecvEvent, DrainEvent, EventArm, Selecting, MustDrain, Takes
<1>4. CASE RecvApprove
  BY <1>4 DEF RecvApprove, Resolve
<1>5. CASE CommandArm /\ ~RecvApprove
  BY <1>5 DEF CommandArm, RecvInput, RecvCancel, RecvStop, RecvEnd
<1>6. CASE WriterClosed \/ RecvNotice \/ EventsClosed \/ DrainEmpty \/ DrainClosed
  BY <1>6 DEF WriterClosed, RecvNotice, EventsClosed, DrainEmpty, DrainClosed
<1>7. CASE JoinOk \/ JoinFailed \/ WriterEnds \/ Exit
  BY <1>7 DEF JoinOk, JoinFailed, Joined, WriterEnds, Exit, ClearCallIds, Engaged
<1>8. CASE Reader \/ Writer \/ UNCHANGED vars \/ \E t \in Turns : Agent(t)
  BY <1>8 DEF Reader, Writer, Agent, vars
<1> QED BY <1>1, <1>2, <1>3, <1>4, <1>5, <1>6, <1>7, <1>8 DEF Next, Select, Straight, Terminated

\* A call that is not on its way to its await will not be.
LEMMA AskingOfCalls ==
  ASSUME TInv, CallInv, [Next]_vars, NEW c \in DOMAIN calls, ~Asking(c)
  PROVE  ~Asking(c)'
<1> USE AdapterParts DEF Asking
<1>1. ASSUME NEW t \in Turns, NEW tool \in Tools, NEW n, Begins(n, t, tool)
      PROVE  requestAt'[c] = requestAt[c]
  BY <1>1 DEF Begins
<1>2. ASSUME NEW r \in Requests, Approves(r) PROVE ~Asking(c)'
  BY <1>2 DEF Approves
<1>3. ASSUME NEW r \in Requests, LeavesCall(r) PROVE ~Asking(c)'
  BY <1>3 DEF LeavesCall
<1>4. CASE Resolves
  BY <1>4, HeadHandle, ResolveKinds DEF Resolves
<1>5. CASE Sweeps \/ Mints \/ \E t \in Turns : Moves(t)
  BY <1>5 DEF Sweeps, CancelPending, Mints, Moves, adapterVars
<1> QED BY <1>1, <1>2, <1>3, <1>4, <1>5, AdapterSteps, NewCall, ApproveKinds, LeaveKinds
        DEF AdapterStep

\* What a begun call is, and what it leaves alone.
CallBegun(t, p) ==
  LET n == Len(calls) + 1 IN
  /\ n \in Requests /\ n \in Nat
  /\ DOMAIN calls' = DOMAIN calls \cup {n}
  /\ \A c \in DOMAIN calls : calls'[c] = calls[c] /\ c < n
  /\ calls'[n].turn = t /\ calls'[n].callId = p
  /\ agentAt[t] = "working" /\ agentAt' = [agentAt EXCEPT ![t] = "calling"]
  /\ requestAt'[n] = "admitted" => request'[n].callId = p
  /\ \A r \in Requests \ {n} : requestAt'[r] = requestAt[r] /\ request'[r] = request[r]
  /\ request[n].handle = NoHandle => request'[n].handle = NoHandle
  /\ ~ReuseIds => \A c \in DOMAIN calls : calls[c].turn = t => calls[c].callId # p
  /\ UNCHANGED <<mapperVars, agentEvents>>

LEMMA CallBegins ==
  ASSUME TInv, CallInv, HandlesInv, NEW t \in Turns, NEW tool \in Tools, NEW p \in ProviderIds,
         BeginCall(t, tool, p)
  PROVE  CallBegun(t, p)
<1> USE AdapterParts DEF mapperVars, approverVars, adapterVars
<1> DEFINE n == Len(calls) + 1
<1>1. /\ n \in Requests /\ n \in Nat
      /\ agentAt[t] = "working" /\ agentAt' = [agentAt EXCEPT ![t] = "calling"]
      /\ UNCHANGED <<mapperVars, agentEvents>>
      /\ ~ReuseIds => \A c \in DOMAIN calls : calls[c].turn = t => calls[c].callId # p
  <2>1. n \in Requests /\ n \in Nat
    BY AgentAssumption DEF BeginCall
  <2>2. UNCHANGED <<mapperVars, agentEvents>>
    BY DEF BeginCall, Approve
  <2> QED BY <2>1, <2>2 DEF BeginCall
<1>2. /\ DOMAIN calls' = DOMAIN calls \cup {n}
      /\ \A c \in DOMAIN calls : calls'[c] = calls[c] /\ c < n
      /\ calls'[n].turn = t /\ calls'[n].callId = p
  BY DEF BeginCall
<1>3. \A r \in Requests \ {n} : requestAt'[r] = requestAt[r] /\ request'[r] = request[r]
  BY DEF BeginCall, Approve, Return
<1>4. requestAt[n] # "admitted"
  <2>1. n \notin DOMAIN calls
    OBVIOUS
  <2> QED BY <1>1, <2>1 DEF CallInv, InApprove
<1>5. requestAt'[n] = "admitted" => request'[n].callId = p
  BY <1>1, <1>4 DEF BeginCall, Approve
<1>6. request[n].handle = NoHandle => request'[n].handle = NoHandle
  BY <1>1 DEF BeginCall, Approve
<1> HIDE DEF n
<1> QED BY <1>1, <1>2, <1>3, <1>5, <1>6 DEF CallBegun, n

\* What taking an event does to the table.
TakesTool(e) ==
  LET id == calls[e.call].callId IN
  /\ e.kind \in ToolEvents /\ e.call \in DOMAIN calls /\ id \in ProviderIds
  /\ e.call = pendingEvent'.call /\ pendingEvent'.handle = HandleFor(id)
  /\ minted' = IF callIds[id] = NoHandle THEN minted + 1 ELSE minted
  /\ \/ e.kind = "ToolStart" /\ callIds' = [callIds EXCEPT ![id] = HandleFor(id)]
     \/ e.kind = "ToolResult" /\ callIds' = [callIds EXCEPT ![id] = NoHandle]

LEMMA TakesMap ==
  ASSUME TInv, Takes
  PROVE  LET e == Head(agentEvents[active]) IN
         /\ UNCHANGED <<calls, agentAt, requestAt, request>>
         /\ active \in Turns /\ agentEvents[active] # <<>> /\ e = agentEvents[active][1]
         /\ agentEvents' = [agentEvents EXCEPT ![active] = Tail(@)]
         /\ 1 \in DOMAIN agentEvents[active] /\ pendingEvent'.kind = e.kind
         /\ \/ e.kind \notin ToolEvents /\ UNCHANGED mapperVars
            \/ TakesTool(e)
<1> DEFINE e == Head(agentEvents[active])
<1> USE DEF mapperVars, approverVars, adapterVars
<1>1. Takes1(e, pendingEvent') /\ active \in Turns
  BY TakesHead
<1>2. UNCHANGED <<requestAt, request>>
  BY DEF Takes, TakeEvent
<1>3. CASE e.kind \notin ToolEvents
  <2>1. UNCHANGED mapperVars
    BY <1>3 DEF Takes, TakeEvent, MapAgentEvent, ToolEvents
  <2> QED BY <1>1, <1>2, <1>3, <2>1 DEF Takes1
<1>4. CASE e.kind \in ToolEvents
  <2> DEFINE id == calls[e.call].callId
  <2>1. e.call \in DOMAIN calls
    BY <1>1, <1>4 DEF Takes1, TInv, AgentCalls
  <2>2. id \in ProviderIds
    BY <2>1, MapperParts
  <2>3. /\ pendingEvent' = Event(e.kind, e.turn, e.stamp, e.call, HandleFor(id))
        /\ \/ e.kind = "ToolStart" /\ StartEvent(id)
           \/ e.kind = "ToolResult" /\ Finish(id)
    BY <1>4 DEF Takes, TakeEvent, MapAgentEvent, ToolEvents
  <2> HIDE DEF e
  <2>4. pendingEvent'.handle = HandleFor(id)
    BY <2>3 DEF Event
  <2>5. TakesTool(e)
    BY <1>1, <1>4, <2>1, <2>2, <2>3, <2>4
    DEF TakesTool, Takes1, StartEvent, Finish, NewHandle
  <2> QED BY <1>1, <1>2, <2>5 DEF Takes1, e
<1> QED BY <1>3, <1>4

\* A turn that starts has made no call.
LEMMA TurnBegins ==
  ASSUME TInv, NamesInv, StartTurn
  PROVE  /\ UNCHANGED <<calls, requestAt, request, mapperVars, agentEvents, pendingEvent>>
         /\ active' \in Turns /\ \A c \in DOMAIN calls : calls[c].turn # active'
         /\ agentAt' = [agentAt EXCEPT ![active'] = "working"]
         /\ pc = "loop" /\ active = 0
<1>1. active' = Head(queuedInputs) /\ StartAgent(active', messages) /\ queuedInputs # <<>>
  BY DEF StartTurn, MustStart
<1>2. active' \in Turns
  BY <1>1 DEF TInv, TypeOK
<1> QED BY <1>1, <1>2
        DEF StartTurn, StartAgent, MustStart, NamesInv, mapperVars, approverVars, adapterVars

-----------------------------------------------------------------------------
(* The table, the calls and the channels                                   *)

\* A new handle under some id.
LEMMA FreshEntry ==
  ASSUME TInv, MapInv, NEW p, callIds' = [callIds EXCEPT ![p] = minted + 1], minted' = minted + 1
  PROVE  MapInv'
<1>1. \A q \in ProviderIds : callIds[q] \in Nat /\ callIds[q] <= minted /\ minted \in Nat
  BY MapperParts DEF MapInv
<1>2. \A q \in ProviderIds : callIds'[q] = IF q = p THEN minted + 1 ELSE callIds[q]
  BY MapperParts
<1> QED BY <1>1, <1>2 DEF MapInv

LEMMA MapStep ==
  ASSUME TInv, AInv, NamesInv, MapInv, [Next]_vars
  PROVE  MapInv'
<1> USE MapperParts
<1>1. CASE UNCHANGED mapperVars
  BY <1>1 DEF mapperVars, MapInv
<1>2. CASE Takes
  <2> DEFINE e == Head(agentEvents[active])
             id == calls[e.call].callId
  <2>1. CASE TakesTool(e) /\ callIds[id] = NoHandle /\ e.kind = "ToolStart"
    <3>1. callIds' = [callIds EXCEPT ![id] = minted + 1] /\ minted' = minted + 1
      BY <2>1 DEF TakesTool, HandleFor, NewHandle
    <3> QED BY <3>1, FreshEntry
  <2>2. CASE TakesTool(e) /\ callIds[id] # NoHandle /\ e.kind = "ToolStart"
    <3>1. callIds' = [callIds EXCEPT ![id] = callIds[id]] /\ minted' = minted
      BY <2>2 DEF TakesTool, HandleFor
    <3>2. callIds' = callIds
      BY <3>1
    <3> QED BY <3>1, <3>2 DEF MapInv
  <2>3. CASE TakesTool(e) /\ e.kind = "ToolResult"
    <3>1. callIds' = [callIds EXCEPT ![id] = NoHandle] /\ minted' \in {minted, minted + 1}
      BY <2>3 DEF TakesTool
    <3> QED BY <3>1 DEF MapInv, NoHandle
  <2> QED BY <1>1, <1>2, <2>1, <2>2, <2>3, TakesMap DEF TakesTool, ToolEvents
<1>3. CASE StartTurn
  BY <1>1, <1>3, TurnBegins
<1>4. CASE \E t \in Turns : AgentStep(t)
  <2>1. PICK t \in Turns : AgentStep(t)
    BY <1>4
  <2>2. ASSUME NEW c \in Requests, Names(t, c) PROVE MapInv'
    BY <2>2, FreshEntry DEF Names
  <2>3. CASE \E tool \in Tools, p \in ProviderIds : BeginCall(t, tool, p)
    BY <1>1, <2>3, CallBegins DEF CallBegun, AInv
  <2>4. CASE (\E kind, c, next : Gives(t, kind, c, next)) \/ GoesOnOrEnds(t)
    BY <1>1, <2>4 DEF Gives, GoesOnOrEnds
  <2> QED BY <2>1, <2>2, <2>3, <2>4, TaskKinds DEF AInv
<1>5. CASE Others
  BY <1>5 DEF Others, ClearCallIds, MapInv, NoHandle
<1> QED BY <1>2, <1>3, <1>4, <1>5, HandleSteps

LEMMA NamesStep ==
  ASSUME TInv, AInv, NamesInv, [Next]_vars
  PROVE  NamesInv'
<1> USE AdapterParts, MapperParts
<1>0. \A u \in Turns : agentAt[u] # "none" => agentAt'[u] # "none"
  BY CoreTypes, CoreSteps, NotStarted
<1>1. CASE UNCHANGED <<calls, request>>
           /\ \A r \in Requests : requestAt'[r] = "admitted" => requestAt[r] = "admitted"
  BY <1>0, <1>1 DEF NamesInv
<1>2. CASE Takes
  BY <1>1, <1>2, TakesMap
<1>3. CASE StartTurn
  BY <1>1, <1>3, TurnBegins
<1>4. CASE \E t \in Turns : AgentStep(t)
  <2>1. PICK t \in Turns : AgentStep(t)
    BY <1>4
  <2>2. ASSUME NEW c \in Requests, Names(t, c)
        PROVE  NamesInv'
    <3>1. /\ UNCHANGED calls
          /\ \A r \in Requests : requestAt'[r] = "admitted" =>
               requestAt[r] = "admitted" /\ request'[r] = request[r]
      BY <2>2 DEF Names
    <3> QED BY <1>0, <3>1 DEF NamesInv
  <2>3. ASSUME NEW p, CallBegun(t, p)
        PROVE  NamesInv'
    <3> DEFINE n == Len(calls) + 1
    <3>1. /\ DOMAIN calls' = DOMAIN calls \cup {n} /\ calls'[n].turn = t /\ calls'[n].callId = p
          /\ \A c \in DOMAIN calls : calls'[c] = calls[c] /\ c # n
          /\ requestAt'[n] = "admitted" => request'[n].callId = p
          /\ \A r \in Requests \ {n} : requestAt'[r] = requestAt[r] /\ request'[r] = request[r]
          /\ ~ReuseIds => \A c \in DOMAIN calls : calls[c].turn = t => calls[c].callId # p
          /\ agentAt'[t] # "none"
      BY <2>3 DEF CallBegun
    <3>2. \A r \in Requests : requestAt[r] = "admitted" => r \in DOMAIN calls
      BY DEF AInv, CallInv, InApprove
    <3> HIDE DEF n
    <3>3. \A c \in DOMAIN calls' : agentAt'[calls'[c].turn] # "none"
      BY <1>0, <3>1 DEF NamesInv
    <3>4. \A r \in Requests : requestAt'[r] = "admitted" => request'[r].callId = calls'[r].callId
      BY <3>1, <3>2 DEF NamesInv
    <3>5. ~ReuseIds => \A c, d \in DOMAIN calls' :
            calls'[c].turn = calls'[d].turn /\ calls'[c].callId = calls'[d].callId => c = d
      <4> SUFFICES ASSUME ~ReuseIds, NEW c \in DOMAIN calls', NEW d \in DOMAIN calls',
                          calls'[c].turn = calls'[d].turn, calls'[c].callId = calls'[d].callId
                   PROVE  c = d
        OBVIOUS
      <4>1. CASE c \in DOMAIN calls /\ d \in DOMAIN calls
        BY <3>1, <4>1 DEF NamesInv
      <4>2. CASE c = n \/ d = n
        BY <3>1, <4>2
      <4> QED BY <3>1, <4>1, <4>2
    <3> QED BY <3>3, <3>4, <3>5 DEF NamesInv
  <2>4. CASE (\E kind, c, next : Gives(t, kind, c, next)) \/ GoesOnOrEnds(t)
    BY <1>1, <2>4 DEF Gives, GoesOnOrEnds
  <2> QED BY <2>1, <2>2, <2>3, <2>4, TaskKinds, CallBegins DEF AInv
<1>5. CASE Others
  BY <1>1, <1>5 DEF Others, taskVars
<1> QED BY <1>2, <1>3, <1>4, <1>5, HandleSteps

LEMMA MintedGrows ==
  ASSUME TInv, CallInv, [Next]_vars
  PROVE  minted \in Nat /\ minted' \in Nat /\ minted <= minted'
<1> DEFINE Grows == minted' \in {minted, minted + 1}
<1>1. ASSUME NEW c \in Requests, Approves(c) PROVE Grows
  BY <1>1 DEF Approves
<1>2. ASSUME NEW c \in Requests, LeavesCall(c) PROVE Grows
  BY <1>2 DEF LeavesCall
<1>3. ASSUME NEW t \in Turns, NEW tool \in Tools, NEW n, Begins(n, t, tool) PROVE Grows
  BY <1>3 DEF Begins
<1>4. Resolves \/ Sweeps \/ Mints \/ (\E t \in Turns : Moves(t)) => Grows
  BY DEF Resolves, Sweeps, Mints, Moves
<1> HIDE DEF Grows
<1>5. Grows
  BY <1>1, <1>2, <1>3, <1>4, AdapterSteps, NewCall, ApproveKinds, LeaveKinds DEF AdapterStep
<1> QED BY <1>5, AdapterParts DEF Grows

\* A handle taken from the table has been drawn.
LEMMA HandleOfEntry ==
  ASSUME TInv, MapInv, NEW e, TakesTool(e)
  PROVE  pendingEvent'.handle \in 1..minted'
<1> DEFINE id == calls[e.call].callId
<1>1. callIds[id] \in Nat /\ callIds[id] <= minted /\ minted \in Nat
  BY MapperParts DEF TakesTool, MapInv
<1> QED BY <1>1 DEF TakesTool, HandleFor, NewHandle, NoHandle

LEMMA AskedStep ==
  ASSUME TInv, TerminalInv, AInv, IInv, AskInv, NInv, [Next]_vars
  PROVE  AskedInv'
<1> USE AdapterParts DEF AInv, IInv, NInv
<1>1. minted \in Nat /\ minted' \in Nat /\ minted <= minted'
  BY MintedGrows
<1>2. \A c \in DOMAIN calls : c \in DOMAIN calls'
  BY AdapterSteps, Steady
<1> SUFFICES ASSUME NEW e, Shown(e)'
             PROVE  e.call \in DOMAIN calls' /\ ~Asking(e.call)' /\ e.handle \in 1..minted'
  BY DEF AskedInv, Asking
<1>3. CASE Shown(e)
  <2>1. e.call \in DOMAIN calls /\ ~Asking(e.call) /\ e.handle \in 1..minted
    BY <1>3 DEF AskedInv
  <2> QED BY <1>1, <1>2, <2>1, AskingOfCalls
<1>4. CASE DrainEmpty /\ e = pendingEvent'
  <2> DEFINE c == approvalBarrier
  <2>1. /\ e.call = c /\ e.handle = request[c].handle /\ c \in Requests
        /\ Engaged /\ ~SenderDropped(active) /\ UNCHANGED minted
    BY <1>4 DEF DrainEmpty, MustDrain, Event, Engaged, TInv, TypeOK, mapperVars
  <2>2. Told(c) /\ AtCall(c)
    BY <2>1 DEF AskInv, Noticed
  <2>3. c \in DOMAIN calls /\ ~Asking(c)
    BY <2>2 DEF Told, AtCall, IsCurrent, Asking
  <2>4. request[c].handle \in Nat /\ request[c].handle # 0 /\ request[c].handle <= minted
    BY <2>1, <2>2 DEF Told, HandlesInv, NoHandle
  <2> QED BY <1>1, <1>2, <2>1, <2>3, <2>4, AskingOfCalls
<1>5. CASE Takes /\ e = pendingEvent'
  <2> DEFINE f == Head(agentEvents[active])
  <2>1. f.kind \in ToolEvents
    <3>1. pendingEvent'.kind \in AgentEventKinds /\ pendingEvent'.kind = f.kind
      BY <1>5, TakesHead DEF Takes1, AgentEvent
    <3> QED BY <1>5, <3>1 DEF Shown, ShownKinds, ToolEvents, AgentEventKinds
  <2>2. TakesTool(f) /\ active \in Turns /\ 1 \in DOMAIN agentEvents[active]
        /\ f = agentEvents[active][1]
    BY <1>5, <2>1, TakesMap
  <2> HIDE DEF f
  <2>3. e.call = f.call /\ f.call \in DOMAIN calls /\ e.handle \in 1..minted'
    BY <1>5, <2>2, HandleOfEntry DEF TakesTool
  <2>4. ~Asking(f.call)
    BY <2>1, <2>2 DEF ToolsInv
  <2> QED BY <1>2, <2>3, <2>4, AskingOfCalls
<1> QED BY <1>3, <1>4, <1>5, ShownComes

\* A call its task has gone on from stays so.
LEMMA OpenStays ==
  ASSUME TInv, AInv, NInv, [Next]_vars, NEW c \in DOMAIN calls, Open(c)'
  PROVE  Open(c)
<1> USE AdapterParts, MapperParts DEF NInv
<1>0. c \in DOMAIN calls' /\ calls'[c] = calls[c]
  BY AdapterSteps, Steady DEF AInv
<1>1. CASE UNCHANGED calls /\ \A u \in Turns : agentAt'[u] \in {"calling", "executing"} =>
                                agentAt[u] \in {"calling", "executing"}
  BY <1>1 DEF Open, IsCurrent
<1>2. CASE Takes
  BY <1>1, <1>2, TakesMap
<1>3. CASE StartTurn
  BY <1>1, <1>3, TurnBegins
<1>4. CASE \E t \in Turns : AgentStep(t)
  <2>1. PICK t \in Turns : AgentStep(t)
    BY <1>4
  <2>2. ASSUME NEW p, CallBegun(t, p)
        PROVE  Open(c)
    <3> DEFINE n == Len(calls) + 1
    <3>1. /\ n \in DOMAIN calls' /\ calls'[n].turn = t /\ c < n /\ n \in Nat
          /\ \A d \in DOMAIN calls : d \in DOMAIN calls' /\ calls'[d] = calls[d]
          /\ \A u \in Turns \ {t} : agentAt'[u] = agentAt[u]
      BY <2>2 DEF CallBegun
    <3>2. calls[c].turn # t
      BY <1>0, <3>1 DEF Open, IsCurrent
    <3> QED BY <1>0, <3>1, <3>2 DEF Open, IsCurrent
  <2>3. ASSUME NEW kind, NEW d, NEW next, Gives(t, kind, d, next)
        PROVE  Open(c)
    <3>1. next \in {"calling", "executing"} => agentAt[t] \in {"calling", "executing"}
      BY <2>3 DEF Gives, ToolEvents
    <3>2. UNCHANGED calls /\ agentAt' = [agentAt EXCEPT ![t] = next]
      BY <2>3 DEF Gives
    <3> QED BY <1>1, <3>1, <3>2
  <2>4. CASE (\E d \in Requests : Names(t, d)) \/ GoesOnOrEnds(t)
    BY <1>1, <2>4 DEF Names, GoesOnOrEnds
  <2> QED BY <2>1, <2>2, <2>3, <2>4, TaskKinds, CallBegins DEF AInv
<1>5. CASE Others
  BY <1>1, <1>5 DEF Others, taskVars
<1> QED BY <1>2, <1>3, <1>4, <1>5, HandleSteps

\* What one channel holds of the tools, for the calls of turn t.
ToolsOf(channel, t) ==
  \A k \in DOMAIN channel : channel[k].kind \in ToolEvents =>
    LET c == channel[k].call IN
    /\ c \in DOMAIN calls /\ calls[c].turn = t /\ ~Asking(c)
    /\ channel[k].kind = "ToolResult" =>
         ~Open(c) /\ \A l \in DOMAIN channel : l > k => ~IsToolOf(channel[l], c)

LEMMA ToolsAreOf ==
  ASSUME TInv
  PROVE  ToolsInv <=> \A t \in Turns : ToolsOf(agentEvents[t], t)
BY DEF TInv, AgentCalls, ToolsInv, ToolsOf

\* What holds of a channel's calls goes on holding.
LEMMA ToolsStay ==
  ASSUME TInv, AInv, NInv, [Next]_vars, NEW channel, NEW t, ToolsOf(channel, t)
  PROVE  ToolsOf(channel, t)'
<1>1. \A c \in DOMAIN calls : c \in DOMAIN calls' /\ calls'[c] = calls[c]
  BY AdapterSteps, Steady DEF AInv
<1>2. \A c \in DOMAIN calls : ~Asking(c) => ~Asking(c)'
  BY AskingOfCalls DEF AInv
<1>3. \A c \in DOMAIN calls : ~Open(c) => ~Open(c)'
  BY OpenStays
<1> QED BY <1>1, <1>2, <1>3 DEF ToolsOf, IsToolOf

LEMMA ToolsTail ==
  ASSUME NEW s \in Seq(AgentEvent), s # <<>>, NEW t, ToolsOf(s, t)'
  PROVE  ToolsOf(Tail(s), t)'
<1>1. \A k \in DOMAIN Tail(s) : k \in Nat /\ k + 1 \in DOMAIN s /\ Tail(s)[k] = s[k + 1]
  BY TailFacts
<1>2. \A k, l \in DOMAIN Tail(s) : l > k => l + 1 > k + 1
  BY <1>1
<1> QED BY <1>1, <1>2 DEF ToolsOf, IsToolOf

LEMMA ToolsAppend ==
  ASSUME NEW s \in Seq(AgentEvent), NEW t, ToolsOf(s, t)', NEW f,
         f.kind \in ToolEvents =>
           /\ f.call \in DOMAIN calls' /\ calls'[f.call].turn = t /\ ~Asking(f.call)'
           /\ f.kind = "ToolResult" => ~Open(f.call)'
           /\ \A k \in DOMAIN s : s[k].kind = "ToolResult" => s[k].call # f.call
  PROVE  ToolsOf(Append(s, f), t)'
<1> DEFINE n == Len(s) + 1
<1>1. /\ DOMAIN Append(s, f) = DOMAIN s \cup {n} /\ Append(s, f)[n] = f
      /\ \A k \in DOMAIN s : Append(s, f)[k] = s[k]
      /\ \A l \in DOMAIN s \cup {n} : ~(l > n)
  BY AppendFacts
<1> HIDE DEF n
<1>2. ASSUME NEW k \in DOMAIN s, s[k].kind = "ToolResult", NEW l \in DOMAIN s \cup {n}, l > k
      PROVE  ~IsToolOf(Append(s, f)[l], s[k].call)
  BY <1>1, <1>2 DEF ToolsOf, IsToolOf, ToolEvents
<1>3. ASSUME NEW k \in DOMAIN s, s[k].kind \in ToolEvents
      PROVE  /\ s[k].call \in DOMAIN calls' /\ calls'[s[k].call].turn = t /\ ~Asking(s[k].call)'
             /\ s[k].kind = "ToolResult" => ~Open(s[k].call)'
  BY <1>3 DEF ToolsOf
<1> QED BY <1>1, <1>2, <1>3 DEF ToolsOf, IsToolOf

LEMMA ToolsStep ==
  ASSUME TInv, TInv', AInv, NInv, [Next]_vars
  PROVE  ToolsInv'
<1> USE DEF NInv
<1>0. /\ agentEvents \in [Turns -> Seq(AgentEvent)] /\ agentEvents' \in [Turns -> Seq(AgentEvent)]
      /\ \A u \in Turns : ToolsOf(agentEvents[u], u)
  BY EventParts, ToolsAreOf DEF TInv, TypeOK, AgentTypeOK
<1>1. SUFFICES ASSUME NEW t \in Turns, NEW s, s = agentEvents[t], NEW ch, ch = agentEvents'[t]
               PROVE  ToolsOf(ch, t)'
  BY DEF ToolsInv, ToolsOf
<1>2. s \in Seq(AgentEvent) /\ ToolsOf(s, t)
  BY <1>0, <1>1
<1>3. ToolsOf(s, t)'
  BY <1>2, ToolsStay
<1>4. CASE ch = s
  BY <1>3, <1>4
<1>5. CASE ch = Tail(s) /\ s # <<>>
  BY <1>2, <1>3, <1>5, ToolsTail
<1>6. ASSUME NEW kind, NEW c, NEW next, Gives(t, kind, c, next)
      PROVE  ToolsOf(ch, t)'
  <2> PICK f : f = [kind |-> kind, turn |-> t, stamp |-> emitted[t] + 1, call |-> c]
    OBVIOUS
  <2>1. ch = Append(s, f) /\ f.kind = kind /\ f.call = c
    BY <1>0, <1>1, <1>6 DEF Gives
  <2>3. kind \in ToolEvents =>
          /\ IsCurrent(c, t) /\ agentAt[t] \in {"calling", "executing"} /\ ~Asking(c)
          /\ kind = "ToolResult" => next = "working"
          /\ UNCHANGED <<calls, requestAt>> /\ agentAt' = [agentAt EXCEPT ![t] = next]
    BY <1>6 DEF Gives
  <2>4. kind \in ToolEvents =>
          /\ Open(c) /\ c \in DOMAIN calls' /\ calls'[c].turn = t /\ ~Asking(c)'
          /\ kind = "ToolResult" => ~Open(c)'
    BY <2>3, AdapterParts DEF Open, IsCurrent, Asking
  <2>5. kind \in ToolEvents => \A k \in DOMAIN s : s[k].kind = "ToolResult" => s[k].call # c
    BY <1>2, <2>4 DEF ToolsOf, ToolEvents
  <2>6. ToolsOf(Append(s, f), t)'
    BY <1>2, <1>3, <2>1, <2>4, <2>5, ToolsAppend
  <2> QED BY <2>1, <2>6
<1>7. CASE Takes
  BY <1>0, <1>1, <1>4, <1>5, <1>7, TakesMap
<1>8. CASE StartTurn
  BY <1>1, <1>4, <1>8, TurnBegins
<1>9. CASE \E u \in Turns : AgentStep(u)
  <2>1. PICK u \in Turns : AgentStep(u)
    BY <1>9
  <2>2. ASSUME NEW kind, NEW c, NEW next, Gives(u, kind, c, next), u # t
        PROVE  ch = s
    BY <1>0, <1>1, <2>2 DEF Gives
  <2>3. CASE \E tool \in Tools, p \in ProviderIds : BeginCall(u, tool, p)
    BY <1>1, <1>4, <2>3, CallBegins DEF AInv, CallBegun
  <2>4. CASE (\E c \in Requests : Names(u, c)) \/ GoesOnOrEnds(u)
    BY <1>1, <1>4, <2>4 DEF Names, GoesOnOrEnds
  <2> QED BY <1>4, <1>6, <2>1, <2>2, <2>3, <2>4, TaskKinds DEF AInv
<1>10. CASE Others
  BY <1>1, <1>4, <1>10 DEF Others
<1> QED BY <1>7, <1>8, <1>9, <1>10, HandleSteps

LEMMA NInit == Init => NInv
BY DEF Init, MapperInit, ApproverInit, AgentInit, IOInit, NInv, MapInv, NamesInv, AskedInv,
    ToolsInv, Shown, ShownKinds, Goes, NoEvent, Event, NoHandle

LEMMA NamesHold == Spec => []NInv
<1>1. TInv /\ TInv' /\ TerminalInv /\ AInv /\ IInv /\ AskInv /\ NInv /\ [Next]_vars => NInv'
  BY MapStep, NamesStep, AskedStep, ToolsStep DEF NInv
<1> QED BY <1>1, NInit, TypesHold, TerminalHolds, ApprovalsHold, InvariantHolds, AskingHolds,
           PTL DEF Spec

-----------------------------------------------------------------------------
(* The entries                                                             *)

\* No event of a call comes to come again.
LEMMA ToComeStays ==
  ASSUME TInv, TInv', AInv, NInv, [Next]_vars, NEW c \in DOMAIN calls, ToCome(c)'
  PROVE  ToCome(c)
<1> USE EventParts, MapperParts DEF EventTypeOK
<1> DEFINE t == calls[c].turn
<1>0. c \in DOMAIN calls' /\ calls'[c] = calls[c] /\ t \in Turns
  BY AdapterSteps, Steady DEF AInv
<1>1. CASE Open(c)'
  BY <1>1, OpenStays DEF ToCome
<1> SUFFICES ASSUME NEW k \in DOMAIN agentEvents'[t], IsToolOf(agentEvents'[t][k], c)
             PROVE  ToCome(c)
  BY <1>0, <1>1 DEF ToCome
<1>2. CASE agentEvents'[t] = agentEvents[t]
  BY <1>2 DEF ToCome
<1>3. CASE agentEvents'[t] = Tail(agentEvents[t]) /\ agentEvents[t] # <<>>
  <2>1. k + 1 \in DOMAIN agentEvents[t] /\ agentEvents'[t][k] = agentEvents[t][k + 1]
    BY <1>0, <1>3, TailFacts
  <2> QED BY <2>1 DEF ToCome
<1>4. ASSUME NEW kind, NEW d, NEW next, Gives(t, kind, d, next)
      PROVE  ToCome(c)
  <2> PICK f : f = [kind |-> kind, turn |-> t, stamp |-> emitted[t] + 1, call |-> d]
    OBVIOUS
  <2>1. agentEvents'[t] = Append(agentEvents[t], f) /\ f.kind = kind /\ f.call = d
    BY <1>0, <1>4 DEF Gives
  <2>2. CASE k \in DOMAIN agentEvents[t]
    BY <1>0, <2>1, <2>2, AppendFacts DEF ToCome
  <2>3. CASE agentEvents'[t][k] = f
    BY <1>4, <2>1, <2>3 DEF Gives, IsToolOf, ToCome, Open
  <2> QED BY <1>0, <2>1, <2>2, <2>3, AppendFacts
<1>5. CASE Takes
  BY <1>0, <1>2, <1>3, <1>5, TakesMap
<1>6. CASE StartTurn
  BY <1>2, <1>6, TurnBegins DEF NInv
<1>7. CASE \E u \in Turns : AgentStep(u)
  <2>1. PICK u \in Turns : AgentStep(u)
    BY <1>7
  <2>2. ASSUME NEW kind, NEW d, NEW next, Gives(u, kind, d, next), u # t
        PROVE  ToCome(c)
    BY <1>0, <1>2, <2>2 DEF Gives
  <2>3. CASE \E tool \in Tools, p \in ProviderIds : BeginCall(u, tool, p)
    BY <1>2, <2>3, CallBegins DEF AInv, CallBegun
  <2>4. CASE (\E d \in Requests : Names(u, d)) \/ GoesOnOrEnds(u)
    BY <1>2, <2>4 DEF Names, GoesOnOrEnds
  <2> QED BY <1>4, <2>1, <2>2, <2>3, <2>4, TaskKinds DEF AInv
<1>8. CASE Others
  BY <1>2, <1>8 DEF Others
<1> QED BY <1>5, <1>6, <1>7, <1>8, HandleSteps

\* The event a call is shown by: it has the handle of its entry, or a new one.
Fits(f, c) ==
  /\ c \in DOMAIN calls /\ calls[c].turn = active /\ ToCome(c) /\ f.call = c
  /\ f.handle = HandleFor(calls[c].callId)

\* With distinct ids such an event has the handle of its call's others, and of
\* no other call.
LEMMA FittingHandle ==
  ASSUME TInv, NInv, EntryInv, Engaged, ~ReuseIds, NEW f, NEW c, Fits(f, c)
  PROVE  /\ HasEntry(c) /\ f.handle # NoHandle
         /\ \A e : Shown(e) => (e.handle = f.handle <=> e.call = f.call)
         /\ \A d \in DOMAIN calls : calls[d].turn = active /\ d # c => EntryOf(d) # f.handle
<1> USE MapperParts
<1>1. /\ c \in DOMAIN calls /\ calls[c].turn = active /\ f.call = c /\ HasEntry(c)
      /\ f.handle = IF EntryOf(c) = NoHandle THEN minted + 1 ELSE EntryOf(c)
  BY DEF Fits, EntryInv, HandleFor, NewHandle, EntryOf
<1>2. /\ \A e : Shown(e) => e.handle \in 1..minted
      /\ \A p \in ProviderIds : callIds[p] \in Nat /\ callIds[p] <= minted
      /\ minted \in Nat
  BY DEF NInv, AskedInv, MapInv
<1>3. f.handle # NoHandle
  BY <1>1, <1>2 DEF NoHandle
<1>4. \A e : Shown(e) => (e.handle = f.handle <=> e.call = f.call)
  <2>1. CASE EntryOf(c) # NoHandle
    BY <1>1, <2>1 DEF HasEntry
  <2>2. CASE EntryOf(c) = NoHandle
    <3>1. f.handle = minted + 1
      BY <1>1, <2>2
    <3>2. \A e : Shown(e) => e.handle # minted + 1 /\ e.handle # NoHandle
      BY <1>2 DEF NoHandle
    <3> QED BY <1>1, <2>2, <3>1, <3>2 DEF HasEntry
  <2> QED BY <2>1, <2>2
<1>5. ASSUME NEW d \in DOMAIN calls, calls[d].turn = active, d # c
      PROVE  EntryOf(d) # f.handle
  <2>1. calls[d].callId # calls[c].callId
    BY <1>1, <1>5 DEF NInv, NamesInv
  <2>2. CASE EntryOf(c) # NoHandle
    BY <1>1, <2>1, <2>2 DEF NInv, MapInv, EntryOf
  <2>3. CASE EntryOf(c) = NoHandle
    <3>1. EntryOf(d) \in Nat /\ EntryOf(d) <= minted /\ f.handle = minted + 1
      BY <1>1, <1>2, <2>3 DEF EntryOf
    <3> QED BY ONLY <3>1, <1>2
  <2> QED BY <2>2, <2>3
<1> QED BY <1>1, <1>3, <1>4, <1>5

\* What comes outside fits the call it is of.
LEMMA NewShown ==
  ASSUME TInv, AInv, IInv, AskInv, NInv, EntryInv, Engaged, [Next]_vars,
         Takes \/ DrainEmpty, NEW x, x = pendingEvent', Shown(x)'
  PROVE  \E c : Fits(x, c)
<1> USE MapperParts DEF NInv
<1>0. x = pendingEvent' /\ x.kind \in ShownKinds
  BY DEF Shown
<1>1. CASE Takes
  <2> DEFINE e == Head(agentEvents[active])
  <2>1. e.kind \in ToolEvents
    <3>1. pendingEvent'.kind \in AgentEventKinds /\ pendingEvent'.kind = e.kind
      BY <1>1, TakesHead DEF Takes1, AgentEvent
    <3> QED BY <1>0, <3>1 DEF ShownKinds, ToolEvents, AgentEventKinds
  <2>2. TakesTool(e) /\ active \in Turns /\ 1 \in DOMAIN agentEvents[active]
        /\ e = agentEvents[active][1]
    BY <1>1, <2>1, TakesMap
  <2> HIDE DEF e
  <2>3. calls[e.call].turn = active /\ IsToolOf(agentEvents[active][1], e.call)
    BY <2>1, <2>2 DEF ToolsInv, IsToolOf
  <2>4. ToCome(e.call)
    BY <2>2, <2>3 DEF ToCome
  <2>5. Fits(x, e.call)
    BY <1>0, <2>2, <2>3, <2>4 DEF TakesTool, Fits
  <2> QED BY <2>5
<1>2. CASE DrainEmpty
  <2> DEFINE b == approvalBarrier
  <2>1. /\ pendingEvent'.call = b /\ pendingEvent'.handle = request[b].handle /\ b \in Requests
        /\ ~SenderDropped(active)
    BY <1>2 DEF DrainEmpty, MustDrain, Event, TInv, TypeOK
  <2>2. Told(b) /\ AtCall(b)
    BY <2>1 DEF AskInv, Noticed
  <2> HIDE DEF b
  <2>3. b \in DOMAIN calls /\ IsCurrent(b, calls[b].turn) /\ calls[b].turn = active
        /\ agentAt[active] = "calling"
    BY <2>2 DEF AtCall, IsCurrent
  <2>4. calls[b].turn = active /\ ToCome(b)
    BY <2>3 DEF ToCome, Open
  <2>5. EntryOf(b) = request[b].handle /\ request[b].handle # NoHandle
    BY <2>1, <2>2, <2>3, <2>4 DEF Told, EntryInv, HasEntry, AInv, HandlesInv
  <2>6. Fits(x, b)
    BY <1>0, <2>1, <2>3, <2>4, <2>5 DEF Fits, HandleFor, EntryOf
  <2> QED BY <2>6
<1> QED BY <1>1, <1>2

LEMMA OneHandleStep ==
  ASSUME TInv, TerminalInv, AInv, IInv, AskInv, NInv, EntryInv, OneHandleInv, ~ReuseIds,
         [Next]_vars
  PROVE  OneHandleInv'
<1> SUFFICES ASSUME NEW e, Shown(e)', NEW f, Shown(f)'
             PROVE  e.handle = f.handle <=> e.call = f.call
  BY DEF OneHandleInv
<1>1. CASE Shown(e) /\ Shown(f)
  BY <1>1 DEF OneHandleInv
<1>2. ASSUME NEW x, Shown(x)', ~Shown(x)
      PROVE  x = pendingEvent' /\ \A y : Shown(y) => (y.handle = x.handle <=> y.call = x.call)
  <2>1. (Takes \/ DrainEmpty) /\ x = pendingEvent'
    BY <1>2, ShownComes
  <2>2. Engaged
    BY <2>1 DEF Engaged, Takes, DrainEmpty, MustDrain
  <2>3. PICK c : Fits(x, c)
    BY <1>2, <2>1, <2>2, NewShown
  <2> QED BY <2>1, <2>2, <2>3, FittingHandle
<1>3. CASE ~Shown(e)
  BY <1>2, <1>3
<1>4. CASE ~Shown(f)
  BY <1>2, <1>4
<1> QED BY <1>1, <1>3, <1>4

\* A step that only moves or drops events of other kinds.
LEMMA EntriesStay ==
  ASSUME TInv, TInv', AInv, NInv, EntryInv, [Next]_vars, Engaged,
         UNCHANGED <<active, calls, request, callIds>>, \A e : Shown(e)' => Shown(e)
  PROVE  EntryInv'
<1>1. \A c \in DOMAIN calls : ToCome(c)' => ToCome(c)
  BY ToComeStays
<1>2. \A c \in DOMAIN calls : HasEntry(c) => HasEntry(c)'
  BY DEF HasEntry, EntryOf
<1>3. \A p : Unused(p)' => Unused(p)
  BY DEF Unused
<1> QED BY <1>1, <1>2, <1>3 DEF EntryInv

\* A turn begins with an empty table and no call.
LEMMA EntriesBegin ==
  ASSUME TInv, NInv, LeftInv, StartTurn
  PROVE  EntryInv'
<1>1. /\ UNCHANGED <<calls, callIds>> /\ \A c \in DOMAIN calls : calls[c].turn # active'
      /\ \A p \in ProviderIds : callIds[p] = NoHandle
  BY TurnBegins DEF NInv, LeftInv, mapperVars
<1> QED BY <1>1 DEF EntryInv

\* A tool event leaves its call's entry as it shows it, and a result empties it.
LEMMA EntriesTaken ==
  ASSUME TInv, TInv', TerminalInv, AInv, IInv, AskInv, NInv, NInv', EntryInv, ~ReuseIds,
         [Next]_vars, Takes, Engaged
  PROVE  EntryInv'
<1> USE MapperParts
<1>0. PICK e, c, id : e = Head(agentEvents[active]) /\ c = e.call /\ id = calls[c].callId
  OBVIOUS
<1>1. /\ UNCHANGED <<calls, request, active>> /\ active \in Turns
      /\ pendingEvent'.kind = e.kind
      /\ \A x : Shown(x)' => Shown(x) \/ x = pendingEvent'
  <2>1. UNCHANGED active
    BY DEF Takes, TakeEvent
  <2> QED BY <1>0, <2>1, TakesMap, ShownComes
<1>2. CASE e.kind \notin ToolEvents
  <2>1. e.kind \in AgentEventKinds
    BY <1>0, TakesHead DEF Takes1, AgentEvent
  <2>2. e.kind \notin ShownKinds
    BY <1>2, <2>1 DEF ShownKinds, ToolEvents, AgentEventKinds
  <2>3. \A x : Shown(x)' => x.kind \in ShownKinds
    BY DEF Shown
  <2>4. UNCHANGED callIds
    BY <1>0, <1>2, TakesMap DEF mapperVars, TakesTool
  <2> QED BY <1>1, <2>2, <2>3, <2>4, EntriesStay
<1>3. CASE e.kind \in ToolEvents
  <2>1. TakesTool(e) /\ e = agentEvents[active][1] /\ 1 \in DOMAIN agentEvents[active]
    BY <1>0, <1>3, TakesMap
  <2>2. calls[c].turn = active /\ c \in DOMAIN calls /\ id \in ProviderIds /\ ToCome(c)
    <3>1. calls[c].turn = active /\ IsToolOf(agentEvents[active][1], c)
      BY <1>0, <1>1, <1>3, <2>1 DEF NInv, ToolsInv, IsToolOf
    <3> QED BY <1>0, <2>1, <3>1 DEF TakesTool, ToCome
  <2>3. Fits(pendingEvent', c)
    BY <1>0, <2>1, <2>2 DEF TakesTool, Fits
  <2>4. /\ HasEntry(c) /\ pendingEvent'.handle # NoHandle
        /\ \A x : Shown(x) =>
             (x.handle = pendingEvent'.handle <=> x.call = pendingEvent'.call)
        /\ \A d \in DOMAIN calls : calls[d].turn = active /\ d # c =>
             EntryOf(d) # pendingEvent'.handle
    BY <2>3, FittingHandle
  <2>5. pendingEvent'.call = c /\ pendingEvent'.handle = HandleFor(id)
    BY <1>0, <2>1 DEF TakesTool
  <2>6. /\ callIds' = [callIds EXCEPT ![id] = callIds'[id]]
        /\ \/ callIds'[id] = HandleFor(id) /\ e.kind = "ToolStart"
           \/ callIds'[id] = NoHandle /\ e.kind = "ToolResult"
    BY <1>0, <2>1, <2>2 DEF TakesTool
  <2>7. \A d \in DOMAIN calls : calls[d].turn = active /\ d # c => calls[d].callId # id
    BY <1>0, <2>2 DEF NInv, NamesInv
  <2>8. e.kind = "ToolResult" => ~ToCome(c)'
    <3> SUFFICES ASSUME e.kind = "ToolResult" PROVE ~ToCome(c)'
      OBVIOUS
    <3>1. /\ ~Open(c)
          /\ \A l \in DOMAIN agentEvents[active] : l > 1 => ~IsToolOf(agentEvents[active][l], c)
      BY <1>0, <1>1, <1>3, <2>1 DEF NInv, ToolsInv
    <3>2. ~Open(c)'
      BY <2>2, <3>1, OpenStays
    <3>3. /\ agentEvents[active] \in Seq(AgentEvent) /\ agentEvents[active] # <<>>
          /\ agentEvents'[active] = Tail(agentEvents[active])
      BY <1>1, EventParts, TakesMap DEF EventTypeOK
    <3>4. \A k \in DOMAIN agentEvents'[active] : ~IsToolOf(agentEvents'[active][k], c)
      <4> TAKE k \in DOMAIN agentEvents'[active]
      <4>1. /\ k \in Nat /\ k + 1 \in DOMAIN agentEvents[active] /\ k + 1 > 1
            /\ agentEvents'[active][k] = agentEvents[active][k + 1]
        <5>1. /\ k \in Nat /\ k + 1 \in DOMAIN agentEvents[active]
              /\ agentEvents'[active][k] = agentEvents[active][k + 1]
          BY <3>3, TailFacts
        <5>2. k \in 1..Len(Tail(agentEvents[active]))
          BY <3>3
        <5> QED BY <5>1, <5>2
      <4> QED BY <3>1, <4>1
    <3>5. calls'[c].turn = active
      BY <1>1, <2>2
    <3> QED BY <3>2, <3>4, <3>5 DEF ToCome, IsToolOf
  <2>9. ASSUME NEW d \in DOMAIN calls, calls[d].turn = active, ToCome(d)'
        PROVE  HasEntry(d)'
    <3>1. ToCome(d) /\ HasEntry(d)
      BY <2>9, ToComeStays DEF EntryInv
    <3>2. CASE d = c
      <4>1. EntryOf(c)' = HandleFor(id) /\ EntryOf(c)' = pendingEvent'.handle
        BY <1>0, <1>1, <2>2, <2>5, <2>6, <2>8, <2>9, <3>2 DEF EntryOf
      <4>2. request[c].handle # NoHandle => EntryOf(c)' = request[c].handle
        BY <1>0, <2>4, <4>1 DEF HasEntry, EntryOf, HandleFor
      <4> QED BY <1>1, <2>4, <2>5, <3>2, <4>1, <4>2 DEF HasEntry
    <3>3. CASE d # c
      <4>1. EntryOf(d)' = EntryOf(d)
        BY <1>1, <2>2, <2>6, <2>7, <2>9, <3>3 DEF EntryOf
      <4>2. EntryOf(d) # pendingEvent'.handle
        BY <2>4, <2>9, <3>3
      <4> QED BY <1>1, <2>5, <3>1, <3>3, <4>1, <4>2 DEF HasEntry
    <3> QED BY <3>2, <3>3
  <2>10. ASSUME NEW p \in ProviderIds, Unused(p)'
         PROVE  callIds'[p] = NoHandle
    <3>1. Unused(p) /\ p # id
      BY <1>0, <1>1, <2>2, <2>10 DEF Unused
    <3> QED BY <2>2, <2>6, <3>1 DEF EntryInv
  <2> QED BY <1>1, <2>9, <2>10 DEF EntryInv
<1> QED BY <1>2, <1>3

\* The barrier's request is shown under its call's entry.
LEMMA EntriesShown ==
  ASSUME TInv, TInv', TerminalInv, AInv, IInv, AskInv, NInv, EntryInv, ~ReuseIds,
         [Next]_vars, DrainEmpty, Engaged
  PROVE  EntryInv'
<1> PICK x : x = pendingEvent'
  OBVIOUS
<1>1. /\ UNCHANGED <<calls, request, active, callIds>>
      /\ x.call = approvalBarrier /\ x.handle = request[approvalBarrier].handle
      /\ \A e : Shown(e)' => Shown(e) \/ e = x
  <2>1. /\ UNCHANGED <<calls, request, active, callIds>>
        /\ x.call = approvalBarrier /\ x.handle = request[approvalBarrier].handle
    BY DEF DrainEmpty, Event, mapperVars, approverVars, adapterVars, agentVars, taskVars
  <2> QED BY <2>1, ShownComes
<1>2. CASE Shown(x)'
  <2>1. PICK c : Fits(x, c)
    BY <1>2, NewShown
  <2>2. /\ HasEntry(c) /\ x.handle # NoHandle /\ c \in DOMAIN calls /\ x.call = c
        /\ \A d \in DOMAIN calls : calls[d].turn = active /\ d # c => EntryOf(d) # x.handle
    BY <2>1, FittingHandle DEF Fits
  <2>3. EntryOf(c) = x.handle
    BY <1>1, <2>2 DEF HasEntry
  <2>4. ASSUME NEW d \in DOMAIN calls, calls[d].turn = active, ToCome(d)'
        PROVE  HasEntry(d)'
    <3>1. HasEntry(d) /\ EntryOf(d)' = EntryOf(d)
      BY <1>1, <2>4, ToComeStays DEF EntryInv, EntryOf
    <3>2. x.handle = EntryOf(d) <=> x.call = d
      BY <2>2, <2>3, <2>4
    <3> QED BY <1>1, <3>1, <3>2 DEF HasEntry
  <2>5. \A p \in ProviderIds : Unused(p)' => callIds'[p] = NoHandle
    BY <1>1 DEF EntryInv, Unused
  <2> QED BY <1>1, <2>4, <2>5 DEF EntryInv
<1>3. CASE ~Shown(x)'
  BY <1>1, <1>3, EntriesStay
<1> QED BY <1>2, <1>3

\* A new call finds no entry under its id, and no event of it is outside.
LEMMA EntriesBegun ==
  ASSUME TInv, TInv', AInv, NInv, EntryInv, ~ReuseIds, [Next]_vars, Engaged,
         UNCHANGED active, NEW p \in ProviderIds, CallBegun(active, p),
         \A e : Shown(e)' => Shown(e)
  PROVE  EntryInv'
<1> PICK n : n = Len(calls) + 1
  OBVIOUS
<1>1. /\ n \in Requests /\ n \notin DOMAIN calls /\ DOMAIN calls' = DOMAIN calls \cup {n}
      /\ \A c \in DOMAIN calls : calls'[c] = calls[c] /\ request'[c] = request[c]
      /\ calls'[n].turn = active /\ calls'[n].callId = p
      /\ UNCHANGED callIds /\ Unused(p)
      /\ request[n].handle = NoHandle => request'[n].handle = NoHandle
  BY AdapterParts DEF CallBegun, Unused, mapperVars
<1>2. request'[n].handle = NoHandle /\ callIds'[p] = NoHandle
  BY <1>1 DEF AInv, HandlesInv, EntryInv
<1>3. \A e : Shown(e)' => e.call # n /\ e.handle # NoHandle
  BY <1>1 DEF NInv, AskedInv, NoHandle
<1>4. HasEntry(n)'
  BY <1>1, <1>2, <1>3 DEF HasEntry, EntryOf
<1>5. ASSUME NEW d \in DOMAIN calls, calls[d].turn = active, ToCome(d)'
      PROVE  HasEntry(d)'
  <2>1. HasEntry(d)
    BY <1>5, ToComeStays DEF EntryInv
  <2> QED BY <1>1, <2>1 DEF HasEntry, EntryOf
<1>6. \A q \in ProviderIds : Unused(q)' => callIds'[q] = NoHandle
  BY <1>1 DEF Unused, EntryInv
<1> QED BY <1>1, <1>4, <1>5, <1>6 DEF EntryInv

\* A call that is named has shown nothing, and nothing has its new handle.
LEMMA EntriesNamed ==
  ASSUME TInv, TInv', AInv, NInv, EntryInv, ~ReuseIds, [Next]_vars, Engaged,
         UNCHANGED active, NEW c \in Requests, Names(active, c),
         \A e : Shown(e)' => Shown(e)
  PROVE  EntryInv'
<1> USE MapperParts, AdapterParts
<1> PICK id : id = calls[c].callId
  OBVIOUS
<1>1. /\ c \in DOMAIN calls /\ calls[c].turn = active /\ requestAt[c] = "admitted"
      /\ id \in ProviderIds /\ UNCHANGED calls
      /\ callIds' = [callIds EXCEPT ![id] = minted + 1]
      /\ request'[c].handle = minted + 1
      /\ \A d \in DOMAIN calls : d # c => request'[d] = request[d]
  BY DEF Names, IsCurrent, NInv, NamesInv
<1>2. \A e : Shown(e)' => e.call # c /\ e.handle # minted + 1
  BY <1>1 DEF NInv, AskedInv, Asking
<1>3. HasEntry(c)'
  BY <1>1, <1>2 DEF HasEntry, EntryOf
<1>4. ASSUME NEW d \in DOMAIN calls, calls[d].turn = active, ToCome(d)', d # c
      PROVE  HasEntry(d)'
  <2>1. HasEntry(d)
    BY <1>4, ToComeStays DEF EntryInv
  <2>2. EntryOf(d)' = EntryOf(d)
    BY <1>1, <1>4 DEF NInv, NamesInv, EntryOf
  <2> QED BY <1>1, <1>4, <2>1, <2>2 DEF HasEntry
<1>5. ASSUME NEW q \in ProviderIds, Unused(q)'
      PROVE  callIds'[q] = NoHandle
  <2>1. Unused(q) /\ q # id
    BY <1>1, <1>5 DEF Unused
  <2> QED BY <1>1, <2>1 DEF EntryInv
<1> QED BY <1>1, <1>3, <1>4, <1>5 DEF EntryInv

LEMMA EntryStep ==
  ASSUME TInv, TInv', TerminalInv, AInv, IInv, AskInv, LeftInv, NInv, NInv', EntryInv,
         ~ReuseIds, [Next]_vars
  PROVE  EntryInv'
<1> SUFFICES ASSUME Engaged' PROVE EntryInv'
  BY DEF EntryInv
<1>1. CASE StartTurn
  BY <1>1, EntriesBegin
<1> SUFFICES ASSUME Engaged, UNCHANGED active PROVE EntryInv'
  BY <1>1, EngagedBefore
<1>2. CASE Takes
  BY <1>2, EntriesTaken
<1>3. CASE DrainEmpty
  BY <1>3, EntriesShown
<1>4. ASSUME ~Takes, ~DrainEmpty PROVE \A e : Shown(e)' => Shown(e)
  BY <1>4, ShownComes
<1>5. CASE \E t \in Turns : AgentStep(t) /\ UNCHANGED <<ioVars, coordinatorVars>>
  <2>1. PICK t \in Turns : AgentStep(t) /\ UNCHANGED <<ioVars, coordinatorVars>>
    BY <1>5
  <2>2. t = active
    BY <2>1, TaskSteps DEF IInv, TurnsInv, OpenStages, Engaged
  <2>3. \A e : Shown(e)' => Shown(e)
    BY <2>1 DEF Shown, Goes, ioVars, socketVars, coordinatorVars
  <2>4. CASE \E tool \in Tools, p \in ProviderIds : BeginCall(t, tool, p)
    BY <2>2, <2>3, <2>4, CallBegins, EntriesBegun DEF AInv
  <2>5. CASE \E c \in Requests : Names(t, c)
    BY <2>2, <2>3, <2>5, EntriesNamed
  <2>6. CASE (\E kind, c, next : Gives(t, kind, c, next)) \/ GoesOnOrEnds(t)
    BY <2>3, <2>6, EntriesStay DEF Gives, GoesOnOrEnds, mapperVars
  <2> QED BY <2>1, <2>4, <2>5, <2>6, TaskKinds DEF AInv
<1>6. CASE Others
  <2>1. UNCHANGED <<calls, request, callIds>>
    BY <1>6 DEF Others, taskVars
  <2> QED BY <1>2, <1>3, <1>4, <2>1, EntriesStay
<1> QED BY <1>1, <1>2, <1>5, <1>6, HandleSteps

LEMMA EntriesHold ==
  ASSUME ~ReuseIds
  PROVE  Spec => [](EntryInv /\ OneHandleInv)
<1>1. Init => EntryInv /\ OneHandleInv
  BY DEF Init, EntryInv, OneHandleInv, Engaged, Shown, ShownKinds, Goes, IOInit, NoEvent, Event
<1>2. TInv /\ TInv' /\ TerminalInv /\ AInv /\ IInv /\ AskInv /\ LeftInv /\ NInv /\ NInv'
        /\ EntryInv /\ OneHandleInv /\ [Next]_vars => EntryInv' /\ OneHandleInv'
  BY EntryStep, OneHandleStep
<1> QED BY <1>1, <1>2, TypesHold, TerminalHolds, ApprovalsHold, InvariantHolds, AskingHolds,
           LeftHolds, NamesHold, PTL DEF Spec

\* Two events outside carry the same handle exactly when they are of the same
\* call, in every reachable state, if the provider gives no id to two calls of
\* a turn: the run with reused ids shows what becomes of it otherwise.
THEOREM HandlesIdentify ==
  ASSUME ~ReuseIds
  PROVE  Spec => []HandlesIdentifyCalls
<1>1. TInv /\ OneHandleInv => HandlesIdentifyCalls
  BY OutwardIs DEF OneHandleInv, HandlesIdentifyCalls, Shown, ShownKinds
<1> QED BY <1>1, EntriesHold, TypesHold, PTL
=============================================================================
