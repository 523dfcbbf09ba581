------------------------- MODULE WorkerProcessProofs -------------------------
(***************************************************************************)
(* Proofs about the worker process: its exit code agrees with the last     *)
(* word its peer got, and a failure it could announce it has announced.    *)
(*                                                                         *)
(* A step of the process is a step of the session or leaves the session    *)
(* alone, so what holds in every session holds here.  What is new is how a *)
(* session ends: EndInv follows the writer, and AnnouncedInv a crash from  *)
(* the coordinator through the channel to the wire.                        *)
(***************************************************************************)
EXTENDS WorkerProcess, WorkerProofs

LastStages == {"draining", "exited"}
EarlyResults == {"ok", "protocol", "turnPanicked"}
CrashResults == {"overflow", "cancelDeadline", "turnFailed"}
endVars == <<wire, events, writer, terminal, pc, result>>

\* The kinds of step of the end of a session.
Fails ==
  /\ writer = "running" /\ writer' = "failed" /\ events # <<>> /\ events' = <<>>
  /\ UNCHANGED <<wire, terminal, pc, result>>

EndsWriter ==
  /\ pc = "draining" /\ writer = "running" /\ events' = <<>>
  /\ writer' = IF events = <<>> THEN "ended" ELSE "aborted"
  /\ UNCHANGED <<wire, terminal, pc, result>>

Puts ==
  /\ writer = "running" /\ events # <<>>
  /\ wire' = Append(wire, Head(events)) /\ events' = Tail(events)
  /\ UNCHANGED <<writer, terminal, pc, result>>

Queues ==
  /\ writer = "running" /\ events' = Append(events, pendingEvent)
  /\ UNCHANGED <<wire, writer, terminal, pc, result>>

QueuesLast ==
  /\ writer = "running" /\ pc = "terminal" /\ pc' = "cleanup"
  /\ events' = Append(events, terminal) /\ terminal' = NoEvent
  /\ UNCHANGED <<wire, writer, result>>

GivesUp ==
  /\ pc = "terminal" /\ pc' = "cleanup"
  /\ UNCHANGED <<wire, events, writer, result>>

Announces ==
  /\ pc \in OpenStages /\ pc' = "terminal"
  /\ \/ terminal' = Crash /\ result' \in CrashResults
     \/ result' = "ok"
  /\ UNCHANGED <<wire, events, writer>>

Breaks ==
  /\ pc \in OpenStages /\ pc' \in OpenStages \cup {"cleanup"}
  /\ result' \in EarlyResults \cup {result} \/ (result' = "writerClosed" /\ writer # "running")
  /\ UNCHANGED <<wire, events, writer, terminal>>

Finishes ==
  /\ pc \in {"cleanup", "draining"} /\ pc' \in LastStages
  /\ UNCHANGED result \/ (result = "ok" /\ result' = "writerFailed" /\ writer = "failed")
  /\ UNCHANGED <<wire, events, writer, terminal>>

EndStep ==
  \/ Fails \/ EndsWriter \/ Puts \/ Queues \/ QueuesLast \/ GivesUp \/ Announces \/ Breaks
  \/ Finishes \/ UNCHANGED endVars

LEMMA EndSteps ==
  ASSUME TInv, [Next]_vars
  PROVE  EndStep
<1> USE DEF OpenStages, EarlyResults, CrashResults, LastStages, ioVars, socketVars, exitVars,
            coordinatorVars, endVars, EndStep
<1>1. CASE CommandArm
  <2>1. CASE RecvInput
    BY <2>1 DEF RecvInput, Recv, Selecting, Terminate, Announces
  <2>2. CASE RecvApprove
    BY <2>2 DEF RecvApprove, Recv
  <2>3. CASE RecvCancel \/ RecvEnd
    BY <2>3 DEF RecvCancel, RecvEnd, Recv, Selecting, BreakWith, Breaks
  <2>4. CASE RecvStop
    BY <2>4 DEF RecvStop, Recv, Selecting, Terminate, Announces, Breaks
  <2> QED BY <1>1, <2>1, <2>2, <2>3, <2>4 DEF CommandArm
<1>2. CASE SendPending
  BY <1>2 DEF SendPending, Enqueue, HasRoom, Queues
<1>3. CASE WriterClosed
  BY <1>3 DEF WriterClosed, Selecting, BreakWith, WriterGone, Breaks
<1>4. CASE RecvNotice \/ RecvEvent \/ DrainEvent \/ DrainEmpty \/ DrainClosed
  BY <1>4 DEF RecvNotice, RecvEvent, DrainEvent, DrainEmpty, DrainClosed, TakeEvent
<1>5. CASE CancelCompletes \/ CancelTimesOut \/ StopAborted
  BY <1>5
  DEF CancelCompletes, CancelTimesOut, StopAborted, ForgetTurn, Terminate, Announces, Breaks
<1>6. CASE StartTurn \/ EventsClosed
  BY <1>6 DEF StartTurn, EventsClosed, EventArm, Selecting, Breaks
<1>7. CASE JoinOk \/ JoinFailed
  BY <1>7 DEF JoinOk, JoinFailed, Joined, Terminate, Announces, Breaks
<1>8. CASE SendTerminal
  <2>1. terminal # NoEvent
    BY <1>8, EventParts DEF SendTerminal, EventTypeOK
  <2>2. CASE Holding
    BY <1>8, <2>1, <2>2 DEF SendTerminal, HeldGoesFirst, Enqueue, HasRoom, Queues
  <2>3. CASE ~Holding
    BY <1>8, <2>1, <2>3
    DEF SendTerminal, HeldGoesFirst, Holding, Enqueue, HasRoom, BreakWith, QueuesLast
  <2> QED BY <2>2, <2>3
<1>9. CASE TerminalGivesUp
  BY <1>9 DEF TerminalGivesUp, BreakWith, GivesUp
<1>10. CASE Cleanup \/ Exit
  BY <1>10 DEF Cleanup, Exit, Finishes
<1>11. CASE WriterEnds
  BY <1>11 DEF WriterEnds, EndsWriter
<1>12. CASE Writer
  BY <1>12 DEF Writer, WriteFrame, WriteFails, Puts, Fails
<1>13. CASE Reader \/ UNCHANGED vars \/ \E t \in Turns : Agent(t)
  BY <1>13 DEF Reader, Agent, ReadInput, ReadOrder, ReadMalformed, ReadEof, Forward, vars
<1> QED BY <1>1, <1>2, <1>3, <1>4, <1>5, <1>6, <1>7, <1>8, <1>9, <1>10, <1>11, <1>12, <1>13
        DEF Next, Select, Straight, Terminated

-----------------------------------------------------------------------------
(* The writer's end                                                        *)

\* A writer that is done leaves nothing queued; one that failed before the
\* terminal event was written never writes it; and only it ends a session as
\* one whose writer is gone.
EndInv ==
  /\ writer \in {"ended", "aborted"} => pc \in LastStages
  /\ writer # "running" => events = <<>>
  /\ writer = "failed" => \A i \in DOMAIN wire : ~IsTerminal(wire[i])
  /\ result \in {"writerClosed", "writerFailed"} => writer = "failed"

LEMMA EndInit == Init => EndInv
BY DEF Init, IOInit, EndInv

LEMMA EndKept ==
  ASSUME TInv, TerminalInv, IInv, EndInv, [Next]_vars
  PROVE  EndInv'
<1> USE DEF EndInv, LastStages, OpenStages, TerminalInv
<1>1. CASE Fails \/ EndsWriter
  BY <1>1 DEF Fails, EndsWriter
<1>2. CASE Puts \/ Queues \/ QueuesLast
  BY <1>2 DEF Puts, Queues, QueuesLast
<1>3. CASE GivesUp \/ Announces
  BY <1>3 DEF GivesUp, Announces, CrashResults
<1>4. CASE Breaks
  <2>1. writer \in WriterStages /\ result = "none"
    BY <1>4 DEF Breaks, IInv, TurnsInv, TInv, TypeOK, IOTypeOK
  <2> QED BY <1>4, <2>1 DEF Breaks, EarlyResults, WriterStages
<1>5. CASE Finishes
  BY <1>5 DEF Finishes
<1>6. CASE UNCHANGED endVars
  BY <1>6 DEF endVars
<1> QED BY <1>1, <1>2, <1>3, <1>4, <1>5, <1>6, EndSteps DEF EndStep

LEMMA SessionStep == [ProcessNext]_allVars => [Next]_vars
BY DEF ProcessNext, allVars, ParseArguments, StartStep, StartFails, Session, MainReturns, Exited

\* What the process does to its session is what a session does.
LEMMA ProcessIsSession == ProcessSpec => Spec
BY SessionStep, PTL DEF ProcessSpec, ProcessInit, Spec

LEMMA EndHolds == ProcessSpec => []EndInv
<1>1. TInv /\ TerminalInv /\ IInv /\ EndInv /\ [Next]_vars => EndInv'
  BY EndKept
<1> QED BY <1>1, EndInit, ProcessIsSession, TypesHold, TerminalHolds, InvariantHolds, PTL DEF Spec

-----------------------------------------------------------------------------
(* The exit code                                                           *)

\* A process exits before its session begins, with nothing said, or after it
\* has ended, with its result.
StageInv ==
  /\ stage \in {"arguments"} \cup StartStages =>
       pc = "loop" /\ wire = <<>> /\ exitCode = NoCode
  /\ stage = "session" => exitCode = NoCode
  /\ stage \in {"arguments", "session", "exited"} \cup StartStages
  /\ stage = "exited" => \/ pc = "loop" /\ wire = <<>>
                         \/ pc = "exited" /\ exitCode = SessionResult

LEMMA StageStep == StageInv /\ [ProcessNext]_allVars => StageInv'
<1> SUFFICES ASSUME StageInv, [ProcessNext]_allVars PROVE StageInv'
  OBVIOUS
<1> USE DEF StageInv, StartStages, StartSteps, SessionResult
<1>1. StartStages = {"connect", "discover", "checkProvider", "providerConfig", "currentDir"}
  OBVIOUS
<1>2. CASE UNCHANGED allVars \/ Exited
  BY <1>2 DEF Exited, allVars, processVars, vars, coordinatorVars, exitVars, ioVars, socketVars
<1>3. CASE ParseArguments \/ StartFails \/ MainReturns
  BY <1>1, <1>3
  DEF ParseArguments, StartFails, MainReturns, ExitWith, vars, coordinatorVars, exitVars, ioVars,
      socketVars
<1>4. CASE StartStep
  BY <1>1, <1>4 DEF StartStep, vars, coordinatorVars, ioVars, socketVars
<1>5. CASE Session
  BY <1>1, <1>5 DEF Session
<1> QED BY <1>2, <1>3, <1>4, <1>5 DEF ProcessNext

\* The exit code agrees with the last word the peer got, in every reachable
\* state of the process: success with done, failure with crash.
THEOREM ExitAgrees == ProcessSpec => []ExitAgreesWithWire
<1>1. ProcessInit => StageInv
  BY DEF ProcessInit, Init, IOInit, StageInv, StartStages, StartSteps
<1>2. TInv /\ TerminalInv /\ EndInv /\ StageInv => ExitAgreesWithWire
  <2> SUFFICES ASSUME TInv, TerminalInv, EndInv, StageInv, exitCode # NoCode
               PROVE  /\ OnWire("Done") => exitCode = 0
                      /\ OnWire("Crash") => exitCode = 1
    BY DEF ExitAgreesWithWire
  <2>1. CASE wire = <<>>
    BY <2>1 DEF OnWire
  <2>2. CASE wire # <<>>
    <3>1. pc = "exited" /\ exitCode = IF result = "ok" THEN 0 ELSE 1
      BY <2>2 DEF StageInv, SessionResult
    <3>2. ASSUME NEW i \in DOMAIN wire, wire[i].kind = "Done" PROVE result = "ok"
      <4>1. IsTerminal(wire[i])
        BY <3>2 DEF IsTerminal, TerminalKinds
      <4>2. result \in {"ok", "writerFailed"}
        BY <3>2, <4>1 DEF TerminalInv, EndsWell, Suits
      <4> QED BY <4>1, <4>2 DEF EndInv
    <3>3. ASSUME NEW i \in DOMAIN wire, wire[i].kind = "Crash" PROVE result # "ok"
      <4>1. IsTerminal(wire[i])
        BY <3>3 DEF IsTerminal, TerminalKinds
      <4> QED BY <3>3, <4>1 DEF TerminalInv, EndsWell, Suits
    <3> QED BY <3>1, <3>2, <3>3 DEF OnWire
  <2> QED BY <2>1, <2>2
<1> QED BY <1>1, <1>2, StageStep, EndHolds, ProcessIsSession, TypesHold, TerminalHolds, PTL
        DEF ProcessSpec

-----------------------------------------------------------------------------
(* The announcement of a failure                                           *)

Queued(kind) == \E i \in DOMAIN events : events[i].kind = kind

\* A crash is about to be sent, queued, or written, or was lost with a writer
\* that is gone.
Announced ==
  \/ pc = "terminal" /\ terminal = Crash
  \/ Queued("Crash") \/ OnWire("Crash")
  \/ writer \in {"failed", "aborted"}

AnnouncedInv == gaveUp \/ (result \in CrashResults => Announced)

LEMMA AnnouncedStays ==
  ASSUME TInv, TerminalInv, IInv, EndInv, AnnouncedInv, Session
  PROVE  AnnouncedInv'
<1> USE DEF CrashResults
<1>1. [Next]_vars
  BY DEF Session
<1>2. wire \in Seq(WorkerEvent) /\ events \in Seq(WorkerEvent)
  BY DEF TInv, TypeOK, IOTypeOK
<1>3. gaveUp => gaveUp'
  BY DEF Session
<1> SUFFICES ASSUME ~gaveUp, ~gaveUp', result' \in CrashResults PROVE Announced'
  BY <1>3 DEF AnnouncedInv
<1>4. ~(pc = "terminal" /\ pc' = "cleanup" /\ events' = events)
  BY DEF Session
<1>5. result \in CrashResults => Announced
  BY DEF AnnouncedInv
<1> USE DEF Announced
<1>6. CASE Fails
  BY <1>6 DEF Fails
<1>7. CASE EndsWriter
  <2>1. pc # "terminal" /\ Announced /\ UNCHANGED wire
    BY <1>5, <1>7 DEF EndsWriter
  <2>2. events = <<>> => ~Queued("Crash")
    BY DEF Queued
  <2>3. events # <<>> => writer' = "aborted"
    BY <1>7 DEF EndsWriter
  <2> QED BY <1>7, <2>1, <2>2, <2>3 DEF EndsWriter, OnWire
<1>8. CASE Puts
  <2>1. Announced /\ UNCHANGED <<pc, terminal, writer>>
    BY <1>5, <1>8 DEF Puts
  <2>2. ASSUME NEW i \in DOMAIN events, events[i].kind = "Crash"
        PROVE  OnWire("Crash")' \/ Queued("Crash")'
    <3>1. CASE i = 1
      <4>1. /\ Len(wire) + 1 \in DOMAIN wire' /\ wire'[Len(wire) + 1] = events[1]
        BY <1>2, <1>8 DEF Puts
      <4> QED BY <2>2, <3>1, <4>1 DEF OnWire
    <3>2. CASE i # 1
      <4>1. i - 1 \in DOMAIN events' /\ events'[i - 1] = events[i]
        BY <1>2, <1>8, <2>2, <3>2 DEF Puts
      <4> QED BY <2>2, <4>1 DEF Queued
    <3> QED BY <3>1, <3>2
  <2>3. OnWire("Crash") => OnWire("Crash")'
    <3>1. \A i \in DOMAIN wire : i \in DOMAIN wire' /\ wire'[i] = wire[i]
      BY <1>2, <1>8 DEF Puts
    <3> QED BY <3>1 DEF OnWire
  <2> QED BY <2>1, <2>2, <2>3 DEF Queued
<1>9. ASSUME NEW e, events' = Append(events, e), UNCHANGED wire
      PROVE  /\ Queued("Crash") => Queued("Crash")'
             /\ e.kind = "Crash" => Queued("Crash")'
             /\ OnWire("Crash") => OnWire("Crash")'
  <2>1. /\ \A i \in DOMAIN events : i \in DOMAIN events' /\ events'[i] = events[i]
        /\ Len(events) + 1 \in DOMAIN events' /\ events'[Len(events) + 1] = e
    BY <1>2, <1>9
  <2> QED BY <1>9, <2>1 DEF Queued, OnWire
<1>10. CASE Queues
  <2>1. Announced /\ UNCHANGED <<pc, terminal, writer, wire>>
    BY <1>5, <1>10 DEF Queues
  <2> QED BY <1>9, <1>10, <2>1 DEF Queues
<1>11. CASE QueuesLast
  <2>1. Announced /\ UNCHANGED <<writer, wire>> /\ events' = Append(events, terminal)
    BY <1>5, <1>11 DEF QueuesLast
  <2>2. terminal = Crash => terminal.kind = "Crash"
    BY TerminalEvents
  <2> QED BY <1>9, <2>1, <2>2
<1>12. CASE GivesUp
  BY <1>4, <1>12 DEF GivesUp
<1>13. CASE Announces
  BY <1>13 DEF Announces
<1>14. CASE Breaks
  BY <1>14 DEF Breaks, IInv, TurnsInv, EarlyResults
<1>15. CASE Finishes
  <2>1. Announced /\ pc # "terminal" /\ UNCHANGED <<wire, events, writer>>
    BY <1>5, <1>15 DEF Finishes
  <2> QED BY <2>1 DEF OnWire, Queued
<1>16. CASE UNCHANGED endVars
  BY <1>5, <1>16 DEF endVars, OnWire, Queued
<1> QED BY <1>1, <1>6, <1>7, <1>8, <1>10, <1>11, <1>12, <1>13, <1>14, <1>15, <1>16, EndSteps
        DEF EndStep

LEMMA AnnouncedStep ==
  TInv /\ TerminalInv /\ IInv /\ EndInv /\ AnnouncedInv /\ [ProcessNext]_allVars
    => AnnouncedInv'
<1> SUFFICES ASSUME TInv, TerminalInv, IInv, EndInv, AnnouncedInv, [ProcessNext]_allVars
             PROVE  AnnouncedInv'
  OBVIOUS
<1>1. CASE Session
  BY <1>1, AnnouncedStays
<1>2. CASE ~Session
  <2>1. UNCHANGED vars /\ UNCHANGED gaveUp
    BY <1>2
    DEF ProcessNext, ParseArguments, StartStep, StartFails, MainReturns, Exited, allVars,
        processVars
  <2> QED BY <2>1
          DEF AnnouncedInv, Announced, Queued, OnWire, vars, coordinatorVars, exitVars, ioVars,
              socketVars
<1> QED BY <1>1, <1>2

\* A failure is announced, in every reachable state of the process: unless its
\* deadline expired or the writer did not get to write it, a session that
\* overflowed, timed out in a cancel or had its turn fail has told its peer
\* crash when it is over.
THEOREM FailuresAreAnnounced == ProcessSpec => []FailureIsAnnounced
<1>1. ProcessInit => AnnouncedInv
  BY DEF ProcessInit, Init, AnnouncedInv, CrashResults
<1>2. EndInv /\ AnnouncedInv => FailureIsAnnounced
  <2> SUFFICES ASSUME EndInv, AnnouncedInv, ToldAll, result \in CrashResults
               PROVE  OnWire("Crash")
    BY DEF FailureIsAnnounced, CrashResults
  <2>1. events = <<>>
    BY DEF EndInv, ToldAll
  <2> QED BY <2>1 DEF AnnouncedInv, Announced, Queued, ToldAll
<1> QED BY <1>1, <1>2, AnnouncedStep, EndHolds, ProcessIsSession, TypesHold, TerminalHolds,
           InvariantHolds, PTL DEF ProcessSpec
=============================================================================
