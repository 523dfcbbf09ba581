--------------------------- MODULE WorkerScenarios ---------------------------
(***************************************************************************)
(* The tests of src/worker.rs under every schedule: the worker session     *)
(* with agents that follow a test's providers and a peer that follows its  *)
(* script.  A test run sees one schedule of the runtime; here every order  *)
(* of the reader, the writer, the agent, the coordinator and the peer is   *)
(* a behaviour, and the test's assertions are to hold in all of them.      *)
(*                                                                         *)
(* Deadlines do not expire, except where the test makes them.  The socket  *)
(* takes SocketRoom frames that the peer has not read.                     *)
(***************************************************************************)
EXTENDS Worker, WorkerTests, FiniteSets

CONSTANT SocketRoom       \* frames a socket buffers
ASSUME SocketAssumption == SocketRoom \in Nat \ {0}

VARIABLES
  test,                   \* the test, a field of Tests
  played,                 \* the steps each turn's agent has taken
  got,                    \* what each step of the peer so far has brought
  seen,                   \* the frames the peer has read
  failed                  \* an assertion has failed

scriptVars == <<test, played, got, seen, failed>>
allVars == <<vars, scriptVars>>

T == Tests[test]

ScenarioInit ==
  /\ Init
  /\ test \in DOMAIN Tests
  /\ played = [t \in Turns |-> 0]
  /\ got = <<>>
  /\ seen = 0
  /\ failed = FALSE

-----------------------------------------------------------------------------
(* Agents                                                                  *)

\* The next step of turn t's script, if it is that.
Plays(t, do) ==
  /\ played[t] < Len(T.turns[t])
  /\ T.turns[t][played[t] + 1].do = do
  /\ played' = [played EXCEPT ![t] = @ + 1]

ProviderStep(t) ==
  \/ Plays(t, "text") /\ EmitText(t)
  \/ /\ Plays(t, "call")
     /\ LET call == T.turns[t][played[t] + 1] IN BeginCall(t, call.tool, call.id)
  \/ Plays(t, "finish") /\ FinishTurn(t)
  \/ /\ Plays(t, "fail")
     /\ agentAt[t] = "working"
     /\ CloseEvents(t) /\ outcome'[t] = "err"

\* What the task does on its own.  A slow double is not dropped in time.
TaskStep(t) ==
  /\ \/ ApproveStep(t) \/ StartTool(t) \/ FinishCall(t) \/ TaskEnds(t)
     \/ agentAt[t] = "finishing" /\ CloseEvents(t)
     \/ ~T.slow /\ Killed(t)
     \/ ~T.slow /\ aborting[t] /\ LeaveApprove(t)
  /\ UNCHANGED played

ScriptedAgent(t) ==
  /\ Running
  /\ ProviderStep(t) \/ TaskStep(t)
  /\ UNCHANGED <<ioVars, coordinatorVars, test, got, seen, failed>>

-----------------------------------------------------------------------------
(* The peer                                                                *)

PeerDone == Len(got) = Len(T.peer)
Step == T.peer[Len(got) + 1]
At(do) == ~PeerDone /\ Step.do = do
Brought(event) == got' = Append(got, event)

Sends == At("send") /\ Brought(NoEvent) /\ UNCHANGED <<seen, failed>>

SeesHeld == At("held") /\ Holding /\ Brought(pendingEvent) /\ UNCHANGED <<seen, failed>>

Matches(e) ==
  /\ Step.kind \in {e.kind, "any"}
  /\ Step.turn \in {e.turn, 0}
  /\ Step.like # 0 => e.handle = got[Step.like].handle

Read == {wire[i] : i \in 1..seen}

\* What the test asserts of the frame it waited for.
Asserted(e) ==
  /\ Step.history # <<0>> => base[e.turn] = Step.history
  /\ \A t \in Step.over : agentAt[t] = "ended"
  /\ Step.after # 0 => got[Step.after] \in Read
  /\ Cardinality({i \in 1..seen : wire[i].kind = Step.count[1]}) = Step.count[2]

Reads ==
  /\ At("await")
  /\ seen < Len(wire)
  /\ seen' = seen + 1
  /\ LET e == wire[seen + 1]
     IN IF Matches(e)
          THEN Brought(e) /\ failed' = (failed \/ ~Asserted(e))
          ELSE UNCHANGED got /\ failed' = (failed \/ e.kind \in Step.not)

\* The timeout a test waits for.
TimePasses == At("await") /\ Step.kind = "nothing" /\ Brought(NoEvent) /\ UNCHANGED <<seen, failed>>

Peer == (Sends \/ SeesHeld \/ Reads \/ TimePasses) /\ UNCHANGED <<vars, test, played>>

-----------------------------------------------------------------------------
(* The worker                                                              *)

\* What was sent and is not read yet waits in the socket, in order.
Sent == {k \in DOMAIN got : T.peer[k].do = "send"}
ToRead ==
  CHOOSE k \in Sent : Cardinality({j \in Sent : j < k}) = inputsSent + ordersSent
Arrives ==
  LET c == T.peer[ToRead]
  IN CASE c.kind = "Input" -> Input(inputsSent + 1)
       [] c.kind = "Approve" -> ApproveCommand(got[c.on].handle, c.decision)
       [] OTHER -> Order(c.kind)

ScriptedReader ==
  /\ Running
  /\ inputsSent + ordersSent < Cardinality(Sent)
  /\ ReadInput \/ ReadOrder
  /\ commands' = Append(commands, Arrives)
  /\ UNCHANGED <<mapperVars, approverVars, agentVars, coordinatorVars, scriptVars>>

ScriptedWriter ==
  /\ Running
  /\ Len(wire) - seen < SocketRoom
  /\ WriteFrame
  /\ UNCHANGED <<mapperVars, approverVars, agentVars, coordinatorVars, scriptVars>>

\* The deadlines a test lets expire: on a slow double, and on a peer that never
\* reads.
Expires ==
  \/ T.slow /\ CancelTimesOut
  \/ ~T.drained /\ TerminalGivesUp
  \/ ~T.drained /\ WriterEnds /\ events # <<>>

InTime ==
  \/ StartTurn \/ DrainEvent \/ DrainEmpty \/ DrainClosed \/ JoinOk \/ JoinFailed
  \/ CancelCompletes \/ StopAborted
  \/ SendTerminal \/ Cleanup \/ Exit
  \/ WriterEnds /\ events = <<>>

Coordinator ==
  /\ \/ Select
     \/ InTime
     \/ Expires
  /\ UNCHANGED scriptVars

ScenarioNext ==
  \/ \E t \in Turns : ScriptedAgent(t)
  \/ Peer
  \/ ScriptedReader
  \/ ScriptedWriter
  \/ Coordinator

\* The runtime keeps polling what can go on: no fairness among tasks is needed.
ScenarioSpec == ScenarioInit /\ [][ScenarioNext]_allVars /\ WF_allVars(ScenarioNext)

-----------------------------------------------------------------------------
(* Properties                                                              *)

\* No schedule makes an assertion kept in the scripts fail: frames come in the order,
\* of the turns, with the handles and the history the test asserts, none that it
\* rules out comes, and run_connection returns what it asserts.  One assertion is not
\* kept, since a schedule does make it fail: the count of messages in `done' at
\* worker.rs:1407.  The stop may be read after the last turn_finished has gone out
\* and before its turn is joined, and the count then lacks that turn.
AssertionsHold ==
  /\ ~failed
  /\ pc = "exited" => result \in T.ends

\* No schedule makes a test hang: its peer gets every frame it waits for, and
\* the worker it joins has ended.
TestsComplete == <>(PeerDone /\ pc = "exited")
=============================================================================
