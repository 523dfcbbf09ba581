---------------------------- MODULE WorkerTests ----------------------------
(***************************************************************************)
(* The tests of src/worker.rs as scripts.  A test double of a provider is  *)
(* a script for the agent task of each turn; a test is the doubles it runs *)
(* the worker with, what its peer sends and waits for, and the outcome it  *)
(* asserts.  WorkerScenarios plays them.                                   *)
(*                                                                         *)
(* Sizes are scaled to channels of one or two: three tool calls, and an    *)
(* input beyond a queue of one, stand for 128 calls and 33 inputs.         *)
(***************************************************************************)
EXTENDS Naturals, Sequences, TLC

-----------------------------------------------------------------------------
(* Agent scripts.  A turn whose script is over and not Finished hangs.      *)

Text == [do |-> "text"]
ToolCall(tool, id) == [do |-> "call", tool |-> tool, id |-> id]
Finished == [do |-> "finish"]
Fail == [do |-> "fail"]

\* A stream of text deltas and, at its end, the assistant's message; the agent
\* runs the calls of a stream after that.
Stream(deltas, rest) == [i \in 1..(deltas + 1) |-> Text] \o rest

StopProvider == LET turn == Stream(1, <<Finished>>) IN <<turn, turn, turn>>

UseTool(tool, id) == Stream(0, <<ToolCall(tool, id)>>) \o Stream(0, <<Finished>>)

ApprovalProvider == <<UseTool("mutate", "p"), <<>>, <<>>>>
NonApprovalProvider == <<UseTool("inspect", "p"), <<>>, <<>>>>

\* Its first stream stops after a delta.
CancelProvider == <<<<Text>>, Stream(1, <<Finished>>), <<>>>>
FragmentProvider == <<<<Text, Text>>, Stream(0, <<Finished>>), <<>>>>

HeldEventProvider ==
  <<Stream(0, <<ToolCall("inspect", "p"), ToolCall("inspect", "q"), ToolCall("inspect", "r")>>),
    Stream(1, <<Finished>>), <<>>>>
BackpressuredApprovalProvider ==
  <<Stream(0, <<ToolCall("inspect", "p"), ToolCall("inspect", "q"), ToolCall("mutate", "r")>>)
      \o Stream(0, <<Finished>>), <<>>, <<>>>>

SecretErrorProvider == <<<<Fail>>, <<>>, <<>>>>

CrossTurnApprovalProvider ==
  <<UseTool("mutate", "p"), UseTool("mutate", "q"), UseTool("other", "r")>>
ReusedProviderCallIdProvider ==
  LET turn == UseTool("mutate", "p") IN <<turn, turn, turn>>

CancellationOrderProvider ==
  <<Stream(1, <<Finished>>), <<Text>>, Stream(1, <<Finished>>)>>

-----------------------------------------------------------------------------
(* Steps of a test's peer                                                  *)

Kinds == {"Text", "ToolStart", "ToolResult", "TurnFinished", "NeedsApproval",
          "Done", "Crash"}

Send(kind) == [do |-> "send", kind |-> kind]

\* The decision on the request the frame of step `on' announced.
Decide(on, decision) == [do |-> "send", kind |-> "Approve", on |-> on, decision |-> decision]

\* Read frames until one of a kind has come.  `asserts' is what the test says of
\* it: its turn, the history that turn started from, turns that are over by then,
\* the step whose frame has the same handle, the step whose event was read before,
\* how many frames of a kind were read before, and what must not come meanwhile.
Await(kind, asserts) ==
  asserts @@ [do |-> "await", kind |-> kind, turn |-> 0, history |-> <<0>>, over |-> {},
              like |-> 0, after |-> 0, count |-> <<"none", 0>>, not |-> {}]
Until(kind) == Await(kind, <<>>)
NextFrame(kind, turn) == Await(kind, [turn |-> turn, not |-> Kinds])
AnyFrame == Await("any", <<>>)

\* Nothing of these kinds comes for a while.
Quiet(kinds) == Await("nothing", [not |-> kinds])

\* The double's Notify: the coordinator holds an event.
WhenHeld == [do |-> "held"]

\* A test: doubles, peer, the result of run_connection it asserts, whether the
\* doubles outlast the cancel deadline, and whether the peer never reads.
Test(provider, peer, ends) ==
  [turns |-> provider, peer |-> peer, ends |-> ends, slow |-> FALSE, drained |-> TRUE]

-----------------------------------------------------------------------------
(* The tests                                                               *)

StopAndJoin == <<Send("Stop"), AnyFrame>>

SpawnWithHeldEvent == <<Send("Input"), WhenHeld>>

CancelPreservesHeldEvent ==
  Test(HeldEventProvider,
    SpawnWithHeldEvent \o
    <<Send("Cancel"), Send("Input"),
      Await("Text", [turn |-> 2, after |-> 2]),
      Until("TurnFinished")>> \o StopAndJoin, {"ok"})

StopOrdersHeldEvent ==
  Test(HeldEventProvider,
    SpawnWithHeldEvent \o <<Send("Stop"), Await("Done", [after |-> 2])>>, {"ok"})

OverflowOrdersHeldEvent ==
  Test(HeldEventProvider,
    SpawnWithHeldEvent \o
    <<AnyFrame, Send("Input"), Send("Input"), Await("Crash", [after |-> 2])>>,
    {"overflow"})

\* Without the count of messages in `done', line 1407: see AssertionsHold.
InputStreamsAcrossTurns ==
  Test(StopProvider,
    <<Send("Input"), NextFrame("Text", 1), NextFrame("Text", 1), NextFrame("TurnFinished", 1),
      Send("Input"), NextFrame("Text", 2), NextFrame("Text", 2), NextFrame("TurnFinished", 2),
      Send("Stop"), NextFrame("Done", 0)>>, {"ok"})

ApprovalResumesCall ==
  Test(ApprovalProvider,
    <<Send("Input"), Until("NeedsApproval"), Decide(2, "Allow"),
      Await("ToolStart", [like |-> 2, not |-> {"TurnFinished"}]),
      Await("ToolResult", [like |-> 2, not |-> {"TurnFinished"}]),
      Until("TurnFinished")>> \o StopAndJoin, {"ok"})

NonApprovalSharesHandle ==
  Test(NonApprovalProvider,
    <<Send("Input"),
      Await("ToolStart", [not |-> {"NeedsApproval", "TurnFinished"}]),
      Await("ToolResult", [like |-> 2, not |-> {"NeedsApproval", "ToolResult", "TurnFinished"}]),
      Await("TurnFinished", [not |-> {"NeedsApproval"}])>> \o StopAndJoin, {"ok"})

CancelAbortsActiveTurn ==
  Test(CancelProvider,
    <<Send("Input"), NextFrame("Text", 1), Send("Cancel"), Send("Input"),
      Until("TurnFinished")>> \o StopAndJoin, {"ok"})

\* The cancel is complete when its second fragment is sent.
FragmentedCommand ==
  Test(FragmentProvider,
    <<Send("Input"), NextFrame("Text", 1), NextFrame("Text", 1), Send("Cancel"), Send("Input"),
      Until("TurnFinished")>> \o StopAndJoin, {"ok"})

StopExitsUndrained ==
  [Test(HeldEventProvider, SpawnWithHeldEvent \o <<Send("Stop")>>, {"ok"})
     EXCEPT !.drained = FALSE]

ProviderErrorCrashes ==
  Test(SecretErrorProvider, <<Send("Input"), Until("Crash")>>, {"turnFailed"})

AllowAllPersists ==
  Test(CrossTurnApprovalProvider,
    <<Send("Input"), Until("NeedsApproval"), Decide(2, "AllowAll"), Until("TurnFinished"),
      Send("Input"), Await("TurnFinished", [not |-> {"NeedsApproval"}]),
      Send("Input"), Await("NeedsApproval", [not |-> {"TurnFinished"}]),
      Decide(8, "Deny"), Until("TurnFinished")>> \o StopAndJoin, {"ok"})

QueuedInputOverflow ==
  Test(CancelProvider,
    <<Send("Input"), NextFrame("Text", 1), Send("Input"), Send("Input"), NextFrame("Crash", 0)>>,
    {"overflow"})

CancelPreservesHistory ==
  Test(CancellationOrderProvider,
    <<Send("Input"), Until("TurnFinished"),
      Send("Input"), NextFrame("Text", 2), Send("Cancel"), Send("Input"),
      Await("Text", [turn |-> 3, history |-> <<1>>, over |-> {2}, not |-> Kinds]),
      Until("TurnFinished")>> \o StopAndJoin, {"ok"})

StaleHandle ==
  Test(ReusedProviderCallIdProvider,
    <<Send("Input"), Until("NeedsApproval"), Send("Cancel"),
      Send("Input"), Until("NeedsApproval"),
      Decide(2, "Allow"), Quiet({"ToolStart", "ToolResult"}),
      Decide(5, "Allow"),
      Await("ToolStart", [like |-> 5, not |-> {"ToolStart", "ToolResult", "TurnFinished"}]),
      Await("ToolResult", [like |-> 5, not |-> {"ToolStart", "ToolResult", "TurnFinished"}]),
      Until("TurnFinished")>> \o StopAndJoin, {"ok"})

AssistantPrecedesApproval ==
  Test(ApprovalProvider,
    <<Send("Input"),
      Await("NeedsApproval", [count |-> <<"Text", 1>>, not |-> {"ToolStart"}]),
      Decide(2, "Allow"),
      Await("ToolStart", [like |-> 2, not |-> {"ToolStart"}]),
      Until("TurnFinished")>> \o StopAndJoin, {"ok"})

BarrierUnderBackpressure ==
  Test(BackpressuredApprovalProvider,
    <<Send("Input"), WhenHeld,
      Await("NeedsApproval", [count |-> <<"ToolResult", 2>>]),
      Decide(3, "Allow"),
      Await("ToolStart", [like |-> 3, not |-> {"ToolStart"}]),
      Until("TurnFinished")>> \o StopAndJoin, {"ok"})

CancelTimeoutCrashes ==
  [Test(CancellationOrderProvider,
     <<Send("Input"), Until("TurnFinished"),
       Send("Input"), NextFrame("Text", 2), Send("Cancel"), NextFrame("Crash", 0)>>,
     {"cancelDeadline"}) EXCEPT !.slow = TRUE]

Tests ==
  [cancel_preserves_held_event |-> CancelPreservesHeldEvent,
   stop_orders_held_event |-> StopOrdersHeldEvent,
   overflow_orders_held_event |-> OverflowOrdersHeldEvent,
   input_streams_events |-> InputStreamsAcrossTurns,
   approval_command_resumes |-> ApprovalResumesCall,
   nonapproval_events_share_handle |-> NonApprovalSharesHandle,
   cancel_aborts_only_active_turn |-> CancelAbortsActiveTurn,
   fragmented_command_survives |-> FragmentedCommand,
   stop_exits_within_deadline |-> StopExitsUndrained,
   provider_error |-> ProviderErrorCrashes,
   allow_all_persists |-> AllowAllPersists,
   queued_input_overflow |-> QueuedInputOverflow,
   cancel_preserves_history |-> CancelPreservesHistory,
   stale_approval_handle |-> StaleHandle,
   assistant_precedes_approval |-> AssistantPrecedesApproval,
   approval_barrier |-> BarrierUnderBackpressure,
   cancel_timeout |-> CancelTimeoutCrashes]
=============================================================================
