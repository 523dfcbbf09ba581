# peakcode-daemon in TLA+

This directory models the worker of peakcode-daemon: the process that runs one
coding-agent session, talks to the daemon over a Unix socket, and asks it for
permission before the agent runs a tool that needs it. Paths below are relative
to the repository; line numbers are those of the modelled commit.

## The system

| Component | Source | State | Operations |
| --- | --- | --- | --- |
| Worker coordinator | `src/worker.rs` `run_connection` | active turn, queued inputs, one held outward event, approval barrier, message history | arms of two selects, straight-line turn start, barrier drain, cleanup |
| Command reader, event writer | `src/worker.rs:77-102` | the two socket halves, channels of 64 | forward a command or an error; write an event |
| Remote approver | `src/remote_approver.rs` | pending table, allowed tools, generation tokens, notice channel | `approve`, `resolve`, `cancel_pending`, the drop guard |
| Call-id mapper | `src/call_id_mapper.rs` | provider id to opaque handle | `start_approval`, `start_event`, `finish`, `clear` |
| IPC framing | `src/ipc.rs` | partial frame, capped buffer | `read_frame`, `write_frame` |
| Agent | peakcode-core, not in the repository | event channel, task, turn messages | text, tool calls through `approve`, the end of the turn |
| Redaction | `src/redaction.rs` | secrets; a cursor into the text being edited | `from_env`, `redact_event`, the passes of `redact_text` |
| Command line, start-up | `src/main.rs`, `worker::run` | the mode, the exit code | argument parsing, stubs, the fallible steps before a session |
| gRPC contract | `proto/`, `src/proto.rs` | none | generated types of a service that does not exist yet |

The peer's commands reach the coordinator through the reader's channel, its
events leave through the writer's. The agent task sends core events into a
channel of its own, and calls `approve` in the adapter it shares with the
coordinator; the adapter's notice reaches the coordinator through a third
channel, its answer goes back through a one-shot channel. The call-id mapper is
shared the same way. What is hard is that four tasks meet in these channels: the
order in which the coordinator empties them is what the documents promise to
the peer, and a cancel, a stop, a failure or a full channel may come between any
two steps.

What makes each part correct:

- coordinator: outward events in the agent's order and turn after turn,
  `needs_approval` as a barrier, one turn at a time, a history of exactly the
  finished turns, no input dropped, one terminal event and that the last, an end
  within bounds;
- approver: waiters and table in agreement, a yes only on a ruling for that very
  call or a kept `allow_all`, no call of the past touching one of the present;
- mapper: a handle names one call outside;
- framing: whole frames, in order, independent of chunking, within the limit;
- redaction: no configured value that comes through whole, no token or key left,
  edits in place that come to the same as one pass over the untouched text, loops
  that end;
- process: an exit code that agrees with the last word the peer was told.

`PROJECT.json` lists the hazards of the code line by line with the properties
that cover them.

## Modules

| Module | Models |
| --- | --- |
| `CallIdMapper` | `call_id_mapper.rs`, an action per method |
| `RemoteApprover` | `remote_approver.rs`; `approve` cut at its lock sections and awaits |
| `ApprovalService` | the adapter under any use: concurrent calls, drops, late and repeated decisions, sweeps, a closed channel |
| `ApprovalContract` | what the adapter promises, without handles, channels or locks |
| `CoreAgent` | the agent task, external, as `worker.rs` and its tests use it |
| `WorkerIO` | reader task, writer task and what a peer may do |
| `Worker` | `run_connection` composed with all of these |
| `WorkerProperties` | its properties |
| `SessionContract` | what a session promises its daemon: inputs taken, turns run one by one on the history so far, completed or abandoned, an end |
| `WorkerProcess` | the process around a session: `main`'s modes, the steps of `worker::run`, the exit code |
| `WorkerTests` | the tests of `worker.rs` as scripts for the agent and the peer, with their assertions |
| `WorkerScenarios` | `Worker` with an agent and a peer that follow such a script |
| `FrameReader` | `read_frame` |
| `FrameStream` | `read_frame` on any stream of bytes, against a reference that sees the stream as a whole |
| `FrameLink` | `write_frame` and `read_frame` on one socket |
| `FrameFifo` | the queue of whole frames that a connection implements and `WorkerIO` assumes |
| `Redaction` | `redaction.rs`: an action per iteration of each loop that edits the text |
| `ApprovalServiceProofs` | proofs about the adapter and its contract |
| `FrameStreamProofs` | proofs about the reader |
| `FrameLinkProofs` | proofs about the connection and the queue it implements |
| `WorkerProofs` | proofs about a session: types, turns, history, inputs, its contract, held and terminal events |
| `WorkerApprovalProofs` | approvals within a session |
| `WorkerOutwardProofs` | what the peer sees: order, barrier and handles |
| `WorkerProcessProofs` | the exit code and the announcement of failures |
| `RedactionProofs` | proofs about redaction |
| `MC...` | instances for TLC |

`Worker` EXTENDS `WorkerIO`, `CoreAgent`, `RemoteApprover` and `CallIdMapper` in
that order, so that an action of the coordinator can name the adapter's
operations it calls. Definitions headed `Fault` are what a plausible mistake
would make of the definition below them; no specification uses them. They are
there to show that each property notices something.

### How the code maps to actions

`run_connection` is one task; `pc` is the await it is in. The two selects and
the idle `recv` (lines 116, 183, 225) share `Selecting`: their arms do the same
to the same state, apart from guards on `active` and `pendingEvent` that the
actions carry. (The idle `recv` does not look at the queue limit, but reaches the
arm only with an empty queue.) Straight-line code between awaits is part of the
action before it: `MustStart` and `MustDrain` give the code at lines 167 and 203
precedence over the selects. Sending the terminal event, cancelling, stopping,
joining and draining the writer are awaits with `pc` values of their own.

`approve` goes `new`, `admitted`, `named`, `registered`, `waiting`, `returned`,
a step per lock section, and it can be dropped at its two awaits (`Abort`). Rust
drops the awaited future first and the locals in reverse: dropped in `send`, the
call loses its guard, and with it its entry, before its receiver; dropped in
`response_rx.await` it loses the receiver first and is `dropping` until its guard
gets the lock (`GuardRuns`). A decision that comes between the two takes the entry
and reaches nobody (`sent` is false at line 104), so no `allow_all` is kept from it.
A generation token is the request itself, since `next_token`
never repeats. UUIDs are drawn from a counter. The text of events, the
arguments of tools and messages are abstract: an event is its kind, turn and
position, a history the list of turns whose messages it holds.

The agent is peakcode-core's, so `CoreAgent` allows all that `worker.rs` provides
for: its task may fail or panic at any of its awaits, also while it waits in
`approve`, and the coordinator then meets a closed event channel with a request
still announced.

`SessionContract` sees of all this the inputs taken, the queue, the active turn,
the history and whether the session has a result; a turn whose task is still
there after that is to it already abandoned.

Time is not modelled. A deadline may expire whenever what it waits for is not
there: `CancelTimesOut`, `StopAborted`, `TerminalGivesUp`, `WriterEnds`. The
socket's own buffer is not modelled in `Worker`: a frame popped by the writer is
on the wire, so a writer stuck in `write_all` looks like one that has not popped
its frame yet; `FrameLink` has the bytes.

The connection may also break (`PeerResets`, `LinkResets`), as a Unix socket does
whose peer closes with data unread: `fill_buf().await?` at `ipc.rs:140` then
reports an error at a frame boundary or inside a frame, and what the socket still
held is lost (`ReadError`). Nothing says when the reader learns of a reset, so it
may still read from a socket that has one. To the session an error of the socket
and a bad frame are the same (`ReadMalformed`): an error that ends the loop.

`Redaction` takes a text as a sequence of symbols; patterns, the marker and the
character classes are constants. An action is an iteration of a loop with the
code's cursor, and a label, a secret or a prefix is finished when its search
finds nothing more. `PassFrom` is a pass over a text that stays as it is:
`str::replace` in the first loop, and the reference by which the edits in place of
the later ones are measured. `from_env`'s settings are the initial state. Beside the
text, `origin` remembers where in the event's text each symbol was: what becomes of
an occurrence of a configured value can then be told after other edits, too.

In `WorkerProcess` each step of `worker::run` may fail, and the peer, already
connected, then only sees the socket close. What a session does is `Worker`'s
`Next`, untouched; `gaveUp` remembers that a terminal event was given up.

A script of `WorkerTests` lists what a test's provider does in each turn and what
its peer sends, waits for and asserts (also of frames that must not come).
`WorkerScenarios` restricts the agent, the reader and the peer of `Worker` to it
and leaves the coordinator, the writer and the schedule free. Deadlines do not
expire there, except on the slow double of `cancel_timeout` and on a peer that
never reads: the tests give seconds to steps of microseconds. Two tests of
`worker.rs` are not scripts: `tool_arguments_and_output_are_redacted...` (line
1646) is about texts, which are `Redaction`'s, and
`cancel_completes_active_task...` (line 1901) calls one function, without a
session. One assertion is left out of the scripts because a schedule makes it fail,
the count of messages in `done` at line 1407: the stop may be read after the last
`turn_finished` has gone out and before that turn is joined, the race that
`worker_finished_turn` shows for a cancel. `AssertionsHold` speaks of the others.

## Runs

Every channel capacity is 1 or 2 and the input limit 1, where the code has 64,
64, 64, 64 and 32: full channels, a full queue and an overflow then happen within
a few steps, and no guard compares a capacity with anything but the length of its
own queue.

| Run | Question | Bounds |
| --- | --- | --- |
| `approval_service` | table and waiters, whose ruling lets a call go, contract; an answered call returns | 2 concurrent calls of one or two provider ids, a registered and an unregistered tool, notice channel of 1, any number of decisions and cancels |
| `worker_turns` | outward order, one turn, history, inputs, terminal event, held event, session contract; exit code and wire agree; failed turns, overflows and expired cancels are announced | the whole process; 3 inputs with a queue of 1, 2 other commands, a text and the end of each turn: overflow, cancel deadline and failures all occur |
| `worker_approvals` | types and capacities, barrier, rulings before gated tools, announced waiters, nothing left behind | 1 turn, 2 calls with one id, a gated and an ungated tool, a text before each, 2 commands |
| `worker_handles` | a handle is one call | 2 turns, 2 calls, one id not reused within a turn, 2 commands |
| `worker_process` | the session ends after a stop, the end of the commands or the loss of the writer; a waiting request reaches a peer that reads | every mode and start-up failure; 1 turn, 1 call, a text, 1 command, fairness |
| `worker_scenarios` | the assertions of 17 tests hold, and the tests complete, under every schedule | the tests, scaled: three tool calls, and an input beyond a queue of one, stand for 128 calls and 33 inputs; a socket that buffers `SocketRoom` = 2 frames |
| `redaction` | every configured value is broken, nothing left beside a marker, edits in place against one pass, cursor within the text, loops end | every text of up to 4 of 10 symbols in every field; three environments: values within one another, a value that is part of the marker (empty replacement), a value that begins with the marker's end; two key labels, a bearer word in two cases, two prefixes, tokens of one symbol after the prefix |
| `redaction_promise` (violation) | is any configured value left? | as `redaction` |
| `frame_stream` | chunking does not matter, reasons of a failure, buffer bounded, the reader ends | every stream of 6 bytes over 3 kinds, limit 2, chunks to 3, a close or a reset anywhere |
| `frame_link` | frames arrive whole or not at all | frames below, at and over a limit of 3, socket of 3 bytes, 3 frames, a reset anywhere |

Three inputs are the least for a turn that runs, one that waits and one that
overflows a queue of one; two turns the least for something to be left over from
one to the next; two calls let a decision, a sweep or a reused id of one meet the
other, and the theorems about the adapter cover any number. Four symbols hold a
begin and an end of a key, a bearer word and its token, two secrets that overlap,
or a pattern that the removal of another one joins. A session takes at most
`MaxTurns` inputs, makes at most `MaxCalls` tool calls, and receives at most
`MaxOrders` approve, cancel and stop commands; `MaxTextStamp` limits plain text
to the first events of a turn, `MaxStream` and `MaxSent` the bytes and frames of
a connection, `MaxText` the length of a text.

Deadlock is checked in the runs of `Worker` and `WorkerProcess` (an ended session
and an exited process stutter explicitly). It is off for the adapter, whose calls
may wait for a decision for ever, for the framing, whose reader stops after an
error, for redaction, which ends, and for the tests: that these do not stop short
is `TestsComplete`.

`FailureIsAnnounced` says that a failed turn, an overflow and an expired cancel
are told to the peer. A session that ends on a refused frame, an error of the
socket or the loss of the writer also fails the process without a `crash` event;
there the connection is what failed, and no property speaks of it. That start-up
says nothing to the peer (`worker.rs:36`) holds by the order of the code and has no
property either.

Three runs show where a document and the code disagree:

- `worker_reused_ids`: `docs/internal-ipc.md:120` promises that a call's events
  carry the handle of its `needs_approval`, also for a provider that reuses ids
  (line 118). `start_approval` overwrites the id's entry at once while the
  earlier call's events may still be queued, unmapped; one of them can go out
  under the later call's handle. Without reuse within a turn the property holds
  (`worker_handles`).
- `worker_finished_turn`: `turn_finished` "marks completion of the active user
  turn" and a cancel "retains history from completed turns"
  (`docs/internal-ipc.md:54,140`). A cancel read between forwarding that event
  and joining the task throws the finished turn's messages away.
- `redaction_promise`: "every non-empty matching value is redacted", and an empty
  replacement is used "so generated marker text cannot reintroduce the secret"
  (`docs/internal-ipc.md:177-181`). With an empty replacement, removing one value
  can join what was around it to another one that was looked for before: with the
  values `sp` and `R`, `sRp` leaves `sp`. With the marker, a value that begins with
  the marker's end can come about beside one. What does hold is `ValuesAreBroken`:
  no occurrence in the event's own text comes through whole.

Two more such places need no run, a look at one line shows them:

- `crash` "reports that the worker cannot continue because of an unexpected
  failure" and errors returned to the process boundary "are generic after a
  detailed, redacted `crash` event" (`docs/internal-ipc.md:56,182-183`). A panic of
  the agent task leaves the loop at `worker.rs:321` with an error and
  no event, unlike a turn that returns an error. `FailureIsAnnounced` therefore
  leaves panics out.
- `docs/grpc-api.md:105` says `ALLOW_ALL` covers subsequent calls "for the session";
  the code, and `docs/internal-ipc.md:76`, keep it per registered tool, and so does
  `ApprovalContract`.

## Fairness

The safety runs assume none. `Fairness` of `Worker` assumes what tokio gives: a
task that can go on is polled, a due deadline fires (weak fairness of the
coordinator's straight-line steps), `select!` chooses at random among ready arms
(strong fairness of each arm), and an agent task that has closed its channel ends
(`TaskEnds`). The last is an assumption about peakcode-core and is needed:
`turn.handle.await` at `worker.rs:314` has no deadline, and no property covers that
wait. Neither the provider, nor
a tool, nor the peer is assumed to do anything; `ApprovalReachesPeer` has a peer
that reads, `WF_vars(Writer)`, as a hypothesis of its own. `ProcessSpec` adds a
`main` that goes on. `FairSpec` of `ApprovalService` polls the calls that can go
on, `FairStreamSpec` and `FairSpec` of the framing modules the reading task,
`FairSpec` of `Redaction` the one function there is. `ScenarioSpec` needs no fairness among tasks: every
test is finite, and weak fairness of its whole next-state relation is enough.

## Proofs

All theorems hold for any sets of tools and provider ids, any capacities and
limits, and any numbers of turns, calls and commands that the modules' assumptions
allow: `ApproverAssumption`, `AgentAssumption`, `IOAssumption`,
`CoordinatorAssumption`, `ReaderAssumption`, `LinkAssumption` (capacities and
limits are positive, registered and gated tools are tools, requests are numbered,
an event is bytes without a newline), `RedactionAssumption` (patterns are non-empty
texts) and `PatternAssumption`: the marker begins with a symbol no token has and is
free of blanks, a bearer word or prefix does not overlap itself, and no pattern
overlaps the marker. Of the configured values nothing is assumed. The patterns of `redaction.rs:3-21` and `[REDACTED]` are such: no
pattern has a bracket, and none is part of `REDACTED` in its case.

**The adapter.** `ApprovalServiceProofs` proves the safety properties
`approval_service` checks. `WaitersMatchEntries` says that a listening call without
an answer has its entry, and that an entry is of a call that listens or whose guard
is still to run, not that every entry has a listener. It is not inductive alone:
the invariant `IInv` adds that handles are never drawn twice (`HandlesDistinct`),
which stages of a call have a handle (`StagesNamed`), and that every yes is backed
by a ruling on the call's own handle (`AnswersBacked`). `Register` needs the first
to find its entry vacant, `Resolve` to hit the right call, `OwnRuling` the last
two. One lemma per operation shows that it preserves each part.
The invariant of the refinement, `CInv`, adds `RulingAfterNotice` (only a call whose notice was
sent can have been ruled on; otherwise the failure of a send could deny what was
allowed); a decision for a call that no longer listens (`UnheardInv`) is a stutter
to the contract, for which such a call is withdrawn. With it `ApprovalService` implements `ApprovalContract`: each lemma
`...Implements` maps one operation to `Ask`, `Allow`, `AllowAll`, `Deny`,
`Withdraw` or a stutter.

**The reader.** `PayloadBounded`: `read_frame` never buffers more than the limit
of a frame, whatever the stream and its chunks. `LinesReturned`, that it returns
the lines of the stream, needs `StreamInv`: the buffer, then the chunk, then the
socket are exactly the bytes of the stream that no returned line has
(`ChunksInv`), so the frame being read begins behind the end of the last line
returned and has no newline yet (`PayloadInv`); the lines returned are the first
ones of the stream, each a good one (`LinesInv`); a failure has its reason in the
stream, or is a reset found with the buffer empty (`FailedInv`), a close the
stream's end (`ClosedInv`). The reference cuts the whole
stream into lines; the lemmas of the first part say where it cuts (`IsEnd`), and
that a longer stream is cut at the same places.

**The connection.** `LinkInv` adds the writer's side to `StreamInv`: the lines in
the stream are the frames written (`WrittenInv`), a frame is serialized piece by
piece without a byte too much (`SerializingInv`), and behind the lines there is
nothing, the part of a frame the socket took, or the fragment a stopped writer
left, which is within the limit and has no newline (`TailInv`). `LinkBounded` is
its type part. `LinkImplements` maps the connection to `FrameFifo`: the step of
the writer that puts the newline into the socket is the write, the step of the
reader that returns a line the read, all others stutter; that a read returns the
oldest frame not yet read is `ReadPrefix`, that the reader meets the end only
behind the last of them, or fails on a reset, `ReaderEnd`. The queue can lose its
last frames to a `Reset` and to nothing else.

**The types of a session.** `TypeCorrect` in `WorkerProofs` is `TypeOK`, capacities
included, from `TInv`, which adds what the types need: an event of a tool names a
call that was made, a task in the middle of a call has made one (`AgentCalls`),
and what the coordinator joins or sends last is there (`Pending`). One lemma per
group of actions; the operators of the adapter, the tasks and the socket have
theirs.

**Turns.** `Worker` has some forty actions, but only a few kinds of step as far as
turns, history and inputs go. The proof first shows that every step is one of
the kinds of `CoreNext` (the reader forwards, a task goes on, an input or an order
is taken, a turn is left, started, awaited or joined, the session closes), and
then takes only these through the invariant `IInv`: the stage of the
coordinator against the turn and the result (`TurnsInv`), inputs in the command
channel numbered on from those taken (`CommandsInv`), the queue on from those
started (`QueueInv`), the history sorted, of turns that ended well and that were
started (`HistoryInv`). `OneTurnAtATime`, `HistoryOfFinishedTurns` and
`InputsKept` follow. None is inductive by itself: that a started turn is the next
number needs the queue, the queue needs the channel, the channel the reader.
`SessionImplements` maps each kind of step to a step of `SessionContract` or a
stutter.

**Events.** `HeldIsSent` takes the steps one by one from the
types; `TerminalLast` follows from `TerminalInv`: a terminal event in the channel or
on the wire is at the end of its queue, nothing is held behind it, the loop is
over, and it suits the result. Here every step is one of the kinds of
`SendingStep`.

**Approvals.** `WorkerApprovalProofs` builds three invariants on these.
`AInv` is about the adapter in a session: a call inside `approve()` is the last
call of a task that is there with it (`CallInv`), so dropping the task drops the
right call; handles are unique (`HandlesInv`); every yes, given or kept, is backed
by a ruling, a kept one by a ruling on an earlier call of the tool (`RulingsInv`).
`GInv` follows a call to the peer: a handle the peer knows was shown to it
(`ShownInv`), a `tool_start` in any queue is of a call that may run (`StartsInv`),
and on the wire it comes after its request (`OrderInv`). `LeftInv` and `WaitInv`
strengthen the two properties of their names. `NothingLeftBetweenTurns`,
`GatedToolsNeedRuling` and `WaiterIsAnnounced` follow.

**Order.** `WorkerOutwardProofs` looks at `Outward`, all that is written, queued
or held for the peer. No step moves an event in it: one comes at its end, and
what is lost is lost from its end (`OutwardMoves`). What was true of the events
before one therefore stays true, and an event has to be looked at only when it
comes: what an agent has emitted and the coordinator has not taken is in the
channel, numbered on from what was taken (`ChannelsInv`), the active turn is the
latest started (`LatestInv`), before every event are all of its turn's earlier
ones and nothing later (`SentInv`), and while the turn runs all that was taken is
outside (`FlowInv`). `OutwardOrder` follows.

**The barrier.** A request is announced when the channel is empty after its notice
was taken. That this means the events before the request, all of them and no
others, needs the agent's side: while its turn runs, what the coordinator was told
of is the one request that waits and that nobody can have answered, since the peer
was not asked (`AskInv`); so its task is still in the call and has sent nothing
since (`PausedInv`); so what was emitted at the call, taken from the empty channel
and sent, is what is ahead (`BarrierInv`). `NeedsApprovalIsABarrier` follows.

**Handles.** `HandlesIdentify` has the hypothesis `~ReuseIds`, without which it is
false (`worker_reused_ids`). The mapper's entry for an id is written by the agent
inside `approve` and read and removed by the coordinator, which is behind it by
the events in the channel. `EntryInv` is what holds between the two: as long as an
event of a call may come, the entry under its id is the handle the peer knows the
call by and no other event has it, and an id no call of the turn uses has no
entry. It rests on `NInv`: entries were drawn, one per id (`MapInv`); calls of a
turn differ in their ids (`NamesInv`); nothing is shown of a call without its
handle (`AskedInv`); a result is the last event of its call (`ToolsInv`), or its
`finish` would take the entry from a later one.

**The process.** A session inside `WorkerProcess` is one of `Worker`
(`ProcessIsSession`), so all of the above holds there. `EndInv` says what the end
of a writer means for the terminal event, `StageInv` that before its session a
process has said nothing and has no exit code; `ExitAgrees` follows with `TerminalInv`.
`FailuresAreAnnounced` follows the `crash` event from the result to the wire
(`AnnouncedInv`) through everything but the deadline and the loss of the writer.

**Redaction.** The prover cannot follow a recursive definition over a text. So
`PassExists` and `PassIs` first show that the function `PassFrom` recurs to exists
and satisfies its equation at every offset; what follows about it is argued
from the greatest offset at which it might fail (`GreatestOf`), where the equation
gives a contradiction. `PassCopies`, `PassToNext` and `PassOfSpan` are all that is
used of a pass afterwards.

`TypeCorrect` needs `Typed`: secrets are not empty, and the cursor is 0 outside the
two loops that have one. `BearerMoves`, `PrefixMoves`, `KeyMoves` and `SecretMoves` say
what an iteration may do, with the first match named.

`EditsMatch` says that the loops that edit in place come to one pass. The invariant
`Matched` relates the text being edited to the text the loop was given: behind the
cursor both read the same (`Alike`, from an offset of its own in each), and what is
ahead of the cursor is what the pass makes of what was ahead of that offset
(`InStep`). An iteration keeps it because a search and the end of a token depend
only on what is behind the cursor, and because no pattern overlaps itself. It holds
for the marker and for an empty replacement alike.

`NothingIsLeft` is where the loops meet. `Gone` says what each of them, and its
iterations so far, have removed, and has to survive all later edits. An edit leaves
a marker between what was before it and what was behind (`Edited`); a pattern cannot
lie across an end of a marker (`MarkerApart`), so it occurs in the new text only where
it did in the old (`EditedContains`, and `PassGone` for `str::replace`). A bearer's
token may be cut by a later loop, even from within, but then has a marker in it
(`MarkedKept`); a word with a prefix only gets shorter (`WordKept`). The code does
not look at configured values in this respect: a value such as `]x` appears when a
replacement precedes an `x`. Of a value that can share symbols with a marker the
property therefore says nothing, and it is about the marker as the replacement: an
empty one joins what was apart, and then a value can be left (`redaction_promise`).

`ValuesGoBroken` has no such exceptions. `OriginTraced` says that the symbols of the
text that come from the event's text are in its order, and that neighbours which are
both left are neighbours still (`InOrder`). So an occurrence in the original whose
symbols are all left is an occurrence in the text (`Together`), which the pass for
its value takes a symbol from (`PassBreaks`); and what is gone never comes back
(`BrokenStays`). `PassTraced` and `EditKept` show it of a pass of `str::replace` and
of an edit in place.

Only model-checked: `AssertionsHold` of the tests, which is about given scripts, and
all liveness (the prover has no rules for fairness and `ENABLED` here). Every other
property of the passing runs is a theorem.

## Not modelled

- The gRPC contract (`proto/`, `src/proto.rs`, `build.rs`): generated types; the
  repository has no server or client of it, and no supervisor of workers yet.
  The modes of the command line other than the worker print a line and return.
- JSON and the text of events: the session modules abstract text, the framing
  modules ask of JSON only whether a line is a value, `Redaction` takes texts as
  symbols.
- The tools of `default_tools` and the system prompt: the registry is the
  constants `RegisteredTools` and `GatedTools`; the prompt is the part of a
  history that no turn changes.
- peakcode-core: providers, tools and the process groups of a tool's children.
  `CoreAgent` is external, and the component is listed as partly modelled.
- Panics of the reader and writer tasks, and poisoned locks: the code has no step
  in those tasks, or under those locks, that panics.
- What happens after `main` returns: the runtime drops a task that was left
  behind, and the process ends.

## Plan

Done: the adapter and the mapper with their contract and proofs; the session with
its contract, proofs and process; framing and the queue it implements; redaction;
the tests of `worker.rs` under every schedule; proofs of every safety property of the
passing runs but the tests' assertions.

Left: the supervisor, once the repository has one, as many workers behind one
contract; and the gRPC service, once it has a server.
