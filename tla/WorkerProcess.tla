---------------------------- MODULE WorkerProcess ----------------------------
(***************************************************************************)
(* The peakcode-daemon process: src/main.rs picks the mode, worker::run    *)
(* connects and gathers what a session needs, run_connection runs it, and  *)
(* what main returns becomes the exit code.  Each step of the start may    *)
(* fail; the peer, already connected, then sees only the socket close.     *)
(***************************************************************************)
EXTENDS WorkerProperties

VARIABLES
  stage,                  \* what the process is doing
  exitCode,               \* its exit code; NoCode: it runs
  gaveUp                  \* history: a terminal event was given up

NoCode == 256
processVars == <<stage, exitCode, gaveUp>>
allVars == <<vars, processVars>>

\* main's modes; those other than worker are stubs that print a line.
Modes == {"Daemon", "Daemonize", "Worker", "Start", "Stop", "Status"}

\* worker::run up to the session: each step may fail, the third one on a
\* provider other than openai.
StartSteps == <<"connect", "discover", "checkProvider", "providerConfig", "currentDir">>
StartStages == {StartSteps[i] : i \in DOMAIN StartSteps}

ProcessInit ==
  /\ Init
  /\ stage = "arguments"
  /\ exitCode = NoCode
  /\ gaveUp = FALSE

ExitWith(code) == stage' = "exited" /\ exitCode' = code

\* parse_mode_from: a clap error exits, with 0 for help and 2 for bad usage.
ParseArguments ==
  /\ stage = "arguments"
  /\ \/ \E code \in {0, 2} : ExitWith(code)
     \/ \E mode \in Modes :
          IF mode = "Worker" THEN stage' = StartSteps[1] /\ UNCHANGED exitCode ELSE ExitWith(0)
  /\ UNCHANGED <<vars, gaveUp>>

\* A step of worker::run succeeds, and after the last the session begins.
StartStep ==
  /\ \E i \in DOMAIN StartSteps :
       /\ stage = StartSteps[i]
       /\ stage' = IF i < Len(StartSteps) THEN StartSteps[i + 1] ELSE "session"
  /\ UNCHANGED <<vars, exitCode, gaveUp>>

\* `?' and bail!: worker::run returns the error, and main with it.
StartFails ==
  /\ stage \in StartStages
  /\ ExitWith(1)
  /\ UNCHANGED <<vars, gaveUp>>

Session ==
  /\ stage = "session"
  /\ Next
  /\ gaveUp' = (gaveUp \/ (pc = "terminal" /\ pc' = "cleanup" /\ events' = events))
  /\ UNCHANGED <<stage, exitCode>>

\* Fault: main drops what run returned.
IgnoredResult == 0

SessionResult == IF result = "ok" THEN 0 ELSE 1

\* main returns.
MainReturns ==
  /\ stage = "session"
  /\ pc = "exited"
  /\ ExitWith(SessionResult)
  /\ UNCHANGED <<vars, gaveUp>>

Exited == stage = "exited" /\ UNCHANGED allVars

ProcessNext ==
  ParseArguments \/ StartStep \/ StartFails \/ Session \/ MainReturns \/ Exited

\* The process as the worker's fairness has it, and a main that goes on.
ProcessSpec ==
  /\ ProcessInit /\ [][ProcessNext]_allVars
  /\ Fairness
  /\ WF_allVars(ParseArguments \/ StartStep \/ StartFails \/ MainReturns)

-----------------------------------------------------------------------------
(* Properties                                                              *)

OnWire(kind) == \E i \in DOMAIN wire : wire[i].kind = kind

\* The exit code agrees with the last word the peer got: a peer told done sees
\* the process exit with success, and one told crash sees it fail.
ExitAgreesWithWire ==
  exitCode # NoCode =>
    /\ OnWire("Done") => exitCode = 0
    /\ OnWire("Crash") => exitCode = 1

\* A session that is over, with all it had for its peer written in time.
ToldAll == pc = "exited" /\ writer = "ended" /\ ~gaveUp

\* A session that overflowed, timed out in a cancel or had its turn fail has
\* told its peer crash when it is over, behind whatever was held and queued,
\* unless its deadline expired or the writer did not get to write it.  A panic
\* of the agent task is no such result: docs/internal-ipc.md has crash report
\* any "unexpected failure", but the code breaks off at its join without a word.
FailureIsAnnounced ==
  ToldAll /\ result \in {"overflow", "cancelDeadline", "turnFailed"} => OnWire("Crash")
=============================================================================
