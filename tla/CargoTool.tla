----------------------------- MODULE CargoTool -----------------------------
(***************************************************************************)
(* One call of the cargo tool (src/tools/mod.rs): spawn the child with its *)
(* stdout and stderr on pipes, wait for its exit under a timeout, then     *)
(* read both pipes to their end. The operating system's side is modelled   *)
(* as the code relies on it: a pipe has a capacity and a writer blocks on  *)
(* a full one, and it ends when nobody holds its writing side. A child may *)
(* leave a descendant (a server a test started) that inherited the pipes.  *)
(***************************************************************************)
EXTENDS Integers, Sequences

CONSTANTS
  Commands,         \* what a run's calls ask for: subset of Command
  AllowedCommands,  \* CARGO_ALLOWED_COMMANDS
  PipeCapacity      \* what a pipe holds

Stream == {"stdout", "stderr"}

\* An argument: whether it starts with '-', and whether it has a shell metacharacter.
Argument == [word: STRING, flag: BOOLEAN, meta: BOOLEAN]
Word(word) == [word |-> word, flag |-> FALSE, meta |-> FALSE]

\* output: what the child writes to each stream; text: whether that is UTF-8;
\* ends: it ends by itself, before or after the timeout when nothing blocks it, or
\* never; daemon: the descendant it leaves never ends.
Command ==
  [args: Seq(Argument), output: [Stream -> Nat], text: [Stream -> BOOLEAN],
   ends: {"in_time", "late", "never"}, descendant: BOOLEAN, daemon: BOOLEAN]

ASSUME CommandsAssumption == Commands \subseteq Command
ASSUME PipeCapacityAssumption == PipeCapacity \in Nat \ {0}

VARIABLES
  command,      \* the command of the call
  handler,      \* the await the handler is at, or how it ended
  child,        \* the direct child
  descendant,   \* whether a descendant runs and holds the pipes
  unwritten,    \* what the child has still to write to each stream
  pipe,         \* what each pipe holds
  received      \* what the handler has of each stream for its reply

vars == <<command, handler, child, descendant, unwritten, pipe, received>>
osVars == <<child, descendant, unwritten, pipe>>

HandlerState ==
  {"validate", "spawn", "wait", "kill", "read_stdout", "read_stderr",
   "rejected", "spawn_failed", "wait_failed", "output", "timed_out", "dropped"}

Answers == {"rejected", "spawn_failed", "wait_failed", "output", "timed_out"}
ProcessState == {"none", "running", "exited"}

TypeOK ==
  /\ command \in Commands
  /\ handler \in HandlerState
  /\ child \in ProcessState
  /\ descendant \in BOOLEAN
  /\ unwritten \in [Stream -> Nat]
  /\ pipe \in [Stream -> 0 .. PipeCapacity]
  /\ received \in [Stream -> Nat]

Nothing == [s \in Stream |-> 0]

Init ==
  /\ command \in Commands
  /\ handler = "validate"
  /\ child = "none"
  /\ descendant = FALSE
  /\ unwritten = Nothing
  /\ pipe = Nothing
  /\ received = Nothing

------------------------------------------------------------------------------
\* What the tools ask for: cargo_check, cargo_clippy, cargo_add, cargo_test, cargo.
ToolArguments(package, args) ==
  {<<Word("check")>>, <<Word("clippy")>>, <<Word("add"), package>>, <<Word("test")>> \o args, args}

\* The first argument that is no flag is the subcommand.
validate_cargo_args(args) ==
  LET words == SelectSeq(args, LAMBDA arg : ~arg.flag)
  IN  /\ words # <<>>
      /\ words[1].word \in AllowedCommands
      /\ \A i \in DOMAIN args : ~args[i].meta

Validate ==
  /\ handler = "validate"
  /\ handler' = IF validate_cargo_args(command.args) THEN "spawn" ELSE "rejected"
  /\ UNCHANGED <<command, osVars, received>>

Spawn ==
  /\ handler = "spawn"
  /\ handler' = "wait"
  /\ child' = "running"
  /\ unwritten' = command.output
  /\ UNCHANGED <<command, descendant, pipe, received>>

SpawnFails ==
  /\ handler = "spawn"
  /\ handler' = "spawn_failed"
  /\ UNCHANGED <<command, osVars, received>>

Blocked(s) == unwritten[s] > 0 /\ pipe[s] = PipeCapacity
ChildStuck == child = "running" /\ \E s \in Stream : Blocked(s)

\* The child writes its streams in any order, but stops where one is full.
ChildWrites(s) ==
  /\ child = "running"
  /\ ~ChildStuck
  /\ unwritten[s] > 0
  /\ unwritten' = [unwritten EXCEPT ![s] = @ - 1]
  /\ pipe' = [pipe EXCEPT ![s] = @ + 1]
  /\ UNCHANGED <<command, handler, child, descendant, received>>

ChildExits ==
  /\ child = "running"
  /\ command.ends # "never"
  /\ unwritten = Nothing
  /\ child' = "exited"
  /\ descendant' = command.descendant
  /\ UNCHANGED <<command, handler, unwritten, pipe, received>>

DescendantExits ==
  /\ descendant
  /\ ~command.daemon
  /\ descendant' = FALSE
  /\ UNCHANGED <<command, handler, child, unwritten, pipe, received>>

\* Mutants of WaitOutcomes: a failed wait is taken for the timeout; stdout is not
\* read.
WaitOutcomesMerged == {"read_stdout", "kill"}
WaitOutcomesStderrOnly == {"read_stderr", "wait_failed"}

\* child.wait() resolves, or fails.
WaitOutcomes == {"read_stdout", "wait_failed"}

WaitReturns ==
  /\ handler = "wait"
  /\ child = "exited"
  /\ handler' \in WaitOutcomes
  /\ UNCHANGED <<command, osVars, received>>

\* Mutants of AfterTimeout: the child is let go; the timeout is ignored.
AfterTimeoutDetach == "timed_out"
AfterTimeoutWait == "wait"

AfterTimeout == "kill"

\* The timer; the future that waits is polled first, and has not resolved.
TimeoutExpires ==
  /\ handler = "wait"
  /\ child = "running"
  /\ command.ends # "in_time" \/ ChildStuck
  /\ handler' = AfterTimeout
  /\ UNCHANGED <<command, osVars, received>>

\* child.kill(): the signal and the wait for the exit. What the child had
\* started by then goes on.
Kill ==
  /\ handler = "kill"
  /\ child' = "exited"
  /\ descendant' = (descendant \/ (child = "running" /\ command.descendant))
  /\ handler' = "timed_out"
  /\ UNCHANGED <<command, unwritten, pipe, received>>

\* read_to_string: takes what there is, and returns at the end of the pipe.
ReadMore(s) ==
  /\ handler = IF s = "stdout" THEN "read_stdout" ELSE "read_stderr"
  /\ pipe[s] > 0
  /\ received' = [received EXCEPT ![s] = @ + pipe[s]]
  /\ pipe' = [pipe EXCEPT ![s] = 0]
  /\ UNCHANGED <<command, handler, child, descendant, unwritten>>

PipeEnded(s) == pipe[s] = 0 /\ child = "exited" /\ ~descendant

\* Mutant of Collected: the wrong case is emptied.
CollectedSwapped(s) == IF command.text[s] THEN [received EXCEPT ![s] = 0] ELSE received

\* read_to_string leaves the String empty when the bytes are no UTF-8. The
\* handler ignores its error.
Collected(s) == IF command.text[s] THEN received ELSE [received EXCEPT ![s] = 0]

ReadStdoutEnds ==
  /\ handler = "read_stdout"
  /\ PipeEnded("stdout")
  /\ handler' = "read_stderr"
  /\ received' = Collected("stdout")
  /\ UNCHANGED <<command, osVars>>

ReadStderrEnds ==
  /\ handler = "read_stderr"
  /\ PipeEnded("stderr")
  /\ handler' = "output"
  /\ received' = Collected("stderr")
  /\ UNCHANGED <<command, osVars>>

\* The MCP client closes stdin: main returns and the runtime drops the handler.
ServiceEnds ==
  /\ handler \notin Answers \cup {"dropped"}
  /\ handler' = "dropped"
  /\ UNCHANGED <<command, osVars, received>>

HandlerStep ==
  \/ Validate \/ Spawn \/ SpawnFails
  \/ WaitReturns \/ TimeoutExpires \/ Kill
  \/ ReadStdoutEnds \/ ReadStderrEnds
  \/ \E s \in Stream : ReadMore(s)

OsStep ==
  \/ ChildExits \/ DescendantExits
  \/ \E s \in Stream : ChildWrites(s)

Next == HandlerStep \/ OsStep \/ ServiceEnds

Spec == Init /\ [][Next]_vars

\* The runtime polls the handler, the timer fires, and processes run.
FairSpec == Spec /\ WF_vars(HandlerStep) /\ WF_vars(OsStep)
------------------------------------------------------------------------------
(***************************************************************************)
(* Properties.                                                             *)
(***************************************************************************)

\* A reply that shows the output shows all of a stream's text, although the pipes
\* are read only after the exit and one after the other, and the other stream may
\* be no text.
OutputComplete ==
  handler = "output" =>
    \A s \in Stream : command.text[s] => received[s] = command.output[s]

\* No call is answered while its cargo process still runs.
AnsweredChildGone == handler \in Answers => child # "running"

\* The timeout stops runaway commands: a command that would have ended by itself
\* in time is not killed. One that writes more than a pipe holds is.
TimeoutOnlyRunaway == handler \in {"kill", "timed_out"} => command.ends # "in_time"

\* The same of the commands whose output the pipes can hold: reading the pipes
\* only after the exit delays none of them into the timeout.
Fits == \A s \in Stream : command.output[s] <= PipeCapacity
FittingNotKilled == handler \in {"kill", "timed_out"} /\ Fits => command.ends # "in_time"

\* Every call is answered or the service ends, unless a descendant that never
\* ends keeps the pipes: the reads after the exit are not under the timeout.
EventuallyAnswered ==
  handler = "validate" /\ ~command.daemon ~> handler \in Answers \cup {"dropped"}
------------------------------------------------------------------------------
(***************************************************************************)
(* The inductive invariant behind the theorems of CargoToolProofs.         *)
(***************************************************************************)

\* Text the child writes is in its hands, in a pipe or with the handler.
NothingLost ==
  \A s \in Stream :
    command.text[s] =>
      received[s] + pipe[s] + unwritten[s] = IF child = "none" THEN 0 ELSE command.output[s]

\* Where the handler is says how far the child and the pipes are.
HandlerInv ==
  /\ handler \in {"validate", "spawn", "rejected", "spawn_failed"} => child = "none"
  /\ handler \in {"wait", "kill"} => child # "none"
  /\ handler \in {"read_stdout", "read_stderr", "output", "wait_failed", "timed_out"} =>
       child = "exited"
  /\ child = "exited" => unwritten = Nothing \/ handler = "timed_out"
  /\ handler \in {"read_stderr", "output"} => pipe["stdout"] = 0
  /\ handler = "output" => pipe["stderr"] = 0

\* While the handler waits, a pipe and the child together have no more than the
\* command's output, so a pipe that can hold it never blocks the child.
WaitInv ==
  /\ handler \in {"validate", "spawn"} => pipe = Nothing
  /\ handler = "wait" => \A s \in Stream : pipe[s] + unwritten[s] <= command.output[s]
  /\ FittingNotKilled

IInv == TypeOK /\ NothingLost /\ HandlerInv /\ WaitInv
=============================================================================
