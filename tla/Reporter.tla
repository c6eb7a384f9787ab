------------------------------- MODULE Reporter -------------------------------
(***************************************************************************)
(* The reporters of a build on a terminal (internal/progress/progress.go,  *)
(* put together in internal/cli/build/build.go): each call of the builder  *)
(* goes to the plain reporter of the log file and then to the terminal     *)
(* reporter, which hands messages to a program that runs in a goroutine of *)
(* its own and shows the steps and the last lines of the running one.      *)
(* Send blocks until the program takes the message or has exited.          *)
(*                                                                         *)
(* What the builder does is a step after another: details and output in    *)
(* it, Done, perhaps Done again with the same error (fetchGit and          *)
(* buildTree), no step after a failure, and Close at the end.  A command   *)
(* that runs in a step may run for ever.  Cancelling the context kills     *)
(* make, which is started with it (internal/build/build.go:121), but not   *)
(* git, nor the cp that copies a tree, which are started without           *)
(* (source.go:550, 606, 616, xos.go:27).                                   *)
(*                                                                         *)
(* Text is a sequence of atoms, as in LineWriter.  Elapsed times, widths,  *)
(* heights and colours are left out.                                       *)
(***************************************************************************)
EXTENDS Naturals, SequencesExt

Scan == INSTANCE LineWriter

CONSTANTS
  Outputs,       \* the chunks a command may write
  Details,
  TailLines, StepLineCap, FailDumpLines,
  MaxSteps, MaxCalls,  \* bounds on the steps, and on details and chunks in all
  NoSnapshot

ASSUME ReporterAssumption ==
  /\ Outputs \subseteq Seq(STRING)
  /\ {TailLines, StepLineCap, FailDumpLines} \subseteq Nat /\ FailDumpLines <= StepLineCap
  /\ NoSnapshot \notin Seq(Seq(STRING))

VARIABLES
  builder,      \* "between" steps, "running" one, "failed", "closing", "closed"
  again,        \* it may call Done once more
  calls,
  command,      \* what the step waits for: "make", or "git" (or cp)
  canceled,     \* the context of the build
  outbox,       \* the messages the builder has yet to hand to the program
  log,          \* the lines of the log file that are no output
  logRunning,   \* the plain reporter has a step
  buf, stepLines, failed, failedLines, dump,  \* the terminal reporter
  program,      \* "up", "quitting", "exited", "canceled", "over"
  steps, tail,  \* the model of the program
  text          \* history: the output since the step began, and what was carried into it

buildVars == <<builder, again, calls, command>>
plainVars == <<log, logRunning>>
ttyVars == <<buf, stepLines, failed, failedLines, dump>>
programVars == <<program, steps, tail>>
reporterVars == <<buildVars, canceled, outbox, plainVars, ttyVars, programVars, text>>

LastOf(n, s) == SubSeq(s, (IF Len(s) > n THEN Len(s) - n ELSE 0) + 1, Len(s))

ReporterInit ==
  /\ builder = "between" /\ again = FALSE /\ calls = 0 /\ command = "make"
  /\ canceled = FALSE
  /\ outbox = <<>>
  /\ log = <<>> /\ logRunning = FALSE
  /\ buf = Scan!NewScanWriter /\ stepLines = <<>> /\ dump = <<>>
  /\ failed = FALSE /\ failedLines = NoSnapshot
  /\ program = "up" /\ steps = <<>> /\ tail = <<>>
  /\ text = <<>>

\* The builder goes on when the program has taken all it has sent.
Free == outbox = <<>>

-----------------------------------------------------------------------------
(* The calls of the builder.                                               *)

\* The plain reporter finishes the step it has.
finish(ok) == IF logRunning THEN <<[mark |-> IF ok THEN "ok" ELSE "fail"]>> ELSE <<>>

\* Text after its last line: the terminal reporter keeps it for the next step.
Unfinished(t) ==
  IF Scan!Lines(t) = <<>> \/ Last(t) = Scan!NL THEN <<>> ELSE Last(Scan!Lines(t))

\* Its lines that are finished.
Finished(t) == IF Unfinished(t) = <<>> THEN Scan!Lines(t) ELSE Front(Scan!Lines(t))

Step ==
  /\ builder = "between" /\ Free
  /\ Len(SelectSeq(log, LAMBDA m : m.mark = "step")) < MaxSteps
  /\ builder' = "running" /\ command' \in {"make", "git"}
  /\ log' = log \o finish(TRUE) \o <<[mark |-> "step"]>> /\ logRunning' = TRUE
  /\ stepLines' = <<>>
  /\ outbox' = <<[msg |-> "step"]>>
  /\ text' = Unfinished(text)
  /\ UNCHANGED <<again, calls, canceled, buf, failed, failedLines, dump, programVars>>

Detail(d) ==
  /\ builder = "running" /\ Free /\ calls < MaxCalls
  /\ calls' = calls + 1
  /\ log' = Append(log, [mark |-> "detail", detail |-> d])
  /\ outbox' = <<[msg |-> "detail", detail |-> d]>>
  /\ UNCHANGED <<builder, again, command, logRunning, canceled, ttyVars, programVars, text>>

\* Mutant of Capped: the first lines of a step are kept.
CappedFirst(lines) == SubSeq(lines, 1, IF Len(lines) > StepLineCap THEN StepLineCap ELSE Len(lines))

Capped(lines) == LastOf(StepLineCap, lines)

\* The chunk, which the log has verbatim, is cut into lines; each is a message.
Write(p) ==
  LET w == Scan!Write("lines", buf, p)
  IN  /\ builder = "running" /\ Free /\ calls < MaxCalls
      /\ calls' = calls + 1
      /\ buf' = [w EXCEPT !.out = <<>>]
      /\ stepLines' = Capped(stepLines \o w.out)
      /\ outbox' = [i \in DOMAIN w.out |-> [msg |-> "line", line |-> w.out[i]]]
      /\ text' = text \o p
      /\ UNCHANGED <<builder, again, command, canceled, plainVars, failed, failedLines, dump, programVars>>

\* Mutant of Snapshot: the line that is not finished is not in it.
SnapshotNoFlush == [buf |-> buf, lines |-> stepLines]

\* What the failing step has printed, with a line that it has not finished.
\* There is no snapshot of a step without output.
Snapshot ==
  LET w == Scan!Flush("lines", buf)
      lines == stepLines \o w.out
  IN  [buf |-> [w EXCEPT !.out = <<>>], lines |-> IF lines = <<>> THEN NoSnapshot ELSE lines]

\* Mutant of Done: the terminal is told of success only.
DoneQuiet(ok) ==
  /\ builder = "running" \/ (again /\ builder = IF ok THEN "between" ELSE "failed")
  /\ Free
  /\ builder' = IF ok THEN "between" ELSE "failed"
  /\ again' = (builder = "running")
  /\ log' = log \o finish(ok) /\ logRunning' = FALSE
  /\ IF ~ok /\ ~failed
     THEN failed' = TRUE /\ failedLines' = Snapshot.lines /\ buf' = Snapshot.buf
     ELSE UNCHANGED <<failed, failedLines, buf>>
  /\ outbox' = IF ok THEN <<[msg |-> "done", ok |-> ok]>> ELSE <<>>
  /\ UNCHANGED <<calls, command, canceled, stepLines, dump, programVars, text>>

\* Done, once or more; the first failure is kept.
Done(ok) ==
  /\ builder = "running" \/ (again /\ builder = IF ok THEN "between" ELSE "failed")
  /\ Free
  /\ builder' = IF ok THEN "between" ELSE "failed"
  /\ again' = (builder = "running")
  /\ log' = log \o finish(ok) /\ logRunning' = FALSE
  /\ IF ~ok /\ ~failed
     THEN failed' = TRUE /\ failedLines' = Snapshot.lines /\ buf' = Snapshot.buf
     ELSE UNCHANGED <<failed, failedLines, buf>>
  /\ outbox' = <<[msg |-> "done", ok |-> ok]>>
  /\ UNCHANGED <<calls, command, canceled, stepLines, dump, programVars, text>>

\* Close asks the program to quit ...
Close ==
  /\ builder \in {"between", "failed"} /\ Free
  /\ builder' = "closing"
  /\ outbox' = <<[msg |-> "quit"]>>
  /\ UNCHANGED <<again, calls, command, canceled, plainVars, ttyVars, programVars, text>>

\* ... waits for it, and prints the end of the output of the step that failed.
\* failedLines is nil still if the step had no output when it failed.
Closed ==
  LET rest == stepLines \o Scan!Flush("lines", buf).out
      lines == IF failed /\ failedLines = NoSnapshot THEN rest ELSE failedLines
  IN  /\ builder = "closing" /\ Free /\ program = "over"
      /\ builder' = "closed"
      /\ buf' = Scan!NewScanWriter
      /\ stepLines' = rest
      /\ failedLines' = lines
      /\ dump' = IF lines = NoSnapshot THEN <<>> ELSE LastOf(FailDumpLines, lines)
      /\ UNCHANGED <<again, calls, command, canceled, outbox, plainVars, failed, programVars, text>>

-----------------------------------------------------------------------------
(* The program.                                                            *)

Running == steps # <<>> /\ Last(steps).status = "running"
SetLast(field, value) == [steps EXCEPT ![Len(steps)][field] = value]

\* Blank lines are not shown.
Shown(line) == SelectSeq(line, LAMBDA x : x # Scan!Blank) # <<>>

\* Mutant of Update: the tail of a step is kept for the next.
UpdateKeepsTail(m) ==
  /\ steps' = CASE m.msg = "step" ->
                     Append(IF Running THEN SetLast("status", "ok") ELSE steps,
                            [status |-> "running", detail |-> ""])
                [] m.msg = "detail" /\ Running -> SetLast("detail", m.detail)
                [] m.msg = "done" /\ Running -> SetLast("status", IF m.ok THEN "ok" ELSE "fail")
                [] OTHER -> steps
  /\ tail' = CASE m.msg = "line" /\ Shown(m.line) -> LastOf(TailLines, Append(tail, m.line))
               [] OTHER -> tail

\* The model of the program changes with a message.
Update(m) ==
  /\ steps' = CASE m.msg = "step" ->
                     Append(IF Running THEN SetLast("status", "ok") ELSE steps,
                            [status |-> "running", detail |-> ""])
                [] m.msg = "detail" /\ Running -> SetLast("detail", m.detail)
                [] m.msg = "done" /\ Running -> SetLast("status", IF m.ok THEN "ok" ELSE "fail")
                [] OTHER -> steps
  /\ tail' = CASE m.msg = "step" -> <<>>
               [] m.msg = "line" /\ Shown(m.line) -> LastOf(TailLines, Append(tail, m.line))
               [] OTHER -> tail

\* The program takes a message; once it has exited messages are dropped.
Receive ==
  /\ outbox # <<>>
  /\ outbox' = Tail(outbox)
  /\ IF program \in {"up", "quitting"}
     THEN IF Head(outbox).msg = "quit" THEN program' = "exited" /\ UNCHANGED <<steps, tail>>
          ELSE Update(Head(outbox)) /\ UNCHANGED program
     ELSE UNCHANGED programVars
  /\ UNCHANGED <<buildVars, canceled, plainVars, ttyVars, text>>

\* ctrl+c, q or esc: the build is cancelled, and the program is going to quit.
KeyPress ==
  /\ program = "up"
  /\ canceled' = TRUE /\ program' = "quitting"
  /\ UNCHANGED <<buildVars, outbox, plainVars, ttyVars, steps, tail, text>>

\* The program quits; or it ends by itself, with the terminal or by a signal.
Exit ==
  /\ program \in {"up", "quitting"}
  /\ program' = "exited"
  /\ UNCHANGED <<buildVars, canceled, outbox, plainVars, ttyVars, steps, tail, text>>

\* Mutant of Cancel: the build is not told that the program has exited.
CancelNot ==
  /\ program = "exited"
  /\ program' = "canceled"
  /\ UNCHANGED <<buildVars, canceled, outbox, plainVars, ttyVars, steps, tail, text>>

\* The goroutine of the program, once Run has returned: it cancels the build ...
Cancel ==
  /\ program = "exited"
  /\ canceled' = TRUE /\ program' = "canceled"
  /\ UNCHANGED <<buildVars, outbox, plainVars, ttyVars, steps, tail, text>>

\* ... and closes done.
CloseDone ==
  /\ program = "canceled"
  /\ program' = "over"
  /\ UNCHANGED <<buildVars, canceled, outbox, plainVars, ttyVars, steps, tail, text>>

ReporterNext ==
  \/ Step \/ Close \/ Closed
  \/ \E d \in Details : Detail(d)
  \/ \E p \in Outputs : Write(p)
  \/ \E ok \in BOOLEAN : Done(ok)
  \/ Receive \/ KeyPress \/ Exit \/ Cancel \/ CloseDone

\* The builder goes on between its steps.  A step may last, but one that waits for
\* make ends once the context is cancelled.  Nobody has to press a key, nor to kill git.
ReporterFairness ==
  /\ WF_reporterVars(Step \/ Close) /\ WF_reporterVars(Closed)
  /\ WF_reporterVars(canceled /\ command = "make" /\ Done(FALSE))
  /\ WF_reporterVars(Receive) /\ WF_reporterVars(program = "quitting" /\ Exit)
  /\ WF_reporterVars(Cancel) /\ WF_reporterVars(CloseDone)

ReporterSpec == ReporterInit /\ [][ReporterNext]_reporterVars /\ ReporterFairness

-----------------------------------------------------------------------------
(* Properties.                                                             *)

AddShown(lines, line) == IF Shown(line) THEN Append(lines, line) ELSE lines

\* What a mark of the log says of the steps before it.
ReadMark(s, m) ==
  CASE m.mark = "step" -> Append(s, [status |-> "running", detail |-> ""])
    [] m.mark = "detail" -> [s EXCEPT ![Len(s)].detail = m.detail]
    [] OTHER -> [s EXCEPT ![Len(s)].status = m.mark]

\* While the program is up and has taken everything, it shows the last lines of
\* what the last step has printed, blank ones left out, however the output was cut
\* into chunks; nothing of the steps before but a line they had not finished.
TailIsRecent ==
  program \in {"up", "quitting"} /\ Free =>
    tail = LastOf(TailLines, FoldLeft(AddShown, <<>>, Finished(text)))

\* What Close prints is the end of the output of the step that failed, its last
\* line though it is not finished, whether the program was up until then or not;
\* it prints nothing of a build that did not fail.
DumpIsTheFailure ==
  builder = "closed" =>
    dump = IF [mark |-> "fail"] \in Range(log) THEN LastOf(FailDumpLines, Scan!Lines(text)) ELSE <<>>

\* The steps on the screen, with how they ended and their last detail, are those
\* of the log.
LogAndScreenAgree ==
  program \in {"up", "quitting"} /\ Free => steps = FoldLeft(ReadMark, <<>>, log)

\* When the build is cancelled, or the program is on its way out for whatever
\* reason, the builder ends its steps and closes, and waits for no program that has
\* gone, unless it waits from some time on for a git or a cp that never ends.
WaitsForGit == builder = "running" /\ command = "git"
Unwinds == <>[]WaitsForGit \/ ((canceled \/ program # "up") ~> builder = "closed")

\* "If the program exits for any reason ... before the build finished, cancel the
\* build context so a running make/git is killed and the orchestrator can unwind
\* instead of hanging" (progress.go:652-656).
UnwindsOnExit == (program = "exited") ~> (builder = "closed")
=============================================================================
