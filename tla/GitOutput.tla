------------------------------ MODULE GitOutput ------------------------------
(***************************************************************************)
(* What git prints during the fetch of a source (fetchGit in               *)
(* internal/source/source.go): it goes in chunks, as the pipe hands them   *)
(* over, through a ScanWriter that drops the lines that only report        *)
(* progress, and from there to the reporter, which has it verbatim in the  *)
(* log and cuts it into lines again for the screen.  When git fails, a     *)
(* warning goes to the reporter before the filter is closed, with whatever *)
(* it still keeps.                                                         *)
(*                                                                         *)
(* git's standard output has a filter of its own; a fetch prints nothing   *)
(* there.  Text is a sequence of atoms, as in LineWriter.                  *)
(***************************************************************************)
EXTENDS Reporter

CONSTANTS
  GitChunks,   \* what git may print at once
  MaxSent      \* a bound on the atoms it prints in all

Failure == "kbake: warning: cache fetch failed"

\* The last is a fact about strings, not about the constants: the prover has no
\* rule for what a literal is.
ASSUME GitAssumption ==
  /\ GitChunks \subseteq Seq(STRING)
  /\ MaxSent \in Nat
  /\ {Scan!NL, Failure} \subseteq STRING

VARIABLES
  git,      \* "running", "exited", "closed"
  filter,   \* the ScanWriter of its standard error
  passed,   \* what the reporter was given
  sent,     \* history: what git has printed
  warned,   \* history: it has failed
  torn      \* history: a line was cut where the filter mistakes its end

gitVars == <<git, filter, passed, sent, warned, torn>>

GitInit ==
  /\ git = "running"
  /\ filter = Scan!NewScanWriter /\ passed = <<>>
  /\ sent = <<>> /\ warned = FALSE /\ torn = FALSE

Warning == <<Failure, Scan!NL>>

\* Tokens are passed on verbatim, one after the other.
Together(tokens) == FoldLeft(LAMBDA t, p : t \o p, <<>>, tokens)

\* A line began in an earlier chunk, and its end in p, which is all the split
\* function sees of it, is blank or looks like progress, or the line does as a whole.
Tears(p) ==
  LET begun == Unfinished(sent)
  IN  /\ begun # <<>> /\ Finished(p) # <<>>
      /\ \/ Scan!isGitNoise(Head(Finished(p)))
         \/ Scan!isGitNoise(begun \o Head(Finished(p)))

GitWrites(p) ==
  LET w == Scan!Write("git", filter, p)
  IN  /\ git = "running" /\ Len(sent) + Len(p) <= MaxSent
      /\ filter' = [w EXCEPT !.out = <<>>]
      /\ passed' = passed \o Together(w.out)
      /\ sent' = sent \o p
      /\ torn' = (torn \/ Tears(p))
      /\ UNCHANGED <<git, warned>>

\* A failure, also to start, is not fatal.
GitExits(ok) ==
  /\ git = "running"
  /\ git' = "exited" /\ warned' = ~ok
  /\ passed' = IF ok THEN passed ELSE passed \o Warning
  /\ UNCHANGED <<filter, sent, torn>>

CloseFilter ==
  LET w == Scan!Flush("git", filter)
  IN  /\ git = "exited"
      /\ git' = "closed"
      /\ filter' = [w EXCEPT !.out = <<>>]
      /\ passed' = passed \o Together(w.out)
      /\ UNCHANGED <<sent, warned, torn>>

GitNext ==
  \/ \E p \in GitChunks : GitWrites(p)
  \/ \E ok \in BOOLEAN : GitExits(ok)
  \/ CloseFilter

GitSpec == GitInit /\ [][GitNext]_gitVars

-----------------------------------------------------------------------------
(* Properties.                                                             *)

\* The lines that a reader wants, each with its end.
AddKept(t, line) == IF Scan!isGitNoise(line) THEN t ELSE t \o line \o <<Scan!NL>>
KeptLines(lines) == FoldLeft(AddKept, <<>>, lines)

WholeLinesPassed ==
  passed = KeptLines(Finished(sent)) \o (IF warned THEN Warning ELSE <<>>)
             \o (IF git = "closed" /\ Unfinished(sent) # <<>>
                 THEN KeptLines(<<Unfinished(sent)>>) ELSE <<>>)

\* The reporter is given exactly the lines that are no progress, in order and
\* each with its end, whatever chunks they came in; a warning is a line of its
\* own, and a line git has not finished is one after it.  A line that was torn is
\* passed on without its end, or although it is progress.
OutputLinesAreWhole == ~torn => WholeLinesPassed
=============================================================================
