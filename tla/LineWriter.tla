----------------------------- MODULE LineWriter -----------------------------
(***************************************************************************)
(* The writers that cut output into lines (internal/xbufio/xbufio.go): a   *)
(* ScanWriter splits each chunk it is given by itself and keeps the        *)
(* unfinished end for the next; a ScanBuffer collects the lines.  With the *)
(* split function of internal/source/source.go a ScanWriter drops the      *)
(* lines of git that only report progress.                                 *)
(*                                                                         *)
(* Text is a sequence of atoms: the end of a line, the beginning of one of *)
(* git's progress lines, a blank, or anything else.  The destination takes *)
(* whatever it is given: a Write of it that fails is left out.             *)
(***************************************************************************)
EXTENDS Naturals, SequencesExt

NL == "\n"
Noise == "remote: Counting objects"
Blank == " "

isGitNoise(line) ==
  LET s == SelectSeq(line, LAMBDA x : x # Blank) IN s = <<>> \/ s[1] = Noise

\* What becomes of a line that is complete, or that is the last.
Token(kind, line) ==
  IF kind = "lines" THEN line
  ELSE IF isGitNoise(line) THEN <<>> ELSE Append(line, NL)

\* buf: the end of the last chunk; out: the tokens that went to the destination.
NewScanWriter == [buf |-> <<>>, out |-> <<>>]

\* The split function sees what is left of the chunk, rest so far; at the end of a
\* line what was kept goes before the token that it yields.
Split(kind, s, atom) ==
  IF atom # NL THEN [s EXCEPT !.rest = Append(@, atom)]
  ELSE [buf |-> <<>>, out |-> Append(s.out, s.buf \o Token(kind, s.rest)), rest |-> <<>>]

\* Mutant of Write: the unfinished end of the last chunk is dropped.
WriteDrops(kind, w, p) ==
  LET end == FoldLeft(LAMBDA s, atom : Split(kind, s, atom),
                      [buf |-> <<>>, out |-> w.out, rest |-> <<>>], p)
  IN  [buf |-> end.buf \o end.rest, out |-> end.out]

\* A chunk: its lines go out, and its unfinished end is kept.
Write(kind, w, p) ==
  LET end == FoldLeft(LAMBDA s, atom : Split(kind, s, atom),
                      [buf |-> w.buf, out |-> w.out, rest |-> <<>>], p)
  IN  [buf |-> end.buf \o end.rest, out |-> end.out]

Flush(kind, w) ==
  LET token == IF w.buf = <<>> THEN <<>> ELSE Token(kind, w.buf)
  IN  [buf |-> <<>>, out |-> IF token = <<>> THEN w.out ELSE Append(w.out, token)]

\* Everything in these chunks, one after the other.
Written(kind, chunks) ==
  Flush(kind, FoldLeft(LAMBDA w, p : Write(kind, w, p), NewScanWriter, chunks)).out

-----------------------------------------------------------------------------
(* The lines of a text.                                                    *)

AddAtom(lines, atom) ==
  IF atom = NL THEN Append(lines, <<>>) ELSE [lines EXCEPT ![Len(lines)] = Append(@, atom)]

Lines(text) ==
  LET all == FoldLeft(AddAtom, <<<<>>>>, text)
  IN  IF Last(all) = <<>> THEN Front(all) ELSE all
=============================================================================
