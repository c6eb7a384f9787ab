--------------------------- MODULE MCSourceCache ---------------------------
(* Instances of SourceCache for TLC: two kbake processes, two commits, and   *)
(* refs that cover the kinds the code tells apart.                           *)
EXTENDS SourceCache, TLC

CONSTANTS p1, p2, c1, c2, t1, t2, main, typo, sha

\* What a fetch of each ref yields at first.
MCTip0 ==
  [r \in Refs |-> CASE r = t1 -> c1 [] r = t2 -> c2 [] r = main -> c1
                    [] r = sha -> c2 [] OTHER -> None]

Symmetry == Permutations(Procs)
=============================================================================
