------------------------------ MODULE FoldFacts ------------------------------
(***************************************************************************)
(* Facts about FoldLeft, for any operator: INSTANCE FoldFacts WITH op <-   *)
(* ... gives them for one of a specification.  op has a parameter that the *)
(* fold leaves as it is, beside the value so far and the next element.     *)
(*                                                                         *)
(* FoldLeft is defined by a recursive function on the sets of indices; the *)
(* facts say how it goes from a sequence to a longer one.  Induction over  *)
(* numbers, and over sequences, is stated with the set of those for which  *)
(* a formula holds.                                                        *)
(***************************************************************************)
EXTENDS SequencesExt, FiniteSetTheorems, WellFoundedInduction, TLAPS

CONSTANT op(_, _, _)

Fold(k, base, seq) == FoldLeft(LAMBDA s, x : op(k, s, x), base, seq)

-----------------------------------------------------------------------------
(* Induction.                                                              *)

\* A set that has 0, and the successor of each number it has, has every number.
LEMMA Induction ==
  ASSUME NEW T, 0 \in T, \A n \in Nat : n \in T => n + 1 \in T
  PROVE  \A n \in Nat : n \in T
<1> SUFFICES ASSUME Nat \ T # {} PROVE FALSE
  OBVIOUS
<1> DEFINE F == {0..n : n \in Nat \ T}
<1>1. F \subseteq FiniteSubsetsOf(Nat) /\ F # {}
  <2>1. \A n \in Nat : IsFiniteSet(0..n) /\ 0..n \subseteq Nat
    BY FS_Interval
  <2> QED BY <2>1 DEF FiniteSubsetsOf
<1>2. PICK U \in F : \A V \in F : <<V, U>> \notin StrictSubsetOrdering(Nat)
  <2>1. IsWellFoundedOn(StrictSubsetOrdering(Nat), FiniteSubsetsOf(Nat))
    BY FS_StrictSubsetOrderingWellFounded
  <2> HIDE DEF F
  <2> QED BY <1>1, <2>1, WFMin
<1>3. PICK n \in Nat \ T : U = 0..n
  OBVIOUS
<1>4. n # 0 /\ n - 1 \in Nat /\ (n - 1) + 1 = n
  OBVIOUS
<1>5. n - 1 \in Nat \ T
  BY <1>4
<1>6. 0..(n - 1) \in F /\ 0..(n - 1) \subseteq 0..n /\ 0..n \subseteq Nat /\ 0..(n - 1) # 0..n
  <2>1. n \in 0..n /\ n \notin 0..(n - 1) BY <1>4
  <2> QED BY <2>1, <1>4, <1>5
<1> QED BY <1>2, <1>3, <1>6 DEF StrictSubsetOrdering

\* A set that has the empty sequence, and each extension by one element of what it
\* has, has every sequence.
LEMMA SequenceInduction ==
  ASSUME NEW S, NEW T, <<>> \in T,
         \A s \in Seq(S) : \A x \in S : s \in T => Append(s, x) \in T
  PROVE  \A s \in Seq(S) : s \in T
<1> DEFINE N == {n \in Nat : \A s \in Seq(S) : Len(s) = n => s \in T}
<1>1. 0 \in N
  <2>1. \A s \in Seq(S) : Len(s) = 0 => s = <<>> OBVIOUS
  <2> QED BY <2>1
<1>2. ASSUME NEW n \in Nat, n \in N PROVE n + 1 \in N
  <2> SUFFICES ASSUME NEW s \in Seq(S), Len(s) = n + 1 PROVE s \in T
    OBVIOUS
  <2> DEFINE front == [i \in 1..n |-> s[i]]
  <2>1. front \in Seq(S) /\ Len(front) = n /\ s[n + 1] \in S
    <3>1. \A i \in 1..n : s[i] \in S OBVIOUS
    <3> QED BY <3>1
  <2>2. s = Append(front, s[n + 1]) BY <2>1
  <2>3. front \in T BY <1>2, <2>1
  <2> HIDE DEF front
  <2> QED BY <2>1, <2>2, <2>3
<1> HIDE DEF N
<1>3. \A n \in Nat : n \in N BY <1>1, <1>2, Induction
<1> QED BY <1>3 DEF N

-----------------------------------------------------------------------------
(* The function that FoldLeft stands for.                                  *)

LEMMA MaxUpto ==
  ASSUME NEW n \in Nat, NEW s \in SUBSET (1..(n + 1)), n + 1 \in s
  PROVE  Max(s) = n + 1
<1>1. \A y \in s : n + 1 >= y OBVIOUS
<1>2. Max(s) \in s /\ \A y \in s : Max(s) >= y
  BY <1>1 DEF Max
<1>3. Max(s) \in 1..(n + 1) /\ Max(s) >= n + 1
  BY <1>2
<1> QED BY <1>3

\* g takes the greatest index last.
Recurses(k, g, base, seq, n) ==
  g = [s \in SUBSET (1..n) |-> IF s = {} THEN base ELSE op(k, g[s \ {Max(s)}], seq[Max(s)])]

LEMMA SubsetHasMax ==
  \A n \in Nat : \A s \in SUBSET (1..n) : s # {} => Max(s) \in s
<1> DEFINE T == {n \in Nat : \A s \in SUBSET (1..n) : s # {} => \E x \in s : \A y \in s : x >= y}
<1>1. 0 \in T
  <2>1. \A s \in SUBSET (1..0) : s = {} OBVIOUS
  <2> QED BY <2>1
<1>2. ASSUME NEW n \in Nat, n \in T PROVE n + 1 \in T
  <2> SUFFICES ASSUME NEW s \in SUBSET (1..(n + 1)), s # {}
               PROVE  \E x \in s : \A y \in s : x >= y
    OBVIOUS
  <2>1. CASE n + 1 \in s BY <2>1
  <2>2. CASE n + 1 \notin s
    <3>1. s \in SUBSET (1..n) BY <2>2
    <3> QED BY <1>2, <3>1
  <2> QED BY <2>1, <2>2
<1>3. \A n \in Nat : n \in T
  <2> HIDE DEF T
  <2> QED BY <1>1, <1>2, Induction
<1> SUFFICES ASSUME NEW n \in Nat, NEW s \in SUBSET (1..n), s # {} PROVE Max(s) \in s
  OBVIOUS
<1>4. \E x \in s : \A y \in s : x >= y BY <1>3
<1> QED BY <1>4 DEF Max

\* There is such a function: from one on the subsets of 1..n, one on those of
\* 1..(n + 1).
LEMMA RecursionExists ==
  ASSUME NEW k, NEW base, NEW seq, NEW n \in Nat
  PROVE  \E g : Recurses(k, g, base, seq, n)
<1> DEFINE T == {m \in Nat : \E g : Recurses(k, g, base, seq, m)}
<1>1. 0 \in T
  <2> DEFINE g == [s \in SUBSET (1..0) |-> base]
  <2>1. \A s \in SUBSET (1..0) : s = {} OBVIOUS
  <2>2. Recurses(k, g, base, seq, 0) BY <2>1 DEF Recurses
  <2> QED BY <2>2
<1>2. ASSUME NEW m \in Nat, m \in T PROVE m + 1 \in T
  <2> PICK g : Recurses(k, g, base, seq, m) BY <1>2
  <2> DEFINE pick(s) == op(k, g[s \ {m + 1}], seq[m + 1])
             h == [s \in SUBSET (1..(m + 1)) |-> IF m + 1 \in s THEN pick(s) ELSE g[s]]
             next == [s \in SUBSET (1..(m + 1)) |->
                     IF s = {} THEN base ELSE op(k, h[s \ {Max(s)}], seq[Max(s)])]
  <2>1. ASSUME NEW s \in SUBSET (1..(m + 1)) PROVE h[s] = next[s]
    <3>1. CASE m + 1 \in s
      <4>1. Max(s) = m + 1 BY <3>1, MaxUpto
      <4>2. s \ {m + 1} \in SUBSET (1..(m + 1)) /\ m + 1 \notin s \ {m + 1} OBVIOUS
      <4>3. h[s \ {m + 1}] = g[s \ {m + 1}] BY <4>2
      <4>4. s # {} BY <3>1
      <4> QED BY <3>1, <4>1, <4>3, <4>4
    <3>2. CASE m + 1 \notin s
      <4>1. s \in SUBSET (1..m) BY <3>2
      <4>2. g[s] = IF s = {} THEN base ELSE op(k, g[s \ {Max(s)}], seq[Max(s)])
        BY <4>1 DEF Recurses
      <4>3. s \ {Max(s)} \in SUBSET (1..(m + 1)) /\ m + 1 \notin s \ {Max(s)} BY <3>2
      <4>4. h[s \ {Max(s)}] = g[s \ {Max(s)}] BY <4>3
      <4>5. h[s] = g[s] BY <3>2
      <4> QED BY <4>2, <4>4, <4>5
    <3> QED BY <3>1, <3>2
  <2>2. h = next
    <3> HIDE DEF pick
    <3> QED BY <2>1
  <2>3. Recurses(k, h, base, seq, m + 1) BY <2>2 DEF Recurses
  <2> QED BY <2>3
<1> HIDE DEF T
<1>3. n \in T BY <1>1, <1>2, Induction
<1> QED BY <1>3 DEF T

LEMMA FoldRecurses ==
  ASSUME NEW k, NEW base, NEW seq, NEW n \in Nat, DOMAIN seq = 1..n
  PROVE  \E g : Recurses(k, g, base, seq, n) /\ Fold(k, base, seq) = g[1..n]
<1> DEFINE g == CHOOSE g : Recurses(k, g, base, seq, n)
<1>1. Recurses(k, g, base, seq, n) BY RecursionExists
<1>2. Fold(k, base, seq) = g[1..n]
  BY DEF Fold, FoldLeft, MapThenFoldSet, Recurses
<1> QED BY <1>1, <1>2

\* Two functions that recurse alike agree.
LEMMA RecursionAgrees ==
  ASSUME NEW k, NEW base, NEW seq, NEW more, NEW m \in Nat, NEW n \in Nat, m <= n,
         \A i \in 1..m : more[i] = seq[i],
         NEW g, Recurses(k, g, base, seq, m), NEW h, Recurses(k, h, base, more, n)
  PROVE  g[1..m] = h[1..m]
<1> DEFINE T == {i \in Nat : i <= m => g[1..i] = h[1..i]}
<1>1. 0 \in T
  <2>1. 1..0 = {} OBVIOUS
  <2>2. g[{}] = base /\ h[{}] = base BY DEF Recurses
  <2> QED BY <2>1, <2>2
<1>2. ASSUME NEW i \in Nat, i \in T PROVE i + 1 \in T
  <2> SUFFICES ASSUME i + 1 <= m PROVE g[1..(i + 1)] = h[1..(i + 1)]
    OBVIOUS
  <2> DEFINE s == 1..(i + 1)
  <2>1. s # {} /\ s \in SUBSET (1..m) /\ s \in SUBSET (1..n) /\ s \ {i + 1} = 1..i
    OBVIOUS
  <2>2. Max(s) = i + 1 BY MaxUpto
  <2> HIDE DEF s
  <2>3. g[s] = op(k, g[s \ {Max(s)}], seq[Max(s)]) BY <2>1 DEF Recurses
  <2>4. h[s] = op(k, h[s \ {Max(s)}], more[Max(s)]) BY <2>1 DEF Recurses
  <2>5. g[1..i] = h[1..i] BY <1>2
  <2>6. more[i + 1] = seq[i + 1] OBVIOUS
  <2> QED BY <2>1, <2>2, <2>3, <2>4, <2>5, <2>6 DEF s
<1> HIDE DEF T
<1>3. m \in T BY <1>1, <1>2, Induction
<1> QED BY <1>3 DEF T

-----------------------------------------------------------------------------
(* Folds.                                                                  *)

LEMMA FoldEmpty == \A k, base : Fold(k, base, <<>>) = base
<1> SUFFICES ASSUME NEW k, NEW base PROVE Fold(k, base, <<>>) = base
  OBVIOUS
<1>1. DOMAIN <<>> = 1..0 OBVIOUS
<1>2. PICK g : Recurses(k, g, base, <<>>, 0) /\ Fold(k, base, <<>>) = g[1..0]
  BY <1>1, FoldRecurses
<1>3. 1..0 = {} OBVIOUS
<1> QED BY <1>2, <1>3 DEF Recurses

LEMMA FoldAppend ==
  ASSUME NEW k, NEW base, NEW S, NEW seq \in Seq(S), NEW x \in S
  PROVE  Fold(k, base, Append(seq, x)) = op(k, Fold(k, base, seq), x)
<1> DEFINE n == Len(seq)
           more == Append(seq, x)
           s == 1..(n + 1)
<1>1. /\ n \in Nat /\ DOMAIN seq = 1..n /\ DOMAIN more = 1..(n + 1)
      /\ more[n + 1] = x /\ \A i \in 1..n : more[i] = seq[i]
  OBVIOUS
<1> HIDE DEF n, more
<1>2. PICK g : Recurses(k, g, base, seq, n) /\ Fold(k, base, seq) = g[1..n]
  BY <1>1, FoldRecurses
<1>3. PICK h : Recurses(k, h, base, more, n + 1) /\ Fold(k, base, more) = h[s]
  BY <1>1, FoldRecurses
<1>4. g[1..n] = h[1..n] BY <1>1, <1>2, <1>3, RecursionAgrees
<1>5. s # {} /\ Max(s) = n + 1 /\ s \ {n + 1} = 1..n
  <2>1. n + 1 \in s /\ s \in SUBSET (1..(n + 1)) BY <1>1
  <2> QED BY <1>1, <2>1, MaxUpto
<1>6. h[s] = op(k, h[s \ {Max(s)}], more[Max(s)])
  <2>1. s \in SUBSET (1..(n + 1)) OBVIOUS
  <2> HIDE DEF s
  <2> QED BY <1>3, <1>5, <2>1 DEF Recurses
<1> QED BY <1>1, <1>2, <1>3, <1>4, <1>5, <1>6 DEF more

\* To fold a concatenation is to fold its parts, one after the other.
LEMMA FoldConcat ==
  ASSUME NEW k, NEW base, NEW S, NEW s \in Seq(S), NEW t \in Seq(S)
  PROVE  Fold(k, base, s \o t) = Fold(k, Fold(k, base, s), t)
<1> DEFINE T == {u \in Seq(S) : Fold(k, base, s \o u) = Fold(k, Fold(k, base, s), u)}
<1>1. <<>> \in T
  <2>1. s \o <<>> = s OBVIOUS
  <2> QED BY <2>1, FoldEmpty
<1>2. ASSUME NEW u \in Seq(S), NEW x \in S, u \in T PROVE Append(u, x) \in T
  <2>1. s \o Append(u, x) = Append(s \o u, x) /\ s \o u \in Seq(S) OBVIOUS
  <2>2. Fold(k, base, s \o Append(u, x)) = op(k, Fold(k, base, s \o u), x)
    <3> DEFINE both == s \o u
    <3>1. s \o Append(u, x) = Append(both, x) /\ both \in Seq(S) BY <2>1
    <3> HIDE DEF both
    <3>2. Fold(k, base, Append(both, x)) = op(k, Fold(k, base, both), x) BY <3>1, FoldAppend
    <3> QED BY <3>1, <3>2 DEF both
  <2>3. Fold(k, Fold(k, base, s), Append(u, x)) = op(k, Fold(k, Fold(k, base, s), u), x) BY FoldAppend
  <2> QED BY <1>2, <2>2, <2>3
<1> HIDE DEF T
<1>3. t \in T BY <1>1, <1>2, SequenceInduction
<1> QED BY <1>3 DEF T

\* What holds of the base, and goes on to hold with each element, holds in the end.
LEMMA FoldInvariant ==
  ASSUME NEW S, NEW V, NEW k, NEW base \in V, \A v \in V : \A x \in S : op(k, v, x) \in V,
         NEW seq \in Seq(S)
  PROVE  Fold(k, base, seq) \in V
<1> DEFINE T == {s \in Seq(S) : Fold(k, base, s) \in V}
<1>1. <<>> \in T BY FoldEmpty
<1>2. ASSUME NEW s \in Seq(S), NEW x \in S, s \in T PROVE Append(s, x) \in T
  BY <1>2, FoldAppend
<1> HIDE DEF T
<1>3. seq \in T BY <1>1, <1>2, SequenceInduction
<1> QED BY <1>3 DEF T
=============================================================================
