---------------------------- MODULE ReporterProofs ----------------------------
(***************************************************************************)
(* What is proved of the line filter and of git's output, for all texts    *)
(* and all ways to cut them into chunks, and of the reporters, for all     *)
(* outputs and bounds.                                                     *)
(***************************************************************************)
EXTENDS GitOutput, SequenceTheorems, TLAPS

Atoms == STRING
Text == Seq(Atoms)

-----------------------------------------------------------------------------
(* Sequences.                                                              *)

\* A sequence that is not empty is one with an element after it.
LEMMA PartsOf ==
  ASSUME NEW S, NEW s \in Seq(S), NEW x \in S
  PROVE  /\ Append(s, x) \in Seq(S) /\ Append(s, x) # <<>>
         /\ Front(Append(s, x)) = s /\ Last(Append(s, x)) = x
<1> DEFINE t == Append(s, x)
<1>1. /\ t \in Seq(S) /\ Len(t) = Len(s) + 1 /\ t[Len(s) + 1] = x /\ Len(s) \in Nat
      /\ \A i \in 1..Len(s) : t[i] = s[i]
  OBVIOUS
<1>2. Len(<<>>) = 0 OBVIOUS
<1> HIDE DEF t
<1>3. Front(t) \in Seq(S) /\ Len(Front(t)) = Len(s) /\ \A i \in 1..Len(s) : Front(t)[i] = t[i]
  <2>1. 1 \in 1..(Len(t) + 1) /\ Len(s) \in 0..Len(t) /\ Len(t) - 1 = Len(s) BY <1>1
  <2>2. /\ SubSeq(t, 1, Len(s)) \in Seq(S) /\ Len(SubSeq(t, 1, Len(s))) = Len(s)
        /\ \A i \in 1..Len(s) : SubSeq(t, 1, Len(s))[i] = t[i]
    BY <1>1
  <2>3. Front(t) = SubSeq(t, 1, Len(s)) BY <2>1 DEF Front
  <2> HIDE DEF Front
  <2> QED BY <2>2, <2>3
<1>4. Front(t) = s BY <1>1, <1>3, SeqEqual
<1> QED BY <1>1, <1>2, <1>4 DEF Last, t

LEMMA Ending ==
  ASSUME NEW S, NEW s \in Seq(S), s # <<>>
  PROVE  /\ Front(s) \in Seq(S) /\ Last(s) \in S /\ s = Append(Front(s), Last(s))
<1> DEFINE n == Len(s) - 1
           f == [i \in 1..n |-> s[i]]
<1>1. n \in Nat /\ Len(s) = n + 1 /\ \A i \in 1..(n + 1) : s[i] \in S
  OBVIOUS
<1>2. f \in Seq(S) BY <1>1
<1>3. s = Append(f, s[n + 1]) BY <1>1
<1>4. s[n + 1] \in S BY <1>1
<1> DEFINE x == s[n + 1]
<1>5. Front(Append(f, x)) = f /\ Last(Append(f, x)) = x BY <1>2, <1>4, PartsOf
<1> HIDE DEF f, x
<1> QED BY <1>2, <1>3, <1>4, <1>5 DEF x

LEMMA ReplaceLast ==
  ASSUME NEW S, NEW s \in Seq(S), NEW x \in S, NEW y \in S
  PROVE  [Append(s, x) EXCEPT ![Len(s) + 1] = y] = Append(s, y)
<1> DEFINE n == Len(s) + 1
           t == Append(s, x)
           u == Append(s, y)
<1>1. /\ t \in Seq(S) /\ u \in Seq(S) /\ Len(t) = n /\ Len(u) = n /\ u[n] = y /\ n \in Nat
      /\ \A i \in 1..n : i # n => t[i] = u[i]
  OBVIOUS
<1> HIDE DEF n, t, u
<1> DEFINE v == [i \in 1..n |-> u[i]]
<1>2. DOMAIN t = 1..n BY <1>1
<1>3. [t EXCEPT ![n] = y] = v BY <1>1, <1>2
<1>4. v = u
  <2>1. v \in Seq(S) /\ Len(v) = n /\ \A i \in 1..n : v[i] = u[i] BY <1>1
  <2> HIDE DEF v
  <2> QED BY <1>1, <2>1, SeqEqual
<1> QED BY <1>3, <1>4 DEF n, t, u

LEMMA AppendThen ==
  ASSUME NEW S, NEW s \in Seq(S), NEW x \in S, NEW t \in Seq(S)
  PROVE  s \o (<<x>> \o t) = Append(s, x) \o t /\ Append(s, x) \in Seq(S)
<1>1. Append(s, x) = s \o <<x>> /\ <<x>> \in Seq(S) /\ Append(s, x) \in Seq(S) OBVIOUS
<1>2. \A u \in Seq(S) : s \o (u \o t) = (s \o u) \o t OBVIOUS
<1> QED BY <1>1, <1>2

LEMMA LastOfIs ==
  ASSUME NEW S, NEW s \in Seq(S), NEW n \in Nat
  PROVE  /\ LastOf(n, s) \in Seq(S)
         /\ Len(LastOf(n, s)) = IF Len(s) > n THEN n ELSE Len(s)
         /\ \A i \in 1..Len(LastOf(n, s)) : LastOf(n, s)[i] = s[i + (Len(s) - Len(LastOf(n, s)))]
<1> DEFINE m == (IF Len(s) > n THEN Len(s) - n ELSE 0) + 1
           t == SubSeq(s, m, Len(s))
<1>1. m \in 1..(Len(s) + 1) /\ Len(s) \in Nat /\ Len(s) + 1 - m = IF Len(s) > n THEN n ELSE Len(s)
  OBVIOUS
<1> HIDE DEF m
<1>2. \A i \in m..Len(s) : s[i] \in S BY <1>1
<1>3. t \in Seq(S) /\ Len(t) = IF m <= Len(s) THEN Len(s) - m + 1 ELSE 0
  BY <1>1, <1>2, SubSeqProperties
<1>4. Len(t) = Len(s) + 1 - m BY <1>1, <1>3
<1>5. \A i \in 1..Len(t) : t[i] = s[m + i - 1] BY <1>1, <1>4
<1> HIDE DEF t
<1>6. LastOf(n, s) = t BY DEF LastOf, t, m
<1>7. \A i \in 1..Len(t) : m + i - 1 = i + (Len(s) - Len(t)) BY <1>1, <1>4
<1> QED BY <1>1, <1>3, <1>4, <1>5, <1>6, <1>7

LEMMA LastOfEmpty == \A n \in Nat : LastOf(n, <<>>) = <<>>
<1> SUFFICES ASSUME NEW n \in Nat PROVE LastOf(n, <<>>) = <<>>
  OBVIOUS
<1>1. LastOf(n, <<>>) = SubSeq(<<>>, 1, 0) BY DEF LastOf
<1> QED BY <1>1, SubSeqEmpty

\* What was before the last n is not seen in the last m, if these are no more.
LEMMA LastOfLonger ==
  ASSUME NEW S, NEW s \in Seq(S), NEW t \in Seq(S), NEW m \in Nat, NEW n \in Nat, m <= n
  PROVE  LastOf(m, LastOf(n, s) \o t) = LastOf(m, s \o t)
<1> DEFINE r == LastOf(n, s)
           a == r \o t
           b == s \o t
           x == LastOf(m, a)
           y == LastOf(m, b)
<1>1. /\ r \in Seq(S) /\ Len(r) = IF Len(s) > n THEN n ELSE Len(s)
      /\ \A i \in 1..Len(r) : r[i] = s[i + (Len(s) - Len(r))]
  BY LastOfIs
<1> HIDE DEF r
<1>2. /\ a \in Seq(S) /\ Len(a) = Len(r) + Len(t)
      /\ \A i \in 1..Len(a) : a[i] = IF i <= Len(r) THEN r[i] ELSE t[i - Len(r)]
  BY <1>1
<1>3. /\ b \in Seq(S) /\ Len(b) = Len(s) + Len(t)
      /\ \A i \in 1..Len(b) : b[i] = IF i <= Len(s) THEN s[i] ELSE t[i - Len(s)]
  OBVIOUS
<1> HIDE DEF a, b
<1>4. /\ x \in Seq(S) /\ Len(x) = IF Len(a) > m THEN m ELSE Len(a)
      /\ \A i \in 1..Len(x) : x[i] = a[i + (Len(a) - Len(x))]
  BY <1>2, LastOfIs
<1>5. /\ y \in Seq(S) /\ Len(y) = IF Len(b) > m THEN m ELSE Len(b)
      /\ \A i \in 1..Len(y) : y[i] = b[i + (Len(b) - Len(y))]
  BY <1>3, LastOfIs
<1> HIDE DEF x, y
<1>6. Len(r) \in Nat /\ Len(s) \in Nat /\ Len(t) \in Nat BY <1>1
<1>7. /\ Len(x) = Len(y) /\ Len(x) \in Nat /\ Len(x) <= Len(a) /\ Len(r) <= Len(s)
      /\ Len(b) - Len(a) = Len(s) - Len(r) /\ Len(a) \in Nat /\ Len(b) \in Nat
  BY <1>1, <1>2, <1>3, <1>4, <1>5, <1>6
<1>8. ASSUME NEW i \in 1..Len(x) PROVE x[i] = y[i]
  <2> DEFINE j == i + (Len(a) - Len(x))
             k == i + (Len(b) - Len(y))
  <2>1. j \in 1..Len(a) /\ k \in 1..Len(b) /\ k = j + (Len(s) - Len(r))
    BY <1>6, <1>7
  <2>2. x[i] = a[j] /\ y[i] = b[k] BY <1>4, <1>5, <1>7
  <2> HIDE DEF j, k
  <2>3. /\ a[j] = IF j <= Len(r) THEN r[j] ELSE t[j - Len(r)]
        /\ b[k] = IF k <= Len(s) THEN s[k] ELSE t[k - Len(s)]
    BY <1>2, <1>3, <2>1
  <2>4. j \in Nat /\ k \in Nat /\ 1 <= j /\ j - Len(r) = k - Len(s) BY <1>6, <1>7, <2>1
  <2>5. CASE j <= Len(r)
    <3>1. j \in 1..Len(r) /\ k <= Len(s) BY <1>6, <2>1, <2>4, <2>5
    <3>2. r[j] = s[k] BY <1>1, <2>1, <3>1
    <3> QED BY <2>2, <2>3, <2>5, <3>1, <3>2
  <2>6. CASE ~(j <= Len(r))
    <3>1. ~(k <= Len(s)) BY <1>6, <2>4, <2>6
    <3> QED BY <2>2, <2>3, <2>4, <2>6, <3>1
  <2> QED BY <2>5, <2>6
<1>9. x = y BY <1>4, <1>5, <1>7, <1>8, SeqEqual
<1> QED BY <1>9 DEF x, y, a, b, r

-----------------------------------------------------------------------------
(* The lines of a text.  Each fold of the line filter is an instance of    *)
(* FoldFacts, which says how it goes from a text to a longer one.          *)

addAtom(k, lines, atom) == Scan!AddAtom(lines, atom)
ByAtom == INSTANCE FoldFacts WITH op <- addAtom

\* The lines of t that are complete, and what follows them.
All(t) == ByAtom!Fold(0, <<<<>>>>, t)
Whole(t) == Front(All(t))
Rest(t) == Last(All(t))

LEMMA AddAtomIs ==
  ASSUME NEW C \in Seq(Text), NEW u \in Text, NEW x \in Atoms
  PROVE  Scan!AddAtom(Append(C, u), x) =
           IF x = Scan!NL THEN Append(Append(C, u), <<>>) ELSE Append(C, Append(u, x))
<1> DEFINE s == Append(C, u)
           y == Append(u, x)
<1>1. Len(s) = Len(C) + 1 /\ s[Len(s)] = u
  OBVIOUS
<1>2. y \in Text BY DEF Text
<1> HIDE DEF y
<1>3. [s EXCEPT ![Len(C) + 1] = y] = Append(C, y) BY <1>2, ReplaceLast
<1> HIDE DEF s
<1>4. Scan!AddAtom(s, x) = IF x = Scan!NL THEN Append(s, <<>>) ELSE [s EXCEPT ![Len(s)] = Append(s[Len(s)], x)]
  BY DEF Scan!AddAtom
<1> QED BY <1>1, <1>3, <1>4 DEF s, y

LEMMA AllParts ==
  \A t \in Text : Whole(t) \in Seq(Text) /\ Rest(t) \in Text /\ All(t) = Append(Whole(t), Rest(t))
<1> DEFINE V == {v \in Seq(Text) : v # <<>>}
<1>1. <<<<>>>> \in V
  <2>1. <<>> \in Text BY DEF Text
  <2> QED BY <2>1
<1>2. ASSUME NEW v \in V, NEW x \in Atoms PROVE addAtom(0, v, x) \in V
  <2> DEFINE C == Front(v)
             u == Last(v)
  <2>1. C \in Seq(Text) /\ u \in Text /\ v = Append(C, u) BY Ending
  <2> HIDE DEF C, u
  <2>2. <<>> \in Text /\ Append(u, x) \in Text /\ Append(C, u) \in Seq(Text)
    BY <2>1, PartsOf DEF Text
  <2>3. Append(Append(C, u), <<>>) \in V /\ Append(C, Append(u, x)) \in V
    <3> DEFINE y == Append(u, x)
               D == Append(C, u)
    <3>1. y \in Text /\ D \in Seq(Text) BY <2>2
    <3> HIDE DEF y, D
    <3>2. Append(C, y) \in Seq(Text) /\ Append(C, y) # <<>> BY <2>1, <3>1, PartsOf
    <3>3. Append(D, <<>>) \in Seq(Text) /\ Append(D, <<>>) # <<>> BY <2>2, <3>1, PartsOf
    <3> QED BY <3>2, <3>3 DEF y, D
  <2>4. addAtom(0, v, x) = Append(Append(C, u), <<>>) \/ addAtom(0, v, x) = Append(C, Append(u, x))
    BY <2>1, AddAtomIs DEF addAtom
  <2> HIDE DEF V
  <2> QED BY <2>3, <2>4, Zenon
<1> SUFFICES ASSUME NEW t \in Text
             PROVE  Whole(t) \in Seq(Text) /\ Rest(t) \in Text /\ All(t) = Append(Whole(t), Rest(t))
  OBVIOUS
<1> HIDE DEF V
<1>3. All(t) \in V BY <1>1, <1>2, ByAtom!FoldInvariant DEF All, Text
<1> QED BY <1>3, Ending DEF Whole, Rest, V

LEMMA PartsEmpty == Whole(<<>>) = <<>> /\ Rest(<<>>) = <<>>
<1>1. All(<<>>) = Append(<<>>, <<>>)
  <2>1. Append(<<>>, <<>>) = <<<<>>>> OBVIOUS
  <2> QED BY <2>1, ByAtom!FoldEmpty DEF All
<1>2. <<>> \in Seq(Text) /\ <<>> \in Text BY DEF Text
<1>3. Front(Append(<<>>, <<>>)) = <<>> /\ Last(Append(<<>>, <<>>)) = <<>> BY <1>2, PartsOf, Zenon
<1> QED BY <1>1, <1>3 DEF Whole, Rest

LEMMA PartsAppend ==
  ASSUME NEW t \in Text, NEW x \in Atoms
  PROVE  /\ Whole(Append(t, x)) = IF x = Scan!NL THEN Append(Whole(t), Rest(t)) ELSE Whole(t)
         /\ Rest(Append(t, x)) = IF x = Scan!NL THEN <<>> ELSE Append(Rest(t), x)
<1> DEFINE C == Whole(t)
           u == Rest(t)
<1>1. C \in Seq(Text) /\ u \in Text /\ All(t) = Append(C, u) BY AllParts
<1>2. All(Append(t, x)) = Scan!AddAtom(All(t), x)
  BY ByAtom!FoldAppend DEF All, addAtom, Text
<1> HIDE DEF C, u
<1>3. All(Append(t, x)) = IF x = Scan!NL THEN Append(Append(C, u), <<>>) ELSE Append(C, Append(u, x))
  BY <1>1, <1>2, AddAtomIs
<1>4. Append(C, u) \in Seq(Text) /\ Append(u, x) \in Text /\ <<>> \in Text
  BY <1>1 DEF Text
<1>5. /\ Front(Append(Append(C, u), <<>>)) = Append(C, u) /\ Last(Append(Append(C, u), <<>>)) = <<>>
      /\ Front(Append(C, Append(u, x))) = C /\ Last(Append(C, Append(u, x))) = Append(u, x)
  BY <1>1, <1>4, PartsOf, Zenon
<1> QED BY <1>3, <1>5, Zenon DEF Whole, Rest, C, u

\* The lines of a text are those that are complete, and what follows them.
LEMMA LinesAre ==
  ASSUME NEW t \in Text
  PROVE  Scan!Lines(t) = IF Rest(t) = <<>> THEN Whole(t) ELSE Append(Whole(t), Rest(t))
<1>1. \A s : Scan!Lines(s) = IF Rest(s) = <<>> THEN Whole(s) ELSE All(s)
  BY DEF Scan!Lines, Scan!FoldLeft, Scan!MapThenFoldSet, Scan!Max, Scan!Front, Scan!Last,
         All, Whole, Rest, Front, Last, addAtom,
         ByAtom!Fold, ByAtom!FoldLeft, ByAtom!MapThenFoldSet, ByAtom!Max
<1> QED BY <1>1, AllParts

\* Nothing follows them if the text ends with one.
LEMMA RestEmpty ==
  \A t \in Text : Rest(t) = <<>> <=> t = <<>> \/ Last(t) = Scan!NL
<1> SUFFICES ASSUME NEW t \in Text PROVE Rest(t) = <<>> <=> t = <<>> \/ Last(t) = Scan!NL
  OBVIOUS
<1>1. CASE t = <<>> BY <1>1, PartsEmpty
<1>2. CASE t # <<>>
  <2>1. PICK s \in Text, x \in Atoms : t = Append(s, x) BY <1>2, Ending DEF Text
  <2>2. Last(t) = x BY <2>1, PartsOf DEF Text
  <2>3. Append(Rest(s), x) # <<>> BY AllParts, PartsOf DEF Text
  <2> QED BY <1>2, <2>1, <2>2, <2>3, PartsAppend
<1> QED BY <1>1, <1>2

LEMMA UnfinishedIs == \A t \in Text : Unfinished(t) = Rest(t)
<1> SUFFICES ASSUME NEW t \in Text PROVE Unfinished(t) = Rest(t)
  OBVIOUS
<1>1. Whole(t) \in Seq(Text) /\ Rest(t) \in Text BY AllParts
<1>2. CASE Rest(t) = <<>>
  <2>1. t = <<>> \/ Last(t) = Scan!NL BY <1>2, RestEmpty
  <2>2. t = <<>> => Scan!Lines(t) = <<>> BY PartsEmpty, LinesAre
  <2> QED BY <1>2, <2>1, <2>2 DEF Unfinished
<1>3. CASE Rest(t) # <<>>
  <2>1. Last(t) # Scan!NL BY <1>3, RestEmpty
  <2>2. Scan!Lines(t) = Append(Whole(t), Rest(t)) BY <1>3, LinesAre
  <2>3. Append(Whole(t), Rest(t)) # <<>> BY <1>1, PartsOf
  <2>4. Last(Scan!Lines(t)) = Rest(t) BY <1>1, <2>2, PartsOf
  <2> QED BY <2>1, <2>2, <2>3, <2>4 DEF Unfinished
<1> QED BY <1>2, <1>3

LEMMA FinishedIs == \A t \in Text : Finished(t) = Whole(t)
<1> SUFFICES ASSUME NEW t \in Text PROVE Finished(t) = Whole(t)
  OBVIOUS
<1>1. Whole(t) \in Seq(Text) /\ Rest(t) \in Text BY AllParts
<1>2. Front(Append(Whole(t), Rest(t))) = Whole(t) BY <1>1, PartsOf
<1> QED BY <1>2, UnfinishedIs, LinesAre, Zenon DEF Finished

\* What follows the complete lines has no end of a line in it.
LEMMA RestAgain == \A t \in Text : Whole(Rest(t)) = <<>> /\ Rest(Rest(t)) = Rest(t)
<1> DEFINE T == {t \in Text : Whole(Rest(t)) = <<>> /\ Rest(Rest(t)) = Rest(t)}
<1>1. <<>> \in T BY PartsEmpty DEF Text
<1>2. ASSUME NEW t \in Text, NEW x \in Atoms, t \in T PROVE Append(t, x) \in T
  <2>1. Append(t, x) \in Text /\ Rest(t) \in Text BY AllParts DEF Text
  <2>2. CASE x = Scan!NL BY <2>1, <2>2, PartsAppend, PartsEmpty
  <2>3. CASE x # Scan!NL
    <3>1. Rest(Append(t, x)) = Append(Rest(t), x) BY <2>3, PartsAppend
    <3>2. /\ Whole(Append(Rest(t), x)) = Whole(Rest(t))
          /\ Rest(Append(Rest(t), x)) = Append(Rest(Rest(t)), x)
      BY <2>1, <2>3, PartsAppend
    <3> QED BY <1>2, <2>1, <3>1, <3>2
  <2> QED BY <2>2, <2>3
<1> HIDE DEF T
<1>3. \A t \in Text : t \in T BY <1>1, <1>2, ByAtom!SequenceInduction DEF Text
<1> QED BY <1>3 DEF T

-----------------------------------------------------------------------------
(* A chunk.                                                                *)

splitAt(kind, s, atom) == Scan!Split(kind, s, atom)
BySplit == INSTANCE FoldFacts WITH op <- splitAt

\* What a writer makes of the chunk p so far.
Scanned(kind, w, p) == BySplit!Fold(kind, [buf |-> w.buf, out |-> w.out, rest |-> <<>>], p)

LEMMA WriteIs ==
  \A kind, w, p :
    Scan!Write(kind, w, p) =
      [buf |-> Scanned(kind, w, p).buf \o Scanned(kind, w, p).rest, out |-> Scanned(kind, w, p).out]
BY DEF Scan!Write, Scan!FoldLeft, Scan!MapThenFoldSet, Scan!Max, Scanned, splitAt,
       BySplit!Fold, BySplit!FoldLeft, BySplit!MapThenFoldSet, BySplit!Max

\* A writer that keeps what follows the lines of a text keeps, after one more chunk,
\* what follows those of the text with the chunk, and passes on the lines between.
LEMMA WriteCuts ==
  ASSUME NEW t \in Text, NEW out \in Seq(Text), NEW p \in Text
  PROVE  \E more \in Seq(Text) :
           /\ Scan!Write("lines", [buf |-> Rest(t), out |-> out], p) = [buf |-> Rest(t \o p), out |-> out \o more]
           /\ Whole(t \o p) = Whole(t) \o more
<1> DEFINE w == [buf |-> Rest(t), out |-> out]
           Cut(q, s, more) ==
             /\ s.buf \in Text /\ s.rest \in Text /\ s.buf \o s.rest = Rest(t \o q)
             /\ s = [buf |-> s.buf, out |-> out \o more, rest |-> s.rest]
             /\ Whole(t \o q) = Whole(t) \o more
           T == {q \in Text : \E more \in Seq(Text) : Cut(q, Scanned("lines", w, q), more)}
<1>1. <<>> \in T
  <2>1. Scanned("lines", w, <<>>) = [buf |-> Rest(t), out |-> out, rest |-> <<>>]
    BY BySplit!FoldEmpty DEF Scanned
  <2>2. Rest(t) \in Text /\ Whole(t) \in Seq(Text) /\ <<>> \in Text /\ <<>> \in Seq(Text)
    BY AllParts DEF Text
  <2>3. t \o <<>> = t /\ Rest(t) \o <<>> = Rest(t) BY <2>2 DEF Text
  <2>4. Whole(t) \o <<>> = Whole(t) /\ out \o <<>> = out BY <2>2
  <2> HIDE DEF w
  <2> DEFINE s == Scanned("lines", w, <<>>)
  <2> HIDE DEF s
  <2>5. s = [buf |-> Rest(t), out |-> out, rest |-> <<>>] BY <2>1 DEF s
  <2>6. s.buf = Rest(t) /\ s.out = out /\ s.rest = <<>> BY <2>5
  <2>7. s = [buf |-> s.buf, out |-> out \o <<>>, rest |-> s.rest] BY <2>4, <2>5, <2>6
  <2>8. Cut(<<>>, s, <<>>) BY <2>2, <2>3, <2>4, <2>6, <2>7
  <2> HIDE DEF Cut
  <2> QED BY <2>2, <2>8 DEF s
<1>2. ASSUME NEW q \in Text, NEW x \in Atoms, q \in T PROVE Append(q, x) \in T
  <2> DEFINE r == Append(q, x)
             s == Scanned("lines", w, q)
             end == Scanned("lines", w, r)
             tq == t \o q
  <2>1. r \in Text /\ tq \in Text /\ t \o r = Append(tq, x) /\ <<>> \in Text BY DEF Text
  <2>2. end = Scan!Split("lines", s, x)
    BY BySplit!FoldAppend DEF Scanned, splitAt, Text
  <2>3. PICK more \in Seq(Text) : Cut(q, s, more) BY <1>2
  <2> DEFINE line == s.buf \o s.rest
  <2>4. line = Rest(tq) /\ line \in Text /\ Whole(tq) = Whole(t) \o more /\ Whole(t) \in Seq(Text)
    BY <2>1, <2>3, AllParts
  <2>5. /\ s.buf \in Text /\ s.rest \in Text
        /\ s = [buf |-> s.buf, out |-> out \o more, rest |-> s.rest]
    BY <2>3
  <2>6. /\ Whole(t \o r) = IF x = Scan!NL THEN Append(Whole(tq), line) ELSE Whole(tq)
        /\ Rest(t \o r) = IF x = Scan!NL THEN <<>> ELSE Append(line, x)
    <3> HIDE DEF r, s, tq, line
    <3>1. Whole(tq) \in Seq(Text) /\ Rest(tq) \in Text BY <2>1, AllParts
    <3>2. /\ Whole(Append(tq, x)) = IF x = Scan!NL THEN Append(Whole(tq), Rest(tq)) ELSE Whole(tq)
          /\ Rest(Append(tq, x)) = IF x = Scan!NL THEN <<>> ELSE Append(Rest(tq), x)
      BY <2>1, PartsAppend
    <3>3. line = Rest(tq) /\ t \o r = Append(tq, x) BY <2>1, <2>4
    <3> QED BY <3>2, <3>3, Zenon
  <2> DEFINE longer == Append(more, line)
  <2>7. /\ longer \in Seq(Text) /\ out \o longer = Append(out \o more, line)
        /\ Whole(t) \o longer = Append(Whole(tq), line)
    <3> DEFINE C == Whole(t)
    <3> HIDE DEF C, line
    <3>1. longer \in Seq(Text) /\ out \o longer = Append(out \o more, line) BY <2>4
    <3>2. C \in Seq(Text) => C \o longer = Append(C \o more, line) BY <2>4
    <3> QED BY <2>4, <3>1, <3>2 DEF C
  <2>8. CASE x = Scan!NL
    <3>1. end = [buf |-> <<>>, out |-> Append(out \o more, line), rest |-> <<>>]
      <4> HIDE DEF s, end
      <4>1. s.out = out \o more BY <2>5
      <4> QED BY <2>2, <2>8, <4>1 DEF Scan!Split, Scan!Token
    <3>2. <<>> \o <<>> = <<>> OBVIOUS
    <3> HIDE DEF s, end, r, tq, line, longer
    <3>3. /\ end.buf = <<>> /\ end.rest = <<>>
          /\ end = [buf |-> <<>>, out |-> out \o longer, rest |-> <<>>]
      BY <2>7, <3>1
    <3>4. Cut(r, end, longer)
      BY <2>1, <2>6, <2>7, <2>8, <3>2, <3>3
    <3> HIDE DEF Cut
    <3> QED BY <2>1, <2>7, <3>4 DEF r, end
  <2>9. CASE x # Scan!NL
    <3>1. end = [buf |-> s.buf, out |-> out \o more, rest |-> Append(s.rest, x)]
      <4> HIDE DEF s, end
      <4>1. end = [s EXCEPT !.rest = Append(s.rest, x)] BY <2>2, <2>9 DEF Scan!Split
      <4> DEFINE b == s.buf
                 o == out \o more
                 y == s.rest
      <4>2. s = [buf |-> b, out |-> o, rest |-> y] BY <2>5
      <4>3. end = [s EXCEPT !.rest = Append(y, x)] BY <4>1
      <4> HIDE DEF b, o, y
      <4>4. end = [buf |-> b, out |-> o, rest |-> Append(y, x)] BY <4>2, <4>3
      <4> QED BY <4>4 DEF b, o, y
    <3>2. /\ Append(s.rest, x) \in Text
          /\ s.buf \o Append(s.rest, x) = Append(line, x)
      <4> HIDE DEF s
      <4> QED BY <2>5 DEF Text
    <3> HIDE DEF s, end, r, tq, line, longer
    <3>3. /\ end.buf = s.buf /\ end.rest = Append(s.rest, x)
          /\ end = [buf |-> end.buf, out |-> out \o more, rest |-> end.rest]
      BY <3>1
    <3>4. Cut(r, end, more)
      BY <2>4, <2>5, <2>6, <2>9, <3>2, <3>3
    <3> HIDE DEF Cut
    <3> QED BY <2>1, <3>4 DEF r, end
  <2> QED BY <2>8, <2>9
<1> HIDE DEF T
<1>3. \A q \in Text : q \in T BY <1>1, <1>2, ByAtom!SequenceInduction DEF Text
<1>4. PICK more \in Seq(Text) : Cut(p, Scanned("lines", w, p), more) BY <1>3 DEF T
<1>5. Scan!Write("lines", w, p) = [buf |-> Rest(t \o p), out |-> out \o more]
  <2>1. Scanned("lines", w, p).out = out \o more BY <1>4
  <2> HIDE DEF w
  <2> QED BY <1>4, <2>1, WriteIs
<1> QED BY <1>4, <1>5

\* The unfinished end of the text is the last of its lines.
LEMMA FlushIs ==
  ASSUME NEW t \in Text
  PROVE  Scan!Flush("lines", [buf |-> Rest(t), out |-> Whole(t)]) = [buf |-> <<>>, out |-> Scan!Lines(t)]
BY LinesAre DEF Scan!Flush, Scan!Token

-----------------------------------------------------------------------------
(* All chunks.                                                             *)

writeTo(kind, w, p) == Scan!Write(kind, w, p)
ByChunk == INSTANCE FoldFacts WITH op <- writeTo
joinTo(k, t, p) == t \o p
ByJoin == INSTANCE FoldFacts WITH op <- joinTo

LEMMA TogetherFolds == \A chunks : Together(chunks) = ByJoin!Fold(0, <<>>, chunks)
BY DEF Together, FoldLeft, MapThenFoldSet, Max, joinTo,
       ByJoin!Fold, ByJoin!FoldLeft, ByJoin!MapThenFoldSet, ByJoin!Max

LEMMA WrittenIs ==
  \A chunks :
    Scan!Written("lines", chunks) =
      Scan!Flush("lines", ByChunk!Fold("lines", Scan!NewScanWriter, chunks)).out
<1> HIDE DEF Scan!Write, Scan!Flush
<1> QED
  BY DEF Scan!Written, Scan!FoldLeft, Scan!MapThenFoldSet, Scan!Max, writeTo,
         ByChunk!Fold, ByChunk!FoldLeft, ByChunk!MapThenFoldSet, ByChunk!Max

\* However the output of a command comes in chunks, what a ScanWriter passes on, with
\* a last line that it flushes, is the lines of the whole: none is lost, doubled,
\* split or joined (ScanWriter.Write and Flush in xbufio.go, with bufio.ScanLines).
THEOREM LinesOfChunks ==
  \A chunks \in Seq(Seq(STRING)) : Scan!Written("lines", chunks) = Scan!Lines(Together(chunks))
<1> DEFINE w(c) == ByChunk!Fold("lines", Scan!NewScanWriter, c)
           T == {c \in Seq(Text) :
                   Together(c) \in Text /\ w(c) = [buf |-> Rest(Together(c)), out |-> Whole(Together(c))]}
<1>1. <<>> \in T
  <2>1. Together(<<>>) = <<>> BY TogetherFolds, ByJoin!FoldEmpty
  <2>2. w(<<>>) = Scan!NewScanWriter BY ByChunk!FoldEmpty
  <2>3. /\ <<>> \in Text /\ <<>> \in Seq(Text) BY DEF Text
  <2>4. [buf |-> Rest(Together(<<>>)), out |-> Whole(Together(<<>>))] = Scan!NewScanWriter
    BY <2>1, PartsEmpty DEF Scan!NewScanWriter
  <2> HIDE DEF w
  <2> QED BY <2>1, <2>2, <2>3, <2>4
<1>2. ASSUME NEW c \in Seq(Text), NEW p \in Text, c \in T PROVE Append(c, p) \in T
  <2> DEFINE t == Together(c)
             d == Append(c, p)
  <2>1. t \in Text /\ w(c) = [buf |-> Rest(t), out |-> Whole(t)] BY <1>2
  <2>2. Together(d) = t \o p
    <3>1. ByJoin!Fold(0, <<>>, Append(c, p)) = joinTo(0, ByJoin!Fold(0, <<>>, c), p)
      BY ByJoin!FoldAppend
    <3> QED BY <3>1, TogetherFolds DEF joinTo
  <2>3. w(d) = Scan!Write("lines", w(c), p) BY ByChunk!FoldAppend DEF writeTo
  <2> HIDE DEF w, t
  <2>4. Whole(t) \in Seq(Text) BY <2>1, AllParts
  <2>5. Scan!Write("lines", w(c), p) = [buf |-> Rest(t \o p), out |-> Whole(t \o p)]
    <3>1. PICK more \in Seq(Text) :
            /\ Scan!Write("lines", [buf |-> Rest(t), out |-> Whole(t)], p) =
                 [buf |-> Rest(t \o p), out |-> Whole(t) \o more]
            /\ Whole(t \o p) = Whole(t) \o more
      BY <2>1, <2>4, WriteCuts
    <3> QED BY <2>1, <3>1
  <2>6. d \in Seq(Text) /\ t \o p \in Text BY <2>1 DEF Text
  <2> HIDE DEF d
  <2> QED BY <2>2, <2>3, <2>5, <2>6 DEF d
<1> HIDE DEF T
<1>3. \A c \in Seq(Text) : c \in T BY <1>1, <1>2, ByChunk!SequenceInduction
<1>4. ASSUME NEW c \in Seq(Text) PROVE Scan!Written("lines", c) = Scan!Lines(Together(c))
  <2>1. Together(c) \in Text /\ w(c) = [buf |-> Rest(Together(c)), out |-> Whole(Together(c))]
    BY <1>3 DEF T
  <2> DEFINE t == Together(c)
  <2>2. Scan!Flush("lines", [buf |-> Rest(t), out |-> Whole(t)]) = [buf |-> <<>>, out |-> Scan!Lines(t)]
    BY <2>1, FlushIs
  <2> HIDE DEF t, w
  <2>3. Scan!Flush("lines", w(c)).out = Scan!Lines(t) BY <2>1, <2>2 DEF t
  <2> QED BY <2>3, WrittenIs DEF w, t
<1> QED BY <1>4 DEF Text, Atoms

-----------------------------------------------------------------------------
(* The filter of git's progress.                                           *)

keptAfter(k, t, line) == AddKept(t, line)
ByKept == INSTANCE FoldFacts WITH op <- keptAfter

LEMMA TextJoins ==
  ASSUME NEW s \in Text, NEW t \in Text
  PROVE  s \o t \in Text /\ s \o <<>> = s /\ <<>> \o s = s /\ <<>> \in Text
BY DEF Text

LEMMA TextAssociates ==
  ASSUME NEW s \in Text, NEW t \in Text, NEW u \in Text
  PROVE  (s \o t) \o u = s \o (t \o u)
BY DEF Text

LEMMA AppendJoins ==
  ASSUME NEW s \in Text, NEW t \in Text, NEW x \in Atoms
  PROVE  Append(t, x) \in Text /\ s \o Append(t, x) = Append(s \o t, x)
BY DEF Text

\* A line is kept as the filter's token for it.
LEMMA TokenIs ==
  ASSUME NEW line \in Text
  PROVE  /\ Scan!Token("git", line) \in Text
         /\ \A t \in Text : AddKept(t, line) = t \o Scan!Token("git", line)
<1> DEFINE noise == Scan!isGitNoise(line)
<1>1. Scan!NL \in Atoms BY GitAssumption DEF Atoms
<1>2. Scan!Token("git", line) = IF noise THEN <<>> ELSE Append(line, Scan!NL)
  BY DEF Scan!Token
<1>3. \A t : AddKept(t, line) = IF noise THEN t ELSE t \o line \o <<Scan!NL>>
  BY DEF AddKept
<1> HIDE DEF noise
<1>4. Append(line, Scan!NL) \in Text /\ <<>> \in Text BY <1>1 DEF Text
<1>5. ASSUME NEW t \in Text PROVE t \o line \o <<Scan!NL>> = t \o Append(line, Scan!NL) /\ t \o <<>> = t
  <2>1. Append(line, Scan!NL) = line \o <<Scan!NL>> /\ <<Scan!NL>> \in Text BY <1>1 DEF Text
  <2> QED BY <2>1, TextAssociates, TextJoins
<1> QED BY <1>2, <1>3, <1>4, <1>5

LEMMA KeptFolds == \A lines : KeptLines(lines) = ByKept!Fold(0, <<>>, lines)
BY DEF KeptLines, FoldLeft, MapThenFoldSet, Max, keptAfter,
   ByKept!Fold, ByKept!FoldLeft, ByKept!MapThenFoldSet, ByKept!Max

LEMMA KeptEmpty == KeptLines(<<>>) = <<>>
BY KeptFolds, ByKept!FoldEmpty

LEMMA KeptType == \A lines \in Seq(Text) : KeptLines(lines) \in Text
<1>1. \A t \in Text : \A line \in Text : keptAfter(0, t, line) \in Text
  BY TokenIs, TextJoins DEF keptAfter
<1>2. <<>> \in Text BY DEF Text
<1>3. \A lines \in Seq(Text) : ByKept!Fold(0, <<>>, lines) \in Text
  BY <1>1, <1>2, ByKept!FoldInvariant
<1> QED BY <1>3, KeptFolds

LEMMA KeptAppend ==
  ASSUME NEW lines \in Seq(Text), NEW line \in Text
  PROVE  KeptLines(Append(lines, line)) = KeptLines(lines) \o Scan!Token("git", line)
<1>1. KeptLines(Append(lines, line)) = AddKept(KeptLines(lines), line)
  BY KeptFolds, ByKept!FoldAppend DEF keptAfter
<1> QED BY <1>1, KeptType, TokenIs

LEMMA KeptOne == \A line \in Text : KeptLines(<<line>>) = Scan!Token("git", line)
<1> SUFFICES ASSUME NEW line \in Text PROVE KeptLines(<<line>>) = Scan!Token("git", line)
  OBVIOUS
<1>1. <<>> \in Seq(Text) /\ Append(<<>>, line) = <<line>> OBVIOUS
<1>2. KeptLines(Append(<<>>, line)) = KeptLines(<<>>) \o Scan!Token("git", line) BY <1>1, KeptAppend
<1> QED BY <1>1, <1>2, KeptEmpty, TokenIs, TextJoins

LEMMA KeptJoins ==
  ASSUME NEW s \in Seq(Text), NEW t \in Seq(Text)
  PROVE  KeptLines(s \o t) = KeptLines(s) \o KeptLines(t)
<1> DEFINE T == {u \in Seq(Text) : KeptLines(s \o u) = KeptLines(s) \o KeptLines(u)}
<1>1. <<>> \in T
  <2>1. s \o <<>> = s /\ <<>> \in Seq(Text) OBVIOUS
  <2>2. KeptLines(s) \o <<>> = KeptLines(s) BY KeptType, TextJoins
  <2>3. KeptLines(s \o <<>>) = KeptLines(s) \o KeptLines(<<>>) BY <2>1, <2>2, KeptEmpty
  <2> QED BY <2>1, <2>3
<1>2. ASSUME NEW u \in Seq(Text), NEW line \in Text, u \in T PROVE Append(u, line) \in T
  <2>1. /\ s \o u \in Seq(Text) /\ Append(u, line) \in Seq(Text)
        /\ s \o Append(u, line) = Append(s \o u, line)
    OBVIOUS
  <2>2. KeptLines(s \o Append(u, line)) = (KeptLines(s) \o KeptLines(u)) \o Scan!Token("git", line)
    BY <1>2, <2>1, KeptAppend
  <2>3. KeptLines(Append(u, line)) = KeptLines(u) \o Scan!Token("git", line) BY KeptAppend
  <2>4. KeptLines(s) \in Text /\ KeptLines(u) \in Text /\ Scan!Token("git", line) \in Text
    BY KeptType, TokenIs
  <2>5. (KeptLines(s) \o KeptLines(u)) \o Scan!Token("git", line) = KeptLines(s) \o (KeptLines(u) \o Scan!Token("git", line))
    BY <2>4, TextAssociates
  <2>6. KeptLines(s \o Append(u, line)) = KeptLines(s) \o KeptLines(Append(u, line)) BY <2>2, <2>3, <2>5
  <2> QED BY <2>1, <2>6
<1> HIDE DEF T
<1>3. \A u \in Seq(Text) : u \in T BY <1>1, <1>2, ByKept!SequenceInduction
<1> QED BY <1>3 DEF T

LEMMA TogetherAppend ==
  ASSUME NEW tokens \in Seq(Text), NEW token \in Text
  PROVE  /\ Together(tokens) \in Text /\ Together(<<>>) = <<>>
         /\ Together(Append(tokens, token)) = Together(tokens) \o token
<1>1. \A t \in Text : \A p \in Text : joinTo(0, t, p) \in Text BY TextJoins DEF joinTo
<1>2. <<>> \in Text BY DEF Text
<1>3. Together(tokens) \in Text BY <1>1, <1>2, TogetherFolds, ByJoin!FoldInvariant
<1>4. Together(Append(tokens, token)) = Together(tokens) \o token
  <2>1. ByJoin!Fold(0, <<>>, Append(tokens, token)) = joinTo(0, ByJoin!Fold(0, <<>>, tokens), token)
    BY ByJoin!FoldAppend
  <2> QED BY <2>1, TogetherFolds DEF joinTo
<1>5. Together(<<>>) = <<>> BY TogetherFolds, ByJoin!FoldEmpty
<1> QED BY <1>3, <1>4, <1>5

\* The first line of a text stays when there is more text.
LEMMA FirstStays ==
  ASSUME NEW q \in Text, NEW x \in Atoms
  PROVE  /\ Whole(q) # <<>> => /\ Whole(Append(q, x)) # <<>>
                               /\ Head(Whole(Append(q, x))) = Head(Whole(q))
         /\ Whole(q) = <<>> /\ x = Scan!NL => Whole(Append(q, x)) = <<Rest(q)>>
<1> DEFINE C == Whole(q)
           u == Rest(q)
<1>1. C \in Seq(Text) /\ u \in Text BY AllParts
<1>2. Whole(Append(q, x)) = IF x = Scan!NL THEN Append(C, u) ELSE C BY PartsAppend
<1> HIDE DEF C, u
<1>3. Append(C, u) # <<>> BY <1>1, PartsOf
<1>4. C # <<>> => Head(Append(C, u)) = Head(C) BY <1>1
<1>5. C = <<>> => Append(C, u) = <<u>> BY <1>1
<1> QED BY <1>2, <1>3, <1>4, <1>5 DEF C, u

LEMMA RestOfOne == \A q \in Text : Whole(q) = <<>> => Rest(q) = q
<1> DEFINE T == {q \in Text : Whole(q) = <<>> => Rest(q) = q}
<1>1. <<>> \in T BY PartsEmpty DEF Text
<1>2. ASSUME NEW q \in Text, NEW x \in Atoms, q \in T PROVE Append(q, x) \in T
  <2>1. Append(q, x) \in Text BY DEF Text
  <2>2. Whole(q) \in Seq(Text) /\ Rest(q) \in Text BY AllParts
  <2>3. Append(Whole(q), Rest(q)) # <<>> BY <2>2, PartsOf
  <2> QED BY <1>2, <2>1, <2>3, PartsAppend
<1> HIDE DEF T
<1>3. \A q \in Text : q \in T BY <1>1, <1>2, ByAtom!SequenceInduction DEF Text
<1> QED BY <1>3 DEF T

\* A line begun at the end of t and ended in q is one whose end, which is all the
\* filter sees of it, says what the line does.
Spared(t, q) ==
  Rest(t) # <<>> /\ Whole(q) # <<>> =>
    /\ ~Scan!isGitNoise(Head(Whole(q)))
    /\ ~Scan!isGitNoise(Rest(t) \o Head(Whole(q)))

LEMMA SparedBefore ==
  ASSUME NEW t \in Text, NEW q \in Text, NEW x \in Atoms, Spared(t, Append(q, x))
  PROVE  Spared(t, q)
BY FirstStays DEF Spared

\* A filter that keeps what follows the lines of t keeps, after the chunk p, what
\* follows those of t and p; what it passes on is what is kept of the lines between.
Cuts(t, q, s, more) ==
  /\ s.buf \in Text /\ s.rest \in Text /\ s.buf \o s.rest = Rest(t \o q)
  /\ s.out \in Seq(Text) /\ s = [buf |-> s.buf, out |-> s.out, rest |-> s.rest]
  /\ more \in Seq(Text) /\ Whole(t \o q) = Whole(t) \o more
  /\ IF Whole(q) = <<>> THEN s.buf = Rest(t) /\ s.rest = q ELSE s.buf = <<>>
  /\ Spared(t, q) => Together(s.out) = KeptLines(more)

LEMMA CutsNothing ==
  ASSUME NEW t \in Text
  PROVE  Cuts(t, <<>>, [buf |-> Rest(t), out |-> <<>>, rest |-> <<>>], <<>>)
<1> DEFINE s == [buf |-> Rest(t), out |-> <<>>, rest |-> <<>>]
<1>1. s.buf = Rest(t) /\ s.out = <<>> /\ s.rest = <<>> /\ s = [buf |-> s.buf, out |-> s.out, rest |-> s.rest]
  OBVIOUS
<1> HIDE DEF s
<1>2. Rest(t) \in Text /\ Whole(t) \in Seq(Text) /\ <<>> \in Text /\ <<>> \in Seq(Text)
  BY AllParts DEF Text
<1>3. t \o <<>> = t /\ Rest(t) \o <<>> = Rest(t) BY <1>2, TextJoins
<1>4. Whole(t) \o <<>> = Whole(t) BY <1>2
<1>5. Together(<<>>) = KeptLines(<<>>) BY <1>2, TogetherAppend, KeptEmpty
<1>6. Whole(<<>>) = <<>> BY PartsEmpty
<1>7. Cuts(t, <<>>, s, <<>>) BY <1>1, <1>2, <1>3, <1>4, <1>5, <1>6 DEF Cuts
<1> QED BY <1>7 DEF s

LEMMA CutsMore ==
  ASSUME NEW t \in Text, NEW q \in Text, NEW x \in Atoms, NEW s, NEW more, Cuts(t, q, s, more)
  PROVE  \E longer : Cuts(t, Append(q, x), Scan!Split("git", s, x), longer)
<1> DEFINE r == Append(q, x)
           tq == t \o q
           b == s.buf
           o == s.out
           y == s.rest
           line == b \o y
<1>1. /\ b \in Text /\ y \in Text /\ line = Rest(tq) /\ o \in Seq(Text)
      /\ s = [buf |-> b, out |-> o, rest |-> y]
      /\ more \in Seq(Text) /\ Whole(tq) = Whole(t) \o more
      /\ IF Whole(q) = <<>> THEN b = Rest(t) /\ y = q ELSE b = <<>>
      /\ Spared(t, q) => Together(o) = KeptLines(more)
  BY DEF Cuts
<1>2. r \in Text /\ tq \in Text /\ t \o r = Append(tq, x) /\ <<>> \in Text BY DEF Text
<1>3. Whole(t) \in Seq(Text) /\ line \in Text BY <1>1, <1>2, AllParts
<1> HIDE DEF b, o, y, line, tq
<1>4. /\ Whole(t \o r) = IF x = Scan!NL THEN Append(Whole(tq), line) ELSE Whole(tq)
      /\ Rest(t \o r) = IF x = Scan!NL THEN <<>> ELSE Append(line, x)
  <2>1. /\ Whole(Append(tq, x)) = IF x = Scan!NL THEN Append(Whole(tq), Rest(tq)) ELSE Whole(tq)
        /\ Rest(Append(tq, x)) = IF x = Scan!NL THEN <<>> ELSE Append(Rest(tq), x)
    BY <1>2, PartsAppend
  <2> HIDE DEF r
  <2> QED BY <1>1, <1>2, <2>1, Zenon
<1>5. Spared(t, r) => Spared(t, q) BY SparedBefore
<1>6. CASE x = Scan!NL
  <2> DEFINE token == b \o Scan!Token("git", y)
             end == [buf |-> <<>>, out |-> Append(o, token), rest |-> <<>>]
             longer == Append(more, line)
  <2>1. Scan!Split("git", s, x) = end BY <1>1, <1>6 DEF Scan!Split
  <2>2. token \in Text BY <1>1, TokenIs, TextJoins
  <2>3. longer \in Seq(Text) /\ Whole(t) \o longer = Append(Whole(t) \o more, line)
    BY <1>1, <1>3
  <2>4. Whole(r) # <<>>
    <3>1. Whole(q) = <<>> => Whole(r) = <<Rest(q)>> BY <1>6, FirstStays
    <3> QED BY <3>1, FirstStays
  <2>5. ASSUME Spared(t, r) PROVE token = Scan!Token("git", line)
    <3>1. CASE b = <<>> BY <1>1, <3>1, TokenIs, TextJoins DEF line
    <3>2. CASE b # <<>>
      <4>1. Whole(q) = <<>> /\ b = Rest(t) /\ y = q BY <1>1, <3>2
      <4>2. Head(Whole(r)) = y BY <1>6, <4>1, FirstStays, RestOfOne
      <4>3. ~Scan!isGitNoise(y) /\ ~Scan!isGitNoise(line)
        BY <2>4, <2>5, <3>2, <4>1, <4>2 DEF Spared, line
      <4>4. Scan!Token("git", y) = Append(y, Scan!NL) /\ Scan!Token("git", line) = Append(line, Scan!NL)
        BY <4>3 DEF Scan!Token
      <4>5. b \o Append(y, x) = Append(b \o y, x) BY <1>1, AppendJoins
      <4> QED BY <1>6, <4>4, <4>5 DEF line
    <3> QED BY <3>1, <3>2
  <2>6. Spared(t, r) => Together(Append(o, token)) = KeptLines(longer)
    <3>1. Together(Append(o, token)) = Together(o) \o token BY <1>1, <2>2, TogetherAppend
    <3>2. KeptLines(longer) = KeptLines(more) \o Scan!Token("git", line) BY <1>1, <1>3, KeptAppend
    <3> QED BY <1>1, <1>5, <2>5, <3>1, <3>2
  <2>7. /\ end.buf = <<>> /\ end.out = Append(o, token) /\ end.rest = <<>>
        /\ end = [buf |-> end.buf, out |-> end.out, rest |-> end.rest]
    OBVIOUS
  <2>8. Append(o, token) \in Seq(Text) BY <1>1, <2>2
  <2>9. <<>> \o <<>> = <<>> OBVIOUS
  <2> HIDE DEF end, token, longer, r
  <2>10. Cuts(t, r, end, longer)
    BY <1>1, <1>2, <1>4, <1>6, <2>3, <2>4, <2>6, <2>7, <2>8, <2>9 DEF Cuts
  <2> QED BY <2>1, <2>10 DEF r
<1>7. CASE x # Scan!NL
  <2> DEFINE end == [buf |-> b, out |-> o, rest |-> Append(y, x)]
  <2>1. Scan!Split("git", s, x) = end
    <3>1. Scan!Split("git", s, x) = [s EXCEPT !.rest = Append(y, x)] BY <1>7 DEF Scan!Split, y
    <3> QED BY <1>1, <3>1
  <2>2. Append(y, x) \in Text /\ b \o Append(y, x) = Append(line, x)
    BY <1>1, AppendJoins DEF line
  <2>3. Whole(r) = Whole(q) BY <1>7, PartsAppend
  <2>4. /\ end.buf = b /\ end.out = o /\ end.rest = Append(y, x)
        /\ end = [buf |-> end.buf, out |-> end.out, rest |-> end.rest]
    OBVIOUS
  <2>5. y = q => Append(y, x) = r OBVIOUS
  <2> HIDE DEF end, r
  <2>6. Cuts(t, r, end, more)
    BY <1>1, <1>2, <1>4, <1>5, <1>7, <2>2, <2>3, <2>4, <2>5 DEF Cuts
  <2> QED BY <2>1, <2>6 DEF r
<1> QED BY <1>6, <1>7

LEMMA FilterCuts ==
  ASSUME NEW t \in Text, NEW p \in Text
  PROVE  \E more \in Seq(Text), out \in Seq(Text) :
           /\ Scan!Write("git", [buf |-> Rest(t), out |-> <<>>], p) = [buf |-> Rest(t \o p), out |-> out]
           /\ Whole(t \o p) = Whole(t) \o more
           /\ Spared(t, p) => Together(out) = KeptLines(more)
<1> DEFINE w == [buf |-> Rest(t), out |-> <<>>]
           s(q) == Scanned("git", w, q)
           T == {q \in Text : \E more : Cuts(t, q, s(q), more)}
<1>1. <<>> \in T
  <2>1. s(<<>>) = [buf |-> Rest(t), out |-> <<>>, rest |-> <<>>]
    BY BySplit!FoldEmpty DEF Scanned
  <2>2. <<>> \in Text BY DEF Text
  <2> HIDE DEF s
  <2> QED BY <2>1, <2>2, CutsNothing
<1>2. ASSUME NEW q \in Text, NEW x \in Atoms, q \in T PROVE Append(q, x) \in T
  <2>1. s(Append(q, x)) = Scan!Split("git", s(q), x)
    BY BySplit!FoldAppend DEF Scanned, splitAt, Text
  <2>2. Append(q, x) \in Text BY DEF Text
  <2> HIDE DEF s
  <2>3. PICK more : Cuts(t, q, s(q), more) BY <1>2
  <2> QED BY <2>1, <2>2, <2>3, CutsMore
<1> HIDE DEF T
<1>3. \A q \in Text : q \in T BY <1>1, <1>2, ByAtom!SequenceInduction DEF Text
<1>4. PICK more : Cuts(t, p, s(p), more) BY <1>3 DEF T
<1>5. Scan!Write("git", w, p) = [buf |-> s(p).buf \o s(p).rest, out |-> s(p).out] BY WriteIs
<1> HIDE DEF s
<1> QED BY <1>4, <1>5 DEF Cuts

\* What it passes on when it is closed.
LEMMA FilterFlush ==
  ASSUME NEW t \in Text
  PROVE  \E out \in Seq(Text) :
           /\ Scan!Flush("git", [buf |-> Rest(t), out |-> <<>>]) = [buf |-> <<>>, out |-> out]
           /\ Together(out) = IF Rest(t) = <<>> THEN <<>> ELSE KeptLines(<<Rest(t)>>)
<1> DEFINE token == IF Rest(t) = <<>> THEN <<>> ELSE Scan!Token("git", Rest(t))
           out == IF token = <<>> THEN <<>> ELSE Append(<<>>, token)
<1>1. Rest(t) \in Text BY AllParts
<1>2. token \in Text BY <1>1, TokenIs, TextJoins
<1>3. Scan!Flush("git", [buf |-> Rest(t), out |-> <<>>]) = [buf |-> <<>>, out |-> out]
  BY DEF Scan!Flush
<1>4. out \in Seq(Text) /\ <<>> \in Seq(Text) BY <1>2
<1>5. Together(out) = token BY <1>2, <1>4, TogetherAppend, TextJoins
<1>6. token = IF Rest(t) = <<>> THEN <<>> ELSE KeptLines(<<Rest(t)>>) BY <1>1, KeptOne
<1> HIDE DEF token, out
<1> QED BY <1>3, <1>4, <1>5, <1>6

-----------------------------------------------------------------------------
(* The invariant of git's output.                                          *)

GitInv ==
  /\ git \in {"running", "exited", "closed"} /\ warned \in BOOLEAN /\ torn \in BOOLEAN
  /\ sent \in Text /\ passed \in Text
  /\ git # "closed" => filter = [buf |-> Rest(sent), out |-> <<>>]
  /\ git = "running" => ~warned
  /\ OutputLinesAreWhole

LEMMA WarningIsText == Warning \in Text
BY GitAssumption DEF Warning, Text, Atoms

\* The property, with the names of the proof.
LEMMA PassedIs ==
  ASSUME sent \in Text
  PROVE  WholeLinesPassed <=>
           passed = KeptLines(Whole(sent)) \o (IF warned THEN Warning ELSE <<>>)
                      \o (IF git = "closed" /\ Rest(sent) # <<>> THEN KeptLines(<<Rest(sent)>>) ELSE <<>>)
BY FinishedIs, UnfinishedIs DEF WholeLinesPassed

LEMMA PassedSoFar ==
  ASSUME GitInv, git # "closed", ~torn
  PROVE  passed = KeptLines(Whole(sent)) \o (IF warned THEN Warning ELSE <<>>)
<1> DEFINE K == KeptLines(Whole(sent))
           W == IF warned THEN Warning ELSE <<>>
<1>1. K \in Text /\ W \in Text
  BY AllParts, KeptType, WarningIsText, TextJoins DEF GitInv
<1>2. WholeLinesPassed BY DEF GitInv, OutputLinesAreWhole
<1>3. passed = K \o W \o <<>> BY <1>2, PassedIs DEF GitInv
<1> HIDE DEF K, W
<1>4. passed = K \o W BY <1>1, <1>3, TextJoins
<1> QED BY <1>4 DEF K, W

LEMMA TearsIs ==
  ASSUME sent \in Text, NEW p \in Text
  PROVE  Tears(p) <=> ~Spared(sent, p)
BY FinishedIs, UnfinishedIs DEF Tears, Spared

LEMMA GitStarts == GitInit => GitInv
<1> SUFFICES ASSUME GitInit PROVE GitInv
  OBVIOUS
<1>1. /\ git = "running" /\ filter = [buf |-> <<>>, out |-> <<>>] /\ passed = <<>>
      /\ sent = <<>> /\ warned = FALSE /\ torn = FALSE
  BY DEF GitInit, Scan!NewScanWriter
<1>2. <<>> \in Text /\ <<>> \o <<>> \o <<>> = <<>> BY DEF Text
<1>3. Whole(sent) = <<>> /\ Rest(sent) = <<>> BY <1>1, PartsEmpty
<1>4. WholeLinesPassed BY <1>1, <1>2, <1>3, PassedIs, KeptEmpty
<1> QED BY <1>1, <1>2, <1>3, <1>4 DEF GitInv, OutputLinesAreWhole

LEMMA GitWritesKeeps ==
  ASSUME GitInv, NEW p \in GitChunks, GitWrites(p)
  PROVE  GitInv'
<1>1. p \in Text BY GitAssumption DEF Text, Atoms
<1>2. /\ sent \in Text /\ passed \in Text /\ filter = [buf |-> Rest(sent), out |-> <<>>]
      /\ git = "running" /\ git' = "running" /\ warned = FALSE /\ warned' = FALSE
      /\ sent' = sent \o p /\ torn \in BOOLEAN /\ torn' = (torn \/ Tears(p))
  BY DEF GitInv, GitWrites
<1>3. PICK more \in Seq(Text), out \in Seq(Text) :
        /\ Scan!Write("git", filter, p) = [buf |-> Rest(sent'), out |-> out]
        /\ Whole(sent') = Whole(sent) \o more
        /\ Spared(sent, p) => Together(out) = KeptLines(more)
  BY <1>1, <1>2, FilterCuts
<1> DEFINE w == Scan!Write("git", filter, p)
<1>4. filter' = [w EXCEPT !.out = <<>>] /\ passed' = passed \o Together(w.out)
  BY DEF GitWrites
<1>5. w = [buf |-> Rest(sent'), out |-> out] BY <1>3
<1> HIDE DEF w
<1>6. filter' = [buf |-> Rest(sent'), out |-> <<>>] /\ passed' = passed \o Together(out)
  BY <1>4, <1>5
<1>7. sent' \in Text /\ passed' \in Text
  BY <1>1, <1>2, <1>6, TextJoins, TogetherAppend
<1>8. torn' \in BOOLEAN BY <1>2 DEF Tears
<1>9. ASSUME ~torn' PROVE WholeLinesPassed'
  <2>1. ~torn /\ Spared(sent, p) BY <1>1, <1>2, <1>9, TearsIs
  <2> DEFINE K == KeptLines(Whole(sent))
             M == KeptLines(more)
  <2>2. Whole(sent) \in Seq(Text) BY <1>2, AllParts
  <2>3. K \in Text /\ M \in Text BY <2>2, KeptType
  <2>4. passed = K \o <<>> BY <1>2, <2>1, PassedSoFar
  <2>5. passed' = K \o M BY <1>3, <1>6, <2>1, <2>3, <2>4, TextJoins
  <2>6. KeptLines(Whole(sent')) = K \o M BY <1>3, <2>2, KeptJoins
  <2>7. (K \o M) \o <<>> \o <<>> = K \o M BY <2>3, TextJoins
  <2> HIDE DEF K, M
  <2>8. /\ (IF warned' THEN Warning ELSE <<>>) = <<>>
        /\ (IF git' = "closed" /\ Rest(sent') # <<>> THEN KeptLines(<<Rest(sent')>>) ELSE <<>>) = <<>>
    BY <1>2
  <2>9. passed' = KeptLines(Whole(sent')) \o (IF warned' THEN Warning ELSE <<>>)
                    \o (IF git' = "closed" /\ Rest(sent') # <<>> THEN KeptLines(<<Rest(sent')>>) ELSE <<>>)
    BY <2>5, <2>6, <2>7, <2>8
  <2> QED BY <1>7, <2>9, FinishedIs, UnfinishedIs DEF WholeLinesPassed
<1> QED BY <1>2, <1>6, <1>7, <1>8, <1>9 DEF GitInv, OutputLinesAreWhole

LEMMA GitExitsKeeps ==
  ASSUME GitInv, NEW ok \in BOOLEAN, GitExits(ok)
  PROVE  GitInv'
<1> DEFINE K == KeptLines(Whole(sent))
           W == IF warned' THEN Warning ELSE <<>>
<1>1. /\ sent \in Text /\ passed \in Text /\ git = "running" /\ git' = "exited"
      /\ warned = FALSE /\ warned' \in BOOLEAN /\ warned' = ~ok /\ torn \in BOOLEAN
      /\ passed' = IF ok THEN passed ELSE passed \o Warning
      /\ filter' = filter /\ filter = [buf |-> Rest(sent), out |-> <<>>] /\ sent' = sent /\ torn' = torn
  BY DEF GitInv, GitExits
<1>2. K \in Text /\ W \in Text BY <1>1, AllParts, KeptType, WarningIsText, TextJoins
<1>3. passed' = passed \o W BY <1>1, TextJoins
<1>4. passed' \in Text BY <1>1, <1>2, <1>3, TextJoins
<1>5. ASSUME ~torn PROVE WholeLinesPassed'
  <2>1. passed = K \o <<>> BY <1>1, <1>5, PassedSoFar
  <2>2. passed' = K \o W \o <<>>
    <3> HIDE DEF K, W
    <3> QED BY <1>2, <1>3, <2>1, TextJoins
  <2>3. passed' = KeptLines(Whole(sent')) \o (IF warned' THEN Warning ELSE <<>>)
                    \o (IF git' = "closed" /\ Rest(sent') # <<>> THEN KeptLines(<<Rest(sent')>>) ELSE <<>>)
    BY <1>1, <2>2
  <2> QED BY <1>1, <2>3, FinishedIs, UnfinishedIs DEF WholeLinesPassed
<1> QED BY <1>1, <1>4, <1>5 DEF GitInv, OutputLinesAreWhole

LEMMA CloseFilterKeeps ==
  ASSUME GitInv, CloseFilter
  PROVE  GitInv'
<1> DEFINE K == KeptLines(Whole(sent))
           W == IF warned THEN Warning ELSE <<>>
           E == IF Rest(sent) # <<>> THEN KeptLines(<<Rest(sent)>>) ELSE <<>>
           w == Scan!Flush("git", filter)
<1>1. /\ sent \in Text /\ passed \in Text /\ git = "exited" /\ git' = "closed"
      /\ warned \in BOOLEAN /\ warned' = warned /\ torn \in BOOLEAN
      /\ passed' = passed \o Together(w.out)
      /\ filter = [buf |-> Rest(sent), out |-> <<>>] /\ sent' = sent /\ torn' = torn
  BY DEF GitInv, CloseFilter
<1>2. PICK out \in Seq(Text) :
        /\ w = [buf |-> <<>>, out |-> out]
        /\ Together(out) = IF Rest(sent) = <<>> THEN <<>> ELSE KeptLines(<<Rest(sent)>>)
  BY <1>1, FilterFlush
<1> HIDE DEF w
<1>3. passed' = passed \o E BY <1>1, <1>2
<1>4. Together(out) \in Text
  <2>1. <<>> \in Text BY DEF Text
  <2> QED BY <2>1, TogetherAppend
<1>5. passed' \in Text BY <1>1, <1>2, <1>3, <1>4, TextJoins
<1>6. ASSUME ~torn PROVE WholeLinesPassed'
  <2>1. passed = K \o W BY <1>1, <1>6, PassedSoFar
  <2>2. passed' = KeptLines(Whole(sent')) \o (IF warned' THEN Warning ELSE <<>>)
                    \o (IF git' = "closed" /\ Rest(sent') # <<>> THEN KeptLines(<<Rest(sent')>>) ELSE <<>>)
    BY <1>1, <1>3, <2>1
  <2> QED BY <1>1, <2>2, FinishedIs, UnfinishedIs DEF WholeLinesPassed
<1> QED BY <1>1, <1>5, <1>6 DEF GitInv, OutputLinesAreWhole

LEMMA GitKeeps == GitInv /\ [GitNext]_gitVars => GitInv'
<1> SUFFICES ASSUME GitInv, [GitNext]_gitVars PROVE GitInv'
  OBVIOUS
<1>1. CASE \E p \in GitChunks : GitWrites(p) BY <1>1, GitWritesKeeps
<1>2. CASE \E ok \in BOOLEAN : GitExits(ok) BY <1>2, GitExitsKeeps
<1>3. CASE CloseFilter BY <1>3, CloseFilterKeeps
<1>4. CASE UNCHANGED gitVars
  BY <1>4 DEF GitInv, OutputLinesAreWhole, WholeLinesPassed, gitVars
<1> QED BY <1>1, <1>2, <1>3, <1>4 DEF GitNext

\* The reporter is given the lines of git that are no progress, each with its end,
\* and a warning on a line of its own, for all that git may print and all the ways it
\* may come in chunks that do not tear a line (filterGitNoiseWriter in source.go,
\* ScanWriter.Write and Flush in xbufio.go).
THEOREM KeptLinesPassed == GitSpec => []OutputLinesAreWhole
<1>1. GitInv => OutputLinesAreWhole BY DEF GitInv
<1> QED BY <1>1, GitStarts, GitKeeps, PTL DEF GitSpec

-----------------------------------------------------------------------------
(* The invariant of the reporters.                                         *)

shownAfter(k, lines, line) == AddShown(lines, line)
ByLine == INSTANCE FoldFacts WITH op <- shownAfter
readAfter(k, s, m) == ReadMark(s, m)
ByMark == INSTANCE FoldFacts WITH op <- readAfter

\* The lines that are shown of these; the steps of a log.
ShownOf(lines) == FoldLeft(AddShown, <<>>, lines)
Marks(marks) == FoldLeft(ReadMark, <<>>, marks)

Mark == [mark : {"step", "ok", "fail"}] \union [mark : {"detail"}, detail : Details]
StepState == [status : {"running", "ok", "fail"}, detail : Details \union {""}]
Message ==
  [msg : {"step", "quit"}] \union [msg : {"detail"}, detail : Details]
    \union [msg : {"line"}, line : Text] \union [msg : {"done"}, ok : BOOLEAN]

ReporterTypeOK ==
  /\ builder \in {"between", "running", "failed", "closing", "closed"}
  /\ again \in BOOLEAN /\ canceled \in BOOLEAN /\ logRunning \in BOOLEAN /\ failed \in BOOLEAN
  /\ calls \in Nat
  /\ outbox \in Seq(Message)
  /\ log \in Seq(Mark)
  /\ buf \in [buf : Text, out : {<<>>}]
  /\ stepLines \in Seq(Text) /\ failedLines \in Seq(Text) \union {NoSnapshot} /\ dump \in Seq(Text)
  /\ program \in {"up", "quitting", "exited", "canceled", "over"}
  /\ steps \in Seq(StepState)
  /\ tail \in Seq(Text) /\ text \in Text

\* The plain reporter has a step, and the steps of the log end with one that runs,
\* while the builder runs one.
IsRunning(s) == s # <<>> /\ Last(s).status = "running"
PlainInv ==
  /\ logRunning <=> builder = "running"
  /\ logRunning <=> IsRunning(Marks(log))

\* A program that is up shows the steps of the log, and the last of the lines, but
\* for the messages that it has yet to take.
Draw(s, m) ==
  CASE m.msg = "step" ->
         Append(IF IsRunning(s) THEN [s EXCEPT ![Len(s)].status = "ok"] ELSE s,
                [status |-> "running", detail |-> ""])
    [] m.msg = "detail" /\ IsRunning(s) -> [s EXCEPT ![Len(s)].detail = m.detail]
    [] m.msg = "done" /\ IsRunning(s) ->
         [s EXCEPT ![Len(s)].status = IF m.ok THEN "ok" ELSE "fail"]
    [] OTHER -> s

StepPending ==
  /\ outbox = <<[msg |-> "step"]>>
  /\ Draw(steps, Head(outbox)) = Marks(log) /\ Whole(text) = <<>>
OtherPending ==
  \E m \in Message :
    /\ outbox = <<m>> /\ m.msg \in {"detail", "done", "quit"}
    /\ Draw(steps, m) = Marks(log) /\ tail = LastOf(TailLines, ShownOf(Whole(text)))
LinesPending ==
  /\ \A i \in DOMAIN outbox : outbox[i].msg = "line"
  /\ steps = Marks(log)
  /\ \E seen \in Seq(Text) :
       /\ Whole(text) = seen \o [i \in DOMAIN outbox |-> outbox[i].line]
       /\ tail = LastOf(TailLines, ShownOf(seen))
ScreenInv == program \in {"up", "quitting"} => StepPending \/ OtherPending \/ LinesPending

\* The terminal reporter has what is unfinished of the output, and of its lines the
\* last; once the build has failed it has the end of them all as it was then.
Ended(t) == IF Rest(t) = <<>> THEN <<>> ELSE <<Rest(t)>>
Kept == stepLines \o Ended(text)
OutputInv ==
  /\ buf.buf = IF failed \/ builder = "closed" THEN <<>> ELSE Rest(text)
  /\ builder # "closed" => stepLines = LastOf(StepLineCap, Whole(text))
  /\ builder \in {"between", "running"} => ~failed
  /\ builder = "failed" => failed
  /\ [mark |-> "fail"] \in Range(log) <=> failed
  /\ ~failed => failedLines = NoSnapshot
  /\ failed /\ builder # "closed" => failedLines = IF Kept = <<>> THEN NoSnapshot ELSE Kept

ReporterInv == ReporterTypeOK /\ PlainInv /\ ScreenInv /\ OutputInv /\ DumpIsTheFailure

-----------------------------------------------------------------------------
(* What is shown, and the steps of a log.                                  *)

LEMMA ShownEmpty == ShownOf(<<>>) = <<>>
<1>1. \A lines : ShownOf(lines) = ByLine!Fold(0, <<>>, lines)
  BY DEF ShownOf, FoldLeft, MapThenFoldSet, Max, shownAfter,
         ByLine!Fold, ByLine!FoldLeft, ByLine!MapThenFoldSet, ByLine!Max
<1> QED BY <1>1, ByLine!FoldEmpty

LEMMA ShownAppend ==
  ASSUME NEW lines \in Seq(Text), NEW line \in Text
  PROVE  /\ ShownOf(lines) \in Seq(Text)
         /\ ShownOf(Append(lines, line)) = AddShown(ShownOf(lines), line)
<1>1. \A ls : ShownOf(ls) = ByLine!Fold(0, <<>>, ls)
  BY DEF ShownOf, FoldLeft, MapThenFoldSet, Max, shownAfter,
         ByLine!Fold, ByLine!FoldLeft, ByLine!MapThenFoldSet, ByLine!Max
<1>2. ByLine!Fold(0, <<>>, lines) \in Seq(Text)
  <2>1. \A v \in Seq(Text) : \A x \in Text : shownAfter(0, v, x) \in Seq(Text)
    BY DEF shownAfter, AddShown
  <2>2. <<>> \in Seq(Text) OBVIOUS
  <2> QED BY <2>1, <2>2, ByLine!FoldInvariant
<1>3. ByLine!Fold(0, <<>>, Append(lines, line)) = shownAfter(0, ByLine!Fold(0, <<>>, lines), line)
  BY ByLine!FoldAppend
<1> QED BY <1>1, <1>2, <1>3 DEF shownAfter

LEMMA SameLength ==
  ASSUME NEW S, NEW s \in Seq(S), NEW t, t = [i \in DOMAIN s |-> t[i]], \A i \in DOMAIN s : t[i] \in S
  PROVE  t \in Seq(S) /\ Len(t) = Len(s)
<1> DEFINE n == Len(s)
<1>1. n \in Nat /\ DOMAIN s = 1..n OBVIOUS
<1> HIDE DEF n
<1>2. t = [i \in 1..n |-> t[i]] /\ \A i \in 1..n : t[i] \in S BY <1>1
<1>3. [i \in 1..n |-> t[i]] \in Seq(S) /\ Len([i \in 1..n |-> t[i]]) = n BY <1>1, <1>2
<1> QED BY <1>2, <1>3 DEF n

LEMMA ReadMarkType ==
  ASSUME NEW s \in Seq(StepState), NEW m \in Mark
  PROVE  ReadMark(s, m) \in Seq(StepState)
<1>1. CASE m.mark = "step"
  <2> DEFINE r == [status |-> "running", detail |-> ""]
  <2>1. r \in StepState BY DEF StepState
  <2>2. ReadMark(s, m) = Append(s, r) BY <1>1 DEF ReadMark
  <2> HIDE DEF r
  <2> QED BY <2>1, <2>2
<1> DEFINE n == Len(s)
<1>2. \A i \in DOMAIN s : s[i] \in StepState OBVIOUS
<1>3. CASE m.mark = "detail"
  <2> DEFINE t == [s EXCEPT ![n].detail = m.detail]
  <2>1. m.detail \in Details BY <1>3 DEF Mark
  <2>2. ReadMark(s, m) = t BY <1>3 DEF ReadMark
  <2>3. t = [i \in DOMAIN s |-> t[i]] OBVIOUS
  <2>4. \A i \in DOMAIN s : t[i] \in StepState BY <1>2, <2>1 DEF StepState
  <2> HIDE DEF t
  <2> QED BY <2>2, <2>3, <2>4, SameLength
<1>4. CASE m.mark \in {"ok", "fail"}
  <2> DEFINE t == [s EXCEPT ![n].status = m.mark]
  <2>2. ReadMark(s, m) = t BY <1>4 DEF ReadMark
  <2>3. t = [i \in DOMAIN s |-> t[i]] OBVIOUS
  <2>4. \A i \in DOMAIN s : t[i] \in StepState BY <1>2, <1>4 DEF StepState
  <2> HIDE DEF t
  <2> QED BY <2>2, <2>3, <2>4, SameLength
<1> QED BY <1>1, <1>3, <1>4 DEF Mark

LEMMA MarksEmpty == Marks(<<>>) = <<>>
<1>1. \A marks : Marks(marks) = ByMark!Fold(0, <<>>, marks)
  BY DEF Marks, FoldLeft, MapThenFoldSet, Max, readAfter,
         ByMark!Fold, ByMark!FoldLeft, ByMark!MapThenFoldSet, ByMark!Max
<1> QED BY <1>1, ByMark!FoldEmpty

LEMMA MarksAppend ==
  ASSUME NEW marks \in Seq(Mark), NEW m \in Mark
  PROVE  /\ Marks(marks) \in Seq(StepState)
         /\ Marks(Append(marks, m)) = ReadMark(Marks(marks), m)
<1>1. \A ms : Marks(ms) = ByMark!Fold(0, <<>>, ms)
  BY DEF Marks, FoldLeft, MapThenFoldSet, Max, readAfter,
         ByMark!Fold, ByMark!FoldLeft, ByMark!MapThenFoldSet, ByMark!Max
<1>2. ByMark!Fold(0, <<>>, marks) \in Seq(StepState)
  <2>1. \A v \in Seq(StepState) : \A x \in Mark : readAfter(0, v, x) \in Seq(StepState)
    BY ReadMarkType DEF readAfter
  <2>2. <<>> \in Seq(StepState) OBVIOUS
  <2> QED BY <2>1, <2>2, ByMark!FoldInvariant
<1>3. ByMark!Fold(0, <<>>, Append(marks, m)) = readAfter(0, ByMark!Fold(0, <<>>, marks), m)
  BY ByMark!FoldAppend
<1> QED BY <1>1, <1>2, <1>3 DEF readAfter

\* The fields of the step that s ends with.
LEMMA LastField ==
  ASSUME NEW s \in Seq(StepState), s # <<>>, NEW v
  PROVE  /\ [s EXCEPT ![Len(s)].status = v] # <<>>
         /\ Last([s EXCEPT ![Len(s)].status = v]).status = v
         /\ [s EXCEPT ![Len(s)].detail = v] # <<>>
         /\ Last([s EXCEPT ![Len(s)].detail = v]).status = Last(s).status
<1> DEFINE n == Len(s)
           a == [s EXCEPT ![n].status = v]
           b == [s EXCEPT ![n].detail = v]
<1>1. n \in 1..n /\ DOMAIN s = 1..n /\ s[n] \in StepState OBVIOUS
<1>2. DOMAIN a = 1..n /\ DOMAIN b = 1..n BY <1>1
<1>3. Len(a) = n /\ Len(b) = n BY <1>1, <1>2
<1>4. a[n].status = v /\ b[n].status = s[n].status BY <1>1 DEF StepState
<1>5. a # <<>> /\ b # <<>> BY <1>1, <1>2
<1> QED BY <1>3, <1>4, <1>5 DEF Last

LEMMA UpdateDraws ==
  ASSUME NEW m, Update(m) PROVE steps' = Draw(steps, m)
BY DEF Update, Draw, Running, SetLast, IsRunning

\* What a message changes: a step ends none that runs, as there is none; the others
\* do what their marks in the log say.
LEMMA DrawIs ==
  ASSUME NEW s, NEW m
  PROVE  /\ m.msg = "step" /\ ~IsRunning(s) =>
              Draw(s, m) = Append(s, [status |-> "running", detail |-> ""])
         /\ m.msg = "detail" /\ IsRunning(s) => Draw(s, m) = [s EXCEPT ![Len(s)].detail = m.detail]
         /\ m.msg = "done" /\ IsRunning(s) =>
              Draw(s, m) = [s EXCEPT ![Len(s)].status = IF m.ok THEN "ok" ELSE "fail"]
         /\ m.msg = "done" /\ ~IsRunning(s) => Draw(s, m) = s
         /\ m.msg \in {"quit", "line"} => Draw(s, m) = s
<1>1. m.msg = "step" /\ ~IsRunning(s) => Draw(s, m) = Append(s, [status |-> "running", detail |-> ""])
  BY DEF Draw
<1>2. m.msg = "detail" /\ IsRunning(s) => Draw(s, m) = [s EXCEPT ![Len(s)].detail = m.detail]
  BY DEF Draw
<1>3. m.msg = "done" /\ IsRunning(s) =>
        Draw(s, m) = [s EXCEPT ![Len(s)].status = IF m.ok THEN "ok" ELSE "fail"]
  BY DEF Draw
<1>4. m.msg = "done" /\ ~IsRunning(s) => Draw(s, m) = s BY DEF Draw
<1>5. m.msg \in {"quit", "line"} => Draw(s, m) = s BY DEF Draw
<1> QED BY <1>1, <1>2, <1>3, <1>4, <1>5

LEMMA RangeAppend ==
  ASSUME NEW S, NEW s \in Seq(S), NEW x \in S
  PROVE  Range(Append(s, x)) = Range(s) \union {x}
<1> DEFINE t == Append(s, x)
           n == Len(s)
<1>1. /\ n \in Nat /\ DOMAIN s = 1..n /\ DOMAIN t = 1..(n + 1) /\ t[n + 1] = x
      /\ \A i \in 1..n : t[i] = s[i]
  OBVIOUS
<1> HIDE DEF t, n
<1>2. \A i \in 1..(n + 1) : i \in 1..n \/ i = n + 1 BY <1>1
<1>3. n + 1 \in 1..(n + 1) /\ 1..n \subseteq 1..(n + 1) BY <1>1
<1>4. Range(t) = Range(s) \union {x} BY <1>1, <1>2, <1>3 DEF Range
<1> QED BY <1>4 DEF t

-----------------------------------------------------------------------------
(* The calls of the builder keep the invariant.                            *)

\* A program that has taken everything shows all there is.
LEMMA FreeScreen ==
  ASSUME ReporterInv, Free, program \in {"up", "quitting"}
  PROVE  steps = Marks(log) /\ tail = LastOf(TailLines, ShownOf(Whole(text)))
<1>1. outbox = <<>> /\ Whole(text) \in Seq(Text)
  BY AllParts DEF Free, ReporterInv, ReporterTypeOK
<1>2. LinesPending
  <2>1. \A m : <<>> # <<m>> OBVIOUS
  <2> QED BY <1>1, <2>1 DEF ReporterInv, ScreenInv, StepPending, OtherPending
<1>3. PICK seen \in Seq(Text) :
        /\ Whole(text) = seen \o [i \in DOMAIN outbox |-> outbox[i].line]
        /\ tail = LastOf(TailLines, ShownOf(seen))
  BY <1>2 DEF LinesPending
<1>4. [i \in DOMAIN outbox |-> outbox[i].line] = <<>> BY <1>1
<1>5. seen \o <<>> = seen OBVIOUS
<1> QED BY <1>2, <1>3, <1>4, <1>5 DEF LinesPending

LEMMA StepKeeps ==
  ASSUME ReporterInv, Step PROVE ReporterInv'
<1> DEFINE m == [mark |-> "step"]
           r == [status |-> "running", detail |-> ""]
<1>1. /\ builder = "between" /\ outbox = <<>> /\ ~failed /\ ~logRunning
      /\ text \in Text /\ log \in Seq(Mark) /\ Marks(log) \in Seq(StepState) /\ ~IsRunning(Marks(log))
  <2>1. builder = "between" /\ outbox = <<>> BY DEF Step, Free
  <2>2. m \in Mark BY DEF Mark
  <2> QED BY <2>1, <2>2, MarksAppend DEF ReporterInv, ReporterTypeOK, PlainInv, OutputInv
<1>2. m \in Mark /\ log' = Append(log, m)
  <2>1. finish(TRUE) = <<>> BY <1>1 DEF finish
  <2>2. log \o <<>> \o <<m>> = Append(log, m) BY <1>1
  <2>3. log' = log \o finish(TRUE) \o <<m>> BY DEF Step
  <2> QED BY <2>1, <2>2, <2>3 DEF Mark
<1> HIDE DEF m
<1>3. /\ Marks(log') = Append(Marks(log), r) /\ IsRunning(Marks(log')) /\ log' \in Seq(Mark)
  <2>1. Marks(log') = Append(Marks(log), r) BY <1>1, <1>2, MarksAppend DEF ReadMark, m
  <2>2. r \in StepState BY DEF StepState
  <2>3. r.status = "running" OBVIOUS
  <2>4. log' \in Seq(Mark) BY <1>1, <1>2
  <2> HIDE DEF r
  <2> QED BY <1>1, <2>1, <2>2, <2>3, <2>4, PartsOf DEF IsRunning
<1>4. text' = Rest(text) /\ text' \in Text /\ Whole(text') = <<>> /\ Rest(text') = Rest(text)
  BY <1>1, UnfinishedIs, RestAgain, AllParts DEF Step
<1>5. ReporterTypeOK'
  <2>1. [msg |-> "step"] \in Message BY DEF Message
  <2>2. outbox' \in Seq(Message) BY <2>1 DEF Step
  <2>3. stepLines' \in Seq(Text) BY DEF Step
  <2>4. builder' = "running" /\ logRunning' = TRUE BY DEF Step
  <2>5. UNCHANGED <<again, calls, canceled, buf, failed, failedLines, dump, programVars>> BY DEF Step
  <2> QED BY <1>3, <1>4, <2>2, <2>3, <2>4, <2>5 DEF ReporterInv, ReporterTypeOK, programVars
<1>6. PlainInv' BY <1>3 DEF PlainInv, Step
<1>7. ScreenInv'
  <2> SUFFICES ASSUME program' \in {"up", "quitting"} PROVE StepPending'
    BY DEF ScreenInv
  <2>1. program \in {"up", "quitting"} /\ steps' = steps BY DEF Step, programVars
  <2>2. steps' = Marks(log) BY <2>1, FreeScreen DEF Step
  <2>3. outbox' = <<[msg |-> "step"]>> /\ Head(outbox') = [msg |-> "step"] BY DEF Step
  <2>4. Draw(steps', Head(outbox')) = Append(steps', r)
    <3>1. Head(outbox').msg = "step" BY <2>3
    <3> QED BY <1>1, <2>2, <3>1, DrawIs
  <2> QED BY <1>3, <1>4, <2>2, <2>3, <2>4 DEF StepPending
<1>8. OutputInv'
  <2>1. Range(log') = Range(log) \union {m} BY <1>1, <1>2, RangeAppend
  <2>2. m # [mark |-> "fail"] BY DEF m
  <2>3. stepLines' = <<>> /\ builder' = "running" BY DEF Step
  <2>4. buf' = buf /\ failed' = failed /\ failedLines' = failedLines BY DEF Step
  <2>5. LastOf(StepLineCap, <<>>) = <<>> BY LastOfEmpty, ReporterAssumption
  <2>6. buf.buf = Rest(text) /\ failedLines = NoSnapshot /\ [mark |-> "fail"] \notin Range(log)
    BY <1>1 DEF ReporterInv, OutputInv
  <2> QED BY <1>1, <1>4, <2>1, <2>2, <2>3, <2>4, <2>5, <2>6 DEF OutputInv
<1>9. DumpIsTheFailure' BY DEF DumpIsTheFailure, Step
<1> QED BY <1>5, <1>6, <1>7, <1>8, <1>9 DEF ReporterInv

LEMMA DetailKeeps ==
  ASSUME ReporterInv, NEW d \in Details, Detail(d) PROVE ReporterInv'
<1> DEFINE m == [mark |-> "detail", detail |-> d]
           q == [msg |-> "detail", detail |-> d]
<1>1. /\ builder = "running" /\ outbox = <<>> /\ logRunning
      /\ text \in Text /\ log \in Seq(Mark) /\ IsRunning(Marks(log))
  BY DEF Detail, Free, ReporterInv, ReporterTypeOK, PlainInv
<1>2. m \in Mark /\ q \in Message BY DEF Mark, Message
<1>3. m.mark = "detail" /\ m.detail = d /\ q.msg = "detail" /\ q.detail = d /\ m # [mark |-> "fail"]
  <2>1. DOMAIN m # DOMAIN [mark |-> "fail"] OBVIOUS
  <2> QED BY <2>1
<1>4. /\ log' = Append(log, m) /\ outbox' = <<q>> /\ calls' = calls + 1
      /\ builder' = builder /\ logRunning' = logRunning
      /\ UNCHANGED <<again, canceled, buf, stepLines, failed, failedLines, dump, program, steps, tail, text>>
  BY DEF Detail, ttyVars, programVars
<1> HIDE DEF m, q
<1> DEFINE s == Marks(log)
<1>5. /\ Marks(log') = [s EXCEPT ![Len(s)].detail = d]
      /\ s \in Seq(StepState) /\ s # <<>> /\ Last(s).status = "running"
  <2>1. Marks(log') = ReadMark(s, m) /\ s \in Seq(StepState) BY <1>1, <1>2, <1>4, MarksAppend
  <2>2. ReadMark(s, m) = [s EXCEPT ![Len(s)].detail = d] BY <1>3 DEF ReadMark
  <2> QED BY <1>1, <2>1, <2>2 DEF IsRunning
<1>6. IsRunning(Marks(log'))
  <2> HIDE DEF s
  <2> QED BY <1>5, LastField DEF IsRunning
<1>7. ReporterTypeOK'
  <2>1. log' \in Seq(Mark) /\ outbox' \in Seq(Message) BY <1>1, <1>2, <1>4
  <2>2. calls' \in Nat BY <1>4 DEF ReporterInv, ReporterTypeOK
  <2> QED BY <1>4, <2>1, <2>2 DEF ReporterInv, ReporterTypeOK
<1>8. PlainInv' BY <1>1, <1>4, <1>6 DEF PlainInv
<1>9. ScreenInv'
  <2> SUFFICES ASSUME program' \in {"up", "quitting"} PROVE OtherPending'
    BY DEF ScreenInv
  <2>1. steps = s /\ tail = LastOf(TailLines, ShownOf(Whole(text)))
    BY <1>4, FreeScreen DEF Detail
  <2>2. Draw(steps, q) = Marks(log')
    <3>1. IsRunning(steps) BY <1>1, <2>1
    <3> HIDE DEF s
    <3>2. Draw(steps, q) = [steps EXCEPT ![Len(steps)].detail = q.detail]
      BY <1>3, <3>1, DrawIs
    <3> QED BY <1>3, <1>5, <2>1, <3>2
  <2>3. /\ outbox' = <<q>> /\ q \in Message /\ q.msg \in {"detail", "done", "quit"}
        /\ Draw(steps', q) = Marks(log') /\ tail' = LastOf(TailLines, ShownOf(Whole(text')))
    BY <1>2, <1>3, <1>4, <2>1, <2>2
  <2> QED BY <2>3 DEF OtherPending
<1>10. OutputInv'
  <2>1. Range(log') = Range(log) \union {m} BY <1>1, <1>2, <1>4, RangeAppend
  <2> QED BY <1>3, <1>4, <2>1 DEF OutputInv, ReporterInv, Kept
<1>11. DumpIsTheFailure' BY <1>1, <1>4 DEF DumpIsTheFailure
<1> QED BY <1>7, <1>8, <1>9, <1>10, <1>11 DEF ReporterInv

\* What a chunk changes, in terms of the lines of the text.
LEMMA WriteEffect ==
  ASSUME ReporterInv, NEW p \in Outputs, Write(p)
  PROVE  /\ text' = text \o p /\ text' \in Text
         /\ \E more \in Seq(Text) :
              /\ Whole(text') = Whole(text) \o more
              /\ buf' = [buf |-> Rest(text'), out |-> <<>>]
              /\ stepLines' = LastOf(StepLineCap, stepLines \o more)
              /\ outbox' = [i \in DOMAIN more |-> [msg |-> "line", line |-> more[i]]]
<1> DEFINE w == Scan!Write("lines", buf, p)
<1>1. p \in Text BY ReporterAssumption DEF Text, Atoms
<1>2. text \in Text /\ buf = [buf |-> Rest(text), out |-> <<>>]
  <2>1. text \in Text /\ buf \in [buf : Text, out : {<<>>}] BY DEF ReporterInv, ReporterTypeOK
  <2>2. buf.buf = Rest(text) BY DEF ReporterInv, OutputInv, Write
  <2> QED BY <2>1, <2>2
<1>3. PICK more \in Seq(Text) :
        /\ Scan!Write("lines", [buf |-> Rest(text), out |-> <<>>], p) =
             [buf |-> Rest(text \o p), out |-> <<>> \o more]
        /\ Whole(text \o p) = Whole(text) \o more
  <2>1. <<>> \in Seq(Text) OBVIOUS
  <2> QED BY <1>1, <1>2, <2>1, WriteCuts
<1>4. w = [buf |-> Rest(text \o p), out |-> more]
  <2>1. <<>> \o more = more OBVIOUS
  <2> QED BY <1>2, <1>3, <2>1
<1>5. /\ buf' = [w EXCEPT !.out = <<>>]
      /\ stepLines' = LastOf(StepLineCap, stepLines \o w.out)
      /\ outbox' = [i \in DOMAIN w.out |-> [msg |-> "line", line |-> w.out[i]]]
      /\ text' = text \o p
  BY DEF Write, Capped
<1> HIDE DEF w
<1>6. w.out = more /\ [w EXCEPT !.out = <<>>] = [buf |-> Rest(text \o p), out |-> <<>>] BY <1>4
<1>7. text \o p \in Text BY <1>1, <1>2 DEF Text
<1> QED BY <1>3, <1>5, <1>6, <1>7

LEMMA WriteKeeps ==
  ASSUME ReporterInv, NEW p \in Outputs, Write(p) PROVE ReporterInv'
<1>1. PICK more \in Seq(Text) :
        /\ Whole(text') = Whole(text) \o more
        /\ buf' = [buf |-> Rest(text'), out |-> <<>>]
        /\ stepLines' = LastOf(StepLineCap, stepLines \o more)
        /\ outbox' = [i \in DOMAIN more |-> [msg |-> "line", line |-> more[i]]]
  BY WriteEffect
<1>2. /\ text' \in Text /\ text \in Text /\ stepLines \in Seq(Text)
      /\ Whole(text) \in Seq(Text) /\ Rest(text') \in Text /\ StepLineCap \in Nat
  BY WriteEffect, AllParts, ReporterAssumption DEF ReporterInv, ReporterTypeOK
<1>3. builder = "running" /\ outbox = <<>> /\ calls' = calls + 1 /\ ~failed
  BY DEF Write, Free, ReporterInv, OutputInv
<1>4. /\ builder' = builder /\ logRunning' = logRunning /\ log' = log
      /\ UNCHANGED <<again, canceled, failed, failedLines, dump, program, steps, tail>>
  BY DEF Write, plainVars, programVars
<1>5. stepLines' \in Seq(Text) /\ stepLines' = LastOf(StepLineCap, Whole(text'))
  <2>1. stepLines = LastOf(StepLineCap, Whole(text)) BY <1>3 DEF ReporterInv, OutputInv
  <2>2. stepLines' = LastOf(StepLineCap, Whole(text) \o more)
    BY <1>1, <1>2, <2>1, LastOfLonger
  <2>3. stepLines \o more \in Seq(Text) BY <1>2
  <2> QED BY <1>1, <1>2, <2>2, <2>3, LastOfIs
<1>6. outbox' \in Seq(Message) /\ DOMAIN outbox' = DOMAIN more
  <2>1. \A i \in DOMAIN more : [msg |-> "line", line |-> more[i]] \in Message
    BY DEF Message
  <2>2. DOMAIN more = 1..Len(more) /\ Len(more) \in Nat OBVIOUS
  <2>3. [i \in 1..Len(more) |-> [msg |-> "line", line |-> more[i]]] \in Seq(Message)
    BY <2>1, <2>2
  <2> QED BY <1>1, <2>2, <2>3
<1>7. ReporterTypeOK'
  <2>1. calls' \in Nat BY <1>3 DEF ReporterInv, ReporterTypeOK
  <2>2. buf' \in [buf : Text, out : {<<>>}] BY <1>1, <1>2
  <2> QED BY <1>2, <1>4, <1>5, <1>6, <2>1, <2>2 DEF ReporterInv, ReporterTypeOK
<1>8. PlainInv' BY <1>4 DEF ReporterInv, PlainInv
<1>9. ScreenInv'
  <2> SUFFICES ASSUME program' \in {"up", "quitting"} PROVE LinesPending'
    BY DEF ScreenInv
  <2>1. steps = Marks(log) /\ tail = LastOf(TailLines, ShownOf(Whole(text)))
    BY <1>4, FreeScreen DEF Write
  <2>2. \A i \in DOMAIN outbox' : outbox'[i].msg = "line" BY <1>1
  <2>3. [i \in DOMAIN outbox' |-> outbox'[i].line] = more
    <3>1. \A i \in DOMAIN more : outbox'[i].line = more[i] BY <1>1
    <3>2. more = [i \in DOMAIN more |-> more[i]] OBVIOUS
    <3> QED BY <1>6, <3>1, <3>2
  <2>4. steps' = Marks(log') BY <1>4, <2>1
  <2>5. Whole(text') = Whole(text) \o [i \in DOMAIN outbox' |-> outbox'[i].line] BY <1>1, <2>3
  <2>6. tail' = LastOf(TailLines, ShownOf(Whole(text))) BY <1>4, <2>1
  <2> QED BY <1>2, <2>2, <2>4, <2>5, <2>6 DEF LinesPending
<1>10. OutputInv'
  <2>1. buf'.buf = Rest(text') BY <1>1
  <2> QED BY <1>3, <1>4, <1>5, <2>1 DEF OutputInv, ReporterInv
<1>11. DumpIsTheFailure' BY <1>3, <1>4 DEF DumpIsTheFailure
<1> QED BY <1>7, <1>8, <1>9, <1>10, <1>11 DEF ReporterInv

LEMMA FlushOne ==
  ASSUME NEW u
  PROVE  Scan!Flush("lines", [buf |-> u, out |-> <<>>]) =
           [buf |-> <<>>, out |-> IF u = <<>> THEN <<>> ELSE <<u>>]
<1>1. Append(<<>>, u) = <<u>> OBVIOUS
<1> QED BY <1>1 DEF Scan!Flush, Scan!Token

\* The snapshot of a step that fails has the last of its lines, and the unfinished
\* one.
LEMMA SnapshotIs ==
  ASSUME ReporterInv, ~failed, builder # "closed"
  PROVE  /\ Snapshot.buf = [buf |-> <<>>, out |-> <<>>]
         /\ Snapshot.lines = IF Kept = <<>> THEN NoSnapshot ELSE Kept
         /\ Kept \in Seq(Text)
<1> DEFINE w == Scan!Flush("lines", buf)
<1>1. buf = [buf |-> Rest(text), out |-> <<>>] /\ text \in Text /\ stepLines \in Seq(Text)
  <2>1. buf \in [buf : Text, out : {<<>>}] /\ text \in Text /\ stepLines \in Seq(Text)
    BY DEF ReporterInv, ReporterTypeOK
  <2>2. buf.buf = Rest(text) BY DEF ReporterInv, OutputInv
  <2> QED BY <2>1, <2>2
<1>2. w = [buf |-> <<>>, out |-> Ended(text)] BY <1>1, FlushOne DEF Ended
<1>3. Snapshot = [buf |-> [w EXCEPT !.out = <<>>],
                  lines |-> IF stepLines \o w.out = <<>> THEN NoSnapshot ELSE stepLines \o w.out]
  BY DEF Snapshot
<1> HIDE DEF w
<1>4. w.out = Ended(text) /\ [w EXCEPT !.out = <<>>] = [buf |-> <<>>, out |-> <<>>] BY <1>2
<1>5. Ended(text) \in Seq(Text) BY <1>1, AllParts DEF Ended
<1>6. Kept \in Seq(Text) BY <1>1, <1>5 DEF Kept
<1> QED BY <1>3, <1>4, <1>6 DEF Kept

LEMMA DoneKeeps ==
  ASSUME ReporterInv, NEW ok \in BOOLEAN, Done(ok) PROVE ReporterInv'
<1> DEFINE end == IF ok THEN "ok" ELSE "fail"
           m == [mark |-> end]
           q == [msg |-> "done", ok |-> ok]
           s == Marks(log)
<1>1. /\ outbox = <<>> /\ log \in Seq(Mark) /\ text \in Text
      /\ builder = "running" \/ builder = IF ok THEN "between" ELSE "failed"
  BY DEF Done, Free, ReporterInv, ReporterTypeOK
<1>2. m \in Mark /\ q \in Message /\ m.mark = end /\ q.msg = "done" /\ q.ok = ok
  <2>1. end \in {"ok", "fail"} OBVIOUS
  <2>2. m \in Mark BY <2>1 DEF Mark
  <2>3. q \in Message BY DEF Message
  <2> QED BY <2>2, <2>3
<1>3. /\ builder' = (IF ok THEN "between" ELSE "failed") /\ again' \in BOOLEAN
      /\ logRunning' = FALSE /\ outbox' = <<q>>
      /\ UNCHANGED <<calls, canceled, stepLines, dump, program, steps, tail, text>>
  BY DEF Done, programVars
<1>4. \/ builder = "running" /\ IsRunning(s) /\ log' = Append(log, m)
      \/ builder # "running" /\ ~IsRunning(s) /\ log' = log
  <2>1. log' = log \o finish(ok) BY DEF Done
  <2>2. (logRunning <=> builder = "running") /\ (logRunning <=> IsRunning(s))
    BY DEF ReporterInv, PlainInv
  <2>3. CASE builder = "running"
    <3>1. finish(ok) = <<m>> BY <2>2, <2>3 DEF finish
    <3>2. log \o <<m>> = Append(log, m) BY <1>1
    <3> QED BY <2>1, <2>2, <2>3, <3>1, <3>2
  <2>4. CASE builder # "running"
    <3>1. finish(ok) = <<>> BY <2>2, <2>4 DEF finish
    <3>2. log \o <<>> = log BY <1>1
    <3> QED BY <2>1, <2>2, <2>4, <3>1, <3>2
  <2> QED BY <2>3, <2>4
<1> HIDE DEF m, q
<1>5. s \in Seq(StepState) BY <1>1, <1>2, MarksAppend
<1>6. /\ Marks(log') = IF IsRunning(s) THEN [s EXCEPT ![Len(s)].status = end] ELSE s
      /\ ~IsRunning(Marks(log'))
  <2>1. CASE IsRunning(s)
    <3>1. Marks(log') = ReadMark(s, m) BY <1>1, <1>2, <1>4, <2>1, MarksAppend
    <3>2. ReadMark(s, m) = [s EXCEPT ![Len(s)].status = end] BY <1>2 DEF ReadMark
    <3> HIDE DEF s
    <3>3. s # <<>> BY <2>1 DEF IsRunning
    <3>4. Last([s EXCEPT ![Len(s)].status = end]).status = end BY <1>5, <3>3, LastField
    <3>5. end # "running" OBVIOUS
    <3> HIDE DEF end
    <3> QED BY <2>1, <3>1, <3>2, <3>4, <3>5 DEF IsRunning
  <2>2. CASE ~IsRunning(s) BY <1>4, <2>2
  <2> QED BY <2>1, <2>2
<1>7. \/ ok /\ failed' = failed /\ failedLines' = failedLines /\ buf' = buf /\ ~failed
      \/ /\ ~ok /\ ~failed /\ failed' = TRUE /\ buf' = [buf |-> <<>>, out |-> <<>>]
         /\ failedLines' = (IF Kept = <<>> THEN NoSnapshot ELSE Kept) /\ Kept \in Seq(Text)
      \/ ~ok /\ failed /\ builder = "failed" /\ failed' = failed /\ failedLines' = failedLines /\ buf' = buf
  <2>1. /\ IF ~ok /\ ~failed
           THEN failed' = TRUE /\ failedLines' = Snapshot.lines /\ buf' = Snapshot.buf
           ELSE UNCHANGED <<failed, failedLines, buf>>
        /\ builder \in {"between", "running"} => ~failed
        /\ failed \in BOOLEAN
    BY DEF Done, ReporterInv, OutputInv, ReporterTypeOK
  <2>2. ~failed => /\ Snapshot.buf = [buf |-> <<>>, out |-> <<>>]
                   /\ Snapshot.lines = IF Kept = <<>> THEN NoSnapshot ELSE Kept
                   /\ Kept \in Seq(Text)
    BY <1>1, SnapshotIs
  <2> QED BY <1>1, <2>1, <2>2
<1>8. ReporterTypeOK'
  <2>1. log' \in Seq(Mark) /\ outbox' \in Seq(Message)
    <3>1. outbox' \in Seq(Message) BY <1>2, <1>3
    <3>2. Append(log, m) \in Seq(Mark) BY <1>1, <1>2
    <3> QED BY <1>1, <1>4, <3>1, <3>2
  <2>2. buf' \in [buf : Text, out : {<<>>}]
    <3>1. buf \in [buf : Text, out : {<<>>}] BY DEF ReporterInv, ReporterTypeOK
    <3>2. <<>> \in Text BY DEF Text
    <3> QED BY <1>7, <3>1, <3>2
  <2>3. failed' \in BOOLEAN /\ failedLines' \in Seq(Text) \union {NoSnapshot}
    BY <1>7 DEF ReporterInv, ReporterTypeOK
  <2> QED BY <1>3, <2>1, <2>2, <2>3 DEF ReporterInv, ReporterTypeOK
<1>9. PlainInv' BY <1>3, <1>6 DEF PlainInv
<1>10. ScreenInv'
  <2> SUFFICES ASSUME program' \in {"up", "quitting"} PROVE OtherPending'
    BY DEF ScreenInv
  <2>1. steps = s /\ tail = LastOf(TailLines, ShownOf(Whole(text)))
    BY <1>3, FreeScreen DEF Done
  <2> HIDE DEF s
  <2>2. Draw(steps, q) = IF IsRunning(s) THEN [s EXCEPT ![Len(s)].status = end] ELSE s
    BY <1>2, <2>1, DrawIs
  <2>3. Draw(steps', q) = Marks(log') BY <1>3, <1>6, <2>2
  <2>4. /\ outbox' = <<q>> /\ q \in Message /\ q.msg \in {"detail", "done", "quit"}
        /\ tail' = LastOf(TailLines, ShownOf(Whole(text')))
    BY <1>2, <1>3, <2>1
  <2> QED BY <2>3, <2>4 DEF OtherPending
<1>11. OutputInv'
  <2> DEFINE longer == Append(log, m)
  <2>0. Range(longer) = Range(log) \union {m} BY <1>1, <1>2, RangeAppend
  <2>9. IF builder = "running" THEN log' = longer ELSE log' = log BY <1>4
  <2> HIDE DEF longer
  <2>1. log' = log \/ Range(log') = Range(log) \union {m} BY <2>0, <2>9
  <2>2. m = [mark |-> "fail"] <=> ~ok BY <1>2 DEF m
  <2>3. [mark |-> "fail"] \in Range(log') <=> failed'
    <3>1. [mark |-> "fail"] \in Range(log) <=> failed BY DEF ReporterInv, OutputInv
    <3>2. ~ok /\ ~failed => builder = "running" BY <1>1 DEF ReporterInv, OutputInv
    <3>3. builder = "running" => Range(log') = Range(log) \union {m} BY <2>0, <2>9
    <3> QED BY <1>7, <2>1, <2>2, <3>1, <3>2, <3>3
  <2>4. stepLines' = LastOf(StepLineCap, Whole(text')) BY <1>1, <1>3 DEF ReporterInv, OutputInv
  <2>5. Kept' = Kept BY <1>3 DEF Kept
  <2>6. buf'.buf = IF failed' THEN <<>> ELSE Rest(text')
    <3>1. buf.buf = IF failed THEN <<>> ELSE Rest(text) BY <1>1 DEF ReporterInv, OutputInv
    <3> QED BY <1>3, <1>7, <3>1
  <2>7. /\ ~failed' => failedLines' = NoSnapshot
        /\ failed' => failedLines' = IF Kept = <<>> THEN NoSnapshot ELSE Kept
    BY <1>7 DEF ReporterInv, OutputInv
  <2>8. (ok <=> ~failed') /\ builder' # "closed" BY <1>3, <1>7
  <2> QED BY <1>3, <2>3, <2>4, <2>5, <2>6, <2>7, <2>8 DEF OutputInv
<1>12. DumpIsTheFailure' BY <1>3 DEF DumpIsTheFailure
<1> QED BY <1>8, <1>9, <1>10, <1>11, <1>12 DEF ReporterInv

LEMMA CloseKeeps ==
  ASSUME ReporterInv, Close PROVE ReporterInv'
<1> DEFINE q == [msg |-> "quit"]
<1>1. /\ builder \in {"between", "failed"} /\ outbox = <<>> /\ builder' = "closing" /\ outbox' = <<q>>
      /\ UNCHANGED <<again, calls, canceled, log, logRunning, buf, stepLines, failed, failedLines,
                     dump, program, steps, tail, text>>
  BY DEF Close, Free, plainVars, ttyVars, programVars
<1>2. q \in Message /\ q.msg = "quit" BY DEF Message
<1> HIDE DEF q
<1>3. ReporterTypeOK'
  <2>1. outbox' \in Seq(Message) BY <1>1, <1>2
  <2> QED BY <1>1, <2>1 DEF ReporterInv, ReporterTypeOK
<1>4. PlainInv' BY <1>1 DEF ReporterInv, PlainInv
<1>5. ScreenInv'
  <2> SUFFICES ASSUME program' \in {"up", "quitting"} PROVE OtherPending'
    BY DEF ScreenInv
  <2>1. steps = Marks(log) /\ tail = LastOf(TailLines, ShownOf(Whole(text)))
    BY <1>1, FreeScreen DEF Close
  <2>2. Draw(steps, q) = steps BY <1>2, DrawIs
  <2>3. /\ outbox' = <<q>> /\ q \in Message /\ q.msg \in {"detail", "done", "quit"}
        /\ Draw(steps', q) = Marks(log') /\ tail' = LastOf(TailLines, ShownOf(Whole(text')))
    BY <1>1, <1>2, <2>1, <2>2
  <2> QED BY <2>3 DEF OtherPending
<1>6. OutputInv' BY <1>1 DEF OutputInv, ReporterInv, Kept
<1>7. DumpIsTheFailure' BY <1>1 DEF DumpIsTheFailure
<1> QED BY <1>3, <1>4, <1>5, <1>6, <1>7 DEF ReporterInv

LEMMA ClosedKeeps ==
  ASSUME ReporterInv, Closed PROVE ReporterInv'
<1> DEFINE rest == stepLines \o Scan!Flush("lines", buf).out
           lines == IF failed /\ failedLines = NoSnapshot THEN rest ELSE failedLines
           L == Scan!Lines(text)
<1>1. /\ builder = "closing" /\ builder' = "closed" /\ program' = "over" /\ outbox' = outbox
      /\ buf' = [buf |-> <<>>, out |-> <<>>] /\ stepLines' = rest /\ failedLines' = lines
      /\ dump' = (IF lines = NoSnapshot THEN <<>> ELSE LastOf(FailDumpLines, lines))
      /\ UNCHANGED <<again, calls, canceled, log, logRunning, failed, steps, tail, text>>
  BY DEF Closed, Scan!NewScanWriter, plainVars, programVars
<1>2. /\ text \in Text /\ stepLines \in Seq(Text) /\ stepLines = LastOf(StepLineCap, Whole(text))
      /\ buf = [buf |-> IF failed THEN <<>> ELSE Rest(text), out |-> <<>>]
  <2>1. buf \in [buf : Text, out : {<<>>}] BY DEF ReporterInv, ReporterTypeOK
  <2>2. buf.buf = IF failed THEN <<>> ELSE Rest(text) BY <1>1 DEF ReporterInv, OutputInv
  <2> QED BY <1>1, <2>1, <2>2 DEF ReporterInv, ReporterTypeOK, OutputInv
<1>3. /\ Whole(text) \in Seq(Text) /\ Rest(text) \in Text /\ <<>> \in Text /\ <<>> \in Seq(Text)
      /\ Ended(text) \in Seq(Text) /\ Kept \in Seq(Text)
  <2>1. Whole(text) \in Seq(Text) /\ Rest(text) \in Text /\ <<>> \in Text
    BY <1>2, AllParts DEF Text
  <2>2. Ended(text) \in Seq(Text) BY <2>1 DEF Ended
  <2> QED BY <1>2, <2>1, <2>2 DEF Kept
<1>4. rest = IF failed THEN stepLines ELSE Kept
  <2>1. CASE failed
    <3>1. Scan!Flush("lines", buf) = [buf |-> <<>>, out |-> <<>>] BY <1>2, <2>1, FlushOne
    <3>2. stepLines \o <<>> = stepLines BY <1>2
    <3>3. Scan!Flush("lines", buf).out = <<>> BY <3>1
    <3> QED BY <2>1, <3>2, <3>3
  <2>2. CASE ~failed
    <3>1. Scan!Flush("lines", buf) = [buf |-> <<>>, out |-> Ended(text)] BY <1>2, <2>2, FlushOne DEF Ended
    <3> QED BY <2>2, <3>1 DEF Kept
  <2> QED BY <2>1, <2>2
<1> HIDE DEF rest
<1>5. /\ ~failed => failedLines = NoSnapshot
      /\ failed => failedLines = IF Kept = <<>> THEN NoSnapshot ELSE Kept
      /\ [mark |-> "fail"] \in Range(log) <=> failed
      /\ builder # "closed"
  BY <1>1 DEF ReporterInv, OutputInv
<1>6. \A ls \in Seq(Text) : ls # NoSnapshot BY ReporterAssumption DEF Text, Atoms
<1>7. L = Whole(text) \o Ended(text)
  <2> DEFINE C == Whole(text)
             u == Rest(text)
  <2>1. L = IF u = <<>> THEN C ELSE Append(C, u) BY <1>2, LinesAre
  <2>2. C \in Seq(Text) /\ u \in Text /\ Ended(text) = IF u = <<>> THEN <<>> ELSE <<u>>
    BY <1>3 DEF Ended
  <2> HIDE DEF C, u, L
  <2>3. C \o <<>> = C /\ C \o <<u>> = Append(C, u) BY <2>2
  <2>4. L = C \o Ended(text) BY <2>1, <2>2, <2>3
  <2> QED BY <2>4 DEF C
<1>8. LastOf(FailDumpLines, Kept) = LastOf(FailDumpLines, L)
  BY <1>2, <1>3, <1>7, LastOfLonger, ReporterAssumption DEF Kept
<1>9. ~failed => lines = NoSnapshot
  BY <1>5
<1>10. failed => lines \in Seq(Text) /\ LastOf(FailDumpLines, lines) = LastOf(FailDumpLines, L)
  <2> SUFFICES ASSUME failed PROVE lines \in Seq(Text) /\ LastOf(FailDumpLines, lines) = LastOf(FailDumpLines, L)
    OBVIOUS
  <2>1. CASE Kept = <<>>
    <3>1. lines = stepLines BY <1>4, <1>5, <2>1
    <3>2. stepLines = <<>>
      <4> DEFINE a == stepLines
                 b == Ended(text)
      <4>1. a \in Seq(Text) /\ b \in Seq(Text) /\ a \o b = <<>> BY <1>2, <1>3, <2>1 DEF Kept
      <4> HIDE DEF a, b
      <4>2. Len(a \o b) = Len(a) + Len(b) /\ Len(<<>>) = 0 /\ Len(a) \in Nat /\ Len(b) \in Nat BY <4>1
      <4>3. Len(a) = 0 BY <4>1, <4>2
      <4>4. a = <<>> BY <4>1, <4>3
      <4> QED BY <4>4 DEF a
    <3> QED BY <1>2, <1>8, <2>1, <3>1, <3>2
  <2>2. CASE Kept # <<>>
    <3>1. failedLines = Kept /\ failedLines # NoSnapshot BY <1>3, <1>5, <1>6, <2>2
    <3> QED BY <1>3, <1>8, <3>1
  <2> QED BY <2>1, <2>2
<1>11. LastOf(FailDumpLines, L) \in Seq(Text)
  <2>1. L \in Seq(Text) BY <1>3, <1>7
  <2> QED BY <2>1, LastOfIs, ReporterAssumption
<1> HIDE DEF lines, L
<1>12. dump' = IF failed THEN LastOf(FailDumpLines, L) ELSE <<>>
  <2>1. CASE failed
    <3>1. lines # NoSnapshot BY <1>6, <1>10, <2>1
    <3> QED BY <1>1, <1>10, <2>1, <3>1
  <2>2. CASE ~failed BY <1>1, <1>9, <2>2
  <2> QED BY <2>1, <2>2
<1>13. ReporterTypeOK'
  <2>1. failedLines' \in Seq(Text) \union {NoSnapshot} BY <1>1, <1>9, <1>10
  <2>2. stepLines' \in Seq(Text) BY <1>1, <1>2, <1>3, <1>4
  <2>3. dump' \in Seq(Text) BY <1>3, <1>11, <1>12
  <2>4. buf' \in [buf : Text, out : {<<>>}] BY <1>1, <1>3
  <2> QED BY <1>1, <2>1, <2>2, <2>3, <2>4 DEF ReporterInv, ReporterTypeOK
<1>14. PlainInv' BY <1>1 DEF ReporterInv, PlainInv
<1>15. ScreenInv' BY <1>1 DEF ScreenInv
<1>16. OutputInv'
  <2>1. buf'.buf = <<>> BY <1>1
  <2> QED BY <1>1, <1>5, <1>9, <2>1 DEF OutputInv
<1>17. DumpIsTheFailure'
  BY <1>1, <1>5, <1>12 DEF DumpIsTheFailure, L
<1> QED BY <1>13, <1>14, <1>15, <1>16, <1>17 DEF ReporterInv

-----------------------------------------------------------------------------
(* The program keeps it.                                                   *)

\* What changes the program only keeps what says nothing of it.
LEMMA ProgramOnly ==
  ASSUME ReporterInv, ReporterTypeOK', ScreenInv',
         UNCHANGED <<builder, log, logRunning, buf, stepLines, failed, failedLines, dump, text>>
  PROVE  ReporterInv'
<1>1. PlainInv' BY DEF ReporterInv, PlainInv
<1>2. OutputInv' BY DEF ReporterInv, OutputInv, Kept
<1>3. DumpIsTheFailure' BY DEF ReporterInv, DumpIsTheFailure
<1> QED BY <1>1, <1>2, <1>3 DEF ReporterInv

LEMMA DrawType ==
  ASSUME NEW s \in Seq(StepState), NEW m \in Message PROVE Draw(s, m) \in Seq(StepState)
<1> DEFINE n == Len(s)
           r == [status |-> "running", detail |-> ""]
           x == IF m.ok THEN "ok" ELSE "fail"
           a == [s EXCEPT ![n].status = "ok"]
           b == [s EXCEPT ![n].detail = m.detail]
           c == [s EXCEPT ![n].status = x]
<1>1. r \in StepState BY DEF StepState
<1>2. \A i \in DOMAIN s : s[i] \in StepState OBVIOUS
<1>3. a \in Seq(StepState)
  <2>1. a = [i \in DOMAIN s |-> a[i]] /\ \A i \in DOMAIN s : a[i] \in StepState BY <1>2 DEF StepState
  <2> HIDE DEF a
  <2> QED BY <2>1, SameLength
<1>4. m.msg = "detail" => b \in Seq(StepState)
  <2>1. m.msg = "detail" => m.detail \in Details BY DEF Message
  <2>2. b = [i \in DOMAIN s |-> b[i]] OBVIOUS
  <2>3. m.msg = "detail" => \A i \in DOMAIN s : b[i] \in StepState BY <1>2, <2>1 DEF StepState
  <2> HIDE DEF b
  <2> QED BY <2>2, <2>3, SameLength
<1>5. c \in Seq(StepState)
  <2>1. x \in {"ok", "fail"} OBVIOUS
  <2> HIDE DEF x
  <2>2. c = [i \in DOMAIN s |-> c[i]] /\ \A i \in DOMAIN s : c[i] \in StepState BY <1>2, <2>1 DEF StepState
  <2> HIDE DEF c
  <2> QED BY <2>2, SameLength
<1>6. CASE m.msg = "detail" /\ IsRunning(s)
  <2>1. Draw(s, m) = b BY <1>6, DrawIs
  <2> QED BY <1>4, <1>6, <2>1
<1>7. CASE m.msg = "done" /\ IsRunning(s)
  <2>1. Draw(s, m) = c BY <1>7, DrawIs
  <2> QED BY <1>5, <2>1
<1>8. CASE m.msg = "step"
  <2>1. Draw(s, m) = IF IsRunning(s) THEN Append(a, r) ELSE Append(s, r) BY <1>8 DEF Draw
  <2> HIDE DEF a, r
  <2> QED BY <1>1, <1>3, <2>1
<1>9. CASE ~IsRunning(s) /\ m.msg # "step"
  <2>1. Draw(s, m) = s BY <1>9 DEF Draw
  <2> QED BY <2>1
<1>10. CASE m.msg \in {"quit", "line"}
  <2>1. Draw(s, m) = s BY <1>10, DrawIs
  <2> QED BY <2>1
<1>11. m.msg \in {"step", "quit", "detail", "line", "done"} BY DEF Message
<1> QED BY <1>6, <1>7, <1>8, <1>9, <1>10, <1>11, Zenon

LEMMA ReceiveKeeps ==
  ASSUME ReporterInv, Receive PROVE ReporterInv'
<1> DEFINE m == Head(outbox)
<1>1. /\ outbox # <<>> /\ outbox \in Seq(Message) /\ outbox' = Tail(outbox)
      /\ UNCHANGED <<builder, again, calls, canceled, log, logRunning, buf, stepLines, failed,
                     failedLines, dump, text>>
      /\ text \in Text /\ tail \in Seq(Text) /\ steps \in Seq(StepState)
  BY DEF Receive, buildVars, plainVars, ttyVars, ReporterInv, ReporterTypeOK
<1>2. m \in Message /\ outbox' \in Seq(Message) BY <1>1
<1> HIDE DEF m
<1>3. \/ program \in {"up", "quitting"} /\ m.msg # "quit" /\ Update(m) /\ program' = program
      \/ program' = "exited" /\ UNCHANGED <<steps, tail>>
      \/ program \notin {"up", "quitting"} /\ UNCHANGED <<program, steps, tail>>
  BY DEF Receive, programVars, m
<1>4. \/ UNCHANGED <<steps, tail>>
      \/ /\ steps' = Draw(steps, m)
         /\ \/ tail' = <<>> \/ tail' = tail
            \/ m.msg = "line" /\ tail' = LastOf(TailLines, Append(tail, m.line))
  BY <1>3, UpdateDraws DEF Update
<1>5. ReporterTypeOK'
  <2>1. steps' \in Seq(StepState) BY <1>1, <1>2, <1>4, DrawType
  <2>2. tail' \in Seq(Text)
    <3>1. m.msg = "line" => m.line \in Text BY <1>2 DEF Message
    <3>2. m.msg = "line" => Append(tail, m.line) \in Seq(Text) BY <1>1, <3>1
    <3>3. m.msg = "line" => LastOf(TailLines, Append(tail, m.line)) \in Seq(Text)
      BY <3>2, LastOfIs, ReporterAssumption
    <3>4. <<>> \in Seq(Text) OBVIOUS
    <3> QED BY <1>1, <1>4, <3>3, <3>4
  <2>3. program' \in {"up", "quitting", "exited", "canceled", "over"}
    BY <1>3 DEF ReporterInv, ReporterTypeOK
  <2> QED BY <1>1, <1>2, <2>1, <2>2, <2>3 DEF ReporterInv, ReporterTypeOK
<1>6. ScreenInv'
  <2> SUFFICES ASSUME program' \in {"up", "quitting"} PROVE LinesPending'
    BY DEF ScreenInv
  <2>1. program \in {"up", "quitting"} /\ m.msg # "quit" /\ Update(m) BY <1>3
  <2>2. /\ steps' = Draw(steps, m)
        /\ m.msg = "step" => tail' = <<>>
        /\ m.msg = "line" /\ Shown(m.line) => tail' = LastOf(TailLines, Append(tail, m.line))
        /\ m.msg = "line" /\ ~Shown(m.line) => tail' = tail
        /\ m.msg \in {"detail", "done"} => tail' = tail
    BY <2>1, UpdateDraws DEF Update
  <2>3. Whole(text) \in Seq(Text) /\ Rest(text) \in Text BY <1>1, AllParts
  <2>4. ASSUME NEW q, outbox = <<q>>, steps' = Marks(log), tail' = LastOf(TailLines, ShownOf(Whole(text)))
        PROVE  LinesPending'
    <3>1. outbox' = <<>> BY <1>1, <2>4
    <3>2. Whole(text) \o <<>> = Whole(text) BY <2>3
    <3>3. [i \in DOMAIN outbox' |-> outbox'[i].line] = <<>> BY <3>1
    <3>4. \A i \in DOMAIN outbox' : outbox'[i].msg = "line" BY <3>1
    <3> QED BY <1>1, <2>3, <2>4, <3>2, <3>3, <3>4 DEF LinesPending
  <2>5. CASE StepPending
    <3>1. outbox = <<m>> /\ m.msg = "step" /\ Draw(steps, m) = Marks(log) /\ Whole(text) = <<>>
      BY <2>5 DEF StepPending, m
    <3>2. LastOf(TailLines, <<>>) = <<>> BY LastOfEmpty, ReporterAssumption
    <3> QED BY <2>2, <2>4, <3>1, <3>2, ShownEmpty
  <2>6. CASE OtherPending
    <3>1. PICK q \in Message :
            /\ outbox = <<q>> /\ q.msg \in {"detail", "done", "quit"}
            /\ Draw(steps, q) = Marks(log) /\ tail = LastOf(TailLines, ShownOf(Whole(text)))
      BY <2>6 DEF OtherPending
    <3>2. m = q BY <3>1 DEF m
    <3> QED BY <2>1, <2>2, <2>4, <3>1, <3>2
  <2>7. CASE LinesPending
    <3>1. PICK seen \in Seq(Text) :
            /\ Whole(text) = seen \o [i \in DOMAIN outbox |-> outbox[i].line]
            /\ tail = LastOf(TailLines, ShownOf(seen))
      BY <2>7 DEF LinesPending
    <3> DEFINE n == Len(outbox)
               lines == [i \in DOMAIN outbox |-> outbox[i].line]
               left == [i \in DOMAIN outbox' |-> outbox'[i].line]
               longer == Append(seen, m.line)
    <3>2. /\ n \in Nat /\ n >= 1 /\ DOMAIN outbox = 1..n /\ DOMAIN outbox' = 1..(n - 1)
          /\ \A i \in 1..(n - 1) : outbox'[i] = outbox[i + 1]
          /\ m = outbox[1]
      BY <1>1 DEF m
    <3>3. \A i \in 1..n : outbox[i].msg = "line" /\ outbox[i].line \in Text
      <4>1. \A i \in 1..n : outbox[i] \in Message BY <1>1
      <4>2. \A i \in 1..n : outbox[i].msg = "line" BY <2>7, <3>2 DEF LinesPending
      <4> QED BY <4>1, <4>2 DEF Message
    <3>4. m.msg = "line" /\ m.line \in Text BY <3>2, <3>3
    <3>5. /\ lines = [i \in 1..n |-> outbox[i].line] /\ left = [i \in 1..(n - 1) |-> outbox[i + 1].line]
      BY <3>2
    <3>6. /\ lines \in Seq(Text) /\ left \in Seq(Text) /\ Len(lines) = n /\ Len(left) = n - 1
          /\ lines[1] = m.line /\ \A i \in 1..(n - 1) : left[i] = lines[i + 1]
      <4> HIDE DEF lines, left, n
      <4>1. n - 1 \in Nat /\ 1 \in 1..n /\ \A i \in 1..(n - 1) : i + 1 \in 1..n BY <3>2
      <4>2. \A i \in 1..(n - 1) : outbox[i + 1].line \in Text BY <3>3, <4>1
      <4>3. lines \in Seq(Text) /\ Len(lines) = n BY <3>2, <3>3, <3>5
      <4>4. left \in Seq(Text) /\ Len(left) = n - 1 BY <3>5, <4>1, <4>2
      <4> QED BY <3>2, <3>5, <4>1, <4>3, <4>4
    <3> HIDE DEF n, lines, left
    <3>7. longer \in Seq(Text) /\ seen \o lines = longer \o left
      <4> DEFINE x == m.line
      <4>1. lines = <<x>> \o left
        <5>1. <<x>> \o left \in Seq(Text) /\ Len(<<x>> \o left) = n BY <3>2, <3>4, <3>6
        <5>2. \A i \in 1..n : (<<x>> \o left)[i] = lines[i]
          <6> SUFFICES ASSUME NEW i \in 1..n PROVE (<<x>> \o left)[i] = lines[i]
            OBVIOUS
          <6>1. (<<x>> \o left)[i] = IF i = 1 THEN x ELSE left[i - 1] BY <3>2, <3>4, <3>6
          <6>2. i # 1 => i - 1 \in 1..(n - 1) /\ (i - 1) + 1 = i BY <3>2
          <6> QED BY <3>6, <6>1, <6>2
        <5> QED BY <3>2, <3>6, <5>1, <5>2, SeqEqual
      <4>2. x \in Text BY <3>4
      <4> HIDE DEF x
      <4>3. seen \o (<<x>> \o left) = Append(seen, x) \o left /\ Append(seen, x) \in Seq(Text)
        BY <3>6, <4>2, AppendThen
      <4> QED BY <4>1, <4>3 DEF x
    <3>8. tail' = LastOf(TailLines, ShownOf(longer))
      <4> DEFINE a == ShownOf(seen)
                 x == m.line
      <4>1. a \in Seq(Text) /\ ShownOf(longer) = AddShown(a, x) BY <3>4, ShownAppend
      <4> HIDE DEF longer
      <4>2. CASE Shown(x)
        <5>1. ShownOf(longer) = Append(a, x) BY <4>1, <4>2 DEF AddShown
        <5>2. tail' = LastOf(TailLines, Append(LastOf(TailLines, a), x)) BY <2>2, <3>1, <3>4, <4>2
        <5>3. x \in Text BY <3>4
        <5> HIDE DEF a, x
        <5>4. LastOf(TailLines, a) \in Seq(Text) /\ TailLines \in Nat
          BY <4>1, LastOfIs, ReporterAssumption
        <5>5. /\ Append(LastOf(TailLines, a), x) = LastOf(TailLines, a) \o <<x>>
              /\ Append(a, x) = a \o <<x>> /\ <<x>> \in Seq(Text)
          BY <4>1, <5>3, <5>4
        <5>6. LastOf(TailLines, LastOf(TailLines, a) \o <<x>>) = LastOf(TailLines, a \o <<x>>)
          <6>1. TailLines <= TailLines BY <5>4
          <6> DEFINE y == <<x>>
          <6>2. y \in Seq(Text) BY <5>5
          <6> HIDE DEF y
          <6>3. LastOf(TailLines, LastOf(TailLines, a) \o y) = LastOf(TailLines, a \o y)
            BY <4>1, <5>4, <6>1, <6>2, LastOfLonger
          <6> QED BY <6>3 DEF y
        <5> QED BY <5>1, <5>2, <5>5, <5>6
      <4>3. CASE ~Shown(x)
        <5>1. ShownOf(longer) = a BY <4>1, <4>3 DEF AddShown
        <5> QED BY <2>2, <3>1, <3>4, <4>3, <5>1
      <4> QED BY <4>2, <4>3
    <3>9. steps' = Marks(log)
      <4>1. Draw(steps, m) = steps BY <3>4, DrawIs
      <4> QED BY <2>2, <2>7, <4>1 DEF LinesPending
    <3>10. \A i \in DOMAIN outbox' : outbox'[i].msg = "line"
      <4>1. \A i \in 1..(n - 1) : i + 1 \in 1..n BY <3>2
      <4> QED BY <3>2, <3>3, <4>1
    <3>11. Whole(text') = longer \o left /\ steps' = Marks(log') BY <1>1, <3>1, <3>7, <3>9 DEF lines
    <3> QED BY <3>7, <3>8, <3>10, <3>11 DEF LinesPending, left
  <2> QED BY <2>1, <2>5, <2>6, <2>7 DEF ReporterInv, ScreenInv
<1> QED BY <1>1, <1>5, <1>6, ProgramOnly

LEMMA OthersKeep ==
  ASSUME ReporterInv, KeyPress \/ Exit \/ Cancel \/ CloseDone \/ UNCHANGED reporterVars
  PROVE  ReporterInv'
<1>1. UNCHANGED <<builder, again, calls, outbox, log, logRunning, buf, stepLines, failed,
                  failedLines, dump, steps, tail, text>>
  BY DEF KeyPress, Exit, Cancel, CloseDone, reporterVars, buildVars, plainVars, ttyVars, programVars
<1>2. /\ canceled' \in BOOLEAN /\ program' \in {"up", "quitting", "exited", "canceled", "over"}
      /\ program' \in {"up", "quitting"} => program \in {"up", "quitting"}
  BY DEF KeyPress, Exit, Cancel, CloseDone, reporterVars, programVars, ReporterInv, ReporterTypeOK
<1>3. ReporterTypeOK' BY <1>1, <1>2 DEF ReporterInv, ReporterTypeOK
<1>4. ScreenInv'
  BY <1>1, <1>2 DEF ReporterInv, ScreenInv, StepPending, OtherPending, LinesPending
<1> QED BY <1>1, <1>3, <1>4, ProgramOnly

-----------------------------------------------------------------------------
(* The theorems.                                                           *)

LEMMA ReporterStarts == ReporterInit => ReporterInv
<1> SUFFICES ASSUME ReporterInit PROVE ReporterInv
  OBVIOUS
<1>1. /\ builder = "between" /\ again = FALSE /\ calls = 0 /\ canceled = FALSE /\ outbox = <<>>
      /\ log = <<>> /\ logRunning = FALSE /\ buf = [buf |-> <<>>, out |-> <<>>] /\ stepLines = <<>>
      /\ dump = <<>> /\ failed = FALSE /\ failedLines = NoSnapshot /\ program = "up"
      /\ steps = <<>> /\ tail = <<>> /\ text = <<>>
  BY DEF ReporterInit, Scan!NewScanWriter
<1>2. ReporterTypeOK
  <2>1. <<>> \in Text BY DEF Text
  <2>2. buf \in [buf : Text, out : {<<>>}] BY <1>1, <2>1
  <2>3. /\ outbox \in Seq(Message) /\ log \in Seq(Mark) /\ stepLines \in Seq(Text)
        /\ dump \in Seq(Text) /\ steps \in Seq(StepState) /\ tail \in Seq(Text)
    BY <1>1
  <2> QED BY <1>1, <2>1, <2>2, <2>3 DEF ReporterTypeOK
<1>3. PlainInv BY <1>1, MarksEmpty DEF PlainInv, IsRunning
<1>4. LinesPending
  <2>1. LastOf(TailLines, ShownOf(<<>>)) = <<>> BY ShownEmpty, LastOfEmpty, ReporterAssumption
  <2>2. [i \in DOMAIN outbox |-> outbox[i].line] = <<>> /\ <<>> \o <<>> = <<>> /\ <<>> \in Seq(Text)
    BY <1>1
  <2>3. \A i \in DOMAIN outbox : outbox[i].msg = "line" BY <1>1
  <2> QED BY <1>1, <2>1, <2>2, <2>3, MarksEmpty, PartsEmpty DEF LinesPending
<1>5. OutputInv
  <2>1. LastOf(StepLineCap, <<>>) = <<>> BY LastOfEmpty, ReporterAssumption
  <2>2. Range(log) = {} BY <1>1 DEF Range
  <2> QED BY <1>1, <2>1, <2>2, PartsEmpty DEF OutputInv
<1>6. DumpIsTheFailure BY <1>1 DEF DumpIsTheFailure
<1> QED BY <1>2, <1>3, <1>4, <1>5, <1>6 DEF ReporterInv, ScreenInv

LEMMA ReporterKeeps == ReporterInv /\ [ReporterNext]_reporterVars => ReporterInv'
<1> SUFFICES ASSUME ReporterInv, [ReporterNext]_reporterVars PROVE ReporterInv'
  OBVIOUS
<1>1. CASE Step BY <1>1, StepKeeps
<1>2. CASE Close BY <1>2, CloseKeeps
<1>3. CASE Closed BY <1>3, ClosedKeeps
<1>4. CASE \E d \in Details : Detail(d) BY <1>4, DetailKeeps
<1>5. CASE \E p \in Outputs : Write(p) BY <1>5, WriteKeeps
<1>6. CASE \E ok \in BOOLEAN : Done(ok) BY <1>6, DoneKeeps
<1>7. CASE Receive BY <1>7, ReceiveKeeps
<1>8. CASE KeyPress \/ Exit \/ Cancel \/ CloseDone \/ UNCHANGED reporterVars BY <1>8, OthersKeep
<1> QED BY <1>1, <1>2, <1>3, <1>4, <1>5, <1>6, <1>7, <1>8 DEF ReporterNext

LEMMA ReporterInvariant == ReporterSpec => []ReporterInv
BY ReporterStarts, ReporterKeeps, PTL DEF ReporterSpec

LEMMA TailOfInv == ReporterInv => TailIsRecent
<1> SUFFICES ASSUME ReporterInv, program \in {"up", "quitting"}, Free
             PROVE  tail = LastOf(TailLines, FoldLeft(AddShown, <<>>, Finished(text)))
  BY DEF TailIsRecent
<1>1. text \in Text BY DEF ReporterInv, ReporterTypeOK
<1>2. Finished(text) = Whole(text) BY <1>1, FinishedIs
<1>3. tail = LastOf(TailLines, ShownOf(Whole(text))) BY FreeScreen
<1> QED BY <1>2, <1>3, Zenon DEF ShownOf

\* A program that is up, and has taken what it was sent, shows the last of the lines
\* that the last step has printed, blank ones left out, and of the steps before at
\* most a line they had not finished, for all outputs, limits and ways to cut what is
\* printed into chunks (ttyReporter.Write and model.Update in progress.go).
THEOREM TailIsTheEnd == ReporterSpec => []TailIsRecent
BY ReporterInvariant, TailOfInv, PTL

\* What Close prints is the end of the output of the step that failed, with a line
\* that it has not finished, and nothing of a build that did not fail
\* (ttyReporter.Done and Close in progress.go).
THEOREM DumpIsTheEnd == ReporterSpec => []DumpIsTheFailure
<1>1. ReporterInv => DumpIsTheFailure BY DEF ReporterInv
<1> QED BY <1>1, ReporterInvariant, PTL

\* The steps on the screen, how they ended and their last details are those the log
\* file has (plainReporter and ttyReporter in progress.go, under the same calls).
THEOREM ScreenIsTheLog == ReporterSpec => []LogAndScreenAgree
<1>1. ReporterInv => LogAndScreenAgree BY FreeScreen DEF LogAndScreenAgree, Marks
<1> QED BY <1>1, ReporterInvariant, PTL

----------------------------------------------------------------------------
(* What Close waits for: the safety half of Unwinds.                       *)

\* The builder waits for a program only when it has exited, and a program that is on
\* its way out by a key, or past its end, has cancelled the build.
NobodyAwaited ==
  /\ builder = "closing" /\ Free => program \in {"exited", "canceled", "over"}
  /\ program \notin {"up", "exited"} => canceled

\* Until then the quit that Close has sent is on its way.
QuitSent ==
  /\ NobodyAwaited
  /\ program \in {"up", "quitting", "exited", "canceled", "over"}
  /\ builder = "closing" /\ ~Free => outbox = <<[msg |-> "quit"]>>

LEMMA QuitKeeps == QuitSent /\ [ReporterNext]_reporterVars => QuitSent'
<1> SUFFICES ASSUME QuitSent, [ReporterNext]_reporterVars PROVE QuitSent'
  OBVIOUS
<1> USE DEF QuitSent, NobodyAwaited, Free
<1>1. ASSUME builder' = builder \/ builder' # "closing", outbox' = outbox \/ builder' # "closing",
             UNCHANGED <<canceled, program>>
      PROVE  QuitSent'
  BY <1>1
<1>2. CASE Step BY <1>1, <1>2 DEF Step, programVars
<1>3. CASE Close BY <1>3 DEF Close, programVars
<1>4. CASE Closed BY <1>1, <1>4 DEF Closed, programVars
<1>5. CASE \E d \in Details : Detail(d) BY <1>1, <1>5 DEF Detail, programVars
<1>6. CASE \E p \in Outputs : Write(p) BY <1>1, <1>6 DEF Write, programVars
<1>7. CASE \E ok \in BOOLEAN : Done(ok)
  <2>1. builder' # "closing" /\ UNCHANGED <<canceled, program>>
    BY <1>7 DEF Done, programVars
  <2> QED BY <1>1, <2>1
<1>8. CASE Receive
  <2>1. builder' = builder /\ canceled' = canceled /\ outbox # <<>> /\ outbox' = Tail(outbox)
    BY <1>8 DEF Receive, buildVars
  <2>2. \/ program' = program
        \/ program' = "exited" /\ program \in {"up", "quitting"}
    BY <1>8 DEF Receive, programVars
  <2>3. CASE builder # "closing" BY <2>1, <2>2, <2>3
  <2>4. CASE builder = "closing"
    <3>1. outbox = <<[msg |-> "quit"]>> BY <2>1, <2>4
    <3>2. outbox' = <<>> /\ Head(outbox).msg = "quit" BY <2>1, <3>1
    <3>3. program' \in {"exited", "canceled", "over"}
      BY <1>8, <3>2 DEF Receive, programVars
    <3> QED BY <2>1, <2>2, <3>2, <3>3
  <2> QED BY <2>3, <2>4
<1>9. CASE KeyPress \/ Exit \/ Cancel \/ CloseDone
  BY <1>9 DEF KeyPress, Exit, Cancel, CloseDone, buildVars
<1>10. CASE UNCHANGED reporterVars
  BY <1>1, <1>10 DEF reporterVars, buildVars, programVars
<1> QED BY <1>2, <1>3, <1>4, <1>5, <1>6, <1>7, <1>8, <1>9, <1>10 DEF ReporterNext

\* Close never waits for a program that would go on for ever: it has taken the quit, or
\* has gone before; and a program that has gone, or a user who has quit, has cancelled
\* the build, so that a make that runs is killed; a git is not (ttyReporter.Close and
\* the goroutine that newTTYReporter starts, in progress.go).
THEOREM CloseIsAnswered == ReporterSpec => []NobodyAwaited
<1>1. ReporterInit => QuitSent BY DEF ReporterInit, QuitSent, NobodyAwaited
<1>2. QuitSent => NobodyAwaited BY DEF QuitSent
<1> QED BY <1>1, <1>2, QuitKeeps, PTL DEF ReporterSpec
=============================================================================
