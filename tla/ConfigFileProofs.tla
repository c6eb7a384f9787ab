-------------------------- MODULE ConfigFileProofs --------------------------
(***************************************************************************)
(* What options are set to is what kconfig reads, for every file and any   *)
(* number of edits.                                                        *)
(*                                                                         *)
(* The editor keeps, beside the lines, an index from each option to one of *)
(* them and its value.  The invariant is that the index has the options    *)
(* that the lines say something of, each with the last of its lines, which *)
(* is the one that counts; and how the lines and the index have come from  *)
(* the file and the edits.  The proof is in two parts: that appending a    *)
(* line and replacing one keep the index true to the lines, from which     *)
(* come Parse, by induction over the file, and Set; and what Set does to   *)
(* the reading of an option.                                               *)
(***************************************************************************)
EXTENDS ConfigFile, FiniteSetTheorems, TLAPS

-----------------------------------------------------------------------------
(* The invariant.                                                          *)

Values == OptionValues \union {No, ""}

\* A value kept for a line is the line's, or empty for an option set to nothing.
Keeps(value, line) ==
  /\ value \in Values
  /\ value # Value(line) => value = "" /\ Value(line) = No

\* The index has the last line on each option.
IndexOf(lines, idx) ==
  /\ idx \in [DOMAIN idx -> Nat]
  /\ DOMAIN idx = {name \in Options : Said(lines, name) # {}}
  /\ \A name \in DOMAIN idx :
       /\ idx[name] \in Said(lines, name)
       /\ \A i \in Said(lines, name) : i <= idx[name]

ValuesOf(lines, idx, vals) ==
  /\ vals \in [DOMAIN idx -> Values]
  /\ \A name \in DOMAIN idx : Keeps(vals[name], lines[idx[name]])

Coherent(lines, idx, vals) ==
  /\ lines \in Seq(ConfigLines)
  /\ IndexOf(lines, idx)
  /\ ValuesOf(lines, idx, vals)

CoherentConf(c) ==
  /\ c = [lines |-> c.lines, vals |-> c.vals, idx |-> c.idx]
  /\ Coherent(c.lines, c.idx, c.vals)

Edits == [name : Options, value : OptionValues]

ConfigInv ==
  /\ data \in Seq(ConfigLines) /\ edits \in Seq(Edits)
  /\ CoherentConf(conf)
  /\ Len(data) <= Len(conf.lines)
  /\ \A i \in DOMAIN data :
       conf.lines[i] # data[i] => Says(data[i]) /\ data[i].name \in NamesSet
  /\ DOMAIN conf.idx = NamesRead \union NamesSet
  /\ IsFiniteSet(NamesSet)
  /\ Len(conf.lines) = Len(data) + Cardinality(NamesSet \ NamesRead)
  /\ \A name \in Options : Kconfig(conf.lines, name) = Wanted(name)

-----------------------------------------------------------------------------
(* Lines.                                                                  *)

LEMMA LineIs ==
  ASSUME NEW line \in ConfigLines
  PROVE  /\ Says(line) => line.name \in Options
         /\ Value(line) \in Values
<1>1. CASE line \in [form : {"assign"}, name : Options, value : OptionValues]
  BY <1>1 DEF Says, Value, Values
<1>2. CASE line \in [form : {"not set"}, name : Options]
  BY <1>2 DEF Says, Value, Values
<1>3. CASE line = Comment
  BY <1>3 DEF Comment, Says, Value, Values, No
<1> QED BY <1>1, <1>2, <1>3 DEF ConfigLines

LEMMA FormatIs ==
  ASSUME NEW name \in Options, NEW value \in OptionValues
  PROVE  /\ format(name, value) \in ConfigLines
         /\ Says(format(name, value)) /\ format(name, value).name = name
         /\ Value(format(name, value)) = IF value = "" THEN No ELSE value
         /\ Keeps(value, format(name, value))
<1>1. CASE value \in {No, ""}
  <2> DEFINE line == [form |-> "not set", name |-> name]
  <2>1. line \in ConfigLines BY DEF ConfigLines
  <2>2. Says(line) /\ line.name = name /\ Value(line) = No BY DEF Says, Value
  <2>3. format(name, value) = line BY <1>1 DEF format, IsNotSet
  <2> HIDE DEF line
  <2> QED BY <1>1, <2>1, <2>2, <2>3 DEF Keeps, Values
<1>2. CASE value \notin {No, ""}
  <2> DEFINE line == [form |-> "assign", name |-> name, value |-> value]
  <2>1. line \in ConfigLines BY DEF ConfigLines
  <2>2. Says(line) /\ line.name = name /\ Value(line) = value BY DEF Says, Value
  <2>3. format(name, value) = line BY <1>2 DEF format, Assign
  <2> HIDE DEF line
  <2> QED BY <1>2, <2>1, <2>2, <2>3 DEF Keeps, Values
<1> QED BY <1>1, <1>2

LEMMA SaidIs ==
  ASSUME NEW lines \in Seq(ConfigLines), NEW name
  PROVE  /\ Said(lines, name) \subseteq 1..Len(lines)
         /\ \A i \in 1..Len(lines) :
              i \in Said(lines, name) <=> Says(lines[i]) /\ lines[i].name = name
BY DEF Said

LEMMA SaidAppend ==
  ASSUME NEW lines \in Seq(ConfigLines), NEW line \in ConfigLines, NEW name
  PROVE  /\ Says(line) /\ line.name = name =>
              Said(Append(lines, line), name) = Said(lines, name) \union {Len(lines) + 1}
         /\ ~(Says(line) /\ line.name = name) => Said(Append(lines, line), name) = Said(lines, name)
<1> DEFINE more == Append(lines, line)
<1>1. DOMAIN more = 1..(Len(lines) + 1) /\ DOMAIN lines = 1..Len(lines)
  OBVIOUS
<1>2. more[Len(lines) + 1] = line /\ \A i \in 1..Len(lines) : more[i] = lines[i]
  OBVIOUS
<1>3. Len(lines) \in Nat /\ \A i \in 1..(Len(lines) + 1) : i \in 1..Len(lines) \/ i = Len(lines) + 1
  OBVIOUS
<1>4. \A i \in 1..Len(lines) : i \in 1..(Len(lines) + 1)
  OBVIOUS
<1>5. Len(lines) + 1 \in 1..(Len(lines) + 1) /\ Len(lines) + 1 \notin 1..Len(lines)
  OBVIOUS
<1> HIDE DEF more
<1>6. Said(more, name) \subseteq 1..(Len(lines) + 1) /\ Said(lines, name) \subseteq 1..Len(lines)
  BY <1>1 DEF Said
<1>7. \A i \in 1..Len(lines) : i \in Said(more, name) <=> i \in Said(lines, name)
  BY <1>1, <1>2, <1>4 DEF Said
<1>8. Len(lines) + 1 \in Said(more, name) <=> Says(line) /\ line.name = name
  BY <1>1, <1>2, <1>5 DEF Said
<1>9. CASE Says(line) /\ line.name = name
  <2>1. Said(more, name) = Said(lines, name) \union {Len(lines) + 1}
    BY <1>3, <1>6, <1>7, <1>8, <1>9
  <2> QED BY <1>9, <2>1 DEF more
<1>10. CASE ~(Says(line) /\ line.name = name)
  <2>1. Said(more, name) = Said(lines, name)
    BY <1>3, <1>6, <1>7, <1>8, <1>10
  <2> QED BY <1>10, <2>1 DEF more
<1> QED BY <1>9, <1>10

LEMMA SaidReplace ==
  ASSUME NEW lines \in Seq(ConfigLines), NEW k \in 1..Len(lines), NEW line \in ConfigLines,
         Says(line), Says(lines[k]), line.name = lines[k].name, NEW name
  PROVE  /\ [lines EXCEPT ![k] = line] \in Seq(ConfigLines)
         /\ Said([lines EXCEPT ![k] = line], name) = Said(lines, name)
<1> DEFINE other == [lines EXCEPT ![k] = line]
<1>1. DOMAIN other = DOMAIN lines /\ other[k] = line /\ other \in Seq(ConfigLines)
      /\ \A i \in DOMAIN lines : i # k => other[i] = lines[i]
  OBVIOUS
<1> HIDE DEF other
<1>2. \A i \in DOMAIN lines :
        Says(other[i]) /\ other[i].name = name <=> Says(lines[i]) /\ lines[i].name = name
  BY <1>1
<1>3. Said(other, name) = Said(lines, name)
  BY <1>1, <1>2 DEF Said
<1> QED BY <1>1, <1>3 DEF other

LEMMA MaxIs ==
  ASSUME NEW S \in SUBSET Nat, NEW m \in S, \A i \in S : i <= m
  PROVE  Max(S) = m
<1>1. \A y \in S : m >= y OBVIOUS
<1>2. Max(S) \in S /\ \A y \in S : Max(S) >= y
  BY <1>1 DEF Max
<1>3. Max(S) \in Nat BY <1>2
<1> QED BY <1>2, <1>3

\* The line that kconfig reads for an option is the one in the index.
LEMMA KconfigIs ==
  ASSUME NEW lines \in Seq(ConfigLines), NEW idx, IndexOf(lines, idx), NEW name \in Options
  PROVE  Kconfig(lines, name) = IF name \in DOMAIN idx THEN Value(lines[idx[name]]) ELSE No
<1>1. CASE name \in DOMAIN idx
  <2>1. idx[name] \in Said(lines, name) /\ \A i \in Said(lines, name) : i <= idx[name]
    BY <1>1 DEF IndexOf
  <2>2. Said(lines, name) \in SUBSET Nat
    <3>1. Said(lines, name) \subseteq 1..Len(lines) BY SaidIs
    <3> QED BY <3>1
  <2>3. Max(Said(lines, name)) = idx[name] BY <2>1, <2>2, MaxIs
  <2> QED BY <1>1, <2>1, <2>3 DEF Kconfig
<1>2. CASE name \notin DOMAIN idx
  BY <1>2 DEF IndexOf, Kconfig
<1> QED BY <1>1, <1>2

-----------------------------------------------------------------------------
(* Appending a line, and replacing one.                                    *)

\* A line on an option, appended, is the one that counts for it.
LEMMA AppendedCounts ==
  ASSUME NEW lines, NEW idx, NEW vals, Coherent(lines, idx, vals),
         NEW line \in ConfigLines, Says(line), NEW value, Keeps(value, line)
  PROVE  Coherent(Append(lines, line), Put(idx, line.name, Len(lines) + 1),
                  Put(vals, line.name, value))
<1> DEFINE more == Append(lines, line)
           at == Put(idx, line.name, Len(lines) + 1)
           kept == Put(vals, line.name, value)
<1>1. line.name \in Options BY LineIs
<1>2. /\ lines \in Seq(ConfigLines) /\ more \in Seq(ConfigLines) /\ Len(lines) + 1 \in Nat
      /\ more[Len(lines) + 1] = line /\ \A i \in 1..Len(lines) : more[i] = lines[i]
  BY DEF Coherent
<1>3. /\ idx \in [DOMAIN idx -> Nat] /\ vals \in [DOMAIN idx -> Values]
      /\ DOMAIN idx = {name \in Options : Said(lines, name) # {}}
  BY DEF Coherent, IndexOf, ValuesOf
<1>4. /\ DOMAIN at = DOMAIN idx \union {line.name} /\ at[line.name] = Len(lines) + 1
      /\ \A name \in DOMAIN idx : name # line.name => at[name] = idx[name]
      /\ at \in [DOMAIN at -> Nat]
  <2>1. DOMAIN at = DOMAIN idx \union {line.name} BY DEF Put
  <2>2. \A name \in DOMAIN at :
          at[name] = IF name = line.name THEN Len(lines) + 1 ELSE idx[name]
    BY <2>1 DEF Put
  <2>3. at = [name \in DOMAIN at |-> at[name]] BY DEF Put
  <2>4. \A name \in DOMAIN at : at[name] \in Nat BY <1>2, <1>3, <2>1, <2>2
  <2> HIDE DEF at
  <2>5. at \in [DOMAIN at -> Nat] BY <2>3, <2>4
  <2> QED BY <2>1, <2>2, <2>5
<1>5. /\ DOMAIN kept = DOMAIN at /\ kept[line.name] = value
      /\ \A name \in DOMAIN idx : name # line.name => kept[name] = vals[name]
      /\ kept \in [DOMAIN at -> Values]
  BY <1>3 DEF Put, Keeps
<1>6. /\ Said(more, line.name) = Said(lines, line.name) \union {Len(lines) + 1}
      /\ \A name : name # line.name => Said(more, name) = Said(lines, name)
  BY <1>2, SaidAppend
<1>7. \A name : Said(lines, name) \subseteq 1..Len(lines)
  BY <1>2, SaidIs
<1> HIDE DEF more, at, kept
<1>8. DOMAIN at = {name \in Options : Said(more, name) # {}}
  BY <1>1, <1>3, <1>4, <1>6
<1>9. ASSUME NEW name \in DOMAIN at
      PROVE  /\ at[name] \in Said(more, name)
             /\ \A i \in Said(more, name) : i <= at[name]
             /\ Keeps(kept[name], more[at[name]])
  <2>1. CASE name = line.name
    <3>1. \A i \in Said(more, name) : i <= Len(lines) + 1
      BY <1>2, <1>6, <1>7, <2>1
    <3> QED BY <1>2, <1>4, <1>5, <1>6, <2>1, <3>1
  <2>2. CASE name # line.name
    <3>1. name \in DOMAIN idx BY <1>4, <2>2
    <3>2. /\ idx[name] \in Said(lines, name) /\ \A i \in Said(lines, name) : i <= idx[name]
          /\ Keeps(vals[name], lines[idx[name]])
      BY <3>1 DEF Coherent, IndexOf, ValuesOf
    <3>3. idx[name] \in 1..Len(lines) BY <1>7, <3>2
    <3> QED BY <1>2, <1>4, <1>5, <1>6, <2>2, <3>1, <3>2, <3>3
  <2> QED BY <2>1, <2>2
<1>10. IndexOf(more, at) BY <1>4, <1>8, <1>9 DEF IndexOf
<1>11. ValuesOf(more, at, kept) BY <1>5, <1>9 DEF ValuesOf
<1>12. Coherent(more, at, kept) BY <1>2, <1>10, <1>11 DEF Coherent
<1> QED BY <1>12 DEF more, at, kept

\* One that says nothing leaves the index as it is.
LEMMA SilentAppended ==
  ASSUME NEW lines, NEW idx, NEW vals, Coherent(lines, idx, vals),
         NEW line \in ConfigLines, ~Says(line)
  PROVE  Coherent(Append(lines, line), idx, vals)
<1> DEFINE more == Append(lines, line)
<1>1. /\ lines \in Seq(ConfigLines) /\ more \in Seq(ConfigLines)
      /\ \A i \in 1..Len(lines) : more[i] = lines[i]
  BY DEF Coherent
<1>2. \A name : Said(more, name) = Said(lines, name) BY <1>1, SaidAppend
<1> HIDE DEF more
<1>3. IndexOf(more, idx) BY <1>2 DEF Coherent, IndexOf
<1>4. \A name \in DOMAIN idx : more[idx[name]] = lines[idx[name]]
  <2>1. \A name \in DOMAIN idx : idx[name] \in Said(lines, name) BY DEF Coherent, IndexOf
  <2>2. \A name : Said(lines, name) \subseteq 1..Len(lines) BY <1>1, SaidIs
  <2>3. \A name \in DOMAIN idx : idx[name] \in 1..Len(lines) BY <2>1, <2>2
  <2> QED BY <1>1, <2>3
<1>5. ValuesOf(more, idx, vals) BY <1>4 DEF Coherent, ValuesOf
<1>6. Coherent(more, idx, vals) BY <1>1, <1>3, <1>5 DEF Coherent
<1> QED BY <1>6 DEF more

\* The line of an option, replaced by another on it, is still the one that counts.
LEMMA ReplacedCounts ==
  ASSUME NEW lines, NEW idx, NEW vals, Coherent(lines, idx, vals),
         NEW line \in ConfigLines, Says(line), line.name \in DOMAIN idx,
         NEW value, Keeps(value, line)
  PROVE  Coherent([lines EXCEPT ![idx[line.name]] = line], idx, [vals EXCEPT ![line.name] = value])
<1> DEFINE at == idx[line.name]
           other == [lines EXCEPT ![at] = line]
           kept == [vals EXCEPT ![line.name] = value]
<1>1. /\ lines \in Seq(ConfigLines) /\ vals \in [DOMAIN idx -> Values]
      /\ \A name \in DOMAIN idx : idx[name] \in Said(lines, name)
  BY DEF Coherent, IndexOf, ValuesOf
<1>2. \A name \in DOMAIN idx :
        idx[name] \in 1..Len(lines) /\ Says(lines[idx[name]]) /\ lines[idx[name]].name = name
  BY <1>1, SaidIs
<1>3. at \in 1..Len(lines) /\ Says(lines[at]) /\ lines[at].name = line.name
  BY <1>2
<1>4. \A name : Said(other, name) = Said(lines, name)
  BY <1>1, <1>3, SaidReplace
<1>5. /\ other \in Seq(ConfigLines) /\ other[at] = line
      /\ \A i \in 1..Len(lines) : i # at => other[i] = lines[i]
  BY <1>1, <1>3
<1>6. /\ kept \in [DOMAIN idx -> Values] /\ kept[line.name] = value
      /\ \A name \in DOMAIN idx : name # line.name => kept[name] = vals[name]
  BY <1>1 DEF Keeps
<1>7. \A name \in DOMAIN idx : name # line.name => idx[name] # at
  BY <1>2
<1> HIDE DEF other, kept, at
<1>8. IndexOf(other, idx) BY <1>4 DEF Coherent, IndexOf
<1>9. ASSUME NEW name \in DOMAIN idx PROVE Keeps(kept[name], other[idx[name]])
  <2>1. CASE name = line.name BY <1>5, <1>6, <2>1 DEF at
  <2>2. CASE name # line.name
    <3>1. Keeps(vals[name], lines[idx[name]]) BY DEF Coherent, ValuesOf
    <3> QED BY <1>2, <1>5, <1>6, <1>7, <2>2, <3>1
  <2> QED BY <2>1, <2>2
<1>10. ValuesOf(other, idx, kept) BY <1>6, <1>9 DEF ValuesOf
<1>11. Coherent(other, idx, kept) BY <1>5, <1>8, <1>10 DEF Coherent
<1> QED BY <1>11 DEF other, kept, at

-----------------------------------------------------------------------------
(* A file, read.                                                           *)

LEMMA AppendRawIs ==
  ASSUME NEW c, CoherentConf(c), NEW raw \in ConfigLines
  PROVE  CoherentConf(appendRaw(c, raw)) /\ appendRaw(c, raw).lines = Append(c.lines, raw)
<1> DEFINE d == appendRaw(c, raw)
           more == Append(c.lines, raw)
<1>1. c = [lines |-> c.lines, vals |-> c.vals, idx |-> c.idx] /\ Coherent(c.lines, c.idx, c.vals)
  BY DEF CoherentConf
<1>2. CASE ~Says(raw)
  <2>1. d = [lines |-> more, vals |-> c.vals, idx |-> c.idx] BY <1>1, <1>2 DEF appendRaw
  <2>2. Coherent(more, c.idx, c.vals) BY <1>1, <1>2, SilentAppended
  <2> HIDE DEF d, more
  <2>3. CoherentConf(d) /\ d.lines = more BY <2>1, <2>2 DEF CoherentConf
  <2> QED BY <2>3 DEF d, more
<1>3. CASE Says(raw)
  <2> DEFINE at == Put(c.idx, raw.name, Len(c.lines) + 1)
             kept == Put(c.vals, raw.name, Value(raw))
  <2>1. Len(more) = Len(c.lines) + 1 BY <1>1 DEF Coherent
  <2>2. d = [lines |-> more, vals |-> kept, idx |-> at] BY <1>3, <2>1 DEF appendRaw
  <2>3. Keeps(Value(raw), raw) BY LineIs DEF Keeps
  <2>4. Coherent(more, at, kept) BY <1>1, <1>3, <2>3, AppendedCounts
  <2> HIDE DEF d, more, at, kept
  <2>5. CoherentConf(d) /\ d.lines = more BY <2>2, <2>4 DEF CoherentConf
  <2> QED BY <2>5 DEF d, more
<1> QED BY <1>2, <1>3

\* appendRaw with a parameter that it leaves alone, for the facts about folds.
addLine(k, c, raw) == appendRaw(c, raw)

ByLine == INSTANCE FoldFacts WITH op <- addLine

LEMMA ParseIs ==
  ASSUME NEW text \in Seq(ConfigLines)
  PROVE  CoherentConf(Parse(text)) /\ Parse(text).lines = text
<1> DEFINE read(q) == ByLine!Fold(0, New, q)
           T == {q \in Seq(ConfigLines) : CoherentConf(read(q)) /\ read(q).lines = q}
<1>1. <<>> \in T
  <2>1. read(<<>>) = New BY ByLine!FoldEmpty
  <2>2. \A name : Said(<<>>, name) = {} BY DEF Said
  <2>3. DOMAIN <<>> = {} OBVIOUS
  <2>4. <<>> \in [{} -> Nat] /\ <<>> \in [{} -> Values] BY <2>3
  <2>5. IndexOf(<<>>, <<>>) BY <2>2, <2>3, <2>4 DEF IndexOf
  <2>6. ValuesOf(<<>>, <<>>, <<>>) BY <2>3, <2>4 DEF ValuesOf
  <2>7. Coherent(<<>>, <<>>, <<>>) BY <2>5, <2>6 DEF Coherent
  <2>8. CoherentConf(New) /\ New.lines = <<>> BY <2>7 DEF CoherentConf, New
  <2> QED BY <2>1, <2>8
<1>2. ASSUME NEW q \in Seq(ConfigLines), NEW raw \in ConfigLines, q \in T
      PROVE  Append(q, raw) \in T
  <2>1. read(Append(q, raw)) = appendRaw(read(q), raw) BY ByLine!FoldAppend DEF addLine
  <2>2. CoherentConf(read(q)) /\ read(q).lines = q BY <1>2
  <2> HIDE DEF read
  <2>3. /\ CoherentConf(appendRaw(read(q), raw))
        /\ appendRaw(read(q), raw).lines = Append(read(q).lines, raw)
    BY <2>2, AppendRawIs
  <2>4. Append(q, raw) \in Seq(ConfigLines) OBVIOUS
  <2> QED BY <2>1, <2>2, <2>3, <2>4
<1>3. text \in T
  <2> HIDE DEF T
  <2> QED BY <1>1, <1>2, ByLine!SequenceInduction
<1>4. Parse(text) = read(text)
  BY DEF Parse, addLine, ByLine!Fold, ByLine!FoldLeft, ByLine!MapThenFoldSet, FoldLeft,
         MapThenFoldSet, ByLine!Max, Max
<1> QED BY <1>3, <1>4

-----------------------------------------------------------------------------
(* An option, set.                                                         *)

\* Set keeps the index true; the line of the option is replaced, or appended if
\* there is none.
LEMMA SetIs ==
  ASSUME NEW c, CoherentConf(c), NEW name \in Options, NEW value \in OptionValues
  PROVE  LET d == Set(c, name, value)
         IN  /\ CoherentConf(d)
             /\ DOMAIN d.idx = DOMAIN c.idx \union {name}
             /\ \A other \in DOMAIN c.idx : d.idx[other] = c.idx[other]
             /\ d.lines[d.idx[name]] = format(name, value)
             /\ Len(d.lines) = IF name \in DOMAIN c.idx THEN Len(c.lines) ELSE Len(c.lines) + 1
             /\ \A i \in 1..Len(c.lines) : i # d.idx[name] => d.lines[i] = c.lines[i]
<1> DEFINE d == Set(c, name, value)
           line == format(name, value)
<1>1. c = [lines |-> c.lines, vals |-> c.vals, idx |-> c.idx] /\ Coherent(c.lines, c.idx, c.vals)
  BY DEF CoherentConf
<1>2. /\ line \in ConfigLines /\ Says(line) /\ line.name = name /\ Keeps(value, line)
  BY FormatIs
<1>3. c.lines \in Seq(ConfigLines) BY <1>1 DEF Coherent
<1>4. CASE name \in DOMAIN c.idx
  <2> DEFINE lines == [c.lines EXCEPT ![c.idx[name]] = line]
             vals == [c.vals EXCEPT ![name] = value]
  <2>1. d = [lines |-> lines, vals |-> vals, idx |-> c.idx] BY <1>1, <1>4 DEF Set
  <2>2. Coherent(lines, c.idx, vals) BY <1>1, <1>2, <1>4, ReplacedCounts
  <2>3. c.idx[name] \in 1..Len(c.lines)
    <3>1. c.idx[name] \in Said(c.lines, name) BY <1>1, <1>4 DEF Coherent, IndexOf
    <3> QED BY <1>3, <3>1, SaidIs
  <2>4. /\ lines[c.idx[name]] = line /\ Len(lines) = Len(c.lines)
        /\ \A i \in 1..Len(c.lines) : i # c.idx[name] => lines[i] = c.lines[i]
    BY <1>3, <2>3
  <2> HIDE DEF d, lines, vals, line
  <2>5. d.lines = lines /\ d.vals = vals /\ d.idx = c.idx BY <2>1
  <2>6. CoherentConf(d) BY <2>1, <2>2, <2>5 DEF CoherentConf
  <2>7. DOMAIN d.idx = DOMAIN c.idx \union {name} BY <1>4, <2>5
  <2> QED BY <1>4, <2>4, <2>5, <2>6, <2>7 DEF d, line
<1>5. CASE name \notin DOMAIN c.idx
  <2> DEFINE lines == Append(c.lines, line)
             vals == Put(c.vals, name, value)
             idx == Put(c.idx, name, Len(c.lines) + 1)
  <2>1. d = [lines |-> lines, vals |-> vals, idx |-> idx] BY <1>5 DEF Set
  <2>2. Coherent(lines, idx, vals) BY <1>1, <1>2, AppendedCounts
  <2>3. /\ lines[Len(c.lines) + 1] = line /\ Len(lines) = Len(c.lines) + 1
        /\ \A i \in 1..Len(c.lines) : lines[i] = c.lines[i]
    BY <1>3
  <2>4. /\ DOMAIN idx = DOMAIN c.idx \union {name} /\ idx[name] = Len(c.lines) + 1
        /\ \A other \in DOMAIN c.idx : idx[other] = c.idx[other]
    BY <1>5 DEF Put
  <2> HIDE DEF d, lines, vals, line, idx
  <2>5. d.lines = lines /\ d.vals = vals /\ d.idx = idx BY <2>1
  <2>6. CoherentConf(d) BY <2>1, <2>2, <2>5 DEF CoherentConf
  <2> QED BY <1>5, <2>3, <2>4, <2>5, <2>6 DEF d, line
<1> QED BY <1>4, <1>5

\* kconfig reads what the option was set to, and of the others what it read.
LEMMA SetIsRead ==
  ASSUME NEW c, CoherentConf(c), NEW name \in Options, NEW value \in OptionValues
  PROVE  /\ Kconfig(Set(c, name, value).lines, name) = IF value = "" THEN No ELSE value
         /\ \A other \in Options \ {name} :
              Kconfig(Set(c, name, value).lines, other) = Kconfig(c.lines, other)
<1> DEFINE d == Set(c, name, value)
<1>1. /\ CoherentConf(d)
      /\ DOMAIN d.idx = DOMAIN c.idx \union {name}
      /\ \A other \in DOMAIN c.idx : d.idx[other] = c.idx[other]
      /\ d.lines[d.idx[name]] = format(name, value)
      /\ \A i \in 1..Len(c.lines) : i # d.idx[name] => d.lines[i] = c.lines[i]
  BY SetIs
<1> HIDE DEF d
<1>2. /\ c.lines \in Seq(ConfigLines) /\ IndexOf(c.lines, c.idx)
      /\ d.lines \in Seq(ConfigLines) /\ IndexOf(d.lines, d.idx)
  BY <1>1 DEF CoherentConf, Coherent
<1>3. Kconfig(d.lines, name) = IF value = "" THEN No ELSE value
  <2>1. Kconfig(d.lines, name) = Value(d.lines[d.idx[name]]) BY <1>1, <1>2, KconfigIs
  <2>2. Value(format(name, value)) = IF value = "" THEN No ELSE value BY FormatIs
  <2> QED BY <1>1, <2>1, <2>2
<1>4. ASSUME NEW other \in Options \ {name}
      PROVE  Kconfig(d.lines, other) = Kconfig(c.lines, other)
  <2>1. CASE other \notin DOMAIN c.idx
    <3>1. other \notin DOMAIN d.idx BY <1>1, <2>1
    <3>2. Kconfig(c.lines, other) = No BY <1>2, <2>1, KconfigIs
    <3>3. Kconfig(d.lines, other) = No BY <1>2, <3>1, KconfigIs
    <3> QED BY <3>2, <3>3
  <2>2. CASE other \in DOMAIN c.idx
    <3>1. other \in DOMAIN d.idx /\ d.idx[other] = c.idx[other] BY <1>1, <2>2
    <3>2. c.idx[other] \in Said(c.lines, other) BY <1>2, <2>2 DEF IndexOf
    <3>3. d.idx[other] \in Said(d.lines, other) /\ d.idx[name] \in Said(d.lines, name)
      BY <1>1, <1>2, <3>1 DEF IndexOf
    <3>4. d.lines[d.idx[other]].name = other /\ d.lines[d.idx[name]].name = name
      BY <3>3 DEF Said
    <3>5. c.idx[other] \in 1..Len(c.lines) /\ c.idx[other] # d.idx[name]
      BY <1>2, <3>1, <3>2, <3>4, SaidIs
    <3>6. d.lines[d.idx[other]] = c.lines[c.idx[other]] BY <1>1, <3>1, <3>5
    <3>7. Kconfig(c.lines, other) = Value(c.lines[c.idx[other]]) BY <1>2, <2>2, KconfigIs
    <3>8. Kconfig(d.lines, other) = Value(d.lines[d.idx[other]]) BY <1>2, <3>1, KconfigIs
    <3> QED BY <3>6, <3>7, <3>8
  <2> QED BY <2>1, <2>2
<1> QED BY <1>3, <1>4 DEF d

\* So an edit changes what is wanted.
LEMMA WantedNow ==
  ASSUME edits \in Seq(Edits), NEW name \in Options, NEW value \in OptionValues,
         edits' = Append(edits, [name |-> name, value |-> value]), data' = data
  PROVE  /\ Wanted(name)' = IF value = "" THEN No ELSE value
         /\ \A other \in Options \ {name} : Wanted(other)' = Wanted(other)
         /\ NamesSet' = NamesSet \union {name}
<1> DEFINE last == Len(edits) + 1
           asked(other) == {i \in DOMAIN edits : edits[i].name = other}
           askedNow(other) == {i \in DOMAIN edits' : edits'[i].name = other}
<1>1. /\ Len(edits) \in Nat /\ DOMAIN edits = 1..Len(edits) /\ DOMAIN edits' = 1..last
      /\ edits'[last] = [name |-> name, value |-> value]
      /\ \A i \in 1..Len(edits) : edits'[i] = edits[i]
  OBVIOUS
<1>2. edits'[last].name = name /\ edits'[last].value = value
  BY <1>1
<1>3. 1..last = (1..Len(edits)) \union {last} /\ last \notin 1..Len(edits)
  BY <1>1
<1>4. last \in askedNow(name) /\ \A i \in askedNow(name) : i <= last
  BY <1>1, <1>2, <1>3
<1>5. Max(askedNow(name)) = last
  <2>1. askedNow(name) \in SUBSET Nat BY <1>1
  <2> HIDE DEF askedNow
  <2> QED BY <1>4, <2>1, MaxIs
<1>6. Wanted(name)' = IF value = "" THEN No ELSE value
  <2>1. askedNow(name) # {} BY <1>4
  <2> QED BY <1>2, <1>5, <2>1 DEF Wanted
<1>7. ASSUME NEW other \in Options \ {name} PROVE Wanted(other)' = Wanted(other)
  <2>1. askedNow(other) = asked(other) BY <1>1, <1>2, <1>3
  <2>2. asked(other) # {} => Max(asked(other)) \in asked(other)
    <3>1. asked(other) \in SUBSET (1..Len(edits)) BY <1>1
    <3> HIDE DEF asked
    <3> QED BY <1>1, <3>1, ByLine!SubsetHasMax DEF ByLine!Max, Max
  <2>3. asked(other) # {} => edits'[Max(asked(other))] = edits[Max(asked(other))]
    BY <1>1, <2>2
  <2>4. Kconfig(data, other)' = Kconfig(data, other) BY DEF Kconfig, Said
  <2> QED BY <2>1, <2>3, <2>4 DEF Wanted
<1>8. NamesSet' = NamesSet \union {name}
  BY <1>1, <1>2, <1>3 DEF NamesSet
<1> QED BY <1>6, <1>7, <1>8

-----------------------------------------------------------------------------
(* The theorem.                                                            *)

LEMMA InvFromTheFile == ConfigInit => ConfigInv
<1> SUFFICES ASSUME ConfigInit PROVE ConfigInv
  OBVIOUS
<1>1. data \in Seq(ConfigLines) /\ conf = Parse(data) /\ edits = <<>>
  BY ConfigAssumption DEF ConfigInit
<1>2. CoherentConf(conf) /\ conf.lines = data
  BY <1>1, ParseIs
<1>3. edits \in Seq(Edits) /\ NamesSet = {}
  BY <1>1 DEF NamesSet
<1>4. IsFiniteSet(NamesSet) /\ Cardinality(NamesSet \ NamesRead) = 0
  <2>1. NamesSet \ NamesRead = {} BY <1>3
  <2> QED BY <1>3, <2>1, FS_EmptySet
<1>5. DOMAIN conf.idx = NamesRead \union NamesSet
  BY <1>2, <1>3 DEF CoherentConf, Coherent, IndexOf, NamesRead
<1>6. \A name \in Options : Kconfig(conf.lines, name) = Wanted(name)
  <2>1. \A name \in Options : {i \in DOMAIN edits : edits[i].name = name} = {} BY <1>1
  <2> QED BY <1>2, <2>1 DEF Wanted
<1>7. Len(data) \in Nat BY <1>1
<1> QED BY <1>1, <1>2, <1>3, <1>4, <1>5, <1>6, <1>7 DEF ConfigInv

LEMMA InvGoesOn == ConfigInv /\ [ConfigNext]_configVars => ConfigInv'
<1> SUFFICES ASSUME ConfigInv, [ConfigNext]_configVars PROVE ConfigInv'
  OBVIOUS
<1>1. CASE UNCHANGED configVars
  BY <1>1 DEF ConfigInv, configVars, Wanted, NamesSet, NamesRead
<1>2. CASE ConfigNext
  <2> PICK name \in Options, value \in OptionValues : SetOption(name, value)
    BY <1>2 DEF ConfigNext
  <2> DEFINE edit == [name |-> name, value |-> value]
  <2>1. conf' = Set(conf, name, value) /\ edits' = Append(edits, edit) /\ data' = data
    BY DEF SetOption
  <2>2. /\ data \in Seq(ConfigLines) /\ edits \in Seq(Edits) /\ CoherentConf(conf)
        /\ Len(data) \in Nat /\ Len(conf.lines) \in Nat /\ Len(data) <= Len(conf.lines)
        /\ conf.lines \in Seq(ConfigLines)
    BY DEF ConfigInv, CoherentConf, Coherent
  <2>3. /\ CoherentConf(conf')
        /\ DOMAIN conf'.idx = DOMAIN conf.idx \union {name}
        /\ conf'.lines[conf'.idx[name]] = format(name, value)
        /\ Len(conf'.lines) = IF name \in DOMAIN conf.idx THEN Len(conf.lines) ELSE Len(conf.lines) + 1
        /\ \A i \in 1..Len(conf.lines) : i # conf'.idx[name] => conf'.lines[i] = conf.lines[i]
        /\ name \in DOMAIN conf.idx => conf'.idx[name] = conf.idx[name]
    <3> DEFINE d == Set(conf, name, value)
    <3>1. /\ CoherentConf(d)
          /\ DOMAIN d.idx = DOMAIN conf.idx \union {name}
          /\ d.lines[d.idx[name]] = format(name, value)
          /\ Len(d.lines) = IF name \in DOMAIN conf.idx THEN Len(conf.lines) ELSE Len(conf.lines) + 1
          /\ \A i \in 1..Len(conf.lines) : i # d.idx[name] => d.lines[i] = conf.lines[i]
          /\ \A other \in DOMAIN conf.idx : d.idx[other] = conf.idx[other]
      <4>1. CoherentConf(conf) BY <2>2
      <4> QED BY <4>1, SetIs
    <3>2. conf' = d BY <2>1
    <3> HIDE DEF d
    <3> QED BY <3>1, <3>2
  <2>4. /\ Wanted(name)' = IF value = "" THEN No ELSE value
        /\ \A other \in Options \ {name} : Wanted(other)' = Wanted(other)
        /\ NamesSet' = NamesSet \union {name}
    BY <2>1, <2>2, WantedNow
  <2>5. NamesRead' = NamesRead BY <2>1 DEF NamesRead, Said
  <2>6. data' \in Seq(ConfigLines) /\ edits' \in Seq(Edits)
    <3>1. edit \in Edits BY DEF Edits
    <3> HIDE DEF edit
    <3> QED BY <2>1, <2>2, <3>1
  <2>7. Len(data)' <= Len(conf'.lines) BY <2>1, <2>2, <2>3
  <2>8. (\A i \in DOMAIN data : conf.lines[i] # data[i] => Says(data[i]) /\ data[i].name \in NamesSet)'
    <3> SUFFICES ASSUME NEW i \in DOMAIN data, conf'.lines[i] # data[i]
                 PROVE  Says(data[i]) /\ data[i].name \in NamesSet \union {name}
      BY <2>1, <2>4
    <3>1. i \in 1..Len(conf.lines) BY <2>2
    <3>2. CASE conf.lines[i] # data[i] BY <3>2 DEF ConfigInv
    <3>3. CASE conf.lines[i] = data[i]
      <4>1. i = conf'.idx[name] BY <2>3, <3>1, <3>3
      <4>2. name \in DOMAIN conf.idx
        <5> SUFFICES ASSUME name \notin DOMAIN conf.idx PROVE FALSE OBVIOUS
        <5>1. conf'.idx[name] = Len(conf.lines) + 1 BY <2>1 DEF Set, Put
        <5> QED BY <2>2, <3>1, <4>1, <5>1
      <4>3. i \in Said(conf.lines, name)
        BY <2>2, <2>3, <4>1, <4>2 DEF CoherentConf, Coherent, IndexOf
      <4> QED BY <3>3, <4>3 DEF Said
    <3> QED BY <3>2, <3>3
  <2>9. DOMAIN conf'.idx = NamesRead' \union NamesSet'
    BY <2>3, <2>4, <2>5 DEF ConfigInv
  <2>10. IsFiniteSet(NamesSet') BY <2>4, FS_AddElement DEF ConfigInv
  <2>11. Len(conf'.lines) = Len(data') + Cardinality(NamesSet' \ NamesRead')
    <3> DEFINE added == NamesSet \ NamesRead
    <3>1. /\ IsFiniteSet(added) /\ Len(conf.lines) = Len(data) + Cardinality(added)
          /\ DOMAIN conf.idx = NamesRead \union NamesSet
      BY FS_Subset DEF ConfigInv
    <3>2. Cardinality(added) \in Nat BY <3>1, FS_CardinalityType
    <3>3. CASE name \in DOMAIN conf.idx
      <4>1. NamesSet' \ NamesRead' = added BY <2>4, <2>5, <3>1, <3>3
      <4> QED BY <2>1, <2>3, <3>1, <3>3, <4>1
    <3>4. CASE name \notin DOMAIN conf.idx
      <4>1. NamesSet' \ NamesRead' = added \union {name} /\ name \notin added
        BY <2>4, <2>5, <3>1, <3>4
      <4> HIDE DEF added
      <4>2. Cardinality(added \union {name}) = Cardinality(added) + 1
        BY <3>1, <4>1, FS_AddElement
      <4>3. Len(conf'.lines) = Len(conf.lines) + 1 BY <2>3, <3>4
      <4>4. Len(conf'.lines) = Len(data) + (Cardinality(added) + 1)
        BY <2>2, <3>1, <3>2, <4>3
      <4>5. Cardinality(NamesSet' \ NamesRead') = Cardinality(added) + 1 BY <4>1, <4>2
      <4> QED BY <2>1, <4>4, <4>5
    <3> QED BY <3>3, <3>4
  <2>12. ASSUME NEW other \in Options PROVE Kconfig(conf'.lines, other) = Wanted(other)'
    <3>1. /\ Kconfig(conf'.lines, name) = IF value = "" THEN No ELSE value
          /\ other # name => Kconfig(conf'.lines, other) = Kconfig(conf.lines, other)
      <4> DEFINE d == Set(conf, name, value)
      <4>1. /\ Kconfig(d.lines, name) = IF value = "" THEN No ELSE value
            /\ \A o \in Options \ {name} : Kconfig(d.lines, o) = Kconfig(conf.lines, o)
        <5>1. CoherentConf(conf) BY <2>2
        <5> QED BY <5>1, SetIsRead
      <4>2. conf' = d BY <2>1
      <4> HIDE DEF d
      <4> QED BY <4>1, <4>2
    <3>2. Kconfig(conf.lines, other) = Wanted(other) BY DEF ConfigInv
    <3> QED BY <2>4, <3>1, <3>2
  <2> QED BY <2>3, <2>6, <2>7, <2>8, <2>9, <2>10, <2>11, <2>12 DEF ConfigInv
<1> QED BY <1>1, <1>2

LEMMA InvSaysIt == ConfigInv => ConfigEditsAreRead
<1> SUFFICES ASSUME ConfigInv PROVE ConfigEditsAreRead
  OBVIOUS
<1>1. conf.lines \in Seq(ConfigLines) /\ IndexOf(conf.lines, conf.idx)
      /\ ValuesOf(conf.lines, conf.idx, conf.vals)
  BY DEF ConfigInv, CoherentConf, Coherent
<1>2. ASSUME NEW name \in Options
      PROVE  Get(conf, name) \in {Kconfig(Bytes(conf), name), ""}
  <2>1. DOMAIN conf.vals = DOMAIN conf.idx BY <1>1 DEF ValuesOf
  <2>2. CASE name \notin DOMAIN conf.idx
    BY <1>1, <2>1, <2>2, KconfigIs DEF Get, Bytes
  <2>3. CASE name \in DOMAIN conf.idx
    <3>1. Kconfig(conf.lines, name) = Value(conf.lines[conf.idx[name]])
      BY <1>1, <2>3, KconfigIs
    <3>2. conf.vals[name] # Value(conf.lines[conf.idx[name]]) => conf.vals[name] = ""
      BY <1>1, <2>3 DEF ValuesOf, Keeps
    <3> QED BY <2>1, <2>3, <3>1, <3>2 DEF Get, Bytes
  <2> QED BY <2>2, <2>3
<1> QED BY <1>2 DEF ConfigInv, ConfigEditsAreRead, Bytes

\* kconfig reads from the file that is written the value set last for each option,
\* and for the others what it read from the file as it was, however often a line
\* says something of an option and however many edits follow; only lines on options
\* that were set are changed, and one is added for each option that had none. It is
\* what a build relies on when it sets its overrides in the .config of defconfig
\* (config.Parse, Config.Set, Config.Bytes; build.make).
THEOREM EditsAreRead == ConfigSpec => []ConfigEditsAreRead
<1>1. ConfigInit => ConfigInv BY InvFromTheFile
<1>2. ConfigInv /\ [ConfigNext]_configVars => ConfigInv' BY InvGoesOn
<1>3. ConfigInv => ConfigEditsAreRead BY InvSaysIt
<1> QED BY <1>1, <1>2, <1>3, PTL DEF ConfigSpec
=============================================================================
