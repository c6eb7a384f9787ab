----------------------------- MODULE ConfigFile -----------------------------
(***************************************************************************)
(* The editor of a kernel's .config (internal/config/config.go): the file  *)
(* as the sequence of its lines, parsed once, changed in place, and        *)
(* written back.  A line sets an option, says that it is not set, or is    *)
(* anything else; a value is a tristate or the text of a string option.    *)
(*                                                                         *)
(* A behaviour is that of one file: it is read, and options are set in it  *)
(* one after the other, as make of internal/build/builder.go does with the *)
(* overrides of a build.  What Bytes makes of it at any moment is written. *)
(***************************************************************************)
EXTENDS Naturals, SequencesExt, FiniteSetsExt

CONSTANTS
  Options,       \* the names of options
  OptionValues,  \* what they are set to
  ConfigFiles,   \* the files that may be read
  MaxEdits       \* a bound on the number of options set

Yes == "y"
Module == "m"
No == "n"

Assign(name, value) == [form |-> "assign", name |-> name, value |-> value]
IsNotSet(name) == [form |-> "not set", name |-> name]
Comment == [form |-> "comment"]

ConfigLines ==
  [form : {"assign"}, name : Options, value : OptionValues]
    \union [form : {"not set"}, name : Options] \union {Comment}

ASSUME ConfigAssumption ==
  /\ ConfigFiles \subseteq Seq(ConfigLines)
  /\ MaxEdits \in Nat

VARIABLES
  data,   \* the lines that were read
  conf,   \* the editor: the lines, the value of each option and its line
  edits   \* what has been set, in order
configVars == <<data, conf, edits>>

\* What a line says of an option: parseLine.  Quotes around a value go.
Says(line) == line.form # "comment"
Value(line) == IF line.form = "assign" THEN line.value ELSE No

-----------------------------------------------------------------------------
(* The editor.                                                             *)

New == [lines |-> <<>>, vals |-> <<>>, idx |-> <<>>]

\* f, with x -> y put in or replaced.
Put(f, x, y) == [z \in DOMAIN f \union {x} |-> IF z = x THEN y ELSE f[z]]

\* Mutant of appendRaw: the first line of an option counts.
appendRawFirst(c, raw) ==
  LET lines == Append(c.lines, raw)
  IN  IF ~Says(raw) \/ raw.name \in DOMAIN c.idx THEN [c EXCEPT !.lines = lines]
      ELSE [lines |-> lines, vals |-> Put(c.vals, raw.name, Value(raw)),
            idx |-> Put(c.idx, raw.name, Len(lines))]

appendRaw(c, raw) ==
  LET lines == Append(c.lines, raw)
  IN  IF ~Says(raw) THEN [c EXCEPT !.lines = lines]
      ELSE [lines |-> lines, vals |-> Put(c.vals, raw.name, Value(raw)),
            idx |-> Put(c.idx, raw.name, Len(lines))]

\* Lines are shorter than the megabyte at which the scanner gives up with an error.
Parse(text) == FoldLeft(appendRaw, New, text)

format(name, value) == IF value \in {No, ""} THEN IsNotSet(name) ELSE Assign(name, value)

Set(c, name, value) ==
  IF name \in DOMAIN c.idx
  THEN [c EXCEPT !.lines[c.idx[name]] = format(name, value), !.vals[name] = value]
  ELSE [lines |-> Append(c.lines, format(name, value)), vals |-> Put(c.vals, name, value),
        idx |-> Put(c.idx, name, Len(c.lines) + 1)]

Get(c, name) == IF name \in DOMAIN c.vals THEN c.vals[name] ELSE No

Bytes(c) == c.lines

ConfigInit ==
  /\ data \in ConfigFiles
  /\ conf = Parse(data)
  /\ edits = <<>>

SetOption(name, value) ==
  /\ Len(edits) < MaxEdits
  /\ conf' = Set(conf, name, value)
  /\ edits' = Append(edits, [name |-> name, value |-> value])
  /\ UNCHANGED data

ConfigNext == \E name \in Options, value \in OptionValues : SetOption(name, value)

ConfigSpec == ConfigInit /\ [][ConfigNext]_configVars

-----------------------------------------------------------------------------
(* What kconfig makes of a file: of the lines on an option the last        *)
(* counts.                                                                 *)

Said(lines, name) == {i \in DOMAIN lines : Says(lines[i]) /\ lines[i].name = name}

Kconfig(lines, name) ==
  IF Said(lines, name) = {} THEN No ELSE Value(lines[Max(Said(lines, name))])

\* The value an option was set to last, or what the file had.
Wanted(name) ==
  LET asked == {i \in DOMAIN edits : edits[i].name = name}
  IN  IF asked = {} THEN Kconfig(data, name)
      ELSE IF edits[Max(asked)].value = "" THEN No ELSE edits[Max(asked)].value

NamesSet == {edits[k].name : k \in DOMAIN edits}
NamesRead == {name \in Options : Said(data, name) # {}}

\* Whatever a file holds, options that occur several times and options it says
\* are not set among it: after any edits kconfig reads for each option the value
\* set last, and for the others what it read before; the editor's own view is
\* the one kconfig has, except that an option set to nothing reads back as "n";
\* lines are changed in place, for an option that was set, and none goes; and
\* one is added for each option that was set and that the file did not have.
ConfigEditsAreRead ==
  /\ \A name \in Options :
       /\ Kconfig(Bytes(conf), name) = Wanted(name)
       /\ Get(conf, name) \in {Kconfig(Bytes(conf), name), ""}
  /\ \A i \in DOMAIN data :
       Bytes(conf)[i] # data[i] => Says(data[i]) /\ data[i].name \in NamesSet
  /\ Len(Bytes(conf)) = Len(data) + Cardinality(NamesSet \ NamesRead)
=============================================================================
