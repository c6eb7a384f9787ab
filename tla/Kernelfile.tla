----------------------------- MODULE Kernelfile -----------------------------
(***************************************************************************)
(* What a Kernelfile makes of a kernel tree and its configuration: the     *)
(* decoding of its actions (internal/kernelfile/kernelfile.go) and their   *)
(* evaluation (effectiveActions, evalActions and evalAction of             *)
(* internal/build/builder.go), and, apart from both, what the README says  *)
(* the document means.  A condition is the set of architectures for which  *)
(* it is true; that its evaluation, or a file operation, may fail is a     *)
(* matter of the module that uses this one.                                *)
(***************************************************************************)
EXTENDS Naturals, SequencesExt

CONSTANTS
  Archs,      \* the architectures: numbers, in alphabetical order
  Names,      \* the names of options as documents spell them
  Symbols,    \* the options of the kernel
  Canon,      \* name -> the option it stands for
  Paths,      \* the files that matter
  SourceHas,  \* those the sources have
  Defconfig,  \* architecture -> option -> its value in the default configuration
  None

Values == {"y", "m", "n"}
Contents == {"source", "context", None}
Configs == [Symbols -> Values]
Files == [Paths -> Contents]
Overrides == [Names -> Values \union {None}]

ASSUME KernelfileAssumption ==
  /\ Archs \subseteq Nat
  /\ Canon \in [Names -> Symbols]
  /\ SourceHas \subseteq Paths
  /\ Defconfig \in [Archs -> Configs]
  /\ None \notin Values /\ None \notin {"source", "context"}

-----------------------------------------------------------------------------
(* Documents.  An entry of "actions" is a group of actions, a plain list   *)
(* of them, or one action.                                                 *)

SetConfig(n, v) == [if |-> Archs, op |-> "setConfig", target |-> n, value |-> v]
DeleteConfig(n) == [if |-> Archs, op |-> "deleteConfig", target |-> n, value |-> None]
AddFile(p) == [if |-> Archs, op |-> "addFile", target |-> p, value |-> None]
DeleteFile(p) == [if |-> Archs, op |-> "deleteFile", target |-> p, value |-> None]
When(cond, action) == [action EXCEPT !.if = cond]

Group(cond, actions) == [kind |-> "group", if |-> cond, actions |-> actions]
List(actions) == [kind |-> "list", if |-> Archs, actions |-> actions]
Single(action) == [kind |-> "action", if |-> action.if, actions |-> <<action>>]

FileActions ==
  [if : SUBSET Archs, op : {"addFile", "deleteFile"}, target : Paths, value : {None}]
Actions ==
  [if : SUBSET Archs, op : {"setConfig"}, target : Names, value : Values]
    \union [if : SUBSET Archs, op : {"deleteConfig"}, target : Names, value : {None}]
    \union FileActions

Kernelfiles ==
  [from : {"git", "scratch", "ref"},
   modules : [enable : Seq(Names), builtin : Seq(Names), disable : Seq(Names)],
   options : [enable : Seq(Names), disable : Seq(Names)],
   files : Seq(FileActions),
   actions : Seq([kind : {"group", "list", "action"}, if : SUBSET Archs, actions : Seq(Actions)])]

\* The decoder tries an object with "if" and "actions" first, and json.Unmarshal
\* ignores the members of an object it has no field for.  Documents are well typed: a
\* group with a member of the wrong type, which the code takes for an action that does
\* nothing, is left out.
UnmarshalJSON(e) ==
  [if |-> e.if, actions |-> IF e.kind = "action" THEN <<>> ELSE e.actions]

Each(names, v) == [i \in DOMAIN names |-> SetConfig(names[i], v)]

\* The short forms, modules before options before files.
initActions(f) ==
  Each(f.modules.enable, "m") \o Each(f.modules.builtin, "y") \o Each(f.modules.disable, "n")
    \o Each(f.options.enable, "y") \o Each(f.options.disable, "n") \o f.files

\* Mutant of effectiveActions: the short forms come last.
effectiveActionsLast(f) ==
  LET actions == [i \in DOMAIN f.actions |-> UnmarshalJSON(f.actions[i])]
  IN  Append(actions, [if |-> Archs, actions |-> initActions(f)])

effectiveActions(f) ==
  LET actions == [i \in DOMAIN f.actions |-> UnmarshalJSON(f.actions[i])]
  IN  IF initActions(f) = <<>> THEN actions
      ELSE <<[if |-> Archs, actions |-> initActions(f)]>> \o actions

-----------------------------------------------------------------------------
(* Evaluation, on the overrides collected so far and the files of a tree.  *)

evalAction(a, s, act) ==
  IF a \notin act.if THEN s
  ELSE CASE act.op = "addFile" -> [s EXCEPT !.files[act.target] = "context"]
         [] act.op = "deleteFile" -> [s EXCEPT !.files[act.target] = None]
         [] act.op \in {"setConfig", "deleteConfig"} -> [s EXCEPT !.cfg[act.target] = act.value]

evalActions(a, s, group) ==
  IF a \notin group.if THEN s
  ELSE FoldLeft(LAMBDA t, act : evalAction(a, t, act), s, group.actions)

Evaluate(f, a, files) ==
  FoldLeft(LAMBDA s, group : evalActions(a, s, group),
           [cfg |-> [n \in Names |-> None], files |-> files],
           effectiveActions(f))

-----------------------------------------------------------------------------
(* The meaning of a document: the short forms are "applied before          *)
(* everything in `actions`" (README.md:116-117), which are an "ordered     *)
(* list" (README.md:103); of two actions on the same thing the later wins. *)

Written(f) == <<Group(Archs, initActions(f))>> \o f.actions

\* The places of the actions that are taken for architecture a.
Taken(f, a) ==
  {w \in UNION {{<<i, j>> : j \in DOMAIN Written(f)[i].actions} : i \in DOMAIN Written(f)} :
     a \in Written(f)[w[1]].if \intersect Written(f)[w[1]].actions[w[2]].if}

ActionAt(f, w) == Written(f)[w[1]].actions[w[2]]
Before(v, w) == v[1] < w[1] \/ (v[1] = w[1] /\ v[2] < w[2])
Latest(W) == CHOOSE w \in W : \A v \in W \ {w} : Before(v, w)

OnSymbol(f, a, s) ==
  {w \in Taken(f, a) : /\ ActionAt(f, w).op \in {"setConfig", "deleteConfig"}
                       /\ Canon[ActionAt(f, w).target] = s}
OnFile(f, a, p) ==
  {w \in Taken(f, a) : /\ ActionAt(f, w).op \in {"addFile", "deleteFile"}
                       /\ ActionAt(f, w).target = p}

\* An option without an override keeps its default.
WrittenConfig(f, a) ==
  [s \in Symbols |->
     LET W == OnSymbol(f, a, s)
         v == IF W = {} THEN None ELSE ActionAt(f, Latest(W)).value
     IN  IF v = None THEN Defconfig[a][s] ELSE v]

WrittenFiles(f, a) ==
  [p \in Paths |->
     LET W == OnFile(f, a, p)
     IN  IF W # {} THEN IF ActionAt(f, Latest(W)).op = "addFile" THEN "context" ELSE None
         ELSE IF f.from = "git" /\ p \in SourceHas THEN "source" ELSE None]
=============================================================================
