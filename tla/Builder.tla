------------------------------ MODULE Builder -------------------------------
(***************************************************************************)
(* "kbake build" (Run of internal/cli/build/build.go) and the Builder it   *)
(* drives (internal/build/builder.go): for one architecture after another  *)
(* a tree is made from the sources and the actions of the Kernelfile,      *)
(* configured, compiled and pushed to the local store; then the index is   *)
(* pushed and tagged.  Builds follow each other on one store, each by a    *)
(* process of its own, with a work directory and a log of its own.         *)
(*                                                                         *)
(* Every step may fail, and the process may be killed between two steps,   *)
(* when Faults says so.  A canceled context stops the commands it is given *)
(* to, which are those of make, and may stop an access to the store.       *)
(***************************************************************************)
EXTENDS Kernelfile, KernelImages

CONSTANTS
  Documents,  \* the Kernelfiles to build
  Requests,   \* the sequences of architectures to build them for
  TagLists,   \* the sequences of tags to give to the results
  Tags,
  Faults,     \* a subset of {"fail", "cancel", "kill"}
  MaxBuilds   \* a bound on the number of builds

ASSUME BuilderAssumption ==
  /\ Documents \subseteq Kernelfiles
  /\ Requests \subseteq Seq(Archs)
  /\ TagLists \subseteq Seq(Tags)
  /\ Faults \subseteq {"fail", "cancel", "kill"}
  /\ MaxBuilds \in Nat

VARIABLES
  store, tags,   \* the local store: its blobs, and what its tags name
  pc,            \* where the build is
  file, asked, names, keepWork,  \* what it was asked: document, architectures,
                 \* tags, and whether to keep the work directory
  archs, n,      \* the sorted architectures, and which one, or which tag, is next
  work,          \* whether the work directory is there
  tree,          \* architecture -> its tree: the files and the .config, or None
  cfg,           \* the overrides of the current architecture
  image,         \* what its kernel and modules have been compiled from
  pushed,        \* the layers and the configuration pushed for it
  descs,         \* the manifests of the architectures done
  built,         \* the index, or NoIndex
  log,           \* whether the log is there
  shown,         \* whether the user is told where the work directory is
  canceled, answer, builds

request == <<file, asked, names, keepWork>>
results == <<pushed, descs, built>>
command == <<log, shown, canceled, answer, builds>>
vars == <<store, tags, pc, file, asked, names, keepWork, archs, n, work, tree, cfg, image,
          pushed, descs, built, log, shown, canceled, answer, builds>>

Locations ==
  {"idle", "log", "work", "arch", "tree", "from", "actions", "defconfig", "apply", "compile",
   "kernel", "modules", "config", "manifest", "tag"}

NoCfg == [m \in Names |-> None]
NoFiles == [p \in Paths |-> None]
NoTrees == [a \in Archs |-> None]

TypeOK ==
  /\ pc \in Locations
  /\ file \in Documents \union {None}
  /\ asked \in Seq(Archs) /\ archs \in Seq(Archs) /\ names \in Seq(Tags)
  /\ n \in Nat
  /\ {work, keepWork, log, shown, canceled} \subseteq BOOLEAN
  /\ tree \in [Archs -> [files : Files, config : Configs \union {None}] \union {None}]
  /\ cfg \in Overrides
  /\ image = None \/ (image.files \in Files /\ image.config \in Configs)
  /\ \A i \in DOMAIN pushed : pushed[i] \in store
  /\ \A i \in DOMAIN descs : descs[i].arch = archs[i]
  /\ DOMAIN tags = Tags
  /\ built \in store \union {NoIndex}
  /\ answer \in {"none", "ok", "failed"}
  /\ builds \in 0..MaxBuilds

Init ==
  /\ store = {} /\ tags = [t \in Tags |-> NoIndex]
  /\ pc = "idle"
  /\ file = None /\ asked = <<>> /\ names = <<>> /\ keepWork = FALSE
  /\ archs = <<>> /\ n = 1
  /\ work = FALSE /\ tree = NoTrees
  /\ cfg = NoCfg /\ image = None /\ pushed = <<>> /\ descs = <<>> /\ built = NoIndex
  /\ log = FALSE /\ shown = FALSE /\ canceled = FALSE
  /\ answer = "failed"
  /\ builds = 0

Goto(from, to) == pc = from /\ pc' = to

-----------------------------------------------------------------------------
(* The command and the head of Build.                                      *)

\* The Kernelfile is read; nothing is left of the process before.
Start(f, r, t, keep) ==
  /\ Goto("idle", "log") /\ builds < MaxBuilds
  /\ file' = f /\ asked' = r /\ names' = t /\ keepWork' = keep
  /\ archs' = <<>> /\ n' = 1
  /\ work' = FALSE /\ tree' = NoTrees /\ canceled' = FALSE
  /\ log' = FALSE /\ shown' = FALSE
  /\ cfg' = NoCfg /\ image' = None /\ pushed' = <<>> /\ descs' = <<>> /\ built' = NoIndex
  /\ answer' = "none"
  /\ builds' = builds + 1
  /\ UNCHANGED <<store, tags>>

CreateLog ==
  /\ Goto("log", "work")
  /\ log' = TRUE
  /\ UNCHANGED <<store, tags, request, archs, n, work, tree, cfg, image, results, shown, canceled,
                 answer, builds>>

\* Mutant of MakeWork: the architectures are left in the order they came in.
MakeWorkUnsorted ==
  /\ Goto("work", "arch")
  /\ asked # <<>> /\ archs' = asked
  /\ work' = TRUE
  /\ UNCHANGED <<store, tags, request, n, tree, cfg, image, results, command>>

MakeWork ==
  /\ Goto("work", "arch")
  /\ asked # <<>>
  /\ \E t \in [DOMAIN asked -> Archs] : Sorted(asked, t) /\ archs' = t
  /\ work' = TRUE
  /\ UNCHANGED <<store, tags, request, n, tree, cfg, image, results, command>>

-----------------------------------------------------------------------------
(* One architecture.  Its tree is there already when it was asked for      *)
(* twice, for the directory is named after it.                             *)

arch == archs[n]

MakeArch ==
  /\ Goto("arch", "tree") /\ n <= Len(archs)
  /\ UNCHANGED <<store, tags, request, archs, n, work, tree, cfg, image, results, command>>

MakeTree ==
  /\ Goto("tree", "from")
  /\ tree' = [tree EXCEPT ![arch] = IF @ = None THEN [files |-> NoFiles, config |-> None] ELSE @]
  /\ UNCHANGED <<store, tags, request, archs, n, work, cfg, image, results, command>>

\* fetchRef is not implemented.
From ==
  /\ Goto("from", "actions")
  /\ file.from # "ref"
  /\ tree' = [tree EXCEPT ![arch].files =
       [p \in Paths |-> IF file.from = "git" /\ p \in SourceHas THEN "source" ELSE @[p]]]
  /\ UNCHANGED <<store, tags, request, archs, n, work, cfg, image, results, command>>

EvaluateActions ==
  /\ Goto("actions", "defconfig")
  /\ LET s == Evaluate(file, arch, tree[arch].files)
     IN  cfg' = s.cfg /\ tree' = [tree EXCEPT ![arch].files = s.files]
  /\ UNCHANGED <<store, tags, request, archs, n, work, image, results, command>>

RunDefconfig ==
  /\ Goto("defconfig", "apply") /\ ~canceled
  /\ tree' = [tree EXCEPT ![arch].config = Defconfig[arch]]
  /\ UNCHANGED <<store, tags, request, archs, n, work, cfg, image, results, command>>

\* The overrides are a Go map: of two names for one option either is set last.
Apply ==
  /\ Goto("apply", "compile")
  /\ \E c \in Configs :
       /\ \A s \in Symbols :
            LET M == {m \in Names : Canon[m] = s /\ cfg[m] # None}
            IN  IF M = {} THEN c[s] = tree[arch].config[s] ELSE \E m \in M : c[s] = cfg[m]
       /\ tree' = [tree EXCEPT ![arch].config = c]
  /\ UNCHANGED <<store, tags, request, archs, n, work, cfg, image, results, command>>

\* olddefconfig, the compilation and modules_install.
Compile ==
  /\ Goto("compile", "kernel") /\ ~canceled
  /\ image' = tree[arch]
  /\ UNCHANGED <<store, tags, request, archs, n, work, tree, cfg, results, command>>

\* Mutant of Push: the error of the store is ignored.
PushUnchecked(b) ==
  /\ store' \in {store, store \union {b}}
  /\ pushed' = Append(pushed, b)
  /\ UNCHANGED <<tags, request, archs, n, work, tree, cfg, image, descs, built, command>>

\* A blob the store has already is no error.
Push(b) ==
  /\ store' = store \union {b}
  /\ pushed' = Append(pushed, b)
  /\ UNCHANGED <<tags, request, archs, n, work, tree, cfg, image, descs, built, command>>

PushKernel == Goto("kernel", "modules") /\ Push(Layer("kernel", arch, image))
PushModules == Goto("modules", "config") /\ Push(Layer("modules", arch, image))
PushConfig == Goto("config", "manifest") /\ Push(ConfigBlob(arch, cfg))

PackManifest ==
  /\ Goto("manifest", "arch")
  /\ LET m == Manifest(pushed[3], <<pushed[1], pushed[2]>>)
     IN  /\ store' = store \union {m}
         /\ descs' = Append(descs, [arch |-> arch, manifest |-> m])
  /\ pushed' = <<>>
  /\ n' = n + 1
  /\ UNCHANGED <<tags, request, archs, work, tree, cfg, image, built, command>>

-----------------------------------------------------------------------------
(* The index, the tags and the end.                                        *)

\* Mutant of PushIndex: the index is answered before it is pushed.
PushIndexLater ==
  /\ Goto("arch", "tag") /\ n > Len(archs)
  /\ built' = Index(descs)
  /\ n' = 1
  /\ work' = (work /\ keepWork)
  /\ UNCHANGED <<store, tags, request, archs, tree, cfg, image, pushed, descs, command>>

\* Build returns: its work directory goes unless it is to be kept.
PushIndex ==
  /\ Goto("arch", "tag") /\ n > Len(archs)
  /\ built' = Index(descs)
  /\ store' = store \union {built'}
  /\ n' = 1
  /\ work' = (work /\ keepWork)
  /\ UNCHANGED <<tags, request, archs, tree, cfg, image, pushed, descs, command>>

TagNext ==
  /\ Goto("tag", "tag") /\ n <= Len(names)
  /\ tags' = [tags EXCEPT ![names[n]] = built]
  /\ n' = n + 1
  /\ UNCHANGED <<store, request, archs, work, tree, cfg, image, results, command>>

Succeed ==
  /\ Goto("tag", "idle") /\ n > Len(names)
  /\ answer' = "ok"
  /\ log' = FALSE /\ shown' = keepWork
  /\ UNCHANGED <<store, tags, request, archs, n, work, tree, cfg, image, results, canceled, builds>>

\* What can go wrong here: anything, if Faults says so; what the context stops;
\* a base that is a reference, and no architecture at all.
MayFail ==
  \/ "fail" \in Faults
  \/ canceled /\ pc \in {"defconfig", "compile", "kernel", "modules", "config", "manifest", "tag"}
  \/ canceled /\ pc = "arch" /\ n > Len(archs)
  \/ pc = "from" /\ file.from = "ref"
  \/ pc = "work" /\ asked = <<>>

\* The directory is not handed to the caller by the returns before and in MakeArch: a
\* build that cannot make the directory of an architecture leaves it and says not where.
Told == keepWork /\ pc \notin {"log", "work"} /\ (pc = "arch" => n > Len(archs))

\* Mutant of Fail: the work directory is removed only on success.
FailKeepsWork ==
  /\ pc # "idle" /\ MayFail
  /\ pc' = "idle" /\ answer' = "failed" /\ shown' = Told
  /\ UNCHANGED <<store, tags, request, archs, n, work, tree, cfg, image, results, log, canceled, builds>>

\* Mutant of Fail: a failing step is tried again.
FailRetries ==
  /\ pc # "idle" /\ MayFail
  /\ shown' = Told
  /\ pc' = IF pc = "from" THEN "from" ELSE "idle"
  /\ answer' = IF pc = "from" THEN "none" ELSE "failed"
  /\ UNCHANGED <<store, tags, request, archs, n, work, tree, cfg, image, results, log, canceled, builds>>

\* A step fails, and everything above it returns.  The deferred RemoveAll of the work
\* directory is taken to succeed.
Fail ==
  /\ pc # "idle" /\ MayFail
  /\ pc' = "idle" /\ answer' = "failed" /\ shown' = Told
  /\ work' = (work /\ keepWork)
  /\ UNCHANGED <<store, tags, request, archs, n, tree, cfg, image, results, log, canceled, builds>>

Cancel ==
  /\ "cancel" \in Faults /\ pc # "idle" /\ ~canceled
  /\ canceled' = TRUE
  /\ UNCHANGED <<store, tags, pc, request, archs, n, work, tree, cfg, image, results, log, shown,
                 answer, builds>>

Kill ==
  /\ "kill" \in Faults /\ pc # "idle"
  /\ pc' = "idle"
  /\ UNCHANGED <<store, tags, request, archs, n, work, tree, cfg, image, results, command>>

-----------------------------------------------------------------------------
buildTree == MakeArch \/ MakeTree \/ From \/ EvaluateActions
make == RunDefconfig \/ Apply \/ Compile
push == PushKernel \/ PushModules \/ PushConfig \/ PackManifest

Step == \/ CreateLog \/ MakeWork \/ buildTree \/ make \/ push
        \/ PushIndex \/ TagNext \/ Succeed \/ Fail

Next ==
  \/ \E f \in Documents, r \in Requests, t \in TagLists, keep \in BOOLEAN : Start(f, r, t, keep)
  \/ Step \/ Cancel \/ Kill

Spec == Init /\ [][Next]_vars

\* The steps of a build, and the commands it runs, come to an end.
FairSpec == Spec /\ WF_vars(Step)

-----------------------------------------------------------------------------
(* Properties.                                                             *)

\* At every moment, whatever fails or is killed, the store holds all that what
\* it holds refers to, and what its tags name: layers and configuration are
\* pushed before the manifest, manifests before the index, the index before its
\* tags.
StoreClosed ==
  /\ \A b \in store : Refs(b) \subseteq store
  /\ \A t \in Tags : tags[t] \in store \union {NoIndex}

\* The kernel of each architecture is compiled from the files and with the
\* options the Kernelfile asks for by the README, those it takes from a tree
\* the same build has used before included, and the overrides recorded in its
\* image are those that explain its options.
KernelAsWritten ==
  \A i \in DOMAIN descs :
    LET a == descs[i].arch
        m == descs[i].manifest
    IN  /\ \A l \in DOMAIN m.layers :
             m.layers[l].image = [files |-> WrittenFiles(file, a), config |-> WrittenConfig(file, a)]
        /\ \A s \in Symbols :
             WrittenConfig(file, a)[s] # Defconfig[a][s] =>
               \E name \in Names : Canon[name] = s /\ m.config.overrides[name] = WrittenConfig(file, a)[s]

\* What a build that has answered leaves behind: the log exactly if it failed
\* (and had come as far as its first directory), the work directory only if it
\* was to be kept, and then always when it succeeded; and when the user is told where
\* the directory is, it is there.  What is removed is removed: the errors of RemoveAll
\* and Remove, which the code drops, are left out.
Leftovers ==
  pc = "idle" /\ answer # "none" =>
    /\ work => keepWork
    /\ shown => work
    /\ answer = "ok" => ~log /\ work = keepWork
    /\ answer = "failed" /\ archs # <<>> => log

\* Every build that is not killed answers.
BuildAnswers == pc # "idle" ~> pc = "idle"

Due == {names[i] : i \in (IF built = NoIndex THEN 1 ELSE n)..Len(names)}
Promise == INSTANCE BuildStore WITH due <- Due

\* The build implements what BuildStore promises: nothing is stored before what
\* it refers to, and tags move only to the whole index of a build.
ImplementsBuildStore == Promise!Spec
=============================================================================
