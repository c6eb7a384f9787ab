------------------------------ MODULE LocalStore ------------------------------
(***************************************************************************)
(* The images of the user (--local-dir) and the commands on them: build    *)
(* (its tagging), tag, rm, pull, push and get kernel, each a process of    *)
(* its own that opens the layout, works and ends (internal/cli), against   *)
(* one registry.                                                           *)
(*                                                                         *)
(* The layout is an oci.Store: blobs, and index.json with the tags.  A     *)
(* process loads index.json once; whenever it tags, untags or pushes an    *)
(* index or a manifest it writes the file from what it has loaded and      *)
(* changed.  Blobs are named by their content, so a blob is its content    *)
(* here.  Processes overlap as the user likes, and any of them may fail or *)
(* be killed between two steps.  The copies are those of CopyGraph, a node *)
(* at a time, bottom up.                                                   *)
(***************************************************************************)
EXTENDS Naturals, FiniteSets, SequencesExt

CONSTANTS
  Procs,
  Archs,
  Commands,     \* what the user may run
  Built,        \* the root that a build stores
  Published,    \* the tags of the registry at first: tag -> root, or NoRoot
  NoRoot,
  MaxCommands   \* a bound on the commands that are run

Layer(arch) == [kind |-> "layer", arch |-> arch]
Manifest(arch) == [kind |-> "manifest", arch |-> arch]
Root(archs) == [kind |-> "index", archs |-> archs]
Roots == [kind : {"index"}, archs : Seq(Archs)]
Blobs == Roots \union [kind : {"manifest", "layer"}, arch : Archs]
Tags == DOMAIN Published

\* What each command does first.
FirstStep == [build |-> "copy", tag |-> "resolve", rm |-> "untag",
              pull |-> "pull", push |-> "resolve", get |-> "resolve"]

\* A build here is of at least one architecture; every command names an image, and
\* tag another one.
ASSUME StoreAssumption ==
  /\ NoRoot \notin Roots
  /\ Published \in [Tags -> Roots \union {NoRoot}]
  /\ Built \in Roots /\ Built.archs # <<>>
  /\ \A cmd \in Commands :
       /\ cmd.op \in DOMAIN FirstStep
       /\ cmd.refs \in Seq(Tags) /\ cmd.refs # <<>>
       /\ cmd.op = "tag" => Tail(cmd.refs) # <<>>

Successors(b) ==
  CASE b.kind = "index" -> [i \in DOMAIN b.archs |-> Manifest(b.archs[i])]
    [] b.kind = "manifest" -> <<Layer(b.arch)>>
    [] b.kind = "layer" -> <<>>

Lists(root, arch) == root # NoRoot /\ \E i \in DOMAIN root.archs : root.archs[i] = arch

\* What is below the roots of tags and present in store.
ReachableIn(tags, store) ==
  LET below(S) == S \union (store \intersect UNION {Range(Successors(b)) : b \in S})
  IN  below(below({tags[t] : t \in Tags} \intersect store))

Complete(root) == {root} \union UNION {{Manifest(a), Layer(a)} : a \in Range(root.archs)}

VARIABLES
  index,        \* index.json: tag -> root, or NoRoot
  blobs,        \* the blobs of the layout
  remoteTags, remoteBlobs,  \* the registry
  job,          \* what each process is doing
  ran,          \* how many commands were started
  done,         \* the last command to end, until another starts
  expected,     \* history: the tags, had every command seen those before it
  alone,        \* history: no two commands have overlapped
  kept          \* history: no garbage collection has overlapped or was cut short

storeVars == <<index, blobs, remoteTags, remoteBlobs, job, ran, done, expected, alone, kept>>

NoCommand == [op |-> "none", refs |-> <<>>, arch |-> ""]

\* refs: the tags that are left to handle; todo: the nodes that are left to copy;
\* expanded: those whose successors come before them in todo; view: the index of
\* the process; root: what it tags; out: what it has printed.
Idle == [pc |-> "idle", cmd |-> NoCommand, view |-> [t \in Tags |-> NoRoot], refs |-> <<>>,
         todo |-> <<>>, expanded |-> {}, root |-> NoRoot, out |-> <<>>]

StoreInit ==
  /\ index = [t \in Tags |-> NoRoot]
  /\ blobs = {}
  /\ remoteTags = Published
  /\ remoteBlobs = UNION {Complete(Published[t]) : t \in {u \in Tags : Published[u] # NoRoot}}
  /\ job = [p \in Procs |-> Idle]
  /\ ran = 0
  /\ done = [cmd |-> NoCommand, result |-> "none", out |-> <<>>]
  /\ expected = index
  /\ alone = TRUE /\ kept = TRUE

Finish(p, result) ==
  /\ job' = [job EXCEPT ![p] = Idle]
  /\ done' = [cmd |-> job[p].cmd, result |-> result, out |-> job[p].out]
  /\ UNCHANGED <<ran, alone>>

Goto(p, next) ==
  /\ job' = [job EXCEPT ![p] = next]
  /\ UNCHANGED <<ran, done, alone>>

local == <<index, blobs, expected, kept>>
remote == <<remoteTags, remoteBlobs>>

-----------------------------------------------------------------------------
(* A command starts: it opens the layout, and goes on with what it does    *)
(* first.  A build has its content at hand, an architecture after another. *)

\* Mutant of localGetter: the layout is taken for a new one.
localGetterNew(i) == [t \in DOMAIN i |-> NoRoot]

\* Every command loads the index as it is when it starts.
localGetter(i) == i

Start(p, cmd) ==
  /\ job[p].pc = "idle" /\ ran < MaxCommands
  /\ LET others == {q \in Procs : job[q].pc # "idle"}
     IN  /\ alone' = (alone /\ others = {})
         /\ kept' = (kept /\ \A q \in others : cmd.op # "rm" /\ job[q].cmd.op # "rm")
  /\ job' = [job EXCEPT ![p] =
       [pc |-> FirstStep[cmd.op], cmd |-> cmd, view |-> localGetter(index), refs |-> cmd.refs,
        todo |-> IF cmd.op = "build" THEN <<Built>> ELSE <<>>, expanded |-> {},
        root |-> IF cmd.op = "build" THEN Built ELSE NoRoot, out |-> <<>>]]
  /\ ran' = ran + 1
  /\ done' = [cmd |-> NoCommand, result |-> "none", out |-> <<>>]
  /\ UNCHANGED <<index, blobs, expected, remote>>

\* A failing disk or registry, or the process is killed.
Abort(p) ==
  /\ job[p].pc # "idle"
  /\ Finish(p, "aborted")
  /\ UNCHANGED <<local, remote>>

-----------------------------------------------------------------------------
(* Resolving a reference: tag, push and get begin with the local index.    *)

Fails(p) == Finish(p, "error") /\ UNCHANGED <<local, remote>>

\* The image for arch that ResolveGraph finds below root: a manifest that is
\* missing is passed over.
Resolved(root, arch, store) == root \in store /\ Lists(root, arch) /\ Manifest(arch) \in store

Resolve(p) ==
  LET ref == Head(job[p].refs)
      root == job[p].view[ref]
  IN  /\ job[p].pc = "resolve"
      /\ CASE job[p].cmd.op = "get" ->
                Goto(p, [job[p] EXCEPT !.pc =
                  IF Resolved(root, job[p].cmd.arch, blobs) THEN "manifest" ELSE "pull"])
           [] job[p].cmd.op # "get" /\ root = NoRoot -> Finish(p, "error")
           [] job[p].cmd.op = "tag" /\ root # NoRoot ->
                Goto(p, [job[p] EXCEPT !.pc = "tag", !.refs = Tail(@), !.root = root])
           [] job[p].cmd.op = "push" /\ root # NoRoot ->
                Goto(p, [job[p] EXCEPT !.pc = "copy", !.todo = <<root>>, !.root = root])
      /\ UNCHANGED <<local, remote>>

\* Mutant of Pull: the content is not copied.
PullTagOnly(p) ==
  LET root == remoteTags[Head(job[p].refs)]
  IN  /\ job[p].pc = "pull"
      /\ IF Resolved(root, job[p].cmd.arch, remoteBlobs)
         THEN Goto(p, [job[p] EXCEPT !.pc = "copy", !.root = root, !.expanded = {root}, !.todo = <<root>>])
         ELSE Finish(p, "error")
      /\ UNCHANGED <<local, remote>>

\* The image of the registry, which is copied with its root but without the
\* other images of the root.
Pull(p) ==
  LET root == remoteTags[Head(job[p].refs)]
  IN  /\ job[p].pc = "pull"
      /\ IF Resolved(root, job[p].cmd.arch, remoteBlobs)
         THEN Goto(p, [job[p] EXCEPT !.pc = "copy", !.root = root, !.expanded = {root},
                                     !.todo = <<Manifest(job[p].cmd.arch), root>>])
         ELSE Finish(p, "error")
      /\ UNCHANGED <<local, remote>>

-----------------------------------------------------------------------------
(* Copying.                                                                *)

ToRemote(p) == job[p].cmd.op = "push"
Target(p) == IF ToRemote(p) THEN remoteBlobs ELSE blobs
AtSource(p, b) ==
  CASE job[p].cmd.op = "build" -> TRUE
    [] job[p].cmd.op = "push" -> b \in blobs
    [] OTHER -> b \in remoteBlobs

AfterCopy(p) == IF Tail(job[p].todo) = <<>> THEN "tag" ELSE "copy"

\* b is at the target: it was, or is pushed.  The root is pushed to the registry
\* by its tag; an index or a manifest that is pushed to the layout is entered in
\* index.json, which is written with all that the process has loaded.
Stored(p, b) ==
  IF ToRemote(p)
  THEN /\ remoteBlobs' = remoteBlobs \union {b}
       /\ remoteTags' = IF Tail(job[p].todo) = <<>>
                        THEN [remoteTags EXCEPT ![Head(job[p].refs)] = job[p].root] ELSE remoteTags
       /\ UNCHANGED local
  ELSE /\ blobs' = blobs \union {b}
       /\ index' = IF b \in blobs \/ b.kind = "layer" THEN index ELSE job[p].view
       /\ UNCHANGED <<expected, kept, remote>>

\* Mutant of Visit: a node is pushed before its successors.
VisitTopDown(p) ==
  LET b == Head(job[p].todo)
      todo == (IF b \in Target(p) \union job[p].expanded THEN <<>> ELSE Successors(b))
                \o Tail(job[p].todo)
  IN  /\ job[p].pc = "copy"
      /\ IF b \notin Target(p) /\ ~AtSource(p, b)
         THEN Fails(p)
         ELSE /\ Goto(p, [job[p] EXCEPT !.todo = todo, !.pc = IF todo = <<>> THEN "tag" ELSE "copy"])
              /\ Stored(p, b)

\* A node whose successors have to be found first: a push passes over what the
\* registry has, a pull descends all the same, and repairs what is not whole.
Descends(p, b) ==
  /\ b \notin job[p].expanded /\ Successors(b) # <<>>
  /\ ToRemote(p) => b \notin Target(p)

\* The next node: its successors come first; what the target has is not pushed.
Visit(p) ==
  LET b == Head(job[p].todo)
  IN  /\ job[p].pc = "copy"
      /\ CASE ~AtSource(p, b) /\ (Descends(p, b) \/ b \notin Target(p)) -> Fails(p)
           [] AtSource(p, b) /\ Descends(p, b) ->
                /\ Goto(p, [job[p] EXCEPT !.todo = Successors(b) \o @, !.expanded = @ \union {b}])
                /\ UNCHANGED <<local, remote>>
           [] OTHER ->
                /\ Goto(p, [job[p] EXCEPT !.todo = Tail(@), !.pc = AfterCopy(p)])
                /\ Stored(p, b)

\* Every reference is given the root, which has to be present.  A get goes on.
Tag(p) ==
  LET ref == Head(job[p].refs)
      left == Tail(job[p].refs)
      view == [job[p].view EXCEPT ![ref] = job[p].root]
  IN  /\ job[p].pc = "tag"
      /\ CASE ToRemote(p) -> Finish(p, "ok") /\ UNCHANGED <<local, remote>>
           [] ~ToRemote(p) /\ job[p].root \notin blobs -> Fails(p)
           [] OTHER ->
                /\ index' = view
                /\ expected' = [expected EXCEPT ![ref] = job[p].root]
                /\ IF left = <<>> /\ job[p].cmd.op # "get" THEN Finish(p, "ok")
                   ELSE Goto(p, [job[p] EXCEPT !.view = view, !.refs = left,
                                               !.pc = IF left = <<>> THEN "manifest" ELSE "tag"])
                /\ UNCHANGED <<blobs, kept, remote>>

-----------------------------------------------------------------------------
(* get kernel: the manifest and then the layer are read.                   *)

ReadManifest(p) ==
  /\ job[p].pc = "manifest"
  /\ IF Manifest(job[p].cmd.arch) \in blobs
     THEN Goto(p, [job[p] EXCEPT !.pc = "layer", !.out = Successors(Manifest(job[p].cmd.arch))])
     ELSE Finish(p, "error")
  /\ UNCHANGED <<local, remote>>

ReadLayer(p) ==
  /\ job[p].pc = "layer"
  /\ Finish(p, IF Head(job[p].out) \in blobs THEN "ok" ELSE "error")
  /\ UNCHANGED <<local, remote>>

-----------------------------------------------------------------------------
(* rm: every reference is untagged, then what is not reached is removed.   *)

Untag(p) ==
  LET ref == Head(job[p].refs)
      view == [job[p].view EXCEPT ![ref] = NoRoot]
  IN  /\ job[p].pc = "untag"
      /\ IF job[p].view[ref] = NoRoot THEN Fails(p)
         ELSE /\ index' = view
              /\ expected' = [expected EXCEPT ![ref] = NoRoot]
              /\ Goto(p, [job[p] EXCEPT !.view = view, !.refs = Tail(@),
                                        !.pc = IF Tail(job[p].refs) = <<>> THEN "gc" ELSE "untag"])
              /\ UNCHANGED <<blobs, kept, remote>>

\* Mutant of GC: only the roots and what they list are reached.
GCShallow(p) ==
  LET reached == ReachableIn(job[p].view, {b \in blobs : b.kind # "layer"})
  IN  /\ job[p].pc = "gc"
      /\ blobs' = reached /\ UNCHANGED kept
      /\ Finish(p, "ok")
      /\ UNCHANGED <<index, expected, remote>>

\* A collection that fails, or is killed, has removed some of the garbage only;
\* rm warns of that, and succeeds.
GC(p) ==
  LET garbage == blobs \ ReachableIn(job[p].view, blobs)
  IN  /\ job[p].pc = "gc"
      /\ \E removed \in SUBSET garbage :
           blobs' = blobs \ removed /\ kept' = (kept /\ removed = garbage)
      /\ Finish(p, "ok")
      /\ UNCHANGED <<index, expected, remote>>

StoreNext ==
  \E p \in Procs :
    \/ \E cmd \in Commands : Start(p, cmd)
    \/ Abort(p) \/ Resolve(p) \/ Pull(p) \/ Visit(p) \/ Tag(p)
    \/ ReadManifest(p) \/ ReadLayer(p) \/ Untag(p) \/ GC(p)

StoreSpec == StoreInit /\ [][StoreNext]_storeVars

-----------------------------------------------------------------------------
(* Properties.                                                             *)

\* As long as commands run one after the other, whatever fails in any of them,
\* the tags are those that the commands have set, one by one; and a removal that
\* was not cut short leaves the blobs of the tagged images and no others.
SoloStore ==
  alone =>
    /\ index = expected
    /\ kept /\ done.cmd.op = "rm" /\ done.result = "ok" => blobs = ReachableIn(index, blobs)

\* As long as no collection runs beside another command or is cut short, a tag
\* names a root that is present with the manifest of at least one image, and each
\* manifest is there with its layer: builds, pulls and tags may overlap and fail.
TaggedIsWhole ==
  kept =>
    /\ \A t \in Tags : index[t] # NoRoot =>
         index[t] \in blobs /\ \E a \in Range(index[t].archs) : Manifest(a) \in blobs
    /\ \A b \in blobs : b.kind = "manifest" => Layer(b.arch) \in blobs

\* The registry never has a tag or a node without all that is below it, whatever
\* the commands do to the layout while an image is pushed from it.
RegistryWhole ==
  /\ \A t \in Tags : remoteTags[t] # NoRoot => remoteTags[t] \in remoteBlobs
  /\ \A b \in remoteBlobs : Range(Successors(b)) \subseteq remoteBlobs

\* get kernel, run alone, prints the kernel of the architecture, of the image that
\* the tag names from then on; it has an error only if neither the layout nor the
\* registry has one.
GetServes ==
  alone /\ kept /\ done.cmd.op = "get" =>
    LET ref == Head(done.cmd.refs)
        arch == done.cmd.arch
    IN  /\ done.result = "ok" => done.out = <<Layer(arch)>> /\ Lists(index[ref], arch)
        /\ done.result = "error" =>
             /\ ~(Lists(index[ref], arch) /\ {Manifest(arch), Layer(arch)} \subseteq blobs)
             /\ ~Lists(remoteTags[ref], arch)
=============================================================================
