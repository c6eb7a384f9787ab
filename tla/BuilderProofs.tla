--------------------------- MODULE BuilderProofs ---------------------------
(***************************************************************************)
(* Proofs about Builder, for every set of Kernelfiles, requests and tags.  *)
(***************************************************************************)
EXTENDS Builder, SequenceTheorems, TLAPS

----------------------------------------------------------------------------
(* The invariant: what is known at each place of a build. *)

Early == {"log", "work"}
OnArch == {"tree", "from", "actions", "defconfig", "apply", "compile",
           "kernel", "modules", "config", "manifest"}
Loop == OnArch \union {"arch"}

\* The sequences of a build and their lengths.
Typed ==
  /\ pc \in {"idle", "tag"} \union Early \union Loop
  /\ asked \in Seq(Archs) /\ archs \in Seq(Archs) /\ names \in Seq(Tags)
  /\ n \in Nat \ {0}
  /\ pushed \in Seq(store)
  /\ descs \in Seq([arch : Archs, manifest : store])
  /\ tags \in [Tags -> store \union {NoIndex}]

\* How far the build has come.
Progress ==
  /\ pc # "idle" => answer = "none"
  /\ pc \in Early => archs = <<>> /\ n = 1 /\ descs = <<>>
  /\ pc \in Early \union Loop => built = NoIndex
  /\ pc \in Loop => Sorted(asked, archs) /\ Len(descs) = n - 1 /\ n <= Len(archs) + 1
  /\ pc \in OnArch => n <= Len(archs)
  /\ \A i \in 1..Len(descs) : descs[i].arch = archs[i]
  /\ pc = "tag" => built \in store /\ built.type = "index"

\* What has been pushed for the current architecture.
Pushed ==
  /\ pc \in (Early \union Loop) \ {"modules", "config", "manifest"} => pushed = <<>>
  /\ pc = "modules" => Len(pushed) = 1
  /\ pc = "config" => Len(pushed) = 2
  /\ pc = "manifest" => Len(pushed) = 3

Closed == \A b \in store : Refs(b) \subseteq store

Inv == Typed /\ Progress /\ Pushed /\ Closed

----------------------------------------------------------------------------
(* Lemmas *)

LEMMA SeqMonotone ==
  ASSUME NEW S, NEW T, S \subseteq T
  PROVE  Seq(S) \subseteq Seq(T)
BY SeqMonotonic

LEMMA Entries ==
  ASSUME NEW S, NEW T, S \subseteq T
  PROVE  Seq([arch : Archs, manifest : S]) \subseteq Seq([arch : Archs, manifest : T])
<1>1. [arch : Archs, manifest : S] \subseteq [arch : Archs, manifest : T]
  OBVIOUS
<1> QED BY <1>1, SeqMonotone

\* A layer or a configuration refers to nothing.
LEMMA LeafRefs ==
  ASSUME NEW b, b.type \notin {"manifest", "index"}
  PROVE  Refs(b) = {}
BY DEF Refs

----------------------------------------------------------------------------
(* The invariant is inductive. *)

LEMMA InitInv == ASSUME Init PROVE Inv
BY EmptySeq DEF Init, Inv, Typed, Progress, Pushed, Closed, Early, Loop, OnArch, NoIndex

\* The head of a build, and the steps that leave the store and the results alone.
LEMMA StartInv ==
  ASSUME Inv, BuilderAssumption, NEW f \in Documents, NEW r \in Requests, NEW t \in TagLists,
         NEW keep \in BOOLEAN, Start(f, r, t, keep)
  PROVE  Inv'
<1>1. r \in Seq(Archs) /\ t \in Seq(Tags)
  BY DEF BuilderAssumption
<1> QED BY <1>1, EmptySeq DEF Inv, Typed, Progress, Pushed, Closed, Early, Loop, OnArch, Start, Goto

LEMMA HeadInv == ASSUME Inv, CreateLog \/ MakeWork PROVE Inv'
<1>1. CASE CreateLog
  BY <1>1 DEF Inv, Typed, Progress, Pushed, Closed, Early, Loop, OnArch, CreateLog, Goto,
              request, results, command
<1>2. CASE MakeWork
  <2>1. PICK t \in [DOMAIN asked -> Archs] : Sorted(asked, t) /\ archs' = t
    BY <1>2 DEF MakeWork
  <2>2. DOMAIN asked = 1..Len(asked) /\ Len(asked) \in Nat
    BY LenProperties DEF Inv, Typed
  <2>3. archs' \in Seq(Archs)
    BY <2>1, <2>2, SeqDef
  <2>4. Len(archs') \in Nat
    BY <2>3, LenProperties
  <2>5. Len(<<>>) = 0
    BY EmptySeq
  <2> QED BY <1>2, <2>1, <2>3, <2>4, <2>5
          DEF Inv, Typed, Progress, Pushed, Closed, Early, Loop, OnArch, MakeWork, Goto,
              request, results, command
<1> QED BY <1>1, <1>2

LEMMA TreeInv == ASSUME Inv, buildTree \/ make PROVE Inv'
<1>1. /\ UNCHANGED <<store, tags, request, archs, n, results, command>>
      /\ pc \in Loop /\ pc' \in OnArch \ {"modules", "config", "manifest"}
      /\ pc \notin {"modules", "config", "manifest"}
      /\ n <= Len(archs)
  BY DEF Inv, Typed, Progress, Loop, OnArch, buildTree, make, MakeArch, MakeTree, From, EvaluateActions,
         RunDefconfig, Apply, Compile, Goto
<1> QED BY <1>1
        DEF Inv, Typed, Progress, Pushed, Closed, Early, Loop, OnArch, request, results, command

\* A blob without references is pushed.
LEMMA PushInv ==
  ASSUME Inv, PushKernel \/ PushModules \/ PushConfig
  PROVE  Inv'
<1>1. PICK b : Push(b) /\ b.type \notin {"manifest", "index"}
  BY DEF PushKernel, PushModules, PushConfig, Layer, ConfigBlob
<1>2. Refs(b) = {}
  BY <1>1, LeafRefs
<1>3. store \subseteq store' /\ b \in store'
  BY <1>1 DEF Push
<1>4. pushed \in Seq(store') /\ descs' \in Seq([arch : Archs, manifest : store'])
  BY <1>1, <1>3, SeqMonotone, Entries DEF Inv, Typed, Push
<1>5. pushed' \in Seq(store') /\ Len(pushed') = Len(pushed) + 1
  BY <1>1, <1>3, <1>4, AppendProperties DEF Push
<1>6. (pushed = <<>> => Len(pushed) = 0) /\ Len(pushed) \in Nat
  BY EmptySeq, LenProperties DEF Inv, Typed
<1>7. \/ pc = "kernel" /\ pc' = "modules"
      \/ pc = "modules" /\ pc' = "config"
      \/ pc = "config" /\ pc' = "manifest"
  BY DEF PushKernel, PushModules, PushConfig, Goto
<1>8. Typed'
  BY <1>1, <1>3, <1>4, <1>5, <1>7 DEF Inv, Typed, Push, request, command, Early, Loop, OnArch
<1>9. Progress'
  BY <1>1, <1>7 DEF Inv, Progress, Push, request, command, Early, Loop, OnArch
<1>10. Pushed'
  <2>1. /\ pc' = "modules" => Len(pushed) = 0
        /\ pc' = "config" => Len(pushed) = 1
        /\ pc' = "manifest" => Len(pushed) = 2
    BY <1>6, <1>7 DEF Inv, Pushed, Early, Loop, OnArch
  <2>2. Len(pushed) \in Nat /\ Len(pushed') \in Nat /\ Len(pushed') = Len(pushed) + 1
    BY <1>5, <1>6, LenProperties
  <2>3. CASE pc' = "modules" BY <2>1, <2>2, <2>3 DEF Pushed
  <2>4. CASE pc' = "config"
    <3>1. Len(pushed) = 1 BY <2>1, <2>4
    <3>2. Len(pushed') = 2 BY <2>2, <3>1
    <3> QED BY <3>2, <2>4 DEF Pushed
  <2>5. CASE pc' = "manifest"
    <3>1. Len(pushed) = 2 BY <2>1, <2>5
    <3>2. Len(pushed') = 3 BY <2>2, <3>1
    <3> QED BY <3>2, <2>5 DEF Pushed
  <2> QED BY <2>3, <2>4, <2>5, <1>7
<1>11. Closed'
  BY <1>1, <1>2 DEF Inv, Closed, Push
<1> QED BY <1>8, <1>9, <1>10, <1>11 DEF Inv

LEMMA PackInv == ASSUME Inv, PackManifest PROVE Inv'
<1> DEFINE m == Manifest(pushed[3], <<pushed[1], pushed[2]>>)
           d == [arch |-> arch, manifest |-> m]
<1>1. /\ pc = "manifest" /\ pc' = "arch" /\ store' = store \union {m}
      /\ descs' = Append(descs, d) /\ pushed' = <<>> /\ n' = n + 1
      /\ UNCHANGED <<tags, request, archs, built, command>>
  BY DEF PackManifest, Goto
<1>2. pushed \in Seq(store) /\ Len(pushed) = 3
  BY <1>1 DEF Inv, Typed, Pushed
<1>3. pushed[1] \in store /\ pushed[2] \in store /\ pushed[3] \in store
  BY <1>2, ElementOfSeq
<1>4. Refs(m) \subseteq store
  BY <1>3 DEF Refs, Manifest
<1>5. arch \in Archs
  <2>1. pc \in OnArch BY <1>1 DEF OnArch
  <2>2. n \in Nat /\ 1 <= n /\ n <= Len(archs) /\ archs \in Seq(Archs)
    BY <2>1 DEF Inv, Typed, Progress
  <2> QED BY <2>2, ElementOfSeq DEF arch
<1>6. descs \in Seq([arch : Archs, manifest : store'])
  <2>1. store \subseteq store'
    BY <1>1
  <2> QED BY <2>1, Entries DEF Inv, Typed
<1>7. d \in [arch : Archs, manifest : store']
  BY <1>1, <1>5
<1>8. /\ descs' \in Seq([arch : Archs, manifest : store'])
      /\ Len(descs') = Len(descs) + 1
      /\ \A i \in 1..Len(descs) : descs'[i] = descs[i]
      /\ descs'[Len(descs) + 1] = d
  BY <1>1, <1>6, <1>7, AppendProperties
<1>9. Len(descs) = n - 1 /\ n \in Nat \ {0} /\ n <= Len(archs) /\ Len(archs) \in Nat
  BY <1>1, LenProperties DEF Inv, Typed, Progress, Loop, OnArch
<1>10. pushed' \in Seq(store')
  BY <1>1, EmptySeq
<1> HIDE DEF m
<1>11. Typed'
  BY <1>1, <1>8, <1>9, <1>10 DEF Inv, Typed, request, Early, Loop, OnArch
<1>12. \A i \in 1..Len(descs') : descs'[i].arch = archs'[i]
  <2> SUFFICES ASSUME NEW i \in 1..Len(descs') PROVE descs'[i].arch = archs[i]
    BY <1>1
  <2>1. CASE i \in 1..Len(descs)
    BY <2>1, <1>8 DEF Inv, Progress
  <2>2. CASE i = Len(descs) + 1
    BY <2>2, <1>8, <1>9 DEF arch
  <2> QED BY <2>1, <2>2, <1>8, <1>9
<1>13. Progress'
  BY <1>1, <1>8, <1>9, <1>12 DEF Inv, Progress, request, command, Early, Loop, OnArch
<1>14. Pushed'
  BY <1>1 DEF Pushed, Early, Loop, OnArch
<1>15. Closed'
  BY <1>1, <1>4 DEF Inv, Closed
<1> QED BY <1>11, <1>13, <1>14, <1>15 DEF Inv

\* The index is pushed: it lists the architectures asked for.
LEMMA IndexInv ==
  ASSUME Inv, PushIndex
  PROVE  Inv' /\ Sorted(asked, Platforms(built')) /\ Refs(built') \subseteq store
<1>1. /\ pc = "arch" /\ pc' = "tag" /\ n > Len(archs)
      /\ built' = Index(descs) /\ store' = store \union {Index(descs)} /\ n' = 1
      /\ UNCHANGED <<tags, request, archs, pushed, descs, command>>
  BY DEF PushIndex, Goto
<1>2. Len(archs) \in Nat /\ DOMAIN archs = 1..Len(archs) /\ archs \in [1..Len(archs) -> Archs]
      /\ DOMAIN descs = 1..Len(descs)
  BY LenProperties DEF Inv, Typed
<1>3. Len(descs) = Len(archs)
  <2>1. Len(descs) = n - 1 /\ n <= Len(archs) + 1 /\ n \in Nat
    BY <1>1 DEF Inv, Typed, Progress, Loop
  <2> QED BY <2>1, <1>1, <1>2
<1>4. Platforms(built') = archs
  <2>1. built'.manifests = descs
    BY <1>1 DEF Index
  <2>2. Platforms(built') = [i \in 1..Len(archs) |-> descs[i].arch]
    BY <2>1, <1>2, <1>3 DEF Platforms
  <2>3. \A i \in 1..Len(archs) : descs[i].arch = archs[i]
    BY <1>3 DEF Inv, Progress
  <2> QED BY <2>2, <2>3, <1>2
<1>5. Refs(Index(descs)) \subseteq store
  <2>1. \A i \in 1..Len(descs) : descs[i] \in [arch : Archs, manifest : store]
    BY ElementOfSeq DEF Inv, Typed
  <2> QED BY <2>1, <1>2 DEF Refs, Index
<1>6. Sorted(asked, archs)
  BY <1>1 DEF Inv, Progress, Loop
<1>7. Typed'
  <2>1. store \subseteq store'
    BY <1>1
  <2>2. pushed' \in Seq(store') /\ descs' \in Seq([arch : Archs, manifest : store'])
    BY <1>1, <2>1, SeqMonotone, Entries DEF Inv, Typed
  <2> QED BY <1>1, <2>1, <2>2 DEF Inv, Typed, request
<1>8. Progress'
  BY <1>1 DEF Inv, Progress, request, command, Early, Loop, OnArch, Index
<1>9. Pushed'
  BY <1>1 DEF Pushed, Early, Loop, OnArch
<1>10. Closed'
  BY <1>1, <1>5 DEF Inv, Closed
<1> QED BY <1>1, <1>4, <1>5, <1>6, <1>7, <1>8, <1>9, <1>10 DEF Inv

LEMMA TagInv == ASSUME Inv, TagNext PROVE Inv'
<1>1. names[n] \in Tags
  BY ElementOfSeq, LenProperties DEF Inv, Typed, TagNext
<1> QED BY <1>1 DEF Inv, Typed, Progress, Pushed, Closed, Early, Loop, OnArch, TagNext, Goto,
                    request, results, command

LEMMA EndInv == ASSUME Inv, Succeed \/ Fail \/ Cancel \/ Kill PROVE Inv'
<1>1. /\ UNCHANGED <<store, tags, request, archs, n, results>>
      /\ (pc' = pc /\ answer' = answer) \/ pc' = "idle"
  BY DEF Succeed, Fail, Cancel, Kill, Goto
<1> QED BY <1>1 DEF Inv, Typed, Progress, Pushed, Closed, Early, Loop, OnArch, request, results

LEMMA StepInv == ASSUME Inv, BuilderAssumption, [Next]_vars PROVE Inv'
<1>1. CASE UNCHANGED vars
  BY <1>1 DEF Inv, Typed, Progress, Pushed, Closed, vars
<1>2. ASSUME NEW f \in Documents, NEW r \in Requests, NEW t \in TagLists, NEW keep \in BOOLEAN,
             Start(f, r, t, keep)
      PROVE  Inv'
  BY <1>2, StartInv
<1>3. CASE push
  BY <1>3, PushInv, PackInv DEF push
<1> QED BY <1>1, <1>2, <1>3, HeadInv, TreeInv, IndexInv, TagInv, EndInv DEF Next, Step

THEOREM Invariance == Spec => []Inv
<1>1. Init => Inv
  BY InitInv
<1>2. Inv /\ [Next]_vars => Inv'
  BY StepInv, BuilderAssumption
<1> QED BY <1>1, <1>2, PTL DEF Spec

----------------------------------------------------------------------------
(* What follows. *)

\* The store holds what its blobs and its tags refer to, at every moment: a
\* build that fails or is killed leaves no image with holes and no tag to one.
THEOREM StoreIsClosed == Spec => []StoreClosed
<1>1. Inv => StoreClosed
  BY DEF Inv, Typed, Closed, StoreClosed
<1> QED BY <1>1, Invariance, PTL

----------------------------------------------------------------------------
(* What a build leaves behind. *)

\* The work directory is there from MakeWork to PushIndex, the log from CreateLog on.
Kept ==
  /\ work \in BOOLEAN /\ log \in BOOLEAN /\ keepWork \in BOOLEAN
  /\ pc \in Early => ~work
  /\ pc \in Loop => work
  /\ pc = "tag" => work = keepWork
  /\ pc \notin {"idle", "log"} => log

LEMMA KeptIs == Spec => [](Kept /\ Leftovers)
<1>1. Init => Kept /\ Leftovers
  BY DEF Init, Kept, Leftovers, Early, Loop, OnArch
<1>2. ASSUME Inv, Kept, Leftovers, [Next]_vars PROVE Kept' /\ Leftovers'
  <2> USE <1>2
  <2>1. CASE UNCHANGED vars
    BY <2>1 DEF Kept, Leftovers, vars
  <2>2. ASSUME NEW f \in Documents, NEW r \in Requests, NEW t \in TagLists,
               NEW keep \in BOOLEAN, Start(f, r, t, keep)
        PROVE  Kept' /\ Leftovers'
    BY <2>2 DEF Start, Goto, Kept, Leftovers, Early, Loop, OnArch
  <2>3. CASE CreateLog
    BY <2>3 DEF CreateLog, Goto, Kept, Leftovers, Early, Loop, OnArch, request
  <2>4. CASE MakeWork
    BY <2>4 DEF MakeWork, Goto, Kept, Leftovers, Early, Loop, OnArch, request, command
  <2>5. CASE buildTree \/ make \/ push
    <3>1. /\ UNCHANGED <<work, log, keepWork>>
          /\ pc \in Loop /\ pc' \in Loop
      BY <2>5 DEF buildTree, make, push, MakeArch, MakeTree, From, EvaluateActions, RunDefconfig,
         Apply, Compile, PushKernel, PushModules, PushConfig, Push, PackManifest, Goto, Loop,
         OnArch, request, command
    <3> QED BY <3>1 DEF Kept, Leftovers, Early, Loop, OnArch
  <2>6. CASE PushIndex
    <3>1. /\ pc \in Loop /\ pc' = "tag" /\ work' = (work /\ keepWork)
          /\ UNCHANGED <<log, keepWork>> /\ pc \notin {"idle", "log"}
      BY <2>6 DEF PushIndex, Goto, Loop, request, command
    <3>2. work /\ log
      BY <3>1 DEF Kept
    <3> QED BY <3>1, <3>2 DEF Kept, Leftovers, Early, Loop, OnArch
  <2>7. CASE TagNext
    BY <2>7 DEF TagNext, Goto, Kept, Leftovers, Early, Loop, OnArch, request, command
  <2>8. CASE Succeed
    <3>1. /\ pc = "tag" /\ pc' = "idle" /\ answer' = "ok" /\ log' = FALSE
          /\ shown' = keepWork /\ UNCHANGED <<work, keepWork>>
      BY <2>8 DEF Succeed, Goto, request
    <3> QED BY <3>1 DEF Kept, Leftovers, Early, Loop, OnArch
  <2>9. CASE Fail
    <3>1. /\ pc # "idle" /\ pc' = "idle" /\ answer' = "failed" /\ work' = (work /\ keepWork)
          /\ shown' = Told /\ UNCHANGED <<log, keepWork, archs>>
      BY <2>9 DEF Fail, request
    <3>2. archs # <<>> => log
      BY <3>1 DEF Inv, Progress, Kept, Early
    <3>3. Kept'
      BY <3>1 DEF Kept, Early, Loop, OnArch
    <3>4. shown' => work'
      BY <3>1 DEF Told, Kept, Inv, Typed, Progress, Early, Loop, OnArch
    <3> QED BY <3>1, <3>2, <3>3, <3>4 DEF Leftovers
  <2>10. CASE Cancel \/ Kill
    <3>1. /\ pc # "idle" /\ pc' \in {pc, "idle"}
          /\ UNCHANGED <<work, log, keepWork, archs, answer>>
      BY <2>10 DEF Cancel, Kill, request, command
    <3>2. answer = "none"
      BY <3>1 DEF Inv, Progress
    <3> QED BY <3>1, <3>2 DEF Kept, Leftovers, Early, Loop, OnArch
  <2> QED BY <2>1, <2>2, <2>3, <2>4, <2>5, <2>6, <2>7, <2>8, <2>9, <2>10 DEF Next, Step
<1>3. (Kept /\ Leftovers) /\ Inv /\ [Next]_vars => (Kept /\ Leftovers)' BY <1>2
<1> QED BY <1>1, <1>3, Invariance, PTL DEF Spec

\* A build leaves a log exactly if it fails, and its work directory only if asked to,
\* and never sends the user to a directory that is not there.
THEOREM LeftoversAreRight == Spec => []Leftovers
BY KeptIs, PTL

----------------------------------------------------------------------------
(* The build implements BuildStore. *)

LEMMA SameImages ==
  /\ Promise!NoIndex = NoIndex
  /\ \A b : Promise!Refs(b) = Refs(b)
  /\ \A i : Promise!Platforms(i) = Platforms(i)
  /\ \A s, t : Promise!Sorted(s, t) <=> Sorted(s, t)
<1>1. Promise!NoIndex = NoIndex
  BY DEF NoIndex, Promise!NoIndex
<1>2. \A b : Promise!Refs(b) = Refs(b)
  BY DEF Refs, Promise!Refs
<1>3. \A i : Promise!Platforms(i) = Platforms(i)
  BY DEF Platforms, Promise!Platforms
<1>4. \A s, t : Promise!Sorted(s, t) <=> Sorted(s, t)
  BY DEF Sorted, Promise!Sorted
<1> QED BY <1>1, <1>2, <1>3, <1>4

\* A step that the abstract specification does not see.
Unseen == UNCHANGED <<store, tags, asked, names, n, built, answer>>

LEMMA UnseenStutters == ASSUME Unseen PROVE UNCHANGED Promise!vars
BY DEF Unseen, Promise!vars, Due

LEMMA Served ==
  ASSUME Inv, BuilderAssumption, [Next]_vars
  PROVE  [Promise!Next]_Promise!vars
<1>1. CASE UNCHANGED vars
  BY <1>1, UnseenStutters DEF vars, Unseen
<1>2. ASSUME NEW f \in Documents, NEW r \in Requests, NEW t \in TagLists, NEW keep \in BOOLEAN,
             Start(f, r, t, keep)
      PROVE  Promise!Build
  <2>1. r \in Seq(Archs) /\ t \in Seq(Tags)
    BY DEF BuilderAssumption
  <2>2. \A i \in 1..Len(t) : t[i] \in Tags
    BY <2>1, ElementOfSeq
  <2>3. Due' \subseteq Tags
    BY <1>2, <2>2 DEF Start, Due
  <2> QED BY <1>2, <2>1, <2>3, SameImages DEF Start, Promise!Build
<1>3. CASE CreateLog \/ MakeWork \/ buildTree \/ make \/ Cancel \/ Kill
  <2>1. Unseen
    BY <1>3 DEF Unseen, CreateLog, MakeWork, buildTree, make, MakeArch, MakeTree, From, EvaluateActions,
       RunDefconfig, Apply, Compile, Cancel, Kill, request, results, command
  <2> QED BY <2>1, UnseenStutters
<1>4. CASE PushKernel \/ PushModules \/ PushConfig
  <2>1. PICK b : Push(b) /\ b.type \notin {"manifest", "index"}
    BY <1>4 DEF PushKernel, PushModules, PushConfig, Layer, ConfigBlob
  <2>2. Refs(b) = {}
    BY <2>1, LeafRefs
  <2>3. answer = "none"
    BY <1>4 DEF PushKernel, PushModules, PushConfig, Goto, Inv, Progress
  <2>4. UNCHANGED <<tags, asked, Due, built, answer>> /\ store' = store \union {b}
    BY <2>1 DEF Push, Due, request, command
  <2>5. Promise!Push
    BY <2>2, <2>3, <2>4, SameImages DEF Promise!Push
  <2> QED BY <2>5 DEF Promise!Next
<1>5. CASE PackManifest
  <2> DEFINE m == Manifest(pushed[3], <<pushed[1], pushed[2]>>)
  <2>1. /\ pc = "manifest" /\ store' = store \union {m}
        /\ UNCHANGED <<tags, request, built, command>>
    BY <1>5 DEF PackManifest, Goto
  <2>2. answer = "none" /\ built = NoIndex
    BY <2>1 DEF Inv, Progress, Loop, OnArch
  <2>3. pushed[1] \in store /\ pushed[2] \in store /\ pushed[3] \in store
    <3>1. pushed \in Seq(store) /\ Len(pushed) = 3
      BY <2>1 DEF Inv, Typed, Pushed
    <3> QED BY <3>1, ElementOfSeq
  <2>4. Refs(m) \subseteq store
    BY <2>3 DEF Refs, Manifest
  <2> HIDE DEF m
  <2>5. UNCHANGED <<tags, asked, Due, built, answer>>
    BY <2>1, <2>2 DEF Due, request, command
  <2>6. Promise!Push
    BY <2>1, <2>2, <2>4, <2>5, SameImages DEF Promise!Push
  <2> QED BY <2>6 DEF Promise!Next
<1>6. CASE PushIndex
  <2>1. Sorted(asked, Platforms(built')) /\ Refs(built') \subseteq store
    BY <1>6, IndexInv
  <2>2. /\ pc = "arch" /\ built' = Index(descs) /\ store' = store \union {built'} /\ n' = 1
        /\ UNCHANGED <<tags, request, command>>
    BY <1>6 DEF PushIndex, Goto
  <2>3. answer = "none" /\ built = NoIndex
    BY <2>2 DEF Inv, Progress, Loop
  <2>4. built'.type = "index"
    BY <2>2 DEF Index
  <2>5. built' # NoIndex
    BY <2>4 DEF NoIndex
  <2>6. UNCHANGED <<tags, asked, Due, answer>>
    BY <2>2, <2>3, <2>5 DEF Due, request, command
  <2>7. Promise!Complete
    BY <2>1, <2>2, <2>3, <2>4, <2>6, SameImages DEF Promise!Complete
  <2> QED BY <2>7 DEF Promise!Next
<1>7. CASE TagNext
  <2>1. /\ pc = "tag" /\ n <= Len(names) /\ tags' = [tags EXCEPT ![names[n]] = built]
        /\ n' = n + 1 /\ UNCHANGED <<store, request, built, command>>
    BY <1>7 DEF TagNext, Goto, results
  <2>2. answer = "none" /\ built # NoIndex
    BY <2>1 DEF Inv, Progress, NoIndex
  <2>3. n \in Nat \ {0} /\ Len(names) \in Nat
    BY LenProperties DEF Inv, Typed
  <2>4. names[n] \in Tags
    BY <2>1, <2>3, ElementOfSeq DEF Inv, Typed
  <2>5. Due = {names[i] : i \in n..Len(names)} /\ Due' = {names[i] : i \in (n + 1)..Len(names)}
    BY <2>1, <2>2 DEF Due, request
  <2>6. n..Len(names) = {n} \union ((n + 1)..Len(names))
    BY <2>1, <2>3
  <2>7. names[n] \in Due /\ Due' \in {Due, Due \ {names[n]}}
    <3>1. Due = {names[n]} \union Due'
      BY <2>5, <2>6
    <3> QED BY <3>1
  <2>8. UNCHANGED <<store, asked, built, answer>>
    BY <2>1 DEF request, command
  <2>9. Promise!Tag(names[n])
    BY <2>1, <2>2, <2>7, <2>8, SameImages DEF Promise!Tag
  <2> QED BY <2>4, <2>9 DEF Promise!Next
<1>8. CASE Succeed
  <2>1. /\ pc = "tag" /\ n > Len(names) /\ answer' = "ok"
        /\ UNCHANGED <<store, tags, asked, names, n, built>>
    BY <1>8 DEF Succeed, Goto, request, results
  <2>2. answer = "none" /\ built # NoIndex
    BY <2>1 DEF Inv, Progress, NoIndex
  <2>3. n \in Nat /\ Len(names) \in Nat
    BY LenProperties DEF Inv, Typed
  <2>4. n..Len(names) = {}
    BY <2>1, <2>3
  <2>5. Due = {} /\ Due' = Due
    BY <2>1, <2>2, <2>4 DEF Due
  <2>6. Promise!Succeed
    BY <2>1, <2>2, <2>5, SameImages DEF Promise!Succeed
  <2> QED BY <2>6 DEF Promise!Next
<1>9. CASE Fail
  <2>1. /\ pc # "idle" /\ answer' = "failed"
        /\ UNCHANGED <<store, tags, asked, names, n, built>>
    BY <1>9 DEF Fail, request, results
  <2>2. answer = "none"
    BY <2>1 DEF Inv, Progress
  <2>3. Due' = Due
    BY <2>1 DEF Due
  <2>4. Promise!Fail
    BY <2>1, <2>2, <2>3 DEF Promise!Fail
  <2> QED BY <2>4 DEF Promise!Next
<1> QED BY <1>1, <1>2, <1>3, <1>4, <1>5, <1>6, <1>7, <1>8, <1>9
        DEF Next, Step, push, Promise!Next

\* The build implements its promise: nothing is stored before what it refers to,
\* "ok" is answered only for a whole index over the architectures asked for, in
\* order, and tags move to nothing else.
THEOREM Implementation == Spec => ImplementsBuildStore
<1>1. Init => Promise!Init
  <2>1. Init => Due = {}
    <3>1. Len(<<>>) = 0 BY EmptySeq
    <3> QED BY <3>1 DEF Init, Due
  <2> QED BY <2>1, SameImages DEF Init, Promise!Init
<1>2. Inv /\ [Next]_vars => [Promise!Next]_Promise!vars
  BY Served, BuilderAssumption
<1> QED BY <1>1, <1>2, Invariance, PTL DEF Spec, ImplementsBuildStore, Promise!Spec

----------------------------------------------------------------------------
(* What the evaluation of a document does: folds over its groups, and over *)
(* the actions of each. *)

ByAction == INSTANCE FoldFacts WITH op <- evalAction
ByGroup == INSTANCE FoldFacts WITH op <- evalActions

States == [cfg : Overrides, files : Files]
Groups == [if : SUBSET Archs, actions : Seq(Actions)]

\* What an action is about, an option or a file, and what it gives it.
Things == [kind : {"option"}, name : Names] \union [kind : {"file"}, name : Paths]
ConfigOps == {"setConfig", "deleteConfig"}
FileOps == {"addFile", "deleteFile"}

About(act, t) == act.op \in (IF t.kind = "option" THEN ConfigOps ELSE FileOps) /\ act.target = t.name
Hits(a, act, t) == a \in act.if /\ About(act, t)
Gives(act) == IF act.op = "addFile" THEN "context" ELSE act.value
Has(s, t) == IF t.kind = "option" THEN s.cfg[t.name] ELSE s.files[t.name]

LEMMA ActionKinds ==
  ASSUME NEW act \in Actions
  PROVE  \/ act.op = "setConfig" /\ act.target \in Names /\ act.value \in Values
         \/ act.op = "deleteConfig" /\ act.target \in Names /\ act.value = None
         \/ act.op \in FileOps /\ act.target \in Paths /\ act.value = None
BY DEF Actions, FileActions, FileOps

LEMMA EvalActionIs ==
  ASSUME NEW a, NEW s \in States, NEW act \in Actions
  PROVE  /\ evalAction(a, s, act) \in States
         /\ \A t \in Things :
              Has(evalAction(a, s, act), t) = IF Hits(a, act, t) THEN Gives(act) ELSE Has(s, t)
<1> DEFINE r == evalAction(a, s, act)
<1>1. s.cfg \in [Names -> Values \union {None}] /\ s.files \in [Paths -> Contents]
      /\ s = [cfg |-> s.cfg, files |-> s.files]
  BY DEF States, Overrides, Files
<1>2. CASE a \notin act.if
  BY <1>2 DEF evalAction, Hits
<1>3. CASE a \in act.if /\ act.op \in ConfigOps
  <2>1. act.target \in Names /\ act.value \in Values \union {None} BY <1>3, ActionKinds DEF ConfigOps, FileOps
  <2>2. r = [s EXCEPT !.cfg[act.target] = act.value] BY <1>3 DEF evalAction, ConfigOps
  <2>3. r = [cfg |-> [s.cfg EXCEPT ![act.target] = act.value], files |-> s.files] BY <2>2, <1>1
  <2>4. [s.cfg EXCEPT ![act.target] = act.value] \in [Names -> Values \union {None}]
    BY <1>1, <2>1
  <2>5. r \in States BY <1>1, <2>3, <2>4 DEF States, Overrides, Files
  <2> HIDE DEF r
  <2>6. ASSUME NEW t \in Things PROVE Has(r, t) = IF Hits(a, act, t) THEN Gives(act) ELSE Has(s, t)
    <3>1. CASE t.kind = "option"
      <4>1. t.name \in Names BY <3>1 DEF Things
      <4>2. Has(r, t) = [s.cfg EXCEPT ![act.target] = act.value][t.name] /\ Has(s, t) = s.cfg[t.name]
        BY <3>1, <2>3 DEF Has
      <4>3. Hits(a, act, t) <=> act.target = t.name BY <1>3, <3>1 DEF Hits, About
      <4>4. Gives(act) = act.value BY <1>3 DEF Gives, ConfigOps
      <4> QED BY <4>1, <4>2, <4>3, <4>4, <1>1
    <3>2. CASE t.kind = "file"
      <4>1. Has(r, t) = Has(s, t) BY <3>2, <2>3 DEF Has
      <4>2. ~Hits(a, act, t) BY <1>3, <3>2 DEF Hits, About, FileOps, ConfigOps
      <4> QED BY <4>1, <4>2
    <3> QED BY <3>1, <3>2 DEF Things
  <2> QED BY <2>5, <2>6 DEF r
<1>4. CASE a \in act.if /\ act.op \in FileOps
  <2>1. act.target \in Paths /\ act.value = None BY <1>4, ActionKinds DEF FileOps
  <2> DEFINE v == Gives(act)
  <2>2. v \in Contents /\ v = IF act.op = "addFile" THEN "context" ELSE None BY <2>1 DEF Gives, Contents
  <2>3. r = [s EXCEPT !.files[act.target] = v] BY <1>4, <2>2 DEF evalAction, FileOps
  <2> HIDE DEF v
  <2>4. r = [cfg |-> s.cfg, files |-> [s.files EXCEPT ![act.target] = v]] BY <2>3, <1>1
  <2>5. [s.files EXCEPT ![act.target] = v] \in [Paths -> Contents] BY <1>1, <2>1, <2>2
  <2>6. r \in States BY <1>1, <2>4, <2>5 DEF States, Overrides, Files
  <2> HIDE DEF r
  <2>7. ASSUME NEW t \in Things PROVE Has(r, t) = IF Hits(a, act, t) THEN Gives(act) ELSE Has(s, t)
    <3>1. CASE t.kind = "file"
      <4>1. t.name \in Paths /\ t.kind # "option" BY <3>1 DEF Things
      <4>2. Has(r, t) = [s.files EXCEPT ![act.target] = v][t.name] /\ Has(s, t) = s.files[t.name]
        BY <4>1, <2>4 DEF Has
      <4>3. Hits(a, act, t) <=> act.target = t.name BY <1>4, <4>1 DEF Hits, About
      <4> QED BY <4>1, <4>2, <4>3, <1>1 DEF v
    <3>2. CASE t.kind = "option"
      <4>1. Has(r, t) = Has(s, t) BY <3>2, <2>4 DEF Has
      <4>2. ~Hits(a, act, t) BY <1>4, <3>2 DEF Hits, About, FileOps, ConfigOps
      <4> QED BY <4>1, <4>2
    <3> QED BY <3>1, <3>2 DEF Things
  <2> QED BY <2>6, <2>7 DEF r
<1>5. act.op \in ConfigOps \/ act.op \in FileOps BY ActionKinds DEF ConfigOps
<1> QED BY <1>2, <1>3, <1>4, <1>5

\* Of a sequence of actions the last on a thing decides.
ActionsGive(a, s, acts, r) ==
  /\ r \in States
  /\ \A t \in Things :
       \/ (\A j \in 1..Len(acts) : ~Hits(a, acts[j], t)) /\ Has(r, t) = Has(s, t)
       \/ \E j \in 1..Len(acts) :
            /\ Hits(a, acts[j], t) /\ Has(r, t) = Gives(acts[j])
            /\ \A l \in 1..Len(acts) : Hits(a, acts[l], t) => l <= j

LEMMA ActionsAre ==
  ASSUME NEW a, NEW s \in States, NEW acts \in Seq(Actions)
  PROVE  ActionsGive(a, s, acts, ByAction!Fold(a, s, acts))
<1> DEFINE T == {q \in Seq(Actions) : ActionsGive(a, s, q, ByAction!Fold(a, s, q))}
<1>1. <<>> \in T
  <2>1. ByAction!Fold(a, s, <<>>) = s BY ByAction!FoldEmpty
  <2>2. 1..Len(<<>>) = {} OBVIOUS
  <2> QED BY <2>1, <2>2 DEF ActionsGive
<1>2. ASSUME NEW q \in Seq(Actions), NEW x \in Actions, q \in T PROVE Append(q, x) \in T
  <2> DEFINE before == ByAction!Fold(a, s, q)
             more == Append(q, x)
             len == Len(q)
  <2>1. ByAction!Fold(a, s, more) = evalAction(a, before, x) BY ByAction!FoldAppend
  <2>2. ActionsGive(a, s, q, before) BY <1>2
  <2>3. more \in Seq(Actions) /\ Len(more) = len + 1 /\ len \in Nat /\ more[len + 1] = x
        /\ \A j \in 1..len : more[j] = q[j]
    OBVIOUS
  <2> DEFINE after == evalAction(a, before, x)
  <2> HIDE DEF before, more
  <2>4. before \in States BY <2>2 DEF ActionsGive
  <2>5. after \in States
        /\ \A t \in Things : Has(after, t) = IF Hits(a, x, t) THEN Gives(x) ELSE Has(before, t)
    BY <2>4, EvalActionIs
  <2> HIDE DEF after, len
  <2>6. ASSUME NEW t \in Things
        PROVE  \/ (\A j \in 1..(len + 1) : ~Hits(a, more[j], t)) /\ Has(after, t) = Has(s, t)
               \/ \E j \in 1..(len + 1) :
                    /\ Hits(a, more[j], t) /\ Has(after, t) = Gives(more[j])
                    /\ \A l \in 1..(len + 1) : Hits(a, more[l], t) => l <= j
    <3>1. CASE Hits(a, x, t)
      <4>1. len + 1 \in 1..(len + 1) /\ \A l \in 1..(len + 1) : l <= len + 1 BY <2>3
      <4>2. Has(after, t) = Gives(more[len + 1]) /\ Hits(a, more[len + 1], t) BY <3>1, <2>3, <2>5
      <4> QED BY <4>1, <4>2
    <3>2. CASE ~Hits(a, x, t)
      <4>1. Has(after, t) = Has(before, t) BY <3>2, <2>5
      <4>2. \A l \in 1..(len + 1) : Hits(a, more[l], t) => l \in 1..len /\ Hits(a, q[l], t)
        BY <3>2, <2>3
      <4>3. CASE (\A j \in 1..len : ~Hits(a, q[j], t)) /\ Has(before, t) = Has(s, t)
        BY <4>1, <4>2, <4>3
      <4>4. ASSUME NEW j \in 1..len, Hits(a, q[j], t), Has(before, t) = Gives(q[j]),
                   \A l \in 1..len : Hits(a, q[l], t) => l <= j
            PROVE  \E i \in 1..(len + 1) :
                     /\ Hits(a, more[i], t) /\ Has(after, t) = Gives(more[i])
                     /\ \A l \in 1..(len + 1) : Hits(a, more[l], t) => l <= i
        <5>1. j \in 1..(len + 1) /\ more[j] = q[j] BY <2>3
        <5>2. Hits(a, more[j], t) /\ Has(after, t) = Gives(more[j]) BY <4>1, <4>4, <5>1
        <5>3. \A l \in 1..(len + 1) : Hits(a, more[l], t) => l <= j BY <4>2, <4>4
        <5> QED BY <5>1, <5>2, <5>3
      <4>5. \/ (\A j \in 1..len : ~Hits(a, q[j], t)) /\ Has(before, t) = Has(s, t)
            \/ \E j \in 1..len :
                 /\ Hits(a, q[j], t) /\ Has(before, t) = Gives(q[j])
                 /\ \A l \in 1..len : Hits(a, q[l], t) => l <= j
        BY <2>2 DEF ActionsGive, len
      <4> QED BY <4>3, <4>4, <4>5
    <3> QED BY <3>1, <3>2
  <2>7. ActionsGive(a, s, more, after) BY <2>3, <2>5, <2>6 DEF ActionsGive
  <2> QED BY <2>1, <2>3, <2>7 DEF after, before, more
<1> HIDE DEF T
<1>3. acts \in T BY <1>1, <1>2, ByAction!SequenceInduction
<1> QED BY <1>3 DEF T

LEMMA EvalActionsIs ==
  ASSUME NEW a, NEW s \in States, NEW g \in Groups
  PROVE  IF a \in g.if THEN ActionsGive(a, s, g.actions, evalActions(a, s, g))
         ELSE evalActions(a, s, g) = s
<1>1. FoldLeft(LAMBDA t, act : evalAction(a, t, act), s, g.actions) = ByAction!Fold(a, s, g.actions)
  BY DEF ByAction!Fold, ByAction!FoldLeft, ByAction!MapThenFoldSet, FoldLeft, MapThenFoldSet, ByAction!Max, Max
<1>2. g.actions \in Seq(Actions) BY DEF Groups
<1> QED BY <1>1, <1>2, ActionsAre DEF evalActions
\* Of a sequence of groups the last action of the last group that has one decides.
HitsAt(a, gs, i, j, t) ==
  i \in 1..Len(gs) /\ j \in 1..Len(gs[i].actions) /\ a \in gs[i].if /\ Hits(a, gs[i].actions[j], t)

LastAt(a, gs, i, j, t) ==
  /\ HitsAt(a, gs, i, j, t)
  /\ \A k, l : HitsAt(a, gs, k, l, t) => k < i \/ (k = i /\ l <= j)

GroupsGive(a, s, gs, r) ==
  /\ r \in States
  /\ \A t \in Things :
       \/ (\A i, j : ~HitsAt(a, gs, i, j, t)) /\ Has(r, t) = Has(s, t)
       \/ \E i, j : LastAt(a, gs, i, j, t) /\ Has(r, t) = Gives(gs[i].actions[j])

LEMMA GroupsAre ==
  ASSUME NEW a, NEW s \in States, NEW gs \in Seq(Groups)
  PROVE  GroupsGive(a, s, gs, ByGroup!Fold(a, s, gs))
<1> DEFINE T == {q \in Seq(Groups) : GroupsGive(a, s, q, ByGroup!Fold(a, s, q))}
<1>1. <<>> \in T
  <2>1. ByGroup!Fold(a, s, <<>>) = s BY ByGroup!FoldEmpty
  <2>2. \A i : i \notin 1..Len(<<>>) OBVIOUS
  <2>3. \A t, i, j : ~HitsAt(a, <<>>, i, j, t) BY <2>2 DEF HitsAt
  <2> QED BY <2>1, <2>3 DEF GroupsGive
<1>2. ASSUME NEW q \in Seq(Groups), NEW g \in Groups, q \in T PROVE Append(q, g) \in T
  <2> DEFINE before == ByGroup!Fold(a, s, q)
             more == Append(q, g)
             len == Len(q)
  <2>1. ByGroup!Fold(a, s, more) = evalActions(a, before, g) BY ByGroup!FoldAppend
  <2>2. GroupsGive(a, s, q, before) BY <1>2
  <2>3. more \in Seq(Groups) /\ Len(more) = len + 1 /\ len \in Nat /\ more[len + 1] = g
        /\ \A i \in 1..len : more[i] = q[i]
    OBVIOUS
  <2> DEFINE after == evalActions(a, before, g)
             m == Len(g.actions)
  <2> HIDE DEF before, more
  <2>4. before \in States BY <2>2 DEF GroupsGive
  <2>5. g.actions \in Seq(Actions) /\ m \in Nat BY DEF Groups
  <2>6. IF a \in g.if THEN ActionsGive(a, before, g.actions, after) ELSE after = before
    BY <2>4, EvalActionsIs
  <2> HIDE DEF after, len
  <2>7. \A i, j, t : i # len + 1 => (HitsAt(a, more, i, j, t) <=> HitsAt(a, q, i, j, t))
    <3>1. \A i : i # len + 1 => (i \in 1..(len + 1) <=> i \in 1..len) BY <2>3
    <3> QED BY <2>3, <3>1 DEF HitsAt, len
  <2>8. \A j, t : HitsAt(a, more, len + 1, j, t)
                    <=> j \in 1..m /\ a \in g.if /\ Hits(a, g.actions[j], t)
    <3>1. len + 1 \in 1..(len + 1) BY <2>3
    <3> QED BY <2>3, <3>1 DEF HitsAt
  <2>9. \A i, j, t : HitsAt(a, q, i, j, t) => i \in 1..len /\ i < len + 1 /\ i # len + 1
    <3>1. \A i \in 1..len : i < len + 1 /\ i # len + 1 BY <2>3
    <3> QED BY <3>1 DEF HitsAt, len
  <2> HIDE DEF m
  <2>10. after \in States BY <2>4, <2>6 DEF ActionsGive
  <2>11. ASSUME NEW t \in Things
         PROVE  \/ (\A i, j : ~HitsAt(a, more, i, j, t)) /\ Has(after, t) = Has(s, t)
                \/ \E i, j : LastAt(a, more, i, j, t) /\ Has(after, t) = Gives(more[i].actions[j])
    <3>1. CASE \E j : HitsAt(a, more, len + 1, j, t)
      <4>1. a \in g.if /\ ActionsGive(a, before, g.actions, after) BY <2>6, <2>8, <3>1
      <4>2. PICK j \in 1..m :
              /\ Hits(a, g.actions[j], t) /\ Has(after, t) = Gives(g.actions[j])
              /\ \A l \in 1..m : Hits(a, g.actions[l], t) => l <= j
        BY <4>1, <2>8, <3>1 DEF ActionsGive, m
      <4>3. HitsAt(a, more, len + 1, j, t) BY <2>8, <4>1, <4>2
      <4>4. \A k, l : HitsAt(a, more, k, l, t) => k < len + 1 \/ (k = len + 1 /\ l <= j)
        BY <2>7, <2>8, <2>9, <4>2
      <4>5. LastAt(a, more, len + 1, j, t) BY <4>3, <4>4 DEF LastAt
      <4> QED BY <4>2, <4>5, <2>3
    <3>2. CASE \A j : ~HitsAt(a, more, len + 1, j, t)
      <4>1. Has(after, t) = Has(before, t)
        <5>1. CASE a \notin g.if BY <5>1, <2>6
        <5>2. CASE a \in g.if
          <6>1. \A j \in 1..m : ~Hits(a, g.actions[j], t) BY <5>2, <3>2, <2>8
          <6>2. ActionsGive(a, before, g.actions, after) BY <5>2, <2>6
          <6> QED BY <6>1, <6>2 DEF ActionsGive, m
        <5> QED BY <5>1, <5>2
      <4>2. \A i, j : HitsAt(a, more, i, j, t) <=> HitsAt(a, q, i, j, t) BY <2>7, <2>9, <3>2
      <4>3. CASE (\A i, j : ~HitsAt(a, q, i, j, t)) /\ Has(before, t) = Has(s, t)
        BY <4>1, <4>2, <4>3
      <4>4. ASSUME NEW i, NEW j, LastAt(a, q, i, j, t), Has(before, t) = Gives(q[i].actions[j])
            PROVE  \E k, l : LastAt(a, more, k, l, t) /\ Has(after, t) = Gives(more[k].actions[l])
        <5>1. LastAt(a, more, i, j, t) BY <4>2, <4>4 DEF LastAt
        <5>2. i \in 1..len BY <4>4, <2>9 DEF LastAt
        <5>3. more[i] = q[i] BY <5>2, <2>3
        <5> QED BY <4>1, <4>4, <5>1, <5>3
      <4>5. \/ (\A i, j : ~HitsAt(a, q, i, j, t)) /\ Has(before, t) = Has(s, t)
            \/ \E i, j : LastAt(a, q, i, j, t) /\ Has(before, t) = Gives(q[i].actions[j])
        BY <2>2 DEF GroupsGive
      <4> QED BY <4>3, <4>4, <4>5
    <3> QED BY <3>1, <3>2
  <2>12. GroupsGive(a, s, more, after) BY <2>10, <2>11 DEF GroupsGive
  <2> QED BY <2>1, <2>3, <2>12 DEF after, before, more
<1> HIDE DEF T
<1>3. gs \in T BY <1>1, <1>2, ByGroup!SequenceInduction
<1> QED BY <1>3 DEF T
----------------------------------------------------------------------------
(* What the evaluation of a document does is what the document says. *)

Base(files) == [cfg |-> [m \in Names |-> None], files |-> files]

\* A document whose groups are decoded whole: no entry is an action by itself.
Decoded(f) == \A i \in DOMAIN f.actions : f.actions[i].kind # "action"

LEMMA BaseIs ==
  ASSUME NEW files \in Files
  PROVE  Base(files) \in States
BY DEF Base, States, Overrides

LEMMA EachIs ==
  ASSUME NEW ns \in Seq(Names), NEW v \in Values
  PROVE  Each(ns, v) \in Seq(Actions)
<1>1. \A i \in DOMAIN ns : SetConfig(ns[i], v) \in Actions
  <2> TAKE i \in DOMAIN ns
  <2>1. ns[i] \in Names OBVIOUS
  <2> QED BY <2>1 DEF SetConfig, Actions
<1>2. DOMAIN ns = 1..Len(ns) /\ Len(ns) \in Nat OBVIOUS
<1>3. Each(ns, v) \in [1..Len(ns) -> Actions] BY <1>1, <1>2 DEF Each
<1> QED BY <1>2, <1>3, SeqDef

LEMMA ConcatIs ==
  ASSUME NEW S, NEW s \in Seq(S), NEW t \in Seq(S)
  PROVE  s \o t \in Seq(S)
OBVIOUS

LEMMA ShortFormsAre ==
  ASSUME NEW f \in Kernelfiles
  PROVE  initActions(f) \in Seq(Actions)
<1> DEFINE e1 == Each(f.modules.enable, "m")
           e2 == Each(f.modules.builtin, "y")
           e3 == Each(f.modules.disable, "n")
           e4 == Each(f.options.enable, "y")
           e5 == Each(f.options.disable, "n")
<1>1. /\ f.modules.enable \in Seq(Names) /\ f.modules.builtin \in Seq(Names)
      /\ f.modules.disable \in Seq(Names) /\ f.options.enable \in Seq(Names)
      /\ f.options.disable \in Seq(Names) /\ f.files \in Seq(FileActions)
  BY DEF Kernelfiles
<1>2. "m" \in Values /\ "y" \in Values /\ "n" \in Values BY DEF Values
<1>3. e1 \in Seq(Actions) /\ e2 \in Seq(Actions) /\ e3 \in Seq(Actions)
      /\ e4 \in Seq(Actions) /\ e5 \in Seq(Actions)
  BY <1>1, <1>2, EachIs
<1>4. f.files \in Seq(Actions)
  <2>1. FileActions \subseteq Actions BY DEF Actions
  <2> QED BY <1>1, <2>1, SeqMonotonic
<1> HIDE DEF e1, e2, e3, e4, e5
<1>5. e1 \o e2 \o e3 \o e4 \o e5 \o f.files \in Seq(Actions) BY <1>3, <1>4, ConcatIs
<1> QED BY <1>5 DEF initActions, e1, e2, e3, e4, e5

LEMMA WrittenIs ==
  ASSUME NEW f \in Kernelfiles, NEW i \in 1..Len(Written(f))
  PROVE  /\ Len(Written(f)) \in Nat
         /\ DOMAIN Written(f) = 1..Len(Written(f))
         /\ Written(f)[i].actions \in Seq(Actions)
<1> DEFINE first == Group(Archs, initActions(f))
           E == [kind : {"group", "list", "action"}, if : SUBSET Archs, actions : Seq(Actions)]
           list == f.actions
<1>1. list \in Seq(E) BY DEF Kernelfiles
<1>2. first \in E BY ShortFormsAre DEF Group
<1> HIDE DEF first, list, E
<1>3. <<first>> \o list \in Seq(E) BY <1>1, <1>2
<1>4. Written(f) \in Seq(E) BY <1>3 DEF Written, first, list
<1>5. Written(f)[i] \in E BY <1>4
<1> QED BY <1>4, <1>5 DEF E

LEMMA EvaluateIs ==
  ASSUME NEW f \in Kernelfiles, Decoded(f), NEW a \in Archs, NEW files \in Files
  PROVE  GroupsGive(a, Base(files), Written(f), Evaluate(f, a, files))
<1> DEFINE first == [if |-> Archs, actions |-> initActions(f)]
           list == f.actions
           decoded == [i \in DOMAIN list |-> UnmarshalJSON(list[i])]
           all == <<first>> \o decoded
           base == Base(files)
           E == [kind : {"group", "list", "action"}, if : SUBSET Archs, actions : Seq(Actions)]
<1>1. list \in Seq(E) /\ base \in States BY BaseIs DEF Kernelfiles
<1>2. first \in Groups BY ShortFormsAre DEF Groups
<1>3. decoded \in Seq(Groups) /\ Len(decoded) = Len(list)
      /\ \A i \in 1..Len(list) : decoded[i].if = list[i].if /\ decoded[i].actions = list[i].actions
  <2>1. DOMAIN list = 1..Len(list) /\ Len(list) \in Nat BY <1>1
  <2>2. \A i \in 1..Len(list) :
          /\ UnmarshalJSON(list[i]) \in Groups
          /\ UnmarshalJSON(list[i]).if = list[i].if
          /\ UnmarshalJSON(list[i]).actions = list[i].actions
    <3> TAKE i \in 1..Len(list)
    <3>1. list[i].kind # "action" BY <2>1 DEF Decoded
    <3>2. list[i] \in E
      <4> HIDE DEF list, E
      <4> QED BY <1>1
    <3> HIDE DEF list
    <3> QED BY <3>1, <3>2 DEF UnmarshalJSON, Groups
  <2> HIDE DEF list
  <2>3. decoded \in [1..Len(list) -> Groups] BY <2>1, <2>2
  <2>4. decoded \in Seq(Groups) /\ Len(decoded) = Len(list) BY <2>1, <2>3, SeqDef
  <2> QED BY <2>1, <2>2, <2>4
<1>4. Evaluate(f, a, files) = ByGroup!Fold(a, base, effectiveActions(f))
  BY DEF Evaluate, Base, ByGroup!Fold, ByGroup!FoldLeft, ByGroup!MapThenFoldSet, FoldLeft, MapThenFoldSet, ByGroup!Max, Max
<1>5. effectiveActions(f) = IF initActions(f) = <<>> THEN decoded ELSE all
  BY DEF effectiveActions
<1>6. Written(f) = <<Group(Archs, initActions(f))>> \o list BY DEF Written
<1> HIDE DEF first, list, decoded, base
<1>7. Evaluate(f, a, files) = ByGroup!Fold(a, base, all)
  <2>1. CASE initActions(f) # <<>> BY <2>1, <1>4, <1>5
  <2>2. CASE initActions(f) = <<>>
    <3> DEFINE one == <<first>>
               nil == <<>>
    <3>1. one \in Seq(Groups) /\ all = one \o decoded BY <1>2
    <3>2. one = Append(nil, first) /\ nil \in Seq(Groups) OBVIOUS
    <3>3. ByGroup!Fold(a, base, nil) = base BY ByGroup!FoldEmpty
    <3> HIDE DEF one, nil, all
    <3>4. ByGroup!Fold(a, base, one) = evalActions(a, base, first)
      <4>1. ByGroup!Fold(a, base, Append(nil, first)) = evalActions(a, ByGroup!Fold(a, base, nil), first)
        BY <3>2, <1>2, ByGroup!FoldAppend
      <4> QED BY <3>2, <3>3, <4>1
    <3>7. ByGroup!Fold(a, base, one \o decoded) = ByGroup!Fold(a, ByGroup!Fold(a, base, one), decoded)
      BY <3>1, <1>3, ByGroup!FoldConcat
    <3>5. evalActions(a, base, first) = ByAction!Fold(a, base, <<>>)
      <4>1. a \in first.if /\ first.actions = <<>> BY <2>2 DEF first
      <4>2. FoldLeft(LAMBDA t, act : evalAction(a, t, act), base, first.actions) = ByAction!Fold(a, base, first.actions)
        BY DEF ByAction!Fold, ByAction!FoldLeft, ByAction!MapThenFoldSet, FoldLeft, MapThenFoldSet, ByAction!Max, Max
      <4> QED BY <4>1, <4>2 DEF evalActions
    <3>6. ByAction!Fold(a, base, <<>>) = base BY ByAction!FoldEmpty
    <3> QED BY <2>2, <3>1, <3>4, <3>5, <3>6, <3>7, <1>4, <1>5
  <2> QED BY <2>1, <2>2
<1>8. all \in Seq(Groups) BY <1>2, <1>3
<1>9. GroupsGive(a, base, all, Evaluate(f, a, files)) BY <1>1, <1>7, <1>8, GroupsAre
<1>10. /\ Len(Written(f)) = Len(all)
       /\ \A i \in 1..Len(all) : Written(f)[i].if = all[i].if /\ Written(f)[i].actions = all[i].actions
  <2> DEFINE g == Group(Archs, initActions(f))
  <2>1. g.if = first.if /\ g.actions = first.actions BY DEF Group, first
  <2> HIDE DEF g
  <2>2. Len(<<g>> \o list) = Len(list) + 1 /\ (<<g>> \o list)[1] = g
        /\ \A i \in 2..(Len(list) + 1) : (<<g>> \o list)[i] = list[i - 1]
    BY <1>1
  <2>3. Len(all) = Len(list) + 1 /\ all[1] = first
        /\ \A i \in 2..(Len(list) + 1) : all[i] = decoded[i - 1]
    BY <1>3, <1>2
  <2>4. \A i \in 1..(Len(list) + 1) : i = 1 \/ (i \in 2..(Len(list) + 1) /\ i - 1 \in 1..Len(list))
    BY <1>1
  <2>5. Written(f) = <<g>> \o list BY <1>6 DEF g
  <2> HIDE DEF all
  <2>6. Len(Written(f)) = Len(all) BY <2>2, <2>3, <2>5
  <2>7. ASSUME NEW i \in 1..(Len(list) + 1)
        PROVE  Written(f)[i].if = all[i].if /\ Written(f)[i].actions = all[i].actions
    <3>1. CASE i = 1 BY <3>1, <2>1, <2>2, <2>3, <2>5
    <3>2. CASE i \in 2..(Len(list) + 1)
      <4>1. i - 1 \in 1..Len(list) BY <3>2, <1>1
      <4>2. Written(f)[i] = list[i - 1] /\ all[i] = decoded[i - 1] BY <3>2, <2>2, <2>3, <2>5
      <4> QED BY <4>1, <4>2, <1>3
    <3> QED BY <3>1, <3>2, <2>4
  <2> QED BY <2>3, <2>6, <2>7
<1> HIDE DEF all
<1>11. \A i, j, t : HitsAt(a, Written(f), i, j, t) <=> HitsAt(a, all, i, j, t)
  BY <1>10 DEF HitsAt
<1>12. \A i, j, t : LastAt(a, Written(f), i, j, t) <=> LastAt(a, all, i, j, t)
  BY <1>11 DEF LastAt
<1>13. \A i, j, t : LastAt(a, all, i, j, t) => Written(f)[i].actions = all[i].actions
  BY <1>10 DEF LastAt, HitsAt
<1>14. GroupsGive(a, base, Written(f), Evaluate(f, a, files))
  BY <1>9, <1>11, <1>12, <1>13 DEF GroupsGive
<1> QED BY <1>14 DEF base
\* The places of the actions on a thing.
On(f, a, t) == {w \in Taken(f, a) : About(ActionAt(f, w), t)}

LEMMA OnIs ==
  ASSUME NEW f \in Kernelfiles, NEW a, NEW t
  PROVE  /\ \A w \in On(f, a, t) : w = <<w[1], w[2]>> /\ HitsAt(a, Written(f), w[1], w[2], t)
         /\ \A i, j : HitsAt(a, Written(f), i, j, t) => <<i, j>> \in On(f, a, t)
<1> DEFINE g == Written(f)
           place == UNION {{<<i, j>> : j \in DOMAIN g[i].actions} : i \in DOMAIN g}
<1>1. On(f, a, t) = {w \in place : a \in g[w[1]].if \intersect g[w[1]].actions[w[2]].if
                                    /\ About(g[w[1]].actions[w[2]], t)}
  BY DEF On, Taken, ActionAt
<1>2. DOMAIN g = 1..Len(g) /\ \A i \in 1..Len(g) : DOMAIN g[i].actions = 1..Len(g[i].actions)
  <2>1. \A i \in 1..Len(g) : g[i].actions \in Seq(Actions) BY WrittenIs
  <2>2. DOMAIN g = 1..Len(g) 
    <3> DEFINE first == Group(Archs, initActions(f))
               list == f.actions
               E == [kind : {"group", "list", "action"}, if : SUBSET Archs, actions : Seq(Actions)]
    <3>1. list \in Seq(E) BY DEF Kernelfiles
    <3> HIDE DEF first, list, E
    <3>2. DOMAIN (<<first>> \o list) = 1..Len(<<first>> \o list) BY <3>1
    <3> QED BY <3>2 DEF Written, first, list
  <2> HIDE DEF g
  <2> QED BY <2>1, <2>2
<1> HIDE DEF g
<1>3. ASSUME NEW w \in On(f, a, t)
      PROVE  w = <<w[1], w[2]>> /\ HitsAt(a, g, w[1], w[2], t)
  <2>1. PICK i \in 1..Len(g) : \E j \in 1..Len(g[i].actions) : w = <<i, j>> BY <1>1, <1>2
  <2> PICK j \in 1..Len(g[i].actions) : w = <<i, j>> BY <2>1
  <2>2. w[1] = i /\ w[2] = j BY <2>1
  <2> QED BY <1>1, <2>1, <2>2 DEF HitsAt, Hits
<1>4. ASSUME NEW i, NEW j, HitsAt(a, g, i, j, t)
      PROVE  <<i, j>> \in On(f, a, t)
  <2>1. i \in 1..Len(g) /\ j \in 1..Len(g[i].actions) /\ a \in g[i].if /\ Hits(a, g[i].actions[j], t)
    BY <1>4 DEF HitsAt
  <2>2. <<i, j>> \in place BY <2>1, <1>2
  <2> DEFINE w == <<i, j>>
  <2>3. w[1] = i /\ w[2] = j OBVIOUS
  <2> HIDE DEF w, place
  <2>4. w \in place BY <2>2 DEF w
  <2>5. w \in On(f, a, t) BY <1>1, <2>1, <2>3, <2>4 DEF Hits
  <2> QED BY <2>5 DEF w
<1> QED BY <1>3, <1>4 DEF g

\* The place that LastAt speaks of is the latest.
LEMMA LatestIs ==
  ASSUME NEW f \in Kernelfiles, NEW a, NEW t, NEW i, NEW j, LastAt(a, Written(f), i, j, t)
  PROVE  /\ On(f, a, t) # {}
         /\ Latest(On(f, a, t)) = <<i, j>>
         /\ ActionAt(f, Latest(On(f, a, t))) = Written(f)[i].actions[j]
<1> DEFINE W == On(f, a, t)
           w == <<i, j>>
<1>1. w \in W BY OnIs DEF LastAt
<1>2. ASSUME NEW v \in W
      PROVE  v = <<v[1], v[2]>> /\ v[1] \in Nat /\ v[2] \in Nat
             /\ (v[1] < i \/ (v[1] = i /\ v[2] <= j))
  <2>1. v = <<v[1], v[2]>> /\ HitsAt(a, Written(f), v[1], v[2], t) BY OnIs
  <2>2. v[1] < i \/ (v[1] = i /\ v[2] <= j) BY <2>1 DEF LastAt
  <2>3. v[1] \in 1..Len(Written(f)) /\ v[2] \in 1..Len(Written(f)[v[1]].actions)
    BY <2>1 DEF HitsAt
  <2>4. Len(Written(f)) \in Nat /\ Written(f)[v[1]].actions \in Seq(Actions) BY <2>3, WrittenIs
  <2>5. v[1] \in Nat /\ v[2] \in Nat BY <2>3, <2>4
  <2> QED BY <2>1, <2>2, <2>5
<1>3. w[1] = i /\ w[2] = j OBVIOUS
<1> HIDE DEF W, w
<1>4. i \in Nat /\ j \in Nat BY <1>1, <1>2, <1>3
<1>5. \A v \in W \ {w} : Before(v, w)
  <2> SUFFICES ASSUME NEW v \in W, v # w PROVE Before(v, w)
    OBVIOUS
  <2>1. v = <<v[1], v[2]>> /\ v[1] \in Nat /\ v[2] \in Nat /\ (v[1] < i \/ (v[1] = i /\ v[2] <= j))
    BY <1>2
  <2>2. v[1] = i => v[2] # j BY <2>1 DEF w
  <2> QED BY <1>3, <1>4, <2>1, <2>2 DEF Before
<1>6. ASSUME NEW u \in W, \A v \in W \ {u} : Before(v, u) PROVE u = w
  <2> SUFFICES ASSUME u # w PROVE FALSE
    OBVIOUS
  <2>1. Before(w, u) /\ Before(u, w) BY <1>1, <1>5, <1>6
  <2>2. u[1] \in Nat /\ u[2] \in Nat BY <1>2
  <2> QED BY <1>3, <1>4, <2>1, <2>2 DEF Before
<1>7. Latest(W) = w BY <1>1, <1>5, <1>6 DEF Latest
<1>8. ActionAt(f, w) = Written(f)[i].actions[j] BY <1>3 DEF ActionAt
<1> QED BY <1>1, <1>7, <1>8 DEF W, w

\* What an option or a file has in the end: the last action on it decides.
LEMMA MeaningIs ==
  ASSUME NEW f \in Kernelfiles, Decoded(f), NEW a \in Archs, NEW files \in Files, NEW t \in Things
  PROVE  /\ Evaluate(f, a, files) \in States
         /\ Has(Evaluate(f, a, files), t) =
              IF On(f, a, t) = {} THEN Has(Base(files), t) ELSE Gives(ActionAt(f, Latest(On(f, a, t))))
<1> DEFINE r == Evaluate(f, a, files)
<1>1. GroupsGive(a, Base(files), Written(f), r) BY EvaluateIs
<1> HIDE DEF r
<1>2. r \in States BY <1>1 DEF GroupsGive
<1>3. CASE (\A i, j : ~HitsAt(a, Written(f), i, j, t)) /\ Has(r, t) = Has(Base(files), t)
  <2>1. On(f, a, t) = {} BY <1>3, OnIs
  <2> QED BY <1>2, <1>3, <2>1 DEF r
<1>4. ASSUME NEW i, NEW j, LastAt(a, Written(f), i, j, t), Has(r, t) = Gives(Written(f)[i].actions[j])
      PROVE  On(f, a, t) # {} /\ Has(r, t) = Gives(ActionAt(f, Latest(On(f, a, t))))
  BY <1>4, LatestIs
<1> QED BY <1>1, <1>2, <1>3, <1>4 DEF GroupsGive, r

\* What is at a place of On is an action, and on that thing.
LEMMA ActionAtIs ==
  ASSUME NEW f \in Kernelfiles, NEW a, NEW t, NEW w \in On(f, a, t)
  PROVE  ActionAt(f, w) \in Actions /\ About(ActionAt(f, w), t)
<1>1. HitsAt(a, Written(f), w[1], w[2], t) BY OnIs
<1>2. w[1] \in 1..Len(Written(f)) /\ w[2] \in 1..Len(Written(f)[w[1]].actions) BY <1>1 DEF HitsAt
<1>3. Written(f)[w[1]].actions \in Seq(Actions) BY <1>2, WrittenIs
<1>4. Written(f)[w[1]].actions[w[2]] \in Actions BY <1>2, <1>3
<1> QED BY <1>4 DEF ActionAt, On
LEMMA LatestIsThere ==
  ASSUME NEW f \in Kernelfiles, Decoded(f), NEW a \in Archs, NEW files \in Files, NEW t \in Things,
         On(f, a, t) # {}
  PROVE  Latest(On(f, a, t)) \in On(f, a, t)
<1>1. PICK i, j : LastAt(a, Written(f), i, j, t)
  <2>1. GroupsGive(a, Base(files), Written(f), Evaluate(f, a, files)) BY EvaluateIs
  <2>2. ~(\A i, j : ~HitsAt(a, Written(f), i, j, t)) BY OnIs
  <2> QED BY <2>1, <2>2 DEF GroupsGive
<1>2. Latest(On(f, a, t)) = <<i, j>> BY <1>1, LatestIs
<1>3. HitsAt(a, Written(f), i, j, t) BY <1>1 DEF LastAt
<1> QED BY <1>2, <1>3, OnIs

\* The override the document gives an option by this name.
OnName(f, a, m) == On(f, a, [kind |-> "option", name |-> m])
Given(f, a, m) ==
  IF OnName(f, a, m) = {} THEN None ELSE ActionAt(f, Latest(OnName(f, a, m))).value

\* What a tree has of a file before the actions.
Origin(f, p) == IF f.from = "git" /\ p \in SourceHas THEN "source" ELSE None

LEMMA EvaluateMeans ==
  ASSUME NEW f \in Kernelfiles, Decoded(f), NEW a \in Archs, NEW files \in Files
  PROVE  /\ Evaluate(f, a, files).cfg \in Overrides
         /\ Evaluate(f, a, files).files \in Files
         /\ \A m \in Names : Evaluate(f, a, files).cfg[m] = Given(f, a, m)
         /\ (\A p \in Paths : OnFile(f, a, p) = {} => files[p] = Origin(f, p))
              => Evaluate(f, a, files).files = WrittenFiles(f, a)
<1> DEFINE r == Evaluate(f, a, files)
           option(m) == [kind |-> "option", name |-> m]
           path(p) == [kind |-> "file", name |-> p]
<1>1. \A t \in Things :
        /\ r \in States
        /\ Has(r, t) = IF On(f, a, t) = {} THEN Has(Base(files), t)
                       ELSE Gives(ActionAt(f, Latest(On(f, a, t))))
  BY MeaningIs
<1>2. r \in States
  <2>1. GroupsGive(a, Base(files), Written(f), r) BY EvaluateIs
  <2> QED BY <2>1 DEF GroupsGive
<1> HIDE DEF r
<1>3. r.cfg \in Overrides /\ r.files \in Files BY <1>2 DEF States
<1>4. ASSUME NEW m \in Names PROVE r.cfg[m] = Given(f, a, m)
  <2> DEFINE t == option(m)
             W == On(f, a, t)
  <2>1. t \in Things /\ t.kind = "option" /\ t.name = m BY DEF Things
  <2> HIDE DEF t
  <2>2. Has(r, t) = r.cfg[m] /\ Has(Base(files), t) = None BY <2>1 DEF Has, Base
  <2>3. CASE W = {} BY <1>1, <2>1, <2>2, <2>3 DEF Given, OnName, t
  <2>4. CASE W # {}
    <3>1. Latest(W) \in W BY <2>1, <2>4, LatestIsThere
    <3> DEFINE act == ActionAt(f, Latest(W))
    <3>2. About(act, t) BY <3>1, ActionAtIs
    <3>3. Gives(act) = act.value
      <4> HIDE DEF act
      <4> QED BY <3>2, <2>1 DEF About, ConfigOps, Gives
    <3>4. Has(r, t) = Gives(act) BY <1>1, <2>1, <2>4
    <3>5. Given(f, a, m) = act.value BY <2>4 DEF Given, OnName, t
    <3> QED BY <2>2, <3>3, <3>4, <3>5
  <2> QED BY <2>3, <2>4
<1>5. ASSUME \A p \in Paths : OnFile(f, a, p) = {} => files[p] = Origin(f, p)
      PROVE  r.files = WrittenFiles(f, a)
  <2>1. ASSUME NEW p \in Paths PROVE r.files[p] = WrittenFiles(f, a)[p]
    <3> DEFINE t == path(p)
               W == On(f, a, t)
    <3>1. t \in Things /\ t.kind = "file" /\ t.name = p BY DEF Things
    <3> HIDE DEF t
    <3>2. Has(r, t) = r.files[p] /\ Has(Base(files), t) = files[p] BY <3>1 DEF Has, Base
    <3>3. OnFile(f, a, p) = W BY <3>1 DEF OnFile, On, About, FileOps
    <3>4. CASE W = {}
      <4>1. files[p] = Origin(f, p) BY <1>5, <3>3, <3>4
      <4>2. WrittenFiles(f, a)[p] = Origin(f, p) BY <3>3, <3>4 DEF WrittenFiles, Origin
      <4> QED BY <1>1, <3>1, <3>2, <3>4, <4>1, <4>2
    <3>5. CASE W # {}
      <4> DEFINE act == ActionAt(f, Latest(W))
      <4>1. Latest(W) \in W BY <3>1, <3>5, LatestIsThere
      <4>2. act \in Actions /\ About(act, t) BY <4>1, ActionAtIs
      <4>3. Has(r, t) = Gives(act) BY <1>1, <3>1, <3>5
      <4>4. WrittenFiles(f, a)[p] = IF act.op = "addFile" THEN "context" ELSE None
        BY <3>3, <3>5 DEF WrittenFiles
      <4> HIDE DEF act
      <4>5. act.op \in FileOps BY <4>2, <3>1 DEF About
      <4>6. act.value = None BY <4>2, <4>5, ActionKinds DEF FileOps
      <4> QED BY <3>2, <4>3, <4>4, <4>6 DEF Gives
    <3> QED BY <3>4, <3>5
  <2>2. DOMAIN r.files = Paths BY <1>3 DEF Files
  <2>3. DOMAIN WrittenFiles(f, a) = Paths BY DEF WrittenFiles
  <2>4. r.files = [p \in Paths |-> r.files[p]] BY <1>3 DEF Files
  <2>5. WrittenFiles(f, a) = [p \in Paths |-> WrittenFiles(f, a)[p]] BY DEF WrittenFiles
  <2> QED BY <2>1, <2>4, <2>5
<1> QED BY <1>3, <1>4, <1>5 DEF r

\* An option is spelled in one way throughout a document.
SpelledOnce(f) ==
  \A a \in Archs : \A v, w \in Taken(f, a) :
    /\ ActionAt(f, v).op \in ConfigOps /\ ActionAt(f, w).op \in ConfigOps
    /\ Canon[ActionAt(f, v).target] = Canon[ActionAt(f, w).target]
    => ActionAt(f, v).target = ActionAt(f, w).target

\* Of the overrides that a document gives, at most one is for an option, and it is
\* the one the document means.
LEMMA OverridesMean ==
  ASSUME NEW f \in Kernelfiles, SpelledOnce(f), NEW a \in Archs, NEW s \in Symbols, NEW o,
         \A m \in Names : o[m] = Given(f, a, m)
  PROVE  LET M == {m \in Names : Canon[m] = s /\ o[m] # None}
         IN  /\ M = {} => WrittenConfig(f, a)[s] = Defconfig[a][s]
             /\ \A m \in M : o[m] = WrittenConfig(f, a)[s]
<1> DEFINE M == {m \in Names : Canon[m] = s /\ o[m] # None}
           W == OnSymbol(f, a, s)
           value == ActionAt(f, Latest(W)).value
<1>1. WrittenConfig(f, a)[s] = IF W = {} \/ value = None THEN Defconfig[a][s] ELSE value
  BY DEF WrittenConfig
<1>2. ASSUME NEW m \in Names
      PROVE  OnName(f, a, m) = {w \in Taken(f, a) : ActionAt(f, w).op \in ConfigOps
                                                     /\ ActionAt(f, w).target = m}
  BY DEF OnName, On, About
<1>3. W = {w \in Taken(f, a) : ActionAt(f, w).op \in ConfigOps /\ Canon[ActionAt(f, w).target] = s}
  BY DEF OnSymbol, ConfigOps
<1> HIDE DEF W
<1>4. ASSUME NEW m \in Names, Canon[m] = s PROVE OnName(f, a, m) \subseteq W
  BY <1>2, <1>3, <1>4
<1>5. CASE W = {}
  <2>1. \A m \in Names : Canon[m] = s => o[m] = None BY <1>4, <1>5 DEF Given
  <2> QED BY <1>1, <1>5, <2>1
<1>6. CASE W # {}
  <2> PICK w \in W : TRUE BY <1>6
  <2> DEFINE x == ActionAt(f, w).target
  <2>1. w \in Taken(f, a) /\ ActionAt(f, w).op \in ConfigOps /\ Canon[x] = s BY <1>3
  <2>2. x \in Names
    <3> DEFINE t == [kind |-> "option", name |-> x]
    <3>1. w \in On(f, a, t) BY <2>1 DEF On, About
    <3>2. ActionAt(f, w) \in Actions BY <3>1, ActionAtIs
    <3> QED BY <3>2, <2>1, ActionKinds DEF ConfigOps, FileOps
  <2>3. \A v \in W : ActionAt(f, v).target = x BY <1>3, <2>1 DEF SpelledOnce
  <2> HIDE DEF x
  <2>4. OnName(f, a, x) = W BY <1>2, <1>3, <1>4, <2>1, <2>2, <2>3
  <2>5. o[x] = value BY <1>6, <2>2, <2>4 DEF Given
  <2>6. \A m \in Names : Canon[m] = s /\ m # x => o[m] = None
    <3> SUFFICES ASSUME NEW m \in Names, Canon[m] = s, m # x PROVE o[m] = None
      OBVIOUS
    <3>1. OnName(f, a, m) = {} BY <1>2, <1>4, <2>3
    <3> QED BY <3>1 DEF Given
  <2>7. CASE value = None BY <1>1, <2>5, <2>6, <2>7
  <2>8. CASE value # None
    <3>1. x \in M BY <2>1, <2>2, <2>5, <2>8
    <3>2. \A m \in M : m = x BY <2>6
    <3> QED BY <1>1, <1>6, <2>5, <2>8, <3>1, <3>2
  <2> QED BY <2>7, <2>8
<1> QED BY <1>5, <1>6
----------------------------------------------------------------------------
(* The types. *)

Trees == [files : Files, config : Configs \union {None}]
Images == [files : Files, config : Configs]

WithTree == {"from", "actions", "defconfig", "apply", "compile"}
WithImage == {"kernel", "modules", "config"}

\* What a build works on: the document, the trees, the overrides and the image.
Materials ==
  /\ file \in Documents \union {None}
  /\ pc # "idle" => file \in Documents
  /\ tree \in [Archs -> Trees \union {None}]
  /\ cfg \in Overrides
  /\ image \in Images \union {None}
  /\ pc \in WithTree => tree[arch] \in Trees
  /\ pc \in {"apply", "compile"} => tree[arch].config \in Configs
  /\ pc \in WithImage => image \in Images
  /\ builds \in 0..MaxBuilds
  /\ answer \in {"none", "ok", "failed"}
  /\ shown \in BOOLEAN /\ canceled \in BOOLEAN
  /\ built \in store \union {NoIndex}

LEMMA ArchIs == ASSUME Inv, pc \in OnArch PROVE arch \in Archs
<1>1. n \in 1..Len(archs) /\ archs \in Seq(Archs)
  BY LenProperties DEF Inv, Typed, Progress
<1> QED BY <1>1, ElementOfSeq DEF arch

LEMMA ConfigsSet ==
  ASSUME NEW t \in Trees, NEW c \in Configs \union {None}
  PROVE  /\ [t EXCEPT !.config = c] \in Trees
         /\ [t EXCEPT !.config = c].config = c
         /\ [t EXCEPT !.config = c].files = t.files
BY DEF Trees

LEMMA FilesSet ==
  ASSUME NEW t \in Trees, NEW g \in Files
  PROVE  /\ [t EXCEPT !.files = g] \in Trees
         /\ [t EXCEPT !.files = g].files = g
         /\ [t EXCEPT !.files = g].config = t.config
BY DEF Trees

\* The effect of the steps that work on the tree of the current architecture.
Only(t) ==
  /\ tree' = [tree EXCEPT ![arch] = t]
  /\ UNCHANGED <<store, tags, request, archs, n, work, image, results, command>>

LEMMA MakeTreeIs ==
  ASSUME MakeTree
  PROVE  /\ Only(IF tree[arch] = None THEN [files |-> NoFiles, config |-> None] ELSE tree[arch])
         /\ pc = "tree" /\ pc' = "from" /\ cfg' = cfg
BY DEF MakeTree, Goto, Only

LEMMA FromIs ==
  ASSUME Materials, arch \in Archs, From
  PROVE  LET g == [p \in Paths |-> IF file.from = "git" /\ p \in SourceHas THEN "source"
                                   ELSE tree[arch].files[p]]
         IN  /\ g \in Files
             /\ Only([tree[arch] EXCEPT !.files = g])
             /\ pc = "from" /\ pc' = "actions" /\ cfg' = cfg
<1>1. tree[arch] \in Trees /\ tree[arch].files \in [Paths -> Contents]
  BY DEF Materials, From, Goto, WithTree, Trees, Files
<1>2. "source" \in Contents BY DEF Contents
<1>3. tree' = [tree EXCEPT ![arch].files =
         [p \in Paths |-> IF file.from = "git" /\ p \in SourceHas THEN "source" ELSE @[p]]]
  BY DEF From
<1>4. tree \in [Archs -> Trees \union {None}] BY DEF Materials
<1>5. tree' = [tree EXCEPT ![arch] = [tree[arch] EXCEPT !.files =
         [p \in Paths |-> IF file.from = "git" /\ p \in SourceHas THEN "source" ELSE tree[arch].files[p]]]]
  BY <1>3, <1>4
<1> QED BY <1>1, <1>2, <1>5 DEF From, Goto, Only, Files

LEMMA EvaluateActionsIs ==
  ASSUME Materials, arch \in Archs, EvaluateActions
  PROVE  LET s == Evaluate(file, arch, tree[arch].files)
         IN  /\ Only([tree[arch] EXCEPT !.files = s.files])
             /\ pc = "actions" /\ pc' = "defconfig" /\ cfg' = s.cfg
<1> DEFINE s == Evaluate(file, arch, tree[arch].files)
<1>1. tree' = [tree EXCEPT ![arch].files = s.files] /\ cfg' = s.cfg
      /\ pc = "actions" /\ pc' = "defconfig"
      /\ UNCHANGED <<store, tags, request, archs, n, work, image, results, command>>
  BY DEF EvaluateActions, Goto
<1> HIDE DEF s
<1>2. tree' = [tree EXCEPT ![arch] = [tree[arch] EXCEPT !.files = s.files]] BY <1>1
<1> QED BY <1>1, <1>2 DEF Only, s

LEMMA RunDefconfigIs ==
  ASSUME RunDefconfig
  PROVE  /\ Only([tree[arch] EXCEPT !.config = Defconfig[arch]])
         /\ pc = "defconfig" /\ pc' = "apply" /\ cfg' = cfg
BY DEF RunDefconfig, Goto, Only

LEMMA ApplyIs ==
  ASSUME Apply
  PROVE  \E c \in Configs :
           /\ \A s \in Symbols :
                LET M == {m \in Names : Canon[m] = s /\ cfg[m] # None}
                IN  IF M = {} THEN c[s] = tree[arch].config[s] ELSE \E m \in M : c[s] = cfg[m]
           /\ Only([tree[arch] EXCEPT !.config = c])
           /\ pc = "apply" /\ pc' = "compile" /\ cfg' = cfg
BY DEF Apply, Goto, Only
\* A step on the tree of the current architecture gives a tree.
LEMMA OnlyKeeps ==
  ASSUME Materials, arch \in Archs, NEW t \in Trees, Only(t), pc' \in WithTree,
         pc' \in {"apply", "compile"} => t.config \in Configs,
         pc \in OnArch, cfg' \in Overrides
  PROVE  Materials'
<1>1. UNCHANGED <<store, file, archs, n, image, built, shown, canceled, answer, builds>>
      /\ tree' = [tree EXCEPT ![arch] = t]
  BY DEF Only, request, results, command
<1>2. arch' = arch BY <1>1 DEF arch
<1>3. tree \in [Archs -> Trees \union {None}] BY DEF Materials
<1> HIDE DEF arch
<1>4. tree' \in [Archs -> Trees \union {None}] /\ tree'[arch] = t BY <1>1, <1>3
<1>5. pc # "idle" /\ pc' # "idle" /\ pc' \notin WithImage
  BY DEF OnArch, WithTree, WithImage
<1> QED BY <1>1, <1>2, <1>4, <1>5 DEF Materials

LEMMA NoTreeIs == [files |-> NoFiles, config |-> None] \in Trees
BY DEF Trees, Files, NoFiles, Contents

LEMMA DefconfigIs ==
  ASSUME NEW a \in Archs
  PROVE  Defconfig[a] \in Configs
BY KernelfileAssumption

\* Only documents whose groups are decoded whole have a meaning, and this need
\* not be known for the types.
LEMMA EvaluateTyped ==
  ASSUME NEW f \in Kernelfiles, NEW a \in Archs, NEW files \in Files
  PROVE  Evaluate(f, a, files) \in States
<1> DEFINE list == effectiveActions(f)
<1>1. Evaluate(f, a, files) = ByGroup!Fold(a, Base(files), list)
  BY DEF Evaluate, Base, ByGroup!Fold, ByGroup!FoldLeft, ByGroup!MapThenFoldSet, FoldLeft, MapThenFoldSet, ByGroup!Max, Max
<1>2. list \in Seq(Groups)
  <2> DEFINE E == [kind : {"group", "list", "action"}, if : SUBSET Archs, actions : Seq(Actions)]
             entries == f.actions
             first == [if |-> Archs, actions |-> initActions(f)]
             decoded == [i \in DOMAIN entries |-> UnmarshalJSON(entries[i])]
  <2>1. entries \in Seq(E) BY DEF Kernelfiles
  <2>2. first \in Groups BY ShortFormsAre DEF Groups
  <2>3. decoded \in Seq(Groups)
    <3>1. DOMAIN entries = 1..Len(entries) /\ Len(entries) \in Nat
          /\ \A i \in 1..Len(entries) : entries[i] \in E
      <4> HIDE DEF entries, E
      <4> QED BY <2>1
    <3> HIDE DEF entries
    <3>2. <<>> \in Seq(Actions) OBVIOUS
    <3>3. \A i \in 1..Len(entries) : UnmarshalJSON(entries[i]) \in Groups
      BY <3>1, <3>2 DEF UnmarshalJSON, Groups
    <3>4. decoded \in [1..Len(entries) -> Groups] BY <3>1, <3>3
    <3> QED BY <3>1, <3>4, SeqDef
  <2>4. list = IF initActions(f) = <<>> THEN decoded ELSE <<first>> \o decoded
    BY DEF effectiveActions
  <2> HIDE DEF first, decoded
  <2>5. <<first>> \o decoded \in Seq(Groups) BY <2>2, <2>3
  <2> HIDE DEF list
  <2> QED BY <2>3, <2>4, <2>5
<1>3. Base(files) \in States BY BaseIs
<1> HIDE DEF list
<1>4. GroupsGive(a, Base(files), list, ByGroup!Fold(a, Base(files), list)) BY <1>2, <1>3, GroupsAre
<1> QED BY <1>1, <1>4 DEF GroupsGive

LEMMA TreeKeeps == ASSUME Inv, BuilderAssumption, Materials, MakeTree PROVE Materials'
<1>1. pc = "tree" /\ pc' = "from" /\ cfg' = cfg
      /\ Only(IF tree[arch] = None THEN [files |-> NoFiles, config |-> None] ELSE tree[arch])
  BY MakeTreeIs
<1>2. arch \in Archs /\ pc \in OnArch BY <1>1, ArchIs DEF OnArch
<1>3. tree[arch] \in Trees \union {None} BY <1>2 DEF Materials
<1> DEFINE t == IF tree[arch] = None THEN [files |-> NoFiles, config |-> None] ELSE tree[arch]
<1>4. t \in Trees BY <1>3, NoTreeIs
<1> HIDE DEF t
<1>5. Only(t) BY <1>1 DEF t
<1> QED BY <1>1, <1>2, <1>4, <1>5, OnlyKeeps DEF WithTree, Materials

LEMMA FromKeeps == ASSUME Inv, BuilderAssumption, Materials, From PROVE Materials'
<1>1. pc = "from" /\ pc' = "actions" BY DEF From, Goto
<1>2. arch \in Archs /\ pc \in OnArch BY <1>1, ArchIs DEF OnArch
<1>3. tree[arch] \in Trees BY <1>1 DEF Materials, WithTree
<1>4. PICK g \in Files : Only([tree[arch] EXCEPT !.files = g]) /\ cfg' = cfg
  BY <1>2, FromIs
<1>5. [tree[arch] EXCEPT !.files = g] \in Trees BY <1>3, FilesSet
<1> QED BY <1>1, <1>2, <1>4, <1>5, OnlyKeeps DEF WithTree, Materials

LEMMA EvaluateKeeps == ASSUME Inv, BuilderAssumption, Materials, EvaluateActions PROVE Materials'
<1>1. pc = "actions" /\ pc' = "defconfig" BY DEF EvaluateActions, Goto
<1>2. arch \in Archs /\ pc \in OnArch BY <1>1, ArchIs DEF OnArch
<1>3. tree[arch] \in Trees /\ tree[arch].files \in Files BY <1>1 DEF Materials, WithTree, Trees
<1>4. file \in Kernelfiles BY <1>1 DEF Materials, BuilderAssumption
<1> DEFINE s == Evaluate(file, arch, tree[arch].files)
<1>5. s.cfg \in Overrides /\ s.files \in Files BY <1>2, <1>3, <1>4, EvaluateTyped DEF States
<1>6. Only([tree[arch] EXCEPT !.files = s.files]) /\ cfg' = s.cfg BY <1>2, EvaluateActionsIs
<1> HIDE DEF s
<1>7. [tree[arch] EXCEPT !.files = s.files] \in Trees BY <1>3, <1>5, FilesSet
<1> QED BY <1>1, <1>2, <1>5, <1>6, <1>7, OnlyKeeps DEF WithTree

LEMMA DefconfigKeeps == ASSUME Inv, BuilderAssumption, Materials, RunDefconfig PROVE Materials'
<1>1. pc = "defconfig" /\ pc' = "apply" /\ cfg' = cfg
      /\ Only([tree[arch] EXCEPT !.config = Defconfig[arch]])
  BY RunDefconfigIs
<1>2. arch \in Archs /\ pc \in OnArch BY <1>1, ArchIs DEF OnArch
<1>3. tree[arch] \in Trees BY <1>1 DEF Materials, WithTree
<1> DEFINE c == Defconfig[arch]
           t == [tree[arch] EXCEPT !.config = c]
<1>4. c \in Configs BY <1>2, DefconfigIs
<1> HIDE DEF c
<1>5. t \in Trees /\ t.config = c BY <1>3, <1>4, ConfigsSet
<1>6. Only(t) BY <1>1 DEF c
<1> HIDE DEF t
<1> QED BY <1>1, <1>2, <1>4, <1>5, <1>6, OnlyKeeps DEF WithTree, Materials

LEMMA ApplyKeeps == ASSUME Inv, BuilderAssumption, Materials, Apply PROVE Materials'
<1>1. pc = "apply" /\ pc' = "compile" /\ cfg' = cfg BY ApplyIs
<1>2. arch \in Archs /\ pc \in OnArch BY <1>1, ArchIs DEF OnArch
<1>3. tree[arch] \in Trees BY <1>1 DEF Materials, WithTree
<1>4. PICK c \in Configs : Only([tree[arch] EXCEPT !.config = c]) BY ApplyIs
<1> DEFINE t == [tree[arch] EXCEPT !.config = c]
<1>5. t \in Trees /\ t.config = c BY <1>3, ConfigsSet
<1>6. Only(t) BY <1>4
<1> HIDE DEF t
<1> QED BY <1>1, <1>2, <1>5, <1>6, OnlyKeeps DEF WithTree, Materials

\* The steps that leave the trees and the overrides as they are.
LEMMA CompileKeeps == ASSUME Inv, BuilderAssumption, Materials, Compile PROVE Materials'
<1>1. pc = "compile" /\ pc' = "kernel" /\ image' = tree[arch]
      /\ UNCHANGED <<store, file, archs, n, tree, cfg, built, shown, canceled, answer, builds>>
  BY DEF Compile, Goto, request, results, command
<1>2. tree[arch] \in Trees /\ tree[arch].config \in Configs BY <1>1 DEF Materials, WithTree
<1>3. image' \in Images BY <1>1, <1>2 DEF Trees, Images
<1> QED BY <1>1, <1>3 DEF Materials, WithTree, WithImage

LEMMA PushesKeep == ASSUME Inv, BuilderAssumption, Materials, push PROVE Materials'
<1>1. /\ UNCHANGED <<file, tree, cfg, image, built, shown, canceled, answer, builds>>
      /\ store \subseteq store'
      /\ pc \in WithImage \union {"manifest"} /\ pc' \in WithImage \union {"manifest", "arch"}
      /\ pc' \in WithImage => pc \in WithImage
  BY DEF push, PushKernel, PushModules, PushConfig, Push, PackManifest, Goto, WithImage, request, command
<1>2. pc # "idle" /\ pc' # "idle" /\ pc' \notin WithTree BY <1>1 DEF WithImage, WithTree
<1>3. pc' \notin {"apply", "compile"} BY <1>2 DEF WithTree
<1> QED BY <1>1, <1>2, <1>3 DEF Materials

LEMMA StartKeeps ==
  ASSUME Inv, BuilderAssumption, Materials, NEW f \in Documents, NEW r \in Requests, NEW t \in TagLists,
         NEW keep \in BOOLEAN, Start(f, r, t, keep)
  PROVE  Materials'
<1>1. NoCfg \in Overrides BY DEF NoCfg, Overrides
<1>2. NoTrees \in [Archs -> Trees \union {None}] BY DEF NoTrees
<1>3. builds + 1 \in 0..MaxBuilds BY DEF Start, Materials, BuilderAssumption
<1>4. pc' = "log" /\ file' = f /\ tree' = NoTrees /\ cfg' = NoCfg /\ image' = None /\ builds' = builds + 1
      /\ answer' = "none" /\ shown' = FALSE /\ canceled' = FALSE /\ built' = NoIndex
  BY DEF Start, Goto
<1> QED BY <1>1, <1>2, <1>3, <1>4 DEF Materials, WithTree, WithImage

LEMMA OthersKeepMaterials ==
  ASSUME Inv, Kept, BuilderAssumption, Materials,
         CreateLog \/ MakeWork \/ MakeArch \/ PushIndex \/ TagNext \/ Succeed \/ Fail \/ Cancel \/ Kill
  PROVE  Materials'
<1>1. /\ UNCHANGED <<file, tree, cfg, image, builds>>
      /\ pc # "idle"
      /\ \/ pc' \notin WithTree \union WithImage
         \/ pc' = pc /\ UNCHANGED <<archs, n>>
  BY DEF CreateLog, MakeWork, MakeArch, PushIndex, TagNext, Succeed, Fail, Cancel, Kill, Goto,
         WithTree, WithImage, request, command
<1>2. built' \in store' \union {NoIndex}
  BY DEF Materials, CreateLog, MakeWork, MakeArch, PushIndex, TagNext, Succeed, Fail, Cancel, Kill, results
<1>3. answer' \in {"none", "ok", "failed"}
  BY DEF Materials, CreateLog, MakeWork, MakeArch, PushIndex, TagNext, Succeed, Fail, Cancel, Kill, command
<1>4. canceled' \in BOOLEAN
  BY DEF Materials, CreateLog, MakeWork, MakeArch, PushIndex, TagNext, Succeed, Fail, Cancel, Kill, command
<1>5. shown' \in BOOLEAN
  <2>1. keepWork \in BOOLEAN /\ shown \in BOOLEAN BY DEF Kept, Materials
  <2>2. Told \in BOOLEAN BY DEF Told
  <2>3. shown' = shown \/ shown' = keepWork \/ shown' = Told
    BY DEF CreateLog, MakeWork, MakeArch, PushIndex, TagNext, Succeed, Fail, Cancel, Kill, command
  <2> QED BY <2>1, <2>2, <2>3, Zenon
<1>6. CASE pc' \notin WithTree \union WithImage
  BY <1>1, <1>2, <1>3, <1>4, <1>5, <1>6 DEF Materials, WithTree
<1>7. CASE pc' = pc /\ UNCHANGED <<archs, n>>
  <2>1. arch' = arch BY <1>7 DEF arch
  <2> QED BY <1>1, <1>2, <1>3, <1>4, <1>5, <1>7, <2>1 DEF Materials
<1> QED BY <1>1, <1>6, <1>7
LEMMA MaterialsAre == Spec => []Materials
<1>1. Init => Materials
  <2>1. NoCfg \in Overrides BY DEF NoCfg, Overrides
  <2>2. NoTrees \in [Archs -> Trees \union {None}] BY DEF NoTrees
  <2>3. 0 \in 0..MaxBuilds BY BuilderAssumption DEF BuilderAssumption
  <2> QED BY <2>1, <2>2, <2>3 DEF Init, Materials, WithTree, WithImage
<1>2. ASSUME Inv, Kept, Materials, [Next]_vars PROVE Materials'
  <2> USE <1>2, BuilderAssumption
  <2>1. CASE UNCHANGED vars
    <3>1. arch' = arch BY <2>1 DEF vars, arch
    <3> QED BY <2>1, <3>1 DEF vars, Materials
  <2>2. ASSUME NEW f \in Documents, NEW r \in Requests, NEW t \in TagLists,
               NEW keep \in BOOLEAN, Start(f, r, t, keep)
        PROVE  Materials'
    BY <2>2, StartKeeps
  <2>3. CASE buildTree \/ make
    BY <2>3, TreeKeeps, FromKeeps, EvaluateKeeps, DefconfigKeeps, ApplyKeeps, CompileKeeps,
       OthersKeepMaterials DEF buildTree, make
  <2> QED BY <2>1, <2>2, <2>3, PushesKeep, OthersKeepMaterials DEF Next, Step
<1>3. Materials /\ Inv /\ (Kept /\ Leftovers) /\ [Next]_vars => Materials' BY <1>2
<1> QED BY <1>1, <1>3, Invariance, KeptIs, PTL DEF Spec

\* Every variable keeps its type: the trees and the overrides that the actions of a
\* document work on, whatever the document says, among them.
THEOREM TypeCorrect == Spec => []TypeOK
<1>1. ASSUME Inv, Kept, Materials PROVE TypeOK
  <2>1. pc \in Locations
    BY <1>1 DEF Inv, Typed, Locations, Early, Loop, OnArch
  <2>2. asked \in Seq(Archs) /\ archs \in Seq(Archs) /\ names \in Seq(Tags) /\ n \in Nat
        /\ DOMAIN tags = Tags
    BY <1>1 DEF Inv, Typed
  <2>3. {work, keepWork, log, shown, canceled} \subseteq BOOLEAN
    BY <1>1 DEF Kept, Materials
  <2>4. tree \in [Archs -> [files : Files, config : Configs \union {None}] \union {None}]
    BY <1>1 DEF Materials, Trees
  <2>5. image = None \/ (image.files \in Files /\ image.config \in Configs)
    BY <1>1 DEF Materials, Images
  <2>6. \A i \in DOMAIN pushed : pushed[i] \in store
    <3>1. pushed \in Seq(store) BY <1>1 DEF Inv, Typed
    <3> QED BY <3>1
  <2>7. \A i \in DOMAIN descs : descs[i].arch = archs[i]
    <3>1. descs \in Seq([arch : Archs, manifest : store]) BY <1>1 DEF Inv, Typed
    <3>2. DOMAIN descs = 1..Len(descs) BY <3>1, LenProperties
    <3> QED BY <1>1, <3>2 DEF Inv, Progress
  <2> QED BY <1>1, <2>1, <2>2, <2>3, <2>4, <2>5, <2>6, <2>7 DEF TypeOK, Materials
<1> QED BY <1>1, Invariance, KeptIs, MaterialsAre, PTL

----------------------------------------------------------------------------
(* Progress: the safety half of BuildAnswers. *)

\* How far a build is with its current architecture.
Turn ==
  CASE pc = "tree" -> 1 [] pc = "from" -> 2 [] pc = "actions" -> 3 [] pc = "defconfig" -> 4
    [] pc = "apply" -> 5 [] pc = "compile" -> 6 [] pc = "kernel" -> 7 [] pc = "modules" -> 8
    [] pc = "config" -> 9 [] pc = "manifest" -> 10 [] OTHER -> 0

\* The steps a build has left, if none of them fails.
Left ==
  CASE pc = "idle" -> 0
    [] pc = "tag" -> Len(names) + 2 - n
    [] pc \in Loop -> Len(names) + 2 + 11 * (Len(asked) + 1 - n) - Turn
    [] pc = "work" -> Len(names) + 3 + 11 * Len(asked)
    [] OTHER -> Len(names) + 4 + 11 * Len(asked)

\* The counters stay within what they count.
Count ==
  /\ pc \in Loop => Len(archs) = Len(asked)
  /\ pc = "tag" => n <= Len(names) + 1

LEMMA CountStep == ASSUME Inv, Count, [Next]_vars PROVE Count'
<1> USE DEF Count, Loop, OnArch, Goto
<1>1. ASSUME NEW f \in Documents, NEW r \in Requests, NEW t \in TagLists,
             NEW keep \in BOOLEAN, Start(f, r, t, keep)
      PROVE  Count'
  BY <1>1 DEF Start
<1>2. CASE CreateLog
  BY <1>2 DEF CreateLog
<1>3. CASE MakeWork
  <2>1. PICK t \in [DOMAIN asked -> Archs] : archs' = t
    BY <1>3 DEF MakeWork
  <2>2. DOMAIN asked = 1..Len(asked) /\ Len(asked) \in Nat
    BY LenProperties DEF Inv, Typed
  <2>3. archs' \in Seq(Archs) /\ DOMAIN archs' = 1..Len(asked)
    BY <2>1, <2>2, SeqDef
  <2>4. Len(archs') = Len(asked)
    BY <2>2, <2>3, LenProperties
  <2> QED BY <1>3, <2>4 DEF MakeWork, request
<1>4. CASE buildTree \/ make
  BY <1>4 DEF buildTree, make, MakeArch, MakeTree, From, EvaluateActions, RunDefconfig, Apply,
              Compile, request
<1>5. CASE push
  BY <1>5 DEF push, PushKernel, PushModules, PushConfig, Push, PackManifest, request
<1>6. CASE PushIndex
  <2>1. Len(names) \in Nat
    BY LenProperties DEF Inv, Typed
  <2> QED BY <1>6, <2>1 DEF PushIndex, request
<1>7. CASE TagNext
  <2>1. Len(names) \in Nat /\ n \in Nat
    BY LenProperties DEF Inv, Typed
  <2> QED BY <1>7, <2>1 DEF TagNext, request
<1>8. CASE Succeed \/ Fail \/ Cancel \/ Kill
  BY <1>8 DEF Succeed, Fail, Cancel, Kill, request
<1>9. CASE UNCHANGED vars
  BY <1>9 DEF vars
<1> QED BY <1>1, <1>2, <1>3, <1>4, <1>5, <1>6, <1>7, <1>8, <1>9 DEF Next, Step

\* What Left is at each place.
LEMMA LeftIs ==
  ASSUME Inv, Count
  PROVE  /\ Left \in Nat
         /\ pc # "idle" => Left > 0
<1> DEFINE A == Len(asked)
           T == Len(names)
<1>1. A \in Nat /\ T \in Nat /\ n \in Nat \ {0}
  BY LenProperties DEF Inv, Typed
<1>2. pc \in {"idle", "tag", "log", "work"} \union Loop
  BY DEF Inv, Typed, Early
<1>3. pc \in Loop => n <= A + 1
  BY DEF Inv, Progress, Count
<1>4. pc \in OnArch => n <= A
  BY DEF Inv, Progress, Count, Loop
<1>5. Turn \in 0..10 /\ (pc \notin OnArch => Turn = 0)
  BY DEF Turn, OnArch
<1>6. pc = "tag" => n <= T + 1
  BY DEF Count
<1>7. Left = CASE pc = "idle" -> 0
               [] pc = "tag" -> T + 2 - n
               [] pc \in Loop -> T + 2 + 11 * (A + 1 - n) - Turn
               [] pc = "work" -> T + 3 + 11 * A
               [] OTHER -> T + 4 + 11 * A
  BY DEF Left
<1> HIDE DEF A, T
<1>8. CASE pc \in Loop
  <2>1. Left = T + 2 + 11 * (A + 1 - n) - Turn
    BY <1>7, <1>8 DEF Loop, OnArch
  <2>2. CASE pc \in OnArch
    BY <1>1, <1>4, <1>5, <2>1, <2>2
  <2>3. CASE pc \notin OnArch
    <3>1. Left = T + 2 + 11 * (A + 1 - n) - 0 /\ n <= A + 1
      BY <1>3, <1>5, <1>8, <2>1, <2>3
    <3> QED BY <1>1, <3>1
  <2> QED BY <2>2, <2>3
<1>9. CASE pc \notin Loop
  BY <1>1, <1>2, <1>6, <1>7, <1>9
<1> QED BY <1>8, <1>9

LEMMA StepLeft == ASSUME Inv, Count, Count', Inv', Step PROVE Left' < Left
<1> DEFINE A == Len(asked)
           T == Len(names)
<1>1. A \in Nat /\ T \in Nat /\ n \in Nat \ {0} /\ n' \in Nat \ {0}
  BY LenProperties DEF Inv, Typed
<1>2. A' = A /\ T' = T
  BY DEF Step, CreateLog, MakeWork, buildTree, MakeArch, MakeTree, From, EvaluateActions, make,
         RunDefconfig, Apply, Compile, push, PushKernel, PushModules, PushConfig, Push,
         PackManifest, PushIndex, TagNext, Succeed, Fail, request
<1>3. pc # "idle"
  BY DEF Step, CreateLog, MakeWork, buildTree, MakeArch, MakeTree, From, EvaluateActions, make,
         RunDefconfig, Apply, Compile, push, PushKernel, PushModules, PushConfig, PackManifest,
         PushIndex, TagNext, Succeed, Fail, Goto
<1>4. Left \in Nat /\ Left > 0
  BY <1>3, LeftIs
<1>5. CASE Succeed \/ Fail
  <2>1. pc' = "idle"
    BY <1>5 DEF Succeed, Fail, Goto
  <2>2. Left' = 0
    BY <2>1 DEF Left, Loop, OnArch
  <2> QED BY <1>4, <2>2
<1>6. CASE CreateLog
  <2>1. pc = "log" /\ pc' = "work"
    BY <1>6 DEF CreateLog, Goto
  <2>2. Left = T + 4 + 11 * A /\ Left' = T' + 3 + 11 * A'
    BY <2>1 DEF Left, Loop, OnArch
  <2> HIDE DEF A, T
  <2> QED BY <1>1, <1>2, <2>2
<1>7. CASE MakeWork
  <2>1. pc = "work" /\ pc' = "arch" /\ n' = n /\ n = 1
    BY <1>7 DEF MakeWork, Goto, Inv, Progress, Early
  <2>2. Left = T + 3 + 11 * A /\ Left' = T' + 2 + 11 * (A' + 1 - n') - Turn' /\ Turn' = 0
    BY <2>1 DEF Left, Loop, OnArch, Turn
  <2> HIDE DEF A, T
  <2> QED BY <1>1, <1>2, <2>1, <2>2
<1>8. CASE buildTree \/ make \/ PushKernel \/ PushModules \/ PushConfig
  <2>1. /\ n' = n /\ pc \in Loop /\ pc' \in Loop
        /\ Turn \in Nat /\ Turn' = Turn + 1
    BY <1>8 DEF buildTree, MakeArch, MakeTree, From, EvaluateActions, make, RunDefconfig, Apply,
                Compile, PushKernel, PushModules, PushConfig, Push, Goto, Loop, OnArch, Turn
  <2>2. /\ Left = T + 2 + 11 * (A + 1 - n) - Turn
        /\ Left' = T' + 2 + 11 * (A' + 1 - n') - Turn'
    BY <2>1 DEF Left, Loop, OnArch
  <2> DEFINE k == Turn
             l == Turn'
  <2>3. k \in Nat /\ l = k + 1 /\ Left = T + 2 + 11 * (A + 1 - n) - k
        /\ Left' = T' + 2 + 11 * (A' + 1 - n') - l
    BY <2>1, <2>2
  <2> HIDE DEF A, T, k, l
  <2> QED BY <1>1, <1>2, <2>1, <2>3
<1>9. CASE PackManifest
  <2>1. pc = "manifest" /\ pc' = "arch" /\ n' = n + 1 /\ Turn = 10 /\ Turn' = 0
    BY <1>9 DEF PackManifest, Goto, Turn
  <2>2. /\ Left = T + 2 + 11 * (A + 1 - n) - 10
        /\ Left' = T' + 2 + 11 * (A' + 1 - n') - 0
    BY <2>1 DEF Left, Loop, OnArch
  <2> HIDE DEF A, T
  <2> QED BY <1>1, <1>2, <2>1, <2>2
<1>10. CASE PushIndex
  <2>1. pc = "arch" /\ pc' = "tag" /\ n' = 1 /\ Turn = 0 /\ n <= A + 1
    BY <1>10 DEF PushIndex, Goto, Turn, Inv, Progress, Count, Loop
  <2>2. Left = T + 2 + 11 * (A + 1 - n) - 0 /\ Left' = T' + 2 - n'
    BY <2>1 DEF Left, Loop, OnArch
  <2> HIDE DEF A, T
  <2> QED BY <1>1, <1>2, <2>1, <2>2
<1>11. CASE TagNext
  <2>1. pc = "tag" /\ pc' = "tag" /\ n' = n + 1
    BY <1>11 DEF TagNext, Goto
  <2>2. Left = T + 2 - n /\ Left' = T' + 2 - n'
    BY <2>1 DEF Left, Loop, OnArch
  <2> HIDE DEF A, T
  <2> QED BY <1>1, <1>2, <2>1, <2>2
<1> QED BY <1>5, <1>6, <1>7, <1>8, <1>9, <1>10, <1>11 DEF Step, push

\* A build has at most as many steps as Left says at its start: eleven for each of the
\* architectures it is asked for, one for each tag, and four; whatever the Kernelfile
\* says and whichever of them fail, each brings it closer to its answer.
THEOREM BuildsAreBounded == Spec => [](Left \in Nat) /\ [][Step => Left' < Left]_vars
<1>1. Init => Count
  BY DEF Init, Count, Loop, OnArch
<1>2. Inv /\ Count /\ [Next]_vars => Count'
  BY CountStep
<1>3. Spec => []Count
  BY <1>1, <1>2, Invariance, PTL DEF Spec
<1>4. Inv /\ Count => Left \in Nat
  BY LeftIs
<1>5. Inv /\ Inv' /\ Count /\ Count' /\ [Next]_vars => [Step => Left' < Left]_vars
  BY StepLeft
<1> QED BY <1>3, <1>4, <1>5, Invariance, PTL DEF Spec

----------------------------------------------------------------------------
(* What is built is what the document says. *)

Evaluated == {"defconfig", "apply", "compile"}
Overridden == Evaluated \union WithImage \union {"manifest"}

\* The image of an architecture that the document asks for.
Asked(f, a) == [files |-> WrittenFiles(f, a), config |-> WrittenConfig(f, a)]

\* A tree, of this build or one of the architectures before, has of the files that
\* no action is about none but the sources.
Untouched(f, a, g) == \A p \in Paths : OnFile(f, a, p) = {} /\ Origin(f, p) = None => g[p] = None

\* At each place of a build, how much of what the document says is done.
AsWritten ==
  /\ pc # "idle" => \A a \in Archs : tree[a] # None => Untouched(file, a, tree[a].files)
  /\ pc \in WithTree => Untouched(file, arch, tree[arch].files)
  /\ pc = "actions" => \A p \in Paths : Origin(file, p) = "source" => tree[arch].files[p] = "source"
  /\ pc \in Evaluated => tree[arch].files = WrittenFiles(file, arch)
  /\ pc \in Overridden => \A m \in Names : cfg[m] = Given(file, arch, m)
  /\ pc = "apply" => tree[arch].config = Defconfig[arch]
  /\ pc = "compile" => tree[arch].config = WrittenConfig(file, arch)
  /\ pc \in WithImage => image = Asked(file, arch)
  /\ pc \in {"modules", "config", "manifest"} => pushed[1].image = Asked(file, arch)
  /\ pc \in {"config", "manifest"} => pushed[2].image = Asked(file, arch)
  /\ pc = "manifest" => pushed[3].overrides = cfg
  /\ KernelAsWritten

\* No document has an action that is an entry by itself, or spells an option twice.
Plain == \A f \in Documents : Decoded(f) /\ SpelledOnce(f)

LEMMA OriginIs == \A f, p : Origin(f, p) \in {"source", None}
BY DEF Origin

LEMMA SourceIsSome == None # "source"
BY KernelfileAssumption

\* The steps on a tree do not touch what is built so far, and leave the other trees.
LEMMA OnlyLeaves ==
  ASSUME Materials, AsWritten, pc \in OnArch, pc' \in WithTree, arch \in Archs,
         NEW t \in Trees, Only(t), Untouched(file, arch, t.files)
  PROVE  /\ arch' = arch /\ file' = file /\ image' = image /\ pushed' = pushed
         /\ tree'[arch] = t
         /\ \A a \in Archs : tree'[a] # None => Untouched(file, a, tree'[a].files)
         /\ KernelAsWritten'
<1>1. UNCHANGED <<file, archs, n, image, pushed, descs>> /\ tree' = [tree EXCEPT ![arch] = t]
  BY DEF Only, request, results, command
<1>2. arch' = arch BY <1>1 DEF arch
<1>3. tree \in [Archs -> Trees \union {None}] BY DEF Materials
<1>4. KernelAsWritten' BY <1>1 DEF AsWritten, KernelAsWritten
<1> HIDE DEF arch
<1>5. tree'[arch] = t /\ \A a \in Archs : a # arch => tree'[a] = tree[a] BY <1>1, <1>3
<1>6. \A a \in Archs : tree[a] # None => Untouched(file, a, tree[a].files) BY DEF AsWritten, OnArch
<1>7. \A a \in Archs : tree'[a] # None => Untouched(file, a, tree'[a].files) BY <1>5, <1>6
<1> QED BY <1>1, <1>2, <1>4, <1>5, <1>7
LEMMA TreeAsWritten ==
  ASSUME Inv, BuilderAssumption, Materials, AsWritten, MakeTree
  PROVE  AsWritten'
<1> DEFINE t == IF tree[arch] = None THEN [files |-> NoFiles, config |-> None] ELSE tree[arch]
<1>1. pc = "tree" /\ pc' = "from" /\ Only(t) BY MakeTreeIs
<1>2. arch \in Archs /\ pc \in OnArch /\ pc # "idle" BY <1>1, ArchIs DEF OnArch
<1>3. tree[arch] \in Trees \union {None} BY <1>2 DEF Materials
<1>4. t \in Trees BY <1>3, NoTreeIs
<1>5. Untouched(file, arch, t.files)
  <2>1. CASE tree[arch] = None BY <2>1 DEF Untouched, NoFiles
  <2>2. CASE tree[arch] # None BY <2>2, <1>2 DEF AsWritten
  <2> QED BY <2>1, <2>2
<1> HIDE DEF t
<1>6. pc' \in WithTree BY <1>1 DEF WithTree
<1>7. /\ arch' = arch /\ file' = file /\ tree'[arch] = t /\ KernelAsWritten'
      /\ \A a \in Archs : tree'[a] # None => Untouched(file, a, tree'[a].files)
  BY <1>1, <1>2, <1>4, <1>5, <1>6, OnlyLeaves
<1> QED BY <1>1, <1>5, <1>7 DEF AsWritten, Evaluated, Overridden, WithImage

LEMMA FromAsWritten ==
  ASSUME Inv, BuilderAssumption, Materials, AsWritten, From
  PROVE  AsWritten'
<1>1. pc = "from" /\ pc' = "actions" BY DEF From, Goto
<1>2. arch \in Archs /\ pc \in OnArch BY <1>1, ArchIs DEF OnArch
<1>3. tree[arch] \in Trees /\ Untouched(file, arch, tree[arch].files)
  BY <1>1 DEF Materials, AsWritten, WithTree
<1> DEFINE g == [p \in Paths |-> IF file.from = "git" /\ p \in SourceHas THEN "source"
                                 ELSE tree[arch].files[p]]
           t == [tree[arch] EXCEPT !.files = g]
<1>4. g \in Files /\ Only(t) BY <1>2, FromIs
<1>5. \A p \in Paths : g[p] = IF Origin(file, p) = "source" THEN "source" ELSE tree[arch].files[p]
  BY SourceIsSome DEF Origin
<1> HIDE DEF g
<1>6. t \in Trees /\ t.files = g BY <1>3, <1>4, FilesSet
<1>7. Untouched(file, arch, g) BY <1>3, <1>5, SourceIsSome DEF Untouched
<1> HIDE DEF t
<1>8. pc' \in WithTree BY <1>1 DEF WithTree
<1>9. /\ arch' = arch /\ file' = file /\ tree'[arch] = t /\ KernelAsWritten'
      /\ \A a \in Archs : tree'[a] # None => Untouched(file, a, tree'[a].files)
  BY <1>2, <1>4, <1>6, <1>7, <1>8, OnlyLeaves
<1> QED BY <1>1, <1>5, <1>6, <1>7, <1>9 DEF AsWritten, Evaluated, Overridden, WithImage

LEMMA EvaluateAsWritten ==
  ASSUME Inv, BuilderAssumption, Materials, Plain, AsWritten, EvaluateActions
  PROVE  AsWritten'
<1>1. pc = "actions" /\ pc' = "defconfig" BY DEF EvaluateActions, Goto
<1>2. arch \in Archs /\ pc \in OnArch BY <1>1, ArchIs DEF OnArch
<1>3. tree[arch] \in Trees /\ tree[arch].files \in Files /\ Untouched(file, arch, tree[arch].files)
  BY <1>1 DEF Materials, AsWritten, WithTree, Trees
<1>4. file \in Kernelfiles /\ Decoded(file) BY <1>1 DEF Materials, BuilderAssumption, Plain
<1> DEFINE files == tree[arch].files
           s == Evaluate(file, arch, files)
           t == [tree[arch] EXCEPT !.files = s.files]
<1>5. Only(t) /\ cfg' = s.cfg BY <1>2, EvaluateActionsIs
<1>6. \A p \in Paths : OnFile(file, arch, p) = {} => files[p] = Origin(file, p)
  <2> SUFFICES ASSUME NEW p \in Paths, OnFile(file, arch, p) = {} PROVE files[p] = Origin(file, p)
    OBVIOUS
  <2>1. CASE Origin(file, p) = None BY <2>1, <1>3 DEF Untouched
  <2>2. CASE Origin(file, p) = "source" BY <2>2, <1>1 DEF AsWritten
  <2> QED BY <2>1, <2>2, OriginIs
<1>7. files \in Files BY <1>3
<1> HIDE DEF files
<1>8. s.files \in Files /\ s.files = WrittenFiles(file, arch)
      /\ \A m \in Names : s.cfg[m] = Given(file, arch, m)
  BY <1>2, <1>4, <1>6, <1>7, EvaluateMeans
<1> HIDE DEF s
<1>9. t \in Trees /\ t.files = s.files BY <1>3, <1>8, FilesSet
<1>10. Untouched(file, arch, t.files)
  <2>1. \A p \in Paths : OnFile(file, arch, p) = {} => WrittenFiles(file, arch)[p] = Origin(file, p)
    BY DEF WrittenFiles, Origin
  <2> QED BY <1>8, <1>9, <2>1 DEF Untouched
<1> HIDE DEF t
<1>11. pc' \in WithTree BY <1>1 DEF WithTree
<1>12. /\ arch' = arch /\ file' = file /\ tree'[arch] = t /\ KernelAsWritten'
       /\ \A a \in Archs : tree'[a] # None => Untouched(file, a, tree'[a].files)
  BY <1>2, <1>5, <1>9, <1>10, <1>11, OnlyLeaves
<1> QED BY <1>1, <1>5, <1>8, <1>9, <1>10, <1>12 DEF AsWritten, Evaluated, Overridden, WithImage

\* defconfig and the overrides change the configuration only.
LEMMA ConfigSteps ==
  ASSUME Inv, BuilderAssumption, Materials, AsWritten, RunDefconfig \/ Apply,
         NEW c \in Configs, Only([tree[arch] EXCEPT !.config = c]),
         RunDefconfig => c = Defconfig[arch], Apply => c = WrittenConfig(file, arch)
  PROVE  AsWritten'
<1>1. \/ RunDefconfig /\ pc = "defconfig" /\ pc' = "apply"
      \/ Apply /\ pc = "apply" /\ pc' = "compile"
  BY DEF RunDefconfig, Apply, Goto
<1>2. arch \in Archs /\ pc \in OnArch /\ pc \in WithTree /\ pc' \in WithTree /\ pc \in Evaluated
      /\ pc' \in Evaluated
  BY <1>1, ArchIs DEF OnArch, WithTree, Evaluated
<1>3. tree[arch] \in Trees /\ tree[arch].files = WrittenFiles(file, arch)
      /\ Untouched(file, arch, tree[arch].files)
  BY <1>2 DEF Materials, AsWritten
<1> DEFINE t == [tree[arch] EXCEPT !.config = c]
<1>4. t \in Trees /\ t.config = c /\ t.files = tree[arch].files BY <1>3, ConfigsSet
<1>5. Only(t) OBVIOUS
<1> HIDE DEF t
<1>6. /\ arch' = arch /\ file' = file /\ tree'[arch] = t /\ KernelAsWritten'
      /\ \A a \in Archs : tree'[a] # None => Untouched(file, a, tree'[a].files)
  BY <1>2, <1>3, <1>4, <1>5, OnlyLeaves
<1>7. cfg' = cfg BY RunDefconfigIs, ApplyIs
<1>8. \A m \in Names : cfg[m] = Given(file, arch, m) BY <1>2 DEF AsWritten, Overridden
<1> QED BY <1>1, <1>2, <1>3, <1>4, <1>6, <1>7, <1>8 DEF AsWritten, WithImage, Evaluated

LEMMA DefconfigAsWritten ==
  ASSUME Inv, BuilderAssumption, Materials, AsWritten, RunDefconfig
  PROVE  AsWritten'
<1>1. pc \in OnArch BY DEF RunDefconfig, Goto, OnArch
<1>2. Defconfig[arch] \in Configs BY <1>1, ArchIs, DefconfigIs
<1>3. ~Apply BY DEF RunDefconfig, Apply, Goto
<1> QED BY <1>2, <1>3, RunDefconfigIs, ConfigSteps

LEMMA ApplyAsWritten ==
  ASSUME Inv, BuilderAssumption, Materials, Plain, AsWritten, Apply
  PROVE  AsWritten'
<1>1. pc = "apply" BY ApplyIs
<1>2. PICK c \in Configs :
        /\ \A s \in Symbols :
             LET M == {m \in Names : Canon[m] = s /\ cfg[m] # None}
             IN  IF M = {} THEN c[s] = tree[arch].config[s] ELSE \E m \in M : c[s] = cfg[m]
        /\ Only([tree[arch] EXCEPT !.config = c])
  BY ApplyIs
<1>3. arch \in Archs BY <1>1, ArchIs DEF OnArch
<1>4. file \in Kernelfiles /\ SpelledOnce(file) BY <1>1 DEF Materials, BuilderAssumption, Plain
<1>5. tree[arch].config = Defconfig[arch] /\ \A m \in Names : cfg[m] = Given(file, arch, m)
  BY <1>1 DEF AsWritten, Overridden, Evaluated
<1>6. ASSUME NEW s \in Symbols PROVE c[s] = WrittenConfig(file, arch)[s]
  <2> DEFINE M == {m \in Names : Canon[m] = s /\ cfg[m] # None}
  <2>1. /\ M = {} => WrittenConfig(file, arch)[s] = Defconfig[arch][s]
        /\ \A m \in M : cfg[m] = WrittenConfig(file, arch)[s]
    BY <1>3, <1>4, <1>5, OverridesMean
  <2>2. IF M = {} THEN c[s] = tree[arch].config[s] ELSE \E m \in M : c[s] = cfg[m] BY <1>2
  <2> HIDE DEF M
  <2> QED BY <2>1, <2>2, <1>5
<1>7. c = WrittenConfig(file, arch)
  <2>1. c = [s \in Symbols |-> c[s]] BY DEF Configs
  <2>2. WrittenConfig(file, arch) = [s \in Symbols |-> WrittenConfig(file, arch)[s]] BY DEF WrittenConfig
  <2> QED BY <1>6, <2>1, <2>2
<1>8. ~RunDefconfig BY <1>1 DEF RunDefconfig, Goto
<1> QED BY <1>2, <1>7, <1>8, ConfigSteps
LEMMA CompileAsWritten ==
  ASSUME Inv, BuilderAssumption, Materials, AsWritten, Compile
  PROVE  AsWritten'
<1>1. /\ pc = "compile" /\ pc' = "kernel" /\ image' = tree[arch]
      /\ UNCHANGED <<file, archs, n, tree, cfg, pushed, descs>>
  BY DEF Compile, Goto, request, results, command
<1>2. arch' = arch BY <1>1 DEF arch
<1>3. tree[arch] \in Trees /\ tree[arch].files = WrittenFiles(file, arch)
      /\ tree[arch].config = WrittenConfig(file, arch)
      /\ \A m \in Names : cfg[m] = Given(file, arch, m)
  BY <1>1 DEF Materials, AsWritten, WithTree, Evaluated, Overridden
<1>4. tree[arch] = Asked(file, arch) BY <1>3 DEF Trees, Asked
<1>5. KernelAsWritten' BY <1>1 DEF AsWritten, KernelAsWritten
<1> QED BY <1>1, <1>2, <1>3, <1>4, <1>5
        DEF AsWritten, WithTree, WithImage, Evaluated, Overridden

LEMMA PushAsWritten ==
  ASSUME Inv, BuilderAssumption, Materials, AsWritten, PushKernel \/ PushModules \/ PushConfig
  PROVE  AsWritten'
<1>1. PICK b :
        /\ pushed' = Append(pushed, b)
        /\ \/ pc = "kernel" /\ pc' = "modules" /\ b.image = image
           \/ pc = "modules" /\ pc' = "config" /\ b.image = image
           \/ pc = "config" /\ pc' = "manifest" /\ b.overrides = cfg
  BY DEF PushKernel, PushModules, PushConfig, Push, Goto, Layer, ConfigBlob
<1>2. UNCHANGED <<file, archs, n, tree, cfg, image, descs>>
  BY DEF PushKernel, PushModules, PushConfig, Push, request
<1>3. arch' = arch BY <1>2 DEF arch
<1>4. pushed \in Seq(store)
      /\ (pc = "kernel" => Len(pushed) = 0) /\ (pc = "modules" => Len(pushed) = 1)
      /\ (pc = "config" => Len(pushed) = 2)
  <2>1. pc = "kernel" => pushed = <<>> BY DEF Inv, Pushed, Loop, OnArch
  <2> QED BY <2>1 DEF Inv, Typed, Pushed
<1>5. /\ pushed'[Len(pushed) + 1] = b
      /\ \A i \in 1..Len(pushed) : pushed'[i] = pushed[i]
  <2> DEFINE S == store \union {b}
  <2>1. pushed \in Seq(S) /\ b \in S BY <1>4, SeqMonotone
  <2> HIDE DEF S
  <2> QED BY <1>1, <2>1, AppendProperties
<1>6. image = Asked(file, arch) /\ \A m \in Names : cfg[m] = Given(file, arch, m)
  BY <1>1 DEF AsWritten, WithImage, Overridden
<1>7. pc' \in {"modules", "config", "manifest"} => pushed'[1].image = Asked(file, arch)
  <2>1. CASE pc = "kernel" BY <2>1, <1>1, <1>4, <1>5, <1>6
  <2>2. CASE pc \in {"modules", "config"}
    <3>1. 1 \in 1..Len(pushed) BY <2>2, <1>4
    <3>2. pushed[1].image = Asked(file, arch) BY <2>2 DEF AsWritten
    <3> QED BY <3>1, <3>2, <1>5
  <2> QED BY <2>1, <2>2, <1>1
<1>8. pc' \in {"config", "manifest"} => pushed'[2].image = Asked(file, arch)
  <2>1. CASE pc = "modules"
    <3>1. Len(pushed) + 1 = 2 BY <2>1, <1>4
    <3>2. pushed'[2] = b BY <3>1, <1>5
    <3> QED BY <2>1, <3>2, <1>1, <1>6
  <2>2. CASE pc = "config"
    <3>1. 2 \in 1..Len(pushed) BY <2>2, <1>4
    <3>2. pushed[2].image = Asked(file, arch) BY <2>2 DEF AsWritten
    <3> QED BY <3>1, <3>2, <1>5
  <2> QED BY <2>1, <2>2, <1>1
<1>9. pc' = "manifest" => pushed'[3].overrides = cfg
  <2> SUFFICES ASSUME pc' = "manifest" PROVE pushed'[3].overrides = cfg
    OBVIOUS
  <2>1. pc = "config" BY <1>1
  <2>2. Len(pushed) + 1 = 3
    <3>1. Len(pushed) = 2 BY <2>1, <1>4
    <3> QED BY <3>1
  <2>3. pushed'[3] = b BY <2>2, <1>5
  <2> QED BY <2>1, <2>3, <1>1
<1>10. KernelAsWritten' BY <1>2 DEF AsWritten, KernelAsWritten
<1>11. \A a \in Archs : tree[a] # None => Untouched(file, a, tree[a].files) BY <1>1 DEF AsWritten
<1>12. pc' \in {"modules", "config", "manifest"} BY <1>1
<1> QED BY <1>2, <1>3, <1>6, <1>7, <1>8, <1>9, <1>10, <1>11, <1>12
        DEF AsWritten, WithTree, WithImage, Evaluated, Overridden

LEMMA PackAsWritten ==
  ASSUME Inv, BuilderAssumption, Materials, Plain, AsWritten, PackManifest
  PROVE  AsWritten'
<1> DEFINE m == Manifest(pushed[3], <<pushed[1], pushed[2]>>)
           d == [arch |-> arch, manifest |-> m]
<1>1. /\ pc = "manifest" /\ pc' = "arch" /\ store' = store \union {m} /\ descs' = Append(descs, d)
      /\ UNCHANGED <<file, tree, cfg, image>>
  BY DEF PackManifest, Goto, request
<1>2. arch \in Archs BY <1>1, ArchIs DEF OnArch
<1>3. file \in Kernelfiles /\ SpelledOnce(file) BY <1>1 DEF Materials, BuilderAssumption, Plain
<1>4. /\ pushed[1].image = Asked(file, arch) /\ pushed[2].image = Asked(file, arch)
      /\ pushed[3].overrides = cfg /\ \A name \in Names : cfg[name] = Given(file, arch, name)
  BY <1>1 DEF AsWritten, Overridden
<1>5. /\ \A l \in DOMAIN m.layers : m.layers[l].image = Asked(file, arch)
      /\ m.config.overrides = cfg
  <2>1. m.config = pushed[3] /\ m.layers = <<pushed[1], pushed[2]>> BY DEF Manifest
  <2> QED BY <1>4, <2>1
<1>6. d.arch = arch /\ d.manifest = m OBVIOUS
<1> HIDE DEF m
<1>7. ASSUME NEW s \in Symbols, WrittenConfig(file, arch)[s] # Defconfig[arch][s]
      PROVE  \E name \in Names : Canon[name] = s /\ cfg[name] = WrittenConfig(file, arch)[s]
  <2> DEFINE M == {name \in Names : Canon[name] = s /\ cfg[name] # None}
  <2>1. /\ M = {} => WrittenConfig(file, arch)[s] = Defconfig[arch][s]
        /\ \A name \in M : cfg[name] = WrittenConfig(file, arch)[s]
    BY <1>2, <1>3, <1>4, OverridesMean
  <2>2. PICK name \in M : TRUE BY <1>7, <2>1
  <2> QED BY <2>1, <2>2
<1>8. descs \in Seq([arch : Archs, manifest : store'])
  <2>1. store \subseteq store' BY <1>1
  <2> QED BY <2>1, Entries DEF Inv, Typed
<1>9. d \in [arch : Archs, manifest : store'] BY <1>1, <1>2, <1>6
<1> HIDE DEF d
<1>10. /\ DOMAIN descs = 1..Len(descs) /\ DOMAIN descs' = 1..(Len(descs) + 1)
       /\ Len(descs) \in Nat
       /\ \A i \in 1..Len(descs) : descs'[i] = descs[i]
       /\ descs'[Len(descs) + 1] = d
  <2>1. descs' \in Seq([arch : Archs, manifest : store']) /\ Len(descs') = Len(descs) + 1
        /\ (\A i \in 1..Len(descs) : descs'[i] = descs[i]) /\ descs'[Len(descs) + 1] = d
    BY <1>1, <1>8, <1>9, AppendProperties
  <2> QED BY <1>8, <2>1, LenProperties
<1> DEFINE Good(e) ==
      /\ \A l \in DOMAIN e.manifest.layers : e.manifest.layers[l].image = Asked(file, e.arch)
      /\ \A s \in Symbols :
           WrittenConfig(file, e.arch)[s] # Defconfig[e.arch][s] =>
             \E name \in Names : Canon[name] = s
               /\ e.manifest.config.overrides[name] = WrittenConfig(file, e.arch)[s]
<1>11. KernelAsWritten <=> \A i \in DOMAIN descs : Good(descs[i])
  BY DEF KernelAsWritten, Asked
<1>12. KernelAsWritten' <=> \A i \in DOMAIN descs' : Good(descs'[i])
  BY <1>1 DEF KernelAsWritten, Asked
<1>13. Good(d) BY <1>5, <1>6, <1>7
<1> HIDE DEF Good
<1>14. \A i \in DOMAIN descs : Good(descs[i]) BY <1>11 DEF AsWritten
<1>15. \A i \in DOMAIN descs' : Good(descs'[i])
  <2>1. \A i \in 1..(Len(descs) + 1) : i \in 1..Len(descs) \/ i = Len(descs) + 1 BY <1>10
  <2> QED BY <1>10, <1>13, <1>14, <2>1
<1>16. \A a \in Archs : tree[a] # None => Untouched(file, a, tree[a].files) BY <1>1 DEF AsWritten
<1> QED BY <1>1, <1>12, <1>15, <1>16
        DEF AsWritten, WithTree, WithImage, Evaluated, Overridden

LEMMA OthersAsWritten ==
  ASSUME Materials, AsWritten,
         CreateLog \/ MakeWork \/ MakeArch \/ PushIndex \/ TagNext \/ Succeed \/ Fail \/ Cancel \/ Kill
  PROVE  AsWritten'
<1>1. /\ UNCHANGED <<file, tree, cfg, image, pushed, descs>>
      /\ pc # "idle"
      /\ \/ pc' \notin WithTree \union Overridden
         \/ pc' = pc /\ UNCHANGED <<archs, n>>
  BY DEF CreateLog, MakeWork, MakeArch, PushIndex, TagNext, Succeed, Fail, Cancel, Kill, Goto,
         WithTree, WithImage, Evaluated, Overridden, request, results, command
<1>2. KernelAsWritten' BY <1>1 DEF AsWritten, KernelAsWritten
<1>3. CASE pc' \notin WithTree \union Overridden
  BY <1>1, <1>2, <1>3 DEF AsWritten, WithTree, WithImage, Evaluated, Overridden
<1>4. CASE pc' = pc /\ UNCHANGED <<archs, n>>
  <2>1. arch' = arch BY <1>4 DEF arch
  <2> QED BY <1>1, <1>2, <1>4, <2>1 DEF AsWritten
<1> QED BY <1>1, <1>3, <1>4

\* Each kernel is compiled from the files and with the options that its document asks
\* for, those taken from a tree the same build has used before included, and its image
\* records overrides that explain them; for any documents, architectures and failures,
\* as long as no entry of "actions" is an action by itself (which the decoder drops) and
\* no document spells one option in two ways (which leaves the order to a Go map).
THEOREM KernelsAreAsWritten == ASSUME Plain PROVE Spec => []KernelAsWritten
<1>1. Init => AsWritten
  <2>1. DOMAIN <<>> = {} OBVIOUS
  <2> QED BY <2>1 DEF Init, AsWritten, KernelAsWritten, WithTree, WithImage, Evaluated, Overridden
<1>2. ASSUME Inv, Materials, AsWritten, [Next]_vars PROVE AsWritten'
  <2> USE <1>2, BuilderAssumption
  <2>1. CASE UNCHANGED vars
    <3>1. arch' = arch BY <2>1 DEF vars, arch
    <3>2. KernelAsWritten' BY <2>1 DEF vars, AsWritten, KernelAsWritten
    <3> QED BY <2>1, <3>1, <3>2 DEF vars, AsWritten
  <2>2. ASSUME NEW f \in Documents, NEW r \in Requests, NEW t \in TagLists,
               NEW keep \in BOOLEAN, Start(f, r, t, keep)
        PROVE  AsWritten'
    <3>1. pc' = "log" /\ tree' = NoTrees /\ descs' = <<>> BY <2>2 DEF Start, Goto
    <3>2. KernelAsWritten'
      <4>1. DOMAIN descs' = {} BY <3>1
      <4> QED BY <4>1 DEF KernelAsWritten
    <3> QED BY <3>1, <3>2 DEF AsWritten, NoTrees, WithTree, WithImage, Evaluated, Overridden
  <2>3. CASE buildTree \/ make
    BY <2>3, TreeAsWritten, FromAsWritten, EvaluateAsWritten, DefconfigAsWritten, ApplyAsWritten,
       CompileAsWritten, OthersAsWritten DEF buildTree, make
  <2>4. CASE push BY <2>4, PushAsWritten, PackAsWritten DEF push
  <2> QED BY <2>1, <2>2, <2>3, <2>4, OthersAsWritten DEF Next, Step
<1>3. AsWritten /\ Inv /\ Materials /\ [Next]_vars => AsWritten' BY <1>2
<1>4. AsWritten => KernelAsWritten BY DEF AsWritten
<1> QED BY <1>1, <1>3, <1>4, Invariance, MaterialsAre, PTL DEF Spec
=============================================================================
