--------------------------- MODULE LocalStoreProofs ---------------------------
(***************************************************************************)
(* Proofs about LocalStore, for any number of processes and commands, any  *)
(* architectures, tags and roots, and any failures.                        *)
(***************************************************************************)
EXTENDS LocalStore, SequenceTheorems, TLAPS

Kinds == {"index", "manifest", "layer"}

\* How far from the layers a blob is.
Level(b) == CASE b.kind = "index" -> 2 [] b.kind = "manifest" -> 1 [] b.kind = "layer" -> 0

\* What a store has, it has with all that is below the blobs of these kinds.
Closed(store, kinds) ==
  \A b \in store : b.kind \in kinds => Range(Successors(b)) \subseteq store

\* The nodes of a copy are left in an order that ends with the root, lower ones
\* first; one that has been expanded is in the target or left to do; and if it is
\* left to do, what is below it is in the target or comes before it.
Sorted(todo) == \A i, j \in DOMAIN todo : i < j => Level(todo[i]) <= Level(todo[j])
Remembered(todo, expanded, store) == expanded \subseteq store \union Range(todo)
BelowFirst(todo, expanded, store, kinds) ==
  \A i \in DOMAIN todo : todo[i] \in expanded /\ todo[i].kind \in kinds =>
    \A b \in Range(Successors(todo[i])) : b \in store \/ \E j \in 1..(i - 1) : todo[j] = b

Ordered(todo, expanded, store, kinds) ==
  /\ todo \in Seq(Blobs) /\ expanded \in SUBSET Blobs
  /\ Sorted(todo)
  /\ Remembered(todo, expanded, store)
  /\ BelowFirst(todo, expanded, store, kinds)

-----------------------------------------------------------------------------
(* Blobs.                                                                  *)

LEMMA BlobForms ==
  ASSUME NEW b \in Blobs
  PROVE  \/ b.kind = "index" /\ b \in Roots /\ b.archs \in Seq(Archs)
         \/ b.kind = "manifest" /\ b.arch \in Archs /\ b = Manifest(b.arch)
         \/ b.kind = "layer" /\ b.arch \in Archs /\ b = Layer(b.arch)
  BY DEF Blobs, Roots, Manifest, Layer

\* What is below a blob is a sequence of blobs, one level lower.
LEMMA SuccessorsBelow ==
  ASSUME NEW b \in Blobs
  PROVE  /\ Successors(b) \in Seq(Blobs)
         /\ \A s \in Range(Successors(b)) : s \in Blobs /\ Level(s) = Level(b) - 1
         /\ b.kind = "manifest" => Successors(b) = <<Layer(b.arch)>>
         /\ b.kind = "layer" => Successors(b) = <<>>
         /\ b.kind = "index" => Successors(b) = [i \in DOMAIN b.archs |-> Manifest(b.archs[i])]
         /\ Level(b) \in Nat
<1>1. CASE b.kind = "index"
  <2>1. Successors(b) = [i \in DOMAIN b.archs |-> Manifest(b.archs[i])]
    BY <1>1 DEF Successors
  <2>2. b.archs \in Seq(Archs) BY <1>1, BlobForms
  <2>3. \A i \in DOMAIN b.archs : Manifest(b.archs[i]) \in Blobs /\ Manifest(b.archs[i]).kind = "manifest"
    BY <2>2 DEF Manifest, Blobs
  <2>4. Successors(b) \in Seq(Blobs)
    <3>1. DOMAIN b.archs = 1..Len(b.archs) /\ Len(b.archs) \in Nat BY <2>2
    <3> QED BY <2>1, <2>3, <3>1
  <2> QED BY <1>1, <2>1, <2>3, <2>4 DEF Range, Level
<1>2. CASE b.kind = "manifest"
  <2>1. Successors(b) = <<Layer(b.arch)>> BY <1>2 DEF Successors
  <2>2. Layer(b.arch) \in Blobs /\ Layer(b.arch).kind = "layer"
    BY <1>2, BlobForms DEF Layer, Blobs
  <2> QED BY <1>2, <2>1, <2>2 DEF Range, Level
<1>3. CASE b.kind = "layer"
  BY <1>3 DEF Successors, Range, Level
<1> QED BY <1>1, <1>2, <1>3, BlobForms

\* What a concatenation and a tail have.
LEMMA RangeConcat ==
  ASSUME NEW s \in Seq(Blobs), NEW t \in Seq(Blobs)
  PROVE  Range(s \o t) = Range(s) \union Range(t)
<1> DEFINE more == s \o t
<1>1. /\ Len(s) \in Nat /\ Len(t) \in Nat /\ DOMAIN s = 1..Len(s) /\ DOMAIN t = 1..Len(t)
      /\ DOMAIN more = 1..(Len(s) + Len(t))
      /\ \A i \in 1..Len(s) : more[i] = s[i]
      /\ \A i \in 1..Len(t) : more[Len(s) + i] = t[i]
      /\ \A i \in DOMAIN more : i > Len(s) => i - Len(s) \in 1..Len(t) /\ more[i] = t[i - Len(s)]
  OBVIOUS
<1> HIDE DEF more
<1>2. ASSUME NEW x \in Range(more) PROVE x \in Range(s) \union Range(t)
  <2>1. PICK i \in DOMAIN more : more[i] = x BY DEF Range
  <2>2. CASE i <= Len(s) BY <1>1, <2>1, <2>2 DEF Range
  <2>3. CASE i > Len(s) BY <1>1, <2>1, <2>3 DEF Range
  <2> QED BY <1>1, <2>1, <2>2, <2>3
<1>3. ASSUME NEW x \in Range(s) PROVE x \in Range(more)
  <2>1. PICK i \in 1..Len(s) : s[i] = x BY <1>1 DEF Range
  <2>2. i \in DOMAIN more /\ more[i] = x BY <1>1, <2>1
  <2> QED BY <2>2 DEF Range
<1>4. ASSUME NEW x \in Range(t) PROVE x \in Range(more)
  <2>1. PICK i \in 1..Len(t) : t[i] = x BY <1>1 DEF Range
  <2>2. Len(s) + i \in DOMAIN more /\ more[Len(s) + i] = x BY <1>1, <2>1
  <2> QED BY <2>2 DEF Range
<1> QED BY <1>2, <1>3, <1>4 DEF more

LEMMA RangeTail ==
  ASSUME NEW seq \in Seq(Blobs), seq # <<>>
  PROVE  Range(seq) = Range(Tail(seq)) \union {Head(seq)}
<1> DEFINE rest == Tail(seq)
<1>1. /\ Len(seq) \in Nat \ {0} /\ DOMAIN seq = 1..Len(seq) /\ Head(seq) = seq[1]
      /\ DOMAIN rest = 1..(Len(seq) - 1)
      /\ \A i \in DOMAIN rest : i + 1 \in DOMAIN seq /\ rest[i] = seq[i + 1]
  OBVIOUS
<1> HIDE DEF rest
<1>2. ASSUME NEW i \in DOMAIN seq, i # 1 PROVE seq[i] \in Range(rest)
  <2>1. i - 1 \in DOMAIN rest /\ (i - 1) + 1 = i BY <1>1, <1>2
  <2> QED BY <1>1, <2>1 DEF Range
<1>3. Range(rest) \subseteq Range(seq) BY <1>1 DEF Range
<1>4. seq[1] \in Range(seq) BY <1>1 DEF Range
<1>5. Range(seq) \subseteq Range(rest) \union {Head(seq)} BY <1>1, <1>2 DEF Range
<1> QED BY <1>1, <1>3, <1>4, <1>5 DEF rest

-----------------------------------------------------------------------------
(* Copying: what Visit does with the nodes that are left.                  *)

\* A store that grows leaves the order of a copy into it as it is.
LEMMA OrderedMonotone ==
  ASSUME NEW todo, NEW expanded, NEW store, NEW larger, NEW kinds,
         store \subseteq larger, Ordered(todo, expanded, store, kinds)
  PROVE  Ordered(todo, expanded, larger, kinds)
  BY DEF Ordered, Remembered, BelowFirst

\* The first node is expanded: what is below it goes before it.
LEMMA Expand ==
  ASSUME NEW todo, NEW expanded, NEW store \in SUBSET Blobs, NEW kinds,
         Ordered(todo, expanded, store, kinds), Closed(store, kinds),
         todo # <<>>, Successors(Head(todo)) # <<>>
  PROVE  LET more == Successors(Head(todo)) \o todo
         IN  /\ Ordered(more, expanded \union {Head(todo)}, store, kinds)
             /\ more # <<>> /\ more[Len(more)] = todo[Len(todo)]
             /\ Range(more) = Range(Successors(Head(todo))) \union Range(todo)
<1> DEFINE b == Head(todo)
           below == Successors(b)
           more == below \o todo
           n == Len(below)
<1>1. todo \in Seq(Blobs) /\ Len(todo) \in Nat \ {0} /\ b = todo[1] /\ b \in Blobs
  BY DEF Ordered
<1>2. below \in Seq(Blobs) /\ n \in Nat /\ (\A s \in Range(below) : Level(s) = Level(b) - 1) /\ Level(b) \in Nat
  BY <1>1, SuccessorsBelow
<1>3. /\ more \in Seq(Blobs) /\ Len(more) = n + Len(todo)
      /\ DOMAIN more = 1..(n + Len(todo))
      /\ \A i \in 1..n : more[i] = below[i] /\ more[i] \in Range(below)
      /\ \A i \in (n + 1)..(n + Len(todo)) : i - n \in DOMAIN todo /\ more[i] = todo[i - n]
  BY <1>1, <1>2 DEF Range
<1>4. Range(more) = Range(below) \union Range(todo)
  BY <1>1, <1>2, RangeConcat
<1> HIDE DEF b, below, more, n
<1>5. \A x \in Range(todo) : x \in Blobs /\ Level(x) \in Nat /\ Level(b) <= Level(x)
  <2>1. ASSUME NEW i \in DOMAIN todo PROVE Level(b) <= Level(todo[i])
    <3>1. CASE i = 1 BY <3>1, <1>1, <1>2
    <3>2. CASE i # 1
      BY <3>2, <1>1 DEF Ordered, Sorted
    <3> QED BY <3>1, <3>2
  <2>2. \A i \in DOMAIN todo : todo[i] \in Blobs BY <1>1
  <2> QED BY <2>1, <2>2, SuccessorsBelow DEF Range
<1>6. Sorted(more)
  <2> SUFFICES ASSUME NEW i \in DOMAIN more, NEW j \in DOMAIN more, i < j
               PROVE  Level(more[i]) <= Level(more[j])
    BY DEF Sorted
  <2>1. CASE j <= n
    BY <2>1, <1>2, <1>3
  <2>2. CASE i <= n /\ j > n
    <3>1. Level(more[i]) = Level(b) - 1 BY <2>2, <1>1, <1>2, <1>3
    <3>2. more[j] \in Range(todo) BY <2>2, <1>1, <1>2, <1>3 DEF Range
    <3> QED BY <3>1, <3>2, <1>2, <1>5
  <2>3. CASE i > n
    <3>1. /\ i - n \in DOMAIN todo /\ j - n \in DOMAIN todo /\ i - n < j - n
          /\ more[i] = todo[i - n] /\ more[j] = todo[j - n]
      BY <2>3, <1>1, <1>2, <1>3
    <3> QED BY <3>1 DEF Ordered, Sorted
  <2> QED BY <2>1, <2>2, <2>3, <1>1, <1>2, <1>3
<1>7. b \in Range(todo) BY <1>1 DEF Range
<1>8. Remembered(more, expanded \union {b}, store)
  BY <1>4, <1>7 DEF Ordered, Remembered
<1>9. BelowFirst(more, expanded \union {b}, store, kinds)
  <2> SUFFICES ASSUME NEW i \in DOMAIN more, more[i] \in expanded \union {b}, more[i].kind \in kinds,
                      NEW s \in Range(Successors(more[i]))
               PROVE  s \in store \/ \E j \in 1..(i - 1) : more[j] = s
    BY DEF BelowFirst
  <2>1. CASE i <= n
    \* A node below b that has been expanded before is in the store.
    <3>1. more[i] \in Range(below) /\ Level(more[i]) = Level(b) - 1
      BY <2>1, <1>1, <1>2, <1>3
    <3>2. more[i] \notin Range(todo) /\ more[i] # b
      BY <3>1, <1>2, <1>5, <1>7
    <3>3. more[i] \in store
      BY <3>2 DEF Ordered, Remembered
    <3> QED BY <3>3 DEF Closed
  <2>2. CASE i > n /\ more[i] = b
    <3>1. PICK j \in 1..n : below[j] = s
      BY <2>2, <1>2 DEF Range, below, n
    <3>2. j \in 1..(i - 1) /\ more[j] = s
      BY <2>2, <3>1, <1>1, <1>2, <1>3
    <3> QED BY <3>2
  <2>3. CASE i > n /\ more[i] # b
    <3>1. /\ i - n \in DOMAIN todo /\ more[i] = todo[i - n] /\ todo[i - n] \in expanded
      BY <2>3, <1>1, <1>2, <1>3
    <3>2. CASE s \in store BY <3>2
    <3>3. CASE s \notin store
      <4>1. PICK j \in 1..(i - n - 1) : todo[j] = s
        BY <3>1, <3>3 DEF Ordered, BelowFirst
      <4>2. n + j \in 1..(i - 1) /\ n + j \in (n + 1)..(n + Len(todo)) /\ (n + j) - n = j
        BY <4>1, <1>1, <1>2, <1>3
      <4> QED BY <4>1, <4>2, <1>3
    <3> QED BY <3>2, <3>3
  <2> QED BY <2>1, <2>2, <2>3, <1>1, <1>2, <1>3
<1>10. more # <<>> /\ more[Len(more)] = todo[Len(todo)]
  BY <1>1, <1>2, <1>3
<1>11. expanded \union {b} \in SUBSET Blobs BY <1>1 DEF Ordered
<1> QED BY <1>3, <1>4, <1>6, <1>8, <1>9, <1>10, <1>11 DEF Ordered, b, below, more

\* The first node has come to its turn: it is in the store, has been expanded, or
\* has nothing below it.
LEMMA Turn ==
  ASSUME NEW todo, NEW expanded, NEW store \in SUBSET Blobs, NEW kinds,
         Ordered(todo, expanded, store, kinds), Closed(store, kinds),
         todo # <<>>,
         Head(todo) \in store \union expanded \/ Successors(Head(todo)) = <<>>
  PROVE  /\ Closed(store \union {Head(todo)}, kinds)
         /\ Ordered(Tail(todo), expanded, store \union {Head(todo)}, kinds)
         /\ Range(todo) \subseteq Range(Tail(todo)) \union {Head(todo)}
         /\ Tail(todo) # <<>> => Tail(todo)[Len(Tail(todo))] = todo[Len(todo)]
<1> DEFINE b == Head(todo)
           rest == Tail(todo)
           larger == store \union {b}
<1>1. todo \in Seq(Blobs) /\ Len(todo) \in Nat \ {0} /\ b = todo[1] /\ b \in Blobs
  BY DEF Ordered
<1>2. /\ rest \in Seq(Blobs) /\ Len(rest) = Len(todo) - 1 /\ DOMAIN rest = 1..(Len(todo) - 1)
      /\ \A i \in DOMAIN rest : i + 1 \in DOMAIN todo /\ rest[i] = todo[i + 1]
  BY <1>1
<1> HIDE DEF b, rest
<1>3. Closed(larger, kinds)
  <2> SUFFICES ASSUME b.kind \in kinds PROVE Range(Successors(b)) \subseteq larger
    BY DEF Closed
  <2>1. CASE b \in store BY <2>1 DEF Closed
  <2>2. CASE b \in expanded
    BY <2>2, <1>1 DEF Ordered, BelowFirst
  <2>3. CASE Successors(b) = <<>> BY <2>3 DEF Range
  <2> QED BY <2>1, <2>2, <2>3 DEF b
<1>4. Sorted(rest)
  <2> SUFFICES ASSUME NEW i \in DOMAIN rest, NEW j \in DOMAIN rest, i < j
               PROVE  Level(rest[i]) <= Level(rest[j])
    BY DEF Sorted
  <2>1. i + 1 \in DOMAIN todo /\ j + 1 \in DOMAIN todo /\ i + 1 < j + 1
    BY <1>1, <1>2
  <2> QED BY <2>1, <1>2 DEF Ordered, Sorted
<1>5. Range(todo) \subseteq Range(rest) \union {b}
  <2> SUFFICES ASSUME NEW i \in DOMAIN todo, i # 1 PROVE todo[i] \in Range(rest)
    BY <1>1 DEF Range
  <2>1. i - 1 \in DOMAIN rest /\ (i - 1) + 1 = i BY <1>1, <1>2
  <2> QED BY <2>1, <1>2 DEF Range
<1>6. Remembered(rest, expanded, larger)
  BY <1>5 DEF Ordered, Remembered
<1>7. BelowFirst(rest, expanded, larger, kinds)
  <2> SUFFICES ASSUME NEW i \in DOMAIN rest, rest[i] \in expanded, rest[i].kind \in kinds,
                      NEW s \in Range(Successors(rest[i])), s \notin larger
               PROVE  \E j \in 1..(i - 1) : rest[j] = s
    BY DEF BelowFirst
  <2>1. i + 1 \in DOMAIN todo /\ rest[i] = todo[i + 1] /\ i \in Nat BY <1>1, <1>2
  <2>2. PICK j \in 1..((i + 1) - 1) : todo[j] = s
    BY <2>1 DEF Ordered, BelowFirst
  <2>3. j # 1 BY <2>2, <1>1
  <2>4. j - 1 \in 1..(i - 1) /\ j - 1 \in DOMAIN rest /\ (j - 1) + 1 = j
    BY <2>1, <2>2, <2>3, <1>1, <1>2
  <2> QED BY <2>2, <2>4, <1>2
<1>8. rest # <<>> => rest[Len(rest)] = todo[Len(todo)]
  <2>1. rest # <<>> => Len(rest) \in DOMAIN rest /\ Len(rest) + 1 = Len(todo)
    BY <1>1, <1>2
  <2> QED BY <2>1, <1>2
<1> QED BY <1>2, <1>3, <1>4, <1>5, <1>6, <1>7, <1>8 DEF Ordered, b, rest

-----------------------------------------------------------------------------
(* The inductive invariant.                                                *)

Phases == {"idle", "resolve", "pull", "copy", "tag", "manifest", "layer", "untag", "gc"}
Index == [Tags -> Roots \union {NoRoot}]

Job == [pc : Phases, cmd : Commands \union {NoCommand}, view : Index, refs : Seq(Tags),
        todo : Seq(Blobs), expanded : SUBSET Blobs, root : Roots \union {NoRoot}, out : Seq(Blobs)]

StoreTypeOK ==
  /\ index \in Index /\ blobs \in SUBSET Blobs
  /\ remoteTags \in Index /\ remoteBlobs \in SUBSET Blobs
  /\ job \in [Procs -> Job]
  /\ ran \in Nat
  /\ done \in [cmd : Commands \union {NoCommand}, result : {"none", "ok", "error", "aborted"},
               out : Seq(Blobs)]
  /\ expected \in Index
  /\ alone \in BOOLEAN /\ kept \in BOOLEAN

\* What each phase is for.
Shape(j) ==
  /\ j.pc = "idle" => j = Idle
  /\ j.pc # "idle" => j.cmd \in Commands
  /\ j.pc \in {"resolve", "pull", "copy", "tag", "untag"} => j.refs # <<>>
  /\ j.pc = "resolve" => j.cmd.op \in {"tag", "push", "get"}
  /\ j.pc = "resolve" /\ j.cmd.op = "tag" => Tail(j.refs) # <<>>
  /\ j.pc = "resolve" => j.expanded = {}
  /\ j.pc \in {"untag", "gc"} => j.cmd.op = "rm"
  /\ j.cmd.op = "rm" => j.pc \in {"untag", "gc"}
  /\ j.pc = "pull" => j.cmd.op # "push"
  /\ j.pc = "copy" => j.todo # <<>> /\ j.root \in Roots /\ j.todo[Len(j.todo)] = j.root
  /\ j.pc = "tag" => j.root \in Roots

\* A push knows the registry, which only grows.
PushSafe(j, store) ==
  j.pc = "copy" /\ j.cmd.op = "push" => Ordered(j.todo, j.expanded, store, Kinds)

HasImage(root, store) == \E a \in Range(root.archs) : Manifest(a) \in store
Whole(root, store) == root \in store /\ HasImage(root, store)
AllWhole(tags, store) == \A t \in Tags : tags[t] # NoRoot => Whole(tags[t], store)

\* A copy to the layout, which only grows as long as it is kept: it has, or is
\* going to have, an image of the root, and so has what is tagged with it.
LocalSafe(j, store) ==
  /\ j.pc = "copy" /\ j.cmd.op # "push" =>
       /\ Ordered(j.todo, j.expanded, store, {"manifest"})
       /\ j.root.archs # <<>>
       /\ j.root \in j.expanded => HasImage(j.root, store \union Range(j.todo))
  /\ j.pc = "tag" /\ j.cmd.op # "push" => HasImage(j.root, store)
  /\ AllWhole(j.view, store)

\* As long as the layout is kept a removal has it for itself, and knows the index.
RmAlone ==
  \A p \in Procs : job[p].cmd.op = "rm" =>
    index = job[p].view /\ \A q \in Procs \ {p} : job[q].pc = "idle"

RemoteInv ==
  /\ \A t \in Tags : remoteTags[t] # NoRoot => remoteTags[t] \in remoteBlobs
  /\ Closed(remoteBlobs, Kinds)

LocalInv ==
  /\ \A p \in Procs : LocalSafe(job[p], blobs)
  /\ AllWhole(index, blobs)
  /\ Closed(blobs, {"manifest"})
  /\ RmAlone

StoreInv ==
  /\ StoreTypeOK
  /\ \A p \in Procs : Shape(job[p]) /\ PushSafe(job[p], remoteBlobs)
  /\ RemoteInv
  /\ kept => LocalInv

-----------------------------------------------------------------------------
(* Stores that grow.                                                       *)

LEMMA WholeMonotone ==
  ASSUME NEW tags, NEW store, NEW larger, store \subseteq larger, AllWhole(tags, store)
  PROVE  AllWhole(tags, larger)
  BY DEF AllWhole, Whole, HasImage

LEMMA PushSafeMonotone ==
  ASSUME NEW j, NEW store, NEW larger, store \subseteq larger, PushSafe(j, store)
  PROVE  PushSafe(j, larger)
  BY OrderedMonotone DEF PushSafe

LEMMA LocalSafeMonotone ==
  ASSUME NEW j, NEW store, NEW larger, store \subseteq larger, LocalSafe(j, store)
  PROVE  LocalSafe(j, larger)
<1>1. AllWhole(j.view, larger) BY WholeMonotone DEF LocalSafe
<1>2. ASSUME j.pc = "copy", j.cmd.op # "push"
      PROVE  Ordered(j.todo, j.expanded, larger, {"manifest"})
  BY <1>2, OrderedMonotone DEF LocalSafe
<1>3. \A root, more : HasImage(root, store) => HasImage(root, larger)
  BY DEF HasImage
<1>4. \A root, more : HasImage(root, store \union more) => HasImage(root, larger \union more)
  BY DEF HasImage
<1> QED BY <1>1, <1>2, <1>3, <1>4 DEF LocalSafe

LEMMA IdleSafe ==
  /\ Idle \in Job /\ Shape(Idle) /\ Idle.pc = "idle" /\ Idle.cmd.op = "none"
  /\ \A store : PushSafe(Idle, store) /\ LocalSafe(Idle, store)
<1>1. Idle \in Job
  BY DEF Idle, Job, Phases, Index, Blobs
<1> QED BY <1>1 DEF Idle, NoCommand, Shape, PushSafe, LocalSafe, AllWhole

-----------------------------------------------------------------------------
(* A step of a process that is at work.                                    *)

LEMMA Step ==
  ASSUME StoreInv, NEW p \in Procs, NEW j \in Job,
         job[p].pc # "idle", job' = [job EXCEPT ![p] = j],
         j.cmd \in {job[p].cmd, NoCommand},
         Shape(j), PushSafe(j, remoteBlobs'),
         kept' = kept, blobs \subseteq blobs', remoteBlobs \subseteq remoteBlobs',
         StoreTypeOK', RemoteInv',
         kept => /\ LocalSafe(j, blobs')
                 /\ AllWhole(index', blobs')
                 /\ Closed(blobs', {"manifest"})
                 /\ j.cmd.op = "rm" => index' = j.view
  PROVE  StoreInv'
<1>1. job'[p] = j /\ \A q \in Procs \ {p} : job'[q] = job[q]
  BY DEF StoreInv, StoreTypeOK
<1>2. ASSUME NEW q \in Procs PROVE Shape(job'[q]) /\ PushSafe(job'[q], remoteBlobs')
  <2>1. CASE q = p BY <2>1, <1>1
  <2>2. CASE q # p BY <2>2, <1>1, PushSafeMonotone DEF StoreInv
  <2> QED BY <2>1, <2>2
<1>3. ASSUME kept PROVE LocalInv'
  <2>1. ASSUME NEW q \in Procs PROVE LocalSafe(job'[q], blobs')
    <3>1. CASE q = p BY <3>1, <1>1, <1>3
    <3>2. CASE q # p BY <3>2, <1>1, <1>3, LocalSafeMonotone DEF StoreInv, LocalInv
    <3> QED BY <3>1, <3>2
  <2>2. RmAlone'
    <3> SUFFICES ASSUME NEW q \in Procs, job'[q].cmd.op = "rm"
                 PROVE  index' = job'[q].view /\ \A r \in Procs \ {q} : job'[r].pc = "idle"
      BY DEF RmAlone
    <3>1. CASE q = p
      <4>1. NoCommand.op = "none" BY DEF NoCommand
      <4>2. j.cmd.op = "rm" BY <3>1, <1>1
      <4>3. job[p].cmd.op = "rm" BY <4>1, <4>2
      <4> QED BY <3>1, <4>2, <4>3, <1>1, <1>3 DEF StoreInv, LocalInv, RmAlone
    <3>2. CASE q # p
      BY <3>2, <1>1, <1>3 DEF StoreInv, LocalInv, RmAlone
    <3> QED BY <3>1, <3>2
  <2> QED BY <2>1, <2>2, <1>3 DEF LocalInv
<1> QED BY <1>2, <1>3 DEF StoreInv

\* A command ends without another effect.
LEMMA QuietFinish ==
  ASSUME StoreInv, NEW p \in Procs, job[p].pc # "idle",
         NEW result \in {"ok", "error", "aborted"},
         Finish(p, result), UNCHANGED <<local, remote>>
  PROVE  StoreInv'
<1>1. StoreTypeOK'
  <2>1. Idle \in Job /\ job[p] \in Job BY IdleSafe DEF StoreInv, StoreTypeOK
  <2> QED BY <2>1 DEF StoreInv, StoreTypeOK, Finish, local, remote, Job
<1>2. RemoteInv' BY DEF StoreInv, RemoteInv, remote
<1>3. /\ Idle.cmd = NoCommand /\ job' = [job EXCEPT ![p] = Idle]
      /\ UNCHANGED <<index, blobs, remoteBlobs, kept>>
  BY DEF Idle, Finish, local, remote
<1>4. kept => AllWhole(index, blobs) /\ Closed(blobs, {"manifest"})
  BY DEF StoreInv, LocalInv
<1> QED
  BY <1>1, <1>2, <1>3, <1>4, IdleSafe, Step

\* A command goes on without another effect.
LEMMA QuietGoto ==
  ASSUME StoreInv, NEW p \in Procs, NEW j \in Job, job[p].pc # "idle",
         Goto(p, j), j.cmd = job[p].cmd, j.view = job[p].view,
         Shape(j), PushSafe(j, remoteBlobs), kept => LocalSafe(j, blobs),
         UNCHANGED <<local, remote>>
  PROVE  StoreInv'
<1>1. StoreTypeOK' BY DEF StoreInv, StoreTypeOK, Goto, local, remote
<1>2. RemoteInv' BY DEF StoreInv, RemoteInv, remote
<1>3. kept /\ j.cmd.op = "rm" => index = j.view BY DEF StoreInv, LocalInv, RmAlone
<1> QED
  BY <1>1, <1>2, <1>3, Step DEF StoreInv, StoreTypeOK, LocalInv, Goto, local, remote

-----------------------------------------------------------------------------
(* The actions.                                                            *)

\* A tag that a process is to handle, and what its index has for it.
LEMMA HeadTag ==
  ASSUME StoreInv, NEW p \in Procs, job[p].refs # <<>>
  PROVE  /\ Head(job[p].refs) \in Tags /\ Tail(job[p].refs) \in Seq(Tags)
         /\ job[p].view[Head(job[p].refs)] \in Roots \union {NoRoot}
  BY DEF StoreInv, StoreTypeOK, Job, Index

LEMMA Initially == StoreInit => StoreInv
<1> SUFFICES ASSUME StoreInit PROVE StoreInv
  OBVIOUS
<1> DEFINE used == {t \in Tags : Published[t] # NoRoot}
<1>1. \A t \in used : Published[t] \in Roots
  BY StoreAssumption
<1>2. ASSUME NEW r \in Roots
      PROVE  /\ Complete(r) \subseteq Blobs
             /\ r \in Complete(r)
             /\ \A b \in Complete(r) : Range(Successors(b)) \subseteq Complete(r)
  <2>1. r \in Blobs /\ r.kind = "index" /\ r.archs \in Seq(Archs) BY DEF Blobs, Roots
  <2>2. \A a \in Range(r.archs) : a \in Archs BY <2>1 DEF Range
  <2>3. Complete(r) \subseteq Blobs BY <2>1, <2>2 DEF Complete, Manifest, Layer, Blobs
  <2>4. Range(Successors(r)) \subseteq Complete(r)
    BY <2>1, SuccessorsBelow DEF Complete, Range
  <2>5. ASSUME NEW a \in Range(r.archs)
        PROVE  Range(Successors(Manifest(a))) \subseteq Complete(r)
               /\ Range(Successors(Layer(a))) \subseteq Complete(r)
    BY <2>5 DEF Successors, Manifest, Layer, Range, Complete
  <2> QED BY <2>3, <2>4, <2>5 DEF Complete
<1>3. /\ remoteTags = Published
      /\ remoteBlobs = UNION {Complete(Published[t]) : t \in used}
  BY DEF StoreInit
<1>4. RemoteInv /\ remoteBlobs \subseteq Blobs
  <2>1. \A t \in used : Published[t] \in remoteBlobs BY <1>1, <1>2, <1>3
  <2>2. \A b \in remoteBlobs : Range(Successors(b)) \subseteq remoteBlobs
    BY <1>1, <1>2, <1>3
  <2>3. remoteBlobs \subseteq Blobs BY <1>1, <1>2, <1>3
  <2> QED BY <2>1, <2>2, <2>3, <1>3 DEF RemoteInv, Closed
<1>5. StoreTypeOK
  <2>1. [t \in Tags |-> NoRoot] \in Index BY DEF Index
  <2>2. remoteTags \in Index BY <1>3, StoreAssumption DEF Index
  <2> QED BY <2>1, <2>2, <1>4, IdleSafe DEF StoreInit, StoreTypeOK
<1>6. \A p \in Procs : job[p] = Idle BY DEF StoreInit
<1>7. LocalInv
  BY <1>6, IdleSafe DEF StoreInit, LocalInv, AllWhole, Closed, RmAlone
<1> QED BY <1>4, <1>5, <1>6, <1>7, IdleSafe DEF StoreInv

LEMMA StartSafe ==
  ASSUME StoreInv, NEW p \in Procs, NEW cmd \in Commands, Start(p, cmd)
  PROVE  StoreInv'
<1> DEFINE todo == IF cmd.op = "build" THEN <<Built>> ELSE <<>>
           root == IF cmd.op = "build" THEN Built ELSE NoRoot
           j == [pc |-> FirstStep[cmd.op], cmd |-> cmd, view |-> index, refs |-> cmd.refs,
                 todo |-> todo, expanded |-> {}, root |-> root, out |-> <<>>]
           others == {q \in Procs : job[q].pc # "idle"}
<1>1. /\ cmd.op \in {"build", "tag", "rm", "pull", "push", "get"}
      /\ cmd.refs \in Seq(Tags) /\ cmd.refs # <<>>
      /\ cmd.op = "tag" => Tail(cmd.refs) # <<>>
  BY StoreAssumption DEF FirstStep
<1>2. /\ cmd.op = "build" => FirstStep[cmd.op] = "copy"
      /\ cmd.op \in {"tag", "push", "get"} => FirstStep[cmd.op] = "resolve"
      /\ cmd.op = "rm" => FirstStep[cmd.op] = "untag"
      /\ cmd.op = "pull" => FirstStep[cmd.op] = "pull"
  BY DEF FirstStep
<1>3. /\ job' = [job EXCEPT ![p] = j]
      /\ job[p].pc = "idle"
      /\ kept' = (kept /\ \A q \in others : cmd.op # "rm" /\ job[q].cmd.op # "rm")
      /\ UNCHANGED <<index, blobs, remoteTags, remoteBlobs>>
  <2>1. job' = [job EXCEPT ![p] = j] BY DEF Start, localGetter
  <2>2. kept' = (kept /\ \A q \in others : cmd.op # "rm" /\ job[q].cmd.op # "rm")
    BY Zenon DEF Start
  <2>3. job[p].pc = "idle" /\ UNCHANGED <<index, blobs, remoteTags, remoteBlobs>>
    BY DEF Start, remote
  <2> QED BY <2>1, <2>2, <2>3
<1>4. Built \in Blobs /\ Built \in Roots /\ Built.archs # <<>>
  BY StoreAssumption DEF Blobs
<1>5. j \in Job
  <2>1. todo \in Seq(Blobs) /\ root \in Roots \union {NoRoot} BY <1>4
  <2>2. FirstStep[cmd.op] \in Phases BY <1>1, <1>2 DEF Phases
  <2>3. index \in Index BY DEF StoreInv, StoreTypeOK
  <2> QED BY <2>1, <2>2, <2>3, <1>1 DEF Job
<1>6. j.pc = FirstStep[cmd.op] /\ j.cmd = cmd /\ j.view = index /\ j.refs = cmd.refs
      /\ j.todo = todo /\ j.root = root /\ j.expanded = {}
  OBVIOUS
<1>7. cmd.op = "build" =>
        /\ todo # <<>> /\ todo[Len(todo)] = Built /\ root = Built
        /\ \A store : Ordered(todo, {}, store, {"manifest"})
  BY <1>4 DEF Ordered, Sorted, Remembered, BelowFirst
<1> HIDE DEF j, todo, root
<1>8. Shape(j) /\ PushSafe(j, remoteBlobs)
  BY <1>1, <1>2, <1>4, <1>6, <1>7 DEF Shape, PushSafe
<1>9. StoreTypeOK'
  <2>1. ran' = ran + 1 /\ expected' = expected
        /\ done' = [cmd |-> NoCommand, result |-> "none", out |-> <<>>]
        /\ alone' = (alone /\ others = {})
    BY DEF Start
  <2> QED BY <2>1, <1>3, <1>5 DEF StoreInv, StoreTypeOK
<1>10. RemoteInv' BY <1>3 DEF StoreInv, RemoteInv
<1>11. job'[p] = j /\ \A q \in Procs \ {p} : job'[q] = job[q]
  BY <1>3 DEF StoreInv, StoreTypeOK
<1>12. ASSUME kept' PROVE LocalInv'
  <2>1. kept /\ LocalInv BY <1>3, <1>12 DEF StoreInv
  <2>2. LocalSafe(j, blobs)
    BY <2>1, <1>1, <1>2, <1>4, <1>6, <1>7 DEF LocalInv, LocalSafe
  <2>3. RmAlone'
    <3> SUFFICES ASSUME NEW q \in Procs, job'[q].cmd.op = "rm"
                 PROVE  index' = job'[q].view /\ \A r \in Procs \ {q} : job'[r].pc = "idle"
      BY DEF RmAlone
    <3>1. CASE q = p BY <3>1, <1>3, <1>6, <1>11, <1>12
    <3>2. CASE q # p
      <4>1. job[q].pc # "idle" BY <3>2, <1>11, IdleSafe DEF StoreInv, Shape
      <4> QED BY <3>2, <4>1, <1>3, <1>11, <1>12
    <3> QED BY <3>1, <3>2
  <2> QED BY <2>1, <2>2, <2>3, <1>3, <1>11 DEF LocalInv
<1> QED BY <1>3, <1>8, <1>9, <1>10, <1>11, <1>12 DEF StoreInv

LEMMA ResolveSafe ==
  ASSUME StoreInv, NEW p \in Procs, Resolve(p)
  PROVE  StoreInv'
<1> DEFINE old == job[p]
           ref == Head(old.refs)
           root == old.view[ref]
<1>1. /\ old \in Job /\ old.pc = "resolve" /\ Shape(old)
      /\ UNCHANGED <<local, remote>>
      /\ kept => LocalSafe(old, blobs)
  BY DEF Resolve, StoreInv, StoreTypeOK, LocalInv
<1>2. /\ old.cmd.op \in {"tag", "push", "get"} /\ old.refs # <<>>
      /\ old.cmd.op = "tag" => Tail(old.refs) # <<>>
      /\ root \in Roots \union {NoRoot} /\ Tail(old.refs) \in Seq(Tags)
  BY <1>1, HeadTag DEF Shape
<1>3. kept => AllWhole(old.view, blobs) BY <1>1 DEF LocalSafe
<1>4. CASE old.cmd.op = "get"
  <2>1. PICK next \in {"manifest", "pull"} : Goto(p, [old EXCEPT !.pc = next])
    BY <1>4 DEF Resolve
  <2> DEFINE j == [old EXCEPT !.pc = next]
  <2>2. /\ j \in Job /\ j.pc = next /\ j.cmd = old.cmd /\ j.view = old.view /\ j.refs = old.refs
    BY <1>1 DEF Job, Phases
  <2> HIDE DEF j
  <2>3. Shape(j) /\ PushSafe(j, remoteBlobs) /\ (kept => LocalSafe(j, blobs))
    <3>1. next \in {"manifest", "pull"} OBVIOUS
    <3>2. j.cmd \in Commands BY <1>1, <2>2 DEF Shape
    <3> QED BY <1>2, <1>3, <1>4, <2>2, <3>1, <3>2 DEF Shape, PushSafe, LocalSafe
  <2>4. Goto(p, j) BY <2>1 DEF j
  <2> QED BY <1>1, <2>2, <2>3, <2>4, QuietGoto
<1>5. CASE old.cmd.op # "get" /\ root = NoRoot
  <2>1. Finish(p, "error") BY <1>5 DEF Resolve
  <2> QED BY <2>1, <1>1, QuietFinish
<1>6. CASE old.cmd.op = "tag" /\ root # NoRoot
  <2> DEFINE j == [old EXCEPT !.pc = "tag", !.refs = Tail(@), !.root = root]
  <2>1. Goto(p, j) BY <1>6 DEF Resolve
  <2>2. /\ j \in Job /\ j.pc = "tag" /\ j.cmd = old.cmd /\ j.view = old.view
        /\ j.refs = Tail(old.refs) /\ j.root = root
    BY <1>1, <1>2 DEF Job, Phases
  <2> HIDE DEF j
  <2>3. j.cmd \in Commands BY <1>1, <2>2 DEF Shape
  <2>4. Shape(j) /\ PushSafe(j, remoteBlobs)
    BY <1>2, <1>6, <2>2, <2>3 DEF Shape, PushSafe
  <2>5. ASSUME kept PROVE LocalSafe(j, blobs)
    <3>1. ref \in Tags BY <1>2, HeadTag
    <3>2. HasImage(root, blobs) BY <3>1, <1>3, <1>6, <2>5 DEF AllWhole, Whole
    <3> QED BY <1>3, <2>2, <2>5, <3>2 DEF LocalSafe
  <2> QED BY <1>1, <2>1, <2>2, <2>4, <2>5, QuietGoto
<1>7. CASE old.cmd.op = "push" /\ root # NoRoot
  <2> DEFINE j == [old EXCEPT !.pc = "copy", !.todo = <<root>>, !.root = root]
  <2>1. Goto(p, j) BY <1>7 DEF Resolve
  <2>2. root \in Blobs /\ <<root>> \in Seq(Blobs) BY <1>2, <1>7 DEF Blobs
  <2>3. /\ j \in Job /\ j.pc = "copy" /\ j.cmd = old.cmd /\ j.view = old.view
        /\ j.refs = old.refs /\ j.root = root /\ j.todo = <<root>> /\ j.expanded = old.expanded
    BY <1>1, <1>2, <2>2 DEF Job, Phases
  <2>4. old.expanded = {}
    BY <1>1 DEF Shape
  <2> HIDE DEF j
  <2>5. j.cmd \in Commands BY <1>1, <2>3 DEF Shape
  <2>6. Shape(j)
    BY <1>2, <1>7, <2>3, <2>5 DEF Shape
  <2>7. Ordered(<<root>>, {}, remoteBlobs, Kinds)
    BY <2>2 DEF Ordered, Sorted, Remembered, BelowFirst
  <2>8. PushSafe(j, remoteBlobs) /\ (kept => LocalSafe(j, blobs))
    BY <1>3, <1>7, <2>3, <2>4, <2>7 DEF PushSafe, LocalSafe
  <2> QED BY <1>1, <2>1, <2>3, <2>6, <2>8, QuietGoto
<1> QED BY <1>2, <1>4, <1>5, <1>6, <1>7

LEMMA PullSafe ==
  ASSUME StoreInv, NEW p \in Procs, Pull(p)
  PROVE  StoreInv'
<1> DEFINE old == job[p]
           arch == old.cmd.arch
           root == remoteTags[Head(old.refs)]
           todo == <<Manifest(arch), root>>
           j == [old EXCEPT !.pc = "copy", !.root = root, !.expanded = {root}, !.todo = todo]
<1>1. /\ old \in Job /\ old.pc = "pull" /\ Shape(old)
      /\ UNCHANGED <<local, remote>>
      /\ kept => LocalSafe(old, blobs)
  BY DEF Pull, StoreInv, StoreTypeOK, LocalInv
<1>2. /\ old.cmd.op \notin {"push", "rm"} /\ old.refs # <<>> /\ old.cmd \in Commands
      /\ root \in Roots \union {NoRoot}
  <2>1. old.cmd.op \notin {"push", "rm"} /\ old.refs # <<>> /\ old.cmd \in Commands
    BY <1>1 DEF Shape
  <2> QED BY <2>1, HeadTag DEF StoreInv, StoreTypeOK, Index
<1>3. CASE ~Resolved(root, arch, remoteBlobs)
  <2>1. Finish(p, "error") BY <1>3 DEF Pull
  <2> QED BY <2>1, <1>1, QuietFinish
<1>4. CASE Resolved(root, arch, remoteBlobs)
  <2>1. Goto(p, j) BY <1>4 DEF Pull
  <2>2. PICK i \in DOMAIN root.archs : root.archs[i] = arch
    BY <1>4 DEF Resolved, Lists
  <2>3. /\ root \in Roots /\ root \in Blobs /\ root.kind = "index" /\ root.archs \in Seq(Archs)
        /\ arch \in Range(root.archs) /\ arch \in Archs /\ root.archs # <<>>
    <3>1. root \in Roots BY <1>2, <1>4 DEF Resolved, Lists
    <3>2. root \in Blobs /\ root.kind = "index" /\ root.archs \in Seq(Archs)
      BY <3>1 DEF Roots, Blobs
    <3> QED BY <3>1, <3>2, <2>2 DEF Range
  <2>4. /\ Manifest(arch) \in Blobs /\ Manifest(arch).kind = "manifest"
    BY <2>3 DEF Manifest, Blobs
  <2>5. todo \in Seq(Blobs) /\ Len(todo) = 2 /\ DOMAIN todo = 1..2
        /\ todo[1] = Manifest(arch) /\ todo[2] = root /\ todo # <<>>
    BY <2>3, <2>4
  <2>6. /\ j \in Job /\ j.pc = "copy" /\ j.cmd = old.cmd /\ j.view = old.view
        /\ j.refs = old.refs /\ j.root = root /\ j.todo = todo /\ j.expanded = {root}
    BY <1>1, <1>2, <2>3, <2>5 DEF Job, Phases
  <2> HIDE DEF j, todo
  <2>7. Shape(j) BY <1>2, <2>3, <2>5, <2>6 DEF Shape
  <2>8. PushSafe(j, remoteBlobs) BY <1>2, <2>6 DEF PushSafe
  <2>9. Ordered(todo, {root}, blobs, {"manifest"})
    <3>1. Level(root) = 2 /\ Level(Manifest(arch)) = 1 BY <2>3, <2>4 DEF Level
    <3>2. Sorted(todo) BY <3>1, <2>5 DEF Sorted
    <3>3. root \in Range(todo) BY <2>5 DEF Range
    <3>4. Remembered(todo, {root}, blobs) BY <3>3 DEF Remembered
    <3>5. BelowFirst(todo, {root}, blobs, {"manifest"}) BY <2>3 DEF BelowFirst
    <3> QED BY <3>2, <3>4, <3>5, <2>3, <2>5 DEF Ordered
  <2>10. HasImage(root, blobs \union Range(todo))
    <3>1. Manifest(arch) \in Range(todo) BY <2>5 DEF Range
    <3> QED BY <3>1, <2>3 DEF HasImage
  <2>11. kept => LocalSafe(j, blobs)
    BY <1>1, <2>3, <2>6, <2>9, <2>10 DEF LocalSafe
  <2> QED BY <1>1, <2>1, <2>6, <2>7, <2>8, <2>11, QuietGoto
<1> QED BY <1>3, <1>4

\* What is put before a sequence leaves its last element.
LEMMA Prefixed ==
  ASSUME NEW first \in Seq(Blobs), NEW seq \in Seq(Blobs), seq # <<>>
  PROVE  LET all == first \o seq
         IN  all \in Seq(Blobs) /\ all # <<>> /\ all[Len(all)] = seq[Len(seq)]
<1>1. Len(seq) \in Nat \ {0} /\ Len(first) \in Nat OBVIOUS
<1>2. first \o seq \in Seq(Blobs) /\ Len(first \o seq) = Len(first) + Len(seq) OBVIOUS
<1>3. Len(<<>>) = 0 OBVIOUS
<1>4. first \o seq # <<>> BY <1>1, <1>2, <1>3
<1>5. (first \o seq)[Len(first) + Len(seq)] = seq[Len(seq)] BY <1>1
<1> QED BY <1>2, <1>4, <1>5

\* A sequence without a tail is of its head.
LEMMA LastOne ==
  ASSUME NEW seq \in Seq(Blobs), seq # <<>>, Tail(seq) = <<>>
  PROVE  Head(seq) = seq[Len(seq)]
<1>1. Len(seq) \in Nat \ {0} /\ Len(Tail(seq)) = Len(seq) - 1 OBVIOUS
<1>2. Tail(seq) \in Seq(Blobs) OBVIOUS
<1>3. Len(<<>>) = 0 OBVIOUS
<1>4. Len(Tail(seq)) = 0 BY <1>3
<1> QED BY <1>1, <1>4

\* A push takes its next step.
LEMMA VisitRemote ==
  ASSUME StoreInv, NEW p \in Procs, Visit(p), ToRemote(p)
  PROVE  StoreInv'
<1> DEFINE old == job[p]
           todo == old.todo
           b == Head(todo)
           rest == Tail(todo)
<1>1. /\ old \in Job /\ old.pc = "copy" /\ old.cmd.op = "push" /\ old.cmd \in Commands
      /\ old.refs # <<>> /\ old.root \in Roots
      /\ todo # <<>> /\ todo[Len(todo)] = old.root /\ todo \in Seq(Blobs)
      /\ old.expanded \in SUBSET Blobs
      /\ kept => AllWhole(old.view, blobs)
  <2>1. old \in Job /\ old.pc = "copy" /\ old.cmd.op = "push" /\ Shape(old)
    BY DEF Visit, ToRemote, StoreInv, StoreTypeOK
  <2> QED BY <2>1 DEF Shape, Job, StoreInv, LocalInv, LocalSafe
<1>2. /\ Ordered(todo, old.expanded, remoteBlobs, Kinds)
      /\ Closed(remoteBlobs, Kinds) /\ remoteBlobs \in SUBSET Blobs
      /\ RemoteInv
  BY <1>1 DEF StoreInv, StoreTypeOK, PushSafe, RemoteInv
<1>3. b \in Blobs /\ rest \in Seq(Blobs) /\ Target(p) = remoteBlobs
  BY <1>1 DEF Target, ToRemote
<1>4. CASE ~AtSource(p, b) /\ (Descends(p, b) \/ b \notin Target(p))
  <2>1. Fails(p) BY <1>4 DEF Visit
  <2> QED BY <2>1, <1>1, QuietFinish DEF Fails
<1>5. CASE AtSource(p, b) /\ Descends(p, b)
  <2> DEFINE more == Successors(b) \o todo
             j == [old EXCEPT !.todo = more, !.expanded = @ \union {b}]
  <2>1. Goto(p, j) /\ UNCHANGED <<local, remote>> BY <1>5 DEF Visit
  <2>2. /\ Ordered(more, old.expanded \union {b}, remoteBlobs, Kinds)
        /\ more # <<>> /\ more[Len(more)] = todo[Len(todo)]
    BY <1>1, <1>2, <1>5, Expand DEF Descends
  <2>3. more \in Seq(Blobs) BY <2>2 DEF Ordered
  <2> HIDE DEF more
  <2>4. /\ j \in Job /\ j.pc = "copy" /\ j.cmd = old.cmd /\ j.view = old.view
        /\ j.refs = old.refs /\ j.root = old.root /\ j.todo = more
        /\ j.expanded = old.expanded \union {b}
    BY <1>1, <1>3, <2>3 DEF Job
  <2> HIDE DEF j
  <2>5. Shape(j) BY <1>1, <2>2, <2>4 DEF Shape
  <2>6. PushSafe(j, remoteBlobs) /\ (kept => LocalSafe(j, blobs))
    BY <1>1, <2>2, <2>4 DEF PushSafe, LocalSafe
  <2> QED BY <1>1, <2>1, <2>4, <2>5, <2>6, QuietGoto
<1>6. CASE ~Descends(p, b) /\ (AtSource(p, b) \/ b \in Target(p))
  <2> DEFINE next == IF rest = <<>> THEN "tag" ELSE "copy"
             j == [old EXCEPT !.todo = rest, !.pc = next]
             ref == Head(old.refs)
  <2>1. Goto(p, j) /\ Stored(p, b)
    BY <1>6 DEF Visit, AfterCopy
  <2>2. /\ remoteBlobs' = remoteBlobs \union {b}
        /\ remoteTags' = IF rest = <<>> THEN [remoteTags EXCEPT ![ref] = old.root] ELSE remoteTags
        /\ UNCHANGED <<index, blobs, expected, kept>>
    BY <2>1 DEF Stored, ToRemote, local
  <2>3. b \in remoteBlobs \union old.expanded \/ Successors(b) = <<>>
    BY <1>1, <1>3, <1>6 DEF Descends, ToRemote
  <2>4. /\ Closed(remoteBlobs', Kinds)
        /\ Ordered(rest, old.expanded, remoteBlobs', Kinds)
        /\ rest # <<>> => rest[Len(rest)] = todo[Len(todo)]
    BY <1>1, <1>2, <2>2, <2>3, Turn
  <2>5. ASSUME rest = <<>> PROVE b = old.root
    BY <1>1, <2>5, LastOne
  <2>6. next \in Phases BY DEF Phases
  <2>7. ref \in Tags BY <1>1, HeadTag
  <2> HIDE DEF next
  <2>8. /\ j \in Job /\ j.pc = next /\ j.cmd = old.cmd /\ j.view = old.view
        /\ j.refs = old.refs /\ j.root = old.root /\ j.todo = rest /\ j.expanded = old.expanded
    BY <1>1, <1>3, <2>6 DEF Job
  <2> HIDE DEF j
  <2>9. Shape(j)
    <3>1. next = "copy" => rest # <<>> BY DEF next
    <3>2. next \in {"copy", "tag"} BY DEF next
    <3> QED BY <1>1, <2>4, <2>8, <3>1, <3>2 DEF Shape
  <2>10. PushSafe(j, remoteBlobs') /\ (kept => LocalSafe(j, blobs'))
    BY <1>1, <2>2, <2>4, <2>8 DEF PushSafe, LocalSafe
  <2>11. remoteTags' \in Index /\ remoteBlobs' \in SUBSET Blobs
    BY <1>1, <1>3, <2>2, <2>7 DEF StoreInv, StoreTypeOK, Index
  <2>12. StoreTypeOK'
    BY <2>1, <2>2, <2>8, <2>11 DEF StoreInv, StoreTypeOK, Goto
  <2>13. RemoteInv'
    <3>1. \A t \in Tags : remoteTags'[t] # NoRoot => remoteTags'[t] \in remoteBlobs'
      BY <1>2, <2>2, <2>5, <2>7 DEF RemoteInv, StoreInv, StoreTypeOK, Index
    <3> QED BY <3>1, <2>4 DEF RemoteInv
  <2>14. kept => AllWhole(index', blobs') /\ Closed(blobs', {"manifest"})
    BY <2>2 DEF StoreInv, LocalInv
  <2>15. kept /\ j.cmd.op = "rm" => index' = j.view
    BY <2>2, <2>8 DEF StoreInv, LocalInv, RmAlone
  <2>16. /\ job' = [job EXCEPT ![p] = j] /\ j.cmd \in {old.cmd, NoCommand} /\ kept' = kept
         /\ blobs \subseteq blobs' /\ remoteBlobs \subseteq remoteBlobs' /\ old.pc # "idle"
    BY <1>1, <2>1, <2>2, <2>8 DEF Goto
  <2> QED BY <2>8, <2>9, <2>10, <2>12, <2>13, <2>14, <2>15, <2>16, Step
<1> QED BY <1>4, <1>5, <1>6

\* A copy to the layout takes its next step.
LEMMA VisitLocal ==
  ASSUME StoreInv, NEW p \in Procs, Visit(p), ~ToRemote(p)
  PROVE  StoreInv'
<1> DEFINE old == job[p]
           todo == old.todo
           b == Head(todo)
           rest == Tail(todo)
           K == {"manifest"}
<1>1. /\ old \in Job /\ old.pc = "copy" /\ old.cmd.op \notin {"push", "rm"} /\ old.cmd \in Commands
      /\ old.refs # <<>> /\ old.root \in Roots
      /\ todo # <<>> /\ todo[Len(todo)] = old.root /\ todo \in Seq(Blobs)
      /\ old.expanded \in SUBSET Blobs
  <2>1. old \in Job /\ old.pc = "copy" /\ old.cmd.op # "push" /\ Shape(old)
    BY DEF Visit, ToRemote, StoreInv, StoreTypeOK
  <2> QED BY <2>1 DEF Shape, Job
<1>2. ASSUME kept
      PROVE  /\ Ordered(todo, old.expanded, blobs, K)
             /\ Closed(blobs, K)
             /\ old.root.archs # <<>>
             /\ old.root \in old.expanded => HasImage(old.root, blobs \union Range(todo))
             /\ AllWhole(old.view, blobs) /\ AllWhole(index, blobs)
  BY <1>1, <1>2 DEF StoreInv, LocalInv, LocalSafe
<1>3. b \in Blobs /\ rest \in Seq(Blobs) /\ blobs \in SUBSET Blobs
  BY <1>1 DEF StoreInv, StoreTypeOK
<1>4. CASE ~AtSource(p, b) /\ (Descends(p, b) \/ b \notin Target(p))
  <2>1. Fails(p) BY <1>4 DEF Visit
  <2> QED BY <2>1, <1>1, QuietFinish DEF Fails
<1>5. CASE AtSource(p, b) /\ Descends(p, b)
  <2> DEFINE more == Successors(b) \o todo
             j == [old EXCEPT !.todo = more, !.expanded = @ \union {b}]
  <2>1. Goto(p, j) /\ UNCHANGED <<local, remote>> BY <1>5 DEF Visit
  <2>2. Successors(b) \in Seq(Blobs) /\ Successors(b) # <<>>
    BY <1>3, <1>5, SuccessorsBelow DEF Descends
  <2>3. more \in Seq(Blobs) /\ more # <<>> /\ more[Len(more)] = todo[Len(todo)]
    <3> HIDE DEF todo, b
    <3> QED BY <1>1, <2>2, Prefixed
  <2>4. ASSUME kept
        PROVE  /\ Ordered(more, old.expanded \union {b}, blobs, K)
               /\ Range(more) = Range(Successors(b)) \union Range(todo)
    BY <1>1, <1>2, <1>3, <2>2, <2>4, Expand
  <2> HIDE DEF more
  <2>5. /\ j \in Job /\ j.pc = "copy" /\ j.cmd = old.cmd /\ j.view = old.view
        /\ j.refs = old.refs /\ j.root = old.root /\ j.todo = more
        /\ j.expanded = old.expanded \union {b}
    BY <1>1, <1>3, <2>3 DEF Job
  <2> HIDE DEF j
  <2>6. Shape(j) BY <1>1, <2>3, <2>5 DEF Shape
  <2>7. PushSafe(j, remoteBlobs) BY <1>1, <2>5 DEF PushSafe
  <2>8. ASSUME kept, old.root \in old.expanded \union {b}
        PROVE  HasImage(old.root, blobs \union Range(more))
    <3>1. CASE old.root \in old.expanded
      BY <3>1, <1>2, <2>4, <2>8 DEF HasImage
    <3>2. CASE old.root = b
      <4>1. /\ old.root.kind = "index" /\ old.root.archs \in Seq(Archs) /\ old.root \in Blobs
        BY <1>1 DEF Roots, Blobs
      <4>2. 1 \in DOMAIN old.root.archs
        <5>1. old.root.archs # <<>> BY <1>2, <2>8
        <5> QED BY <4>1, <5>1
      <4>3. Successors(b) = [i \in DOMAIN old.root.archs |-> Manifest(old.root.archs[i])]
        BY <3>2, <4>1, SuccessorsBelow
      <4>4. Manifest(old.root.archs[1]) \in Range(Successors(b)) BY <4>2, <4>3 DEF Range
      <4>5. old.root.archs[1] \in Range(old.root.archs) BY <4>2 DEF Range
      <4> QED BY <4>4, <4>5, <2>4, <2>8 DEF HasImage
    <3> QED BY <3>1, <3>2, <2>8
  <2>9. kept => LocalSafe(j, blobs)
    BY <1>1, <1>2, <2>4, <2>5, <2>8 DEF LocalSafe
  <2> QED BY <1>1, <2>1, <2>5, <2>6, <2>7, <2>9, QuietGoto
<1>6. CASE ~Descends(p, b) /\ (AtSource(p, b) \/ b \in Target(p))
  <2> DEFINE next == IF rest = <<>> THEN "tag" ELSE "copy"
             j == [old EXCEPT !.todo = rest, !.pc = next]
  <2>1. Goto(p, j) /\ Stored(p, b)
    BY <1>6 DEF Visit, AfterCopy
  <2>2. /\ blobs' = blobs \union {b} /\ index' \in {index, old.view}
        /\ UNCHANGED <<expected, kept, remoteTags, remoteBlobs>>
    BY <2>1 DEF Stored, remote
  <2>3. b \in old.expanded \/ Successors(b) = <<>>
    BY <1>6 DEF Descends
  <2>4. ASSUME kept
        PROVE  /\ Closed(blobs', K)
               /\ Ordered(rest, old.expanded, blobs', K)
               /\ Range(todo) \subseteq Range(rest) \union {b}
    BY <1>1, <1>2, <1>3, <2>2, <2>3, <2>4, Turn
  <2>5. rest # <<>> => rest[Len(rest)] = todo[Len(todo)]
    <3>1. /\ Len(todo) \in Nat \ {0} /\ Len(rest) = Len(todo) - 1
          /\ \A i \in 1..Len(rest) : rest[i] = todo[i + 1]
      BY <1>1
    <3>2. rest # <<>> => Len(rest) \in 1..Len(rest) /\ Len(rest) + 1 = Len(todo)
      BY <1>3, <3>1
    <3> QED BY <3>1, <3>2
  <2>6. ASSUME rest = <<>> PROVE b = old.root
    BY <1>1, <2>6, LastOne
  <2>7. next \in Phases /\ next \in {"copy", "tag"} /\ (next = "copy" <=> rest # <<>>)
    BY DEF Phases
  <2> HIDE DEF next
  <2>8. /\ j \in Job /\ j.pc = next /\ j.cmd = old.cmd /\ j.view = old.view
        /\ j.refs = old.refs /\ j.root = old.root /\ j.todo = rest /\ j.expanded = old.expanded
    BY <1>1, <1>3, <2>7 DEF Job
  <2> HIDE DEF j
  <2>9. Shape(j) BY <1>1, <2>5, <2>7, <2>8 DEF Shape
  <2>10. PushSafe(j, remoteBlobs') BY <1>1, <2>8 DEF PushSafe
  <2>11. ASSUME kept PROVE LocalSafe(j, blobs')
    <3>1. AllWhole(j.view, blobs')
      BY <1>2, <2>2, <2>8, <2>11, WholeMonotone
    <3>2. old.root \in old.expanded => HasImage(old.root, blobs' \union Range(rest))
      BY <1>2, <2>2, <2>4, <2>11 DEF HasImage
    <3>3. rest = <<>> => HasImage(old.root, blobs')
      <4>1. old.root.kind = "index" /\ old.root.archs \in Seq(Archs) /\ old.root \in Blobs
        BY <1>1 DEF Roots, Blobs
      <4>2. Successors(old.root) # <<>>
        <5>1. 1 \in DOMAIN old.root.archs BY <4>1, <1>2, <2>11
        <5>2. Successors(old.root) = [i \in DOMAIN old.root.archs |-> Manifest(old.root.archs[i])]
          BY <4>1, SuccessorsBelow
        <5>3. 1 \in DOMAIN Successors(old.root) BY <5>1, <5>2
        <5> QED BY <5>3
      <4>3. rest = <<>> => Range(rest) = {} BY DEF Range
      <4> QED BY <2>3, <2>6, <3>2, <4>2, <4>3
    <3> QED BY <1>1, <1>2, <2>4, <2>7, <2>8, <2>11, <3>1, <3>2, <3>3 DEF LocalSafe
  <2>12. StoreTypeOK'
    <3>1. index' \in Index BY <1>1, <2>2 DEF StoreInv, StoreTypeOK, Job
    <3>2. blobs' \in SUBSET Blobs BY <1>3, <2>2
    <3> QED BY <2>1, <2>2, <2>8, <3>1, <3>2 DEF StoreInv, StoreTypeOK, Goto
  <2>13. RemoteInv' BY <2>2 DEF StoreInv, RemoteInv
  <2>14. kept => AllWhole(index', blobs') /\ Closed(blobs', {"manifest"})
    BY <1>2, <2>2, <2>4, WholeMonotone
  <2>15. kept /\ j.cmd.op = "rm" => index' = j.view
    BY <2>2, <2>8 DEF StoreInv, LocalInv, RmAlone
  <2>16. /\ job' = [job EXCEPT ![p] = j] /\ j.cmd \in {old.cmd, NoCommand} /\ kept' = kept
         /\ blobs \subseteq blobs' /\ remoteBlobs \subseteq remoteBlobs' /\ old.pc # "idle"
    BY <1>1, <2>1, <2>2, <2>8 DEF Goto
  <2> QED BY <2>8, <2>9, <2>10, <2>11, <2>12, <2>13, <2>14, <2>15, <2>16, Step
<1> QED BY <1>4, <1>5, <1>6

LEMMA TagSafe ==
  ASSUME StoreInv, NEW p \in Procs, Tag(p)
  PROVE  StoreInv'
<1> DEFINE old == job[p]
           ref == Head(old.refs)
           left == Tail(old.refs)
           view == [old.view EXCEPT ![ref] = old.root]
<1>1. /\ old \in Job /\ old.pc = "tag" /\ old.cmd \in Commands /\ old.cmd.op # "rm"
      /\ old.refs # <<>> /\ old.root \in Roots
  <2>1. old \in Job /\ old.pc = "tag" /\ Shape(old)
    BY DEF Tag, StoreInv, StoreTypeOK
  <2> QED BY <2>1 DEF Shape
<1>2. ref \in Tags /\ left \in Seq(Tags) /\ old.view \in Index /\ view \in Index
  BY <1>1, HeadTag DEF Job, Index
<1>3. CASE ToRemote(p)
  BY <1>1, <1>3, QuietFinish DEF Tag
<1>4. CASE ~ToRemote(p) /\ old.root \notin blobs
  BY <1>1, <1>4, QuietFinish DEF Tag, Fails
<1>5. CASE ~ToRemote(p) /\ old.root \in blobs
  <2> DEFINE next == IF left = <<>> THEN "manifest" ELSE "tag"
             on == [old EXCEPT !.view = view, !.refs = left, !.pc = next]
             j == IF left = <<>> /\ old.cmd.op # "get" THEN Idle ELSE on
  <2>1. /\ index' = view
        /\ expected' = [expected EXCEPT ![ref] = old.root]
        /\ IF left = <<>> /\ old.cmd.op # "get" THEN Finish(p, "ok") ELSE Goto(p, on)
        /\ UNCHANGED <<blobs, kept, remoteTags, remoteBlobs>>
    BY <1>5 DEF Tag, remote
  <2>2. next \in Phases /\ next \in {"manifest", "tag"} /\ (next = "tag" => left # <<>>)
    BY DEF Phases
  <2> HIDE DEF next
  <2>3. /\ on \in Job /\ on.pc = next /\ on.cmd = old.cmd /\ on.view = view
        /\ on.refs = left /\ on.root = old.root /\ on.out = old.out
    BY <1>1, <1>2, <2>2 DEF Job
  <2> HIDE DEF on, view
  <2>4. old.cmd.op # "push" BY <1>5 DEF ToRemote
  <2>5. Shape(on) /\ PushSafe(on, remoteBlobs)
    BY <1>1, <2>2, <2>3, <2>4 DEF Shape, PushSafe
  <2>6. ASSUME kept
        PROVE  LocalSafe(on, blobs) /\ AllWhole(view, blobs) /\ Closed(blobs, {"manifest"})
    <3>1. LocalSafe(old, blobs) /\ Closed(blobs, {"manifest"})
      BY <2>6 DEF StoreInv, LocalInv
    <3>2. AllWhole(old.view, blobs) /\ HasImage(old.root, blobs)
      BY <1>1, <2>4, <3>1 DEF LocalSafe
    <3>3. Whole(old.root, blobs) BY <1>5, <3>2 DEF Whole
    <3>4. AllWhole(view, blobs)
      BY <1>2, <3>2, <3>3 DEF AllWhole, Index, view
    <3> QED BY <2>2, <2>3, <3>1, <3>2, <3>4 DEF LocalSafe
  <2>7. /\ job' = [job EXCEPT ![p] = j] /\ j \in Job /\ j.cmd \in {old.cmd, NoCommand}
        /\ Shape(j) /\ PushSafe(j, remoteBlobs) /\ (kept => LocalSafe(j, blobs))
        /\ j.cmd.op = "rm" => index' = j.view
    <3>1. CASE left = <<>> /\ old.cmd.op # "get"
      BY <3>1, <2>1, IdleSafe DEF Finish, Idle, NoCommand
    <3>2. CASE ~(left = <<>> /\ old.cmd.op # "get")
      BY <3>2, <2>1, <2>3, <2>5, <2>6 DEF Goto
    <3> QED BY <3>1, <3>2
  <2>8. StoreTypeOK'
    <3>1. view \in Index /\ expected' \in Index
      BY <1>1, <1>2, <2>1 DEF StoreInv, StoreTypeOK, Index
    <3>2. ran' = ran /\ alone' = alone BY <2>1 DEF Finish, Goto
    <3>3. done' \in [cmd : Commands \union {NoCommand}, result : {"none", "ok", "error", "aborted"},
                     out : Seq(Blobs)]
      <4>1. old.out \in Seq(Blobs) BY <1>1 DEF Job
      <4>2. CASE left = <<>> /\ old.cmd.op # "get"
        BY <4>1, <4>2, <1>1, <2>1 DEF Finish
      <4>3. CASE ~(left = <<>> /\ old.cmd.op # "get")
        BY <4>3, <2>1 DEF Goto, StoreInv, StoreTypeOK
      <4> QED BY <4>2, <4>3
    <3> QED BY <2>1, <2>7, <3>1, <3>2, <3>3 DEF StoreInv, StoreTypeOK
  <2>9. RemoteInv' BY <2>1 DEF StoreInv, RemoteInv
  <2> HIDE DEF j
  <2> QED BY <1>1, <2>1, <2>6, <2>7, <2>8, <2>9, Step
<1> QED BY <1>3, <1>4, <1>5

LEMMA ReadSafe ==
  ASSUME StoreInv, NEW p \in Procs, ReadManifest(p) \/ ReadLayer(p)
  PROVE  StoreInv'
<1> DEFINE old == job[p]
<1>1. CASE ReadLayer(p)
  BY <1>1, QuietFinish DEF ReadLayer
<1>2. CASE ReadManifest(p) /\ Manifest(old.cmd.arch) \notin blobs
  BY <1>2, QuietFinish DEF ReadManifest
<1>3. CASE ReadManifest(p) /\ Manifest(old.cmd.arch) \in blobs
  <2> DEFINE out == Successors(Manifest(old.cmd.arch))
             j == [old EXCEPT !.pc = "layer", !.out = out]
  <2>1. Goto(p, j) /\ UNCHANGED <<local, remote>> /\ old.pc = "manifest"
    BY <1>3 DEF ReadManifest
  <2>2. out \in Seq(Blobs)
    BY <1>3, SuccessorsBelow DEF StoreInv, StoreTypeOK
  <2>3. old \in Job /\ old.cmd \in Commands /\ old.cmd.op # "rm"
    BY <2>1 DEF StoreInv, StoreTypeOK, Shape
  <2> HIDE DEF out
  <2>4. j \in Job /\ j.pc = "layer" /\ j.cmd = old.cmd /\ j.view = old.view
    BY <2>2, <2>3 DEF Job, Phases
  <2> HIDE DEF j
  <2>5. Shape(j) /\ PushSafe(j, remoteBlobs) BY <2>3, <2>4 DEF Shape, PushSafe
  <2>6. kept => LocalSafe(j, blobs)
    BY <2>4 DEF StoreInv, LocalInv, LocalSafe
  <2> QED BY <2>1, <2>4, <2>5, <2>6, QuietGoto
<1> QED BY <1>1, <1>2, <1>3

LEMMA UntagSafe ==
  ASSUME StoreInv, NEW p \in Procs, Untag(p)
  PROVE  StoreInv'
<1> DEFINE old == job[p]
           ref == Head(old.refs)
           left == Tail(old.refs)
           view == [old.view EXCEPT ![ref] = NoRoot]
           next == IF left = <<>> THEN "gc" ELSE "untag"
           j == [old EXCEPT !.view = view, !.refs = left, !.pc = next]
<1>1. /\ old \in Job /\ old.pc = "untag" /\ old.cmd \in Commands
      /\ old.refs # <<>> /\ old.cmd.op = "rm"
  <2>1. old \in Job /\ old.pc = "untag" /\ Shape(old)
    BY DEF Untag, StoreInv, StoreTypeOK
  <2> QED BY <2>1 DEF Shape
<1>2. ref \in Tags /\ left \in Seq(Tags) /\ old.view \in Index /\ view \in Index
  BY <1>1, HeadTag DEF Job, Index
<1>3. CASE old.view[ref] = NoRoot
  BY <1>1, <1>3, QuietFinish DEF Untag, Fails
<1>4. CASE old.view[ref] # NoRoot
  <2>1. /\ index' = view
        /\ expected' = [expected EXCEPT ![ref] = NoRoot]
        /\ Goto(p, j)
        /\ UNCHANGED <<blobs, kept, remoteTags, remoteBlobs>>
    BY <1>4 DEF Untag, remote
  <2>2. next \in Phases /\ next \in {"gc", "untag"} /\ (next = "untag" => left # <<>>)
    BY DEF Phases
  <2> HIDE DEF next
  <2>3. /\ j \in Job /\ j.pc = next /\ j.cmd = old.cmd /\ j.view = view
        /\ j.refs = left
    BY <1>1, <1>2, <2>2 DEF Job
  <2> HIDE DEF j, view
  <2>4. Shape(j) /\ PushSafe(j, remoteBlobs)
    BY <1>1, <2>2, <2>3 DEF Shape, PushSafe
  <2>5. ASSUME kept
        PROVE  LocalSafe(j, blobs) /\ AllWhole(view, blobs) /\ Closed(blobs, {"manifest"})
    <3>1. AllWhole(old.view, blobs) /\ Closed(blobs, {"manifest"})
      BY <2>5 DEF StoreInv, LocalInv, LocalSafe
    <3>2. AllWhole(view, blobs)
      BY <1>2, <3>1 DEF AllWhole, Index, view
    <3> QED BY <2>2, <2>3, <3>1, <3>2 DEF LocalSafe
  <2>6. StoreTypeOK'
    <3>1. view \in Index /\ expected' \in Index
      BY <1>2, <2>1, IdleSafe DEF StoreInv, StoreTypeOK, Index
    <3> QED BY <2>1, <2>3, <3>1 DEF StoreInv, StoreTypeOK, Goto
  <2>7. RemoteInv' BY <2>1 DEF StoreInv, RemoteInv
  <2>8. job' = [job EXCEPT ![p] = j] BY <2>1 DEF Goto
  <2> QED BY <1>1, <2>1, <2>3, <2>4, <2>5, <2>6, <2>7, <2>8, Step
<1> QED BY <1>3, <1>4

\* What is below the tagged roots stays closed when the rest is removed.
LEMMA GCSafe ==
  ASSUME StoreInv, NEW p \in Procs, GC(p)
  PROVE  StoreInv'
<1> DEFINE old == job[p]
           reached == ReachableIn(old.view, blobs)
           garbage == blobs \ reached
<1>1. /\ old \in Job /\ old.pc = "gc" /\ old.cmd.op = "rm"
      /\ Finish(p, "ok")
      /\ UNCHANGED <<index, expected, remoteTags, remoteBlobs>>
  <2>1. old \in Job /\ old.pc = "gc" /\ Shape(old)
    BY DEF GC, StoreInv, StoreTypeOK
  <2> QED BY <2>1 DEF Shape, GC, remote
<1>2. PICK removed \in SUBSET garbage :
        blobs' = blobs \ removed /\ kept' = (kept /\ removed = garbage)
  BY Zenon DEF GC
<1>3. job' = [job EXCEPT ![p] = Idle] /\ job'[p] = Idle
      /\ \A q \in Procs \ {p} : job'[q] = job[q]
  BY <1>1 DEF Finish, StoreInv, StoreTypeOK
<1>4. StoreTypeOK'
  <2>1. old.cmd \in Commands \union {NoCommand} /\ old.out \in Seq(Blobs) BY <1>1 DEF Job
  <2>2. kept' \in BOOLEAN BY <1>2
  <2>3. blobs' \in SUBSET Blobs BY <1>2 DEF StoreInv, StoreTypeOK
  <2> QED BY <1>1, <1>3, <2>1, <2>2, <2>3, IdleSafe DEF StoreInv, StoreTypeOK, Finish
<1>5. RemoteInv' BY <1>1 DEF StoreInv, RemoteInv
<1>6. ASSUME NEW q \in Procs PROVE Shape(job'[q]) /\ PushSafe(job'[q], remoteBlobs')
  <2>1. CASE q = p BY <2>1, <1>3, IdleSafe
  <2>2. CASE q # p BY <2>2, <1>1, <1>3 DEF StoreInv
  <2> QED BY <2>1, <2>2
<1>7. ASSUME kept' PROVE LocalInv'
  <2>1. LocalInv BY <1>2, <1>7 DEF StoreInv
  <2>2. /\ index = old.view /\ \A q \in Procs \ {p} : job[q].pc = "idle"
    BY <1>1, <2>1 DEF LocalInv, RmAlone
  <2>3. \A q \in Procs : job'[q] = Idle
    BY <1>3, <2>2 DEF StoreInv, Shape
  <2>4. blobs' = blobs \intersect reached BY <1>2, <1>7
  <2> DEFINE tops == {index[t] : t \in Tags} \intersect blobs
             below(S) == S \union (blobs \intersect UNION {Range(Successors(b)) : b \in S})
  <2>5. reached = below(below(tops)) /\ reached \subseteq blobs
    BY <2>2 DEF ReachableIn
  <2>6. blobs' = reached BY <2>4, <2>5
  <2> HIDE DEF reached
  <2>7. /\ tops \subseteq below(tops) /\ below(tops) \subseteq reached
        /\ \A b \in tops : Range(Successors(b)) \intersect blobs \subseteq below(tops)
        /\ \A b \in below(tops) : Range(Successors(b)) \intersect blobs \subseteq reached
    BY <2>5
  <2>8. AllWhole(index, reached)
    <3> SUFFICES ASSUME NEW t \in Tags, index[t] # NoRoot PROVE Whole(index[t], reached)
      BY DEF AllWhole
    <3> DEFINE root == index[t]
    <3>1. root \in Roots /\ root \in blobs /\ HasImage(root, blobs)
      BY <2>1 DEF LocalInv, AllWhole, Whole, StoreInv, StoreTypeOK, Index
    <3>2. PICK a \in Range(root.archs) : Manifest(a) \in blobs BY <3>1 DEF HasImage
    <3>3. root \in Blobs /\ root.kind = "index" BY <3>1 DEF Roots, Blobs
    <3>4. Manifest(a) \in Range(Successors(root))
      BY <3>2, <3>3, SuccessorsBelow DEF Range
    <3>5. root \in tops BY <3>1
    <3> HIDE DEF root, tops, below
    <3>6. root \in reached /\ Manifest(a) \in reached BY <3>2, <3>4, <3>5, <2>7
    <3> QED BY <3>2, <3>6 DEF Whole, HasImage, root
  <2>9. Closed(reached, {"manifest"})
    <3> SUFFICES ASSUME NEW m \in reached, m.kind = "manifest"
                 PROVE  Range(Successors(m)) \subseteq reached
      BY DEF Closed
    <3>1. m \in blobs /\ Range(Successors(m)) \subseteq blobs
      BY <2>1, <2>5 DEF LocalInv, Closed
    <3>2. m \in below(tops)
      <4>1. CASE m \in below(tops) BY <4>1
      <4>2. CASE m \notin below(tops)
        \* Only a root lists a manifest, and only a tag names a root.
        <5>1. PICK b \in below(tops) : m \in Range(Successors(b)) BY <4>2, <2>5
        <5>2. b \in Blobs /\ m \in Blobs BY <3>1, <5>1 DEF StoreInv, StoreTypeOK
        <5>3. Level(b) = 2
          <6>1. Level(m) = 1 BY DEF Level
          <6>2. Level(m) = Level(b) - 1 /\ Level(b) \in Nat BY <5>1, <5>2, SuccessorsBelow
          <6> QED BY <6>1, <6>2
        <5>4. b \in tops
          <6> SUFFICES ASSUME b \notin tops PROVE FALSE
            OBVIOUS
          <6>1. PICK c \in tops : b \in Range(Successors(c)) BY <5>1
          <6>2. c \in Blobs /\ Level(b) = Level(c) - 1
            BY <6>1, SuccessorsBelow DEF StoreInv, StoreTypeOK
          <6>3. Level(c) \in {0, 1, 2} BY <6>2, BlobForms DEF Level
          <6> QED BY <6>2, <6>3, <5>3
        <5> HIDE DEF tops, below
        <5> QED BY <4>2, <5>1, <5>4, <3>1, <2>7
      <4> QED BY <4>1, <4>2
    <3> HIDE DEF tops, below
    <3> QED BY <3>1, <3>2, <2>7
  <2>10. RmAlone' BY <2>3, IdleSafe DEF RmAlone
  <2>11. \A q \in Procs : LocalSafe(job'[q], blobs') BY <2>3, IdleSafe
  <2> QED BY <1>1, <2>6, <2>8, <2>9, <2>10, <2>11 DEF LocalInv
<1> QED BY <1>4, <1>5, <1>6, <1>7 DEF StoreInv

LEMMA StepSafe == StoreInv /\ [StoreNext]_storeVars => StoreInv'
<1> SUFFICES ASSUME StoreInv, [StoreNext]_storeVars PROVE StoreInv'
  OBVIOUS
<1>1. CASE UNCHANGED storeVars
  BY <1>1 DEF storeVars, StoreInv, StoreTypeOK, RemoteInv, LocalInv, RmAlone
<1>2. CASE StoreNext
  <2> PICK p \in Procs :
        \/ \E cmd \in Commands : Start(p, cmd)
        \/ Abort(p) \/ Resolve(p) \/ Pull(p) \/ Visit(p) \/ Tag(p)
        \/ ReadManifest(p) \/ ReadLayer(p) \/ Untag(p) \/ GC(p)
    BY <1>2 DEF StoreNext
  <2>1. CASE \E cmd \in Commands : Start(p, cmd) BY <2>1, StartSafe
  <2>2. CASE Abort(p) BY <2>2, QuietFinish DEF Abort
  <2>3. CASE Resolve(p) BY <2>3, ResolveSafe
  <2>4. CASE Pull(p) BY <2>4, PullSafe
  <2>5. CASE Visit(p) BY <2>5, VisitRemote, VisitLocal
  <2>6. CASE Tag(p) BY <2>6, TagSafe
  <2>7. CASE ReadManifest(p) \/ ReadLayer(p) BY <2>7, ReadSafe
  <2>8. CASE Untag(p) BY <2>8, UntagSafe
  <2>9. CASE GC(p) BY <2>9, GCSafe
  <2> QED BY <2>1, <2>2, <2>3, <2>4, <2>5, <2>6, <2>7, <2>8, <2>9
<1> QED BY <1>1, <1>2

-----------------------------------------------------------------------------
(* Commands that run one after the other.                                  *)

\* The process at work, if any, knows index.json as it is.
SoloInv ==
  alone =>
    /\ \A p, q \in Procs : job[p].pc # "idle" /\ job[q].pc # "idle" => p = q
    /\ \A p \in Procs : job[p].pc # "idle" => job[p].view = index
    /\ index = expected
    /\ kept /\ done.cmd.op = "rm" /\ done.result = "ok" =>
         /\ \A p \in Procs : job[p].pc = "idle"
         /\ blobs = ReachableIn(index, blobs)

\* What a collection leaves, another one leaves as well.
LEMMA ReachableAgain ==
  ASSUME NEW tags, NEW store
  PROVE  LET reached == ReachableIn(tags, store)
         IN  ReachableIn(tags, reached) = reached
<1> DEFINE reached == ReachableIn(tags, store)
           tops == {tags[t] : t \in Tags} \intersect store
           next(S) == UNION {Range(Successors(b)) : b \in S}
           one == tops \union (store \intersect next(tops))
<1>1. reached = one \union (store \intersect next(one))
  BY DEF ReachableIn
<1>2. ReachableIn(tags, reached) =
        LET again == {tags[t] : t \in Tags} \intersect reached
            first == again \union (reached \intersect next(again))
        IN  first \union (reached \intersect next(first))
  BY DEF ReachableIn
<1> HIDE DEF next, reached
<1>3. {tags[t] : t \in Tags} \intersect reached = tops BY <1>1
<1>4. reached \intersect next(tops) = store \intersect next(tops)
  <2>1. store \intersect next(tops) \subseteq reached BY <1>1
  <2>2. reached \subseteq store BY <1>1
  <2> QED BY <2>1, <2>2
<1>5. reached \intersect next(one) = store \intersect next(one)
  <2>1. store \intersect next(one) \subseteq reached BY <1>1
  <2>2. reached \subseteq store BY <1>1
  <2> QED BY <2>1, <2>2
<1> HIDE DEF tops
<1> QED BY <1>1, <1>2, <1>3, <1>4, <1>5 DEF reached

\* A step of the process at work, which has the index or has ended after it.
LEMMA SoloStep ==
  ASSUME StoreInv, SoloInv, NEW p \in Procs, NEW j,
         job[p].pc # "idle", job' = [job EXCEPT ![p] = j], alone' = alone, kept' => kept,
         alone => index' = expected' /\ (j.pc # "idle" => j.view = index'),
         \/ done' = done
         \/ done'.cmd.op # "rm" \/ done'.result # "ok"
         \/ alone /\ kept' => j.pc = "idle" /\ blobs' = ReachableIn(index', blobs')
  PROVE  SoloInv'
<1>1. job'[p] = j /\ \A q \in Procs \ {p} : job'[q] = job[q]
  BY DEF StoreInv, StoreTypeOK
<1> SUFFICES ASSUME alone
             PROVE  /\ \A q, r \in Procs : job'[q].pc # "idle" /\ job'[r].pc # "idle" => q = r
                    /\ \A q \in Procs : job'[q].pc # "idle" => job'[q].view = index'
                    /\ index' = expected'
                    /\ kept' /\ done'.cmd.op = "rm" /\ done'.result = "ok" =>
                         /\ \A q \in Procs : job'[q].pc = "idle"
                         /\ blobs' = ReachableIn(index', blobs')
  BY DEF SoloInv, ReachableIn
<1>2. \A q \in Procs \ {p} : job'[q].pc = "idle" BY <1>1 DEF SoloInv
<1>3. kept => ~(done.cmd.op = "rm" /\ done.result = "ok") BY DEF SoloInv
<1> QED BY <1>1, <1>2, <1>3

LEMMA SoloNext == StoreInv /\ SoloInv /\ [StoreNext]_storeVars => SoloInv'
<1> SUFFICES ASSUME StoreInv, SoloInv, [StoreNext]_storeVars PROVE SoloInv'
  OBVIOUS
<1>1. CASE UNCHANGED storeVars
  BY <1>1 DEF storeVars, SoloInv, ReachableIn
<1>2. CASE StoreNext
  <2> PICK p \in Procs :
        \/ \E cmd \in Commands : Start(p, cmd)
        \/ Abort(p) \/ Resolve(p) \/ Pull(p) \/ Visit(p) \/ Tag(p)
        \/ ReadManifest(p) \/ ReadLayer(p) \/ Untag(p) \/ GC(p)
    BY <1>2 DEF StoreNext
  <2> DEFINE old == job[p]
  <2>1. CASE \E cmd \in Commands : Start(p, cmd)
    <3> PICK cmd \in Commands : Start(p, cmd) BY <2>1
    <3>1. /\ job[p].pc = "idle" /\ UNCHANGED <<index, blobs, expected>>
          /\ job'[p].view = index /\ \A q \in Procs \ {p} : job'[q] = job[q]
          /\ done'.result = "none"
      BY DEF Start, localGetter, StoreInv, StoreTypeOK
    <3>2. alone' => alone /\ \A q \in Procs : job[q].pc = "idle"
      <4>1. alone' = (alone /\ {q \in Procs : job[q].pc # "idle"} = {}) BY Zenon DEF Start
      <4> QED BY <4>1
    <3> QED BY <3>1, <3>2 DEF SoloInv
  <2>2. ASSUME NEW result \in {"ok", "error", "aborted"}, Finish(p, result),
               UNCHANGED <<local, remote>>, old.pc # "idle",
               result = "ok" => old.cmd.op # "rm"
        PROVE  SoloInv'
    <3>1. /\ job' = [job EXCEPT ![p] = Idle] /\ alone' = alone /\ kept' = kept
          /\ done'.cmd = old.cmd /\ done'.result = result /\ index' = index /\ expected' = expected
      BY <2>2 DEF Finish, local
    <3> QED BY <2>2, <3>1, IdleSafe, SoloStep DEF SoloInv
  <2>3. ASSUME NEW j, Goto(p, j), UNCHANGED <<local, remote>>, old.pc # "idle", j.view = old.view
        PROVE  SoloInv'
    <3>1. /\ job' = [job EXCEPT ![p] = j] /\ alone' = alone /\ kept' = kept /\ done' = done
          /\ index' = index /\ expected' = expected
      BY <2>3 DEF Goto, local
    <3> QED BY <2>3, <3>1, SoloStep DEF SoloInv
  <2>4. old \in Job /\ Shape(old) BY DEF StoreInv, StoreTypeOK
  <2>5. CASE Abort(p) BY <2>5, <2>2 DEF Abort
  <2>6. CASE Resolve(p)
    <3>1. old.pc = "resolve" /\ old.cmd.op \in {"tag", "push", "get"} /\ UNCHANGED <<local, remote>>
      BY <2>4, <2>6 DEF Resolve, Shape
    <3>2. Finish(p, "error") \/ \E j : Goto(p, j) /\ j.view = old.view
      <4> DEFINE root == old.view[Head(old.refs)]
      <4>1. CASE old.cmd.op = "get"
        <5>1. PICK next \in {"manifest", "pull"} : Goto(p, [old EXCEPT !.pc = next])
          BY <4>1, <2>6 DEF Resolve
        <5>2. [old EXCEPT !.pc = next].view = old.view BY <2>4 DEF Job
        <5> QED BY <5>1, <5>2
      <4>2. CASE old.cmd.op # "get" /\ root = NoRoot
        BY <4>2, <2>6 DEF Resolve
      <4>3. CASE old.cmd.op = "tag" /\ root # NoRoot
        <5> DEFINE j == [old EXCEPT !.pc = "tag", !.refs = Tail(@), !.root = root]
        <5>1. Goto(p, j) BY <4>3, <2>6 DEF Resolve
        <5>2. j.view = old.view BY <2>4 DEF Job
        <5> QED BY <5>1, <5>2
      <4>4. CASE old.cmd.op = "push" /\ root # NoRoot
        <5> DEFINE j == [old EXCEPT !.pc = "copy", !.todo = <<root>>, !.root = root]
        <5>1. Goto(p, j) BY <4>4, <2>6 DEF Resolve
        <5>2. j.view = old.view BY <2>4 DEF Job
        <5> QED BY <5>1, <5>2
      <4> QED BY <3>1, <4>1, <4>2, <4>3, <4>4
    <3> QED BY <3>1, <3>2, <2>2, <2>3
  <2>7. CASE Pull(p)
    <3> DEFINE root == remoteTags[Head(old.refs)]
               j == [old EXCEPT !.pc = "copy", !.root = root, !.expanded = {root},
                                !.todo = <<Manifest(old.cmd.arch), root>>]
    <3>1. old.pc = "pull" /\ UNCHANGED <<local, remote>> /\ (Finish(p, "error") \/ Goto(p, j))
      BY <2>7 DEF Pull
    <3>2. j.view = old.view BY <2>4 DEF Job
    <3> HIDE DEF j
    <3> QED BY <3>1, <3>2, <2>2, <2>3
  <2>8. CASE Visit(p)
    <3> DEFINE b == Head(old.todo)
    <3>1. old.pc = "copy" BY <2>8 DEF Visit
    <3>2. CASE Fails(p) BY <3>1, <3>2, <2>2 DEF Fails
    <3>3. CASE AtSource(p, b) /\ Descends(p, b)
      <4> DEFINE j == [old EXCEPT !.todo = Successors(b) \o @, !.expanded = @ \union {b}]
      <4>1. Goto(p, j) /\ UNCHANGED <<local, remote>> BY <2>8, <3>3 DEF Visit
      <4>2. j.view = old.view BY <2>4 DEF Job
      <4> HIDE DEF j
      <4> QED BY <3>1, <4>1, <4>2, <2>3
    <3>4. CASE ~Fails(p) /\ ~(AtSource(p, b) /\ Descends(p, b))
      <4> DEFINE j == [old EXCEPT !.todo = Tail(@), !.pc = AfterCopy(p)]
      <4>1. Goto(p, j) /\ Stored(p, b) BY <2>8, <3>4 DEF Visit
      <4>2. j.view = old.view BY <2>4 DEF Job
      <4> HIDE DEF j
      <4>3. index' \in {index, old.view} /\ UNCHANGED <<expected, kept>>
        BY <4>1 DEF Stored, local
      <4>4. job' = [job EXCEPT ![p] = j] /\ alone' = alone /\ done' = done BY <4>1 DEF Goto
      <4> QED BY <3>1, <4>2, <4>3, <4>4, SoloStep DEF SoloInv
    <3> QED BY <3>2, <3>3, <3>4
  <2>9. CASE Tag(p)
    <3>1. old.pc = "tag" /\ old.cmd.op # "rm" BY <2>4, <2>9 DEF Tag, Shape
    <3>2. CASE ToRemote(p) BY <2>9, <3>1, <3>2, <2>2 DEF Tag
    <3>3. CASE ~ToRemote(p) /\ old.root \notin blobs
      BY <2>9, <3>1, <3>3, <2>2 DEF Tag, Fails
    <3>4. CASE ~ToRemote(p) /\ old.root \in blobs
      <4> DEFINE ref == Head(old.refs)
                 left == Tail(old.refs)
                 view == [old.view EXCEPT ![ref] = old.root]
                 last == left = <<>> /\ old.cmd.op # "get"
                 on == [old EXCEPT !.view = view, !.refs = left,
                                   !.pc = IF left = <<>> THEN "manifest" ELSE "tag"]
                 j == IF last THEN Idle ELSE on
      <4>1. /\ index' = view /\ expected' = [expected EXCEPT ![ref] = old.root]
            /\ IF last THEN Finish(p, "ok") ELSE Goto(p, on)
            /\ kept' = kept
        BY <2>9, <3>4 DEF Tag
      <4>2. on.view = view BY <2>4 DEF Job
      <4> HIDE DEF on
      <4>3. alone => index' = expected' BY <3>1, <4>1 DEF SoloInv
      <4> HIDE DEF view
      <4>4. /\ job' = [job EXCEPT ![p] = j] /\ alone' = alone
            /\ done' = done \/ done'.cmd.op # "rm"
            /\ j.pc # "idle" => j.view = index'
        <5>1. CASE last BY <5>1, <3>1, <4>1, IdleSafe DEF Finish
        <5>2. CASE ~last BY <5>2, <4>1, <4>2 DEF Goto
        <5> QED BY <5>1, <5>2
      <4> HIDE DEF j, last
      <4> QED BY <3>1, <4>1, <4>3, <4>4, SoloStep
    <3> QED BY <3>2, <3>3, <3>4
  <2>10. CASE ReadManifest(p)
    <3> DEFINE j == [old EXCEPT !.pc = "layer", !.out = Successors(Manifest(old.cmd.arch))]
    <3>1. old.pc = "manifest" /\ UNCHANGED <<local, remote>> /\ (Finish(p, "error") \/ Goto(p, j))
      BY <2>10 DEF ReadManifest
    <3>2. j.view = old.view BY <2>4 DEF Job
    <3> HIDE DEF j
    <3> QED BY <3>1, <3>2, <2>2, <2>3
  <2>11. CASE ReadLayer(p)
    <3>1. old.cmd.op # "rm" BY <2>4, <2>11 DEF ReadLayer, Shape
    <3> QED BY <2>11, <3>1, <2>2 DEF ReadLayer
  <2>12. CASE Untag(p)
    <3> DEFINE ref == Head(old.refs)
               view == [old.view EXCEPT ![ref] = NoRoot]
               j == [old EXCEPT !.view = view, !.refs = Tail(@),
                                !.pc = IF Tail(old.refs) = <<>> THEN "gc" ELSE "untag"]
    <3>1. old.pc = "untag" BY <2>12 DEF Untag
    <3>2. CASE Fails(p) BY <3>1, <3>2, <2>2 DEF Fails
    <3>3. CASE ~Fails(p)
      <4>1. /\ index' = view /\ expected' = [expected EXCEPT ![ref] = NoRoot]
            /\ Goto(p, j) /\ kept' = kept
        BY <2>12, <3>3 DEF Untag
      <4>2. j.view = view BY <2>4 DEF Job
      <4> HIDE DEF j
      <4>3. alone => index' = expected' BY <3>1, <4>1 DEF SoloInv
      <4>4. job' = [job EXCEPT ![p] = j] /\ alone' = alone /\ done' = done BY <4>1 DEF Goto
      <4> QED BY <3>1, <4>1, <4>2, <4>3, <4>4, SoloStep
    <3> QED BY <3>2, <3>3
  <2>13. CASE GC(p)
    <3> DEFINE reached == ReachableIn(old.view, blobs)
               garbage == blobs \ reached
    <3>1. /\ old.pc = "gc" /\ Finish(p, "ok") /\ index' = index /\ expected' = expected
      BY <2>13 DEF GC
    <3>2. PICK removed \in SUBSET garbage :
            blobs' = blobs \ removed /\ kept' = (kept /\ removed = garbage)
      BY <2>13, Zenon DEF GC
    <3>3. job' = [job EXCEPT ![p] = Idle] /\ alone' = alone BY <3>1 DEF Finish
    <3>4. reached \subseteq blobs BY DEF ReachableIn
    <3>5. ReachableIn(old.view, reached) = reached BY ReachableAgain
    <3> HIDE DEF reached
    <3>6. kept' => blobs' = reached /\ kept BY <3>2, <3>4
    <3>7. alone => old.view = index BY <3>1 DEF SoloInv
    <3>8. alone /\ kept' => blobs' = ReachableIn(index', blobs')
      BY <3>1, <3>5, <3>6, <3>7
    <3>9. alone => index' = expected' BY <3>1 DEF SoloInv
    <3> QED BY <3>1, <3>3, <3>6, <3>8, <3>9, IdleSafe, SoloStep
  <2> QED BY <2>1, <2>5, <2>6, <2>7, <2>8, <2>9, <2>10, <2>11, <2>12, <2>13
<1> QED BY <1>1, <1>2

-----------------------------------------------------------------------------
(* get kernel, run alone.                                                  *)

\* What a get relies on, phase by phase.  It starts with the reference that it was
\* given; it pulls only what the layout cannot serve; it copies nothing but what
\* the registry has, the manifest that it wants among it; it tags the root that it
\* has copied with the reference, and reads what the reference names from then on.
GetKnows(j, store, registry) ==
  LET ref == Head(j.cmd.refs)
      arch == j.cmd.arch
  IN  /\ j.pc \in {"resolve", "pull", "copy"} => j.refs = j.cmd.refs
      /\ j.pc = "pull" => ~Resolved(j.view[ref], arch, store)
      /\ j.pc = "copy" => /\ Lists(j.root, arch) /\ Range(j.todo) \subseteq registry
                          /\ Manifest(arch) \in store \union Range(j.todo)
      /\ j.pc = "tag" => /\ Lists(j.root, arch) /\ {j.root, Manifest(arch)} \subseteq store
                         /\ j.refs = j.cmd.refs \/ j.view[ref] = j.root
      /\ j.pc \in {"manifest", "layer"} =>
           Lists(j.view[ref], arch) /\ Manifest(arch) \in store
      /\ j.pc = "layer" => j.out = <<Layer(arch)>>

\* Nothing has changed yet when a get has just ended.
GetInv ==
  alone /\ kept =>
    /\ \A p \in Procs : job[p].cmd.op = "get" => GetKnows(job[p], blobs, remoteBlobs)
    /\ done.cmd.op = "get" => \A p \in Procs : job[p].pc = "idle"

\* The process at work takes a step, after which it knows what it has to; if a get
\* has ended, it has served.
LEMMA GetStep ==
  ASSUME StoreInv, SoloInv, GetInv, NEW p \in Procs, NEW j,
         job[p].pc # "idle", job' = [job EXCEPT ![p] = j], alone' = alone, kept' => kept,
         alone /\ kept' => (j.cmd.op = "get" => GetKnows(j, blobs', remoteBlobs')),
         \/ done' = done
         \/ done'.cmd.op # "get"
         \/ j.pc = "idle" /\ GetServes'
  PROVE  GetInv' /\ GetServes'
<1>1. job'[p] = j /\ \A q \in Procs \ {p} : job'[q] = job[q]
  BY DEF StoreInv, StoreTypeOK
<1>2. ASSUME alone, NEW q \in Procs \ {p} PROVE job'[q] = Idle
  <2>1. job[q].pc = "idle" BY <1>2 DEF SoloInv
  <2> QED BY <1>1, <2>1 DEF StoreInv, Shape
<1>3. alone /\ kept' /\ done' = done => done'.cmd.op # "get"
  BY DEF GetInv
<1>4. GetServes'
  BY <1>3 DEF GetServes
<1>5. ASSUME alone, kept'
      PROVE  /\ \A q \in Procs : job'[q].cmd.op = "get" => GetKnows(job'[q], blobs', remoteBlobs')
             /\ done'.cmd.op = "get" => \A q \in Procs : job'[q].pc = "idle"
  <2>1. ASSUME NEW q \in Procs, job'[q].cmd.op = "get"
        PROVE  GetKnows(job'[q], blobs', remoteBlobs')
    <3>1. q = p BY <1>2, <1>5, <2>1, IdleSafe
    <3> QED BY <1>1, <1>5, <2>1, <3>1
  <2>2. ASSUME done'.cmd.op = "get" PROVE \A q \in Procs : job'[q].pc = "idle"
    <3>1. j.pc = "idle" BY <1>3, <1>5, <2>2
    <3> QED BY <1>1, <1>2, <1>5, <3>1, IdleSafe
  <2> QED BY <2>1, <2>2
<1>6. GetInv' BY <1>5 DEF GetInv, GetKnows, Resolved
<1> QED BY <1>4, <1>6

\* A command begins: if it is alone, no get is under way but itself.
LEMMA GetStart ==
  ASSUME StoreInv, NEW p \in Procs, NEW cmd \in Commands, Start(p, cmd)
  PROVE  GetInv' /\ GetServes'
<1> DEFINE others == {q \in Procs : job[q].pc # "idle"}
<1>1. /\ job[p].pc = "idle" /\ done'.cmd = NoCommand
      /\ job'[p].cmd = cmd /\ job'[p].refs = cmd.refs /\ job'[p].pc = FirstStep[cmd.op]
      /\ \A q \in Procs \ {p} : job'[q] = job[q]
  BY DEF Start, StoreInv, StoreTypeOK
<1>2. NoCommand.op = "none" BY DEF NoCommand
<1>3. alone' => others = {}
  <2>1. alone' = (alone /\ others = {}) BY Zenon DEF Start
  <2> QED BY <2>1
<1>4. ASSUME alone', NEW q \in Procs, job'[q].cmd.op = "get"
      PROVE  GetKnows(job'[q], blobs', remoteBlobs')
  <2>1. q = p
    <3>1. job[q] = Idle BY <1>3, <1>4 DEF StoreInv, Shape
    <3> QED BY <1>1, <1>4, <3>1, IdleSafe
  <2>2. job'[q].pc = "resolve" /\ job'[q].refs = job'[q].cmd.refs
    BY <1>1, <1>4, <2>1 DEF FirstStep
  <2> QED BY <2>2 DEF GetKnows
<1>5. GetInv' BY <1>1, <1>2, <1>4 DEF GetInv, GetKnows, Resolved
<1>6. GetServes' BY <1>1, <1>2 DEF GetServes
<1> QED BY <1>5, <1>6

\* Every other step is one of a process at work, which goes on with its command or
\* ends it.
LEMMA WorkingStep ==
  ASSUME StoreInv, NEW p \in Procs,
         \/ Abort(p) \/ Resolve(p) \/ Pull(p) \/ Visit(p) \/ Tag(p)
         \/ ReadManifest(p) \/ ReadLayer(p) \/ Untag(p) \/ GC(p)
  PROVE  /\ job[p].pc # "idle" /\ alone' = alone /\ (kept' => kept)
         /\ \E j : /\ job' = [job EXCEPT ![p] = j]
                   /\ \/ j.cmd = job[p].cmd /\ done' = done
                      \/ j = Idle /\ done'.cmd = job[p].cmd
<1> DEFINE old == job[p]
           Works == \E j : /\ job' = [job EXCEPT ![p] = j]
                           /\ \/ j.cmd = old.cmd /\ done' = done
                              \/ j = Idle /\ done'.cmd = old.cmd
<1>1. old \in Job BY DEF StoreInv, StoreTypeOK
<1>2. ASSUME NEW result, Finish(p, result) PROVE alone' = alone /\ Works
  BY <1>2 DEF Finish
<1>3. ASSUME NEW j, Goto(p, j), j.cmd = old.cmd PROVE alone' = alone /\ Works
  BY <1>3 DEF Goto
<1> HIDE DEF Works
<1>4. CASE Abort(p) BY <1>4, <1>2 DEF Abort, local, Works
<1>5. CASE Resolve(p)
  <2> DEFINE root == old.view[Head(old.refs)]
  <2>1. old.pc = "resolve" /\ kept' = kept BY <1>5 DEF Resolve, local
  <2>2. old.cmd.op \in {"tag", "push", "get"} BY <2>1 DEF StoreInv, Shape
  <2>3. CASE old.cmd.op = "get"
    <3>1. PICK next \in {"manifest", "pull"} : Goto(p, [old EXCEPT !.pc = next])
      BY <2>3, <1>5 DEF Resolve
    <3>2. [old EXCEPT !.pc = next].cmd = old.cmd BY <1>1 DEF Job
    <3> QED BY <2>1, <3>1, <3>2, <1>3 DEF Works
  <2>4. CASE old.cmd.op # "get" /\ root = NoRoot
    <3>1. Finish(p, "error") BY <2>4, <1>5 DEF Resolve
    <3> QED BY <2>1, <3>1, <1>2 DEF Works
  <2>5. CASE old.cmd.op = "tag" /\ root # NoRoot
    <3> DEFINE j == [old EXCEPT !.pc = "tag", !.refs = Tail(@), !.root = root]
    <3>1. Goto(p, j) BY <2>5, <1>5 DEF Resolve
    <3>2. j.cmd = old.cmd BY <1>1 DEF Job
    <3> HIDE DEF j
    <3> QED BY <2>1, <3>1, <3>2, <1>3 DEF Works
  <2>6. CASE old.cmd.op = "push" /\ root # NoRoot
    <3> DEFINE j == [old EXCEPT !.pc = "copy", !.todo = <<root>>, !.root = root]
    <3>1. Goto(p, j) BY <2>6, <1>5 DEF Resolve
    <3>2. j.cmd = old.cmd BY <1>1 DEF Job
    <3> HIDE DEF j
    <3> QED BY <2>1, <3>1, <3>2, <1>3 DEF Works
  <2> QED BY <2>2, <2>3, <2>4, <2>5, <2>6
<1>6. CASE Pull(p)
  <2> DEFINE root == remoteTags[Head(old.refs)]
             j == [old EXCEPT !.pc = "copy", !.root = root, !.expanded = {root},
                              !.todo = <<Manifest(old.cmd.arch), root>>]
  <2>1. old.pc = "pull" /\ kept' = kept /\ (Finish(p, "error") \/ Goto(p, j))
    BY <1>6 DEF Pull, local
  <2>2. j.cmd = old.cmd BY <1>1 DEF Job
  <2> HIDE DEF j
  <2> QED BY <2>1, <2>2, <1>2, <1>3 DEF Works
<1>7. CASE Visit(p)
  <2> DEFINE b == Head(old.todo)
             more == [old EXCEPT !.todo = Successors(b) \o @, !.expanded = @ \union {b}]
             less == [old EXCEPT !.todo = Tail(@), !.pc = AfterCopy(p)]
  <2>1. old.pc = "copy" /\ kept' = kept /\ (Finish(p, "error") \/ Goto(p, more) \/ Goto(p, less))
    BY <1>7 DEF Visit, Fails, Stored, local
  <2>2. more.cmd = old.cmd /\ less.cmd = old.cmd BY <1>1 DEF Job
  <2> HIDE DEF more, less
  <2> QED BY <2>1, <2>2, <1>2, <1>3 DEF Works
<1>8. CASE Tag(p)
  <2> DEFINE left == Tail(old.refs)
             view == [old.view EXCEPT ![Head(old.refs)] = old.root]
             j == [old EXCEPT !.view = view, !.refs = left,
                              !.pc = IF left = <<>> THEN "manifest" ELSE "tag"]
  <2>1. /\ old.pc = "tag" /\ kept' = kept
        /\ (\E result \in {"ok", "error"} : Finish(p, result)) \/ Goto(p, j)
    BY <1>8 DEF Tag, Fails, local
  <2>2. j.cmd = old.cmd BY <1>1 DEF Job
  <2> HIDE DEF j
  <2> QED BY <2>1, <2>2, <1>2, <1>3 DEF Works
<1>9. CASE ReadManifest(p)
  <2> DEFINE j == [old EXCEPT !.pc = "layer", !.out = Successors(Manifest(old.cmd.arch))]
  <2>1. old.pc = "manifest" /\ kept' = kept /\ (Finish(p, "error") \/ Goto(p, j))
    BY <1>9 DEF ReadManifest, local
  <2>2. j.cmd = old.cmd BY <1>1 DEF Job
  <2> HIDE DEF j
  <2> QED BY <2>1, <2>2, <1>2, <1>3 DEF Works
<1>10. CASE ReadLayer(p)
  BY <1>10, <1>2 DEF ReadLayer, local, Works
<1>11. CASE Untag(p)
  <2> DEFINE view == [old.view EXCEPT ![Head(old.refs)] = NoRoot]
             j == [old EXCEPT !.view = view, !.refs = Tail(@),
                              !.pc = IF Tail(old.refs) = <<>> THEN "gc" ELSE "untag"]
  <2>1. old.pc = "untag" /\ kept' = kept /\ (Finish(p, "error") \/ Goto(p, j))
    BY <1>11 DEF Untag, Fails, local
  <2>2. j.cmd = old.cmd BY <1>1 DEF Job
  <2> HIDE DEF j
  <2> QED BY <2>1, <2>2, <1>2, <1>3 DEF Works
<1>12. CASE GC(p)
  <2>1. old.pc = "gc" /\ Finish(p, "ok") BY <1>12 DEF GC
  <2>2. kept' => kept
    <3>1. \E full \in BOOLEAN : kept' = (kept /\ full) BY <1>12, Zenon DEF GC
    <3> QED BY <3>1
  <2> QED BY <2>1, <2>2, <1>2 DEF Works
<1> QED BY <1>4, <1>5, <1>6, <1>7, <1>8, <1>9, <1>10, <1>11, <1>12 DEF Works

\* The process at work does not get: it disturbs no get, and ends none.
LEMMA OtherStep ==
  ASSUME StoreInv, SoloInv, GetInv, NEW p \in Procs, job[p].cmd.op # "get",
         \/ Abort(p) \/ Resolve(p) \/ Pull(p) \/ Visit(p) \/ Tag(p)
         \/ ReadManifest(p) \/ ReadLayer(p) \/ Untag(p) \/ GC(p)
  PROVE  GetInv' /\ GetServes'
<1>1. /\ job[p].pc # "idle" /\ alone' = alone /\ (kept' => kept)
      /\ \E j : /\ job' = [job EXCEPT ![p] = j]
                /\ \/ j.cmd = job[p].cmd /\ done' = done
                   \/ j = Idle /\ done'.cmd = job[p].cmd
  BY WorkingStep
<1>2. PICK j : /\ job' = [job EXCEPT ![p] = j]
               /\ \/ j.cmd = job[p].cmd /\ done' = done
                  \/ j = Idle /\ done'.cmd = job[p].cmd
  BY <1>1
<1>3. j.cmd.op # "get" BY <1>2, IdleSafe
<1>4. done' = done \/ done'.cmd.op # "get" BY <1>2
<1> QED BY <1>1, <1>2, <1>3, <1>4, GetStep

\* A get that is alone finds the layout and the registry whole, and its index is
\* that of the layout.
LEMMA GetSees ==
  ASSUME StoreInv, SoloInv, GetInv, NEW p \in Procs, job[p].cmd.op = "get", alone, kept
  PROVE  LET j == job[p]
             ref == Head(j.cmd.refs)
         IN  /\ j \in Job /\ j.pc \in {"resolve", "pull", "copy", "tag", "manifest", "layer"}
             /\ j.view = index /\ ref \in Tags
             /\ GetKnows(j, blobs, remoteBlobs)
             /\ index[ref] \in Roots \union {NoRoot} /\ remoteTags[ref] \in Roots \union {NoRoot}
             /\ index[ref] # NoRoot => index[ref] \in blobs
             /\ remoteTags[ref] # NoRoot => remoteTags[ref] \in remoteBlobs
<1>1. /\ job[p] \in Job /\ Shape(job[p]) /\ index \in Index /\ remoteTags \in Index
      /\ AllWhole(index, blobs) /\ \A t \in Tags : remoteTags[t] # NoRoot => remoteTags[t] \in remoteBlobs
  BY DEF StoreInv, StoreTypeOK, LocalInv, RemoteInv
<1>2. job[p].pc # "idle" BY <1>1, IdleSafe DEF Shape
<1>3. job[p].pc \in {"resolve", "pull", "copy", "tag", "manifest", "layer"} /\ job[p].cmd \in Commands
  BY <1>1, <1>2 DEF Shape, Job, Phases
<1>4. Head(job[p].cmd.refs) \in Tags
  <2>1. job[p].cmd.refs \in Seq(Tags) /\ job[p].cmd.refs # <<>> BY <1>3, StoreAssumption
  <2> QED BY <2>1
<1>5. job[p].view = index BY <1>2 DEF SoloInv
<1>6. GetKnows(job[p], blobs, remoteBlobs) BY DEF GetInv
<1> QED BY <1>1, <1>3, <1>4, <1>5, <1>6 DEF AllWhole, Whole, Index

\* What a store with a root, and all that is below what it has, resolves.
LEMMA ListedIsResolved ==
  ASSUME NEW root \in Roots \union {NoRoot}, NEW arch, NEW store, Lists(root, arch),
         root # NoRoot => root \in store, Closed(store, Kinds)
  PROVE  Resolved(root, arch, store)
<1>1. root \in Roots /\ root \in store /\ root \in Blobs /\ root.kind = "index"
  BY DEF Lists, Roots, Blobs
<1>2. Successors(root) = [i \in DOMAIN root.archs |-> Manifest(root.archs[i])]
  BY <1>1, SuccessorsBelow
<1>3. Manifest(arch) \in Range(Successors(root)) BY <1>2 DEF Lists, Range
<1> QED BY <1>1, <1>3 DEF Resolved, Closed, Kinds

LEMMA GetResolves ==
  ASSUME StoreInv, SoloInv, GetInv, NEW p \in Procs, job[p].cmd.op = "get", Resolve(p)
  PROVE  GetInv' /\ GetServes'
<1> DEFINE old == job[p]
           root == old.view[Head(old.refs)]
           next == IF Resolved(root, old.cmd.arch, blobs) THEN "manifest" ELSE "pull"
           j == [old EXCEPT !.pc = next]
<1>1. old.pc = "resolve" /\ Goto(p, j) /\ UNCHANGED <<local, remote>> BY DEF Resolve
<1>2. old \in Job BY DEF StoreInv, StoreTypeOK
<1>3. /\ j.pc = next /\ j.cmd = old.cmd /\ j.view = old.view /\ j.refs = old.refs
  BY <1>2 DEF Job
<1> HIDE DEF j
<1>4. ASSUME alone, kept PROVE GetKnows(j, blobs, remoteBlobs)
  <2>1. GetKnows(old, blobs, remoteBlobs) BY <1>4, GetSees
  <2>2. old.refs = old.cmd.refs BY <1>1, <2>1 DEF GetKnows
  <2>3. CASE Resolved(root, old.cmd.arch, blobs)
    <3>1. j.pc = "manifest" BY <1>3, <2>3
    <3> QED BY <1>3, <2>2, <2>3, <3>1 DEF GetKnows, Resolved
  <2>4. CASE ~Resolved(root, old.cmd.arch, blobs)
    <3>1. j.pc = "pull" BY <1>3, <2>4
    <3> QED BY <1>3, <2>2, <2>4, <3>1 DEF GetKnows
  <2> QED BY <2>3, <2>4
<1> QED BY <1>1, <1>4, GetStep DEF Goto, local, remote

\* A pull that fails says that the registry has no image either.
LEMMA GetPulls ==
  ASSUME StoreInv, SoloInv, GetInv, NEW p \in Procs, job[p].cmd.op = "get", Pull(p)
  PROVE  GetInv' /\ GetServes'
<1> DEFINE old == job[p]
           ref == Head(old.cmd.refs)
           arch == old.cmd.arch
           root == remoteTags[Head(old.refs)]
           j == [old EXCEPT !.pc = "copy", !.root = root, !.expanded = {root},
                            !.todo = <<Manifest(arch), root>>]
<1>1. old.pc = "pull" /\ UNCHANGED <<local, remote>> BY DEF Pull
<1>2. old \in Job BY DEF StoreInv, StoreTypeOK
<1>3. ASSUME alone, kept
      PROVE  /\ old.refs = old.cmd.refs /\ ~Resolved(index[ref], arch, blobs)
             /\ index[ref] # NoRoot => index[ref] \in blobs
             /\ root \in Roots \union {NoRoot} /\ root = remoteTags[ref]
             /\ root # NoRoot => root \in remoteBlobs
  <2>1. GetKnows(old, blobs, remoteBlobs) /\ old.view = index BY <1>3, GetSees
  <2>2. old.refs = old.cmd.refs /\ ~Resolved(index[ref], arch, blobs)
    BY <1>1, <2>1 DEF GetKnows
  <2> QED BY <1>3, <2>2, GetSees
<1>4. CASE Resolved(root, arch, remoteBlobs)
  <2>1. Goto(p, j) BY <1>4 DEF Pull
  <2>2. /\ j.pc = "copy" /\ j.cmd = old.cmd /\ j.root = root /\ j.refs = old.refs
        /\ j.todo = <<Manifest(arch), root>>
    BY <1>2 DEF Job
  <2> HIDE DEF j
  <2>3. Range(j.todo) = {Manifest(arch), root} BY <2>2 DEF Range
  <2>4. ASSUME alone, kept PROVE GetKnows(j, blobs, remoteBlobs)
    <3>1. old.refs = old.cmd.refs BY <1>3, <2>4
    <3> QED BY <1>4, <2>2, <2>3, <3>1 DEF GetKnows, Resolved
  <2> QED BY <1>1, <2>1, <2>4, GetStep DEF Goto, local, remote
<1>5. CASE ~Resolved(root, arch, remoteBlobs)
  <2>1. Finish(p, "error") BY <1>5 DEF Pull
  <2>2. /\ job' = [job EXCEPT ![p] = Idle] /\ alone' = alone /\ kept' = kept
        /\ done'.cmd = old.cmd /\ done'.result = "error"
        /\ UNCHANGED <<index, blobs, remoteTags, remoteBlobs>>
    BY <1>1, <2>1 DEF Finish, local, remote
  <2>3. ASSUME alone, kept
        PROVE  /\ ~(Lists(index[ref], arch) /\ {Manifest(arch), Layer(arch)} \subseteq blobs)
               /\ ~Lists(remoteTags[ref], arch)
    <3>1. ~Lists(remoteTags[ref], arch)
      <4>1. Closed(remoteBlobs, Kinds) BY DEF StoreInv, RemoteInv
      <4> QED BY <1>3, <1>5, <2>3, <4>1, ListedIsResolved
    <3>2. ~(Lists(index[ref], arch) /\ Manifest(arch) \in blobs)
      BY <1>3, <2>3 DEF Resolved, Lists
    <3> QED BY <3>1, <3>2
  <2>4. GetServes' BY <2>2, <2>3 DEF GetServes
  <2> QED BY <1>1, <2>2, <2>4, IdleSafe, GetStep
<1> QED BY <1>4, <1>5

\* A node that the get has to copy is in the registry, with what is below it; the
\* root is the last one.
LEMMA GetCopies ==
  ASSUME StoreInv, SoloInv, GetInv, NEW p \in Procs, job[p].cmd.op = "get", Visit(p)
  PROVE  GetInv' /\ GetServes'
<1> DEFINE old == job[p]
           arch == old.cmd.arch
           todo == old.todo
           b == Head(todo)
           rest == Tail(todo)
           more == [old EXCEPT !.todo = Successors(b) \o @, !.expanded = @ \union {b}]
           less == [old EXCEPT !.todo = Tail(@), !.pc = AfterCopy(p)]
<1>1. old \in Job /\ old.pc = "copy" /\ Shape(old) BY DEF Visit, StoreInv, StoreTypeOK
<1>2. todo \in Seq(Blobs) /\ todo # <<>> /\ todo[Len(todo)] = old.root
  BY <1>1 DEF Shape, Job
<1>3. ~ToRemote(p) BY DEF ToRemote
<1>4. AtSource(p, b) <=> b \in remoteBlobs BY DEF AtSource
<1>5. b \in Range(todo) /\ b \in Blobs
  <2>1. 1 \in DOMAIN todo /\ b = todo[1] BY <1>2
  <2> QED BY <1>2, <2>1 DEF Range
<1>6. ASSUME alone, kept
      PROVE  /\ Lists(old.root, arch) /\ Range(todo) \subseteq remoteBlobs
             /\ Manifest(arch) \in blobs \union Range(todo) /\ old.refs = old.cmd.refs
             /\ b \in remoteBlobs /\ Range(Successors(b)) \subseteq remoteBlobs
  <2>1. GetKnows(old, blobs, remoteBlobs) BY <1>6, GetSees
  <2>2. /\ Lists(old.root, arch) /\ Range(todo) \subseteq remoteBlobs
        /\ Manifest(arch) \in blobs \union Range(todo) /\ old.refs = old.cmd.refs
    BY <1>1, <2>1 DEF GetKnows
  <2>3. b \in remoteBlobs /\ b.kind \in Kinds BY <1>5, <2>2, BlobForms DEF Kinds
  <2>4. Closed(remoteBlobs, Kinds) BY DEF StoreInv, RemoteInv
  <2> QED BY <2>2, <2>3, <2>4 DEF Closed
<1>7. CASE Fails(p)
  <2>1. /\ job' = [job EXCEPT ![p] = Idle] /\ alone' = alone /\ kept' = kept
        /\ done'.result = "error"
    BY <1>7 DEF Fails, Finish, local
  <2>2. ASSUME alone, kept PROVE FALSE
    <3>1. AtSource(p, b) BY <1>4, <1>6, <2>2
    <3>2. \/ Goto(p, more) \/ Goto(p, less) BY <3>1 DEF Visit
    <3>3. more.pc # "idle" /\ less.pc # "idle" BY <1>1 DEF Job, AfterCopy
    <3> HIDE DEF more, less
    <3>4. job'[p] = more \/ job'[p] = less BY <3>2 DEF Goto, StoreInv, StoreTypeOK
    <3>5. job'[p] = Idle BY <2>1 DEF StoreInv, StoreTypeOK
    <3> QED BY <3>3, <3>4, <3>5, IdleSafe
  <2>3. GetServes' BY <2>1, <2>2 DEF GetServes
  <2> QED BY <1>1, <2>1, <2>3, IdleSafe, GetStep
<1>8. CASE ~Fails(p) /\ AtSource(p, b) /\ Descends(p, b)
  <2>1. Goto(p, more) /\ UNCHANGED <<local, remote>> BY <1>8 DEF Visit
  <2>2. /\ more.pc = "copy" /\ more.cmd = old.cmd /\ more.root = old.root /\ more.refs = old.refs
        /\ more.todo = Successors(b) \o todo
    BY <1>1 DEF Job
  <2> HIDE DEF more
  <2>3. Range(more.todo) = Range(Successors(b)) \union Range(todo)
    <3>1. Successors(b) \in Seq(Blobs) BY <1>5, SuccessorsBelow
    <3> QED BY <1>2, <2>2, <3>1, RangeConcat
  <2>4. ASSUME alone, kept PROVE GetKnows(more, blobs, remoteBlobs)
    <3>1. Range(more.todo) \subseteq remoteBlobs /\ Manifest(arch) \in blobs \union Range(more.todo)
      BY <1>6, <2>3, <2>4
    <3> QED BY <1>6, <2>2, <2>4, <3>1 DEF GetKnows
  <2> QED BY <1>1, <2>1, <2>4, GetStep DEF Goto, local, remote
<1>9. CASE ~Fails(p) /\ ~(AtSource(p, b) /\ Descends(p, b))
  <2>1. Goto(p, less) /\ Stored(p, b) BY <1>9 DEF Visit
  <2>2. /\ less.pc = AfterCopy(p) /\ less.cmd = old.cmd /\ less.root = old.root
        /\ less.refs = old.refs /\ less.todo = rest
    BY <1>1 DEF Job, AfterCopy
  <2> HIDE DEF less
  <2>3. blobs' = blobs \union {b} /\ kept' = kept /\ remoteBlobs' = remoteBlobs
    BY <1>3, <2>1 DEF Stored, remote
  <2>4. Range(todo) = Range(rest) \union {b}
    BY <1>2, RangeTail
  <2>5. rest = <<>> => b = old.root BY <1>2, LastOne
  <2>6. less.pc = IF rest = <<>> THEN "tag" ELSE "copy" BY <2>2 DEF AfterCopy
  <2>7. ASSUME alone, kept PROVE GetKnows(less, blobs', remoteBlobs')
    <3>1. Manifest(arch) \in blobs' \union Range(rest) /\ Range(rest) \subseteq remoteBlobs'
      BY <1>6, <2>3, <2>4, <2>7
    <3>2. CASE rest = <<>>
      <4>1. Range(rest) = {} BY <3>2 DEF Range
      <4>2. {old.root, Manifest(arch)} \subseteq blobs' BY <2>3, <2>5, <3>1, <3>2, <4>1
      <4> QED BY <1>6, <2>2, <2>6, <2>7, <3>2, <4>2 DEF GetKnows
    <3>3. CASE rest # <<>>
      BY <1>6, <2>2, <2>6, <2>7, <3>1, <3>3 DEF GetKnows
    <3> QED BY <3>2, <3>3
  <2> QED BY <1>1, <2>1, <2>3, <2>7, GetStep DEF Goto
<1> QED BY <1>7, <1>8, <1>9

\* The root that a get has copied is there to be tagged.
LEMMA GetTags ==
  ASSUME StoreInv, SoloInv, GetInv, NEW p \in Procs, job[p].cmd.op = "get", Tag(p)
  PROVE  GetInv' /\ GetServes'
<1> DEFINE old == job[p]
           arch == old.cmd.arch
           ref == Head(old.cmd.refs)
           left == Tail(old.refs)
           view == [old.view EXCEPT ![Head(old.refs)] = old.root]
           j == [old EXCEPT !.view = view, !.refs = left,
                            !.pc = IF left = <<>> THEN "manifest" ELSE "tag"]
<1>1. old \in Job /\ old.pc = "tag" /\ Shape(old) BY DEF Tag, StoreInv, StoreTypeOK
<1>2. ~ToRemote(p) BY DEF ToRemote
<1>3. ASSUME alone, kept
      PROVE  /\ Lists(old.root, arch) /\ {old.root, Manifest(arch)} \subseteq blobs
             /\ view[ref] = old.root
  <2>1. GetKnows(old, blobs, remoteBlobs) /\ ref \in Tags BY <1>3, GetSees
  <2>2. /\ Lists(old.root, arch) /\ {old.root, Manifest(arch)} \subseteq blobs
        /\ old.refs = old.cmd.refs \/ old.view[ref] = old.root
    BY <1>1, <2>1 DEF GetKnows
  <2>3. old.view \in Index BY <1>1 DEF Job
  <2>4. view[ref] = old.root BY <2>1, <2>2, <2>3 DEF Index
  <2> QED BY <2>2, <2>4
<1>4. CASE old.root \notin blobs
  <2>1. /\ job' = [job EXCEPT ![p] = Idle] /\ alone' = alone /\ kept' = kept
    BY <1>2, <1>4 DEF Tag, Fails, Finish, local
  <2>2. GetServes' BY <1>3, <1>4, <2>1 DEF GetServes
  <2> QED BY <1>1, <2>1, <2>2, IdleSafe, GetStep
<1>5. CASE old.root \in blobs
  <2>1. Goto(p, j) /\ UNCHANGED <<blobs, kept, remote>> BY <1>2, <1>5 DEF Tag
  <2>2. /\ j.pc = (IF left = <<>> THEN "manifest" ELSE "tag") /\ j.cmd = old.cmd
        /\ j.root = old.root /\ j.view = view
    BY <1>1 DEF Job
  <2> HIDE DEF j, view
  <2>3. ASSUME alone, kept PROVE GetKnows(j, blobs, remoteBlobs)
    BY <1>3, <2>2, <2>3 DEF GetKnows
  <2> QED BY <1>1, <2>1, <2>3, GetStep DEF Goto, remote
<1> QED BY <1>4, <1>5

\* A manifest of the layout has its layer.
LEMMA GetReads ==
  ASSUME StoreInv, SoloInv, GetInv, NEW p \in Procs, job[p].cmd.op = "get",
         ReadManifest(p) \/ ReadLayer(p)
  PROVE  GetInv' /\ GetServes'
<1> DEFINE old == job[p]
           arch == old.cmd.arch
           ref == Head(old.cmd.refs)
<1>1. old \in Job /\ old.pc \in {"manifest", "layer"} /\ UNCHANGED <<local, remote>>
  BY DEF ReadManifest, ReadLayer, StoreInv, StoreTypeOK
<1>2. Successors(Manifest(arch)) = <<Layer(arch)>>
  BY DEF Successors, Manifest
<1>3. ASSUME alone, kept
      PROVE  /\ Lists(index[ref], arch) /\ Manifest(arch) \in blobs /\ Layer(arch) \in blobs
             /\ old.view = index
             /\ old.pc = "layer" => old.out = <<Layer(arch)>>
  <2>1. GetKnows(old, blobs, remoteBlobs) /\ old.view = index BY <1>3, GetSees
  <2>2. /\ Lists(index[ref], arch) /\ Manifest(arch) \in blobs
        /\ old.pc = "layer" => old.out = <<Layer(arch)>>
    BY <1>1, <2>1 DEF GetKnows
  <2>3. Layer(arch) \in Range(Successors(Manifest(arch))) BY <1>2 DEF Range
  <2>4. Closed(blobs, {"manifest"}) BY <1>3 DEF StoreInv, LocalInv
  <2>5. Layer(arch) \in blobs BY <2>2, <2>3, <2>4 DEF Closed, Manifest
  <2> QED BY <2>1, <2>2, <2>5
<1>4. ASSUME NEW result, Finish(p, result),
             alone /\ kept => result = "ok" /\ old.out = <<Layer(arch)>>
      PROVE  GetInv' /\ GetServes'
  <2>1. /\ job' = [job EXCEPT ![p] = Idle] /\ alone' = alone /\ kept' = kept
        /\ done'.cmd = old.cmd /\ done'.result = result /\ done'.out = old.out
        /\ index' = index
    BY <1>1, <1>4 DEF Finish, local
  <2>2. GetServes' BY <1>3, <1>4, <2>1 DEF GetServes
  <2> QED BY <1>1, <2>1, <2>2, IdleSafe, GetStep
<1>5. CASE ReadManifest(p)
  <2> DEFINE j == [old EXCEPT !.pc = "layer", !.out = Successors(Manifest(arch))]
  <2>1. CASE Manifest(arch) \notin blobs
    <3>1. Finish(p, "error") BY <1>5, <2>1 DEF ReadManifest
    <3> QED BY <1>3, <1>4, <2>1, <3>1
  <2>2. CASE Manifest(arch) \in blobs
    <3>1. Goto(p, j) BY <1>5, <2>2 DEF ReadManifest
    <3>2. /\ j.pc = "layer" /\ j.cmd = old.cmd /\ j.view = old.view /\ j.out = <<Layer(arch)>>
      BY <1>1, <1>2 DEF Job
    <3> HIDE DEF j
    <3>3. ASSUME alone, kept PROVE GetKnows(j, blobs, remoteBlobs)
      BY <1>3, <3>2, <3>3 DEF GetKnows
    <3> QED BY <1>1, <3>1, <3>3, GetStep DEF Goto, local, remote
  <2> QED BY <2>1, <2>2
<1>6. CASE ReadLayer(p)
  <2> DEFINE result == IF Head(old.out) \in blobs THEN "ok" ELSE "error"
  <2>1. old.pc = "layer" /\ Finish(p, result) BY <1>6 DEF ReadLayer
  <2>2. ASSUME alone, kept PROVE result = "ok" /\ old.out = <<Layer(arch)>>
    BY <1>3, <2>1, <2>2
  <2> HIDE DEF result
  <2> QED BY <1>4, <2>1, <2>2
<1> QED BY <1>5, <1>6

LEMMA GetNext ==
  StoreInv /\ SoloInv /\ GetInv /\ GetServes /\ [StoreNext]_storeVars => GetInv' /\ GetServes'
<1> SUFFICES ASSUME StoreInv, SoloInv, GetInv, GetServes, [StoreNext]_storeVars
             PROVE  GetInv' /\ GetServes'
  OBVIOUS
<1>1. CASE UNCHANGED storeVars
  BY <1>1 DEF storeVars, GetInv, GetKnows, Resolved, GetServes
<1>2. CASE StoreNext
  <2> PICK p \in Procs :
        \/ \E cmd \in Commands : Start(p, cmd)
        \/ Abort(p) \/ Resolve(p) \/ Pull(p) \/ Visit(p) \/ Tag(p)
        \/ ReadManifest(p) \/ ReadLayer(p) \/ Untag(p) \/ GC(p)
    BY <1>2 DEF StoreNext
  <2>1. CASE \E cmd \in Commands : Start(p, cmd) BY <2>1, GetStart
  <2>2. CASE job[p].cmd.op # "get" BY <2>1, <2>2, OtherStep
  <2>3. ASSUME job[p].cmd.op = "get", Untag(p) \/ GC(p) PROVE FALSE
    <3>1. job[p].pc \in {"untag", "gc"} BY <2>3 DEF Untag, GC
    <3> QED BY <2>3, <3>1 DEF StoreInv, Shape
  <2>4. CASE job[p].cmd.op = "get" /\ Abort(p)
    <3>1. /\ job[p].pc # "idle" /\ job' = [job EXCEPT ![p] = Idle] /\ alone' = alone /\ kept' = kept
          /\ done'.result = "aborted"
      BY <2>4 DEF Abort, Finish, local
    <3>2. GetServes' BY <3>1 DEF GetServes
    <3> QED BY <3>1, <3>2, IdleSafe, GetStep
  <2> QED
    BY <2>1, <2>2, <2>3, <2>4, GetResolves, GetPulls, GetCopies, GetTags, GetReads
<1> QED BY <1>1, <1>2

-----------------------------------------------------------------------------
(* The theorems.                                                           *)

\* The invariant holds in every state that the commands can reach.
THEOREM Invariance == StoreSpec => []StoreInv
<1>1. StoreInit => StoreInv BY Initially
<1>2. StoreInv /\ [StoreNext]_storeVars => StoreInv' BY StepSafe
<1> QED BY <1>1, <1>2, PTL DEF StoreSpec

\* Every variable stays in its set: whatever the commands do, a tag names a root or
\* nothing, and a command has tags left, or is where it needs none.
THEOREM TypeCorrect == StoreSpec => []StoreTypeOK
<1>1. StoreInv => StoreTypeOK BY DEF StoreInv
<1> QED BY <1>1, Invariance, PTL

\* A tag or an index or a manifest in the registry has all that is below it there:
\* oras.Copy (images.go, Push) pushes a node after its successors, whichever of the
\* copies fail and whatever is removed from the layout meanwhile.
THEOREM RegistryIsWhole == StoreSpec => []RegistryWhole
<1>1. StoreInv => RegistryWhole
  <2> SUFFICES ASSUME StoreInv PROVE RegistryWhole
    OBVIOUS
  <2>1. \A b \in remoteBlobs : b.kind \in Kinds
    BY BlobForms DEF StoreInv, StoreTypeOK, Kinds
  <2> QED BY <2>1 DEF StoreInv, RemoteInv, Closed, RegistryWhole
<1> QED BY <1>1, Invariance, PTL

\* As long as no rm overlaps another command or is cut short, a tag of the layout
\* names a root that is there with an image of it, and a manifest has its layer:
\* Store and Pull (images.go) copy bottom up and tag last, even if index.json is
\* written from what a process has loaded long ago.
THEOREM TagsAreWhole == StoreSpec => []TaggedIsWhole
<1>1. StoreInv => TaggedIsWhole
  <2> SUFFICES ASSUME StoreInv, kept PROVE TaggedIsWhole
    BY DEF TaggedIsWhole
  <2>1. AllWhole(index, blobs) /\ Closed(blobs, {"manifest"}) BY DEF StoreInv, LocalInv
  <2>2. ASSUME NEW b \in blobs, b.kind = "manifest" PROVE Layer(b.arch) \in blobs
    <3>1. Successors(b) = <<Layer(b.arch)>> BY <2>2 DEF Successors
    <3>2. Layer(b.arch) \in Range(Successors(b)) BY <3>1 DEF Range
    <3> QED BY <2>1, <2>2, <3>2 DEF Closed
  <2> QED BY <2>1, <2>2 DEF TaggedIsWhole, AllWhole, Whole, HasImage
<1> QED BY <1>1, Invariance, PTL

\* Commands that run one after the other leave the tags that they have set, one by
\* one, whichever of them fail, and an rm that was not cut short leaves what is
\* tagged and nothing else: Run (rm.go) collects what its own index.json does not reach.
THEOREM SoloIsExact == StoreSpec => []SoloStore
<1>1. StoreInit => SoloInv
  BY DEF StoreInit, SoloInv, Idle
<1>2. StoreInv /\ SoloInv /\ [StoreNext]_storeVars => SoloInv' BY SoloNext
<1>3. SoloInv => SoloStore BY DEF SoloInv, SoloStore
<1> QED BY <1>1, <1>2, <1>3, Invariance, PTL DEF StoreSpec

\* A get kernel that is alone prints the layer of its architecture, of the image that
\* the reference names in the layout when it ends; it has an error only if neither
\* the layout nor the registry has one: Run (get/kernel.go) pulls what it does not
\* find, the whole image below the root, and reads what it has tagged.
THEOREM GetIsServed == StoreSpec => []GetServes
<1>1. StoreInit => SoloInv /\ GetInv /\ GetServes
  <2> SUFFICES ASSUME StoreInit PROVE SoloInv /\ GetInv /\ GetServes
    OBVIOUS
  <2>1. SoloInv BY DEF StoreInit, SoloInv, Idle
  <2>2. done.cmd.op # "get" /\ \A p \in Procs : job[p].cmd.op # "get"
    BY DEF StoreInit, Idle, NoCommand
  <2> QED BY <2>1, <2>2 DEF GetInv, GetServes
<1>2. StoreInv /\ SoloInv /\ [StoreNext]_storeVars => SoloInv' BY SoloNext
<1>3. StoreInv /\ SoloInv /\ GetInv /\ GetServes /\ [StoreNext]_storeVars => GetInv' /\ GetServes'
  BY GetNext
<1> QED BY <1>1, <1>2, <1>3, Invariance, PTL DEF StoreSpec
=============================================================================
