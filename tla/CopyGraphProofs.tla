-------------------------- MODULE CopyGraphProofs --------------------------
(***************************************************************************)
(* Proofs about CopyGraph, for every graph, path and number of tokens.     *)
(***************************************************************************)
EXTENDS CopyGraph, SequenceTheorems, FiniteSetTheorems, TLAPS

PosNat == Nat \ {0}

----------------------------------------------------------------------------
(* Positions *)

LEMMA AppendPosition ==
  ASSUME NEW c \in Seq(PosNat), NEW i \in PosNat
  PROVE  /\ Append(c, i) \in Seq(PosNat)
         /\ Append(c, i) # Root
         /\ Len(Append(c, i)) = Len(c) + 1
         /\ Parent(Append(c, i)) = c
<1>1. /\ Append(c, i) \in Seq(PosNat) /\ Append(c, i) # <<>>
      /\ Len(Append(c, i)) = Len(c) + 1
      /\ \A j \in 1..Len(c) : Append(c, i)[j] = c[j]
  BY AppendProperties
<1>2. Len(c) \in Nat
  BY LenProperties
<1>3. /\ Parent(Append(c, i)) \in Seq(PosNat)
      /\ Len(Parent(Append(c, i))) = Len(c)
      /\ \A j \in 1..Len(c) : Parent(Append(c, i))[j] = c[j]
  <2>1. Parent(Append(c, i)) = SubSeq(Append(c, i), 1, Len(c))
    BY <1>1, <1>2 DEF Parent
  <2> QED BY <2>1, <1>1, <1>2, SubSeqProperties
<1>4. Parent(Append(c, i)) = c
  BY <1>3, SeqEqual
<1> QED BY <1>1, <1>4 DEF Root

LEMMA SamePosition ==
  ASSUME NEW c \in Seq(PosNat), NEW d \in Seq(PosNat),
         NEW i \in PosNat, NEW j \in PosNat, Append(c, i) = Append(d, j)
  PROVE  c = d /\ i = j
BY AppendInjective

\* A nonempty set of positions has one that no other is shorter than.
LEMMA Shortest ==
  ASSUME NEW T, T \subseteq Seq(PosNat), T # {}
  PROVE  \E c \in T : \A d \in T : ~(Len(d) < Len(c))
<1> DEFINE Upto(c) == 1..Len(c)
           F == {Upto(c) : c \in T}
<1>1. \A c \in T : Len(c) \in Nat
  BY LenProperties
<1>2. F \subseteq FiniteSubsetsOf(Nat) /\ F # {}
  <2>1. \A c \in T : IsFiniteSet(1..Len(c)) /\ 1..Len(c) \subseteq Nat
    BY <1>1, FS_Interval
  <2> QED BY <2>1 DEF FiniteSubsetsOf
<1>3. IsWellFoundedOn(StrictSubsetOrdering(Nat), FiniteSubsetsOf(Nat))
  BY FS_StrictSubsetOrderingWellFounded
<1>4. \E U \in F : \A V \in F : <<V, U>> \notin StrictSubsetOrdering(Nat)
  <2> HIDE DEF F
  <2> QED BY <1>2, <1>3, WFMin
<1>5. PICK c \in T : \A d \in T : <<Upto(d), Upto(c)>> \notin StrictSubsetOrdering(Nat)
  BY <1>4
<1>6. ASSUME NEW d \in T, Len(d) < Len(c) PROVE FALSE
  <2>1. Len(c) \in Nat /\ Len(d) \in Nat
    BY <1>1
  <2>2. Upto(d) \subseteq Upto(c) /\ Upto(c) \subseteq Nat /\ Upto(d) # Upto(c)
    <3>1. Len(c) \in Upto(c) /\ Len(c) \notin Upto(d)
      BY <2>1, <1>6
    <3> QED BY <2>1, <1>6, <3>1
  <2> QED BY <2>2, <1>5 DEF StrictSubsetOrdering
<1> QED BY <1>5, <1>6

----------------------------------------------------------------------------
(* The tree of calls *)

\* The calls a call has started are those before next, each for its node; every
\* call but Root was started by one.
Branches(c) ==
  /\ pc[c] \in {"idle", "start"} => next[c] = 1
  /\ \A i \in 1..(next[c] - 1) :
       /\ i <= Len(Dispatched(c))
       /\ Append(c, i) \in Calls
       /\ pc[Append(c, i)] # "idle"
       /\ node[Append(c, i)] = Dispatched(c)[i]
Begun(c) ==
  c # Root /\ pc[c] # "idle" =>
    /\ node[c] \in Nodes
    /\ \E d \in Calls : \E i \in 1..(next[d] - 1) : c = Append(d, i)
Tree ==
  /\ pc[Root] \in {"idle", "dispatch", "wait", "done"}
  /\ \A c \in Calls : Branches(c) /\ Begun(c)

Shape == TypeOK /\ Tree

USE DEF Goto

LEMMA CallsType ==
  ASSUME CopyAssumption
  PROVE  /\ Root \in Calls
         /\ \A c \in Calls : c \in Seq(PosNat)
         /\ IsFiniteSet(Calls)
         /\ Concurrency \in Nat \ {0}
         /\ "fault" # None /\ "canceled" # None
BY DEF CopyAssumption, PosNat

LEMMA DispatchedType ==
  ASSUME CopyAssumption, TypeOK, NEW c \in Calls,
         c # Root => node[c] \in Nodes
  PROVE  /\ Len(Dispatched(c)) \in Nat
         /\ \A i \in 1..Len(Dispatched(c)) : Dispatched(c)[i] \in Nodes
<1>1. CASE c = Root
  <2>1. Path \in Seq(Nodes) /\ Len(Path) \in Nat
    BY LenProperties DEF CopyAssumption
  <2>2. \A i \in 1..Len(Path) : Path[Len(Path) + 1 - i] \in Nodes
    <3> TAKE i \in 1..Len(Path)
    <3>1. Len(Path) + 1 - i \in 1..Len(Path)
      BY <2>1
    <3> QED BY <2>1, <3>1, ElementOfSeq
  <2>3. pathNodes \in Seq(Nodes) /\ Len(pathNodes) = Len(Path)
        /\ \A i \in 1..Len(Path) : pathNodes[i] = Path[Len(Path) + 1 - i]
    BY <2>1, <2>2, IsASeq DEF pathNodes
  <2> QED BY <1>1, <2>1, <2>2, <2>3 DEF Dispatched
<1>2. CASE c # Root
  <2>1. Succ[node[c]] \in Seq(Nodes)
    BY <1>2 DEF CopyAssumption
  <2> QED BY <1>2, <2>1, LenProperties, ElementOfSeq DEF Dispatched
<1> QED BY <1>1, <1>2

\* The next call that c starts is not yet running.
LEMMA NextIdle ==
  ASSUME CopyAssumption, Shape, NEW c \in Calls, Append(c, next[c]) \in Calls
  PROVE  /\ pc[Append(c, next[c])] = "idle"
         /\ Append(c, next[c]) # Root
         /\ Append(c, next[c]) # c
         /\ \A d \in Calls : \A i \in 1..(next[d] - 1) :
              Append(d, i) # Append(c, next[c])
<1> DEFINE k == Append(c, next[c])
<1>1. /\ c \in Seq(PosNat) /\ next[c] \in PosNat
      /\ \A d \in Calls : d \in Seq(PosNat) /\ next[d] \in Nat
  BY CallsType DEF Shape, TypeOK, PosNat
<1>2. k # Root /\ Len(k) = Len(c) + 1 /\ Len(c) \in Nat
  BY <1>1, AppendPosition, LenProperties
<1>3. ASSUME NEW d \in Calls, NEW i \in 1..(next[d] - 1), Append(d, i) = k
      PROVE  FALSE
  <2>1. i \in PosNat
    BY <1>1 DEF PosNat
  <2>2. c = d /\ next[c] = i
    BY <1>1, <1>3, <2>1, SamePosition
  <2> QED BY <1>1, <2>2
<1>4. pc[k] = "idle"
  BY <1>2, <1>3 DEF Shape, Tree, Begun
<1>5. k # c
  BY <1>2
<1>6. \A d \in Calls : \A i \in 1..(next[d] - 1) : Append(d, i) # k
  BY <1>3
<1> QED BY <1>2, <1>4, <1>5, <1>6

\* A call that has begun goes on, and starts no other.
Moves(c) ==
  /\ \A d \in Calls : d # c => pc'[d] = pc[d]
  /\ pc'[c] \in Locations \ {"idle", "start"}
  /\ c = Root => pc'[c] \in {"dispatch", "wait", "done"}
  /\ c # Root => pc[c] # "idle"
  /\ node' = node /\ next' = next

LEMMA TreeMove ==
  ASSUME CopyAssumption, Shape, NEW c \in Calls, Moves(c)
  PROVE  Tree'
<1> USE DEF Moves
<1>1. \A d \in Calls : pc'[d] = IF d = c THEN pc'[c] ELSE pc[d]
  OBVIOUS
<1>2. \A d \in Calls : Dispatched(d)' = Dispatched(d)
  BY DEF Dispatched
<1>3. pc'[Root] \in {"idle", "dispatch", "wait", "done"}
  BY <1>1, CallsType DEF Shape, Tree
<1>4. ASSUME NEW d \in Calls PROVE Branches(d)' /\ Begun(d)'
  <2>1. pc'[d] \in {"idle", "start"} => next'[d] = 1
    BY <1>1 DEF Shape, Tree, Branches
  <2>2. ASSUME NEW i \in 1..(next'[d] - 1)
        PROVE  /\ i <= Len(Dispatched(d)')
               /\ Append(d, i) \in Calls
               /\ pc'[Append(d, i)] # "idle"
               /\ node'[Append(d, i)] = Dispatched(d)'[i]
    <3>1. /\ i <= Len(Dispatched(d))
          /\ Append(d, i) \in Calls
          /\ pc[Append(d, i)] # "idle"
          /\ node[Append(d, i)] = Dispatched(d)[i]
      BY DEF Shape, Tree, Branches
    <3> QED BY <1>1, <1>2, <3>1
  <2>3. ASSUME d # Root, pc'[d] # "idle"
        PROVE  node[d] \in Nodes /\ \E e \in Calls : \E i \in 1..(next[e] - 1) : d = Append(e, i)
    BY <1>1, <2>3 DEF Shape, Tree, Begun
  <2>4. Begun(d)'
    BY <2>3 DEF Begun
  <2>5. Branches(d)'
    BY <2>1, <2>2 DEF Branches
  <2> QED BY <2>4, <2>5
<1> QED BY <1>3, <1>4 DEF Tree

LEMMA TreeSame == ASSUME Tree, pc' = pc, node' = node, next' = next PROVE Tree'
BY DEF Tree, Branches, Begun, Dispatched

LEMMA ShapeInit == CopyAssumption /\ Init => Shape
<1> SUFFICES ASSUME CopyAssumption, Init PROVE Shape
  OBVIOUS
<1>1. TypeOK
  <2>1. 0 \in 0..Concurrency /\ 0 \in 0..MaxPulls /\ 1 \in Nat \ {0}
    BY DEF CopyAssumption
  <2>2. pc \in [Calls -> Locations] /\ next \in [Calls -> Nat \ {0}]
    BY <2>1 DEF Init, Everywhere, Locations
  <2>3. /\ node \in [Calls -> Nodes \union {None}]
        /\ retErr \in [Calls -> Errors \union {None}]
        /\ err \in [Calls -> Errors \union {None}]
    BY DEF Init, Everywhere
  <2> QED BY <2>1, <2>2, <2>3 DEF Init, TypeOK
<1>2. Tree
  BY CallsType DEF Init, Tree, Branches, Begun, Everywhere
<1> QED BY <1>1, <1>2 DEF Shape

\* The only step that starts a call.
LEMMA ShapeDispatch ==
  ASSUME CopyAssumption, Shape, NEW c \in Calls, Dispatch(c)
  PROVE  Shape'
<1> DEFINE k == Append(c, next[c])
<1>1. /\ k \in Calls /\ pc[k] = "idle" /\ k # Root /\ k # c
      /\ \A d \in Calls : \A i \in 1..(next[d] - 1) : Append(d, i) # k
  BY NextIdle DEF Dispatch
<1>2. pc[c] = "dispatch" /\ next[c] \in Nat \ {0} /\ next[c] <= Len(Dispatched(c))
  BY DEF Dispatch, Shape, TypeOK
<1>3. /\ Len(Dispatched(c)) \in Nat /\ Dispatched(c)[next[c]] \in Nodes
  <2>1. c # Root => node[c] \in Nodes
    BY <1>2 DEF Shape, Tree, Begun
  <2> QED BY <1>2, <2>1, DispatchedType DEF Shape
<1>4. /\ \A d \in Calls : pc'[d] = IF d = k THEN "start" ELSE pc[d]
      /\ \A d \in Calls : node'[d] = IF d = k THEN Dispatched(c)[next[c]] ELSE node[d]
      /\ \A d \in Calls : next'[d] = IF d = c THEN next[d] + 1 ELSE next[d]
  BY <1>1 DEF Dispatch, Shape, TypeOK
<1>5. TypeOK'
  <2>1. sem' \in 0..Concurrency
    BY CallsType DEF Dispatch, Shape, TypeOK
  <2>2. pc' \in [Calls -> Locations]
    BY <1>1 DEF Dispatch, Shape, TypeOK, Locations, Holding
  <2>3. node' \in [Calls -> Nodes \union {None}]
    BY <1>1, <1>3 DEF Dispatch, Shape, TypeOK
  <2>4. next' \in [Calls -> Nat \ {0}]
    <3>1. next' = [next EXCEPT ![c] = next[c] + 1]
      BY DEF Dispatch
    <3>2. next[c] + 1 \in Nat \ {0}
      BY <1>2
    <3> QED BY <3>1, <3>2 DEF Shape, TypeOK
  <2> QED BY <2>1, <2>2, <2>3, <2>4 DEF Dispatch, Shape, TypeOK
<1>6. \A d \in Calls : d # k => Dispatched(d)' = Dispatched(d)
  BY <1>4 DEF Dispatched
<1>7. pc'[Root] \in {"idle", "dispatch", "wait", "done"}
  BY <1>1, <1>4, CallsType DEF Shape, Tree
<1>8. next[k] = 1
  BY <1>1 DEF Shape, Tree, Branches
<1>9. ASSUME NEW d \in Calls PROVE Branches(d)'
  <2>1. pc'[d] \in {"idle", "start"} => next'[d] = 1
    <3>1. CASE d = k
      BY <1>1, <1>4, <1>8, <3>1
    <3>2. CASE d # k
      <4>1. pc'[d] = pc[d] /\ (d # c => next'[d] = next[d])
        BY <1>4, <3>2
      <4>2. pc[d] \in {"idle", "start"} => next[d] = 1
        BY DEF Shape, Tree, Branches
      <4> QED BY <1>2, <4>1, <4>2
    <3> QED BY <3>1, <3>2
  <2>2. ASSUME NEW i \in 1..(next'[d] - 1)
        PROVE  /\ i <= Len(Dispatched(d)')
               /\ Append(d, i) \in Calls
               /\ pc'[Append(d, i)] # "idle"
               /\ node'[Append(d, i)] = Dispatched(d)'[i]
    <3>1. d # k
      <4>1. next'[k] = 1
        BY <1>1, <1>4, <1>8
      <4>2. next'[d] # 1
        OBVIOUS
      <4> QED BY <4>1, <4>2
    <3>2. CASE d = c /\ i = next[c]
      BY <1>1, <1>2, <1>4, <1>6, <3>1, <3>2
    <3>3. CASE ~(d = c /\ i = next[c])
      <4>1. i \in 1..(next[d] - 1)
        BY <1>2, <1>4, <3>3 DEF Shape, TypeOK
      <4>2. /\ i <= Len(Dispatched(d))
            /\ Append(d, i) \in Calls
            /\ pc[Append(d, i)] # "idle"
            /\ node[Append(d, i)] = Dispatched(d)[i]
        BY <4>1 DEF Shape, Tree, Branches
      <4>3. Append(d, i) # k
        BY <1>1, <4>1
      <4> QED BY <1>4, <1>6, <3>1, <4>2, <4>3
    <3> QED BY <3>2, <3>3
  <2> QED BY <2>1, <2>2 DEF Branches
<1>10. ASSUME NEW d \in Calls PROVE Begun(d)'
  <2>1. CASE d = k
    <3>1. next[c] \in 1..(next'[c] - 1)
      BY <1>2, <1>4
    <3> QED BY <1>3, <1>4, <2>1, <3>1 DEF Begun
  <2>2. CASE d # k
    <3>1. ASSUME d # Root, pc'[d] # "idle"
          PROVE  node'[d] \in Nodes /\ \E e \in Calls : \E i \in 1..(next'[e] - 1) : d = Append(e, i)
      <4>1. node[d] \in Nodes
        BY <1>4, <2>2, <3>1 DEF Shape, Tree, Begun
      <4>2. PICK e \in Calls : \E i \in 1..(next[e] - 1) : d = Append(e, i)
        BY <1>4, <2>2, <3>1 DEF Shape, Tree, Begun
      <4>3. PICK i \in 1..(next[e] - 1) : d = Append(e, i)
        BY <4>2
      <4>4. i \in 1..(next'[e] - 1)
        <5>1. next[e] \in Nat
          BY DEF Shape, TypeOK
        <5>2. next'[e] = next[e] \/ next'[e] = next[e] + 1
          BY <1>4
        <5>3. i \in Nat /\ 1 <= i /\ i <= next[e] - 1
          BY <5>1
        <5> HIDE DEF k
        <5> QED BY <5>1, <5>2, <5>3
      <4>5. node'[d] \in Nodes
        BY <1>4, <2>2, <4>1
      <4> QED BY <4>3, <4>4, <4>5
    <3> QED BY <3>1 DEF Begun
  <2> QED BY <2>1, <2>2
<1> QED BY <1>5, <1>7, <1>9, <1>10 DEF Shape, Tree

LEMMA Places ==
  ASSUME CopyAssumption, Shape
  PROVE  /\ Root \in Calls /\ pc \in [Calls -> Locations]
         /\ pc[Root] \in {"idle", "dispatch", "wait", "done"}
BY CallsType DEF Shape, TypeOK, Tree

LEMMA ShapeStep == ASSUME CopyAssumption, Shape, Next PROVE Shape'
<1>1. ASSUME NEW c \in Calls, copyDispatch(c) PROVE Shape'
  <2>1. CASE Dispatch(c)
    BY <2>1, ShapeDispatch
  <2>2. CASE DispatchCanceled(c)
    <3>1. TypeOK'
      BY <2>2, CallsType DEF Shape, TypeOK, Locations, Holding, Errors, DispatchCanceled
    <3>2. Moves(c)
      BY <2>2, Places DEF Locations, Holding, Moves, DispatchCanceled
    <3>3. Tree'
      BY <3>2, TreeMove
    <3> QED BY <3>1, <3>3 DEF Shape
  <2>3. CASE DispatchedAll(c)
    <3>1. TypeOK'
      BY <2>3, CallsType DEF Shape, TypeOK, Locations, Holding, Errors, DispatchedAll
    <3>2. Moves(c)
      BY <2>3, Places DEF Locations, Holding, Moves, DispatchedAll
    <3>3. Tree'
      BY <3>2, TreeMove
    <3> QED BY <3>1, <3>3 DEF Shape
  <2> QED BY <1>1, <2>1, <2>2, <2>3 DEF copyDispatch
<1>2. ASSUME NEW c \in Calls, copyNode(c) PROVE Shape'
  <2>1. CASE StartData(c)
    <3>1. TypeOK'
      BY <2>1, CallsType DEF Shape, TypeOK, Locations, Holding, Errors, StartData
    <3>2. Moves(c)
      <4>1. pc' = [pc EXCEPT ![c] = "exists"] /\ pc[c] = "start" /\ node' = node /\ next' = next
        BY <2>1 DEF StartData
      <4>2. c # Root
        BY <4>1 DEF Shape, Tree
      <4> QED BY <4>1, <4>2, Places DEF Locations, Holding, Moves
    <3>3. Tree'
      BY <3>2, TreeMove
    <3> QED BY <3>1, <3>3 DEF Shape
  <2>2. CASE StartSuccessors(c)
    <3>1. TypeOK'
      BY <2>2, CallsType DEF Shape, TypeOK, Locations, Holding, Errors, StartSuccessors
    <3>2. Moves(c)
      <4>1. /\ pc' = [pc EXCEPT ![c] = "dispatch"] /\ pc[c] = "start"
            /\ node' = node /\ next' = next
        BY <2>2 DEF StartSuccessors
      <4> QED BY <4>1, Places DEF Locations, Holding, Moves
    <3>3. Tree'
      BY <3>2, TreeMove
    <3> QED BY <3>1, <3>3 DEF Shape
  <2>3. CASE FindSuccessorsFails(c)
    <3>1. TypeOK'
      BY <2>3, CallsType DEF Shape, TypeOK, Locations, Holding, Errors, FindSuccessorsFails, Failures
    <3>2. Moves(c)
      BY <2>3, Places DEF Locations, Holding, Moves, FindSuccessorsFails
    <3>3. Tree'
      BY <3>2, TreeMove
    <3> QED BY <3>1, <3>3 DEF Shape
  <2>4. CASE NestedReturns(c)
    <3>1. TypeOK'
      BY <2>4, CallsType DEF Shape, TypeOK, Locations, Holding, Errors, NestedReturns
    <3>2. Moves(c)
      BY <2>4, Places DEF Locations, Holding, Moves, NestedReturns
    <3>3. Tree'
      BY <3>2, TreeMove
    <3> QED BY <3>1, <3>3 DEF Shape
  <2>5. CASE Acquire(c)
    <3>1. TypeOK'
      BY <2>5, CallsType DEF Shape, TypeOK, Locations, Holding, Errors, Acquire
    <3>2. Moves(c)
      BY <2>5, Places DEF Locations, Holding, Moves, Acquire
    <3>3. Tree'
      BY <3>2, TreeMove
    <3> QED BY <3>1, <3>3 DEF Shape
  <2>6. CASE AcquireCanceled(c)
    <3>1. TypeOK'
      BY <2>6, CallsType DEF Shape, TypeOK, Locations, Holding, Errors, AcquireCanceled
    <3>2. Moves(c)
      BY <2>6, Places DEF Locations, Holding, Moves, AcquireCanceled
    <3>3. Tree'
      BY <3>2, TreeMove
    <3> QED BY <3>1, <3>3 DEF Shape
  <2>7. CASE Release(c)
    <3>1. TypeOK'
      BY <2>7, CallsType DEF Shape, TypeOK, Locations, Holding, Errors, Release
    <3>2. Moves(c)
      BY <2>7, Places DEF Locations, Holding, Moves, Release
    <3>3. Tree'
      BY <3>2, TreeMove
    <3> QED BY <3>1, <3>3 DEF Shape
  <2>8. CASE Record(c)
    <3>1. TypeOK'
      BY <2>8, CallsType DEF Shape, TypeOK, Locations, Holding, Errors, Record
    <3>2. Moves(c)
      BY <2>8, Places DEF Locations, Holding, Moves, Record
    <3>3. Tree'
      BY <3>2, TreeMove
    <3> QED BY <3>1, <3>3 DEF Shape
  <2> QED BY <1>2, <2>1, <2>2, <2>3, <2>4, <2>5, <2>6, <2>7, <2>8 DEF copyNode
<1>3. ASSUME NEW c \in Calls, copyNodeData(c) PROVE Shape'
  <2>1. CASE Exists(c)
    <3>1. TypeOK'
      BY <2>1, CallsType DEF Shape, TypeOK, Locations, Holding, Errors, Exists
    <3>2. Moves(c)
      BY <2>1, Places DEF Locations, Holding, Moves, Exists
    <3>3. Tree'
      BY <3>2, TreeMove
    <3> QED BY <3>1, <3>3 DEF Shape
  <2>2. CASE Fetch(c)
    <3>1. TypeOK'
      BY <2>2, CallsType DEF Shape, TypeOK, Locations, Holding, Errors, Fetch
    <3>2. Moves(c)
      BY <2>2, Places DEF Locations, Holding, Moves, Fetch
    <3>3. Tree'
      BY <3>2, TreeMove
    <3> QED BY <3>1, <3>3 DEF Shape
  <2>3. CASE Push(c)
    <3>. node[c] \in Nodes
      BY <2>3 DEF Shape, Tree, Begun, Push
    <3>1. TypeOK'
      BY <2>3, CallsType DEF Shape, TypeOK, Locations, Holding, Errors, Push
    <3>2. Moves(c)
      BY <2>3, Places DEF Locations, Holding, Moves, Push
    <3>3. Tree'
      BY <3>2, TreeMove
    <3> QED BY <3>1, <3>3 DEF Shape
  <2>4. CASE DataFails(c)
    <3>. node[c] \in Nodes
      BY <2>4 DEF Shape, Tree, Begun, DataFails
    <3>1. TypeOK'
      BY <2>4, CallsType DEF Shape, TypeOK, Locations, Holding, Errors, DataFails, Failures
    <3>2. Moves(c)
      BY <2>4, Places DEF Locations, Holding, Moves, DataFails
    <3>3. Tree'
      BY <3>2, TreeMove
    <3> QED BY <3>1, <3>3 DEF Shape
  <2> QED BY <1>3, <2>1, <2>2, <2>3, <2>4 DEF copyNodeData
<1>4. CASE Run
  <2>1. CASE CopyPath
    <3>1. TypeOK'
      <4>1. pulls' \in 0..MaxPulls
        BY <2>1 DEF Shape, TypeOK, CopyPath, CopyAssumption
      <4>2. pc' \in [Calls -> Locations]
        BY <2>1 DEF Shape, TypeOK, CopyPath, Locations
      <4> QED BY <2>1, <4>1, <4>2 DEF Shape, TypeOK, CopyPath
    <3>2. Moves(Root)
      BY <2>1, CallsType DEF Shape, TypeOK, Locations, Moves, CopyPath
    <3>3. Tree'
      BY <3>2, TreeMove, CallsType
    <3> QED BY <3>1, <3>3 DEF Shape
  <2>2. CASE CopyReturns
    <3>1. TypeOK'
      BY <2>2, CallsType DEF Shape, TypeOK, Locations, CopyReturns
    <3>2. Moves(Root)
      BY <2>2, CallsType DEF Shape, TypeOK, Locations, Moves, CopyReturns
    <3>3. Tree'
      BY <3>2, TreeMove, CallsType
    <3> QED BY <3>1, <3>3 DEF Shape
  <2>3. CASE ResolveFails \/ Tag \/ TagFails
    <3>1. TypeOK'
      <4>1. pulls' \in 0..MaxPulls
        BY <2>3 DEF Shape, TypeOK, ResolveFails, Tag, TagFails, CopyAssumption
      <4>2. pc' = pc
        BY <2>3 DEF ResolveFails, Tag, TagFails
      <4> QED BY <2>3, <4>1, <4>2 DEF Shape, TypeOK, ResolveFails, Tag, TagFails
    <3>2. pc' = pc /\ node' = node /\ next' = next
      BY <2>3 DEF ResolveFails, Tag, TagFails
    <3>3. Tree'
      BY <3>2, TreeSame DEF Shape
    <3> QED BY <3>1, <3>3 DEF Shape
  <2> QED BY <1>4, <2>1, <2>2, <2>3 DEF Run
<1>5. CASE Cancel
  <2>1. TypeOK'
    BY <1>5 DEF Shape, TypeOK, Cancel, Errors
  <2>2. Tree'
    BY <1>5, TreeSame DEF Shape, Cancel
  <2> QED BY <2>1, <2>2 DEF Shape
<1>6. CASE Again
  <2>1. TypeOK'
    BY <1>6, CallsType DEF Shape, TypeOK, Again, Everywhere, Locations
  <2>2. Tree'
    BY <1>6, CallsType DEF Tree, Branches, Begun, Again, Everywhere
  <2> QED BY <2>1, <2>2 DEF Shape
<1> QED BY <1>1, <1>2, <1>3, <1>4, <1>5, <1>6 DEF Next, Step

LEMMA ShapeStutter == Shape /\ UNCHANGED vars => Shape'
BY TreeSame DEF vars, Shape, TypeOK

\* The variables keep their types: the channel never holds more tokens than
\* Concurrency, nor is one taken from an empty channel, in copyDispatch and copyNode.
THEOREM TypeCorrect == ASSUME CopyAssumption PROVE Spec => []TypeOK
<1>1. Init => Shape
  BY ShapeInit
<1>2. Shape /\ [Next]_vars => Shape'
  BY ShapeStep, ShapeStutter
<1>3. Shape => TypeOK
  BY DEF Shape
<1> QED BY <1>1, <1>2, <1>3, PTL DEF Spec

----------------------------------------------------------------------------
(* Tokens *)

Holders == {c \in Calls : pc[c] \in Holding}

\* Only x goes on in the step.
Only(x) == \A d \in Calls : d # x => pc'[d] = pc[d]

LEMMA Takes ==
  ASSUME CopyAssumption, TypeOK, TokensConserved, NEW x \in Calls, Only(x),
         pc[x] \notin Holding, pc'[x] \in Holding, sem' = sem + 1
  PROVE  TokensConserved'
<1>1. Holders' = Holders \union {x} /\ x \notin Holders
  BY DEF Holders, Only
<1>2. IsFiniteSet(Holders)
  BY CallsType, FS_Subset DEF Holders
<1>3. Cardinality(Holders \union {x}) = Cardinality(Holders) + 1
  BY <1>1, <1>2, FS_AddElement
<1> QED BY <1>1, <1>3 DEF TokensConserved, Holders

LEMMA Gives ==
  ASSUME CopyAssumption, TypeOK, TokensConserved, NEW x \in Calls, Only(x),
         pc[x] \in Holding, pc'[x] \notin Holding, sem' = sem - 1
  PROVE  TokensConserved'
<1>1. Holders' = Holders \ {x} /\ x \in Holders
  BY DEF Holders, Only
<1>2. IsFiniteSet(Holders)
  BY CallsType, FS_Subset DEF Holders
<1>3. Cardinality(Holders \ {x}) = Cardinality(Holders) - 1
  BY <1>1, <1>2, FS_RemoveElement
<1> QED BY <1>1, <1>3 DEF TokensConserved, Holders

LEMMA Keeps ==
  ASSUME TokensConserved, NEW x \in Calls, Only(x),
         pc[x] \in Holding <=> pc'[x] \in Holding, sem' = sem
  PROVE  TokensConserved'
<1>1. Holders' = Holders
  BY DEF Holders, Only
<1> QED BY <1>1 DEF TokensConserved, Holders

LEMMA TokensInit == CopyAssumption /\ Init => TokensConserved
<1> SUFFICES ASSUME CopyAssumption, Init PROVE TokensConserved
  OBVIOUS
<1>1. Holders = {}
  BY DEF Init, Everywhere, Holders, Holding
<1> QED BY <1>1, FS_EmptySet DEF TokensConserved, Holders, Init

LEMMA TokensStep ==
  ASSUME CopyAssumption, Shape, TokensConserved, Next
  PROVE  TokensConserved'
<1> USE DEF Shape
<1>1. ASSUME NEW c \in Calls, copyDispatch(c) PROVE TokensConserved'
  <2>1. CASE Dispatch(c)
    <3> DEFINE k == Append(c, next[c])
    <3>1. k \in Calls /\ pc[k] = "idle"
      BY <2>1, NextIdle DEF Dispatch
    <3>2. Only(k) /\ pc[k] \notin Holding /\ pc'[k] \in Holding /\ sem' = sem + 1
      BY <2>1, <3>1 DEF Dispatch, TypeOK, Only, Holding
    <3> QED BY <3>1, <3>2, Takes
  <2>2. CASE DispatchCanceled(c) \/ DispatchedAll(c)
    <3>1. Only(c) /\ pc[c] = "dispatch" /\ pc'[c] = "wait" /\ sem' = sem
      BY <2>2 DEF DispatchCanceled, DispatchedAll, TypeOK, Only
    <3> QED BY <3>1, Keeps DEF Holding
  <2> QED BY <1>1, <2>1, <2>2 DEF copyDispatch
<1>2. ASSUME NEW c \in Calls, copyNode(c) PROVE TokensConserved'
  <2>1. CASE StartData(c)
    <3>1. Only(c) /\ pc[c] = "start" /\ pc'[c] = "exists" /\ sem' = sem
      BY <2>1 DEF StartData, TypeOK, Only
    <3> QED BY <3>1, Keeps DEF Holding
  <2>2. CASE StartSuccessors(c) \/ FindSuccessorsFails(c)
    <3>1. Only(c) /\ pc[c] = "start" /\ pc'[c] \in {"dispatch", "record"} /\ sem' = sem - 1
      BY <2>2 DEF StartSuccessors, FindSuccessorsFails, TypeOK, Only
    <3> QED BY <3>1, Gives DEF Holding
  <2>3. CASE NestedReturns(c)
    <3>1. Only(c) /\ pc[c] = "wait" /\ pc'[c] \in {"acquire", "record"} /\ sem' = sem
      BY <2>3 DEF NestedReturns, TypeOK, Only
    <3> QED BY <3>1, Keeps DEF Holding
  <2>4. CASE Acquire(c)
    <3>1. Only(c) /\ pc[c] = "acquire" /\ pc'[c] = "exists" /\ sem' = sem + 1
      BY <2>4 DEF Acquire, TypeOK, Only
    <3> QED BY <3>1, Takes DEF Holding
  <2>5. CASE AcquireCanceled(c)
    <3>1. Only(c) /\ pc[c] = "acquire" /\ pc'[c] = "record" /\ sem' = sem
      BY <2>5 DEF AcquireCanceled, TypeOK, Only
    <3> QED BY <3>1, Keeps DEF Holding
  <2>6. CASE Release(c)
    <3>1. Only(c) /\ pc[c] = "release" /\ pc'[c] \in {"done", "record"} /\ sem' = sem - 1
      BY <2>6 DEF Release, TypeOK, Only
    <3> QED BY <3>1, Gives DEF Holding
  <2>7. CASE Record(c)
    <3>1. Only(c) /\ pc[c] = "record" /\ pc'[c] = "done" /\ sem' = sem
      BY <2>7 DEF Record, TypeOK, Only
    <3> QED BY <3>1, Keeps DEF Holding
  <2> QED BY <1>2, <2>1, <2>2, <2>3, <2>4, <2>5, <2>6, <2>7 DEF copyNode
<1>3. ASSUME NEW c \in Calls, copyNodeData(c) PROVE TokensConserved'
  <2>1. /\ Only(c) /\ sem' = sem
        /\ pc[c] \in {"exists", "fetch", "push"}
        /\ pc'[c] \in {"fetch", "push", "release"}
    BY <1>3 DEF copyNodeData, Exists, Fetch, Push, DataFails, TypeOK, Only
  <2> QED BY <2>1, Keeps DEF Holding
<1>4. CASE Run
  <2>1. /\ Only(Root) /\ sem' = sem
        /\ pc'[Root] = pc[Root] \/ pc'[Root] \in {"dispatch", "done"}
    BY <1>4, CallsType
       DEF Run, CopyPath, ResolveFails, CopyReturns, Tag, TagFails, TypeOK, Only
  <2>2. pc[Root] \in {"idle", "dispatch", "wait", "done"}
    BY DEF Tree
  <2>3. pc[Root] \in Holding <=> pc'[Root] \in Holding
    BY <2>1, <2>2 DEF Holding
  <2> QED BY <2>1, <2>3, Keeps, CallsType
<1>5. CASE Cancel
  BY <1>5 DEF Cancel, TokensConserved
<1>6. CASE Again
  <2>1. Holders' = {} /\ sem' = 0
    BY <1>6 DEF Again, Everywhere, Holders, Holding
  <2> QED BY <2>1, FS_EmptySet DEF TokensConserved, Holders
<1> QED BY <1>1, <1>2, <1>3, <1>4, <1>5, <1>6 DEF Next, Step

\* No path through copyNode loses a token of sem or gives one back twice.
THEOREM TokensAreConserved == ASSUME CopyAssumption PROVE Spec => []TokensConserved
<1> DEFINE I == Shape /\ TokensConserved
<1>1. Init => I
  BY ShapeInit, TokensInit
<1>2. I /\ [Next]_vars => I'
  <2>1. I /\ UNCHANGED vars => I'
    BY ShapeStutter DEF vars, TokensConserved
  <2> QED BY <2>1, ShapeStep, TokensStep
<1>3. I => TokensConserved
  OBVIOUS
<1> QED BY <1>1, <1>2, <1>3, PTL DEF Spec

----------------------------------------------------------------------------
(* What the calls have done *)

\* The data of c and the errors it carries, by where it is.
Result(c) ==
  /\ c = Root \/ pc[c] \notin {"release", "record", "done"} => err[c] = None
  /\ pc[c] = "record" => err[c] # None
  /\ c # Root /\ pc[c] \in {"release", "done"} /\ err[c] = None => node[c] \in dst
  /\ pc[c] \in {"idle", "start"} => retErr[c] = None
  /\ c # Root /\ pc[c] \in {"acquire", "exists", "fetch", "push"} =>
       retErr[c] = None /\ Below[node[c]] \subseteq dst
  /\ pc[c] = "wait" /\ retErr[c] = None => next[c] > Len(Dispatched(c))
  /\ c # Root /\ retErr[c] # None => pc[c] \in {"dispatch", "wait"} \/ err[c] # None

\* The calls that c started: it waits for them, and keeps the error of one.
Kids(c) ==
  \A i \in 1..(next[c] - 1) :
    /\ pc[Append(c, i)] # "done" => pc[c] \in {"dispatch", "wait"}
    /\ pc[Append(c, i)] = "done" /\ err[Append(c, i)] # None => retErr[c] # None

Results == \A c \in Calls : Result(c) /\ Kids(c)

\* A step of c, which may end it well, and leaves the other calls alone.
Local(c) ==
  /\ Only(c) /\ node' = node /\ next' = next /\ dst \subseteq dst'
  /\ \A d \in Calls : d # c => err'[d] = err[d] /\ retErr'[d] = retErr[d]
  /\ c # Root => pc[c] # "done" /\ (pc'[c] = "done" => err'[c] = None)
  /\ retErr[c] # None => retErr'[c] # None
  /\ \/ pc'[c] \in {"dispatch", "wait"}
     \/ pc[c] \notin {"dispatch", "wait"}
     \/ Running(c) = {}

\* Append(c, i), the kid of a call, is no other kid, nor Root, nor the call.
LEMMA KidFacts ==
  ASSUME CopyAssumption, Shape, NEW c \in Calls, NEW i \in 1..(next[c] - 1)
  PROVE  /\ Append(c, i) \in Calls /\ Append(c, i) # Root /\ Append(c, i) # c
         /\ Parent(Append(c, i)) = c
<1>1. c \in Seq(PosNat) /\ i \in PosNat /\ Len(c) \in Nat
  BY CallsType, LenProperties DEF Shape, TypeOK, PosNat
<1>2. Append(c, i) # Root /\ Len(Append(c, i)) = Len(c) + 1 /\ Parent(Append(c, i)) = c
  BY <1>1, AppendPosition
<1>3. Append(c, i) # c
  BY <1>1, <1>2
<1>4. Append(c, i) \in Calls
  BY DEF Shape, Tree, Branches
<1> QED BY <1>2, <1>3, <1>4

LEMMA RunningNone ==
  ASSUME CopyAssumption, Shape, NEW c \in Calls, Running(c) = {},
         NEW i \in 1..(next[c] - 1)
  PROVE  pc[Append(c, i)] = "done"
<1>1. Append(c, i) \in Calls
  BY KidFacts
<1> QED BY <1>1 DEF Running

LEMMA LocalStep ==
  ASSUME CopyAssumption, Shape, Results, NEW c \in Calls, Local(c), Result(c)'
  PROVE  Results'
<1> USE DEF Local, Only
<1>1. ASSUME NEW d \in Calls PROVE Result(d)'
  <2>1. CASE d # c
    <3>1. Dispatched(d)' = Dispatched(d)
      BY DEF Dispatched
    <3> QED BY <2>1, <3>1 DEF Result, Results
  <2> QED BY <2>1
<1>2. ASSUME NEW d \in Calls, NEW i \in 1..(next[d] - 1)
      PROVE  /\ pc'[Append(d, i)] # "done" => pc'[d] \in {"dispatch", "wait"}
             /\ pc'[Append(d, i)] = "done" /\ err'[Append(d, i)] # None => retErr'[d] # None
  <2> DEFINE k == Append(d, i)
  <2>1. k \in Calls /\ k # Root /\ k # d
    BY <1>2, KidFacts
  <2>2. /\ pc[k] # "done" => pc[d] \in {"dispatch", "wait"}
        /\ pc[k] = "done" /\ err[k] # None => retErr[d] # None
    BY <1>2 DEF Results, Kids
  <2>3. CASE k = c
    BY <2>1, <2>2, <2>3
  <2>4. CASE k # c /\ d # c
    BY <2>1, <2>2, <2>4
  <2>5. CASE d = c
    <3>1. pc'[k] = pc[k] /\ err'[k] = err[k]
      BY <2>1, <2>5
    <3>2. Running(c) = {} => pc[k] = "done"
      BY <1>2, <2>5, RunningNone
    <3> QED BY <2>2, <2>5, <3>1, <3>2
  <2> QED BY <2>3, <2>4, <2>5
<1>3. \A d \in Calls : Kids(d)'
  BY <1>2 DEF Kids
<1> QED BY <1>1, <1>3 DEF Results

LEMMA ResultsInit == CopyAssumption /\ Init => Results
<1> SUFFICES ASSUME CopyAssumption, Init, NEW c \in Calls PROVE Result(c) /\ Kids(c)
  BY DEF Results
<1>1. Result(c)
  BY DEF Init, Everywhere, Result
<1>2. Kids(c)
  BY DEF Init, Everywhere, Kids
<1> QED BY <1>1, <1>2

LEMMA ResultsDispatch ==
  ASSUME CopyAssumption, Shape, Results, NEW c \in Calls, Dispatch(c)
  PROVE  Results'
<1> DEFINE k == Append(c, next[c])
<1>1. /\ k \in Calls /\ pc[k] = "idle" /\ k # Root /\ k # c
      /\ \A d \in Calls : \A i \in 1..(next[d] - 1) : Append(d, i) # k
  BY NextIdle DEF Dispatch
<1>2. /\ \A d \in Calls : pc'[d] = IF d = k THEN "start" ELSE pc[d]
      /\ \A d \in Calls : d # k => node'[d] = node[d]
      /\ \A d \in Calls : next'[d] = IF d = c THEN next[d] + 1 ELSE next[d]
      /\ pc[c] = "dispatch" /\ next[c] \in Nat
      /\ dst' = dst /\ err' = err /\ retErr' = retErr
  BY <1>1 DEF Dispatch, Shape, TypeOK
<1>3. next[k] = 1
  BY <1>1 DEF Shape, Tree, Branches
<1>4. ASSUME NEW d \in Calls PROVE Result(d)'
  <2>1. CASE d = k
    <3>1. err[k] = None /\ retErr[k] = None
      BY <1>1 DEF Results, Result
    <3> QED BY <1>1, <1>2, <2>1, <3>1 DEF Result
  <2>2. CASE d # k
    <3>1. Dispatched(d)' = Dispatched(d)
      BY <1>2, <2>2 DEF Dispatched
    <3>2. d = c => pc'[d] = "dispatch"
      BY <1>1, <1>2
    <3>3. pc'[d] = pc[d] /\ (d = Root \/ node'[d] = node[d]) /\ (d # c => next'[d] = next[d])
      BY <1>2, <2>2
    <3> QED BY <1>2, <3>1, <3>2, <3>3 DEF Result, Results
  <2> QED BY <2>1, <2>2
<1>5. ASSUME NEW d \in Calls PROVE Kids(d)'
  <2>1. ASSUME NEW i \in 1..(next[d] - 1)
        PROVE  /\ pc'[Append(d, i)] # "done" => pc'[d] \in {"dispatch", "wait"}
               /\ pc'[Append(d, i)] = "done" /\ err'[Append(d, i)] # None => retErr'[d] # None
    <3>1. Append(d, i) # k /\ Append(d, i) \in Calls
      BY <1>1, KidFacts
    <3>2. d # k
      <4>1. next[d] # 1
        OBVIOUS
      <4> QED BY <1>3, <4>1
    <3>3. pc'[Append(d, i)] = pc[Append(d, i)] /\ pc'[d] = pc[d]
      BY <1>2, <3>1, <3>2
    <3>4. /\ pc[Append(d, i)] # "done" => pc[d] \in {"dispatch", "wait"}
          /\ pc[Append(d, i)] = "done" /\ err[Append(d, i)] # None => retErr[d] # None
      BY DEF Results, Kids
    <3> QED BY <1>2, <3>3, <3>4
  <2>2. CASE d # c
    BY <1>2, <2>1, <2>2 DEF Kids
  <2>3. CASE d = c
    <3>1. pc'[k] = "start" /\ pc'[c] = "dispatch"
      BY <1>1, <1>2
    <3>2. \A i \in 1..(next'[c] - 1) : i = next[c] \/ i \in 1..(next[c] - 1)
      BY <1>2
    <3> QED BY <2>1, <2>3, <3>1, <3>2 DEF Kids
  <2> QED BY <2>2, <2>3
<1> QED BY <1>4, <1>5 DEF Results

LEMMA ResultsRecord ==
  ASSUME CopyAssumption, Shape, Results, NEW c \in Calls, Record(c)
  PROVE  /\ Results'
         /\ Parent(c) \in Calls
         /\ cause' = "fault" => cause = "fault" \/ retErr'[Parent(c)] = "fault"
<1> DEFINE d == Parent(c)
<1>1. pc[c] = "record" /\ c # Root /\ err[c] # None /\ err[c] \in Errors \union {None}
  BY DEF Record, Results, Result, Shape, TypeOK
<1>2. PICK p \in Calls : \E i \in 1..(next[p] - 1) : c = Append(p, i)
  BY <1>1 DEF Shape, Tree, Begun
<1>3. PICK i \in 1..(next[p] - 1) : c = Append(p, i)
  BY <1>2
<1>4. d = p /\ d \in Calls /\ d # c
  BY <1>3, KidFacts
<1>5. pc[d] \in {"dispatch", "wait"}
  BY <1>1, <1>3, <1>4 DEF Results, Kids
<1>6. /\ \A e \in Calls : pc'[e] = IF e = c THEN "done" ELSE pc[e]
      /\ \A e \in Calls : e # d => retErr'[e] = retErr[e]
      /\ retErr'[d] # None
      /\ dst' = dst /\ err' = err /\ node' = node /\ next' = next
  BY <1>1, <1>4 DEF Record, Shape, TypeOK
<1>7. ASSUME NEW e \in Calls PROVE Result(e)'
  <2>1. Dispatched(e)' = Dispatched(e)
    BY <1>6 DEF Dispatched
  <2>2. Result(e)
    BY DEF Results
  <2>3. CASE e = c
    BY <1>1, <1>4, <1>6, <2>1, <2>2, <2>3 DEF Result
  <2>4. CASE e = d
    <3>1. pc'[e] = pc[e]
      BY <1>4, <1>6, <2>4
    <3> QED BY <1>5, <1>6, <2>1, <2>2, <2>4, <3>1 DEF Result
  <2>5. CASE e # c /\ e # d
    BY <1>6, <2>1, <2>2, <2>5 DEF Result
  <2> QED BY <2>3, <2>4, <2>5
<1>8. ASSUME NEW e \in Calls, NEW j \in 1..(next[e] - 1)
      PROVE  /\ pc'[Append(e, j)] # "done" => pc'[e] \in {"dispatch", "wait"}
             /\ pc'[Append(e, j)] = "done" /\ err'[Append(e, j)] # None => retErr'[e] # None
  <2>1. Append(e, j) \in Calls /\ Parent(Append(e, j)) = e
    BY KidFacts
  <2>2. CASE e = d
    BY <1>4, <1>5, <1>6, <2>2
  <2>3. CASE e # d
    <3>1. Append(e, j) # c
      BY <2>1, <2>3
    <3>2. /\ pc'[Append(e, j)] = pc[Append(e, j)]
          /\ retErr'[e] = retErr[e] /\ (e # c => pc'[e] = pc[e])
      BY <1>6, <2>1, <2>3, <3>1
    <3>3. /\ pc[Append(e, j)] # "done" => pc[e] \in {"dispatch", "wait"}
          /\ pc[Append(e, j)] = "done" /\ err[Append(e, j)] # None => retErr[e] # None
      BY DEF Results, Kids
    <3> QED BY <1>1, <1>6, <3>2, <3>3
  <2> QED BY <2>2, <2>3
<1>9. Results'
  BY <1>6, <1>7, <1>8 DEF Results, Kids
<1>10. cause' = "fault" => cause = "fault" \/ retErr'[d] = "fault"
  BY <1>4 DEF Record, Shape, TypeOK
<1> QED BY <1>4, <1>9, <1>10

\* A node is copied when what it refers to is there: of the path below Root only
\* the image is searched for successors.
LEMMA StartReady ==
  ASSUME CopyAssumption, Shape, NEW c \in Calls, StartData(c)
  PROVE  c # Root /\ Below[node[c]] = {}
<1>1. c # Root /\ pc[c] = "start"
  BY DEF StartData, Shape, Tree
<1>2. node[c] \in Nodes /\ \E d \in Calls : \E i \in 1..(next[d] - 1) : c = Append(d, i)
  BY <1>1 DEF Shape, Tree, Begun
<1>3. Below[node[c]] = IF node[c] \in Indexes THEN {} ELSE Content(node[c])
  BY <1>2 DEF Below
<1>4. CASE Recurse(c)
  <2>1. Succ[node[c]] = <<>>
    BY <1>4 DEF StartData
  <2>2. Content(node[c]) = {}
    BY <2>1, EmptySeq DEF Content
  <2> QED BY <1>1, <1>3, <2>2
<1>5. CASE ~Recurse(c)
  <2>1. Len(c) = 1 /\ c[1] # 1
    BY <1>1, <1>5 DEF Recurse
  <2>2. PICK d \in Calls : \E i \in 1..(next[d] - 1) : c = Append(d, i)
    BY <1>2
  <2>3. PICK i \in 1..(next[d] - 1) : c = Append(d, i)
    BY <2>2
  <2>4. d \in Seq(PosNat) /\ i \in PosNat /\ Len(d) \in Nat
    BY CallsType, LenProperties DEF Shape, TypeOK, PosNat
  <2>5. Len(c) = Len(d) + 1 /\ c[Len(d) + 1] = i
    BY <2>3, <2>4, AppendProperties
  <2>6. d = Root /\ i # 1
    <3>1. \A m, n : m \in Nat /\ n = m + 1 /\ n = 1 => m = 0
      OBVIOUS
    <3>2. Len(d) = 0
      BY <2>1, <2>4, <2>5, <3>1, Zenon
    <3>3. d = Root
      BY <2>4, <3>2, EmptySeq DEF Root
    <3> QED BY <2>1, <2>5, <3>2, <3>3
  <2>7. i <= Len(pathNodes) /\ node[c] = pathNodes[i]
    BY <2>3, <2>6 DEF Shape, Tree, Branches, Dispatched
  <2>8. Path \in Seq(Nodes) /\ Len(Path) \in Nat
    BY LenProperties DEF CopyAssumption
  <2>9. i \in 2..Len(Path) /\ pathNodes[i] = Path[Len(Path) + 1 - i]
    <3>1. \A j \in 1..Len(Path) : Path[Len(Path) + 1 - j] \in Nodes
      <4> TAKE j \in 1..Len(Path)
      <4>1. Len(Path) + 1 - j \in 1..Len(Path)
        BY <2>8
      <4> QED BY <2>8, <4>1, ElementOfSeq
    <3>2. Len(pathNodes) = Len(Path)
      BY <2>8, <3>1, IsASeq DEF pathNodes
    <3>3. i \in 2..Len(Path)
      BY <2>4, <2>6, <2>7, <2>8, <3>2 DEF PosNat
    <3> QED BY <3>3, <2>8 DEF pathNodes
  <2>10. Len(Path) + 1 - i \in 1..(Len(Path) - 1)
    BY <2>8, <2>9
  <2>11. node[c] \in Indexes
    BY <2>7, <2>9, <2>10 DEF Indexes
  <2> QED BY <1>1, <1>3, <2>11
<1> QED BY <1>4, <1>5

\* The nested copyDispatch of copyNode ended well: all successors are stored.
LEMMA NestedReady ==
  ASSUME CopyAssumption, Shape, Results, NEW c \in Calls, NestedReturns(c),
         retErr[c] = None
  PROVE  Below[node[c]] \subseteq dst
<1>1. pc[c] = "wait" /\ c # Root /\ Running(c) = {} /\ node[c] \in Nodes
  BY DEF NestedReturns, Shape, Tree, Begun
<1>2. next[c] > Len(Succ[node[c]]) /\ Len(Succ[node[c]]) \in Nat /\ next[c] \in Nat
  <2>1. next[c] > Len(Dispatched(c))
    BY <1>1 DEF Results, Result
  <2>2. Dispatched(c) = Succ[node[c]]
    BY <1>1 DEF Dispatched
  <2> QED BY <1>1, <2>1, <2>2, DispatchedType DEF Shape, TypeOK
<1>3. ASSUME NEW i \in 1..Len(Succ[node[c]]) PROVE Succ[node[c]][i] \in dst
  <2>1. i \in 1..(next[c] - 1)
    BY <1>2
  <2>2. pc[Append(c, i)] = "done" /\ Append(c, i) \in Calls /\ Append(c, i) # Root
    BY <1>1, <2>1, RunningNone, KidFacts
  <2>3. err[Append(c, i)] = None
    BY <2>1, <2>2 DEF Results, Kids
  <2>4. node[Append(c, i)] = Succ[node[c]][i]
    BY <1>1, <2>1 DEF Shape, Tree, Branches, Dispatched
  <2> QED BY <2>2, <2>3, <2>4 DEF Results, Result
<1>4. Content(node[c]) \subseteq dst
  BY <1>3 DEF Content
<1> QED BY <1>1, <1>4 DEF Below

\* What a step of a call other than Dispatch and Record does to the others.
LEMMA ResultsLocal ==
  ASSUME CopyAssumption, Shape, Results, NEW c \in Calls,
         copyDispatch(c) \/ copyNode(c) \/ copyNodeData(c),
         ~Dispatch(c), ~Record(c)
  PROVE  Results'
<1> USE DEF Results
<1>1. CASE copyDispatch(c)
  <2>1. CASE DispatchCanceled(c)
    <3>1. Local(c) /\ Result(c)
      BY <2>1 DEF Local, Only, DispatchCanceled, Shape, TypeOK, Tree, Results
    <3>2. Result(c)'
      BY <2>1, <3>1 DEF Result, Local, DispatchCanceled, Dispatched, Shape, TypeOK, Tree
    <3> QED BY <3>1, <3>2, LocalStep
  <2>2. CASE DispatchedAll(c)
    <3>1. Local(c) /\ Result(c)
      BY <2>2 DEF Local, Only, DispatchedAll, Shape, TypeOK, Tree, Results
    <3>2. Result(c)'
      BY <2>2, <3>1 DEF Result, Local, DispatchedAll, Dispatched, Shape, TypeOK, Tree
    <3> QED BY <3>1, <3>2, LocalStep
  <2> QED BY <1>1, <2>1, <2>2 DEF copyDispatch
<1>2. CASE copyNode(c)
  <2>1. CASE StartData(c)
    <3>1. Local(c) /\ Result(c)
      BY <2>1 DEF Local, Only, StartData, Shape, TypeOK, Tree, Results
    <3>2. Result(c)'
      BY <2>1, <3>1, StartReady DEF Result, Local, StartData, Shape, TypeOK, Tree
    <3> QED BY <3>1, <3>2, LocalStep
  <2>2. CASE StartSuccessors(c)
    <3>1. Local(c) /\ Result(c)
      BY <2>2 DEF Local, Only, StartSuccessors, Shape, TypeOK, Tree, Results
    <3>2. Result(c)'
      BY <2>2, <3>1 DEF Result, Local, StartSuccessors, Shape, TypeOK, Tree
    <3> QED BY <3>1, <3>2, LocalStep
  <2>3. CASE FindSuccessorsFails(c)
    <3>1. Local(c) /\ Result(c)
      BY <2>3 DEF Local, Only, FindSuccessorsFails, Shape, TypeOK, Tree, Results
    <3>2. Result(c)'
      BY <2>3, <3>1, CallsType DEF Result, Local, FindSuccessorsFails, Failures, Shape, TypeOK, Tree
    <3> QED BY <3>1, <3>2, LocalStep
  <2>4. CASE NestedReturns(c)
    <3>1. Local(c) /\ Result(c)
      BY <2>4 DEF Local, Only, NestedReturns, Shape, TypeOK, Tree, Results
    <3>2. Result(c)'
      BY <2>4, <3>1, NestedReady DEF Result, Local, NestedReturns, Shape, TypeOK, Tree
    <3> QED BY <3>1, <3>2, LocalStep
  <2>5. CASE Acquire(c)
    <3>1. Local(c) /\ Result(c)
      BY <2>5 DEF Local, Only, Acquire, Shape, TypeOK, Tree, Results
    <3>2. Result(c)'
      BY <2>5, <3>1 DEF Result, Local, Acquire, Shape, TypeOK, Tree
    <3> QED BY <3>1, <3>2, LocalStep
  <2>6. CASE AcquireCanceled(c)
    <3>1. Local(c) /\ Result(c)
      BY <2>6 DEF Local, Only, AcquireCanceled, Shape, TypeOK, Tree, Results
    <3>2. Result(c)'
      BY <2>6, <3>1, CallsType DEF Result, Local, AcquireCanceled, Shape, TypeOK, Tree
    <3> QED BY <3>1, <3>2, LocalStep
  <2>7. CASE Release(c)
    <3>1. Local(c) /\ Result(c)
      BY <2>7 DEF Local, Only, Release, Shape, TypeOK, Tree, Results
    <3>2. Result(c)'
      BY <2>7, <3>1 DEF Result, Local, Release, Shape, TypeOK, Tree
    <3> QED BY <3>1, <3>2, LocalStep
  <2> QED BY <1>2, <2>1, <2>2, <2>3, <2>4, <2>5, <2>6, <2>7 DEF copyNode
<1>3. CASE copyNodeData(c)
  <2>1. CASE Exists(c)
    <3>1. Local(c) /\ Result(c)
      BY <2>1 DEF Local, Only, Exists, Shape, TypeOK, Tree, Results
    <3>2. Result(c)'
      BY <2>1, <3>1 DEF Result, Local, Exists, Shape, TypeOK, Tree
    <3> QED BY <3>1, <3>2, LocalStep
  <2>2. CASE Fetch(c)
    <3>1. Local(c) /\ Result(c)
      BY <2>2 DEF Local, Only, Fetch, Shape, TypeOK, Tree, Results
    <3>2. Result(c)'
      BY <2>2, <3>1 DEF Result, Local, Fetch, Shape, TypeOK, Tree
    <3> QED BY <3>1, <3>2, LocalStep
  <2>3. CASE Push(c)
    <3>1. Local(c) /\ Result(c)
      BY <2>3 DEF Local, Only, Push, Shape, TypeOK, Tree, Results
    <3>2. Result(c)'
      BY <2>3, <3>1 DEF Result, Local, Push, Shape, TypeOK, Tree
    <3> QED BY <3>1, <3>2, LocalStep
  <2>4. CASE DataFails(c)
    <3>1. Local(c) /\ Result(c)
      BY <2>4 DEF Local, Only, DataFails, Shape, TypeOK, Tree, Results
    <3>2. Result(c)'
      BY <2>4, <3>1, CallsType DEF Result, Local, DataFails, Failures, Shape, TypeOK, Tree
    <3> QED BY <3>1, <3>2, LocalStep
  <2> QED BY <1>3, <2>1, <2>2, <2>3, <2>4 DEF copyNodeData
<1> QED BY <1>1, <1>2, <1>3

\* A node is stored when what it refers to is.
LEMMA StoreStep ==
  ASSUME CopyAssumption, Shape, Results, NEW c \in Calls,
         copyDispatch(c) \/ copyNode(c) \/ copyNodeData(c)
  PROVE  \/ dst' = dst
         \/ /\ pc[c] = "push" /\ node[c] \in Nodes
            /\ Below[node[c]] \subseteq dst
            /\ dst' = dst \union {node[c]}
<1>1. CASE copyDispatch(c)
  BY <1>1 DEF copyDispatch, Dispatch, DispatchCanceled, DispatchedAll
<1>2. CASE copyNode(c)
  BY <1>2 DEF copyNode, StartData, StartSuccessors, FindSuccessorsFails, NestedReturns,
              Acquire, AcquireCanceled, Release, Record
<1>3. CASE copyNodeData(c)
  <2>1. CASE pc[c] = "push"
    <3>1. c # Root /\ node[c] \in Nodes
      BY <2>1 DEF Shape, Tree, Begun
    <3>2. Below[node[c]] \subseteq dst
      BY <2>1, <3>1 DEF Results, Result
    <3>3. dst' = dst \/ dst' = dst \union {node[c]}
      BY <1>3 DEF copyNodeData, Exists, Fetch, Push, DataFails
    <3> QED BY <2>1, <3>1, <3>2, <3>3
  <2>2. CASE pc[c] # "push"
    BY <1>3, <2>2 DEF copyNodeData, Exists, Fetch, Push, DataFails
  <2> QED BY <2>1, <2>2
<1> QED BY <1>1, <1>2, <1>3

----------------------------------------------------------------------------
(* What holds of the whole pull *)

\* When the outer copyDispatch has no goroutine left, nobody has: of the calls
\* that run, one has the shortest position, and its parent waits for it.
LEMMA AllEnded ==
  ASSUME CopyAssumption, Shape, Results, Running(Root) = {}
  PROVE  \A c \in Calls : c # Root => pc[c] \in {"idle", "done"}
<1> DEFINE T == {c \in Calls : c # Root /\ pc[c] \notin {"idle", "done"}}
<1> SUFFICES ASSUME T # {} PROVE FALSE
  OBVIOUS
<1>1. T \subseteq Seq(PosNat)
  BY CallsType
<1>2. PICK c \in T : \A d \in T : ~(Len(d) < Len(c))
  <2> HIDE DEF T
  <2> QED BY <1>1, Shortest
<1>3. PICK d \in Calls : \E i \in 1..(next[d] - 1) : c = Append(d, i)
  BY DEF Shape, Tree, Begun
<1>4. PICK i \in 1..(next[d] - 1) : c = Append(d, i)
  BY <1>3
<1>5. pc[d] \in {"dispatch", "wait"}
  BY <1>4 DEF Results, Kids
<1>6. d # Root
  BY <1>4, RunningNone, CallsType
<1>7. d \in T
  BY <1>5, <1>6
<1>8. Len(d) \in Nat /\ Len(c) = Len(d) + 1
  <2>1. d \in Seq(PosNat) /\ i \in PosNat
    BY CallsType DEF Shape, TypeOK, PosNat
  <2> QED BY <1>4, <2>1, AppendPosition, LenProperties
<1> QED BY <1>2, <1>7, <1>8

\* When it has no error either, no call had one: of those that had, one has the
\* shortest position, and its parent kept an error.
LEMMA NoneFailed ==
  ASSUME CopyAssumption, Shape, Results, Running(Root) = {}, retErr[Root] = None
  PROVE  \A c \in Calls : err[c] = None /\ retErr[c] = None
<1> DEFINE T == {c \in Calls : ~(err[c] = None /\ retErr[c] = None)}
<1> SUFFICES ASSUME T # {} PROVE FALSE
  OBVIOUS
<1>1. T \subseteq Seq(PosNat)
  BY CallsType
<1>2. PICK c \in T : \A d \in T : ~(Len(d) < Len(c))
  <2> HIDE DEF T
  <2> QED BY <1>1, Shortest
<1>3. c # Root
  BY CallsType DEF Results, Result
<1>4. pc[c] = "done" /\ err[c] # None
  <2>1. pc[c] \in {"idle", "done"}
    BY <1>3, AllEnded
  <2> QED BY <1>3, <2>1 DEF Results, Result
<1>5. PICK d \in Calls : \E i \in 1..(next[d] - 1) : c = Append(d, i)
  BY <1>3, <1>4 DEF Shape, Tree, Begun
<1>6. PICK i \in 1..(next[d] - 1) : c = Append(d, i)
  BY <1>5
<1>7. d \in T
  BY <1>4, <1>6 DEF Results, Kids
<1>8. Len(d) \in Nat /\ Len(c) = Len(d) + 1
  <2>1. d \in Seq(PosNat) /\ i \in PosNat
    BY CallsType DEF Shape, TypeOK, PosNat
  <2> QED BY <1>6, <2>1, AppendPosition, LenProperties
<1> QED BY <1>2, <1>7, <1>8

\* And then the path is stored.
LEMMA PathStored ==
  ASSUME CopyAssumption, Shape, Results, Running(Root) = {}, retErr[Root] = None,
         pc[Root] = "wait"
  PROVE  Wanted \subseteq dst
<1>1. Path \in Seq(Nodes) /\ Len(Path) \in Nat \ {0}
  BY EmptySeq DEF CopyAssumption
<1>2. Len(pathNodes) = Len(Path)
  <2>1. \A j \in 1..Len(Path) : Path[Len(Path) + 1 - j] \in Nodes
    <3> TAKE j \in 1..Len(Path)
    <3>1. Len(Path) + 1 - j \in 1..Len(Path)
      BY <1>1
    <3> QED BY <1>1, <3>1, ElementOfSeq
  <2> QED BY <1>1, <2>1, IsASeq DEF pathNodes
<1>3. next[Root] > Len(Path) /\ next[Root] \in Nat
  BY <1>2, CallsType DEF Results, Result, Dispatched, Shape, TypeOK
<1>4. ASSUME NEW j \in 1..Len(Path) PROVE Path[j] \in dst
  <2> DEFINE i == Len(Path) + 1 - j
  <2>1. i \in 1..Len(Path) /\ i \in 1..(next[Root] - 1) /\ Len(Path) + 1 - i = j
    <3>1. j \in Nat /\ 1 <= j /\ j <= Len(Path) /\ Len(Path) \in Nat
      BY <1>1
    <3>2. i \in 1..Len(Path) /\ Len(Path) + 1 - i = j
      BY <3>1
    <3> HIDE DEF i
    <3> QED BY <1>3, <3>1, <3>2
  <2>2. pathNodes[i] = Path[j]
    <3>1. pathNodes[i] = Path[Len(Path) + 1 - i]
      BY <2>1 DEF pathNodes
    <3> QED BY <2>1, <3>1
  <2> HIDE DEF i
  <2>3. /\ Append(Root, i) \in Calls /\ Append(Root, i) # Root
        /\ pc[Append(Root, i)] = "done"
    BY <2>1, RunningNone, KidFacts, CallsType
  <2>4. err[Append(Root, i)] = None
    BY <2>3, NoneFailed
  <2>5. node[Append(Root, i)] = pathNodes[i]
    BY <2>1, CallsType DEF Shape, Tree, Branches, Dispatched
  <2>6. Result(Append(Root, i))
    BY <2>3 DEF Results
  <2>7. node[Append(Root, i)] \in dst
    BY <2>3, <2>4, <2>6 DEF Result
  <2> QED BY <2>2, <2>5, <2>7
<1>5. Image \in dst
  <2>1. Len(Path) \in 1..Len(Path)
    BY <1>1
  <2> QED BY <1>4, <2>1 DEF Image
<1>6. \A j \in 1..(Len(Path) - 1) : j \in 1..Len(Path)
  BY <1>1
<1>7. Indexes \subseteq dst
  BY <1>4, <1>6 DEF Indexes
<1> QED BY <1>5, <1>7 DEF Wanted

\* What each phase of Pull can rely on.
Phase ==
  /\ NothingOutlives
  /\ pull \in {"tag", "done"} => \A c \in Calls : err[c] = None /\ retErr[c] = None
  /\ pull = "tag" => Wanted \subseteq dst
  /\ TaggedWhole

Inv == Shape /\ Results /\ SuccessorsFirst /\ CauseRecorded /\ Phase

LEMMA InvInit == CopyAssumption /\ Init => Inv
<1> SUFFICES ASSUME CopyAssumption, Init PROVE Inv
  OBVIOUS
<1>1. Shape /\ Results
  BY ShapeInit, ResultsInit
<1>2. SuccessorsFirst /\ TaggedWhole
  BY DEF Init, SuccessorsFirst, TaggedWhole
<1>3. CauseRecorded
  BY CallsType DEF Init, CauseRecorded
<1>4. Phase
  BY <1>2 DEF Init, Everywhere, Phase, NothingOutlives
<1> QED BY <1>1, <1>2, <1>3, <1>4 DEF Inv

\* The steps of the calls, all within the copy.
LEMMA CallStep ==
  ASSUME CopyAssumption, Inv, NEW c \in Calls,
         copyDispatch(c) \/ copyNode(c) \/ copyNodeData(c)
  PROVE  Inv' /\ pull = "copy" /\ pull' = pull /\ tagged' = tagged
<1> USE DEF Inv
<1>1. Next
  BY DEF Next, Step
<1>2. pc[c] \notin {"idle", "done"} /\ pull' = pull /\ tagged' = tagged
  <2>1. CASE copyDispatch(c)
    BY <2>1 DEF copyDispatch, Dispatch, DispatchCanceled, DispatchedAll
  <2>2. CASE copyNode(c)
    BY <2>2 DEF copyNode, StartData, StartSuccessors, FindSuccessorsFails,
                NestedReturns, Acquire, AcquireCanceled, Release, Record
  <2>3. CASE copyNodeData(c)
    BY <2>3 DEF copyNodeData, Exists, Fetch, Push, DataFails
  <2> QED BY <2>1, <2>2, <2>3
<1>3. pull = "copy"
  BY <1>2 DEF Phase, NothingOutlives
<1>4. Results'
  BY ResultsLocal, ResultsDispatch, ResultsRecord
<1>5. dst \subseteq dst' /\ SuccessorsFirst'
  BY StoreStep DEF SuccessorsFirst
<1>6. CauseRecorded'
  <2>1. CASE Record(c)
    <3>1. ASSUME NEW d \in Calls, retErr[d] = "fault" PROVE retErr'[d] = "fault"
      BY <2>1, <3>1, CallsType DEF Record, Shape, TypeOK
    <3> QED BY <2>1, <3>1, ResultsRecord DEF CauseRecorded
  <2>2. CASE ~Record(c)
    <3>1. cause' = cause
      BY <2>2 DEF copyDispatch, Dispatch, DispatchCanceled, DispatchedAll, copyNode,
           StartData, StartSuccessors, FindSuccessorsFails, NestedReturns, Acquire,
           AcquireCanceled, Release, copyNodeData, Exists, Fetch, Push, DataFails
    <3>2. retErr' = retErr \/ DispatchCanceled(c)
      BY <2>2 DEF copyDispatch, Dispatch, DispatchedAll, copyNode,
           StartData, StartSuccessors, FindSuccessorsFails, NestedReturns, Acquire,
           AcquireCanceled, Release, copyNodeData, Exists, Fetch, Push, DataFails
    <3>3. ASSUME NEW d \in Calls, retErr[d] = "fault" PROVE retErr'[d] = "fault"
      BY <3>2, <3>3, CallsType DEF DispatchCanceled, Shape, TypeOK
    <3> QED BY <3>1, <3>3 DEF CauseRecorded
  <2> QED BY <2>1, <2>2
<1>7. Phase'
  BY <1>2, <1>3, <1>5 DEF Phase, NothingOutlives, TaggedWhole
<1> QED BY <1>1, <1>2, <1>3, <1>4, <1>5, <1>6, <1>7, ShapeStep

\* The steps of Pull itself, of its caller and of the next process.
LEMMA RunStep ==
  ASSUME CopyAssumption, Inv, Run \/ Cancel \/ Again
  PROVE  Inv'
<1> USE DEF Inv
<1>1. Shape'
  BY ShapeStep DEF Next, Step
<1>2. dst' = dst
  BY DEF Run, CopyPath, ResolveFails, CopyReturns, Tag, TagFails, Cancel, Again
<1>3. SuccessorsFirst'
  BY <1>2 DEF SuccessorsFirst
<1>4. CASE CopyPath
  <2>1. Local(Root) /\ Result(Root)'
    BY <1>4, CallsType DEF CopyPath, Local, Only, Shape, TypeOK, Results, Result
  <2>2. Results'
    BY <2>1, LocalStep, CallsType
  <2>3. CauseRecorded' /\ Phase'
    BY <1>4 DEF CopyPath, CauseRecorded, Phase, NothingOutlives, TaggedWhole
  <2> QED BY <1>1, <1>3, <2>2, <2>3
<1>5. CASE CopyReturns
  <2>1. Local(Root) /\ Result(Root)'
    BY <1>5, CallsType DEF CopyReturns, Local, Only, Shape, TypeOK, Results, Result
  <2>2. Results'
    BY <2>1, LocalStep, CallsType
  <2>3. CauseRecorded'
    BY <1>5 DEF CopyReturns, CauseRecorded
  <2>4. NothingOutlives'
    <3>1. \A c \in Calls : c # Root => pc[c] \in {"idle", "done"}
      BY <1>5, AllEnded DEF CopyReturns
    <3> QED BY <1>5, <3>1 DEF CopyReturns, NothingOutlives, Shape, TypeOK
  <2>5. pull' \in {"tag", "failed"} /\ (pull' = "tag" => retErr[Root] = None)
    BY <1>5 DEF CopyReturns
  <2>6. retErr[Root] = None => \A c \in Calls : err[c] = None /\ retErr[c] = None
    BY <1>5, NoneFailed DEF CopyReturns
  <2>7. retErr[Root] = None => Wanted \subseteq dst
    BY <1>5, PathStored DEF CopyReturns
  <2>8. err' = err /\ retErr' = retErr /\ tagged' = tagged
    BY <1>5 DEF CopyReturns
  <2>9. Phase'
    BY <1>2, <2>4, <2>5, <2>6, <2>7, <2>8 DEF Phase, TaggedWhole
  <2> QED BY <1>1, <1>3, <2>2, <2>3, <2>9
<1>6. CASE ResolveFails \/ Tag \/ TagFails
  <2>1. /\ pc' = pc /\ node' = node /\ next' = next /\ retErr' = retErr /\ err' = err
        /\ cause' = cause
    BY <1>6 DEF ResolveFails, Tag, TagFails
  <2>2. Results'
    BY <1>2, <2>1 DEF Results, Result, Kids, Dispatched
  <2>3. CauseRecorded'
    BY <2>1 DEF CauseRecorded
  <2>4. /\ pull \in {"idle", "tag"} /\ pull' \in {"failed", "done"}
        /\ pull' = "done" => pull = "tag"
        /\ tagged' => tagged \/ pull = "tag"
    BY <1>6 DEF ResolveFails, Tag, TagFails
  <2>5. Phase'
    BY <1>2, <2>1, <2>4 DEF Phase, NothingOutlives, TaggedWhole
  <2> QED BY <1>1, <1>3, <2>2, <2>3, <2>5
<1>7. CASE Cancel
  <2>1. /\ pc' = pc /\ node' = node /\ next' = next /\ retErr' = retErr /\ err' = err
        /\ cause' = "canceled" /\ pull' = pull /\ tagged' = tagged
    BY <1>7 DEF Cancel
  <2>2. Results'
    BY <1>2, <2>1 DEF Results, Result, Kids, Dispatched
  <2>3. CauseRecorded' /\ Phase'
    BY <1>2, <2>1 DEF CauseRecorded, Phase, NothingOutlives, TaggedWhole
  <2> QED BY <1>1, <1>3, <2>2, <2>3
<1>8. CASE Again
  <2>1. Results'
    BY <1>8 DEF Again, Everywhere, Results, Result, Kids
  <2>2. CauseRecorded' /\ Phase'
    BY <1>2, <1>8, CallsType
       DEF Again, Everywhere, CauseRecorded, Phase, NothingOutlives, TaggedWhole
  <2> QED BY <1>1, <1>3, <2>1, <2>2
<1> QED BY <1>4, <1>5, <1>6, <1>7, <1>8 DEF Run

LEMMA InvStutter == ASSUME Inv, UNCHANGED vars PROVE Inv'
<1>1. /\ pc' = pc /\ node' = node /\ next' = next /\ retErr' = retErr /\ err' = err
      /\ cause' = cause /\ pull' = pull /\ tagged' = tagged /\ dst' = dst
  BY DEF vars
<1>2. Shape'
  BY ShapeStutter DEF Inv
<1>3. Results'
  BY <1>1 DEF Inv, Results, Result, Kids, Dispatched
<1>4. SuccessorsFirst' /\ CauseRecorded' /\ Phase'
  BY <1>1 DEF Inv, SuccessorsFirst, CauseRecorded, Phase, NothingOutlives, TaggedWhole
<1> QED BY <1>2, <1>3, <1>4 DEF Inv

LEMMA InvStep == ASSUME CopyAssumption, Inv, [Next]_vars PROVE Inv'
BY CallStep, RunStep, InvStutter DEF Next, Step

LEMMA Invariance == ASSUME CopyAssumption PROVE Spec => []Inv
<1>1. Init => Inv
  BY InvInit
<1>2. Inv /\ [Next]_vars => Inv'
  BY InvStep
<1> QED BY <1>1, <1>2, PTL DEF Spec

\* Whatever is cut off or fails, the destination has a manifest of the image only
\* with all it refers to.
THEOREM StoredBottomUp == ASSUME CopyAssumption PROVE Spec => []SuccessorsFirst
<1>1. Inv => SuccessorsFirst
  BY DEF Inv
<1> QED BY <1>1, Invariance, PTL

\* Pull names an image only when its whole path is there.
THEOREM TaggedIsWhole == ASSUME CopyAssumption PROVE Spec => []TaggedWhole
<1>1. Inv => TaggedWhole
  BY DEF Inv, Phase
<1> QED BY <1>1, Invariance, PTL

\* copyPath returns after every goroutine it started, nested ones included.
THEOREM NothingIsLeft == ASSUME CopyAssumption PROVE Spec => []NothingOutlives
<1>1. Inv => NothingOutlives
  BY DEF Inv, Phase
<1> QED BY <1>1, Invariance, PTL

\* No error of any depth is lost on its way up to Pull.
THEOREM ErrorsArrive == ASSUME CopyAssumption PROVE Spec => []NoErrorLost
<1>1. Inv => NoErrorLost
  BY DEF Inv, Phase, NoErrorLost
<1> QED BY <1>1, Invariance, PTL

\* The error that cancelled the context is kept by its own copyDispatch.
THEOREM CauseIsRecorded == ASSUME CopyAssumption PROVE Spec => []CauseRecorded
<1>1. Inv => CauseRecorded
  BY DEF Inv
<1> QED BY <1>1, Invariance, PTL

----------------------------------------------------------------------------
(* Progress: the safety half of Termination.  The calls block each other in two *)
(* ways, on a token of sem and in wg.Wait, and on nothing else.               *)

\* What a call waits for where it is, is there.
CanRun(c) ==
  \/ /\ pc[c] = "dispatch"
     /\ \/ next[c] > Len(Dispatched(c))
        \/ sem < Concurrency /\ Append(c, next[c]) \in Calls
  \/ pc[c] = "wait" /\ Running(c) = {}
  \/ pc[c] = "acquire" /\ sem < Concurrency
  \/ pc[c] = "start" /\ sem > 0
  \/ pc[c] = "release" /\ sem > 0
  \/ pc[c] \in {"exists", "fetch", "push", "record"}

SomeoneRuns == pull = "copy" => \E c \in Calls : CanRun(c)

Ranks ==
  [l \in Locations |->
     CASE l = "idle" -> 0 [] l = "start" -> 1 [] l = "dispatch" -> 2
       [] l = "wait" -> 3 [] l = "acquire" -> 4 [] l = "exists" -> 5
       [] l = "fetch" -> 6 [] l = "push" -> 7 [] l = "release" -> 8
       [] l = "record" -> 9 [] l = "done" -> 10]
PullRanks ==
  [p \in {"idle", "copy", "tag", "done", "failed"} |->
     CASE p = "idle" -> 0 [] p = "copy" -> 1 [] p = "tag" -> 2 [] OTHER -> 3]

\* No call goes back, none has dispatched more nodes than it has, and one of them,
\* or Pull, goes forward.
Forward ==
  /\ \A c \in Calls :
       /\ Ranks[pc[c]] <= Ranks[pc'[c]]
       /\ next[c] <= next'[c]
       /\ pc[c] # "idle" => next[c] <= Len(Dispatched(c)) + 1
  /\ PullRanks[pull] <= PullRanks[pull']
  /\ \/ \E c \in Calls : Ranks[pc[c]] < Ranks[pc'[c]]
     \/ PullRanks[pull] < PullRanks[pull']

\* A call that has begun is for the node of its label.
Labelled(f) ==
  \A c \in Calls \ {Root} :
    /\ pc[c] # "idle" => node[c] = f[c]
    /\ pc[c] = "dispatch" => Recurse(c)

\* The outer copyDispatch runs while Pull copies, and not before.
RootRuns ==
  /\ pull = "idle" => pc[Root] = "idle"
  /\ pull = "copy" => pc[Root] \in {"dispatch", "wait"}

LEMMA RootStep ==
  ASSUME CopyAssumption, Inv, RootRuns, [Next]_vars
  PROVE  RootRuns'
<1> USE CallsType DEF Inv
<1>1. ASSUME NEW c \in Calls, copyDispatch(c) PROVE RootRuns'
  <2>1. CASE Dispatch(c)
    <3>1. Append(c, next[c]) # Root
      BY <2>1, NextIdle DEF Dispatch
    <3> QED BY <2>1, <3>1 DEF Dispatch, Shape, TypeOK, RootRuns
  <2>2. CASE DispatchCanceled(c) \/ DispatchedAll(c)
    BY <2>2 DEF DispatchCanceled, DispatchedAll, Shape, TypeOK, RootRuns
  <2> QED BY <1>1, <2>1, <2>2 DEF copyDispatch
<1>2. ASSUME NEW c \in Calls, copyNode(c) \/ copyNodeData(c) PROVE RootRuns'
  <2>1. c # Root
    <3>1. pc[Root] \in {"idle", "dispatch", "wait", "done"}
      BY DEF Shape, Tree
    <3> QED BY <1>2, <3>1 DEF copyNode, StartData, StartSuccessors, FindSuccessorsFails,
         NestedReturns, Acquire, AcquireCanceled, Release, Record,
         copyNodeData, Exists, Fetch, Push, DataFails
  <2>2. pc'[Root] = pc[Root] /\ pull' = pull
    BY <1>2, <2>1 DEF copyNode, StartData, StartSuccessors, FindSuccessorsFails,
         NestedReturns, Acquire, AcquireCanceled, Release, Record,
         copyNodeData, Exists, Fetch, Push, DataFails, Shape, TypeOK
  <2> QED BY <2>2 DEF RootRuns
<1>3. CASE Run
  BY <1>3 DEF Run, CopyPath, ResolveFails, CopyReturns, Tag, TagFails, Shape, TypeOK, RootRuns
<1>4. CASE Again
  BY <1>4 DEF Again, Everywhere, RootRuns
<1>5. CASE Cancel \/ UNCHANGED vars
  BY <1>5 DEF Cancel, vars, RootRuns
<1> QED BY <1>1, <1>2, <1>3, <1>4, <1>5 DEF Next, Step

LEMMA RootInvariant == ASSUME CopyAssumption PROVE Spec => []RootRuns
<1>1. Init => RootRuns
  BY CallsType DEF Init, Everywhere, RootRuns
<1>2. Inv /\ RootRuns /\ [Next]_vars => RootRuns'
  BY RootStep
<1> QED BY <1>1, <1>2, Invariance, PTL DEF Spec

LEMMA LabelledDispatch ==
  ASSUME CopyAssumption, NEW f, Unfolds(f), Shape, Labelled(f), NEW c \in Calls, Dispatch(c)
  PROVE  Labelled(f)'
<1> DEFINE k == Append(c, next[c])
<1>1. /\ k \in Calls /\ k # Root /\ k # c /\ pc[k] = "idle"
      /\ next[c] \in 1..Len(Dispatched(c))
  <2>1. next[c] \in PosNat
    BY DEF Shape, TypeOK, PosNat
  <2>2. Len(Dispatched(c)) \in Nat
    BY DispatchedType DEF Shape, Tree, Begun, Dispatch
  <2>3. next[c] <= Len(Dispatched(c)) /\ k \in Calls
    BY DEF Dispatch
  <2>4. next[c] \in 1..Len(Dispatched(c))
    BY <2>1, <2>2, <2>3 DEF PosNat
  <2> QED BY <2>3, <2>4, NextIdle
<1>2. /\ \A d \in Calls : d # k => pc'[d] = pc[d] /\ node'[d] = node[d]
      /\ pc'[k] = "start" /\ node'[k] = Dispatched(c)[next[c]] /\ pull' = pull
  BY <1>1 DEF Dispatch, Shape, TypeOK
<1>3. Dispatched(c)[next[c]] = f[k]
  <2>1. CASE c = Root
    BY <1>1, <2>1 DEF Unfolds, Dispatched
  <2>2. CASE c # Root
    <3>1. Recurse(c) /\ node[c] = f[c]
      BY <2>2 DEF Labelled, Dispatch
    <3>2. Dispatched(c) = Succ[f[c]]
      BY <2>2, <3>1 DEF Dispatched
    <3>3. \A i \in 1..Len(Succ[f[c]]) : f[Append(c, i)] = Succ[f[c]][i]
      BY <2>2, <3>1 DEF Unfolds
    <3> QED BY <1>1, <3>2, <3>3
  <2> QED BY <2>1, <2>2
<1>4. \A d \in Calls : Recurse(d)' = Recurse(d)
  BY DEF Recurse
<1> HIDE DEF k
<1>5. ASSUME NEW d \in Calls \ {Root}
      PROVE  (pc'[d] # "idle" => node'[d] = f[d]) /\ (pc'[d] = "dispatch" => Recurse(d))
  <2>1. CASE d = k
    BY <1>2, <1>3, <2>1
  <2>2. CASE d # k
    BY <1>2, <2>2 DEF Labelled
  <2> QED BY <2>1, <2>2
<1> QED BY <1>4, <1>5 DEF Labelled

\* A step of another call, or of Pull, that starts none.
LEMMA LabelledMove ==
  ASSUME CopyAssumption, NEW f, Labelled(f), NEW c \in Calls,
         Only(c), node' = node,
         c # Root => pc[c] # "idle" /\ (pc'[c] = "dispatch" => Recurse(c))
  PROVE  Labelled(f)'
<1>1. \A d \in Calls : Recurse(d)' = Recurse(d)
  BY DEF Recurse
<1>2. ASSUME NEW d \in Calls \ {Root}
      PROVE  (pc'[d] # "idle" => node'[d] = f[d]) /\ (pc'[d] = "dispatch" => Recurse(d))
  <2>1. CASE d = c
    BY <2>1 DEF Labelled
  <2>2. CASE d # c
    BY <2>2 DEF Labelled, Only
  <2> QED BY <2>1, <2>2
<1> QED BY <1>1, <1>2 DEF Labelled

LEMMA LabelledStep ==
  ASSUME CopyAssumption, NEW f, Unfolds(f), Inv, Labelled(f), [Next]_vars
  PROVE  Labelled(f)'
<1> USE DEF Inv
<1>1. ASSUME NEW c \in Calls, copyDispatch(c) PROVE Labelled(f)'
  <2>1. CASE Dispatch(c)
    BY <2>1, LabelledDispatch
  <2>2. CASE DispatchCanceled(c) \/ DispatchedAll(c)
    <3>1. Only(c) /\ node' = node /\ pc[c] = "dispatch" /\ pc'[c] = "wait"
      BY <2>2 DEF DispatchCanceled, DispatchedAll, Shape, TypeOK, Only
    <3> QED BY <3>1, LabelledMove
  <2> QED BY <1>1, <2>1, <2>2 DEF copyDispatch
<1>2. ASSUME NEW c \in Calls, copyNode(c) PROVE Labelled(f)'
  <2>1. Only(c) /\ node' = node /\ pc[c] # "idle"
    BY <1>2 DEF copyNode, StartData, StartSuccessors, FindSuccessorsFails,
         NestedReturns, Acquire, AcquireCanceled, Release, Record, Shape, TypeOK, Only
  <2>2. pc'[c] = "dispatch" => Recurse(c)
    BY <1>2 DEF copyNode, StartData, StartSuccessors, FindSuccessorsFails,
         NestedReturns, Acquire, AcquireCanceled, Release, Record, Shape, TypeOK
  <2> QED BY <2>1, <2>2, LabelledMove
<1>3. ASSUME NEW c \in Calls, copyNodeData(c) PROVE Labelled(f)'
  <2>1. /\ Only(c) /\ node' = node /\ pc[c] # "idle"
        /\ pc'[c] \in {"fetch", "push", "release"}
    BY <1>3 DEF copyNodeData, Exists, Fetch, Push, DataFails, Shape, TypeOK, Only
  <2> QED BY <2>1, LabelledMove
<1>4. CASE Run
  <2>1. Only(Root) /\ node' = node
    BY <1>4, CallsType
       DEF Run, CopyPath, ResolveFails, CopyReturns, Tag, TagFails, Shape, TypeOK, Only
  <2> QED BY <2>1, LabelledMove, CallsType
<1>5. CASE Again
  BY <1>5 DEF Again, Everywhere, Labelled
<1>6. CASE Cancel \/ UNCHANGED vars
  BY <1>6 DEF Cancel, vars, Labelled, Recurse
<1> QED BY <1>1, <1>2, <1>3, <1>4, <1>5, <1>6 DEF Next, Step

\* A nonempty finite set of positions has one that no other is longer than.
LEMMA Longest ==
  ASSUME NEW T, T \subseteq Seq(PosNat), T # {}, IsFiniteSet(T)
  PROVE  \E c \in T : \A d \in T : ~(Len(c) < Len(d))
<1> DEFINE Over(c) == {d \in T : Len(c) < Len(d)}
           F == {Over(c) : c \in T}
<1>1. \A c \in T : Len(c) \in Nat
  BY LenProperties
<1>2. F \subseteq FiniteSubsetsOf(T) /\ F # {}
  <2>1. \A c \in T : IsFiniteSet(Over(c)) /\ Over(c) \subseteq T
    BY FS_Subset
  <2> QED BY <2>1 DEF FiniteSubsetsOf
<1>3. IsWellFoundedOn(StrictSubsetOrdering(T), FiniteSubsetsOf(T))
  BY FS_StrictSubsetOrderingWellFounded
<1>4. \E U \in F : \A V \in F : <<V, U>> \notin StrictSubsetOrdering(T)
  <2> HIDE DEF F
  <2> QED BY <1>2, <1>3, WFMin
<1>5. PICK c \in T : \A d \in T : <<Over(d), Over(c)>> \notin StrictSubsetOrdering(T)
  BY <1>4
<1>6. ASSUME NEW d \in T, Len(c) < Len(d) PROVE FALSE
  <2>1. Over(d) \subseteq Over(c) /\ Over(c) \subseteq T /\ Over(d) # Over(c)
    <3>1. d \in Over(c) /\ d \notin Over(d)
      BY <1>1, <1>6
    <3>2. \A e \in T : Len(d) < Len(e) => Len(c) < Len(e)
      BY <1>1, <1>6
    <3> QED BY <3>1, <3>2
  <2> QED BY <2>1, <1>5 DEF StrictSubsetOrdering
<1> QED BY <1>5, <1>6

\* If no call could go on, none would hold a token, so none could wait for one; and
\* the longest of those that wait for others would wait for a longer one.
LEMMA NeverStuck ==
  ASSUME CopyAssumption, NEW f, Unfolds(f), Inv, TokensConserved, RootRuns, Labelled(f)
  PROVE  SomeoneRuns
<1> SUFFICES ASSUME pull = "copy", \A c \in Calls : ~CanRun(c) PROVE FALSE
  BY DEF SomeoneRuns
<1> USE DEF Inv
<1>1. sem = 0
  <2>1. Holders = {}
    <3> SUFFICES ASSUME NEW c \in Calls, pc[c] \in Holding PROVE FALSE
      BY DEF Holders
    <3>1. c \in Holders /\ IsFiniteSet(Holders)
      BY CallsType, FS_Subset DEF Holders
    <3>2. Cardinality(Holders) # 0 /\ Cardinality(Holders) \in Nat
      BY <3>1, FS_EmptySet, FS_CardinalityType
    <3>3. sem > 0
      BY <3>2 DEF TokensConserved, Holders
    <3> QED BY <3>3 DEF CanRun, Holding
  <2> QED BY <2>1, FS_EmptySet DEF TokensConserved, Holders
<1>2. sem < Concurrency
  BY <1>1, CallsType
<1>3. ASSUME NEW c \in Calls, pc[c] = "dispatch" PROVE FALSE
  <2>1. c # Root => node[c] \in Nodes
    BY <1>3 DEF Shape, Tree, Begun
  <2>2. Len(Dispatched(c)) \in Nat /\ next[c] \in Nat \ {0}
    BY <2>1, DispatchedType DEF Shape, TypeOK
  <2>3. next[c] \in 1..Len(Dispatched(c))
    <3>1. ~(next[c] > Len(Dispatched(c)))
      BY <1>3 DEF CanRun
    <3> QED BY <2>2, <3>1
  <2>4. Append(c, next[c]) \in Calls
    <3>1. CASE c = Root
      BY <2>3, <3>1 DEF Unfolds, Dispatched
    <3>2. CASE c # Root
      <4>1. Recurse(c) /\ node[c] = f[c]
        BY <1>3, <3>2 DEF Labelled
      <4> QED BY <2>3, <3>2, <4>1 DEF Unfolds, Dispatched
    <3> QED BY <3>1, <3>2
  <2> QED BY <1>2, <1>3, <2>4 DEF CanRun
<1>4. ASSUME NEW c \in Calls, pc[c] \notin {"idle", "done"}
      PROVE  pc[c] = "wait" /\ Running(c) # {}
  <2>1. pc[c] \notin {"exists", "fetch", "push", "record", "acquire", "dispatch"}
    BY <1>2, <1>3 DEF CanRun
  <2>2. pc[c] \notin {"start", "release"}
    <3>1. c \in Holders => FALSE
      <4>1. IsFiniteSet(Holders) /\ Cardinality(Holders) = 0
        BY <1>1, CallsType, FS_Subset DEF Holders, TokensConserved
      <4> QED BY <4>1, FS_EmptySet
    <3> QED BY <3>1 DEF Holders, Holding
  <2>3. pc[c] = "wait"
    BY <1>4, <2>1, <2>2 DEF Shape, TypeOK, Locations, Holding
  <2> QED BY <2>3 DEF CanRun
<1> DEFINE Waiting == {c \in Calls : pc[c] = "wait"}
<1>5. Waiting \subseteq Seq(PosNat) /\ Waiting # {} /\ IsFiniteSet(Waiting)
  <2>1. Root \in Waiting
    BY <1>3, CallsType DEF RootRuns
  <2> QED BY <2>1, CallsType, FS_Subset
<1>6. PICK c \in Waiting : \A d \in Waiting : ~(Len(c) < Len(d))
  <2> HIDE DEF Waiting
  <2> QED BY <1>5, Longest
<1>7. PICK k \in Running(c) : TRUE
  BY <1>4, <1>6
<1>8. PICK i \in 1..(next[c] - 1) : k = Append(c, i) /\ k \in Calls /\ pc[k] # "done"
  BY <1>7 DEF Running
<1>9. pc[k] # "idle"
  BY <1>6, <1>8 DEF Shape, Tree, Branches
<1>10. k \in Waiting
  BY <1>4, <1>8, <1>9
<1>11. Len(c) < Len(k)
  <2>1. c \in Seq(PosNat) /\ i \in PosNat /\ Len(c) \in Nat
    BY <1>6, CallsType, LenProperties DEF Shape, TypeOK, PosNat
  <2>2. Len(k) = Len(c) + 1
    BY <1>8, <2>1, AppendPosition
  <2> QED BY <2>1, <2>2
<1> QED BY <1>6, <1>10, <1>11

\* While Pull copies, with as few tokens as one, some call has what it waits for:
\* the nested copyDispatch and copyNode never all wait on each other, because a
\* call gives its token back for the time its successors take.
THEOREM NoDeadlock ==
  ASSUME CopyAssumption, NEW f, Unfolds(f)
  PROVE  Spec => []SomeoneRuns
<1>1. Init => Labelled(f)
  BY DEF Init, Everywhere, Labelled
<1>2. Inv /\ Labelled(f) /\ [Next]_vars => Labelled(f)'
  BY LabelledStep
<1>3. Inv /\ TokensConserved /\ RootRuns /\ Labelled(f) => SomeoneRuns
  BY NeverStuck
<1> QED BY <1>1, <1>2, <1>3, Invariance, TokensAreConserved, RootInvariant, PTL DEF Spec

LEMMA RanksType ==
  /\ Ranks["idle"] = 0 /\ Ranks["start"] = 1 /\ Ranks["dispatch"] = 2
  /\ Ranks["wait"] = 3 /\ Ranks["acquire"] = 4 /\ Ranks["exists"] = 5
  /\ Ranks["fetch"] = 6 /\ Ranks["push"] = 7 /\ Ranks["release"] = 8
  /\ Ranks["record"] = 9 /\ Ranks["done"] = 10
  /\ \A l \in Locations : Ranks[l] \in Nat
BY DEF Ranks, Locations, Holding

LEMMA NotLess == ASSUME NEW a \in Nat, NEW b, b = a \/ b = a + 1 PROVE a <= b
OBVIOUS

\* The ways a call goes on.
Turn(l, m) ==
  \/ l = "idle" /\ m \in {"start", "dispatch"}
  \/ l = "start" /\ m \in {"exists", "dispatch", "record"}
  \/ l = "dispatch" /\ m = "wait"
  \/ l = "wait" /\ m \in {"acquire", "record", "done"}
  \/ l = "acquire" /\ m \in {"exists", "record"}
  \/ l = "exists" /\ m \in {"fetch", "release"}
  \/ l = "fetch" /\ m \in {"push", "release"}
  \/ l = "push" /\ m = "release"
  \/ l = "release" /\ m \in {"done", "record"}
  \/ l = "record" /\ m = "done"

LEMMA TurnForward ==
  ASSUME NEW l, NEW m, Turn(l, m)
  PROVE  m \in Locations /\ Ranks[l] < Ranks[m] /\ Ranks[l] <= Ranks[m]
<1>1. m \in Locations
  BY DEF Turn, Locations, Holding
<1>2. \/ Ranks[l] = 0 /\ Ranks[m] \in {1, 2}
      \/ Ranks[l] = 1 /\ Ranks[m] \in {5, 2, 9}
      \/ Ranks[l] = 2 /\ Ranks[m] = 3
      \/ Ranks[l] = 3 /\ Ranks[m] \in {4, 9, 10}
      \/ Ranks[l] = 4 /\ Ranks[m] \in {5, 9}
      \/ Ranks[l] = 5 /\ Ranks[m] \in {6, 8}
      \/ Ranks[l] = 6 /\ Ranks[m] \in {7, 8}
      \/ Ranks[l] = 7 /\ Ranks[m] = 8
      \/ Ranks[l] = 8 /\ Ranks[m] \in {9, 10}
      \/ Ranks[l] = 9 /\ Ranks[m] = 10
  BY RanksType DEF Turn
<1> DEFINE a == Ranks[l]
           b == Ranks[m]
<1> HIDE DEF a, b
<1>3. a < b /\ a <= b
  BY <1>2 DEF a, b
<1> QED BY <1>1, <1>3 DEF a, b

LEMMA PullRanksType ==
  /\ PullRanks["idle"] = 0 /\ PullRanks["copy"] = 1 /\ PullRanks["tag"] = 2
  /\ PullRanks["done"] = 3 /\ PullRanks["failed"] = 3
BY DEF PullRanks

LEMMA PullSame ==
  ASSUME Shape, pull' = pull
  PROVE  PullRanks[pull] <= PullRanks[pull']
<1>1. PullRanks[pull] \in Nat
  BY PullRanksType DEF Shape, TypeOK
<1> QED BY <1>1, NotLess

\* The nodes that a call has dispatched are nodes it has.
LEMMA NextBound ==
  ASSUME CopyAssumption, Shape, NEW c \in Calls, pc[c] # "idle"
  PROVE  next[c] <= Len(Dispatched(c)) + 1
<1>1. next[c] \in Nat \ {0} /\ Len(Dispatched(c)) \in Nat
  BY DispatchedType DEF Shape, TypeOK, Tree, Begun
<1>2. next[c] - 1 \in 1..(next[c] - 1) => next[c] - 1 <= Len(Dispatched(c))
  BY DEF Shape, Tree, Branches
<1> QED BY <1>1, <1>2

\* A step of c that goes forward in its own place, or of Pull in its.
LEMMA ForwardMove ==
  ASSUME CopyAssumption, Shape, NEW c \in Calls, Only(c), next' = next,
         Ranks[pc[c]] <= Ranks[pc'[c]],
         PullRanks[pull] <= PullRanks[pull'],
         PullRanks[pull] < PullRanks[pull'] \/ Ranks[pc[c]] < Ranks[pc'[c]]
  PROVE  Forward
<1>1. \A d \in Calls : pc[d] \in Locations /\ next[d] \in Nat
  BY DEF Shape, TypeOK
<1>2. ASSUME NEW d \in Calls PROVE Ranks[pc[d]] <= Ranks[pc'[d]]
  <2>1. CASE d = c
    BY <2>1
  <2>2. CASE d # c
    <3>1. pc'[d] = pc[d] /\ Ranks[pc[d]] \in Nat
      BY <1>1, <2>2, RanksType DEF Only
    <3> QED BY <3>1, NotLess
  <2> QED BY <2>1, <2>2
<1>3. \A d \in Calls : next[d] <= next'[d]
  BY <1>1, NotLess
<1> QED BY <1>2, <1>3, NextBound DEF Forward

LEMMA ForwardDispatch ==
  ASSUME CopyAssumption, Shape, NEW c \in Calls, Dispatch(c)
  PROVE  Forward
<1> DEFINE k == Append(c, next[c])
<1>1. k \in Calls /\ pc[k] = "idle"
  BY NextIdle DEF Dispatch
<1>2. /\ \A d \in Calls : pc[d] \in Locations /\ next[d] \in Nat
      /\ pull \in {"idle", "copy", "tag", "done", "failed"}
  BY DEF Shape, TypeOK
<1>3. /\ \A d \in Calls : d # k => pc'[d] = pc[d]
      /\ pc'[k] = "start" /\ pull' = pull
      /\ \A d \in Calls : next'[d] = next[d] \/ next'[d] = next[d] + 1
  BY <1>1 DEF Dispatch, Shape, TypeOK
<1> HIDE DEF k
<1>4. Ranks[pc[k]] < Ranks[pc'[k]] /\ Ranks[pc[k]] <= Ranks[pc'[k]]
  BY <1>1, <1>3, TurnForward DEF Turn
<1>5. ASSUME NEW d \in Calls PROVE Ranks[pc[d]] <= Ranks[pc'[d]]
  <2>1. CASE d = k
    BY <1>4, <2>1
  <2>2. CASE d # k
    <3>1. pc'[d] = pc[d] /\ Ranks[pc[d]] \in Nat
      BY <1>2, <1>3, <2>2, RanksType
    <3> QED BY <3>1, NotLess
  <2> QED BY <2>1, <2>2
<1>6. ASSUME NEW d \in Calls PROVE next[d] <= next'[d]
  <2>1. next[d] \in Nat /\ (next'[d] = next[d] \/ next'[d] = next[d] + 1)
    BY <1>2, <1>3
  <2> QED BY <2>1, NotLess
<1>7. PullRanks[pull] <= PullRanks[pull']
  BY <1>2, <1>3, PullSame
<1> QED BY <1>1, <1>4, <1>5, <1>6, <1>7, NextBound DEF Forward

LEMMA StepForward == ASSUME CopyAssumption, Inv, RootRuns, Step PROVE Forward
<1> USE DEF Inv
<1>1. ASSUME NEW c \in Calls, copyDispatch(c) PROVE Forward
  <2>1. CASE Dispatch(c)
    BY <2>1, ForwardDispatch
  <2>2. CASE DispatchCanceled(c) \/ DispatchedAll(c)
    <3>1. /\ Only(c) /\ next' = next /\ pull' = pull
          /\ pc[c] = "dispatch" /\ pc'[c] = "wait"
      BY <2>2 DEF DispatchCanceled, DispatchedAll, Shape, TypeOK, Only
    <3>2. Ranks[pc[c]] < Ranks[pc'[c]] /\ Ranks[pc[c]] <= Ranks[pc'[c]]
      BY <3>1, TurnForward DEF Turn
    <3> QED BY <3>1, <3>2, PullSame, ForwardMove
  <2> QED BY <1>1, <2>1, <2>2 DEF copyDispatch
<1>2. ASSUME NEW c \in Calls, copyNode(c) PROVE Forward
  <2>1. Only(c) /\ next' = next /\ pull' = pull
    BY <1>2 DEF copyNode, StartData, StartSuccessors, FindSuccessorsFails,
         NestedReturns, Acquire, AcquireCanceled, Release, Record, Shape, TypeOK, Only
  <2>2. \/ pc[c] = "start" /\ pc'[c] \in {"exists", "dispatch", "record"}
        \/ pc[c] = "wait" /\ pc'[c] \in {"acquire", "record"}
        \/ pc[c] = "acquire" /\ pc'[c] \in {"exists", "record"}
        \/ pc[c] = "release" /\ pc'[c] \in {"done", "record"}
        \/ pc[c] = "record" /\ pc'[c] = "done"
    BY <1>2 DEF copyNode, StartData, StartSuccessors, FindSuccessorsFails,
         NestedReturns, Acquire, AcquireCanceled, Release, Record, Shape, TypeOK
  <2>3. Ranks[pc[c]] < Ranks[pc'[c]] /\ Ranks[pc[c]] <= Ranks[pc'[c]]
    BY <2>2, TurnForward DEF Turn
  <2> QED BY <2>1, <2>3, PullSame, ForwardMove
<1>3. ASSUME NEW c \in Calls, copyNodeData(c) PROVE Forward
  <2>1. /\ Only(c) /\ next' = next /\ pull' = pull
        /\ \/ pc[c] = "exists" /\ pc'[c] \in {"fetch", "release"}
           \/ pc[c] = "fetch" /\ pc'[c] \in {"push", "release"}
           \/ pc[c] = "push" /\ pc'[c] = "release"
    BY <1>3 DEF copyNodeData, Exists, Fetch, Push, DataFails, Shape, TypeOK, Only
  <2>2. Ranks[pc[c]] < Ranks[pc'[c]] /\ Ranks[pc[c]] <= Ranks[pc'[c]]
    BY <2>1, TurnForward DEF Turn
  <2> QED BY <2>1, <2>2, PullSame, ForwardMove
<1>4. CASE Run
  <2>1. Only(Root) /\ next' = next /\ Root \in Calls
    BY <1>4, CallsType
       DEF Run, CopyPath, ResolveFails, CopyReturns, Tag, TagFails, Shape, TypeOK, Only
  <2>2. \/ pull = "idle" /\ pull' \in {"copy", "failed"}
        \/ pull = "copy" /\ pull' \in {"tag", "failed"}
        \/ pull = "tag" /\ pull' \in {"done", "failed"}
    BY <1>4 DEF Run, CopyPath, ResolveFails, CopyReturns, Tag, TagFails
  <2>3. PullRanks[pull] < PullRanks[pull'] /\ PullRanks[pull] <= PullRanks[pull']
    BY <2>2, PullRanksType
  <2>4. \/ pc' = pc
        \/ pc[Root] = "idle" /\ pc'[Root] = "dispatch"
        \/ pc[Root] = "wait" /\ pc'[Root] = "done"
    BY <1>4, CallsType
       DEF Run, CopyPath, ResolveFails, CopyReturns, Tag, TagFails, Shape, TypeOK, RootRuns
  <2>5. Ranks[pc[Root]] <= Ranks[pc'[Root]]
    <3>1. Ranks[pc[Root]] \in Nat
      BY <2>1, RanksType DEF Shape, TypeOK
    <3>2. pc' = pc => Ranks[pc[Root]] <= Ranks[pc'[Root]]
      BY <3>1, NotLess
    <3> QED BY <2>4, <3>2, TurnForward DEF Turn
  <2> QED BY <2>1, <2>3, <2>5, ForwardMove
<1> QED BY <1>1, <1>2, <1>3, <1>4 DEF Step

\* A step of Pull or of a goroutine takes nothing back and brings one of them further;
\* as a call has finitely many places, and dispatches finitely many nodes, there are
\* finitely many such steps between two runs of Pull.
THEOREM EveryStepIsForward ==
  ASSUME CopyAssumption
  PROVE  Spec => [][Step => Forward]_vars
<1>1. Inv /\ RootRuns /\ [Next]_vars => [Step => Forward]_vars
  BY StepForward
<1> QED BY <1>1, Invariance, RootInvariant, PTL DEF Spec

----------------------------------------------------------------------------
(* CopyGraph implements GraphStore *)

LEMMA StoreNext ==
  ASSUME CopyAssumption, Inv, [Next]_vars
  PROVE  [Store!Next]_(Store!vars)
<1> USE DEF Store!vars, Store!Next, Status
<1>1. ASSUME NEW c \in Calls, copyDispatch(c) \/ copyNode(c) \/ copyNodeData(c)
      PROVE  [Store!Next]_(Store!vars)
  <2>1. pull = "copy" /\ pull' = pull /\ tagged' = tagged
    BY <1>1, CallStep
  <2>2. CASE dst' = dst
    BY <2>1, <2>2
  <2>3. CASE dst' # dst
    <3>1. node[c] \in Nodes /\ Below[node[c]] \subseteq dst /\ dst' = dst \union {node[c]}
      BY <1>1, <2>3, StoreStep DEF Inv
    <3> QED BY <2>1, <3>1 DEF Store!Store
  <2> QED BY <2>2, <2>3
<1>2. CASE CopyPath
  BY <1>2 DEF CopyPath, Store!Pull
<1>3. CASE ResolveFails
  BY <1>3 DEF ResolveFails, Store!Fail
<1>4. CASE CopyReturns
  BY <1>4 DEF CopyReturns, Store!Fail
<1>5. CASE Tag
  BY <1>5 DEF Tag, Inv, Phase, Store!Succeed
<1>6. CASE TagFails
  BY <1>6 DEF TagFails, Store!Fail
<1>7. CASE Cancel
  BY <1>7 DEF Cancel
<1>8. CASE Again
  BY <1>8 DEF Again, Store!Again
<1>9. CASE UNCHANGED vars
  BY <1>9 DEF vars
<1> QED BY <1>1, <1>2, <1>3, <1>4, <1>5, <1>6, <1>7, <1>8, <1>9 DEF Next, Step, Run

\* The concurrent copy implements a store filled node by node, bottom-up within
\* the image, tagged when complete and left alone by a pull that is over.
THEOREM Implementation == ASSUME CopyAssumption PROVE Spec => ImplementsGraphStore
<1>1. Init => Store!Init
  BY DEF Init, Status, Store!Init
<1>2. Inv /\ [Next]_vars => [Store!Next]_(Store!vars)
  BY StoreNext
<1> QED BY <1>1, <1>2, Invariance, PTL DEF Spec, ImplementsGraphStore, Store!Spec
=============================================================================
