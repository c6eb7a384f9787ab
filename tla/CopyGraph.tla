----------------------------- MODULE CopyGraph -----------------------------
(***************************************************************************)
(* Pulling an image: Pull and the concurrent copy it rests on, of          *)
(* internal/xoras/images/images.go.  copyDispatch starts a goroutine for   *)
(* each node it is given, bounded by the tokens of one channel; the        *)
(* goroutine (copyNode) copies the node's successors first, by a nested    *)
(* copyDispatch, and then the node.  All of them share the context that    *)
(* the first error cancels.                                                *)
(*                                                                         *)
(* A call is named by its position: Root is the outer copyDispatch, and    *)
(* Append(c, i) is the goroutine for the i-th node that c dispatches.      *)
(*                                                                         *)
(* A read of the source or an access to the destination may fail when      *)
(* Faults says so, and once the context is cancelled.                      *)
(***************************************************************************)
EXTENDS Sequences, Naturals, FiniteSets

CONSTANTS
  Nodes,        \* the descriptors of the source
  Succ,         \* node -> what FindSuccessors yields for it
  Path,         \* the path to the image, from the root; what ResolveGraph yields
  Concurrency,  \* the capacity of the channel sem
  Calls,        \* the positions a call may have: a bound on the shape of the graph
  Faults,       \* a subset of {"io", "cancel", "crash"}
  MaxPulls,     \* a bound on how often the pull is run
  None

Root == <<>>
Image == Path[Len(Path)]
\* The descriptors of the image: it and what it refers to.  The rest of the path
\* are indexes, of which only the listed image is copied.
Indexes == {Path[i] : i \in 1..(Len(Path) - 1)}
Content(n) == {Succ[n][i] : i \in 1..Len(Succ[n])}

\* The path is a path of the graph, which has no cycle: a descriptor holds the
\* digest of the content it names.
ASSUME CopyAssumption ==
  /\ Succ \in [Nodes -> Seq(Nodes)]
  /\ Path \in Seq(Nodes) /\ Path # <<>>
  /\ Image \notin Indexes
  /\ \A n \in Nodes \ Indexes : Content(n) \intersect Indexes = {}
  /\ Concurrency \in Nat \ {0}
  /\ Calls \subseteq Seq(Nat \ {0}) /\ IsFiniteSet(Calls) /\ Root \in Calls
  /\ Faults \subseteq {"io", "cancel", "crash"}
  /\ MaxPulls \in Nat
  /\ None \notin Nodes /\ None \notin {"fault", "canceled"}

VARIABLES
  dst,     \* the nodes the destination has
  tagged,  \* the destination has the reference
  pull,    \* where Pull is
  pulls,   \* how often it was run
  sem,     \* the tokens in the channel
  cause,   \* why the context was cancelled: a node's error, or the caller
  pc, node, next, retErr, err
  \* each call: where it is in copyDispatch or copyNode, its node, the index of
  \* the node it dispatches next, what its copyDispatch and its copyNode return

vars == <<dst, tagged, pull, pulls, sem, cause, pc, node, next, retErr, err>>

Errors == {"fault", "canceled"}
Holding == {"start", "exists", "fetch", "push", "release"}
Locations == Holding \union
  {"idle", "dispatch", "wait", "acquire", "record", "done"}

TypeOK ==
  /\ dst \subseteq Nodes
  /\ tagged \in BOOLEAN
  /\ pull \in {"idle", "copy", "tag", "done", "failed"}
  /\ pulls \in 0..MaxPulls
  /\ sem \in 0..Concurrency
  /\ cause \in Errors \union {None}
  /\ pc \in [Calls -> Locations]
  /\ node \in [Calls -> Nodes \union {None}]
  /\ next \in [Calls -> Nat \ {0}]
  /\ retErr \in [Calls -> Errors \union {None}]
  /\ err \in [Calls -> Errors \union {None}]

Everywhere(x) == [c \in Calls |-> x]

Init ==
  /\ dst = {} /\ tagged = FALSE
  /\ pull = "idle" /\ pulls = 0
  /\ sem = 0 /\ cause = None
  /\ pc = Everywhere("idle") /\ node = Everywhere(None)
  /\ next = Everywhere(1)
  /\ retErr = Everywhere(None) /\ err = Everywhere(None)

Goto(c, l) == pc' = [pc EXCEPT ![c] = l]

\* What an operation on a store may return instead of its result.
Failures ==
  (IF "io" \in Faults THEN {"fault"} ELSE {}) \union
  (IF cause # None THEN {"canceled"} ELSE {})

----------------------------------------------------------------------------
(* copyDispatch *)

pathNodes == [i \in 1..Len(Path) |-> Path[Len(Path) + 1 - i]]

\* The nodes a call dispatches: the path bottom-up, or the successors of its node.
Dispatched(c) == IF c = Root THEN pathNodes ELSE Succ[node[c]]

\* Of the path only the image, its first node, is copied with its successors;
\* below it every node is.
Recurse(c) == c # Root /\ (Len(c) = 1 => c[1] = 1)

\* The call that started c.
Parent(c) == SubSeq(c, 1, Len(c) - 1)

\* The goroutines a call has started and not seen end.
Running(c) == {k \in Calls : \E i \in 1..(next[c] - 1) :
                  k = Append(c, i) /\ pc[k] # "done"}

\* Mutant of Dispatch: goroutines are started without a token being free.
DispatchUnbounded(c) ==
  /\ pc[c] = "dispatch"
  /\ next[c] <= Len(Dispatched(c))
  /\ LET k == Append(c, next[c]) IN
       /\ k \in Calls
       /\ Goto(k, "start")
       /\ node' = [node EXCEPT ![k] = Dispatched(c)[next[c]]]
  /\ sem' = sem + 1
  /\ next' = [next EXCEPT ![c] = @ + 1]
  /\ UNCHANGED <<dst, tagged, pull, pulls, cause, retErr, err>>

\* copyDispatch takes a token and starts a goroutine for its next node.
Dispatch(c) ==
  /\ pc[c] = "dispatch"
  /\ next[c] <= Len(Dispatched(c))
  /\ sem < Concurrency
  /\ LET k == Append(c, next[c]) IN
       /\ k \in Calls
       /\ Goto(k, "start")
       /\ node' = [node EXCEPT ![k] = Dispatched(c)[next[c]]]
  /\ sem' = sem + 1
  /\ next' = [next EXCEPT ![c] = @ + 1]
  /\ UNCHANGED <<dst, tagged, pull, pulls, cause, retErr, err>>

\* Mutant of DispatchCanceled: the rest is given up without an error.
DispatchCanceledSilent(c) ==
  /\ pc[c] = "dispatch"
  /\ next[c] <= Len(Dispatched(c))
  /\ cause # None
  /\ Goto(c, "wait")
  /\ UNCHANGED <<dst, tagged, pull, pulls, sem, cause, node, next, retErr, err>>

\* It sees the context cancelled before it has a token, and gives up the rest.
DispatchCanceled(c) ==
  /\ pc[c] = "dispatch"
  /\ next[c] <= Len(Dispatched(c))
  /\ cause # None
  /\ retErr' = [retErr EXCEPT ![c] = IF @ = None THEN "canceled" ELSE @]
  /\ Goto(c, "wait")
  /\ UNCHANGED <<dst, tagged, pull, pulls, sem, cause, node, next, err>>

\* It has dispatched all nodes.
DispatchedAll(c) ==
  /\ pc[c] = "dispatch"
  /\ next[c] > Len(Dispatched(c))
  /\ Goto(c, "wait")
  /\ UNCHANGED <<dst, tagged, pull, pulls, sem, cause, node, next, retErr, err>>

\* Mutant of NestedReturns: the node is copied whatever became of its successors.
NestedReturnsIgnored(c) ==
  /\ c # Root
  /\ pc[c] = "wait"
  /\ Running(c) = {}
  /\ Goto(c, "acquire")
  /\ UNCHANGED <<dst, tagged, pull, pulls, sem, cause, node, next, retErr, err>>

\* wg.Wait is over: the nested copyDispatch of copyNode returns.  On an error
\* copyNode returns it, without a token; otherwise it needs one again.
NestedReturns(c) ==
  /\ c # Root
  /\ pc[c] = "wait"
  /\ Running(c) = {}
  /\ err' = [err EXCEPT ![c] = retErr[c]]
  /\ Goto(c, IF retErr[c] = None THEN "acquire" ELSE "record")
  /\ UNCHANGED <<dst, tagged, pull, pulls, sem, cause, node, next, retErr>>

\* Mutant of Record: the last error of the copyDispatch is kept, not the first.
RecordLast(c) ==
  /\ c # Root
  /\ pc[c] = "record"
  /\ retErr' = [retErr EXCEPT ![Parent(c)] = err[c]]
  /\ cause' = IF cause = None THEN err[c] ELSE cause
  /\ Goto(c, "done")
  /\ UNCHANGED <<dst, tagged, pull, pulls, sem, node, next, err>>

\* Mutant of Record: an error that comes after the cancellation is dropped.
RecordUnlessCanceled(c) ==
  /\ c # Root
  /\ pc[c] = "record"
  /\ IF cause = None
       THEN /\ retErr' = [retErr EXCEPT ![Parent(c)] = err[c]]
            /\ cause' = err[c]
       ELSE UNCHANGED <<retErr, cause>>
  /\ Goto(c, "done")
  /\ UNCHANGED <<dst, tagged, pull, pulls, sem, node, next, err>>

\* The goroutine's errOnce.Do: the first error of this copyDispatch is recorded
\* and cancels the context, which keeps the cause it was first cancelled with.
Record(c) ==
  /\ c # Root
  /\ pc[c] = "record"
  /\ LET d == Parent(c) IN
     IF retErr[d] = None
       THEN /\ retErr' = [retErr EXCEPT ![d] = err[c]]
            /\ cause' = IF cause = None THEN err[c] ELSE cause
       ELSE UNCHANGED <<retErr, cause>>
  /\ Goto(c, "done")
  /\ UNCHANGED <<dst, tagged, pull, pulls, sem, node, next, err>>

----------------------------------------------------------------------------
(* copyNode *)

\* Mutant of StartData: any node may be copied at once.
StartDataAlways(c) ==
  /\ pc[c] = "start"
  /\ Goto(c, "exists")
  /\ UNCHANGED <<dst, tagged, pull, pulls, sem, cause, node, next, retErr, err>>

\* A node that is not searched for successors, or has none, is copied at once.
StartData(c) ==
  /\ pc[c] = "start"
  /\ Recurse(c) => Succ[node[c]] = <<>>
  /\ Goto(c, "exists")
  /\ UNCHANGED <<dst, tagged, pull, pulls, sem, cause, node, next, retErr, err>>

\* Mutant of StartSuccessors: the token is kept while the successors are copied.
StartSuccessorsKeeps(c) ==
  /\ pc[c] = "start"
  /\ Recurse(c) /\ Succ[node[c]] # <<>>
  /\ Goto(c, "dispatch")
  /\ UNCHANGED <<dst, tagged, pull, pulls, sem, cause, node, next, retErr, err>>

\* FindSuccessors finds some: the token is given back for the time they take.
StartSuccessors(c) ==
  /\ pc[c] = "start"
  /\ Recurse(c) /\ Succ[node[c]] # <<>>
  /\ sem > 0
  /\ sem' = sem - 1
  /\ Goto(c, "dispatch")
  /\ UNCHANGED <<dst, tagged, pull, pulls, cause, node, next, retErr, err>>

\* Mutant of FindSuccessorsFails: it returns without giving the token back.
FindSuccessorsFailsKeeps(c) ==
  /\ pc[c] = "start"
  /\ Recurse(c) /\ Succ[node[c]] # <<>>
  /\ \E e \in Failures : err' = [err EXCEPT ![c] = e]
  /\ Goto(c, "record")
  /\ UNCHANGED <<dst, tagged, pull, pulls, sem, cause, node, next, retErr>>

\* FindSuccessors fails; it reads the source only for a node that can have some.
FindSuccessorsFails(c) ==
  /\ pc[c] = "start"
  /\ Recurse(c) /\ Succ[node[c]] # <<>>
  /\ sem > 0
  /\ sem' = sem - 1
  /\ \E e \in Failures : err' = [err EXCEPT ![c] = e]
  /\ Goto(c, "record")
  /\ UNCHANGED <<dst, tagged, pull, pulls, cause, node, next, retErr>>

\* The successors are copied, and copyNode takes a token for the node itself.
Acquire(c) ==
  /\ pc[c] = "acquire"
  /\ sem < Concurrency
  /\ sem' = sem + 1
  /\ Goto(c, "exists")
  /\ UNCHANGED <<dst, tagged, pull, pulls, cause, node, next, retErr, err>>

AcquireCanceled(c) ==
  /\ pc[c] = "acquire"
  /\ cause # None
  /\ err' = [err EXCEPT ![c] = "canceled"]
  /\ Goto(c, "record")
  /\ UNCHANGED <<dst, tagged, pull, pulls, sem, cause, node, next, retErr>>

\* The deferred release of the token when copyNodeData has returned.
Release(c) ==
  /\ pc[c] = "release"
  /\ sem > 0
  /\ sem' = sem - 1
  /\ Goto(c, IF err[c] = None THEN "done" ELSE "record")
  /\ UNCHANGED <<dst, tagged, pull, pulls, cause, node, next, retErr, err>>

----------------------------------------------------------------------------
(* copyNodeData *)

Exists(c) ==
  /\ pc[c] = "exists"
  /\ Goto(c, IF node[c] \in dst THEN "release" ELSE "fetch")
  /\ UNCHANGED <<dst, tagged, pull, pulls, sem, cause, node, next, retErr, err>>

Fetch(c) ==
  /\ pc[c] = "fetch"
  /\ Goto(c, "push")
  /\ UNCHANGED <<dst, tagged, pull, pulls, sem, cause, node, next, retErr, err>>

\* The node is stored, or another call has stored it since Exists: ErrAlreadyExists
\* is no error.
Push(c) ==
  /\ pc[c] = "push"
  /\ dst' = dst \union {node[c]}
  /\ Goto(c, "release")
  /\ UNCHANGED <<tagged, pull, pulls, sem, cause, node, next, retErr, err>>

\* Exists, Fetch or Push fails.  A Push that fails may have stored the node: the
\* store names it in its index afterwards.
DataFails(c) ==
  /\ pc[c] \in {"exists", "fetch", "push"}
  /\ \E e \in Failures : err' = [err EXCEPT ![c] = e]
  /\ \/ UNCHANGED dst
     \/ pc[c] = "push" /\ dst' = dst \union {node[c]}
  /\ Goto(c, "release")
  /\ UNCHANGED <<tagged, pull, pulls, sem, cause, node, next, retErr>>

----------------------------------------------------------------------------
(* Pull *)

\* The reference resolves to the path to an image, and copyPath starts.
CopyPath ==
  /\ pull = "idle"
  /\ pulls < MaxPulls
  /\ pulls' = pulls + 1
  /\ pull' = "copy"
  /\ Goto(Root, "dispatch")
  /\ UNCHANGED <<dst, tagged, sem, cause, node, next, retErr, err>>

\* The reference does not resolve, or not to an image.
ResolveFails ==
  /\ pull = "idle"
  /\ pulls < MaxPulls
  /\ Failures # {}
  /\ pulls' = pulls + 1
  /\ pull' = "failed"
  /\ UNCHANGED <<dst, tagged, sem, cause, pc, node, next, retErr, err>>

\* Mutant of CopyReturns: an error is returned without waiting for the goroutines.
CopyReturnsEarly ==
  /\ pull = "copy"
  /\ pc[Root] = "wait"
  /\ retErr[Root] = None => Running(Root) = {}
  /\ Goto(Root, "done")
  /\ pull' = IF retErr[Root] = None THEN "tag" ELSE "failed"
  /\ UNCHANGED <<dst, tagged, pulls, sem, cause, node, next, retErr, err>>

\* The outer copyDispatch returns, and with it copyPath.
CopyReturns ==
  /\ pull = "copy"
  /\ pc[Root] = "wait"
  /\ Running(Root) = {}
  /\ Goto(Root, "done")
  /\ pull' = IF retErr[Root] = None THEN "tag" ELSE "failed"
  /\ UNCHANGED <<dst, tagged, pulls, sem, cause, node, next, retErr, err>>

Tag ==
  /\ pull = "tag"
  /\ tagged' = TRUE
  /\ pull' = "done"
  /\ UNCHANGED <<dst, pulls, sem, cause, pc, node, next, retErr, err>>

TagFails ==
  /\ pull = "tag"
  /\ Failures # {}
  /\ pull' = "failed"
  /\ UNCHANGED <<dst, tagged, pulls, sem, cause, pc, node, next, retErr, err>>

\* The caller's context is cancelled.
Cancel ==
  /\ "cancel" \in Faults
  /\ pull \in {"idle", "copy", "tag"} /\ cause = None
  /\ cause' = "canceled"
  /\ UNCHANGED <<dst, tagged, pull, pulls, sem, pc, node, next, retErr, err>>

\* The pull is run again, after it answered or was killed: a new process, and
\* what the destination holds.
Again ==
  /\ pull \in {"done", "failed"} \/ "crash" \in Faults
  /\ pulls < MaxPulls
  /\ pull' = "idle" /\ sem' = 0 /\ cause' = None
  /\ pc' = Everywhere("idle") /\ node' = Everywhere(None)
  /\ next' = Everywhere(1)
  /\ retErr' = Everywhere(None) /\ err' = Everywhere(None)
  /\ UNCHANGED <<dst, tagged, pulls>>

----------------------------------------------------------------------------
copyDispatch(c) == Dispatch(c) \/ DispatchCanceled(c) \/ DispatchedAll(c)
copyNodeData(c) == Exists(c) \/ Fetch(c) \/ Push(c) \/ DataFails(c)
copyNode(c) ==
  \/ StartData(c) \/ StartSuccessors(c) \/ FindSuccessorsFails(c)
  \/ NestedReturns(c) \/ Acquire(c) \/ AcquireCanceled(c)
  \/ Release(c) \/ Record(c)
Run == CopyPath \/ ResolveFails \/ CopyReturns \/ Tag \/ TagFails

Step ==
  \/ \E c \in Calls : copyDispatch(c) \/ copyNode(c) \/ copyNodeData(c)
  \/ Run

Next == Step \/ Cancel \/ Again

Spec == Init /\ [][Next]_vars

\* Goroutines that can run do, and an operation on a store returns at last.
FairSpec == Spec /\ WF_vars(Step)

----------------------------------------------------------------------------
(* Properties *)

Below == [n \in Nodes |-> IF n \in Indexes THEN {} ELSE Content(n)]
Wanted == Indexes \union {Image}

\* Whatever is cut off or fails, the destination has a manifest of the image only
\* with all it refers to (copyNode pushes a node after its nested copyDispatch
\* returned nil; the nodes of other calls are pushed in between).
SuccessorsFirst == \A n \in dst : Below[n] \subseteq dst

\* Pull names an image in the destination only when its whole path is there.
TaggedWhole == tagged => Wanted \subseteq dst

\* The channel sem holds one token for each call that is between its dispatch
\* and its return, those that wait for their successors left out: no path
\* through copyNode loses a token or gives one back twice.
TokensConserved == sem = Cardinality({c \in Calls : pc[c] \in Holding})

\* When copyPath has returned no goroutine it started is left to run, also when
\* it gave up dispatching because the context was cancelled.
NothingOutlives == pull # "copy" => \A c \in Calls : pc[c] \in {"idle", "done"}

\* A pull answers with success only when no call of it failed: an error that a
\* nested copyDispatch returns is not lost on its way up.
NoErrorLost ==
  pull = "done" => \A c \in Calls : err[c] = None /\ retErr[c] = None

\* The error of a node that cancelled the context is what its own copyDispatch
\* returns: the record in errOnce comes before the cancellation it causes.
CauseRecorded == cause = "fault" => \E d \in Calls : retErr[d] = "fault"

\* Pull answers, whichever calls fail and with as few tokens as one.
Termination == <>[](pull \in {"done", "failed"})

\* f labels the positions with the nodes of the graph's unfolding: each call finds
\* a position for every node it may dispatch.
Unfolds(f) ==
  /\ \A i \in 1..Len(pathNodes) :
       Append(Root, i) \in Calls /\ f[Append(Root, i)] = pathNodes[i]
  /\ \A c \in Calls \ {Root} : Recurse(c) =>
       \A i \in 1..Len(Succ[f[c]]) :
         Append(c, i) \in Calls /\ f[Append(c, i)] = Succ[f[c]][i]

Status == IF pull \in {"copy", "tag"} THEN "pulling" ELSE pull
Store == INSTANCE GraphStore WITH store <- dst, status <- Status

\* The concurrent copy implements a store filled node by node, bottom-up within
\* the image, that is tagged when complete and left alone by a pull that is over.
ImplementsGraphStore == Store!Spec

----------------------------------------------------------------------------
(* Said of the code and not so *)

\* images.go:256-258, 282-283: the first node error is the one returned, and wins
\* over the cancellation it causes.
ErrorWins == pull = "failed" /\ cause = "fault" => retErr[Root] # "canceled"

\* images.go:318-320: first the image and its successors are copied, and only then
\* the remaining path, bottom-up.
BottomUp ==
  \A i \in 1..(Len(Path) - 1) : Path[i] \in dst => Path[i + 1] \in dst
=============================================================================
