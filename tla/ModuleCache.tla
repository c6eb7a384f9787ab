---------------------------- MODULE ModuleCache ----------------------------
(***************************************************************************)
(* What the kernel source cache of kbake promises to its users, whatever   *)
(* the number of kbake processes that share it: a store of complete source *)
(* trees by version, where a tree is published once, in one step, never    *)
(* changes while it is there, and is handed only to builds that find it;   *)
(* and a table of claims "this ref is that version" which names nothing    *)
(* but versions that have been published.  SourceCache implements it.      *)
(***************************************************************************)
CONSTANTS
  Procs,     \* the kbake processes that share the cache
  Refs,      \* the refs a build may ask for
  Versions,  \* the directory names of the cache
  Commits,   \* the contents a tree may have
  None

VARIABLES
  store,     \* version -> the commit its tree holds, None when there is no tree
  seen,      \* the versions that have been published at some time
  claims,    \* ref -> the version recorded for it, or None
  served     \* process -> the version it was handed and is building from, or None

vars == <<store, seen, claims, served>>

TypeOK ==
  /\ store \in [Versions -> Commits \union {None}]
  /\ seen \subseteq Versions
  /\ claims \in [Refs -> Versions \union {None}]
  /\ served \in [Procs -> Versions \union {None}]

Init ==
  /\ store = [v \in Versions |-> None]
  /\ seen = {}
  /\ claims = [r \in Refs |-> None]
  /\ served = [p \in Procs |-> None]

\* A complete tree appears under a version that has none.
Publish(v, c) ==
  /\ store[v] = None
  /\ store' = [store EXCEPT ![v] = c]
  /\ seen' = seen \union {v}
  /\ UNCHANGED <<claims, served>>

\* The user deletes a tree, with no build running on the cache.
Evict(v) ==
  /\ \A p \in Procs : served[p] = None
  /\ store' = [store EXCEPT ![v] = None]
  /\ UNCHANGED <<seen, claims, served>>

\* The table changes.  Entries may be lost, but an entry is never invented.
Claim ==
  /\ claims' \in [Refs -> seen \union {None}]
  /\ UNCHANGED <<store, seen, served>>

\* A build is handed a tree that is there, and lets it go.
Serve(p, v) ==
  /\ store[v] # None
  /\ served' = [served EXCEPT ![p] = v]
  /\ UNCHANGED <<store, seen, claims>>

Release(p) ==
  /\ served' = [served EXCEPT ![p] = None]
  /\ UNCHANGED <<store, seen, claims>>

\* The last step of a build both records its version and is handed the tree.
ClaimAndServe(p, v) ==
  /\ store[v] # None
  /\ served' = [served EXCEPT ![p] = v]
  /\ claims' \in [Refs -> seen \union {None}]
  /\ UNCHANGED <<store, seen>>

Next ==
  \/ \E v \in Versions : Evict(v) \/ \E c \in Commits : Publish(v, c)
  \/ Claim
  \/ \E p \in Procs : Release(p)
  \/ \E p \in Procs, v \in Versions : Serve(p, v) \/ ClaimAndServe(p, v)

Spec == Init /\ [][Next]_vars
=============================================================================
