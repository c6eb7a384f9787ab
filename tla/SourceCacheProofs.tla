------------------------ MODULE SourceCacheProofs ------------------------
(***************************************************************************)
(* Proofs about SourceCache, for every set of processes, refs and commits. *)
(***************************************************************************)
EXTENDS SourceCache, SequenceTheorems, TLAPS

\* Where a process holds a resolved version, where it may publish it, and
\* where it has seen a tree under that version's name.
Resolved == {"warm", "offline", "tree", "checkingout", "rename",
             "saveread", "savetrunc", "savewrite", "done"}
Publishing == {"tree", "checkingout", "rename"}
HasTree == {"saveread", "savetrunc", "savewrite", "done"}

\* What a process at each location is sure to hold.
Held(p) ==
  /\ pc[p] # "idle" => req[p] \in Refs
  /\ pc[p] \in Resolved \union {"version"} => com[p] \in Commits
  /\ pc[p] \in Resolved => ver[p] \in Versions
Located == \A p \in Procs : Held(p)

Typed == TypeOK /\ Located

USE DEF Goto, Jump, TypeOK, Located, Held, Resolved, Locations

LEMMA CandidateTypes ==
  ASSUME CacheAssumption, TypeOK, NEW r \in Refs
  PROVE  LocalCommit(r) \in Commits \union {None} /\ FetchHeadCommit \in Commits \union {None}
<1>1. fetchHead # <<>> => Head(fetchHead) \in Commits
  BY HeadTailProperties
<1>2. LocalCommit(r) \in Commits \union {None}
  BY DEF LocalCommit, CacheAssumption
<1> QED BY <1>1, <1>2 DEF FetchHeadCommit

LEMMA EntryType ==
  ASSUME TypeOK, NEW r \in Refs, refmap[r] # None
  PROVE  refmap[r] \in Entry /\ refmap[r].commit \in Commits /\ refmap[r].version \in Versions
BY DEF Entry

LEMMA TypedInit == CacheAssumption /\ Init => Typed
BY EmptySeq DEF Init, Typed, CacheAssumption, NoEntries

LEMMA TypedStep == ASSUME CacheAssumption, Typed, Next PROVE Typed'
<1> USE DEF Typed, sharedVars, localVars, history
<1>1. ASSUME NEW p \in Procs, NEW r \in Refs, Start(p, r) PROVE Typed'
  BY <1>1 DEF Start
<1>2. ASSUME NEW p \in Procs, Prepare(p) PROVE Typed'
  <2>1. CASE StatBare(p) BY <2>1 DEF StatBare
  <2>2. CASE InitBegin(p) BY <2>2 DEF InitBegin
  <2>3. CASE InitEnd(p) BY <2>3 DEF InitEnd
  <2>4. CASE CheckOrigin(p) BY <2>4 DEF CheckOrigin
  <2>5. CASE AddOrigin(p) BY <2>5 DEF AddOrigin
  <2>6. CASE SetURL(p) BY <2>6 DEF SetURL
  <2>7. CASE ConfigFails(p) BY <2>7 DEF ConfigFails, ConfigWriters
  <2> QED BY <1>2, <2>1, <2>2, <2>3, <2>4, <2>5, <2>6, <2>7 DEF Prepare
<1>3. ASSUME NEW p \in Procs, Resolve(p) PROVE Typed'
  <2>1. CASE LookupRefMap(p)
    <3>1. req[p] \in Refs
      BY <2>1 DEF LookupRefMap
    <3>2. CASE TakeEntry(p, req[p])
      <4>1. com' \in [Procs -> Commits \union {None}] /\ com'[p] \in Commits
        BY <3>1, <3>2, EntryType DEF TakeEntry
      <4>2. ver' \in [Procs -> Versions \union {None}] /\ ver'[p] \in Versions
        BY <3>1, <3>2, EntryType DEF TakeEntry
      <4>3. /\ \A q \in Procs \ {p} : com'[q] = com[q] /\ ver'[q] = ver[q]
            /\ pc' \in [Procs -> Locations] /\ \A q \in Procs \ {p} : pc'[q] = pc[q]
        BY <2>1, <3>2 DEF LookupRefMap, TakeEntry
      <4>4. TypeOK'
        BY <2>1, <4>1, <4>2, <4>3 DEF LookupRefMap
      <4>5. ASSUME NEW q \in Procs PROVE Held(q)'
        <5>1. req' = req /\ pc'[p] \in {"warm", "fetch"}
          BY <2>1 DEF LookupRefMap
        <5>2. CASE q = p
          BY <3>1, <4>1, <4>2, <5>1, <5>2
        <5>3. CASE q # p
          BY <4>3, <5>1, <5>3
        <5> QED BY <5>2, <5>3
      <4> QED BY <4>4, <4>5
    <3>3. CASE Goto(p, "lookup", "fetch") /\ UNCHANGED <<com, ver>>
      BY <2>1, <3>1, <3>3 DEF LookupRefMap
    <3> QED BY <2>1, <3>2, <3>3 DEF LookupRefMap, NoEntry
  <2>2. CASE Warm(p) BY <2>2 DEF Warm
  <2>3. CASE FetchBegin(p) BY <2>3, EmptySeq DEF FetchBegin
  <2>4. CASE FetchEnd(p)
    <3>1. remote[req[p]] \in Commits
      BY <2>4 DEF FetchEnd
    <3>2. fetchHead' \in Seq(Commits)
      BY <2>4, <3>1, AppendProperties DEF FetchEnd
    <3> QED BY <2>4, <3>1, <3>2 DEF FetchEnd
  <2>5. CASE FetchFails(p) BY <2>5 DEF FetchFails
  <2>6. CASE ResolveRef(p)
    <3>1. LocalCommit(req[p]) \in Commits \union {None}
      BY <2>6, CandidateTypes DEF ResolveRef
    <3>2. ASSUME NEW c \in Commits, Goto(p, "resolve", "version"), com' = [com EXCEPT ![p] = c]
          PROVE  Typed'
      BY <2>6, <3>2 DEF ResolveRef
    <3>3. CASE Goto(p, "resolve", "fetchhead") /\ UNCHANGED com
      BY <2>6, <3>3 DEF ResolveRef
    <3> QED BY <2>6, <3>1, <3>2, <3>3 DEF ResolveRef
  <2>7. CASE Fallback(p)
    <3>1. req[p] \in Refs
      BY <2>7 DEF Fallback
    <3>2. CASE TakeEntry(p, req[p])
      <4>1. com' \in [Procs -> Commits \union {None}] /\ com'[p] \in Commits
        BY <3>1, <3>2, EntryType DEF TakeEntry
      <4>2. ver' \in [Procs -> Versions \union {None}] /\ ver'[p] \in Versions
        BY <3>1, <3>2, EntryType DEF TakeEntry
      <4>3. /\ \A q \in Procs \ {p} : com'[q] = com[q] /\ ver'[q] = ver[q]
            /\ pc' \in [Procs -> Locations] /\ \A q \in Procs \ {p} : pc'[q] = pc[q]
        BY <2>7, <3>2 DEF Fallback, TakeEntry
      <4>4. TypeOK'
        BY <2>7, <4>1, <4>2, <4>3 DEF Fallback
      <4>5. ASSUME NEW q \in Procs PROVE Held(q)'
        <5>1. req' = req /\ pc'[p] \in {"offline", "failed"}
          BY <2>7 DEF Fallback
        <5>2. CASE q = p
          BY <3>1, <4>1, <4>2, <5>1, <5>2
        <5>3. CASE q # p
          BY <4>3, <5>1, <5>3
        <5> QED BY <5>2, <5>3
      <4> QED BY <4>4, <4>5
    <3>3. CASE Goto(p, "fallback", "failed") /\ UNCHANGED <<com, ver>>
      BY <2>7, <3>1, <3>3 DEF Fallback
    <3> QED BY <2>7, <3>2, <3>3 DEF Fallback, NoEntry
  <2>8. CASE ResolveVersion(p)
    <3>1. com[p] \in Commits
      BY <2>8 DEF ResolveVersion
    <3>2. \E v \in Versions : ver' = [ver EXCEPT ![p] = v]
      <4>1. ASSUME NEW based \in BOOLEAN PROVE Pseudo(com[p], based) \in Versions
        BY <3>1 DEF Pseudo, Versions
      <4>2. req[p] \in Tags => req[p] \in Versions
        BY DEF Versions
      <4> QED BY <2>8, <4>1, <4>2 DEF ResolveVersion
    <3> QED BY <2>8, <3>1, <3>2 DEF ResolveVersion
  <2>9. CASE ResolveFetchHead(p)
    <3>1. req[p] \in Refs
      BY <2>9 DEF ResolveFetchHead
    <3>2. FetchHeadCommit \in Commits \union {None}
      BY <3>1, CandidateTypes
    <3>3. ASSUME NEW c \in Commits, Goto(p, "fetchhead", "version"), com' = [com EXCEPT ![p] = c]
          PROVE  Typed'
      BY <2>9, <3>3 DEF ResolveFetchHead
    <3>4. CASE Goto(p, "fetchhead", "fallback") /\ com' = [com EXCEPT ![p] = None]
      BY <2>9, <3>4 DEF ResolveFetchHead
    <3> QED BY <2>9, <3>2, <3>3, <3>4 DEF ResolveFetchHead
  <2> QED BY <1>3, <2>1, <2>2, <2>3, <2>4, <2>5, <2>6, <2>7, <2>8, <2>9 DEF Resolve
<1>4. ASSUME NEW p \in Procs, Materialize(p) PROVE Typed'
  <2>1. CASE StatTree(p) BY <2>1 DEF StatTree
  <2>2. CASE StatTreeOffline(p) BY <2>2 DEF StatTreeOffline
  <2>3. CASE CheckoutEnd(p) BY <2>3 DEF CheckoutEnd
  <2>4. CASE CheckoutFails(p) BY <2>4 DEF CheckoutFails
  <2>5. CASE Rename(p) BY <2>5 DEF Rename
  <2>6. CASE RenameFails(p) BY <2>6 DEF RenameFails
  <2> QED BY <1>4, <2>1, <2>2, <2>3, <2>4, <2>5, <2>6 DEF Materialize
<1>5. ASSUME NEW p \in Procs, SaveRefMap(p) PROVE Typed'
  <2>1. CASE SaveRead(p)
    <3>1. [version |-> ver[p], commit |-> com[p]] \in Entry
      BY <2>1 DEF SaveRead, Entry
    <3> QED BY <2>1, <3>1 DEF SaveRead
  <2>2. CASE SaveTruncate(p) BY <2>2 DEF SaveTruncate, NoEntries
  <2>3. CASE SaveWrite(p) BY <2>3 DEF SaveWrite
  <2>4. CASE SaveFails(p) BY <2>4 DEF SaveFails
  <2>5. CASE SaveReadFails(p)
    <3>1. [version |-> ver[p], commit |-> com[p]] \in Entry
      BY <2>5 DEF SaveReadFails, Entry
    <3> QED BY <2>5, <3>1 DEF SaveReadFails, NoEntries
  <2> QED BY <1>5, <2>1, <2>2, <2>3, <2>4, <2>5 DEF SaveRefMap
<1>6. ASSUME NEW p \in Procs, Finish(p) \/ Crash(p) PROVE Typed'
  <2>1. Forget(p) /\ saved' \subseteq Refs
    BY <1>6 DEF Finish, Crash
  <2>2. buf' \in [Procs -> [Refs -> Entry \union {None}]]
    BY <2>1 DEF Forget, NoEntries
  <2> QED BY <2>1, <2>2 DEF Forget
<1>7. ASSUME NEW r \in Movable, NEW c \in Commits, Move(r, c) PROVE Typed'
  BY <1>7 DEF Move, CacheAssumption
<1>8. ASSUME NEW v \in Versions, Evict(v) PROVE Typed'
  BY <1>8 DEF Evict
<1> QED BY <1>1, <1>2, <1>3, <1>4, <1>5, <1>6, <1>7, <1>8 DEF Next, Step

\* Type correctness: in particular every version and commit a process acts on
\* is one that was resolved, and what it reads from the table is an entry.
THEOREM TypeCorrect == ASSUME CacheAssumption PROVE Spec => []TypeOK
<1>1. Init => Typed
  BY TypedInit
<1>2. Typed /\ [Next]_vars => Typed'
  <2> SUFFICES ASSUME Typed, [Next]_vars PROVE Typed'
    OBVIOUS
  <2>1. CASE Next BY <2>1, TypedStep
  <2>2. CASE UNCHANGED vars BY <2>2 DEF vars, Typed
  <2> QED BY <2>1, <2>2
<1>3. Typed => TypeOK
  BY DEF Typed
<1> QED BY <1>1, <1>2, <1>3, PTL DEF Spec

-----------------------------------------------------------------------------
(* The safety of the trees and of the table, for any interleaving.         *)

\* A checkout is partial until it is complete, what is renamed is the commit
\* that was resolved and, under a pseudo-version, named; and past the rename
\* the tree is there.
Checkout(p) ==
  /\ pc[p] = "checkingout" => tmp[p] = Partial
  /\ pc[p] = "rename" => tmp[p] = com[p]
  /\ pc[p] \in HasTree => trees[ver[p]] # None
  /\ pc[p] \in Publishing =>
       \A c \in Commits, b \in BOOLEAN : ver[p] = Pseudo(c, b) => c = com[p]

Stored ==
  \A v \in Versions : trees[v] # Partial /\ (trees[v] # None => v \in published)

Safe ==
  /\ Typed
  /\ \A p \in Procs : Checkout(p)
  /\ Stored
  /\ PseudoTreesFaithful
  /\ RefMapPublished

\* A step of p that leaves the trees, the table and the checkouts alone, and
\* ends where p has not resolved anything.
LEMMA QuietStep ==
  ASSUME Safe, Typed', NEW p \in Procs,
         UNCHANGED <<trees, published, refmap, buf, tmp>>,
         \A q \in Procs \ {p} : pc'[q] = pc[q] /\ com'[q] = com[q] /\ ver'[q] = ver[q],
         pc'[p] \notin HasTree \union Publishing
  PROVE  Safe'
<1>1. ASSUME NEW q \in Procs PROVE Checkout(q)'
  <2>1. CASE q = p
    BY <2>1 DEF Checkout, HasTree, Publishing
  <2>2. CASE q # p
    BY <2>2 DEF Safe, Checkout
  <2> QED BY <2>1, <2>2
<1> QED BY <1>1 DEF Safe, Stored, PseudoTreesFaithful, RefMapPublished

LEMMA SafeInit == CacheAssumption /\ Init => Safe
<1> SUFFICES ASSUME CacheAssumption, Init PROVE Safe
  OBVIOUS
<1>1. Typed
  BY TypedInit
<1>2. \A c \in Commits, b \in BOOLEAN : Pseudo(c, b) \in Versions
  BY DEF Pseudo, Versions
<1> QED BY <1>1, <1>2 DEF Init, Safe, Checkout, HasTree, Publishing, Stored, NoEntries,
     PseudoTreesFaithful, RefMapPublished, CacheAssumption

LEMMA SafeStep == ASSUME CacheAssumption, Safe, Next PROVE Safe'
<1> USE DEF sharedVars, localVars, history, HasTree, Publishing
<1>1. Typed /\ Typed'
  BY TypedStep DEF Safe
<1>2. ASSUME NEW p \in Procs, NEW r \in Refs, Start(p, r) PROVE Safe'
  BY <1>1, <1>2, QuietStep DEF Start, Typed
<1>3. ASSUME NEW p \in Procs, Prepare(p) PROVE Safe'
  <2>1. /\ pc'[p] \in {"mkbare", "initbare", "origin", "addorigin", "seturl", "lookup", "failed"}
        /\ \A q \in Procs \ {p} : pc'[q] = pc[q]
    BY <1>1, <1>3 DEF Typed, Prepare, StatBare, InitBegin, InitEnd, CheckOrigin, AddOrigin,
       SetURL, ConfigFails, ConfigWriters
  <2>2. UNCHANGED <<trees, published, refmap, buf, tmp, com, ver>>
    BY <1>3 DEF Prepare, StatBare, InitBegin, InitEnd, CheckOrigin, AddOrigin, SetURL, ConfigFails
  <2> QED BY <1>1, <2>1, <2>2, QuietStep
<1>4. ASSUME NEW p \in Procs, LookupRefMap(p) \/ Fallback(p) PROVE Safe'
  <2>1. \A q \in Procs \ {p} : pc'[q] = pc[q] /\ com'[q] = com[q] /\ ver'[q] = ver[q]
    BY <1>1, <1>4 DEF Typed, LookupRefMap, Fallback, TakeEntry, NoEntry
  <2>2. pc'[p] \in {"fetch", "warm", "failed", "offline"}
    BY <1>1, <1>4 DEF Typed, LookupRefMap, Fallback
  <2>3. UNCHANGED <<trees, published, refmap, buf, tmp>>
    BY <1>4 DEF LookupRefMap, Fallback
  <2>4. pc'[p] \notin HasTree \union Publishing
    BY <2>2
  <2> QED BY <1>1, <2>1, <2>3, <2>4, QuietStep
<1>5. ASSUME NEW p \in Procs, FetchBegin(p) \/ FetchEnd(p) \/ FetchFails(p) PROVE Safe'
  <2>1. /\ pc'[p] \in {"fetching", "resolve"}
        /\ \A q \in Procs \ {p} : pc'[q] = pc[q]
    BY <1>1, <1>5 DEF Typed, FetchBegin, FetchEnd, FetchFails
  <2>2. UNCHANGED <<trees, published, refmap, buf, tmp, com, ver>>
    BY <1>5 DEF FetchBegin, FetchEnd, FetchFails
  <2> QED BY <1>1, <2>1, <2>2, QuietStep
<1>6. ASSUME NEW p \in Procs, ResolveRef(p) \/ ResolveFetchHead(p) PROVE Safe'
  <2>1. /\ pc'[p] \in {"version", "fetchhead", "fallback"}
        /\ \A q \in Procs \ {p} : pc'[q] = pc[q] /\ com'[q] = com[q] /\ ver'[q] = ver[q]
    BY <1>1, <1>6 DEF Typed, ResolveRef, ResolveFetchHead
  <2>2. UNCHANGED <<trees, published, refmap, buf, tmp>>
    BY <1>6 DEF ResolveRef, ResolveFetchHead
  <2> QED BY <1>1, <2>1, <2>2, QuietStep
<1>7. ASSUME NEW p \in Procs, Warm(p) \/ StatTreeOffline(p) PROVE Safe'
  BY <1>1, <1>7 DEF Safe, Typed, Checkout, Stored, Warm, StatTreeOffline,
     PseudoTreesFaithful, RefMapPublished
<1>8. ASSUME NEW p \in Procs, ResolveVersion(p) PROVE Safe'
  <2>1. \A c \in Commits, b \in BOOLEAN : ver'[p] = Pseudo(c, b) => c = com'[p]
    <3> TAKE c \in Commits, b \in BOOLEAN
    <3>1. CASE \E based \in BOOLEAN : ver' = [ver EXCEPT ![p] = Pseudo(com[p], based)]
      BY <1>1, <1>8, <3>1 DEF ResolveVersion, Pseudo, Typed
    <3>2. CASE req[p] \in Tags /\ ver' = [ver EXCEPT ![p] = req[p]]
      <4>1. ver'[p] \in Tags
        BY <1>1, <3>2 DEF Typed
      <4>2. Pseudo(c, b) \in Commits \X BOOLEAN
        BY DEF Pseudo
      <4> QED BY <4>1, <4>2 DEF CacheAssumption
    <3> QED BY <1>8, <3>1, <3>2 DEF ResolveVersion
  <2>2. ASSUME NEW q \in Procs PROVE Checkout(q)'
    <3>1. CASE q = p
      BY <1>1, <1>8, <2>1, <3>1 DEF ResolveVersion, Checkout, Typed
    <3>2. CASE q # p
      <4>1. ver'[q] = ver[q] /\ pc'[q] = pc[q] /\ com'[q] = com[q]
        BY <1>1, <1>8, <3>2 DEF ResolveVersion, Typed
      <4> QED BY <1>8, <4>1 DEF ResolveVersion, Checkout, Safe
    <3> QED BY <3>1, <3>2
  <2> QED BY <1>1, <1>8, <2>2 DEF Safe, Stored, ResolveVersion, PseudoTreesFaithful, RefMapPublished
<1>9. ASSUME NEW p \in Procs, StatTree(p) PROVE Safe'
  BY <1>1, <1>9 DEF Safe, Typed, Checkout, Stored, StatTree, PseudoTreesFaithful, RefMapPublished
<1>10. ASSUME NEW p \in Procs, CheckoutEnd(p) \/ CheckoutFails(p) \/ RenameFails(p) PROVE Safe'
  <2>1. CASE CheckoutEnd(p)
    BY <1>1, <2>1 DEF Safe, Typed, Checkout, Stored, CheckoutEnd, PseudoTreesFaithful, RefMapPublished
  <2>2. CASE CheckoutFails(p)
    BY <1>1, <2>2 DEF Safe, Typed, Checkout, Stored, CheckoutFails, PseudoTreesFaithful, RefMapPublished
  <2>3. CASE RenameFails(p)
    BY <1>1, <2>3 DEF Safe, Typed, Checkout, Stored, RenameFails, PseudoTreesFaithful, RefMapPublished
  <2> QED BY <1>10, <2>1, <2>2, <2>3
<1>11. ASSUME NEW p \in Procs, Rename(p) PROVE Safe'
  <2>1. /\ ver[p] \in Versions /\ com[p] \in Commits /\ trees[ver[p]] = None
        /\ trees' = [trees EXCEPT ![ver[p]] = com[p]]
        /\ published' = published \union {ver[p]}
    BY <1>1, <1>11 DEF Rename, Typed, Safe, Checkout
  <2>2. Stored'
    BY <1>1, <2>1 DEF Safe, Stored, Typed, CacheAssumption
  <2>3. PseudoTreesFaithful'
    <3> SUFFICES ASSUME NEW c \in Commits, NEW b \in BOOLEAN
                 PROVE  trees'[Pseudo(c, b)] \in {None, c}
      BY DEF PseudoTreesFaithful
    <3>1. Pseudo(c, b) \in Versions
      BY DEF Pseudo, Versions
    <3>2. CASE ver[p] = Pseudo(c, b)
      BY <1>1, <1>11, <2>1, <3>1, <3>2 DEF Rename, Safe, Checkout, Typed
    <3>3. CASE ver[p] # Pseudo(c, b)
      BY <1>1, <2>1, <3>1, <3>3 DEF Safe, PseudoTreesFaithful, Typed
    <3> QED BY <3>2, <3>3
  <2>4. RefMapPublished'
    BY <1>11, <2>1 DEF Safe, RefMapPublished, Rename
  <2>5. ASSUME NEW q \in Procs PROVE Checkout(q)'
    BY <1>1, <1>11, <2>1 DEF Safe, Checkout, Rename, Typed, CacheAssumption
  <2> QED BY <1>1, <2>2, <2>3, <2>4, <2>5 DEF Safe
<1>12. ASSUME NEW p \in Procs, SaveRead(p) \/ SaveReadFails(p) PROVE Safe'
  <2>1. ver[p] \in published
    BY <1>1, <1>12 DEF SaveRead, SaveReadFails, Safe, Typed, Checkout, Stored
  <2>2. RefMapPublished'
    <3>1. CASE SaveRead(p)
      BY <1>1, <2>1, <3>1 DEF SaveRead, Safe, Typed, RefMapPublished
    <3>2. CASE SaveReadFails(p)
      BY <1>1, <2>1, <3>2 DEF SaveReadFails, NoEntries, Safe, Typed, RefMapPublished
    <3> QED BY <1>12, <3>1, <3>2
  <2>3. \A q \in Procs : Checkout(q)'
    BY <1>1, <1>12 DEF Safe, Typed, Checkout, SaveRead, SaveReadFails
  <2>4. Stored' /\ PseudoTreesFaithful'
    BY <1>12 DEF Safe, Stored, PseudoTreesFaithful, SaveRead, SaveReadFails
  <2> QED BY <1>1, <2>2, <2>3, <2>4 DEF Safe
<1>13. ASSUME NEW p \in Procs, SaveTruncate(p) PROVE Safe'
  BY <1>1, <1>13 DEF Safe, Typed, Checkout, Stored, SaveTruncate, PseudoTreesFaithful,
     RefMapPublished, NoEntries
<1>14. ASSUME NEW p \in Procs, SaveWrite(p) PROVE Safe'
  <2>1. RefMapPublished'
    BY <1>1, <1>14 DEF SaveWrite, Safe, Typed, RefMapPublished
  <2> QED BY <1>1, <1>14, <2>1 DEF Safe, Typed, Checkout, Stored, SaveWrite, PseudoTreesFaithful
<1>15. ASSUME NEW p \in Procs, SaveFails(p) PROVE Safe'
  BY <1>1, <1>15 DEF Safe, Typed, Checkout, Stored, SaveFails, PseudoTreesFaithful, RefMapPublished
<1>16. ASSUME NEW p \in Procs, Finish(p) \/ Crash(p) PROVE Safe'
  <2>1. Forget(p)
    BY <1>16 DEF Finish, Crash
  <2>2. \A q \in Procs \ {p} : /\ pc'[q] = pc[q] /\ com'[q] = com[q] /\ ver'[q] = ver[q]
                              /\ tmp'[q] = tmp[q] /\ buf'[q] = buf[q]
    BY <1>1, <2>1 DEF Forget, Typed
  <2>3. pc'[p] = "idle" /\ buf'[p] = NoEntries
    BY <1>1, <2>1 DEF Forget, Typed
  <2>4. ASSUME NEW q \in Procs PROVE Checkout(q)'
    BY <2>1, <2>2, <2>3 DEF Safe, Checkout, Forget
  <2>5. RefMapPublished'
    BY <2>1, <2>2, <2>3 DEF Safe, RefMapPublished, Forget, NoEntries
  <2> QED BY <1>1, <2>1, <2>4, <2>5 DEF Safe, Stored, PseudoTreesFaithful, Forget
<1>17. ASSUME NEW r \in Movable, NEW c \in Commits, Move(r, c) PROVE Safe'
  BY <1>1, <1>17 DEF Safe, Typed, Checkout, Stored, Move, PseudoTreesFaithful, RefMapPublished
<1>18. ASSUME NEW v \in Versions, Evict(v) PROVE Safe'
  <2>1. ASSUME NEW w \in Versions PROVE trees'[w] = trees[w] \/ trees'[w] = None
    BY <1>1, <1>18 DEF Evict, Typed
  <2>2. PseudoTreesFaithful'
    BY <1>1, <1>18, <2>1 DEF Safe, Evict, PseudoTreesFaithful, Pseudo, Versions
  <2> QED BY <1>1, <1>18, <2>1, <2>2 DEF Safe, Typed, Checkout, Stored, Evict, RefMapPublished,
      CacheAssumption
<1> QED BY <1>2, <1>3, <1>4, <1>5, <1>6, <1>7, <1>8, <1>9, <1>10, <1>11, <1>12, <1>13,
     <1>14, <1>15, <1>16, <1>17, <1>18 DEF Next, Step, Resolve, Materialize, SaveRefMap

LEMMA SafeAlways == ASSUME CacheAssumption PROVE Spec => []Safe
<1>1. Init => Safe
  BY SafeInit
<1>2. Safe /\ [Next]_vars => Safe'
  <2> SUFFICES ASSUME Safe, [Next]_vars PROVE Safe'
    OBVIOUS
  <2>1. CASE Next BY <2>1, SafeStep
  <2>2. CASE UNCHANGED vars
    BY <2>2 DEF vars, Safe, Typed, Checkout, Stored, PseudoTreesFaithful, RefMapPublished
  <2> QED BY <2>1, <2>2
<1> QED BY <1>1, <1>2, PTL DEF Spec

\* Existence proves completeness, for any number of processes, crashes and
\* failures: no partial tree is ever found in the cache or handed to a build.
THEOREM TreesAreComplete == ASSUME CacheAssumption PROVE Spec => []TreesComplete
<1>1. Safe => TreesComplete
  BY DEF Safe, Typed, Checkout, HasTree, Stored, TreesComplete
<1> QED BY <1>1, SafeAlways, PTL

\* A pseudo-version always names the commit in its tree.
THEOREM PseudoTreesAreFaithful ==
  ASSUME CacheAssumption PROVE Spec => []PseudoTreesFaithful
<1>1. Safe => PseudoTreesFaithful
  BY DEF Safe
<1> QED BY <1>1, SafeAlways, PTL

\* The table, and every table about to be written, names published versions only.
THEOREM RefMapIsPublished == ASSUME CacheAssumption PROVE Spec => []RefMapPublished
<1>1. Safe => RefMapPublished
  BY DEF Safe
<1> QED BY <1>1, SafeAlways, PTL

\* The trees change in two actions only.
LEMMA TreesStep ==
  ASSUME CacheAssumption, Safe, Next
  PROVE  \/ UNCHANGED trees
         \/ \E p \in Procs : Rename(p)
         \/ \E v \in Versions : Evict(v)
<1> USE DEF sharedVars, localVars, history
<1>1. ASSUME NEW p \in Procs, NEW r \in Refs, Start(p, r) PROVE UNCHANGED trees
  BY <1>1 DEF Start
<1>2. ASSUME NEW p \in Procs, Prepare(p) PROVE UNCHANGED trees
  BY <1>2 DEF Prepare, StatBare, InitBegin, InitEnd, CheckOrigin, AddOrigin, SetURL, ConfigFails
<1>3. ASSUME NEW p \in Procs, Resolve(p) PROVE UNCHANGED trees
  BY <1>3 DEF Resolve, LookupRefMap, Warm, FetchBegin, FetchEnd, FetchFails, ResolveRef,
     ResolveFetchHead, Fallback, ResolveVersion
<1>4. ASSUME NEW p \in Procs, Materialize(p), ~Rename(p) PROVE UNCHANGED trees
  BY <1>4 DEF Materialize, StatTree, StatTreeOffline, CheckoutEnd, CheckoutFails, RenameFails
<1>5. ASSUME NEW p \in Procs, SaveRefMap(p) PROVE UNCHANGED trees
  BY <1>5 DEF SaveRefMap, SaveRead, SaveReadFails, SaveTruncate, SaveWrite, SaveFails
<1>6. ASSUME NEW p \in Procs, Finish(p) \/ Crash(p) PROVE UNCHANGED trees
  BY <1>6 DEF Finish, Crash, Forget
<1>7. ASSUME NEW r \in Movable, NEW c \in Commits, Move(r, c) PROVE UNCHANGED trees
  BY <1>7 DEF Move
<1> QED BY <1>1, <1>2, <1>3, <1>4, <1>5, <1>6, <1>7 DEF Next, Step

\* A published tree keeps its content until the user deletes it.
THEOREM TreesAreImmutable == ASSUME CacheAssumption PROVE Spec => TreesImmutable
<1>1. Safe /\ [Next]_vars =>
        [\A v \in Versions : trees[v] # None => trees'[v] \in {None, trees[v]}]_trees
  <2> SUFFICES ASSUME Safe, Next, ~UNCHANGED trees, NEW v \in Versions, trees[v] # None
               PROVE  trees'[v] \in {None, trees[v]}
    BY DEF vars
  <2>1. CASE \E p \in Procs : Rename(p)
    BY <2>1 DEF Rename, Safe, Typed
  <2>2. CASE \E w \in Versions : Evict(w)
    BY <2>2 DEF Evict, Safe, Typed
  <2> QED BY <2>1, <2>2, TreesStep
<1> QED BY <1>1, SafeAlways, PTL DEF Spec, TreesImmutable

-----------------------------------------------------------------------------
(* SourceCache implements ModuleCache.                                     *)

\* A step that hands no tree out and takes none back does not change Served.
LEMMA ServedSame ==
  ASSUME \A p \in Procs : (pc'[p] = "done" <=> pc[p] = "done")
                          /\ (pc[p] = "done" => ver'[p] = ver[p])
  PROVE  Served' = Served
BY DEF Served

\* Process p alone is handed the version v, or lets its version go.
LEMMA ServedOne ==
  ASSUME NEW p \in Procs, NEW v,
         \A q \in Procs \ {p} : pc'[q] = pc[q] /\ ver'[q] = ver[q],
         v = IF pc'[p] = "done" THEN ver'[p] ELSE None
  PROVE  Served' = [Served EXCEPT ![p] = v]
BY DEF Served

LEMMA ClaimsPublished == Typed /\ RefMapPublished => Claims \in [Refs -> published \union {None}]
BY DEF Claims, RefMapPublished

\* A step that leaves the trees and the table and serves nobody is a stutter.
LEMMA Stutter ==
  ASSUME UNCHANGED <<trees, published, refmap>>,
         \A p \in Procs : (pc'[p] = "done" <=> pc[p] = "done")
                          /\ (pc[p] = "done" => ver'[p] = ver[p])
  PROVE  UNCHANGED Cache!vars
BY ServedSame DEF Cache!vars, Claims

LEMMA CacheInit == CacheAssumption /\ Init => Cache!Init
BY DEF Init, Cache!Init, Claims, Served, NoEntries

LEMMA CacheStep ==
  ASSUME CacheAssumption, Safe, Safe', Next
  PROVE  Cache!Next \/ UNCHANGED Cache!vars
<1> USE DEF sharedVars, localVars, history
<1>1. Typed /\ Typed'
  BY DEF Safe
<1>2. Claims' \in [Refs -> published' \union {None}]
  BY ClaimsPublished DEF Safe, Typed, Claims, RefMapPublished
<1>3. ASSUME NEW p \in Procs, NEW r \in Refs, Start(p, r) PROVE UNCHANGED Cache!vars
  BY <1>1, <1>3, Stutter DEF Start, Typed
<1>4. ASSUME NEW p \in Procs, Prepare(p) PROVE UNCHANGED Cache!vars
  BY <1>1, <1>4, Stutter DEF Typed, Prepare, StatBare, InitBegin, InitEnd, CheckOrigin,
     AddOrigin, SetURL, ConfigFails, ConfigWriters
<1>5. ASSUME NEW p \in Procs, LookupRefMap(p) \/ Fallback(p) PROVE UNCHANGED Cache!vars
  BY <1>1, <1>5, Stutter DEF Typed, LookupRefMap, Fallback, TakeEntry, NoEntry
<1>6. ASSUME NEW p \in Procs, FetchBegin(p) \/ FetchEnd(p) \/ FetchFails(p)
      PROVE UNCHANGED Cache!vars
  BY <1>1, <1>6, Stutter DEF Typed, FetchBegin, FetchEnd, FetchFails
<1>7. ASSUME NEW p \in Procs, ResolveRef(p) \/ ResolveFetchHead(p) \/ ResolveVersion(p)
      PROVE UNCHANGED Cache!vars
  BY <1>1, <1>7, Stutter DEF Typed, ResolveRef, ResolveFetchHead, ResolveVersion
<1>8. ASSUME NEW p \in Procs,
             \/ StatTree(p) \/ CheckoutEnd(p) \/ CheckoutFails(p) \/ RenameFails(p)
             \/ SaveRead(p) \/ SaveReadFails(p)
      PROVE UNCHANGED Cache!vars
  BY <1>1, <1>8, Stutter DEF Typed, StatTree, CheckoutEnd, CheckoutFails, RenameFails, SaveRead,
     SaveReadFails
<1>9. ASSUME NEW p \in Procs, Warm(p) \/ StatTreeOffline(p) \/ SaveFails(p)
      PROVE  Cache!Next \/ UNCHANGED Cache!vars
  <2>1. UNCHANGED <<trees, published, refmap, ver>>
    BY <1>9 DEF Warm, StatTreeOffline, SaveFails
  <2>2. CASE pc'[p] = "done"
    <3>1. ver[p] \in Versions /\ trees[ver[p]] # None
      BY <1>1, <1>9, <2>2 DEF Warm, StatTreeOffline, SaveFails, Typed, Safe, Checkout, HasTree
    <3>2. \A q \in Procs \ {p} : pc'[q] = pc[q]
      BY <1>1, <1>9 DEF Warm, StatTreeOffline, SaveFails, Typed
    <3>3. Served' = [Served EXCEPT ![p] = ver[p]]
      BY <2>1, <2>2, <3>2, ServedOne
    <3>4. Cache!Serve(p, ver[p])
      BY <2>1, <3>1, <3>3 DEF Cache!Serve, Claims
    <3> QED BY <3>1, <3>4 DEF Cache!Next
  <2>3. CASE pc'[p] # "done"
    BY <1>1, <1>9, <2>1, <2>3, Stutter DEF Warm, StatTreeOffline, SaveFails, Typed
  <2> QED BY <2>2, <2>3
<1>10. ASSUME NEW p \in Procs, Rename(p) PROVE Cache!Next
  <2>1. ver[p] \in Versions /\ com[p] \in Commits /\ tmp[p] = com[p]
    BY <1>1, <1>10 DEF Rename, Typed, Safe, Checkout
  <2>2. Served' = Served
    BY <1>1, <1>10, ServedSame DEF Rename, Typed
  <2>3. Cache!Publish(ver[p], com[p])
    BY <1>10, <2>1, <2>2 DEF Rename, Cache!Publish, Claims
  <2> QED BY <2>1, <2>3 DEF Cache!Next
<1>11. ASSUME NEW p \in Procs, SaveTruncate(p) PROVE Cache!Next
  <2>1. Served' = Served
    BY <1>1, <1>11, ServedSame DEF SaveTruncate, Typed
  <2>2. Cache!Claim
    BY <1>2, <1>11, <2>1 DEF SaveTruncate, Cache!Claim
  <2> QED BY <2>2 DEF Cache!Next
<1>12. ASSUME NEW p \in Procs, SaveWrite(p) PROVE Cache!Next
  <2>1. ver[p] \in Versions /\ trees[ver[p]] # None
    BY <1>1, <1>12 DEF SaveWrite, Typed, Safe, Checkout, HasTree
  <2>2. Served' = [Served EXCEPT ![p] = ver[p]]
    BY <1>1, <1>12, ServedOne DEF SaveWrite, Typed
  <2>3. Cache!ClaimAndServe(p, ver[p])
    BY <1>2, <1>12, <2>1, <2>2 DEF SaveWrite, Cache!ClaimAndServe
  <2> QED BY <2>1, <2>3 DEF Cache!Next
<1>13. ASSUME NEW p \in Procs, Finish(p) \/ Crash(p) PROVE Cache!Next
  <2>1. Forget(p)
    BY <1>13 DEF Finish, Crash
  <2>2. Served' = [Served EXCEPT ![p] = None]
    BY <1>1, <2>1, ServedOne DEF Forget, Typed
  <2>3. Cache!Release(p)
    BY <2>1, <2>2 DEF Forget, Cache!Release, Claims
  <2> QED BY <2>3 DEF Cache!Next
<1>14. ASSUME NEW r \in Movable, NEW c \in Commits, Move(r, c) PROVE UNCHANGED Cache!vars
  BY <1>14, Stutter DEF Move
<1>15. ASSUME NEW v \in Versions, Evict(v) PROVE Cache!Next
  <2>1. Served' = Served
    BY <1>15, ServedSame DEF Evict
  <2>2. Cache!Evict(v)
    BY <1>15, <2>1 DEF Evict, Cache!Evict, Served, Claims
  <2> QED BY <2>2 DEF Cache!Next
<1> QED BY <1>3, <1>4, <1>5, <1>6, <1>7, <1>8, <1>9, <1>10, <1>11, <1>12, <1>13, <1>14, <1>15
    DEF Next, Step, Resolve, Materialize, SaveRefMap

\* The cache keeps ModuleCache's promise for every number of processes, with
\* crashes, failing commands and a changing remote.
THEOREM Implementation == ASSUME CacheAssumption PROVE Spec => ImplementsModuleCache
<1>1. Init => Cache!Init
  BY CacheInit
<1>2. Safe /\ Safe' /\ [Next]_vars => [Cache!Next]_(Cache!vars)
  <2> SUFFICES ASSUME Safe, Safe', [Next]_vars PROVE Cache!Next \/ UNCHANGED Cache!vars
    OBVIOUS
  <2>1. CASE Next BY <2>1, CacheStep
  <2>2. CASE UNCHANGED vars
    BY <2>2, Stutter DEF vars
  <2> QED BY <2>1, <2>2
<1> QED BY <1>1, <1>2, SafeAlways, PTL DEF Spec, ImplementsModuleCache, Cache!Spec

-----------------------------------------------------------------------------
(* When builds run one after the other, the cache also holds what the refs *)
(* named: with one user at a time FETCH_HEAD is the user's own.            *)

\* Version v stands for commit c when it was resolved for ref r.
Names(v, c, r) ==
  /\ v \in Tags => v = r
  /\ \A d \in Commits, b \in BOOLEAN : v = Pseudo(d, b) => d = c

GoodEntry(e, r) == e # None => e.commit \in tips[r] /\ Names(e.version, e.commit, r)

RemoteKnown ==
  /\ \A r \in Refs : remote[r] # None => remote[r] \in tips[r]
  /\ \A r \in Shas : remote[r] = Tip0[r]
  /\ Tags \intersect Movable = {} => \A t \in Tags : tips[t] \subseteq {Tip0[t]}

TrackingKnown == \A b \in Branches : tracking[b] # None => tracking[b] \in tips[b]

TableKnown == \A r \in Refs : GoodEntry(refmap[r], r)

Knows(p) ==
  /\ pc[p] = "fetching" => fetchHead = <<>>
  /\ pc[p] \in {"resolve", "fetchhead"} => fetchHead = <<>> \/ Head(fetchHead) \in tips[req[p]]
  /\ pc[p] \in Resolved \union {"version"} => com[p] \in tips[req[p]]
  /\ pc[p] \in Resolved => Names(ver[p], com[p], req[p])
  /\ \A r \in Refs : GoodEntry(buf[p][r], r)

Serial ==
  /\ Safe /\ OneAtATime
  /\ RemoteKnown /\ TrackingKnown /\ TableKnown /\ TagTreesFaithful
  /\ \A p \in Procs : Knows(p)

\* What the bare repository names ref r by is a commit r has named.
LEMMA LocalCommitKnown ==
  ASSUME CacheAssumption, Serial, NEW r \in Refs, LocalCommit(r) # None
  PROVE  LocalCommit(r) \in tips[r]
<1>1. CASE r \in Branches
  BY <1>1 DEF LocalCommit, Serial, TrackingKnown
<1>2. CASE r \notin Branches
  <2>1. r \in Shas /\ LocalCommit(r) = Tip0[r]
    BY <1>2 DEF LocalCommit
  <2> QED BY <2>1 DEF Serial, RemoteKnown
<1> QED BY <1>1, <1>2

\* A step of p that changes nothing the refs have named: Serial is preserved if
\* the table, the tracking refs, the tags' trees and p's own knowledge are.
LEMMA OwnStep ==
  ASSUME Serial, Safe', OneAtATime', NEW p \in Procs, pc[p] # "idle" \/ pc'[p] # "idle",
         UNCHANGED <<tips, remote>>,
         \A q \in Procs \ {p} : pc'[q] = pc[q] /\ buf'[q] = buf[q],
         TrackingKnown', TableKnown', TagTreesFaithful', Knows(p)'
  PROVE  Serial'
<1>1. ASSUME NEW q \in Procs, q # p PROVE Knows(q)'
  <2>1. pc'[q] = "idle"
    BY <1>1 DEF Serial, OneAtATime
  <2>2. \A r \in Refs : GoodEntry(buf[q][r], r)'
    BY <1>1 DEF Serial, Knows, GoodEntry, Names
  <2> QED BY <2>1, <2>2 DEF Knows
<1>2. RemoteKnown'
  BY DEF Serial, RemoteKnown
<1> QED BY <1>1, <1>2 DEF Serial

\* The same, when the shared data is left alone too.
LEMMA PrivateStep ==
  ASSUME Serial, Safe', OneAtATime', NEW p \in Procs, pc[p] # "idle" \/ pc'[p] # "idle",
         UNCHANGED <<tips, remote, tracking, refmap, trees>>,
         \A q \in Procs \ {p} : pc'[q] = pc[q] /\ buf'[q] = buf[q],
         Knows(p)'
  PROVE  Serial'
<1>1. TrackingKnown' /\ TableKnown' /\ TagTreesFaithful'
  BY DEF Serial, TrackingKnown, TableKnown, TagTreesFaithful, GoodEntry, Names
<1> QED BY <1>1, OwnStep

LEMMA SerialInit == CacheAssumption /\ Init => Serial
<1> SUFFICES ASSUME CacheAssumption, Init PROVE Serial
  OBVIOUS
<1>1. Safe
  BY SafeInit
<1>2. RemoteKnown
  BY DEF Init, RemoteKnown, CacheAssumption
<1>3. TrackingKnown /\ TableKnown /\ TagTreesFaithful /\ OneAtATime
  BY DEF Init, TrackingKnown, TableKnown, GoodEntry, NoEntries, TagTreesFaithful, OneAtATime, Versions
<1>4. \A p \in Procs : Knows(p)
  BY DEF Init, Knows, GoodEntry, NoEntries
<1> QED BY <1>1, <1>2, <1>3, <1>4 DEF Serial

LEMMA SerialStep == ASSUME CacheAssumption, Serial, Next, OneAtATime' PROVE Serial'
<1> USE DEF sharedVars, localVars, history
<1>1. Safe /\ Safe'
  BY SafeStep DEF Serial
<1>2. Typed /\ Typed'
  BY <1>1 DEF Safe
<1>3. ASSUME NEW p \in Procs, NEW r \in Refs, Start(p, r) PROVE Serial'
  <2>1. Knows(p)'
    BY <1>2, <1>3 DEF Start, Typed, Serial, Knows, GoodEntry, Names
  <2> QED BY <1>1, <1>2, <1>3, <2>1, PrivateStep DEF Start, Typed
<1>4. ASSUME NEW p \in Procs, Prepare(p) PROVE Serial'
  <2>1. /\ pc[p] # "idle" /\ pc'[p] \in {"mkbare", "initbare", "origin", "addorigin", "seturl", "lookup", "failed"}
        /\ UNCHANGED <<tips, remote, tracking, refmap, trees, buf>>
        /\ \A q \in Procs \ {p} : pc'[q] = pc[q]
    BY <1>2, <1>4 DEF Typed, Prepare, StatBare, InitBegin, InitEnd, CheckOrigin, AddOrigin,
       SetURL, ConfigFails, ConfigWriters
  <2>2. Knows(p)'
    BY <2>1 DEF Serial, Knows, GoodEntry, Names
  <2> QED BY <1>1, <2>1, <2>2, PrivateStep
<1>5. ASSUME NEW p \in Procs, LookupRefMap(p) \/ Fallback(p) PROVE Serial'
  <2>1. /\ pc[p] # "idle" /\ pc'[p] \in {"fetch", "warm", "failed", "offline"}
        /\ UNCHANGED <<tips, remote, tracking, refmap, trees, buf, req>>
        /\ \A q \in Procs \ {p} : pc'[q] = pc[q]
    BY <1>2, <1>5 DEF Typed, LookupRefMap, Fallback
  <2>2. CASE TakeEntry(p, req[p])
    <3>1. req[p] \in Refs
      BY <1>2, <2>1 DEF Typed
    <3>2. com'[p] \in tips[req[p]] /\ Names(ver'[p], com'[p], req[p])
      BY <1>2, <2>2, <3>1 DEF Typed, TakeEntry, Serial, TableKnown, GoodEntry
    <3>3. Knows(p)'
      BY <2>1, <3>2 DEF Serial, Knows, GoodEntry, Names
    <3> QED BY <1>1, <2>1, <3>3, PrivateStep
  <2>3. CASE ~TakeEntry(p, req[p])
    <3>1. pc'[p] \in {"fetch", "failed"}
      BY <1>2, <1>5, <2>3 DEF Typed, LookupRefMap, Fallback, NoEntry
    <3>2. Knows(p)'
      BY <2>1, <3>1 DEF Serial, Knows, GoodEntry, Names
    <3> QED BY <1>1, <2>1, <3>2, PrivateStep
  <2> QED BY <2>2, <2>3
<1>6. ASSUME NEW p \in Procs, Warm(p) \/ StatTreeOffline(p) PROVE Serial'
  <2>1. Knows(p)'
    BY <1>2, <1>6 DEF Warm, StatTreeOffline, Typed, Serial, Knows, GoodEntry, Names
  <2> QED BY <1>1, <1>2, <1>6, <2>1, PrivateStep DEF Warm, StatTreeOffline, Typed
<1>7. ASSUME NEW p \in Procs, FetchBegin(p) \/ FetchFails(p) PROVE Serial'
  <2>1. /\ pc[p] # "idle" /\ pc'[p] \in {"fetching", "resolve"} /\ fetchHead' = <<>>
        /\ UNCHANGED <<tips, remote, tracking, refmap, trees, buf>>
        /\ \A q \in Procs \ {p} : pc'[q] = pc[q]
    BY <1>2, <1>7 DEF FetchBegin, FetchFails, Typed, Serial, Knows
  <2>2. Knows(p)'
    BY <2>1 DEF Serial, Knows, GoodEntry, Names
  <2> QED BY <1>1, <2>1, <2>2, PrivateStep
<1>8. ASSUME NEW p \in Procs, FetchEnd(p) PROVE Serial'
  <2>1. /\ req[p] \in Refs /\ remote[req[p]] \in Commits /\ remote[req[p]] \in tips[req[p]]
        /\ pc[p] = "fetching" /\ pc'[p] = "resolve" /\ fetchHead' = Append(<<>>, remote[req[p]])
    <3>1. pc[p] = "fetching" /\ pc'[p] = "resolve"
      BY <1>2, <1>8 DEF FetchEnd, Typed
    <3>2. req[p] \in Refs /\ remote[req[p]] \in Commits
      BY <1>2, <1>8, <3>1 DEF FetchEnd, Typed
    <3>3. remote[req[p]] \in tips[req[p]]
      BY <3>2 DEF Serial, RemoteKnown
    <3>4. fetchHead = <<>>
      BY <3>1 DEF Serial, Knows
    <3> QED BY <1>8, <3>1, <3>2, <3>3, <3>4 DEF FetchEnd
  <2>2. Head(fetchHead') \in tips[req[p]]
    BY <2>1
  <2>3. Knows(p)'
    BY <1>8, <2>1, <2>2 DEF FetchEnd, Serial, Knows, GoodEntry, Names
  <2>4. TrackingKnown'
    BY <1>2, <1>8, <2>1 DEF FetchEnd, Serial, TrackingKnown, Typed
  <2>5. TableKnown' /\ TagTreesFaithful'
    BY <1>8 DEF FetchEnd, Serial, TableKnown, GoodEntry, Names, TagTreesFaithful
  <2> QED BY <1>1, <1>2, <1>8, <2>1, <2>3, <2>4, <2>5, OwnStep DEF FetchEnd, Typed
<1>9. ASSUME NEW p \in Procs, ResolveRef(p) PROVE Serial'
  <2>1. pc'[p] = "version" => com'[p] \in tips[req[p]]
    BY <1>2, <1>9, LocalCommitKnown DEF ResolveRef, Typed
  <2>2. Knows(p)'
    BY <1>2, <1>9, <2>1 DEF ResolveRef, Typed, Serial, Knows, GoodEntry, Names
  <2> QED BY <1>1, <1>2, <1>9, <2>2, PrivateStep DEF ResolveRef, Typed
<1>18. ASSUME NEW p \in Procs, ResolveFetchHead(p) PROVE Serial'
  <2>1. pc'[p] = "version" => com'[p] \in tips[req[p]]
    BY <1>2, <1>18 DEF ResolveFetchHead, FetchHeadCommit, Typed, Serial, Knows
  <2>2. Knows(p)'
    BY <1>2, <1>18, <2>1 DEF ResolveFetchHead, Typed, Serial, Knows, GoodEntry, Names
  <2> QED BY <1>1, <1>2, <1>18, <2>2, PrivateStep DEF ResolveFetchHead, Typed
<1>10. ASSUME NEW p \in Procs, ResolveVersion(p) PROVE Serial'
  <2>1. com[p] \in Commits /\ com[p] \in tips[req[p]]
    BY <1>2, <1>10 DEF ResolveVersion, Typed, Serial, Knows
  <2>2. Names(ver'[p], com[p], req[p])
    <3>1. CASE req[p] \in Tags /\ ver' = [ver EXCEPT ![p] = req[p]]
      <4>1. ver'[p] = req[p]
        BY <1>2, <3>1 DEF Typed
      <4>2. \A d \in Commits, b \in BOOLEAN : Pseudo(d, b) \notin Tags
        BY DEF Pseudo, CacheAssumption
      <4> QED BY <3>1, <4>1, <4>2 DEF Names
    <3>2. ASSUME NEW based \in BOOLEAN, ver' = [ver EXCEPT ![p] = Pseudo(com[p], based)]
          PROVE  Names(ver'[p], com[p], req[p])
      <4>1. ver'[p] = Pseudo(com[p], based)
        BY <1>2, <3>2 DEF Typed
      <4>2. Pseudo(com[p], based) \notin Tags
        BY <2>1 DEF Pseudo, CacheAssumption
      <4>3. \A d \in Commits, b \in BOOLEAN : Pseudo(com[p], based) = Pseudo(d, b) => d = com[p]
        BY DEF Pseudo
      <4> QED BY <4>1, <4>2, <4>3 DEF Names
    <3> QED BY <1>10, <3>1, <3>2 DEF ResolveVersion
  <2>3. Knows(p)'
    BY <1>2, <1>10, <2>1, <2>2 DEF ResolveVersion, Typed, Serial, Knows, GoodEntry, Names
  <2> QED BY <1>1, <1>2, <1>10, <2>3, PrivateStep DEF ResolveVersion, Typed
<1>11. ASSUME NEW p \in Procs,
              StatTree(p) \/ CheckoutEnd(p) \/ CheckoutFails(p) \/ RenameFails(p) \/ SaveFails(p)
       PROVE  Serial'
  <2>1. /\ pc[p] \in Resolved /\ pc'[p] \in Resolved \union {"failed"}
        /\ UNCHANGED <<tips, remote, tracking, refmap, trees, buf, req, com, ver>>
        /\ \A q \in Procs \ {p} : pc'[q] = pc[q]
    BY <1>2, <1>11 DEF StatTree, CheckoutEnd, CheckoutFails, RenameFails, SaveFails, Typed
  <2>2. Knows(p)'
    BY <2>1 DEF Serial, Knows, GoodEntry, Names
  <2> QED BY <1>1, <2>1, <2>2, PrivateStep
<1>12. ASSUME NEW p \in Procs, Rename(p) PROVE Serial'
  <2>1. /\ ver[p] \in Versions /\ com[p] \in tips[req[p]] /\ Names(ver[p], com[p], req[p])
        /\ trees' = [trees EXCEPT ![ver[p]] = com[p]]
    BY <1>2, <1>12 DEF Rename, Typed, Serial, Knows, Safe, Checkout
  <2>2. TagTreesFaithful'
    <3> SUFFICES ASSUME NEW t \in Tags PROVE trees'[t] \in tips[t] \union {None}
      BY <1>12 DEF Rename, TagTreesFaithful
    <3>1. t \in Versions
      BY DEF Versions
    <3>2. CASE t = ver[p]
      BY <1>2, <2>1, <3>1, <3>2 DEF Names, Typed
    <3>3. CASE t # ver[p]
      BY <1>2, <2>1, <3>1, <3>3 DEF Typed, Serial, TagTreesFaithful
    <3> QED BY <3>2, <3>3
  <2>3. Knows(p)'
    BY <1>2, <1>12 DEF Rename, Typed, Serial, Knows, GoodEntry, Names
  <2>4. TrackingKnown' /\ TableKnown'
    BY <1>12 DEF Rename, Serial, TrackingKnown, TableKnown, GoodEntry, Names
  <2> QED BY <1>1, <1>2, <1>12, <2>2, <2>3, <2>4, OwnStep DEF Rename, Typed
<1>13. ASSUME NEW p \in Procs, SaveRead(p) PROVE Serial'
  <2>1. req[p] \in Refs /\ com[p] \in tips[req[p]] /\ Names(ver[p], com[p], req[p])
    BY <1>2, <1>13 DEF SaveRead, Typed, Serial, Knows
  <2>2. ASSUME NEW r \in Refs PROVE GoodEntry(buf[p][r], r)'
    <3>1. CASE r = req[p]
      BY <1>2, <1>13, <2>1, <3>1 DEF SaveRead, Typed, GoodEntry, Names
    <3>2. CASE r # req[p]
      BY <1>2, <1>13, <2>1, <3>2 DEF SaveRead, Typed, Serial, TableKnown, GoodEntry, Names
    <3> QED BY <3>1, <3>2
  <2>3. Knows(p)'
    BY <1>2, <1>13, <2>1, <2>2 DEF SaveRead, Typed, Knows, Names
  <2> QED BY <1>1, <1>2, <1>13, <2>3, PrivateStep DEF SaveRead, Typed
<1>19. ASSUME NEW p \in Procs, SaveReadFails(p) PROVE Serial'
  <2>1. req[p] \in Refs /\ com[p] \in tips[req[p]] /\ Names(ver[p], com[p], req[p])
    BY <1>2, <1>19 DEF SaveReadFails, Typed, Serial, Knows
  <2>2. ASSUME NEW r \in Refs PROVE GoodEntry(buf[p][r], r)'
    <3>1. CASE r = req[p]
      BY <1>2, <1>19, <2>1, <3>1 DEF SaveReadFails, NoEntries, Typed, GoodEntry, Names
    <3>2. CASE r # req[p]
      BY <1>2, <1>19, <2>1, <3>2 DEF SaveReadFails, NoEntries, Typed, GoodEntry, Names
    <3> QED BY <3>1, <3>2
  <2>3. Knows(p)'
    BY <1>2, <1>19, <2>1, <2>2 DEF SaveReadFails, Typed, Knows, Names
  <2> QED BY <1>1, <1>2, <1>19, <2>3, PrivateStep DEF SaveReadFails, Typed
<1>14. ASSUME NEW p \in Procs, SaveTruncate(p) \/ SaveWrite(p) PROVE Serial'
  <2>1. /\ pc[p] \in Resolved /\ pc'[p] \in Resolved
        /\ UNCHANGED <<tips, remote, tracking, trees, buf, req, com, ver>>
        /\ \A q \in Procs \ {p} : pc'[q] = pc[q]
    BY <1>2, <1>14 DEF SaveTruncate, SaveWrite, Typed
  <2>2. ASSUME NEW r \in Refs PROVE refmap'[r] \in {None, refmap[r], buf[p][r]}
    BY <1>14 DEF SaveTruncate, SaveWrite, NoEntries
  <2>3. TableKnown'
    BY <2>1, <2>2 DEF Serial, TableKnown, Knows, GoodEntry, Names
  <2>4. Knows(p)' /\ TrackingKnown' /\ TagTreesFaithful'
    BY <2>1 DEF Serial, Knows, GoodEntry, Names, TrackingKnown, TagTreesFaithful
  <2> QED BY <1>1, <2>1, <2>3, <2>4, OwnStep
<1>15. ASSUME NEW p \in Procs, Finish(p) \/ Crash(p) PROVE Serial'
  <2>1. /\ pc[p] # "idle" /\ pc'[p] = "idle" /\ buf'[p] = NoEntries
        /\ UNCHANGED <<tips, remote, tracking, refmap, trees>>
        /\ \A q \in Procs \ {p} : pc'[q] = pc[q] /\ buf'[q] = buf[q]
    BY <1>2, <1>15 DEF Finish, Crash, Forget, Typed
  <2>2. Knows(p)'
    BY <2>1 DEF Knows, GoodEntry, NoEntries
  <2> QED BY <1>1, <2>1, <2>2, PrivateStep
<1>16. ASSUME NEW r \in Movable, NEW c \in Commits, Move(r, c) PROVE Serial'
  <2>1. /\ r \in Refs \ Shas
        /\ remote' = [remote EXCEPT ![r] = c] /\ tips' = [tips EXCEPT ![r] = @ \union {c}]
        /\ UNCHANGED <<tracking, fetchHead, refmap, trees, pc, req, com, ver, buf>>
    BY <1>16 DEF Move, CacheAssumption
  <2>2. \A s \in Refs : tips[s] \subseteq tips'[s]
    BY <1>2, <2>1 DEF Typed
  <2>3. RemoteKnown'
    BY <1>2, <2>1, <2>2 DEF Serial, RemoteKnown, Typed, CacheAssumption
  <2>4. TrackingKnown' /\ TableKnown' /\ TagTreesFaithful'
    BY <2>1, <2>2 DEF Serial, TrackingKnown, TableKnown, GoodEntry, Names, TagTreesFaithful,
       CacheAssumption
  <2>5. \A p \in Procs : Knows(p)'
    BY <1>2, <2>1, <2>2 DEF Serial, Knows, GoodEntry, Names, Typed
  <2> QED BY <1>1, <2>3, <2>4, <2>5 DEF Serial
<1>17. ASSUME NEW v \in Versions, Evict(v) PROVE Serial'
  <2>1. \A w \in Versions : trees'[w] \in {trees[w], None}
    BY <1>2, <1>17 DEF Evict, Typed
  <2>2. TagTreesFaithful'
    BY <1>17, <2>1 DEF Evict, Serial, TagTreesFaithful, Versions
  <2> QED BY <1>1, <1>17, <2>2 DEF Evict, Serial, RemoteKnown, TrackingKnown, TableKnown,
      GoodEntry, Names, Knows
<1> QED BY <1>3, <1>4, <1>5, <1>6, <1>7, <1>8, <1>9, <1>10, <1>11, <1>12, <1>13, <1>14, <1>15,
    <1>16, <1>17, <1>18, <1>19 DEF Next, Step, Resolve, Materialize, SaveRefMap

LEMMA SerialAlways == ASSUME CacheAssumption PROVE SerialSpec => []Serial
<1>1. Init => Serial
  BY SerialInit
<1>2. Serial /\ [Next /\ OneAtATime']_vars => Serial'
  <2> SUFFICES ASSUME Serial, [Next /\ OneAtATime']_vars PROVE Serial'
    OBVIOUS
  <2>1. CASE Next /\ OneAtATime'
    BY <2>1, SerialStep
  <2>2. CASE UNCHANGED vars
    <3>1. Safe'
      BY <2>2 DEF vars, Serial, Safe, Typed, Checkout, Stored, PseudoTreesFaithful, RefMapPublished
    <3> QED BY <2>2, <3>1 DEF vars, Serial, OneAtATime, RemoteKnown, TrackingKnown, TableKnown,
        TagTreesFaithful, Knows, GoodEntry, Names
  <2> QED BY <2>1, <2>2
<1> QED BY <1>1, <1>2, PTL DEF SerialSpec

\* One build at a time: the tree under a tag's name holds a commit the tag named.
THEOREM SerialTagTrees == ASSUME CacheAssumption PROVE SerialSpec => []TagTreesFaithful
<1>1. Serial => TagTreesFaithful
  BY DEF Serial
<1> QED BY <1>1, SerialAlways, PTL

\* One build at a time: the table maps refs to commits they have named.
THEOREM SerialRefMap == ASSUME CacheAssumption PROVE SerialSpec => []RefMapFaithful
<1>1. Serial => RefMapFaithful
  BY DEF Serial, TableKnown, GoodEntry, RefMapFaithful
<1> QED BY <1>1, SerialAlways, PTL

\* One build at a time and fixed tags: the commit reported is the commit built.
THEOREM SerialResult == ASSUME CacheAssumption PROVE SerialSpec => []ResultMatchesTree
<1>1. ASSUME Serial PROVE ResultMatchesTree
  <2> SUFFICES ASSUME Tags \intersect Movable = {}, NEW p \in Procs, pc[p] = "done"
               PROVE  trees[ver[p]] = com[p]
    BY DEF ResultMatchesTree
  <2>1. /\ ver[p] \in Versions /\ trees[ver[p]] # None /\ trees[ver[p]] \in Commits
        /\ com[p] \in tips[req[p]] /\ Names(ver[p], com[p], req[p])
    BY <1>1 DEF Serial, Safe, Typed, Checkout, HasTree, Stored, Knows
  <2>2. CASE ver[p] \in Tags
    BY <1>1, <2>1, <2>2 DEF Serial, TagTreesFaithful, RemoteKnown, Names
  <2>3. CASE ver[p] \in Commits \X BOOLEAN
    <3>1. PICK c \in Commits, b \in BOOLEAN : ver[p] = Pseudo(c, b)
      BY <2>3 DEF Pseudo
    <3> QED BY <1>1, <2>1, <3>1 DEF Serial, Safe, PseudoTreesFaithful, Names
  <2> QED BY <2>1, <2>2, <2>3 DEF Versions
<1> QED BY <1>1, SerialAlways, PTL

-----------------------------------------------------------------------------
(* One build at a time: nothing that was recorded is lost.                 *)

\* A table about to be written names every ref recorded, and its own.
Rewriting(p) ==
  /\ pc[p] = "savetrunc" => buf[p][req[p]] # None /\ \A r \in saved : buf[p][r] # None
  /\ pc[p] = "savewrite" => buf[p][req[p]] # None /\ \A r \in saved : buf[p][r] # None

Recording == Serial /\ RecordsRetained /\ \A p \in Procs : Rewriting(p)

\* Where one process works, no other does.
LEMMA OthersIdle ==
  ASSUME Serial, OneAtATime', NEW p \in Procs, pc[p] # "idle" \/ pc'[p] # "idle",
         \A q \in Procs \ {p} : pc'[q] = pc[q]
  PROVE  \A q \in Procs \ {p} : pc[q] = "idle" /\ pc'[q] = "idle"
BY DEF Serial, OneAtATime

\* A step of p outside saveRefMap leaves the table and the records alone.
LEMMA UnrecordedStep ==
  ASSUME Recording, OneAtATime', Serial', NEW p \in Procs, pc[p] # "idle" \/ pc'[p] # "idle",
         \A q \in Procs \ {p} : pc'[q] = pc[q],
         pc[p] # "savewrite", pc'[p] \notin {"savetrunc", "savewrite"},
         UNCHANGED <<refmap, saved>>
  PROVE  Recording'
<1>1. \A q \in Procs \ {p} : pc[q] = "idle" /\ pc'[q] = "idle"
  BY OthersIdle DEF Recording
<1>2. \A r \in saved : refmap[r] # None
  BY <1>1 DEF Recording, RecordsRetained
<1>3. RecordsRetained'
  BY <1>2 DEF RecordsRetained
<1>4. \A q \in Procs : Rewriting(q)'
  BY <1>1 DEF Rewriting
<1> QED BY <1>3, <1>4 DEF Recording

LEMMA RecordingStep == ASSUME CacheAssumption, Recording, Next, OneAtATime' PROVE Recording'
<1> USE DEF sharedVars, localVars, history
<1>1. Serial /\ Serial' /\ Typed /\ Typed'
  BY SerialStep DEF Recording, Serial, Safe
<1>2. ASSUME NEW p \in Procs, NEW r \in Refs, Start(p, r) PROVE Recording'
  BY <1>1, <1>2, UnrecordedStep DEF Start, Typed
<1>3. ASSUME NEW p \in Procs, Prepare(p) \/ Resolve(p) \/ Materialize(p) PROVE Recording'
  <2>1. /\ pc[p] \notin {"idle", "savewrite"} /\ pc'[p] \notin {"savetrunc", "savewrite"}
        /\ UNCHANGED <<refmap, saved>>
        /\ \A q \in Procs \ {p} : pc'[q] = pc[q]
    <3>1. CASE Prepare(p)
      BY <1>1, <3>1 DEF Typed, Prepare, StatBare, InitBegin, InitEnd, CheckOrigin, AddOrigin,
         SetURL, ConfigFails, ConfigWriters
    <3>2. CASE Resolve(p)
      BY <1>1, <3>2 DEF Typed, Resolve, LookupRefMap, Warm, FetchBegin, FetchEnd, FetchFails,
         ResolveRef, ResolveFetchHead, Fallback, ResolveVersion
    <3>3. CASE Materialize(p)
      BY <1>1, <3>3 DEF Typed, Materialize, StatTree, StatTreeOffline, CheckoutEnd,
         CheckoutFails, Rename, RenameFails
    <3> QED BY <1>3, <3>1, <3>2, <3>3
  <2> QED BY <1>1, <2>1, UnrecordedStep
<1>4. ASSUME NEW p \in Procs, SaveRead(p) PROVE Recording'
  <2>1. /\ pc[p] = "saveread" /\ pc'[p] = "savetrunc" /\ req[p] \in Refs
        /\ \A q \in Procs \ {p} : pc'[q] = pc[q]
        /\ UNCHANGED <<refmap, saved, req>>
        /\ buf'[p] = [refmap EXCEPT ![req[p]] = [version |-> ver[p], commit |-> com[p]]]
    BY <1>1, <1>4 DEF SaveRead, Typed
  <2>2. \A q \in Procs \ {p} : pc[q] = "idle" /\ pc'[q] = "idle"
    BY <1>1, <2>1, OthersIdle
  <2>3. [version |-> ver[p], commit |-> com[p]] # None
    <3>1. buf'[p][req[p]] = [version |-> ver[p], commit |-> com[p]]
      BY <1>1, <2>1 DEF Typed
    <3>2. buf'[p][req[p]] \in Entry
      BY <1>1, <2>1, <3>1 DEF Typed, Entry
    <3> QED BY <3>1, <3>2 DEF CacheAssumption
  <2>6. \A r \in saved : r \in Refs /\ refmap[r] # None
    BY <1>1, <2>1, <2>2 DEF Recording, RecordsRetained, Typed
  <2>4. Rewriting(p)'
    BY <1>1, <2>1, <2>3, <2>6 DEF Rewriting, Typed
  <2>5. RecordsRetained'
    BY <2>1, <2>2 DEF Recording, RecordsRetained
  <2> QED BY <1>1, <2>2, <2>4, <2>5 DEF Recording, Rewriting
<1>5. ASSUME NEW p \in Procs, SaveTruncate(p) PROVE Recording'
  <2>1. /\ pc[p] = "savetrunc" /\ pc'[p] = "savewrite"
        /\ \A q \in Procs \ {p} : pc'[q] = pc[q]
        /\ UNCHANGED <<saved, req, buf>>
    BY <1>1, <1>5 DEF SaveTruncate, Typed
  <2>2. \A q \in Procs \ {p} : pc[q] = "idle" /\ pc'[q] = "idle"
    BY <1>1, <2>1, OthersIdle
  <2>3. \A r \in saved : r \in Refs /\ refmap[r] # None
    BY <1>1, <2>1, <2>2 DEF Recording, RecordsRetained, Typed
  <2>4. Rewriting(p)'
    BY <2>1, <2>3 DEF Recording, Rewriting
  <2>5. RecordsRetained'
    BY <2>1 DEF RecordsRetained
  <2> QED BY <1>1, <2>2, <2>4, <2>5 DEF Recording, Rewriting
<1>6. ASSUME NEW p \in Procs, SaveWrite(p) PROVE Recording'
  <2>1. /\ pc[p] = "savewrite" /\ pc'[p] = "done" /\ req[p] \in Refs
        /\ \A q \in Procs \ {p} : pc'[q] = pc[q]
        /\ saved' = saved \union {req[p]}
    BY <1>1, <1>6 DEF SaveWrite, Typed
  <2>2. PICK kept \in SUBSET {r \in Refs : refmap[r] # None /\ buf[p][r] = None} :
          refmap' = [r \in Refs |-> IF r \in kept THEN refmap[r] ELSE buf[p][r]]
    BY <1>6 DEF SaveWrite
  <2>3. \A r \in saved' : r \in Refs /\ buf[p][r] # None
    BY <1>1, <2>1 DEF Recording, Rewriting, Typed
  <2>4. RecordsRetained'
    BY <2>2, <2>3 DEF RecordsRetained
  <2>5. \A q \in Procs \ {p} : pc[q] = "idle" /\ pc'[q] = "idle"
    BY <1>1, <2>1, OthersIdle
  <2> QED BY <1>1, <2>1, <2>4, <2>5 DEF Recording, Rewriting
<1>7. ASSUME NEW p \in Procs, SaveFails(p) \/ Finish(p) \/ Crash(p) PROVE Recording'
  <2>1. /\ pc[p] # "idle" /\ pc'[p] \in {"idle", "done"}
        /\ \A q \in Procs \ {p} : pc'[q] = pc[q]
        /\ saved' = IF pc[p] = "savewrite" THEN {} ELSE saved
        /\ UNCHANGED refmap
    BY <1>1, <1>7 DEF SaveFails, Finish, Crash, Forget, Typed
  <2>2. \A q \in Procs \ {p} : pc[q] = "idle" /\ pc'[q] = "idle"
    BY <1>1, <2>1, OthersIdle
  <2>3. RecordsRetained'
    BY <2>1, <2>2 DEF Recording, RecordsRetained
  <2> QED BY <1>1, <2>1, <2>2, <2>3 DEF Recording, Rewriting
<1>11. ASSUME NEW p \in Procs, SaveReadFails(p) PROVE Recording'
  <2>1. /\ pc[p] = "saveread" /\ pc'[p] = "savetrunc" /\ req[p] \in Refs
        /\ \A q \in Procs \ {p} : pc'[q] = pc[q]
        /\ saved' = {} /\ UNCHANGED <<refmap, req>>
        /\ buf'[p][req[p]] \in Entry
    BY <1>1, <1>11 DEF SaveReadFails, NoEntries, Entry, Typed
  <2>2. \A q \in Procs \ {p} : pc[q] = "idle" /\ pc'[q] = "idle"
    BY <1>1, <2>1, OthersIdle
  <2>3. Rewriting(p)'
    BY <2>1 DEF Rewriting, CacheAssumption
  <2>4. RecordsRetained'
    BY <2>1 DEF RecordsRetained
  <2> QED BY <1>1, <2>2, <2>3, <2>4 DEF Recording, Rewriting
<1>8. ASSUME UNCHANGED <<refmap, saved, pc, buf, req>> PROVE Recording'
  BY <1>1, <1>8 DEF Recording, RecordsRetained, Rewriting
<1>9. ASSUME NEW r \in Movable, NEW c \in Commits, Move(r, c) PROVE Recording'
  BY <1>8, <1>9 DEF Move
<1>10. ASSUME NEW v \in Versions, Evict(v) PROVE Recording'
  BY <1>8, <1>10 DEF Evict
<1> QED BY <1>2, <1>3, <1>4, <1>5, <1>6, <1>7, <1>9, <1>10, <1>11 DEF Next, Step, SaveRefMap

\* One build at a time: a rewrite of the table that is not cut short, and that could
\* read the table, loses no ref it had.
THEOREM SerialRecords == ASSUME CacheAssumption PROVE SerialSpec => []RecordsRetained
<1>1. Init => Recording
  BY SerialInit DEF Init, Recording, RecordsRetained, Rewriting
<1>2. Recording /\ Serial' /\ [Next /\ OneAtATime']_vars => Recording'
  <2> SUFFICES ASSUME Recording, Serial', [Next /\ OneAtATime']_vars PROVE Recording'
    OBVIOUS
  <2>1. CASE Next /\ OneAtATime'
    BY <2>1, RecordingStep
  <2>2. CASE UNCHANGED vars
    BY <2>2 DEF vars, Recording, RecordsRetained, Rewriting
  <2> QED BY <2>1, <2>2
<1>3. Recording => RecordsRetained
  BY DEF Recording
<1> QED BY <1>1, <1>2, <1>3, SerialAlways, PTL DEF SerialSpec

-----------------------------------------------------------------------------
(* One build at a time, on a disk that works: a cached ref never fails.    *)

\* Where a process has the repository ready behind it.
BeforeReady == {"idle", "stat", "mkbare", "initbare", "origin", "addorigin", "failed"}

Prepared(p) ==
  /\ pc[p] = "mkbare" => repo = "absent"
  /\ pc[p] \in {"initbare", "addorigin"} => repo # "ready"
  /\ pc[p] \notin BeforeReady => repo = "ready"
  /\ pc[p] = "offline" => refmap[req[p]] # None /\ refmap[req[p]].version = ver[p]
  /\ pc[p] \in {"checkingout", "rename"} => trees[ver[p]] = None

\* A table is there only once the repository has been made ready.
TableBehindRepo == \A r \in Refs : refmap[r] # None => repo = "ready"

Serving ==
  Serial /\ TableBehindRepo /\ CachedRefNeverFails /\ \A p \in Procs : Prepared(p)

\* A step of p concerns p alone, for no other process is at work.
LEMMA ServingOwn ==
  ASSUME Serving, Serial', OneAtATime', NEW p \in Procs, pc[p] # "idle" \/ pc'[p] # "idle",
         \A q \in Procs \ {p} : pc'[q] = pc[q],
         TableBehindRepo', Prepared(p)',
         pc'[p] = "failed" /\ refmap'[req'[p]] # None => trees'[refmap'[req'[p]].version] = None
  PROVE  Serving'
<1>1. \A q \in Procs \ {p} : pc'[q] = "idle"
  BY OthersIdle DEF Serving
<1>2. \A q \in Procs : Prepared(q)'
  BY <1>1 DEF Prepared, BeforeReady
<1>3. CachedRefNeverFails'
  BY <1>1 DEF CachedRefNeverFails
<1> QED BY <1>2, <1>3 DEF Serving

LEMMA ServingStep ==
  ASSUME CacheAssumption, "disk" \notin Faults, Serving, Next, OneAtATime'
  PROVE  Serving'
<1> USE DEF sharedVars, localVars, history, BeforeReady
<1>1. Serial /\ Serial' /\ Typed /\ Typed'
  BY SerialStep DEF Serving, Serial, Safe
<1>2. ASSUME NEW p \in Procs, NEW r \in Refs, Start(p, r) PROVE Serving'
  <2>1. Prepared(p)' /\ TableBehindRepo' /\ pc'[p] = "stat" /\ \A q \in Procs \ {p} : pc'[q] = pc[q]
    BY <1>1, <1>2 DEF Start, Typed, Serving, Prepared, TableBehindRepo
  <2> QED BY <1>1, <2>1, ServingOwn
<1>3. ASSUME NEW p \in Procs, Prepare(p) PROVE Serving'
  <2>1. /\ pc[p] # "idle" /\ UNCHANGED <<refmap, trees>>
        /\ \A q \in Procs \ {p} : pc'[q] = pc[q]
    BY <1>1, <1>3 DEF Typed, Prepare, StatBare, InitBegin, InitEnd, CheckOrigin, AddOrigin,
       SetURL, ConfigFails, ConfigWriters
  <2>2. ~ConfigFails(p)
    <3>1. SUFFICES ASSUME ConfigFails(p) PROVE FALSE
      OBVIOUS
    <3>2. PICK q \in Procs \ {p} : pc[q] \in ConfigWriters
      BY <3>1 DEF ConfigFails
    <3>3. pc[p] # "idle" /\ pc[q] # "idle"
      BY <3>1, <3>2 DEF ConfigFails, ConfigWriters
    <3> QED BY <1>1, <3>2, <3>3 DEF Serial, OneAtATime
  <2>3. TableBehindRepo' /\ Prepared(p)' /\ (pc'[p] = "failed" => \A r \in Refs : refmap[r] = None)
    <3>1. CASE StatBare(p)
      BY <1>1, <3>1 DEF StatBare, Typed, Serving, Prepared, TableBehindRepo
    <3>2. CASE InitBegin(p)
      BY <1>1, <3>2 DEF InitBegin, Typed, Serving, Prepared, TableBehindRepo
    <3>3. CASE InitEnd(p)
      BY <1>1, <3>3 DEF InitEnd, Typed, Serving, Prepared, TableBehindRepo
    <3>4. CASE CheckOrigin(p)
      BY <1>1, <3>4 DEF CheckOrigin, Typed, Serving, Prepared, TableBehindRepo
    <3>5. CASE AddOrigin(p)
      BY <1>1, <3>5 DEF AddOrigin, Typed, Serving, Prepared, TableBehindRepo
    <3>6. CASE SetURL(p)
      BY <1>1, <3>6 DEF SetURL, Typed, Serving, Prepared, TableBehindRepo
    <3> QED BY <1>3, <2>2, <3>1, <3>2, <3>3, <3>4, <3>5, <3>6 DEF Prepare
  <2>4. pc'[p] = "failed" /\ refmap'[req'[p]] # None => trees'[refmap'[req'[p]].version] = None
    BY <1>1, <2>1, <2>3 DEF Typed
  <2> QED BY <1>1, <2>1, <2>3, <2>4, ServingOwn
<1>4. ASSUME NEW p \in Procs, Resolve(p) PROVE Serving'
  <2>1. /\ pc[p] \notin BeforeReady /\ pc'[p] \notin {"idle", "mkbare", "initbare", "addorigin", "checkingout", "rename"}
        /\ pc[p] # "fallback" => pc'[p] \notin {"failed", "offline"}
        /\ UNCHANGED <<repo, refmap, trees, req>>
        /\ \A q \in Procs \ {p} : pc'[q] = pc[q]
    BY <1>1, <1>4 DEF Typed, Resolve, LookupRefMap, Warm, FetchBegin, FetchEnd, FetchFails,
       ResolveRef, ResolveFetchHead, Fallback, ResolveVersion
  <2>2. TableBehindRepo' /\ repo = "ready"
    BY <2>1 DEF Serving, TableBehindRepo, Prepared
  <2>3. CASE pc[p] = "fallback"
    <3>1. Fallback(p)
      BY <1>4, <2>3 DEF Resolve, LookupRefMap, Warm, FetchBegin, FetchEnd, FetchFails,
         ResolveRef, ResolveFetchHead, ResolveVersion
    <3>2. CASE Goto(p, "fallback", "failed") /\ refmap[req[p]] = None
      <4>1. Prepared(p)' /\ refmap'[req'[p]] = None
        BY <1>1, <2>1, <3>2 DEF Typed, Prepared
      <4> QED BY <1>1, <2>1, <2>2, <4>1, ServingOwn
    <3>3. CASE Goto(p, "fallback", "offline") /\ TakeEntry(p, req[p])
      <4>1. pc'[p] = "offline" /\ refmap[req[p]] # None /\ ver'[p] = refmap[req[p]].version
        BY <1>1, <3>3 DEF Typed, TakeEntry
      <4>2. Prepared(p)'
        BY <2>1, <2>2, <4>1 DEF Prepared
      <4> QED BY <1>1, <2>1, <2>2, <4>1, <4>2, ServingOwn
    <3> QED BY <3>1, <3>2, <3>3 DEF Fallback, NoEntry
  <2>4. CASE pc[p] # "fallback"
    <3>1. Prepared(p)'
      BY <2>1, <2>2, <2>4 DEF Prepared
    <3> QED BY <1>1, <2>1, <2>2, <2>4, <3>1, ServingOwn
  <2> QED BY <2>3, <2>4
<1>5. ASSUME NEW p \in Procs, Materialize(p) PROVE Serving'
  <2>1. /\ pc[p] \notin BeforeReady /\ UNCHANGED <<repo, refmap, req, ver>>
        /\ \A q \in Procs \ {p} : pc'[q] = pc[q]
        /\ pc'[p] \in {"saveread", "checkingout", "done", "failed", "rename"}
    BY <1>1, <1>5 DEF Typed, Materialize, StatTree, StatTreeOffline, CheckoutEnd, CheckoutFails,
       Rename, RenameFails
  <2>2. TableBehindRepo' /\ repo = "ready"
    BY <2>1 DEF Serving, TableBehindRepo, Prepared
  <2>3. pc'[p] \in {"checkingout", "rename"} => trees'[ver[p]] = None
    BY <1>1, <1>5 DEF Typed, Serving, Prepared, Materialize, StatTree, StatTreeOffline,
       CheckoutEnd, CheckoutFails, Rename, RenameFails
  <2>4. Prepared(p)'
    BY <2>1, <2>2, <2>3 DEF Prepared
  <2>5. pc'[p] = "failed" => StatTreeOffline(p) /\ trees[ver[p]] = None /\ UNCHANGED trees
    BY <1>1, <1>5 DEF Typed, Serving, Prepared, Materialize, StatTree, StatTreeOffline,
       CheckoutEnd, CheckoutFails, Rename, RenameFails
  <2>6. pc'[p] = "failed" => refmap[req[p]].version = ver[p]
    BY <2>5 DEF StatTreeOffline, Serving, Prepared
  <2> QED BY <1>1, <2>1, <2>2, <2>4, <2>5, <2>6, ServingOwn
<1>6. ASSUME NEW p \in Procs, SaveRefMap(p) PROVE Serving'
  <2>1. /\ pc[p] \notin BeforeReady /\ pc'[p] \in {"savetrunc", "savewrite", "done"}
        /\ UNCHANGED <<repo, trees>>
        /\ \A q \in Procs \ {p} : pc'[q] = pc[q]
    BY <1>1, <1>6 DEF Typed, SaveRefMap, SaveRead, SaveReadFails, SaveTruncate, SaveWrite, SaveFails
  <2>2. repo = "ready"
    BY <2>1 DEF Serving, Prepared
  <2>3. TableBehindRepo' /\ Prepared(p)'
    BY <2>1, <2>2 DEF TableBehindRepo, Prepared
  <2> QED BY <1>1, <2>1, <2>3, ServingOwn
<1>7. ASSUME NEW p \in Procs, Finish(p) \/ Crash(p) PROVE Serving'
  <2>1. /\ pc[p] # "idle" /\ pc'[p] = "idle" /\ UNCHANGED <<repo, refmap, trees>>
        /\ \A q \in Procs \ {p} : pc'[q] = pc[q]
    BY <1>1, <1>7 DEF Finish, Crash, Forget, Typed
  <2>2. TableBehindRepo' /\ Prepared(p)'
    BY <2>1 DEF TableBehindRepo, Prepared, Serving
  <2> QED BY <1>1, <2>1, <2>2, ServingOwn
<1>8. ASSUME NEW r \in Movable, NEW c \in Commits, Move(r, c) PROVE Serving'
  BY <1>1, <1>8 DEF Move, Serving, TableBehindRepo, CachedRefNeverFails, Prepared
<1>9. ASSUME NEW v \in Versions, Evict(v) PROVE Serving'
  <2>1. UNCHANGED <<repo, refmap, pc>> /\ \A p \in Procs : pc[p] = "idle"
    BY <1>9 DEF Evict
  <2> QED BY <1>1, <2>1 DEF Serving, TableBehindRepo, CachedRefNeverFails, Prepared
<1> QED BY <1>2, <1>3, <1>4, <1>5, <1>6, <1>7, <1>8, <1>9 DEF Next, Step

\* One build at a time, unless a local read, write or command fails: a ref that is
\* recorded, and whose tree is there, builds, whatever the network does and
\* whatever was killed in between.
THEOREM SerialCachedRef ==
  ASSUME CacheAssumption, "disk" \notin Faults
  PROVE  SerialSpec => []CachedRefNeverFails
<1>1. Init => Serving
  BY SerialInit DEF Init, Serving, TableBehindRepo, CachedRefNeverFails, Prepared, BeforeReady,
     NoEntries
<1>2. Serving /\ Serial' /\ [Next /\ OneAtATime']_vars => Serving'
  <2> SUFFICES ASSUME Serving, Serial', [Next /\ OneAtATime']_vars PROVE Serving'
    OBVIOUS
  <2>1. CASE Next /\ OneAtATime'
    BY <2>1, ServingStep
  <2>2. CASE UNCHANGED vars
    BY <2>2 DEF vars, Serving, TableBehindRepo, CachedRefNeverFails, Prepared
  <2> QED BY <2>1, <2>2
<1>3. Serving => CachedRefNeverFails
  BY DEF Serving
<1> QED BY <1>1, <1>2, <1>3, SerialAlways, PTL DEF SerialSpec
=============================================================================
