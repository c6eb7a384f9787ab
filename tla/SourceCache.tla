---------------------------- MODULE SourceCache ----------------------------
(***************************************************************************)
(* The kernel source cache of internal/source/source.go: several kbake     *)
(* processes call Fetch on the same repository and share, without a lock,  *)
(* one bare git repository, one table of resolved refs and one directory   *)
(* of source trees.  A step is one access to that shared state: a git      *)
(* command, or a file read, written or renamed.                            *)
(*                                                                         *)
(* Any git command that needs the remote may fail at any time.  A process  *)
(* may be killed between two steps, and a local command, or a read or a    *)
(* write of a file, may fail, when Faults says so.                         *)
(***************************************************************************)
EXTENDS Sequences, Naturals

CONSTANTS
  Procs,     \* the kbake processes
  Refs,      \* the refs their builds ask for
  Tags,      \* those the remote advertises under refs/tags/
  Branches,  \* those the remote advertises under refs/heads/
  Shas,      \* those that are full commit ids
  Commits,
  Tip0,      \* ref -> the commit a fetch of it yields at first, None: no such ref
  Movable,   \* the refs the remote may repoint
  Faults,    \* a subset of {"crash", "disk"}
  MaxBuilds, MaxChanges,  \* bounds on builds and changes
  None, Partial

\* A pseudo-version is determined by the commit (its date and the first digits
\* of its id) and by its base: the highest tag of the remote, or v0.0.0.
Pseudo(c, based) == <<c, based>>
Versions == Tags \union (Commits \X BOOLEAN)
Entry == [version : Versions, commit : Commits]
NoEntries == [r \in Refs |-> None]

\* Tags, branches and commit ids are different refs; a commit id names itself
\* and never moves; a version that is a tag is no pseudo-version.
ASSUME CacheAssumption ==
  /\ Tags \subseteq Refs /\ Branches \subseteq Refs /\ Shas \subseteq Refs
  /\ Tags \intersect Branches = {} /\ Tags \intersect Shas = {}
  /\ Branches \intersect Shas = {}
  /\ Tip0 \in [Refs -> Commits \union {None}]
  /\ Movable \subseteq Refs \ Shas
  /\ Faults \subseteq {"crash", "disk"}
  /\ MaxBuilds \in Nat /\ MaxChanges \in Nat
  /\ None \notin Commits /\ Partial \notin Commits /\ None # Partial
  /\ None \notin Refs
  /\ Tags \intersect (Commits \X BOOLEAN) = {}
  /\ None \notin (Commits \X BOOLEAN) /\ None \notin Entry

VARIABLES
  repo,      \* the bare repository: no directory, a directory git has not yet
             \* made a repository, one without a remote "origin", or ready
  tracking,  \* branch -> refs/remotes/origin/<branch> of the bare repository
  objects,   \* the commits of the bare repository
  fetchHead, \* the lines of its FETCH_HEAD
  refmap,    \* the table <bareRepo>.kbakerefs: ref -> entry
  trees,     \* version -> what <repo>@<version> holds
  remote,    \* ref -> the commit the remote has for it
  pc, req, com, ver, tmp, buf,   \* each process: where it is in fetchGit, the
             \* ref asked for, the commit and version found, the temporary
             \* checkout, and the table saveRefMap is about to write
  tips,      \* history: ref -> the commits it has named
  published, \* history: the versions that have had a tree
  saved,     \* history: the refs recorded since the table was last not read or not rewritten
  builds, changes \* how many builds have started, and how often the world changed

sharedVars == <<repo, tracking, objects, fetchHead, refmap, trees>>
localVars == <<req, com, ver, tmp, buf>>
history == <<tips, published, saved, changes>>
vars == <<repo, tracking, objects, fetchHead, refmap, trees, remote,
          pc, req, com, ver, tmp, buf, tips, published, saved, builds, changes>>

Locations ==
  {"idle", "stat", "mkbare", "initbare", "origin", "addorigin", "seturl",
   "lookup", "warm", "fetch", "fetching", "resolve", "fetchhead", "fallback", "version",
   "tree", "offline", "checkingout", "rename",
   "saveread", "savetrunc", "savewrite", "done", "failed"}

TypeOK ==
  /\ repo \in {"absent", "empty", "bare", "ready"}
  /\ tracking \in [Branches -> Commits \union {None}]
  /\ objects \subseteq Commits
  /\ fetchHead \in Seq(Commits)
  /\ refmap \in [Refs -> Entry \union {None}]
  /\ trees \in [Versions -> Commits \union {None, Partial}]
  /\ remote \in [Refs -> Commits \union {None}]
  /\ pc \in [Procs -> Locations]
  /\ req \in [Procs -> Refs \union {None}]
  /\ com \in [Procs -> Commits \union {None}]
  /\ ver \in [Procs -> Versions \union {None}]
  /\ tmp \in [Procs -> Commits \union {None, Partial}]
  /\ buf \in [Procs -> [Refs -> Entry \union {None}]]
  /\ tips \in [Refs -> SUBSET Commits]
  /\ published \subseteq Versions
  /\ saved \subseteq Refs
  /\ builds \in Nat /\ changes \in Nat

Init ==
  /\ repo = "absent"
  /\ tracking = [b \in Branches |-> None]
  /\ objects = {}
  /\ fetchHead = <<>>
  /\ refmap = NoEntries
  /\ trees = [v \in Versions |-> None]
  /\ remote = Tip0
  /\ pc = [p \in Procs |-> "idle"]
  /\ req = [p \in Procs |-> None]
  /\ com = [p \in Procs |-> None]
  /\ ver = [p \in Procs |-> None]
  /\ tmp = [p \in Procs |-> None]
  /\ buf = [p \in Procs |-> NoEntries]
  /\ tips = [r \in Refs |-> {Tip0[r]} \ {None}]
  /\ published = {}
  /\ saved = {}
  /\ builds = 0 /\ changes = 0

\* Process p moves on; only Start counts a build.
Jump(p, to) == pc' = [pc EXCEPT ![p] = to] /\ UNCHANGED builds
Goto(p, from, to) == pc[p] = from /\ Jump(p, to)

-----------------------------------------------------------------------------
(* The start of a build: Fetch has parsed its address and looks for the    *)
(* bare repository.                                                        *)

Start(p, r) ==
  /\ pc[p] = "idle" /\ pc' = [pc EXCEPT ![p] = "stat"]
  /\ builds < MaxBuilds /\ builds' = builds + 1
  /\ req' = [req EXCEPT ![p] = r]
  /\ UNCHANGED <<sharedVars, remote, com, ver, tmp, buf, history>>

StatBare(p) ==
  /\ Goto(p, "stat", IF repo = "absent" THEN "mkbare" ELSE "origin")
  /\ UNCHANGED <<sharedVars, remote, localVars, history>>

\* git init --bare makes the directory first and then fills it.
InitBegin(p) ==
  /\ Goto(p, "mkbare", "initbare")
  /\ repo' = IF repo = "absent" THEN "empty" ELSE repo
  /\ UNCHANGED <<tracking, objects, fetchHead, refmap, trees, remote, localVars, history>>

InitEnd(p) ==
  /\ Goto(p, "initbare", "origin")
  /\ repo' = IF repo = "empty" THEN "bare" ELSE repo
  /\ UNCHANGED <<tracking, objects, fetchHead, refmap, trees, remote, localVars, history>>

\* Mutant of CheckOrigin: the remote is added on every build.
CheckOriginAlwaysAdds(p) ==
  /\ Goto(p, "origin", "addorigin")
  /\ UNCHANGED <<sharedVars, remote, localVars, history>>

\* ensureOrigin asks for remote.origin.url and then adds or updates the remote.
CheckOrigin(p) ==
  /\ Goto(p, "origin", IF repo = "ready" THEN "seturl" ELSE "addorigin")
  /\ UNCHANGED <<sharedVars, remote, localVars, history>>

\* git remote add fails when origin exists by now or there is no repository.
AddOrigin(p) ==
  /\ Goto(p, "addorigin", IF repo = "bare" THEN "lookup" ELSE "failed")
  /\ repo' = IF repo = "bare" THEN "ready" ELSE repo
  /\ UNCHANGED <<tracking, objects, fetchHead, refmap, trees, remote, localVars, history>>

SetURL(p) ==
  /\ Goto(p, "seturl", "lookup")
  /\ UNCHANGED <<sharedVars, remote, localVars, history>>

\* The commands that write the repository's config take config.lock and fail
\* when another process holds it; with a full disk they fail alone.
ConfigWriters == {"initbare", "addorigin", "seturl"}
ConfigFails(p) ==
  /\ pc[p] \in ConfigWriters
  /\ "disk" \in Faults \/ \E q \in Procs \ {p} : pc[q] \in ConfigWriters
  /\ Jump(p, "failed")
  /\ UNCHANGED <<sharedVars, remote, localVars, history>>

-----------------------------------------------------------------------------
(* The warm path: a recorded ref whose tree is there needs no fetch.       *)

\* Mutant of TakeEntry: the entry's commit is not taken over.
TakeVersionOnly(p, r) ==
  /\ refmap[r] # None
  /\ ver' = [ver EXCEPT ![p] = refmap[r].version]
  /\ UNCHANGED com

\* lookupRefMap: p reads the entry of ref r.
TakeEntry(p, r) ==
  /\ refmap[r] # None
  /\ com' = [com EXCEPT ![p] = refmap[r].commit]
  /\ ver' = [ver EXCEPT ![p] = refmap[r].version]

\* There is none, or the table cannot be read, which is taken for the same.
NoEntry(p, r) == (refmap[r] = None \/ "disk" \in Faults) /\ UNCHANGED <<com, ver>>

LookupRefMap(p) ==
  /\ \/ Goto(p, "lookup", "fetch") /\ NoEntry(p, req[p])
     \/ Goto(p, "lookup", "warm") /\ TakeEntry(p, req[p])
  /\ UNCHANGED <<sharedVars, remote, req, tmp, buf, history>>

\* Mutant of Warm: the recorded tree is not looked for.
WarmUnchecked(p) ==
  /\ Goto(p, "warm", "done")
  /\ UNCHANGED <<sharedVars, remote, localVars, history>>

Warm(p) ==
  /\ Goto(p, "warm", IF trees[ver[p]] # None THEN "done" ELSE "fetch")
  /\ UNCHANGED <<sharedVars, remote, localVars, history>>

-----------------------------------------------------------------------------
(* git fetch --depth 1 origin <ref> empties FETCH_HEAD when it starts and   *)
(* appends its line at the end; a fetch that fails is only warned about.    *)
(* A branch also updates its remote-tracking ref, a tag updates nothing.    *)

\* Mutant of FetchBegin: git fetch --append, which keeps the lines of FETCH_HEAD.
FetchBeginAppend(p) ==
  /\ Goto(p, "fetch", "fetching")
  /\ UNCHANGED <<sharedVars, remote, localVars, history>>

FetchBegin(p) ==
  /\ Goto(p, "fetch", "fetching")
  /\ fetchHead' = <<>>
  /\ UNCHANGED <<repo, tracking, objects, refmap, trees, remote, localVars, history>>

FetchEnd(p) ==
  LET r == req[p] IN
  /\ Goto(p, "fetching", "resolve")
  /\ remote[r] # None
  /\ fetchHead' = Append(fetchHead, remote[r])
  /\ objects' = objects \union {remote[r]}
  /\ tracking' = IF r \in Branches THEN [tracking EXCEPT ![r] = remote[r]]
                 ELSE tracking
  /\ UNCHANGED <<repo, refmap, trees, remote, localVars, history>>

FetchFails(p) ==
  /\ Goto(p, "fetching", "resolve")
  /\ UNCHANGED <<sharedVars, remote, localVars, history>>

\* resolveRef asks rev-parse for refs/tags/<ref> (which no fetch here ever writes),
\* refs/remotes/origin/<ref>, <ref> itself and FETCH_HEAD in turn.  Of the first three
\* one at most may name a commit: a branch's tracking ref, or a commit id.
LocalCommit(r) ==
  IF r \in Branches THEN tracking[r]
  ELSE IF r \in Shas /\ Tip0[r] \in objects THEN Tip0[r]
  ELSE None

\* rev-parse reads the first line of FETCH_HEAD.
FetchHeadCommit == IF fetchHead # <<>> THEN Head(fetchHead) ELSE None

\* A candidate that names no commit, or of which rev-parse fails, is passed over.
ResolveRef(p) ==
  /\ \/ /\ Goto(p, "resolve", "version")
        /\ LocalCommit(req[p]) # None
        /\ com' = [com EXCEPT ![p] = LocalCommit(req[p])]
     \/ /\ Goto(p, "resolve", "fetchhead")
        /\ LocalCommit(req[p]) = None \/ "disk" \in Faults
        /\ UNCHANGED com
  /\ UNCHANGED <<sharedVars, remote, req, ver, tmp, buf, history>>

\* Mutant of ResolveFetchHead: the error of a ref that names no commit is dropped.
ResolveFetchHeadUnchecked(p) ==
  /\ Goto(p, "fetchhead", "version")
  /\ com' = [com EXCEPT ![p] = FetchHeadCommit]
  /\ UNCHANGED <<sharedVars, remote, req, ver, tmp, buf, history>>

ResolveFetchHead(p) ==
  /\ \/ /\ Goto(p, "fetchhead", "version")
        /\ FetchHeadCommit # None
        /\ com' = [com EXCEPT ![p] = FetchHeadCommit]
     \/ /\ Goto(p, "fetchhead", "fallback")
        /\ FetchHeadCommit = None \/ "disk" \in Faults
        /\ com' = [com EXCEPT ![p] = None]
  /\ UNCHANGED <<sharedVars, remote, req, ver, tmp, buf, history>>

\* Not resolved: fall back to the recorded entry, if there is one.
Fallback(p) ==
  /\ \/ Goto(p, "fallback", "failed") /\ NoEntry(p, req[p])
     \/ Goto(p, "fallback", "offline") /\ TakeEntry(p, req[p])
  /\ UNCHANGED <<sharedVars, remote, req, tmp, buf, history>>

\* resolveVersion: the tag, if ls-remote answers that the ref is one; else a
\* pseudo-version, based on a tag if ls-remote --tags answers.
ResolveVersion(p) ==
  /\ Goto(p, "version", "tree")
  /\ \/ \E based \in BOOLEAN : ver' = [ver EXCEPT ![p] = Pseudo(com[p], based)]
     \/ req[p] \in Tags /\ ver' = [ver EXCEPT ![p] = req[p]]
  /\ UNCHANGED <<sharedVars, remote, req, com, tmp, buf, history>>

-----------------------------------------------------------------------------
(* The tree: reused, or checked out beside its place and renamed into it.  *)

\* Nobody but p sees the new checkout directory p starts to fill.
StatTree(p) ==
  /\ \/ Goto(p, "tree", "saveread") /\ trees[ver[p]] # None /\ UNCHANGED tmp
     \/ /\ Goto(p, "tree", "checkingout")
        /\ trees[ver[p]] = None
        /\ tmp' = [tmp EXCEPT ![p] = Partial]
  /\ UNCHANGED <<sharedVars, remote, req, com, ver, buf, history>>

StatTreeOffline(p) ==
  /\ Goto(p, "offline", IF trees[ver[p]] # None THEN "done" ELSE "failed")
  /\ UNCHANGED <<sharedVars, remote, localVars, history>>

\* Mutant of CheckoutEnd: the ref is resolved again for the checkout.
CheckoutEndResolves(p) ==
  /\ Goto(p, "checkingout", "rename")
  /\ tmp' = [tmp EXCEPT ![p] =
       IF LocalCommit(req[p]) # None THEN LocalCommit(req[p]) ELSE FetchHeadCommit]
  /\ UNCHANGED <<sharedVars, remote, req, com, ver, buf, history>>

CheckoutEnd(p) ==
  /\ Goto(p, "checkingout", "rename")
  /\ tmp' = [tmp EXCEPT ![p] = com[p]]
  /\ UNCHANGED <<sharedVars, remote, req, com, ver, buf, history>>

\* Mutants of CheckoutFails: checkoutTree drops the error of git checkout, or
\* fetchGit drops the error of materializeAtomic.
CheckoutFailsRenamed(p) ==
  /\ "disk" \in Faults
  /\ Goto(p, "checkingout", "rename")
  /\ UNCHANGED <<sharedVars, remote, localVars, history>>

CheckoutFailsSaved(p) ==
  /\ "disk" \in Faults
  /\ Goto(p, "checkingout", "saveread")
  /\ tmp' = [tmp EXCEPT ![p] = None]
  /\ UNCHANGED <<sharedVars, remote, req, com, ver, buf, history>>

\* A checkout that fails is an error; the deferred RemoveAll drops the copy.
CheckoutFails(p) ==
  /\ "disk" \in Faults
  /\ Goto(p, "checkingout", "failed")
  /\ tmp' = [tmp EXCEPT ![p] = None]
  /\ UNCHANGED <<sharedVars, remote, req, com, ver, buf, history>>

\* Mutant of Rename: what is at the tree's place is removed first.
RenameReplaces(p) ==
  /\ Goto(p, "rename", "saveread")
  /\ trees' = [trees EXCEPT ![ver[p]] = tmp[p]]
  /\ published' = published \union {ver[p]}
  /\ tmp' = [tmp EXCEPT ![p] = None]
  /\ UNCHANGED <<repo, tracking, objects, fetchHead, refmap, remote, req, com, ver, buf,
                 tips, saved, changes>>

\* os.Rename moves the copy into place, or fails when a tree is there.
Rename(p) ==
  /\ Goto(p, "rename", "saveread")
  /\ trees[ver[p]] = None
  /\ trees' = [trees EXCEPT ![ver[p]] = tmp[p]]
  /\ published' = published \union {ver[p]}
  /\ tmp' = [tmp EXCEPT ![p] = None]
  /\ UNCHANGED <<repo, tracking, objects, fetchHead, refmap, remote, req, com, ver, buf,
                 tips, saved, changes>>

RenameFails(p) ==
  /\ Goto(p, "rename", "failed")
  /\ trees[ver[p]] # None
  /\ tmp' = [tmp EXCEPT ![p] = None]
  /\ UNCHANGED <<sharedVars, remote, req, com, ver, buf, history>>

-----------------------------------------------------------------------------
(* saveRefMap: read the table, then truncate the file, then write it.      *)

\* Mutant of SaveRead: the file is rewritten with the new line alone.
SaveReadForgets(p) ==
  /\ Goto(p, "saveread", "savetrunc")
  /\ buf' = [buf EXCEPT ![p] =
       [NoEntries EXCEPT ![req[p]] = [version |-> ver[p], commit |-> com[p]]]]
  /\ UNCHANGED <<sharedVars, remote, req, com, ver, tmp, history>>

SaveRead(p) ==
  /\ Goto(p, "saveread", "savetrunc")
  /\ buf' = [buf EXCEPT ![p] =
       [refmap EXCEPT ![req[p]] = [version |-> ver[p], commit |-> com[p]]]]
  /\ UNCHANGED <<sharedVars, remote, req, com, ver, tmp, history>>

\* A table that cannot be read is taken for an empty one, and the file is rewritten
\* with the new line alone.
SaveReadFails(p) ==
  /\ "disk" \in Faults
  /\ Goto(p, "saveread", "savetrunc")
  /\ buf' = [buf EXCEPT ![p] =
       [NoEntries EXCEPT ![req[p]] = [version |-> ver[p], commit |-> com[p]]]]
  /\ saved' = {}
  /\ UNCHANGED <<sharedVars, remote, req, com, ver, tmp, tips, published, changes>>

SaveTruncate(p) ==
  /\ Goto(p, "savetrunc", "savewrite")
  /\ refmap' = NoEntries
  /\ UNCHANGED <<repo, tracking, objects, fetchHead, trees, remote, localVars, history>>

\* The lines go to the start of the file.  Another process may have written
\* the file since the truncation: of its lines those past the end of ours stay.
SaveWrite(p) ==
  /\ Goto(p, "savewrite", "done")
  /\ \E kept \in SUBSET {r \in Refs : refmap[r] # None /\ buf[p][r] = None} :
       refmap' = [r \in Refs |-> IF r \in kept THEN refmap[r] ELSE buf[p][r]]
  /\ saved' = saved \union {req[p]}
  /\ UNCHANGED <<repo, tracking, objects, fetchHead, trees, remote, localVars,
                 tips, published, changes>>

\* A write that fails is ignored.
SaveFails(p) ==
  /\ "disk" \in Faults
  /\ pc[p] \in {"savetrunc", "savewrite"}
  /\ Jump(p, "done")
  /\ saved' = IF pc[p] = "savewrite" THEN {} ELSE saved
  /\ UNCHANGED <<sharedVars, remote, localVars, tips, published, changes>>

-----------------------------------------------------------------------------
(* The end of a fetch (the build copies the tree it was given while it is  *)
(* at "done"), and the world around the processes.                         *)

Forget(p) ==
  /\ Jump(p, "idle")
  /\ req' = [req EXCEPT ![p] = None]
  /\ com' = [com EXCEPT ![p] = None]
  /\ ver' = [ver EXCEPT ![p] = None]
  /\ tmp' = [tmp EXCEPT ![p] = None]
  /\ buf' = [buf EXCEPT ![p] = NoEntries]
  /\ UNCHANGED <<sharedVars, remote, tips, published, changes>>

Finish(p) == pc[p] \in {"done", "failed"} /\ Forget(p) /\ UNCHANGED saved

\* A killed process loses what it held.  Its temporary checkout stays on disk,
\* under a name MkdirTemp gives to nobody else.  A git command it has started and that
\* outlives it is, to the others, one of a process that is killed later.
Crash(p) ==
  /\ "crash" \in Faults
  /\ pc[p] # "idle"
  /\ Forget(p)
  /\ saved' = IF pc[p] = "savewrite" THEN {} ELSE saved

\* Somebody repoints a ref of the remote repository.
Move(r, c) ==
  /\ remote[r] # None /\ c # remote[r]
  /\ remote' = [remote EXCEPT ![r] = c]
  /\ tips' = [tips EXCEPT ![r] = @ \union {c}]
  /\ changes < MaxChanges /\ changes' = changes + 1
  /\ UNCHANGED <<sharedVars, pc, localVars, published, saved, builds>>

\* The user deletes a cached tree while no build runs.
Evict(v) ==
  /\ \A p \in Procs : pc[p] = "idle"
  /\ trees[v] # None
  /\ trees' = [trees EXCEPT ![v] = None]
  /\ changes < MaxChanges /\ changes' = changes + 1
  /\ UNCHANGED <<repo, tracking, objects, fetchHead, refmap, remote, pc, localVars,
                 tips, published, saved, builds>>

-----------------------------------------------------------------------------
Prepare(p) == \/ StatBare(p) \/ InitBegin(p) \/ InitEnd(p) \/ CheckOrigin(p)
              \/ AddOrigin(p) \/ SetURL(p) \/ ConfigFails(p)

Resolve(p) == \/ LookupRefMap(p) \/ Warm(p) \/ FetchBegin(p) \/ FetchEnd(p)
              \/ FetchFails(p) \/ ResolveRef(p) \/ ResolveFetchHead(p) \/ Fallback(p)
              \/ ResolveVersion(p)

Materialize(p) == \/ StatTree(p) \/ StatTreeOffline(p) \/ CheckoutEnd(p)
                  \/ CheckoutFails(p) \/ Rename(p) \/ RenameFails(p)

SaveRefMap(p) == SaveRead(p) \/ SaveReadFails(p) \/ SaveTruncate(p) \/ SaveWrite(p) \/ SaveFails(p)

Step(p) == Prepare(p) \/ Resolve(p) \/ Materialize(p) \/ SaveRefMap(p)

Next ==
  \/ \E p \in Procs : \/ \E r \in Refs : Start(p, r)
                      \/ Step(p) \/ Finish(p) \/ Crash(p)
  \/ \E r \in Movable, c \in Commits : Move(r, c)
  \/ \E v \in Versions : Evict(v)

Spec == Init /\ [][Next]_vars

\* The same cache when builds run one after the other, and none starts while a git of
\* one that was killed still runs.
OneAtATime == \A p, q \in Procs : pc[p] # "idle" /\ pc[q] # "idle" => p = q
SerialSpec == Init /\ [][Next /\ OneAtATime']_vars

-----------------------------------------------------------------------------
(* What holds however the processes interleave.                            *)

\* A tree that exists is complete ("mere existence proves completeness", the
\* comment on materializeAtomic), and every build that is given a tree finds it
\* there: no failed or killed checkout is ever seen under a version's name.
TreesComplete ==
  /\ \A v \in Versions : trees[v] # Partial
  /\ \A p \in Procs : pc[p] = "done" => trees[ver[p]] \in Commits

\* A tree named by a pseudo-version holds the commit its name was made from,
\* even when FETCH_HEAD, the table and the tree are raced for: resolveRef's
\* answer is the one that is named and the one that is checked out.
PseudoTreesFaithful ==
  \A c \in Commits, based \in BOOLEAN : trees[Pseudo(c, based)] \in {None, c}

\* The table never names a version that no tree was published for, and neither
\* does a table some process is about to write: saveRefMap runs only once the
\* tree is in place.
RefMapPublished ==
  \A r \in Refs :
    /\ refmap[r] # None => refmap[r].version \in published
    /\ \A p \in Procs : buf[p][r] # None => buf[p][r].version \in published

\* A published tree never changes: two processes that check out one version
\* cannot replace each other's tree, under the feet of a build that copies it.
TreesImmutable ==
  [][\A v \in Versions : trees[v] # None => trees'[v] \in {None, trees[v]}]_trees

\* The cache implements the promise of ModuleCache: the table's versions are the
\* claims, and a build is served while it copies from the tree it was given.
Claims == [r \in Refs |-> IF refmap[r] = None THEN None ELSE refmap[r].version]
Served == [p \in Procs |-> IF pc[p] = "done" THEN ver[p] ELSE None]
Cache == INSTANCE ModuleCache WITH
  store <- trees, seen <- published, claims <- Claims, served <- Served
ImplementsModuleCache == Cache!Spec

-----------------------------------------------------------------------------
(* What holds when builds run one after the other (SerialSpec).            *)

\* The tree under a tag's name holds a commit that tag has named: "a plain
\* snapshot of the repository at that revision" (source.go's package comment).
TagTreesFaithful == \A t \in Tags : trees[t] \in tips[t] \union {None}

\* The table maps a ref to a commit that ref has named; a ref the remote never
\* had is never resolved.
RefMapFaithful == \A r \in Refs : refmap[r] # None => refmap[r].commit \in tips[r]

\* Fetch's result is consistent: the commit it reports is the one in the tree it
\* hands out, as long as the remote repoints no tag.
ResultMatchesTree ==
  Tags \intersect Movable = {} =>
    \A p \in Procs : pc[p] = "done" => trees[ver[p]] = com[p]

\* A ref that was resolved, whose tree is there, can always be built again, with
\* or without the network: no build of it fails.
CachedRefNeverFails ==
  \A p \in Procs :
    pc[p] = "failed" /\ refmap[req[p]] # None => trees[refmap[req[p]].version] = None

\* "stale entries for other refs are retained" (the comment on saveRefMap): when
\* no process is in the middle of rewriting the table, every ref recorded since a
\* rewrite was last cut short by a crash or a failed write, or made from a table that
\* could not be read, is still in it.
RecordsRetained ==
  (\A p \in Procs : pc[p] # "savewrite") => \A r \in saved : refmap[r] # None
=============================================================================
