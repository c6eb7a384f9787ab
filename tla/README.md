# A verification project for kbake

kbake builds Linux kernels from a declarative file and keeps them as OCI
images. A build fetches the kernel sources through a go-style module cache,
configures and compiles one tree per architecture, pushes the results into a
local OCI layout and tags them; images are pulled from and pushed to
registries. This directory holds TLA+ models of the parts of kbake whose
correctness depends on order, interleaving and failure, the TLC configurations
that check them on small instances, and TLAPS proofs of the main results for
every value of the parameters. Paths below are relative to the repository.

## 1. Inventory

| component | state it keeps | operations | what is hard |
|---|---|---|---|
| kernel source cache (`internal/source/source.go`) | on disk, shared by all kbake processes without a lock: one bare git repository per module (remote, tracking refs, objects, `FETCH_HEAD`), the table `<repo>.git.kbakerefs`, the trees `<repo>@<version>`, temporary checkouts | `Fetch` = ensure repository, warm lookup, fetch, resolve, choose version, materialize, record | interleaving of processes, kills between steps, failing git commands and writes, a remote that moves |
| image copy and pull (`internal/xoras/images/images.go`) | the destination store, a pool of tokens, one `errOnce`/`retErr`/`WaitGroup` per dispatch, a context with cause | `Pull`, `CopyGraph`, `copyPath`, `copyDispatch`, `copyNode`, `copyNodeData` | recursion of dispatches in goroutines, tokens handed back and taken again, cancellation racing failures |
| image walk and resolution (`images.go`, `internal/image`) | none (a graph of descriptors is read) | `walk`, `Iterate`, `ResolveGraph`, `Platforms` | errors of single nodes, platform hints that prune, ranking |
| metadata proxy (`internal/xoras/images/metadata.go`) | an in-memory cache of manifests | `Fetch`, `Exists` | concurrent fetches of one manifest, partial reads |
| builder (`internal/build`) | per build: work directory, one directory per architecture; pushed blobs | `Build`, `buildArch`, `buildTree`, `make`, `push`, `buildAndPushIndex` | failure of one step of many, cleanup, repeated architectures |
| build command (`internal/cli/build`) | log file, kept work directory, tags | `Run` | partial tagging, cleanup on each exit |
| local image store and its commands (`internal/cli/...`) | an OCI layout shared by processes; each loads `index.json` once and rewrites it whole | tag, rm (untag and collect), ls, pull, push, get kernel | lost updates, collection of blobs another process has just written |
| progress reporters (`internal/progress`) | current step, its tail, partial line, first failure; a terminal program in a goroutine | `Step`, `Detail`, `Write`, `Done`, `Close` | message order, the program ending before the build |
| line filter (`internal/xbufio`, git filter in `source.go`) | an unfinished line | `Write`, `Flush`, `Close` | lines split across writes |
| configuration editor (`internal/config`) | ordered raw lines and an index of symbols | `Parse`, `Get`, `Set`, `Bytes`, `Write` | symbols that occur twice |
| expressions (`internal/expr`) | none | lex, parse, evaluate | precedence, evaluation errors |
| kernelfile (`internal/kernelfile`, `internal/yamlorjson`) | none | decode, effective actions | one-or-many decoding |
| registry credentials (`internal/ociauth`) | one shared client | `resolve`, `defaultClient` | order of the credential sources |
| decoders, archives, helpers (`internal/xoras/config`, `targz`, `meta`, `kernelmake`, `clierr`, `xos`, `xio`) | none | straight-line code | none that needs a model |

How they interact: `cli/build` calls the builder; the builder calls the source
cache through its `Fetcher`, copies the tree it is handed into its work
directory and pushes into the local store; `cli/pull` and `cli/get kernel` call
`image.Pull`, which resolves a path with the walk and hands it to the copy;
every command that touches the local store opens it for itself, so processes
meet only in the file system. Reporters are passed down in the context.

What makes each part correct:

- source cache: a directory that exists is complete and is never changed; it
  holds the commit its name stands for; the table names only published
  versions and only commits the ref has named; a ref resolved once can be built
  again, whatever was killed in between; what a build is handed is what its
  result says.
- copy and pull: the store is closed under "refers to" below every image it
  holds, at every moment; the tag comes after the whole path; tokens balance;
  every error reaches the caller; nothing runs on; every pull answers.
- walk: it visits what a recursive definition of the matching images says, in
  that order, and an ignored error hides only the node it is about.
- metadata proxy: what the cache holds is the whole content of its key.
- kernelfile: what is built is what the document says, each action in its place.
- builder and build command: the index names exactly one image per requested
  architecture, in sorted order, and exists only if all of them do; nothing is
  tagged unless the build succeeded; the work directory is gone unless asked
  for.
- local store: a tag that a command has acknowledged survives the other
  commands; what a tag reaches is never collected.
- reporters and filter: the tail shown for a failure is that of the first step
  that failed; the output is the input without the noise lines, however it is
  cut into writes.
- editor, expressions, decoding: `Get` after `Set`, a reference evaluator, and
  a round trip.

`PROJECT.json` lists the hazards of the code one by one, with the line and the
properties that watch it.

## 2. Plan and where it stands

1. `ModuleCache` (abstract), `SourceCache`, `SourceCacheProofs`: done.
2. `GraphStore` (abstract), `CopyGraph`, `CopyGraphProofs`: done.
3. `Kernelfile`, `KernelImages`, `BuildStore` (abstract), `Builder`,
   `BuilderProofs`: done.
4. `LocalStore`, `LocalStoreProofs`: done, with every command on the layout but `ls`,
   which only reads (`ImageWalk`).
5. `ImageWalk`, `MetadataProxy`, `ImagesProofs`: done.
6. `LineWriter`, `Reporter`, `GitOutput`, `ReporterProofs`: done; liveness stays with TLC.
7. `ConfigFile`, `ConfigFileProofs`, `Expr`: done, against reference definitions. `Expr` is
   recursive and stays with TLC.
8. `FoldFacts`: what the proofs of 3, 5, 6 and 7 need of folds, for any operator.

`MCParts` puts the modules of 4 to 7 behind one specification, so that one run
checks them: a behaviour is one of the local store, of the reporters, of git's output, of the
proxy, of the configuration editor, of a walk for an image, or one input of an algorithm, and the variables of the other parts stay
as they are. They do not share state in the program either.

Bounds: two processes (every known race needs two), two or three refs of
different kinds, graphs of four nodes with one shared node. Each run ends within a
minute or two.

## 3. The source cache

### `SourceCache`

One process is one kbake build; its program counter `pc[p]` follows
`source.fetchGit`, and one step is one access to shared state: a git command,
or the reading, truncating, writing or renaming of a file. One step stands for
several commands where only one of them can tell anything: of the first three
`rev-parse` of `resolveRef` one at most can name a commit, the tracking ref of a
branch or a commit id, for no fetch of kbake writes `refs/tags`, and the order of three
reads of which two find nothing shows in nothing. `FETCH_HEAD`, which every process writes,
is read in a step of its own. The table shows the way through the code.

| action | code |
|---|---|
| `Start` | `builder.go` `defaultFetcher.Fetch`, up to the entry of `fetchGit` |
| `StatBare`, `InitBegin`, `InitEnd` | 179-185: the stat, and `git init --bare`, which makes the directory before it makes the repository |
| `CheckOrigin`, `AddOrigin`, `SetURL`, `ConfigFails` | 187 and `ensureOrigin` |
| `LookupRefMap`, `Warm` | 197-211, the warm path; two accesses |
| `FetchBegin`, `FetchEnd`, `FetchFails` | 225: git empties `FETCH_HEAD`, then transfers, then writes it and the tracking ref; a failure is only a warning |
| `ResolveRef`, `ResolveFetchHead` | `resolveRef`: the `rev-parse` of the ref, then that of `FETCH_HEAD` |
| `Fallback` | 235-242: the recorded entry, if there is one |
| `ResolveVersion` | `resolveVersion`, with its two uses of `git ls-remote`, each of which may fail |
| `StatTree`, `StatTreeOffline` | 259-266 |
| `CheckoutEnd`, `CheckoutFails`, `Rename`, `RenameFails` | `materializeAtomic` and `checkoutTree` |
| `SaveRead`, `SaveReadFails`, `SaveTruncate`, `SaveWrite`, `SaveFails` | `saveRefMap`, which takes a table it cannot read for an empty one |
| `Finish` | the build is done with the tree (`xos.CopyTree`) |
| `Crash`, `Move`, `Evict` | external: a kill, the remote repointing a ref, the user deleting a tree |

Data are abstract: a commit is a value, a tree is the commit it holds (or
`Partial`), a tag's version is the tag, and a pseudo-version is the pair of the
commit and whether a base tag was found. The history variables `tips`,
`published` and `saved` record which commits a ref has named, which versions
were ever published, and which refs were recorded since a rewrite was last cut
short, or made from a table that could not be read; no guard reads them.

How git behaves is external to the repository. The model uses this: a fetch
of a ref given by name empties `FETCH_HEAD` when it starts and appends the line
of what it got at the end (two fetches at once may leave two lines, and
`rev-parse` takes the first); a fetched branch updates its tracking ref, a
fetched tag updates no ref of the bare repository; `git remote add` fails when
the remote is there. A kill falls between two commands: a git that is killed in the
middle of a write, and leaves a `config.lock` that every later `git remote` stumbles on, is left
out. A git that outlives its kbake goes on writing; to the other processes it
is one whose kbake is killed later, so `Spec` has it.

### What is checked

`MCSourceCache` has two processes, a tag, a branch and (in the concurrent run)
two commits between which the branch moves. `MCSourceCache.cfg` (run `cache`) lets
everything interleave, with kills and failures of local commands and writes.
These hold there:

- `TreesComplete`: no partial checkout under a version, at any moment;
- `PseudoTreesFaithful`: a pseudo-version's tree holds that commit, even when a
  race resolved the wrong ref, because name and content come from one commit;
- `RefMapPublished`: the table names only versions that have been published;
- `TreesImmutable`: no step replaces a tree by another;
- `ImplementsModuleCache`: the refinement of `ModuleCache` below.

`MCSourceCacheSerial.cfg` (run `cache_serial`) restricts the behaviours to those
in which at most one process is at work at any moment (`SerialSpec`), still with
kills in every place, a moving branch and failures. A build whose kbake was killed counts as at work
until the git it had started has ended: the serial properties assume that nobody starts the next
build before, for a fetch left over would write `FETCH_HEAD` under its feet, which is `fetch_head_race`
with one user. The run checks what does not survive interleaving: `TagTreesFaithful` (a tag's tree holds a commit the tag
has named), `RefMapFaithful` (so do the entries of the table),
`ResultMatchesTree` (the commit in the result is the one in the tree),
`CachedRefNeverFails` (a ref that is recorded and whose tree is there never
fails to build, short of a failing disk) and `RecordsRetained` (no entry is lost,
short of a rewrite that was cut short or could not read the table).

Two of these, checked over all interleavings without any fault, are violated,
and the traces are the two findings about this component:

- `fetch_head_race`: process A fetches tag t, process B fetches branch b, A
  resolves t. `rev-parse` finds no `refs/tags/t` and no tracking ref (a fetch by
  name writes neither for a tag) and takes `FETCH_HEAD`, which is now b's. A
  publishes b's commit as `<repo>@t`, and since a directory that exists is
  reused, every later build of t takes it.
- `lost_record`: two processes read the table, each adds its own ref and
  rewrites the whole file; the first one's entry is gone.

Bounds: `MaxBuilds` builds and `MaxChanges` moves and deletions in a behaviour.
Two builds are enough for every race between two processes; the serial run has
three, so that a build can find what an earlier one left behind and what a
killed one left half done.

### The abstract `ModuleCache`

A store of trees by version in which a tree is published in one step, never
changes, and disappears only when no build uses it; a table of claims that
names only published versions; and builds that are served only a tree that is
there. The refinement maps `store` to `trees`, `seen` to `published`, `claims` to
the versions in the table and `served` to the version of each process at
`"done"`.

## 4. The copy of an image

### `CopyGraph`

A pull is one `Pull` call with the goroutines it starts. A call is named by the
way to it: `<<>>` is the `copyDispatch` of `copyPath`, `<<i>>` the goroutine of
the i-th node dispatched there, `<<i, j>>` the goroutine of the j-th child of
that one, and so on. `copyNode` and the nested `copyDispatch` it makes are one
call, for it does nothing else while it waits. `pc[c]` is where it is, `node[c]` its descriptor,
`next[c]` the next position to dispatch, `retErr[c]` the nested dispatch's
recorded error (`errOnce` is "`retErr` is not `None`") and `err[c]` what
`copyNode` returns. `sem` counts the tokens taken and `cause` is the cause of
the context.

| action | code |
|---|---|
| `ResolveFails`, `CopyPath`, `CopyReturns`, `Tag`, `TagFails` | `Pull`: the path is found or not, the copy starts, answers, and the reference is tagged |
| `Dispatch`, `DispatchCanceled`, `DispatchedAll` | the two arms of the `select` and the end of the loop of `copyDispatch` |
| `NestedReturns` | `wg.Wait` of a nested dispatch and its `return retErr` |
| `Record` | the closure under `wg.Go`: `errOnce`, then `cancel(err)`, inside one `Do` |
| `StartData`, `StartSuccessors`, `FindSuccessorsFails` | `copyNode` up to its first token given back |
| `Acquire`, `AcquireCanceled`, `Release` | the token taken again after the children, the select's other arm, and the deferred release |
| `Exists`, `Fetch`, `Push`, `DataFails` | `copyNodeData` |
| `Cancel`, `Again` | external: the caller's context is canceled; the pull is asked for again, after an answer or (if `Faults` has `"crash"`) after a kill |

When both arms of a select are ready either may be taken, as Go does. Every
call to a store may fail, with a fault of its own or, once the context is
canceled, with the context's error. The destination is trusted to be
content-addressed: a push stores the whole content or nothing.

### What is checked

`MCCopyGraph` pulls an image below one index; the image has a subject (an image
of its own) and shares a layer with it, so the same descriptor is copied by two
goroutines, and the recursion is two dispatches deep. Concurrency is 2, fewer
than the nodes. `MCCopyGraph.cfg` (run `copy`) makes two pulls on one store, the
second after an answer or a kill of the first, and all kinds of fault.

- `SuccessorsFirst`: at every moment, an image in the store has everything it
  refers to in the store. It says nothing of indexes, by design of the code: an
  index of the path names images of other platforms that are never copied.
- `TaggedWhole`: a tagged reference has its whole path in the store.
- `TokensConserved`: the tokens taken are those of the goroutines that hold one.
- `NothingOutlives`: when `copyPath` has answered every goroutine has ended.
- `NoErrorLost`: a failed goroutine's dispatch, and all above it, answer an error.
- `CauseRecorded`: a context canceled with a fault has that fault recorded in
  some dispatch.
- `Termination`: every pull answers, and goroutines never wait for each other's
  tokens for ever.
- `ImplementsGraphStore`: the refinement of `GraphStore`, in which nodes are
  stored bottom up and the pull then succeeds or fails at once.

`Termination` assumes weak fairness of `Step`, the union of all steps of the
pull: something that can run does run, which Go's scheduler and calls that
return justify. `Cancel` and `Again` need not happen. No fairness of a single
goroutine and no strong fairness is needed, for the pull makes finitely many
steps (`EveryStepIsForward`) and deadlock, which would keep it from answering, cannot
happen (`NoDeadlock`): both are theorems, section 7.

Two statements of the code's comments are violated, and are findings:

- `error_wins`: "The first node error both cancels the remaining work and is
  returned" and "the real error must win over the ctx.Done arm": `errOnce` is per
  dispatch, the context is shared. A child fails and cancels; the outer
  dispatch sees `ctx.Done()` and records `context.Canceled` before the child's
  parent hands the failure up. The caller is told "context canceled".
- `bottom_up`: "only then the remaining path bottom-up is copied": the ancestors
  are dispatched as soon as there is a token, so an index can be stored before
  the image below it.

## 5. The build

### `Kernelfile`, `KernelImages` and `Builder`

`Builder` is one `kbake build` after another on one local store, each a process of
its own. `pc` is the place in `Run` (`internal/cli/build/build.go`) and `Build`
(`internal/build/builder.go`), `n` the architecture, or later the tag, that is next.

| action | code |
|---|---|
| `Start`, `CreateLog` | `Run` up to the call of `Build`: the Kernelfile is loaded, the log made |
| `MakeWork` | `Build` 598-613: no architecture is an error, `slices.Sort`, the work directory |
| `MakeArch`, `MakeTree` | the directory of an architecture (616), and those below it in `buildArch` |
| `From`, `EvaluateActions` | `buildTree`: the sources are copied into the tree; the actions are evaluated on it |
| `RunDefconfig`, `Apply`, `Compile` | `make`: the overrides are set in `.config` in the order of a Go map |
| `PushKernel`, `PushModules`, `PushConfig`, `PackManifest` | `push`, `pushLayer`, `pushConfig` |
| `PushIndex` | `buildAndPushIndex` and the deferred removal of the work directory |
| `TagNext`, `Succeed` | `Run` 218-238 and its deferred function |
| `Fail` | any of these returns an error, and everything above it returns |
| `Cancel`, `Kill` | external: an interrupt cancels the context, which stops make; a kill stops everything |

`Kernelfile` has the decoding of the actions and their evaluation, translated from
the code, and next to it the meaning the README of kbake gives a document
(`WrittenConfig`, `WrittenFiles`), which shares nothing with the evaluation: for each
option and each file the latest action that applies decides. Blobs are records
by content in `KernelImages`, so a blob stored twice is one blob. A condition is
the set of architectures on which it is true, for architectures are all a
condition can tell apart.

### What is checked

`MCBuilder.cfg` (run `build`) makes two builds of three Kernelfiles: one with short
forms of every kind overruled by conditional actions, one from scratch, one
based on an image (which the code does not implement). Each is asked for two
architectures in the wrong order, for one twice, or for none, with and without tags and
`--keep-work`, with all faults.

- `StoreClosed`: the store holds all that its blobs and tags refer to.
- `KernelAsWritten`: every kernel is made of the files and options the document
  asks for, also when the tree was used by the same build before, and the
  overrides recorded in the image explain every option that is not the default.
- `Leftovers`: a build that answers leaves a log exactly if it failed, and its
  work directory exactly if it is to be kept; and the user is sent to no directory that is not there.
- `ImplementsBuildStore`: the refinement of `BuildStore`, in which blobs are stored after what they
  refer to, an index lists the architectures asked for in order, and tags move only to the
  whole index of the running build. A build that fails between two tags has moved
  the first: that is what the abstract specification allows.
- `BuildAnswers`: a build that is not killed answers, by weak fairness of `Step`:
  the commands it waits for return.

Two builds are enough for one to find blobs and tags of another; two architectures
and two options give every order of overruling that one action can tell from another.

One statement is violated, and is a finding:

- `bare_action`: the README's example gives an action without a group. The
  decoder tries the form with `if` and `actions` first, which accepts any object,
  so the action becomes an empty group and is never taken.

## 6. The local store, the proxy, the reporters and the algorithms

All of this is checked by `MCParts.cfg` (run `parts`); `MCExpr.cfg` (run
`expr_grammar`) shows a finding. Deadlock is not checked in either: the commands
the user may run, the readers and the builder come to an end, options are set so many times, and an algorithm
has no steps.

### `LocalStore`

A process is one kbake command on the user's layout. It opens the layout when it starts
and keeps what `index.json` said then in its `view`; each time it tags, untags
or pushes an index or a manifest to the layout it writes the file from its `view`. `blobs` are the
blobs of the layout, `remoteTags` and `remoteBlobs` the registry.

| action | code |
|---|---|
| `Start` | `internal/cli/cli.go`: the command is found and opens the layout |
| `Resolve` | the lookup in the layout of `tag.go`, `push.go` and `get/kernel/kernel.go` |
| `Pull` | `images.Pull` up to the copy: the path to the image of the architecture is found in the registry |
| `Visit` | one node of a copy: its successors are found, or it is skipped or pushed (`copyNode`; for a push `oras.Copy`, for a build `Builder.push`) |
| `Tag` | the tagging of `pull`, `tag`, `build` and `get kernel`; the last push of a `push` carries the tag |
| `ReadManifest`, `ReadLayer` | `get kernel` reads what it prints |
| `Untag`, `GC` | `rm.go`: the references one by one, then the collection |
| `Abort` | external: a kill, or a failing call |

The copies are one node at a time, in one of the orders that `CopyGraph` allows;
the goroutines of one copy are that module's subject, the commands beside it this one's.
A build stores an image of at least one architecture (`Build` refuses to make
another). The collection and the push are a library's and are modelled by what
they promise; a collection that is cut short has removed any part of the garbage.

`expected`, `alone` and `kept` are history: the tags had every command seen those
before it, whether no two commands have overlapped, and whether no collection
has overlapped another command or was cut short. They say under which conditions
the properties hold, for without them they do not:

- `SoloStore`: commands one after the other, failing as they like, leave the tags
  they have set, and a collection leaves what is reached and nothing else.
- `TaggedIsWhole`: builds, pulls and tags may overlap and fail; a tag names a root
  that is there with an image, and a manifest has its layer, as long as `kept`.
- `RegistryWhole`: the registry never holds a node or a tag without what is below
  it, whatever is removed from the layout while a push reads from it.
- `GetServes`: `get kernel`, alone, prints the kernel of the image that the tag names
  from then on, and fails only if there is none.

What the conditions leave out is real: two commands that overlap lose each other's
tags (the later one writes what it has loaded), and an `rm` beside a pull
removes what the pull has stored and not yet tagged. The code documents neither
as impossible, so these are hazards and not findings.

Bounds: two processes, three commands, two tags, of which the registry has one. Its image
is for two of three architectures and the one that is built for another two, so the roots share
a manifest and each has one the other lacks. Three commands are enough for one to
leave something behind that the other two race on. The whole run has 490 000 states.

### `MetadataProxy`

Goroutines of one pull read manifests through the proxy (`metadata.go`). `content` is
its cache; a reader has read some bytes of what it was opened on, from the cache
or from the registry, which may send too little or too much. `FetchCached`, `FetchStored` and
`FetchFails` are the arms of `Fetch`; `Read`, `ReadEnd` and `CloseEarly` are the reader it
returns, whose `onEOF` puts the content in the cache; `End` is the check of size and digest
that the caller makes. `CacheWhole` and `AcceptedIsKept` say what is kept and that it stays. Two
readers, a manifest as large as the limit and one that is larger.

### `LineWriter`, `GitOutput` and `Reporter`

`LineWriter` is `xbufio.ScanWriter` and `ScanBuffer` with the two split functions kbake
uses; an atom of a text is an end of line, a text, a blank, or what looks like git's progress.

`GitOutput` is a fetch of `fetchGit`, as far as it prints: `GitWrites`, a chunk of git's standard error that goes
through the filter to the reporter; `GitExits`, with the warning that the reporter is given
when git has failed; `CloseFilter`, which flushes what the filter keeps. `passed` is what the reporter has been given,
which is what the log has, and `sent`, `warned` and `torn` are history. A chunk ends anywhere: a pipe
hands over what is there. Bounds: five atoms, up to three in a chunk.

- `OutputLinesAreWhole`: the reporter is given exactly the lines that are no progress, in
  order and each with its end, and a warning is a line of its own. `torn` says when the code does not do
  this: a chunk ends inside a line, and what follows of it is blank or looks like progress
  although the line does not, or the line does. The split function sees no more of the line than that.

What `torn` excepts is a flaw of the code, though no run is spent on it: a line whose end comes in
the next chunk is not progress and loses its end, so that it becomes one with the line after it.
The test of the filter says that kept lines have theirs wherever the writes are split
(`gitfilter_test.go:12-13`, `43-44`), and cuts no line just before its end. Without `~torn`
TLC finds it in two steps.

`Reporter` has the builder (`Step`, `Detail`, `Write`, `Done`, `Close`), the plain reporter of the
log, the terminal reporter, and the program that runs in a goroutine of its own
(`Receive`, `KeyPress`, `Exit`, `Cancel`, `CloseDone`). A call of the builder sends messages
one by one and blocks on each until the program takes it or has exited.

- `TailIsRecent`: the last lines shown are the last lines of the running step.
- `DumpIsTheFailure`: what `Close` prints is the end of the output of the step that
  failed, and nothing if none did, also when the program has gone before.
- `LogAndScreenAgree`: the steps on the screen are those of the log.
- `Unwinds`: once the build is cancelled or the program is on its way out, the build
  closes, unless it waits for a git or a `cp` that never ends.

`command` is what a step waits for. Cancelling the context kills make, which is started by
`exec.CommandContext` (`internal/build/build.go:121`). It does not kill git, nor the `cp` that copies a tree: `fetchGit`
is not given the context, and they are started by `exec.Command` (`source.go:550`, `606`, `616`, `xos.go:27`).
So `Unwinds` assumes that the builder goes on between its steps, that a cancelled make
ends, and that the program goes on with what it has received; of git and `cp` it assumes
nothing, nobody has to press a key, and a command that is not cancelled may run for
ever. Of make only make itself is killed: that the compilers it leaves behind, which hold the pipe of its
output, end too is part of the assumption. Bounds: two steps, three details and chunks, a tail of two
lines, a cap of two, a dump of one.

`hung_git` is a finding: the comment at `progress.go:652-656` says that when the program exits "a running
make/git is killed and the orchestrator can unwind instead of hanging" (`UnwindsOnExit`). A git that
hangs is not, and the build never closes. On the terminal ctrl+C is a key press to the
program while it is up, so no signal reaches git either; once the terminal has been restored a second ctrl+C
may, which is for the user to find out.

### `ImageWalk`, `ConfigFile`, `Expr`

Each is a translation of the code next to a definition of what it is for that shares
nothing with it. `ConfigFile` keeps state: `data`, the lines that were read, `conf`, the
editor, which has the lines, and for each option its value and the index of its line, and
`edits`, what has been set so far (history). `ConfigInit` is `config.Read`, `SetOption` one turn of
the loop in `make` (`builder.go:406`), whose order is that of a Go map. `ImageWalk` is
one walk: `at` is the place it is at (in the code the descriptors of a `Path`; here which entry of each
index was taken), `left` says that it is done with it and all below, so `at` and `left` are the stack
of calls of `walk` with their loops. `found` is what `Iterate` has yielded, `answer` what the caller
makes of it. `Expr` has no state.

- `ImageWalk`: `walk`, `Iterate`, `ResolveGraph`, `Platforms`, the listing. `VisitOther`,
  `VisitIndex` and `VisitManifest` are the cases of `walk` with the callback of `Iterate` and what its caller does with what is
  yielded, each one read of the store; `NextEntry` is the loop over an index, `EndWalk` the end of the
  caller's. `Change` is anyone else: what a descriptor that was changed since the walk began reads as is
  open. `FirstImageIsFound`: what is
  resolved is the first, in the order of the places, of the images whose own platform
  matches and above which no index says otherwise, unless an error that is not passed over comes
  before it; the listing has them all. Of what others change nothing is claimed but that the answer was
  possible when it was read; with no changes it is exact. Roots of up to two entries, one of them
  an index of up to two, present, missing or broken, and one change.
- `ConfigFile`: `ConfigEditsAreRead`: after any edits kconfig reads for each option the value
  set last, and for the others what it read before, with options that occur twice and
  "is not set" lines; lines are changed in place, and one is added for each option
  that had none. Files of up to three lines, up to two edits.
- `Expr`: the tokens, the parser, the evaluator and `Subst`. `MeansWhatItSays`: a condition
  that is accepted has the value its tree has, when it is written with the parentheses
  the grammar needs; `SubstitutedInPlace`: a template is its parts, each replaced by its value.
  Up to two or three operators; templates of up to four parts.

`expr_grammar` is a finding: the comment at `expr.go:15-17` names the operators and
the usual precedence; the parser takes any operator after a primary for a
comparison, so `(a) && b`, or `&&` after a bare name, is refused. None is evaluated
wrongly.

## 7. Proofs

The theorems hold for every value of the constants that satisfies the named
assumption of the module:

- `CacheAssumption`: the kinds of ref are disjoint, a commit id never moves, the model
  values differ from the data.
- `CopyAssumption`: a path that is not empty, finitely many positions for calls, at least one
  token. `NoDeadlock` alone also assumes `Unfolds`: the positions are those of the
  graph unfolded below the path, so that no call waits for one that the bound leaves out. TLC
  checks it of the instance of the run `copy` (`MCUnfolds`).
- `KernelfileAssumption` and `BuilderAssumption`: the typing of the parameters, documents included
  (`Kernelfiles`: what the fields of a decoded document may hold).
- `StoreAssumption`: the typing of the commands, an image that is built has an
  architecture, `tag` has two references.
- `ProxyAssumption`: sizes and a limit are numbers, the model values differ from the data.
- `GitAssumption`: what git prints is text, and two literals are strings, which the prover has no
  rule for.
- `ReporterAssumption`: output is text, the sizes are numbers, what is dumped is no longer than what
  is kept, and no snapshot is not one.
- `ConfigAssumption`: files are sequences of lines.
- `WalkAssumption`: the descriptors are closed under the entries of an index, whether one can be
  read is one of three, the bounds are numbers.

`SourceCacheProofs`. `TypeCorrect` is inductive by itself.
The other invariants are proved from strengthenings that follow the local
variables: `TreesAreComplete` needs that a process about to rename holds a
complete checkout in its own temporary directory, `PseudoTreesAreFaithful` that this
checkout is the commit in its hand and that a pseudo-version in its hand is
made of that commit, `RefMapIsPublished` that every process on its way to save,
or with a buffer read from the table, names published versions only. `TreesAreImmutable` is an action property: only the
rename writes a tree, and its guard is that there is none. `Implementation`
maps every action to `Publish`, `Evict`, `Claim`, `Serve`, `Release`,
`ClaimAndServe` or a stutter. The serial theorems add `OneAtATime` to each step:
then `FETCH_HEAD` holds what the only active process fetched, or what an earlier
one left, in which case its fetch failed and emptied the file. `SerialRecords` (`Recording`) needs that a
process about to write the table holds in its buffer every record there is, which
only `OneAtATime` gives. `SerialCachedRef` (`Serving`) has one more hypothesis, that the disk does
not fail (`"disk" \notin Faults`; kills and fetches that fail are allowed): on a full disk
`git remote set-url`, which comes before the lookup, fails a build of what is cached too,
and the run that checks `CachedRefNeverFails` leaves that fault out as well. The invariant is
that a table with an entry is beside a ready repository (`TableBehindRepo`), so of what comes before
the lookup nothing else can fail.

`CopyGraphProofs`. The invariant `Inv` is the conjunction of `TypeOK`, the shape of
the tree of calls (what is dispatched has a parent that dispatched it, with the
right node), what the answers mean (a call that ended without an error has
stored its node and everything below it), `SuccessorsFirst`, `CauseRecorded` and
the phase of the pull. One lemma per action shows it preserved. The tokens are a
cardinality, and each step that takes or returns one adds or removes one element.
`NothingIsLeft` and `ErrorsArrive` go down, or up, the tree of calls: `Shortest` picks a
call of least length with the well-foundedness of strict inclusion of finite
sets, and a least counterexample refutes itself.
What `Termination` needs of the state is proved too. `NoDeadlock`: while `Pull` copies
some call has what it waits for (`SomeoneRuns`), with one token and without help from a
cancellation. If none had, none would hold a token (`TokensConserved`), so none could be waiting
for one, and all that have begun would be in `wg.Wait`; the longest position among them
(`Longest`) would wait for a longer one. It needs that each call is for the node of its
label (`Labelled`). `EveryStepIsForward`: each step takes a call, or `Pull`, to a later place and
none to an earlier one, and a call dispatches no more nodes than it has. Finitely many calls
with finitely many places and nodes: what is left to fairness is that a step that can be
made is made.

`FoldFacts`. The library's induction rules take an operator as a parameter, which no
installed prover can instantiate. `Induction` and `SequenceInduction` state
induction with a set, that of the numbers or sequences for which a formula holds; they are proved
from the same well-foundedness. `FoldLeft` is a recursive function on sets of
indices; `RecursionExists` and `RecursionAgrees` show that there is one such function and that it
agrees on a longer sequence, from which `FoldEmpty`, `FoldAppend`, `FoldConcat` and `FoldInvariant` say all
that the other modules use. They are about a constant operator, and each fold of the
specification is an `INSTANCE` of them. What a fold computes is then proved for
every sequence; a `RECURSIVE` operator stays out of reach.

`BuilderProofs`. `Inv` says at each place of a build how far it has come: as many
manifests as architectures done, each for its architecture and in the store,
what has been pushed for the current one, the index only at the tags. From it
follow `StoreClosed` and, in `Implementation`, that the index pushed lists the
sorted request: `Platforms` of it is `archs` because the two have the same length
and agree at every place. `LeftoversAreRight` adds `Kept`, the life of the work
directory and the log. `TypeCorrect` adds `Materials`, what a build works on at each
place, with `EvaluateTyped`: an evaluation gives overrides and files, by induction over groups and
their actions. `KernelsAreAsWritten` has `EvaluateMeans`: of the actions that are taken, in the order of the
evaluation, the last on an option or a file decides, which is what the document
means (`WrittenConfig`, `WrittenFiles`). `AsWritten` carries that through the build: a tree that was
used for an architecture before holds none but the sources in the files no
action is about (`Untouched`), for a `make` leaves its tree and the next evaluation finds it. The
theorem assumes `Plain`: no document has an action that stands in `actions` by itself, for
the decoder drops it (the finding of `bare_action`, without which the theorem is false), and none
spells an option in two ways, with and without `CONFIG_`, for then the code leaves to the order of a Go
map which of two overrides is set last. The documents of the run `build` are of this kind.
`BuildsAreBounded` has the number of steps a build has left (`Left`): eleven for an architecture, one for
a tag, four more. It is a natural number that every step of the build makes smaller, a failure included. That
some step is possible is left to TLC, for it needs that every request can be sorted.

`ImagesProofs`. Of the proxy, `ProxyInv` says of each reader what it has read: from the
cache the whole content, from the registry as much as it was sent, and that what
was accepted is in the cache. `KeptForGood`, that the first of several readers
decides, is an action property from the same invariant.
Of the walk, `WalkInv` says that every image that is there for sure, and every error, is either
ahead of the walk or has been yielded (`Met`), and that the way to where it is led through indexes that could
be read (`OnTheWay`). `FirstImageIsFound` alone says nothing before the answer. The proof is by the order
of places: going into an index only the index comes to be earlier (`EarlierInto`), going to the next
entry only what is below the one before (`EarlierNext`), and going back nothing does
(`EarlierBack`). It assumes that the descriptors are closed under the entries of an index
(`WalkAssumption`) and nothing of the graph else; it may be of any depth.

`LocalStoreProofs`. `StoreInv` is the types, the shape of a process at each place, and,
for the copies, `Ordered`: the nodes left to do are sorted by their level, a node
that was expanded is in the target or left to do, and what is below it is in the target or
comes before it. Two lemmas carry it, `Expand` (a node's successors go before it)
and `Turn` (the first node is pushed), for a target that only grows. For a push the target is
the registry, which never shrinks, so `RegistryIsWhole` holds without condition. For
the layout it holds as long as `kept`: then a removal has the layout for itself
(`RmAlone`), and what it keeps is closed, since only a root lists manifests and only tags name
roots. Every view has to be whole as well, for a process may write an old one
over the index. `SoloIsExact` adds `SoloInv`: the one process at work knows the index.
`GetIsServed` adds `GetInv`, what a `get` knows at each place (`GetKnows`): that the layout cannot serve what it
pulls, that the manifest it wants is in the layout or left to copy, that the reference names the
root it has copied, and what it has printed.

`ReporterProofs`. First, of `LineWriter`: how the lines of a text change with an atom
(`PartsAppend`) and what `Write` makes of a chunk when the text so far is split into whole lines
and a rest (`WriteCuts`), from which `LinesOfChunks`, for every way to cut any text. Of `GitOutput`,
`FilterCuts` is the same for the filter, by induction over a chunk (`CutsMore`): while the first line of the chunk
is open the filter has what it kept and what it has read of it apart, later only the
second. `GitInv` adds to the property that the filter keeps the unfinished line, whether lines
were torn or not; `KeptLinesPassed` is the theorem. What is progress (`isGitNoise`) is left
open in the proof: it holds for any such test of a line. Then `ReporterInv`:
`PlainInv`, the plain reporter has a step while the builder runs one; `ScreenInv`, a program
that is up shows the log and the last lines but for the messages it has yet to take (three
cases by what is pending); `OutputInv`, the terminal reporter has the rest of the text and the last of
its lines, or, after a failure, their end as it was then. `ScreenIsTheLog` and
`TailIsTheEnd` are `ScreenInv` with nothing pending, `DumpIsTheEnd` is carried as a conjunct.
`CloseIsAnswered` is what `Unwinds` needs of the state: the quit that `Close` sends is on its way until
the program has exited (`QuitSent`), so `Close` waits for no program that is up, and a program that
has gone, or a key that was pressed, has cancelled the build. What is missing to `Unwinds` is the end
of the command that runs, which cancelling brings about for make only.

`ConfigFileProofs`. `ConfigInv` says that the index is true to the lines (`Coherent`: it has
exactly the options some line is about, each with the last such line, and the value of it) and how
the lines have come from the file and the edits. `AppendedCounts`, `SilentAppended` and `ReplacedCounts` are
the three things that are done to lines; `ParseIs` is the first two by induction over the
file, `SetIs` the first and the last. The index is what makes the property inductive: that the line changed is
the one kconfig reads follows from nothing in the property itself.

Only model-checked: `Termination` of the copy, `BuildAnswers` and `Unwinds` (liveness under fairness is beyond the
prover, which has their safety halves: `NoDeadlock` and `EveryStepIsForward`, `BuildsAreBounded`,
`CloseIsAnswered`); `ExpressionsMeanWhatTheySay`, whose evaluator, parser and trees are recursive: what it computes for every
tree is an induction over data.

## 8. Not modelled, and known limits

Of the source cache: the digits of a pseudo-version and the order of semantic
versions (data); lines of the table torn by two writers at once (the model
writes a table in one step after the truncation); a `config.lock` that a git killed
in the middle of a write leaves behind, and, of the serial properties, a fetch that outlives its kbake
(section 3); git's automatic maintenance;
the removal of `.git` (507), whose error the code ignores. Facts that the model
shows and no run singles out: `git init` killed half way leaves a directory that
is never repaired, and every later run fails at `ensureOrigin`; of two processes
that publish the same version the second fails at the rename although the tree
is there; a failed `ls-remote` gives a tag a pseudo-version.

Of the copy: the bytes and their verification; the registry; the finding of the
path.

Of the build: removals that fail (the deferred `os.RemoveAll` of the work directory, `builder.go:612`,
and the `os.Remove` of the log, `internal/cli/build/build.go:176`, drop their errors, so a directory or a log that cannot be removed
stays, which `Leftovers` does not say); documents with a member of the wrong type (a group whose
`if` or `actions` has one fails the first form, `kernelfile.go:93`, and falls through to the form of an
action, `109-115`, which ignores members it does not know: the group becomes an action that
does nothing, without an error); the time PackManifest writes into a manifest; dependencies between
options (`olddefconfig` is taken to leave the modelled options as they are); the
trees between two actions, for the evaluation is one step, so what a failed
action leaves in a kept work directory is not shown; archives and the bytes of
the kernel; a name written both with and without `CONFIG_` (two entries of the Go
map for one option, set in either order: `Apply` models it and no run uses it, for the README
gives names without the prefix); the probing of toolchains (`build.go`), which is a row of
external commands.

Of the local store: flags and the parsing of references; the order in which a
pull stores the path, which `CopyGraph` has; half-written `index.json`. Of the
reporters: spinner, times, widths, heights, colours. Of the line filter: a destination
whose `Write` fails, as that of a log on a full disk does. Of the editor: a line of more than a megabyte,
at which the scanner of `Parse` gives up with an error (`config.go:78-80`). Of the proxy: the digests.

Not modelled at all: registry credentials (a lookup in files of other programs,
which are never written, and a client made once: it answers or fails, which is a
failing call of the registry); the decoders of image configurations (a choice by
media type; what does not decode is a broken manifest in `ImageWalk`); archives,
metadata, architectures and errors (straight-line helpers and constants).

Where the code and its words differ, or the code may surprise, and no run singles it out:

- When the directory of an architecture cannot be made, `Build` answers "" for the work directory it
  has made (`builder.go:618`), and with `--keep-work` the user reads "work dir kept at" and no path
  (`internal/cli/build/build.go:207-211`): the directory is left, nobody is told where.
- `config.go:186` says `Write` is atomic; it is `os.WriteFile`, so a kill leaves a part.
- `progress.go:690-692` and `728` call a path defensive that is taken whenever a step
  fails that has printed nothing.
- The filter of git's progress (`source.go:588-594`) drops what looks like progress in the piece
  of a line it is given; a chunk that ends within a progress line lets the rest of it through. `xbufio` takes a `\r` at the end of a
  chunk for a line end even if the `\n` follows in the next.
- `!a == b` is `!(a == b)`; the tokenizer takes `&=` and `|=` for operators; `Subst` leaves out an
  expression that fails without a word.
- `Set` of `""` reads back as `n`.
- `get kernel` reads with a verifying reader and does not ask it to verify; when it pulls, it
  gives the user's tag the registry's root.
- A `push` of an image that was pulled for one architecture fails, for `oras.Copy` needs all the
  root lists.
- A collection that is cut short can leave a manifest without its layer, which a later pull of it
  repairs, and another command that trusts it does not.
- `version` prints "(unknown)" exactly when a version is known (`cli.go:114`).
- Archives lose the targets of symbolic links and the executable bits (`targz.go`).
