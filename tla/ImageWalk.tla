------------------------------ MODULE ImageWalk ------------------------------
(***************************************************************************)
(* Finding an image below a root: Walk, Iterate, ResolveGraph and          *)
(* Platforms of internal/xoras/images/images.go, with the options kbake    *)
(* gives them in internal/image/image.go, and the match of platforms.      *)
(*                                                                         *)
(* A descriptor comes with what reading the content it names yields when   *)
(* the walk begins: its status is "ok", "missing" or "broken" (a failing   *)
(* store, or content that does not decode); an index has its entries, a    *)
(* manifest the artifact type it has itself and the platform of its        *)
(* configuration, which replace what the entry of the index says.          *)
(*                                                                         *)
(* The walk reads one descriptor per step.  Between two of its reads a     *)
(* pull or a removal of another process, or whoever owns the registry, may *)
(* add or remove what it has not come to; what such a descriptor names     *)
(* never changes, since it is named by its digest.                         *)
(***************************************************************************)
EXTENDS Naturals, SequencesExt, FiniteSetsExt

CONSTANTS
  Descs,       \* the descriptors of the graphs
  WalkRoots,   \* those a reference may stand for
  Platforms,   \* the platforms of images and of entries
  Wants,       \* the platforms that are asked for
  MaxEntries,  \* bounds on the places the properties are about
  MaxDepth,
  MaxChanges   \* a bound on what other processes change during a walk

ASSUME WalkAssumption ==
  /\ WalkRoots \subseteq Descs
  /\ \A d \in Descs :
       /\ d.status \in {"ok", "missing", "broken"}
       /\ d.media = "index" => d.manifests \in Seq(Descs)
  /\ {MaxEntries, MaxDepth, MaxChanges} \subseteq Nat

-----------------------------------------------------------------------------

\* A nil *ocispec.Platform, and the platform of a configuration that names none: the
\* decoder of internal/image returns the address of a field, never nil.
NoPlatform == [nil |-> TRUE]
Unspecified == [os |-> "", arch |-> "", osVersion |-> "", variant |-> "", features |-> {}]
Linux(arch) == [Unspecified EXCEPT !.os = "linux", !.arch = arch]

\* "" and no features ask for nothing.
Match(got, want) ==
  \/ got = NoPlatform /\ want = NoPlatform
  \/ /\ got # NoPlatform /\ want # NoPlatform
     /\ got.arch = want.arch /\ got.os = want.os
     /\ want.osVersion \in {"", got.osVersion}
     /\ want.variant \in {"", got.variant}
     /\ want.features \subseteq got.features

ImageDesc(status, platform, kbake) ==
  [media |-> "manifest", status |-> status, platform |-> platform, kbake |-> kbake]
IndexDesc(status, platform, manifests) ==
  [media |-> "index", status |-> status, platform |-> platform, manifests |-> manifests]
OtherDesc == [media |-> "other", status |-> "ok", platform |-> NoPlatform]

Walked == {"index", "manifest"}

\* MatchPlatform(want), as the set of the platforms it accepts.
MatchPlatform(want) == {p \in Platforms : Match(p, want)}

-----------------------------------------------------------------------------

VARIABLES
  root,      \* where the walk began
  listing,   \* it is for a listing; otherwise for the first image
  accepted,  \* the platforms that are accepted
  at,        \* the place it is at: which entry was taken in each index from the root
  left,      \* it has left this place, and all below it
  found,     \* the places of the images it has yielded
  answer,    \* "none" while it walks, then "image", "error", "missing" or "list"
  changed    \* the descriptors others have changed since it began

walkVars == <<root, listing, accepted, at, left, found, answer, changed>>

WalkTypeOK ==
  /\ root \in Descs /\ listing \in BOOLEAN /\ accepted \subseteq Platforms
  /\ at \in Seq(Nat \ {0}) /\ left \in BOOLEAN /\ found \subseteq Seq(Nat \ {0})
  /\ answer \in {"none", "error", IF listing THEN "list" ELSE "image",
                 IF listing THEN "list" ELSE "missing"}
  /\ changed \subseteq Descs

\* The descriptor at a place.
Entry(d, i) == d.manifests[i]
Node(place) == FoldLeft(Entry, root, place)

\* What reading it may yield now.
Reads(d) == IF d \in changed THEN {"ok", "missing", "broken"} ELSE {d.status}

\* ResolveGraph is called with the platform that is asked for, Platforms with none:
\* it takes every image that has one, the unspecified one included.
WalkInit ==
  /\ root \in WalkRoots
  /\ \/ listing = TRUE /\ accepted = Platforms \ {NoPlatform}
     \/ listing = FALSE /\ \E want \in Wants : accepted = MatchPlatform(want)
  /\ at = <<>> /\ left = FALSE /\ found = {}
  /\ answer = "none" /\ changed = {}

\* The walk is done with the place it is at.
Leave == left' = TRUE /\ UNCHANGED <<root, listing, accepted, at, answer, changed>>

\* It ends with an answer, where it is.
Answer(kind) == answer' = kind /\ UNCHANGED <<root, listing, accepted, at, left, changed>>

\* Mutant of IgnoreImageOrIndexNotFound: a part of the graph that is not there is an
\* error.
IgnoreNothing(d, err) == FALSE

\* OnIterateError as every command gives it: an index or an image that is not
\* there is passed over.
IgnoreImageOrIndexNotFound(d, err) == err = "missing" /\ d.media \in Walked

\* Iterate yields an error; the first that is not passed over ends the walk.
YieldError(d, err) ==
  /\ err # "ok"
  /\ \/ IgnoreImageOrIndexNotFound(d, err) /\ Leave
     \/ ~IgnoreImageOrIndexNotFound(d, err) /\ Answer("error")
  /\ UNCHANGED found

\* An entry of another kind is passed over; a root of another kind is an error.
VisitOther(d) ==
  /\ d.media \notin Walked
  /\ \/ at # <<>> /\ Leave /\ UNCHANGED found
     \/ at = <<>> /\ YieldError(d, "unsupported")

\* A nested index for another platform is not entered.
VisitIndex(d) ==
  /\ d.media = "index"
  /\ \E err \in Reads(d) :
       \/ YieldError(d, err)
       \/ /\ err = "ok" /\ UNCHANGED found
          /\ \/ /\ d.manifests # <<>> /\ d.platform \in accepted \union {NoPlatform}
                /\ at' = Append(at, 1)
                /\ UNCHANGED <<root, listing, accepted, left, answer, changed>>
             \/ /\ d.manifests = <<>> \/ d.platform \notin accepted \union {NoPlatform}
                /\ Leave

\* An image of kbake for a platform that is accepted is yielded.  No command gives
\* CompareDescriptors, so ResolveGraph takes the first.
VisitManifest(d) ==
  /\ d.media = "manifest"
  /\ \E err \in Reads(d) :
       \/ YieldError(d, err)
       \/ /\ err = "ok" /\ ~(d.kbake /\ d.platform \in accepted)
          /\ Leave /\ UNCHANGED found
       \/ /\ err = "ok" /\ d.kbake /\ d.platform \in accepted
          /\ found' = found \union {at}
          /\ \/ listing /\ Leave
             \/ ~listing /\ Answer("image")

VisitNode ==
  /\ answer = "none" /\ ~left
  /\ VisitOther(Node(at)) \/ VisitIndex(Node(at)) \/ VisitManifest(Node(at))

\* Back in the index: its next entry, or the index is done with too.
NextEntry ==
  /\ answer = "none" /\ left /\ at # <<>>
  /\ \/ /\ Last(at) < Len(Node(Front(at)).manifests)
        /\ at' = Append(Front(at), Last(at) + 1) /\ left' = FALSE
     \/ /\ Last(at) >= Len(Node(Front(at)).manifests)
        /\ at' = Front(at) /\ left' = TRUE
  /\ UNCHANGED <<root, listing, accepted, found, answer, changed>>

\* All is walked: ResolveGraph has found nothing, a listing has what was yielded.
EndWalk ==
  /\ answer = "none" /\ left /\ at = <<>>
  /\ Answer(IF listing THEN "list" ELSE "missing")
  /\ UNCHANGED found

-----------------------------------------------------------------------------
(* What they promise, without a walk: places by their order.               *)

\* The bounds of the places are those of the properties, not of the walk.
Places == SeqOf(1..MaxEntries, MaxDepth)

Upto(place, n) == SubSeq(place, 1, n)

\* d is an index of S that is not for another platform, and has an i-th entry.
Enters(d, i, S) ==
  d \in S /\ d.media = "index" /\ d.platform \in accepted \union {NoPlatform} /\ i \in DOMAIN d.manifests

\* The way to a place leads through indexes of S.
Reached(place, S) ==
  /\ \A n \in 0..(Len(place) - 1) : Enters(Node(Upto(place, n)), place[n + 1], S)
  /\ place # <<>> => Node(place).media \in Walked

\* An image of kbake that is of S and is reached through S.
ImageIn(place, S) ==
  LET d == Node(place)
  IN  Reached(place, S) /\ d \in S /\ d.media = "manifest" /\ d.kbake /\ d.platform \in accepted

\* What cannot be read, of B, and is reached through S.
UnreadableIn(place, S, B) ==
  Reached(place, S) /\ (Node(place).media \in Walked => Node(place) \in B)

\* What reading yields for sure, since nobody has changed it, and what it may have
\* yielded.
Surely(status) == {d \in Descs : d.status = status /\ d \notin changed}
Maybe(status) == {d \in Descs : d.status = status \/ d \in changed}

\* Another process changes something the walk may come to.
Change ==
  /\ answer = "none" /\ Cardinality(changed) < MaxChanges
  /\ \E place \in Places :
       Reached(place, Descs) /\ changed' = changed \union {Node(place)}
  /\ UNCHANGED <<root, listing, accepted, at, left, found, answer>>

WalkNext == VisitNode \/ NextEntry \/ EndWalk \/ Change

WalkSpec == WalkInit /\ [][WalkNext]_walkVars

-----------------------------------------------------------------------------

Earlier(p, q) ==
  \/ IsStrictPrefix(p, q)
  \/ \E i \in DOMAIN p \intersect DOMAIN q :
       p[i] < q[i] /\ \A j \in 1..(i - 1) : p[j] = q[j]

SureImage(place) == ImageIn(place, Surely("ok"))
SureError(place) == UnreadableIn(place, Surely("ok"), Surely("broken"))

\* A reference resolves to the first image for the platform that is there,
\* whatever parts of the graph are not, as when an image was pulled for some
\* platforms only; to an error only if something cannot be read and no image comes
\* before it; and to "not found" only if there is neither.  A listing has all the
\* images that are there, or there is something that cannot be read.  While
\* others change the graph, that is so of the parts they leave alone
\* (images.ResolveGraph, images.Platforms).
FirstImageIsFound ==
  LET due == {p \in Places : SureImage(p) \/ SureError(p)}
  IN  /\ answer = "image" => found = {at} /\ \A p \in due : ~Earlier(p, at)
      /\ answer = "error" =>
           /\ UnreadableIn(at, Maybe("ok"), Maybe("broken"))
           /\ \A p \in due : Earlier(p, at) => listing /\ SureImage(p)
      /\ answer = "missing" => due = {} /\ found = {}
      /\ answer = "list" => due \subseteq found
      /\ \A p \in found : ImageIn(p, Maybe("ok"))
=============================================================================
