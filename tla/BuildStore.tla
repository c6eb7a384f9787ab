----------------------------- MODULE BuildStore -----------------------------
(***************************************************************************)
(* What "kbake build" promises about the local store: nothing is stored    *)
(* before what it refers to, so that a build that fails or is killed       *)
(* anywhere leaves no image with holes; a build answers "ok" only when it  *)
(* has stored an index that lists the architectures asked for in order,    *)
(* and every tag it was given names that index; and no tag is moved to     *)
(* anything else.  Builder implements it.                                  *)
(***************************************************************************)
EXTENDS KernelImages

CONSTANTS Archs, Tags

VARIABLES
  store,   \* the blobs
  tags,    \* tag -> the index it names, or NoIndex
  asked,   \* the architectures the last build was asked for
  due,     \* the tags it has still to set
  built,   \* the index it has made, or NoIndex
  answer   \* "none" while it runs or when it was killed, then "ok" or "failed"

vars == <<store, tags, asked, due, built, answer>>

Init ==
  /\ store = {}
  /\ tags = [t \in Tags |-> NoIndex]
  /\ asked = <<>>
  /\ due = {}
  /\ built = NoIndex
  /\ answer = "failed"

Build ==
  /\ asked' \in Seq(Archs)
  /\ due' \subseteq Tags
  /\ built' = NoIndex
  /\ answer' = "none"
  /\ UNCHANGED <<store, tags>>

\* A blob is stored, after what it refers to.
Push ==
  /\ answer = "none"
  /\ \E b \in store' : Refs(b) \subseteq store /\ store' = store \union {b}
  /\ UNCHANGED <<tags, asked, due, built, answer>>

\* The index is stored.
Complete ==
  /\ answer = "none" /\ built = NoIndex
  /\ built'.type = "index"
  /\ Sorted(asked, Platforms(built'))
  /\ Refs(built') \subseteq store
  /\ store' = store \union {built'}
  /\ UNCHANGED <<tags, asked, due, answer>>

\* A tag may be given twice.
Tag(t) ==
  /\ answer = "none" /\ built # NoIndex
  /\ t \in due
  /\ tags' = [tags EXCEPT ![t] = built]
  /\ due' \in {due, due \ {t}}
  /\ UNCHANGED <<store, asked, built, answer>>

Succeed ==
  /\ answer = "none" /\ built # NoIndex /\ due = {}
  /\ answer' = "ok"
  /\ UNCHANGED <<store, tags, asked, due, built>>

Fail ==
  /\ answer = "none"
  /\ answer' = "failed"
  /\ UNCHANGED <<store, tags, asked, due, built>>

Next == Build \/ Push \/ Complete \/ (\E t \in Tags : Tag(t)) \/ Succeed \/ Fail

Spec == Init /\ [][Next]_vars
=============================================================================
