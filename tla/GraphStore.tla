---------------------------- MODULE GraphStore ----------------------------
(***************************************************************************)
(* What a pull promises about the store it writes to, however the copies   *)
(* of single nodes are interleaved and whichever of them fails: a node of  *)
(* the image is stored only when everything it refers to is stored, so a   *)
(* pull that is cut off leaves no image with holes; nothing is stored by a *)
(* pull that has answered; and the reference is tagged only when the whole *)
(* path to the image is stored.  CopyGraph implements it.                  *)
(***************************************************************************)
CONSTANTS
  Nodes,   \* the descriptors of the source
  Below,   \* node -> the nodes the store must have before it
  Wanted   \* the nodes of the path that is pulled

VARIABLES store, tagged, status

vars == <<store, tagged, status>>

Statuses == {"idle", "pulling", "done", "failed"}

TypeOK ==
  /\ store \subseteq Nodes
  /\ tagged \in BOOLEAN
  /\ status \in Statuses

Init ==
  /\ store = {}
  /\ tagged = FALSE
  /\ status = "idle"

\* The pull has found the path to the image and starts to copy it.
Pull ==
  /\ status = "idle"
  /\ status' = "pulling"
  /\ UNCHANGED <<store, tagged>>

\* It is asked for again, after it answered or was killed.
Again ==
  /\ status' = "idle"
  /\ UNCHANGED <<store, tagged>>

\* A node is stored after the nodes it refers to.
Store(n) ==
  /\ status = "pulling"
  /\ Below[n] \subseteq store
  /\ store' = store \union {n}
  /\ UNCHANGED <<tagged, status>>

\* The pull succeeds: all of the path is there, and is tagged.
Succeed ==
  /\ status = "pulling"
  /\ Wanted \subseteq store
  /\ tagged' = TRUE
  /\ status' = "done"
  /\ UNCHANGED store

\* The pull fails; the tag of an earlier pull stays.
Fail ==
  /\ status \in {"idle", "pulling"}
  /\ status' = "failed"
  /\ UNCHANGED <<store, tagged>>

Next == Pull \/ Again \/ (\E n \in Nodes : Store(n)) \/ Succeed \/ Fail

Spec == Init /\ [][Next]_vars
=============================================================================
