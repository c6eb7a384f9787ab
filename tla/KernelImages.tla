---------------------------- MODULE KernelImages ----------------------------
(***************************************************************************)
(* The blobs a build leaves in the local store, by content: the layers and *)
(* the configuration of one architecture, the manifest that refers to      *)
(* them, and the index over the manifests (internal/image/image.go and the *)
(* push functions of internal/build/builder.go).  Annotations, such as the *)
(* time a manifest was made, are left out.                                 *)
(***************************************************************************)
EXTENDS Naturals, Sequences

Layer(type, a, image) == [type |-> type, arch |-> a, image |-> image]
ConfigBlob(a, cfg) == [type |-> "config", arch |-> a, overrides |-> cfg]
Manifest(config, layers) == [type |-> "manifest", config |-> config, layers |-> layers]
NoIndex == [type |-> "none"]
Index(descs) == [type |-> "index", manifests |-> descs]

\* What a blob refers to.
Refs(b) ==
  CASE b.type = "manifest" -> {b.config} \union {b.layers[i] : i \in DOMAIN b.layers}
    [] b.type = "index" -> {b.manifests[i].manifest : i \in DOMAIN b.manifests}
    [] OTHER -> {}

Platforms(index) == [i \in DOMAIN index.manifests |-> index.manifests[i].arch]

\* t lists what s lists, in ascending order: slices.Sort.
Sorted(s, t) ==
  /\ \A i, j \in DOMAIN t : i < j => t[i] <= t[j]
  /\ \E f \in [DOMAIN t -> DOMAIN s] :
       /\ \A i, j \in DOMAIN t : f[i] = f[j] => i = j
       /\ \A i \in DOMAIN t : t[i] = s[f[i]]
=============================================================================
