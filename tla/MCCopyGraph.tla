---------------------------- MODULE MCCopyGraph ----------------------------
(* An instance of CopyGraph for TLC: an index that lists an image, whose     *)
(* subject is another manifest; the image and its subject share a layer.     *)
EXTENDS CopyGraph

CONSTANTS index, image, subject, layer

MCPath == <<index, image>>
MCSucc ==
  [n \in Nodes |-> CASE n = index -> <<image>> [] n = image -> <<subject, layer>>
                     [] n = subject -> <<layer>> [] OTHER -> <<>>]

\* All positions of this graph.
MCCalls == {<<>>, <<1>>, <<2>>, <<1, 1>>, <<1, 2>>, <<1, 1, 1>>}

\* What each is for: the hypothesis of NoDeadlock holds of this instance.
MCLabels ==
  [c \in MCCalls |-> CASE c \in {<<>>, <<2>>} -> index [] c = <<1>> -> image
                       [] c = <<1, 1>> -> subject [] OTHER -> layer]
ASSUME MCUnfolds == Unfolds(MCLabels)
=============================================================================
