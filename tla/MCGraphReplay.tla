---------------------------- MODULE MCGraphReplay ----------------------------
(* Sizes for the model-checking runs of GraphReplay: all equal, as the      *)
(* elementwise kernels demand, or with the first and the last larger.       *)
EXTENDS GraphReplay

EqualBytes == [t \in Ids |-> 1]
MixedBytes == [t \in Ids |-> IF t \in {6, 9} THEN 2 ELSE 1]

=============================================================================
