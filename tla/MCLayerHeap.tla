---------------------------- MODULE MCLayerHeap ----------------------------
(* Instances of LayerHeap for TLC.                                         *)
EXTENDS LayerHeap, TLC

CONSTANTS A, B

Of(l, n) == [layer |-> l, size |-> n, cpu |-> FALSE]
OnCpu(l) == [Of(l, 1) EXCEPT !.cpu = TRUE]

TwoLayers == {Of(A, 1), Of(B, 1)}
Mixed     == TwoLayers \union {Of(NoLayer, 1), OnCpu(NoLayer)}
LayersOfTwoSizes == {Of(A, 1), Of(B, 2)}

\* In the requests of TwoLayers and Mixed the layers are alike.
Alike == Permutations({A, B})
=============================================================================
