----------------------------- MODULE MCMetadata -----------------------------
(* Metadata for TLC: two clients in one process, a third in another.       *)
EXTENDS Metadata, TLC

CONSTANTS c1, c2, c3

TwoAndOne == [c \in Client |-> IF c = c3 THEN "hidl" ELSE "stablec"]

\* c1 and c2 run in the same process and may do the same.
Alike == Permutations({c1, c2})
=============================================================================
