---------------------------- MODULE MCHandlePool ----------------------------
(* Instances of HandlePool for TLC.                                        *)
EXTENDS HandlePool, TLC

Symmetry == Permutations(Thread) \union Permutations(Instance) \union Permutations(Address)
=============================================================================
