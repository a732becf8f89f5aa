---------------------------- MODULE MCCpuAccess ----------------------------
(* Instances of CpuAccess for TLC.                                         *)
EXTENDS CpuAccess, TLC

R == [read |-> TRUE,  write |-> FALSE, fence |-> FALSE, inside |-> TRUE]
W == [read |-> FALSE, write |-> TRUE,  fence |-> FALSE, inside |-> TRUE]
RFence == [R EXCEPT !.fence = TRUE]
WFence == [W EXCEPT !.fence = TRUE]
NoUsage == [R EXCEPT !.read = FALSE]
RW == [R EXCEPT !.write = TRUE]
WriteOutside == [W EXCEPT !.inside = FALSE]

Plain      == [blob |-> FALSE, mappable |-> TRUE,  afbc |-> FALSE]
Blob       == [Plain EXCEPT !.blob = TRUE]
Unmappable == [Plain EXCEPT !.mappable = FALSE]
Afbc       == [Plain EXCEPT !.afbc = TRUE]

ConcurrentModes == {R, W, RFence, WFence}
SequentialModes == {R, W, RFence, RW, WriteOutside, NoUsage}
FaultModes      == {RFence, W, RW, WriteOutside}
PlainBuffers   == {Plain}
AllBuffers     == {Plain, Blob, Unmappable, Afbc}

Symmetry == Permutations(Session) \union Permutations(Addr)
=============================================================================
