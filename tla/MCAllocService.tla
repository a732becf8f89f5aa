--------------------------- MODULE MCAllocService ----------------------------
(* Instances of AllocService for TLC.                                      *)
EXTENDS AllocService, TLC

P(dim, align, size, compress) == [dim |-> dim, align |-> align, size |-> size, compress |-> compress]

CONSTANTS d1, d2

\* Width, height and alignment; a size without an alignment; both.
MCParas == (d1 :> {P(1, 32, 0, 1), P(1, 0, 1, 0), P(1, 64, 1, 1)}) @@ (d2 :> {})

(* Graphics of a layer (contiguous or not) and of none, a framebuffer, protected graphics and      *)
(* protected video; and what allocate2 refuses untried, or allocate cannot derive.                 *)
MCAppRequests ==
  {Asked("allocate", {"HW_COMPOSER", "HW_RENDER"}, "RGBA_8888", TRUE, FALSE, FALSE),
   Asked("allocate", {"HW_FB", "HW_RENDER"}, "RGBA_8888", TRUE, FALSE, FALSE),
   Asked("allocate2", {"HW_RENDER"}, "RGBA_8888", TRUE, FALSE, FALSE),
   Asked("allocate", {"HW_RENDER"}, "RGBA_8888", FALSE, FALSE, FALSE),
   Asked("allocate2", {"PROTECTED", "HW_RENDER"}, "RGBA_8888", TRUE, FALSE, FALSE),
   Asked("allocate2", {"PROTECTED", "DECODER"}, "YCbCr_420_888", TRUE, FALSE, FALSE),
   Asked("allocate2", {"HW_RENDER"}, "RGBA_8888", TRUE, TRUE, FALSE),
   Asked("allocate2", {"SW_READ"}, "RGBA_8888", TRUE, FALSE, TRUE)}

NoParas == << >>

(* A kernel without the heap that protected video needs if there is no UVM driver, and without *)
(* the one that graphics of no layer are tried from first.                                     *)
MCHeaps == {"system", "gfx", "fb", "protected", "codec_mm_uncached"}
=============================================================================
