----------------------------- MODULE AllocType ------------------------------
(***************************************************************************)
(* Formats with modifiers (src/src/core/internal_format.h and the bits of  *)
(* src/src/include/gralloc/formats.h) and the kind of allocation they ask  *)
(* for: get_alloc_type and validate_format of core/buffer_allocation.cpp.  *)
(*                                                                         *)
(* A format is [base, mods], mods being the set of the modifier bits that  *)
(* are set.  AFBC and AFRC give the bits 3 to 7 different meanings.        *)
(***************************************************************************)
EXTENDS FormatTable

AFBC_BASIC == 0
AFRC_BASIC == 1
BLOCK_LINEAR_BASIC == 2
AFBC_SPLITBLK == 3
AFBC_WIDEBLK == 4
AFBC_TILED_HEADERS == 5
AFBC_EXTRAWIDEBLK == 6
AFBC_DOUBLE_BODY == 7
AFBC_YUV_TRANSFORM == 9
AFBC_SPARSE == 10
AFRC_ROT_LAYOUT == AFBC_SPLITBLK
AFRC_LUMA_SHIFT == 4
AFRC_CHROMA_SHIFT == 6

Invalid == [base |-> UNDEFINED, mods |-> {}]
from_android(base) == [base |-> base, mods |-> {}]

is_afbc(f) == AFBC_BASIC \in f.mods
is_afrc(f) == AFRC_BASIC \in f.mods
is_block_linear(f) == BLOCK_LINEAR_BASIC \in f.mods

\* set_modifier
WithMods(f, bits) == [f EXCEPT !.mods = @ \cup bits]
WithoutMods(f, bits) == [f EXCEPT !.mods = @ \ bits]

\* The two bits of a coding unit size: bytes_16, bytes_24, bytes_32, or the unused pattern.
CodingBits(size, shift) == {shift + i : i \in CASE size = 16 -> {} [] size = 24 -> {0}
                                              [] size = 32 -> {1} [] size = 40 -> {0, 1}}
to_bytes(f, shift) == CHOOSE size \in {16, 24, 32, 40} :
                        f.mods \cap {shift, shift + 1} = CodingBits(size, shift)

afrc_plane_alignment_requirement(size) ==
  CASE size = 16 -> 1024 [] size = 24 -> 512 [] size = 32 -> 2048 [] OTHER -> 0

AfbcTypes == {"AFBC", "AFBC_WIDEBLK", "AFBC_EXTRAWIDEBLK"}

NoType == [type |-> "none"]

AfbcType(info, f, usage) ==
  LET tiled == AFBC_TILED_HEADERS \in f.mods
      wide == AFBC_WIDEBLK \in f.mods
      extra == AFBC_EXTRAWIDEBLK \in f.mods
  IN IF (extra /\ ~tiled) \/ (info.npln = 1 /\ wide /\ extra) THEN NoType
     ELSE [type |-> IF wide THEN "AFBC_WIDEBLK"
                    ELSE IF extra THEN "AFBC_EXTRAWIDEBLK" ELSE "AFBC",
           multi |-> info.npln > 1 /\ (is_yuv(info) => tiled /\ extra),
           tiled |-> tiled,
           padded |-> "PRIVATE_14" \in usage,
           front_safe |-> tiled /\ AFBC_DOUBLE_BODY \in f.mods]

\* cu and align are of the luma and of the chroma planes, clump of each plane.
AfrcType(info, f) ==
  LET cu == <<to_bytes(f, AFRC_LUMA_SHIFT), to_bytes(f, AFRC_CHROMA_SHIFT)>>
      align == <<afrc_plane_alignment_requirement(cu[1]),
                 afrc_plane_alignment_requirement(cu[2])>>
      tile == IF AFRC_ROT_LAYOUT \in f.mods THEN <<8, 8>> ELSE <<16, 4>>
      clump(n) == CASE n = 1 -> tile [] n = 2 -> <<8, 4>> [] n \in {3, 4} -> <<4, 4>>
  IN IF 0 \in {align[1], align[2]} THEN NoType
     ELSE [type |-> "AFRC", multi |-> info.npln > 1, cu |-> cu, align |-> align, tile |-> tile,
           clump |-> [p \in 1..info.npln |-> clump(info.ncmp[p])]]

\* Of a format f whose base format has the properties info.
get_alloc_type(info, f, usage) ==
  IF is_afbc(f) THEN AfbcType(info, f, usage)
  ELSE IF is_afrc(f) THEN AfrcType(info, f)
  ELSE [type |-> IF is_block_linear(f) THEN "BLOCK_LINEAR" ELSE "UNCOMPRESSED",
        multi |-> info.npln > 1]

\* Does the base format allow the allocation that was chosen?
validate_format(info, t, height) ==
  /\ CASE t.type \in AfbcTypes ->
            /\ "afbc" \in info.flags
            /\ t.multi = (info.npln > 1)
            /\ info.npln = 1 => t.type # "AFBC_EXTRAWIDEBLK"
       [] t.type = "AFRC" -> "afrc" \in info.flags
       [] t.type = "BLOCK_LINEAR" -> "block_linear" \in info.flags
       [] OTHER -> "linear" \in info.flags
  /\ info.id = "BLOB" => height = 1

=============================================================================
