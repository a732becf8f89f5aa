--------------------------- MODULE SharedMetadata ---------------------------
(***************************************************************************)
(* The items of a buffer's metadata page, shared by every process that     *)
(* imports the buffer: how a value is laid out in the page, which values   *)
(* are stored, and what is read back.                                      *)
(*                                                                         *)
(* The page of an item is [state, word]: the state of an aligned_optional  *)
(* (0 vacant, 1 occupied) or the size of an aligned_inline_vector, and the *)
(* words of its value.  Items share no word (the asserted offsets), so one *)
(* item of each kind is enough: CTA861_3 stands for SMPTE2086 too,         *)
(* SMPTE2094_40 for SMPTE2094_10, AM_OMX_FLAG for the other AM_OMX items.  *)
(***************************************************************************)
EXTENDS Integers, Sequences

CONSTANTS
    Width,          \* requested width, the width of a crop; height is alike
    AllocWidth,     \* plane_info[0].alloc_width
    Capacity        \* of the vector, in words

ASSUME SharedMetadataAssumption ==
    /\ Width \in Nat \ {0}
    /\ AllocWidth \in Nat
    /\ Width <= AllocWidth
    /\ Capacity \in Nat \ {0}

OneWord     == {"DATASPACE", "CHROMA_SITING", "BLEND_MODE", "AM_OMX_FLAG"}
Settable    == OneWord \union {"CROP", "CTA861_3", "SMPTE2094_40"}
OfTheHandle == {"WIDTH", "PLANE_LAYOUTS"}

\* std::optional of a tuple of words.
None    == [some |-> FALSE, w |-> <<>>]
Some(w) == [some |-> TRUE, w |-> w]

\* Bytes that do not decode, such as an Amlogic value without its header.
Undecodable == [some |-> FALSE, w |-> <<-1>>]

\* Values with a meaning: Dataspace::UNKNOWN, BlendMode::INVALID, a chroma siting of Arm's own.
UNKNOWN       == 0
INVALID       == 0
COSITED_BOTH  == 7

\* Mutant: the item of a vacant optional is not initialised.
VacantGarbage(n) == [state |-> 0, word |-> [i \in 1 .. n |-> 99]]

Vacant(n) == [state |-> 0, word |-> [i \in 1 .. n |-> 0]]
Occupied(x) == [state |-> 1, word |-> <<x>>]

\* What is not in the page is read from the handle, and is as good as an item that never changes.
\* shared_metadata_init: the allocator gives the dataspace and the chroma siting.
InitialPages(item) ==
    CASE item \in {"DATASPACE", "CHROMA_SITING"} -> {Occupied(x) : x \in {UNKNOWN, 1}}
      [] item = "AM_OMX_FLAG"                    -> {Occupied(0)}
      [] item = "BLEND_MODE"                     -> {Vacant(1)}
      [] item \in {"CROP", "CTA861_3"}           -> {Vacant(2)}
      [] item = "SMPTE2094_40"                   -> {Vacant(Capacity)}
      [] item = "WIDTH"                          -> {Occupied(Width)}
      [] item = "PLANE_LAYOUTS"                  -> {Occupied(planes) : planes \in 1 .. 3}

\* What get_metadata answers with when the item is vacant.
Default(item) ==
    CASE item = "BLEND_MODE" -> Some(<<INVALID>>)
      [] item = "CROP"       -> Some(<<0, Width>>)
      [] OTHER               -> None

\* The name of a chroma siting is not stored: it follows from the value.
NameOf(x) == IF x = COSITED_BOTH THEN "arm" ELSE "standard"

\* get_metadata, of an item whose words were read.
Shown(item, p) ==
    IF p.state = 0 THEN Default(item)
    ELSE IF item = "CHROMA_SITING" THEN Some(<<NameOf(p.word[1]), p.word[1]>>)
    ELSE Some(p.word)

\* Mutant: the rectangle is only checked to have the right size.
ValidCropSize(w) == w[1] >= 0 /\ w[2] - w[1] = Width

\* set_crop_rect
ValidCrop(w) ==
    /\ w[1] >= 0
    /\ w[1] <= w[2]
    /\ w[2] <= AllocWidth
    /\ w[2] - w[1] = Width

\* Mutant: an empty vector is stored.
ValidSizeOrEmpty(w) == Len(w) <= Capacity

\* set_smpte2094_40
ValidSize(w) == Len(w) > 0 /\ Len(w) <= Capacity

\* set_metadata refuses a value that it decoded.
Accepted(item, v) ==
    CASE item = "DATASPACE"     -> v.w[1] # UNKNOWN
      [] item = "CHROMA_SITING" -> v.w[1] \in {"standard", "arm"}
      [] item = "CROP"          -> ValidCrop(v.w)
      [] item = "SMPTE2094_40"  -> v.some => ValidSize(v.w)
      [] OTHER                  -> TRUE

\* The words that are stored, in whatever order they reach memory: at 0 the state.
Store(i, x) == [at |-> i, to |-> x]
StoreWords(w) == {Store(i, w[i]) : i \in DOMAIN w}

Stores(item, v) ==
    CASE item = "CHROMA_SITING" -> {Store(0, 1), Store(1, v.w[2])}
      [] item = "AM_OMX_FLAG"   -> StoreWords(v.w)
      [] item = "SMPTE2094_40"  -> {Store(0, Len(v.w))} \union StoreWords(v.w)
      [] ~v.some                -> {Store(0, 0)}
      [] OTHER                  -> {Store(0, 1)} \union StoreWords(v.w)

Stored(p, s) ==
    IF s.at = 0 THEN [state |-> s.to, word |-> p.word]
    ELSE [state |-> p.state, word |-> [p.word EXCEPT ![s.at] = s.to]]

\* The bytes a value takes when it is encoded: none, a bare word, or the header and little, much
\* (the layouts of three planes) or a vector at its full capacity.
Size(item, v) ==
    IF ~v.some THEN 0
    ELSE CASE item = "AM_OMX_FLAG"   -> 4
           [] item = "PLANE_LAYOUTS" -> IF v.w[1] = 3 THEN 560 ELSE 488
           [] item = "SMPTE2094_40"  -> 1345
           [] OTHER                  -> 128

\* What a decoder makes of bytes: it wants the header of the item first, or no bytes at all for
\* an absent one, and leaves what follows the value.
Decoded(bytes) ==
    IF bytes.as = "headed" \/ (bytes.as = "padded" /\ bytes.v.some) THEN bytes.v ELSE Undecodable

\* A value read back is the value that was set: a vector comes back at its full capacity.
Matches(item, read, v) ==
    CASE item = "CHROMA_SITING" -> read.w = <<NameOf(v.w[2]), v.w[2]>>
      [] item = "SMPTE2094_40" /\ v.some ->
            read.some /\ \A i \in DOMAIN v.w : read.w[i] = v.w[i]
      [] OTHER -> read = v
=============================================================================
