----------------------------- MODULE AllocLayout -----------------------------
(***************************************************************************)
(* From a request to the layout of a buffer:                               *)
(* mali_gralloc_derive_format_and_size of src/src/core/                    *)
(* buffer_allocation.cpp, with the search of get_best_format (formats.cpp) *)
(* and the fixed size that mali_gralloc_buffer_allocate gives a            *)
(* framebuffer.  One request is followed from its arrival to the size that *)
(* is asked of the allocator; each candidate format and each plane is a    *)
(* step, since each sees what the earlier ones left.                       *)
(*                                                                         *)
(* An assert that does not hold is recorded and the program goes on, as it *)
(* does in a build without asserts.                                        *)
(***************************************************************************)
EXTENDS FormatSelect

CONSTANTS Requests,       \* the requests to consider, a sequence of sets
          DecoderAligns   \* <<w_align, h_align>> that the video driver may give for a slot

VARIABLES pc,             \* where mali_gralloc_derive_format_and_size stands
          req,            \* the buffer descriptor's request
          req_info,       \* the properties of the requested base format
          users,          \* the producers and consumers, and what they support
          cand,           \* the last base format that get_best_format considered
          best,           \* [grade, format]: first_of_best_formats and best_fmt_grade
          own,            \* [grade, format]: req_format and req_format_grade
          alloc_format,
          info,           \* the properties of its base format
          type,           \* the allocation's type
          dims,           \* <<alloc_width, alloc_height>>
          plane_info,     \* <<[offset, w, h, stride]>> of the planes calculated so far
          size, pixel_stride, pitches,
          broken          \* the asserts that did not hold

search == <<req_info, users, cand, best, own>>
chosen == <<alloc_format, info>>
layout == <<dims, plane_info, size, pixel_stride, pitches, broken>>
vars == <<pc, req, search, chosen, type, layout>>

None == [grade |-> 0, format |-> Invalid]

ASSUME RequestsAreTyped ==
  \A i \in DOMAIN Requests : \A r \in Requests[i] :
    /\ r.dir \in DOMAIN Dirs /\ r.kind \in {"hal", "private"} /\ r.flags \subseteq DescriptorFlags
    /\ r.usage \subseteq STANDARD \cup VENDOR
    /\ {r.width, r.height, r.layers} \subseteq Nat \ {0}

ASSUME DecoderAlignsAreNumbers == DecoderAligns \subseteq Nat \X Nat

\* What the calculation takes for granted of the table's rows.  Rows of pixels end on bytes, with
\* and without the CPU's alignment; only rows of pixels are tiled; subsampled planes divide evenly.
ASSUME RowsAreSound ==
  /\ FormatIds = {formats[i].id : i \in DOMAIN formats} /\ "BGRA_8888" \in FormatIds
  /\ \A i \in DOMAIN formats :
       LET row == formats[i]
       IN /\ row.npln \in 1..3 /\ row.align_w_cpu \in Nat \ {0}
          /\ \A p \in 1..row.npln :
               /\ {row.bpp[p], row.bpp_afbc[p]} \subseteq Nat /\ row.ncmp[p] \in 1..4
               /\ "linear" \in row.flags =>
                    /\ row.bpp[p] > 0 /\ (row.bpp[p] * row.align_w_cpu) % 8 = 0
                    /\ \/ row.bpp[p] % 8 = 0
                       \/ ~is_yuv(row) /\ (row.bpp[p] * row.align[1]) % 8 = 0
          /\ \A d \in {1, 2} :
               /\ row.align[d] \in Nat \ {0}
               /\ is_yuv(row) => row.sub[d] \in {1, 2} /\ row.align[d] % row.sub[d] = 0
          /\ row.tile_size = 1 \/
               /\ row.tile_size = 2 /\ row.npln = 1 /\ row.bpp[1] = 16 /\ row.align_w_cpu = 1
               /\ is_yuv(row) /\ row.flags \cap {"afbc", "afrc", "block_linear"} = {}
          /\ "block_linear" \in row.flags => is_yuv(row)
          /\ row.id = "YV12" =>
               /\ is_yuv(row) /\ row.npln = 3 /\ row.bpp = <<8, 8, 8>>
               /\ row.align_w_cpu = 16 /\ row.sub = <<2, 2>>

Init == /\ pc = "select" /\ \E i \in DOMAIN Requests : req \in Requests[i]
        /\ req_info = << >> /\ users = << >>
        /\ cand = 0 /\ best = None /\ own = None
        /\ alloc_format = Invalid /\ info = << >> /\ type = NoType
        /\ dims = <<req.width, req.height>> /\ plane_info = << >>
        /\ size = 0 /\ pixel_stride = 0 /\ pitches = 0 /\ broken = {}

Cpu == Meets(req.usage, SW_USAGE)

(***************************************************************************)
(* mali_gralloc_select_format                                              *)
(***************************************************************************)
Proceed(f) ==
  /\ alloc_format' = f
  /\ IF alloc_format' = Invalid THEN pc' = "failed" /\ UNCHANGED info
     ELSE pc' = "derive" /\ info' = get_format_info[alloc_format'.base]

SelectForcedFormat ==
  /\ pc = "select" /\ req.kind = "private"
  /\ Proceed(select_forced_format(req))
  /\ UNCHANGED <<req, search, type, layout>>

RefuseRequest ==
  /\ pc = "select" /\ req.kind = "hal" /\ ~Accepted(req)
  /\ Proceed(Invalid)
  /\ UNCHANGED <<req, search, type, layout>>

StartSearch ==
  /\ pc = "select" /\ req.kind = "hal" /\ Accepted(req)
  /\ pc' = "search"
  /\ req_info' = get_format_info[get_internal_format_with_usage(req)]
  /\ users' = Users(req.dir, req.usage)
  /\ UNCHANGED <<req, cand, best, own, chosen, type, layout>>

\* The formats not yet considered that the requested one is compatible with.
Candidates ==
  {i \in DOMAIN formats : i > cand /\ is_format_compatible(req_info, formats[i])}

\* Mutant: a format that is as good replaces the first of the best, one of no grade included.
AsGood(grade, than) == grade >= than

Better(grade, than) == grade > than

\* What is made of the row of a candidate.
Offer(row) ==
  LET f == get_supported_format(req, row, users)
  IN [format |-> f, grade |-> grade_format(f, row, req_info)]

ConsiderCandidate ==
  /\ pc = "search" /\ Candidates # {}
  /\ cand' = Min(Candidates)
  /\ \E offer \in {Offer(formats[cand'])} :
       /\ best' = IF Better(offer.grade, best.grade) THEN offer ELSE best
       /\ own' = IF offer.grade > 0 /\ offer.format.base = req_info.id THEN offer ELSE own
  /\ UNCHANGED <<pc, req, req_info, users, chosen, type, layout>>

MayRemap == "CPU" \notin users.producers \cup users.consumers

ChooseFormat ==
  /\ pc = "search" /\ Candidates = {}
  /\ Proceed(ForcedForFramebuffer(req,
       IF own.grade # best.grade /\ MayRemap THEN best.format
       ELSE own.format))
  /\ UNCHANGED <<req, search, type, layout>>

(***************************************************************************)
(* The rest of mali_gralloc_derive_format_and_size                         *)
(***************************************************************************)
DeriveType ==
  /\ pc = "derive"
  /\ type' = get_alloc_type(info, alloc_format, req.usage)
  /\ pc' = IF type' # NoType /\ validate_format(info, type', req.height)
           THEN "align" ELSE "failed"
  /\ UNCHANGED <<req, search, chosen, layout>>

AlignDimensions ==
  /\ pc = "align"
  /\ \E a \in (IF "USING_SLOT" \in req.usage THEN DecoderAligns ELSE {}) \cup {<<0, 0>>} :
       dims' = IF 0 \notin {a[1], a[2]}
               THEN <<GRALLOC_ALIGN(dims[1], a[1]), GRALLOC_ALIGN(dims[2], a[2])>>
               ELSE mali_gralloc_adjust_dimensions(info, alloc_format, req.usage, dims[1], dims[2])
  /\ pc' = "planes"
  /\ UNCHANGED <<req, search, chosen, type, plane_info, size, pixel_stride, pitches, broken>>

Afbc == type.type \in AfbcTypes

\* Superblocks are 16x16, 32x8 or 64x4; chroma planes of multi-plane YUV always 64x4.
get_afbc_sb_size(plane) ==
  CASE (plane > 1 /\ type.multi /\ is_yuv(info)) \/ type.type = "AFBC_EXTRAWIDEBLK" -> <<64, 4>>
    [] type.type = "AFBC_WIDEBLK" /\ ~(plane > 1 /\ type.multi /\ is_yuv(info)) -> <<32, 8>>
    [] OTHER -> <<16, 16>>

\* What the width and the height of a plane are rounded up to.
PixelAlign(plane) ==
  LET sb == get_afbc_sb_size(plane)
      tile == IF ~type.tiled THEN 1 ELSE IF info.bpp_afbc[plane] > 32 THEN 4 ELSE 8
      padding == IF type.padded /\ ~is_yuv(info) THEN 4 * sb[1] ELSE 0
      rows == IF type.type = "AFBC_WIDEBLK" /\ ~type.tiled THEN 16 ELSE 0
  IN CASE Cpu -> <<info.align_w_cpu, 1>>
       [] ~Cpu /\ Afbc -> <<Max({padding, tile * sb[1]}), Max({rows, tile * sb[2]})>>
       [] ~Cpu /\ type.type = "AFRC" -> <<type.tile[1] * type.clump[plane][1],
                                          type.tile[2] * type.clump[plane][2]>>
       [] ~Cpu /\ type.type = "BLOCK_LINEAR" -> <<16, 16>>
       [] OTHER -> <<1, 1>>

\* Mutant: the samples that a subsampled plane shares at the edge are cut off.
TruncatedPixels(plane) ==
  [d \in {1, 2} |->
     LET plane_samples == IF plane > 1 /\ is_yuv(info) THEN dims[d] \div info.sub[d] ELSE dims[d]
     IN GRALLOC_ALIGN(plane_samples, Max({1, PixelAlign(plane)[d], info.tile_size}))]

get_pixel_w_h(plane) ==
  [d \in {1, 2} |->
     LET samples == GRALLOC_ALIGN(dims[d], info.align[d])
         plane_samples == IF plane > 1 /\ is_yuv(info) THEN samples \div info.sub[d] ELSE samples
     IN GRALLOC_ALIGN(plane_samples, Max({1, PixelAlign(plane)[d], info.tile_size}))]

gcd(a, b) == Max({d \in 1..Max({a, b}) : a % d = 0 /\ b % d = 0})
lcm(a, b) == IF a # 0 /\ b # 0 THEN (a * b) \div gcd(a, b) ELSE Max({a, b})

HwUsage == req.usage \ (VENDOR \cup SW_USAGE \cup {"FRONTBUFFER"}) # {}
hw_align == IF ~HwUsage THEN 0 ELSE IF is_yuv(info) THEN 32 ELSE 64

\* Mutant: the larger of two alignments is taken for a multiple of both.
LargerAlign(plane) == Max({hw_align, IF Cpu THEN (info.bpp[plane] * info.align_w_cpu) \div 8 ELSE 0})

stride_align(plane) == lcm(hw_align, IF Cpu THEN (info.bpp[plane] * info.align_w_cpu) \div 8 ELSE 0)

\* Mutant: YV12 is given strides as any other format.
NoSharedYv12 == FALSE

\* YV12 for both the CPU and others: the chroma stride is half the luma stride.
IsSharedYv12 == info.id = "YV12" /\ HwUsage /\ Cpu

\* Mutant: half of an aligned luma stride is taken for aligned.
HalfOfAligned(plane, stride) ==
  IF plane = 1 THEN GRALLOC_ALIGN(stride, stride_align(plane)) ELSE plane_info[1].stride \div 2

update_yv12_stride(plane, stride) ==
  IF plane = 1 THEN GRALLOC_ALIGN(stride, 2 * stride_align(plane))
  ELSE plane_info[1].stride \div 2

CodingUnit(plane) == IF plane = 1 THEN type.cu[1] ELSE type.cu[2]

\* The height and the width of a 16x16 block of a block linear buffer in the plane.
Block(plane) == IF plane = 1 THEN <<16, 16>> ELSE <<16 \div info.sub[1], 16 \div info.sub[2]>>

paging_tile_byte_stride(plane, w) ==
  (w \div (type.clump[plane][1] * type.tile[1])) * 64 * CodingUnit(plane)

byte_stride(plane, w) ==
  LET bits == w * info.bpp[plane]
      align == stride_align(plane)
      aligned == IF align = 0 THEN bits \div 8
                 ELSE GRALLOC_ALIGN((bits \div 8) * info.tile_size, align) \div info.tile_size
      luma_w == IF plane = 1 THEN w ELSE plane_info[1].w
      block == Block(plane)
  IN CASE type.type = "AFRC" ->
            paging_tile_byte_stride(plane, w) \div (type.tile[2] * type.clump[plane][2])
       [] Afbc -> (w * info.bpp_afbc[plane]) \div 8
       [] type.type = "BLOCK_LINEAR" ->
            ((luma_w \div 16) * ((block[1] * block[2] * info.bpp[plane]) \div 8)) \div block[2]
       [] type.type = "UNCOMPRESSED" ->
            IF IsSharedYv12 THEN update_yv12_stride(plane, aligned) ELSE aligned

\* Mutant: tiled headers are aligned as others.
AlignUntiled(bytes) == GRALLOC_ALIGN(bytes, 1024)

afbc_buffer_align(bytes) == GRALLOC_ALIGN(bytes, IF type.tiled THEN 4096 ELSE 1024)

body_size(plane, w, h, stride) ==
  LET sb == get_afbc_sb_size(plane)
      blocks == ((w * h) \div 256) * GRALLOC_ALIGN((info.bpp_afbc[plane] * sb[1] * sb[2]) \div 8, 128)
      body == IF info.npln > 1 /\ plane <= 2 THEN afbc_buffer_align(blocks) ELSE blocks
      luma_h == IF plane = 1 THEN h ELSE plane_info[1].h
  IN CASE Afbc -> IF type.front_safe THEN body + afbc_buffer_align(body) ELSE body
       [] type.type = "AFRC" ->
            (w \div type.clump[plane][1]) * (h \div type.clump[plane][2]) * CodingUnit(plane)
       [] type.type = "BLOCK_LINEAR" -> stride * Block(plane)[2] * (luma_h \div 16)
       [] type.type = "UNCOMPRESSED" -> stride * h

\* The asserts of calc_allocation_size that do not hold for the plane.
BrokenAsserts(plane, w, stride) ==
  LET block == Block(plane)
      holds ==
        [bytes |-> CASE Afbc -> (w * info.bpp_afbc[plane]) % 8 = 0
                     [] type.type = "AFRC" ->
                          paging_tile_byte_stride(plane, w)
                            % (type.tile[2] * type.clump[plane][2]) = 0
                     [] OTHER -> (w * info.bpp[plane]) % 8 = 0,
         cpu_align |-> type.type = "UNCOMPRESSED" /\ Cpu =>
                         (info.bpp[plane] * info.align_w_cpu) % 8 = 0,
         blocks |-> type.type = "BLOCK_LINEAR" =>
                      ((block[1] * block[2] * info.bpp[plane]) \div 8) % block[2] = 0,
         yv12 |-> type.type = "UNCOMPRESSED" /\ IsSharedYv12 /\ plane > 1 =>
                    stride % stride_align(plane) = 0 /\ stride % 16 = 0,
         zero_bpp |-> plane = 1 => info.bpp[plane] # 0,
         pixel_stride |-> plane = 1 /\ info.bpp[plane] # 0 => (stride * 8) % info.bpp[plane] = 0]
  IN {a \in DOMAIN holds : ~holds[a]}

\* One plane of calc_allocation_size.  With no bits per pixel the pixel stride is a division by
\* zero, which stops the process or, on arm64, gives 0.
CalcPlane ==
  LET plane == Len(plane_info) + 1
      wh == get_pixel_w_h(plane)
      stride == byte_stride(plane, wh[1])
      start == IF type.type = "AFRC"
               THEN GRALLOC_ALIGN(size, type.align[IF plane = 1 THEN 1 ELSE 2]) ELSE size
      header == IF Afbc THEN afbc_buffer_align(((wh[1] * wh[2]) \div 256) * 16) ELSE 0
  IN /\ pc = "planes" /\ plane <= info.npln
     /\ plane_info' = Append(plane_info, [offset |-> start, w |-> wh[1], h |-> wh[2],
                                          stride |-> stride])
     /\ size' = start + body_size(plane, wh[1], wh[2], stride) + header
     /\ broken' = broken \cup BrokenAsserts(plane, wh[1], stride)
     /\ pixel_stride' = IF plane > 1 THEN pixel_stride
                        ELSE IF info.bpp[1] = 0 THEN 0 ELSE (stride * 8) \div info.bpp[1]
     /\ pc' = "planes" \/ (plane = 1 /\ info.bpp[1] = 0 /\ pc' = "crashed")
     /\ UNCHANGED <<req, search, chosen, type, dims, pitches>>

LayerAlign == IF ~Afbc THEN 1 ELSE IF type.tiled THEN 4096 ELSE 128

LayerSize == GRALLOC_ALIGN(size, LayerAlign)

FinishLayout ==
  /\ pc = "planes" /\ Len(plane_info) = info.npln
  /\ size' = IF req.layers > 1 THEN LayerSize * req.layers ELSE size
  /\ pitches' = IF is_afrc(alloc_format) THEN (dims[1] * info.bpp[1]) \div info.bps ELSE 0
  /\ pc' = "derived"
  /\ UNCHANGED <<req, search, chosen, type, dims, plane_info, pixel_stride, broken>>

(***************************************************************************)
(* set_fixed_buffer_size for one display of 1920 x 1080 (gralloc.device.mk)*)
(***************************************************************************)
UsedWidth == 1920
UsedHeight == 1080
TWO_EXT_FB_BUFFER_SIZE_UPPER == 303200

set_fixed_buffer_size ==
  /\ pc = "derived"
  /\ size' = IF /\ "HW_FB" \in req.usage
                /\ req.height <= UsedHeight /\ req.width <= UsedWidth
                /\ size > TWO_EXT_FB_BUFFER_SIZE_UPPER
             THEN (UsedHeight * UsedWidth * 4 * 109) \div 100 ELSE size
  /\ pc' = "done"
  /\ UNCHANGED <<req, search, chosen, type, dims, plane_info, pixel_stride, pitches, broken>>

Next == \/ SelectForcedFormat \/ RefuseRequest \/ StartSearch
        \/ ConsiderCandidate \/ ChooseFormat
        \/ DeriveType \/ AlignDimensions \/ CalcPlane \/ FinishLayout
        \/ set_fixed_buffer_size

Spec == Init /\ [][Next]_vars /\ WF_vars(Next)

-----------------------------------------------------------------------------
(***************************************************************************)
(* Properties                                                              *)
(***************************************************************************)
Searched == users # << >>
CpuTakesPart == Meets(req.usage, {"SW_READ", "SW_WRITE"}) \/ get_producers(req.usage) = {}
ForcedBgra == {"HWC_FORCE_BGRA_8888"} \subseteq req.flags /\ "HW_FB" \in req.usage

\* The candidates of the whole table that may be used, each with its place in the table.
Usable ==
  {o \in {<<i, Offer(formats[i])>> : i \in {j \in DOMAIN formats : is_format_compatible(req_info, formats[j])}} :
     o[2].grade > 0}

IsBestOf(usable, f) ==
  LET grade(o) == o[2].grade
      worse(o, than) == grade(o) < grade(than) \/ (grade(o) = grade(than) /\ o[1] >= than[1])
  IN IF f = Invalid
     THEN \A o \in usable : o[2].format.base # req_info.id /\ CpuTakesPart
     ELSE \E o \in usable :
            /\ o[2].format = f
            /\ IF f.base = req_info.id
               THEN CpuTakesPart \/ \A other \in usable : grade(other) <= grade(o)
               ELSE /\ ~CpuTakesPart
                    /\ \A other \in usable : worse(other, o)
                    /\ \A other \in usable :
                         other[2].format.base = req_info.id => grade(other) < grade(o)

\* get_best_format: the format that comes out of the search is a supported one; it is the
\* requested one unless a better one exists and the CPU has no part, and then it is the first of
\* the best.  Nothing comes out only if there is nothing that may be used.
SelectionIsBest ==
  pc \in {"derive", "failed"} /\ type = NoType /\ cand > 0 /\ Searched /\ ~ForcedBgra =>
    IsBestOf(Usable, alloc_format)

\* The processors' features that the modifiers of f rely on.
UsedFeatures(f) ==
  LET of(bit, feature) == IF bit \in f.mods THEN {feature} ELSE {}
  IN IF is_afbc(f)
     THEN UNION {{"AFBC_16X16"}, IF is_yuv(info) THEN {"AFBC_YUV"} ELSE {},
                 of(AFBC_SPLITBLK, "AFBC_BLOCK_SPLIT"), of(AFBC_WIDEBLK, "AFBC_32X8"),
                 of(AFBC_TILED_HEADERS, "AFBC_TILED_HEADERS"),
                 of(AFBC_EXTRAWIDEBLK, "AFBC_64X4"), of(AFBC_DOUBLE_BODY, "AFBC_DOUBLE_BODY")}
     ELSE IF is_afrc(f)
     THEN {IF AFRC_ROT_LAYOUT \in f.mods THEN "AFRC_ROT_LAYOUT" ELSE "AFRC_SCAN_LAYOUT"}
     ELSE IF is_block_linear(f) THEN {IF info.bps = 8 THEN "YUV_BL_8" ELSE "YUV_BL_10"} ELSE {}

\* ip_t::support of formats.cpp: each producer can write and each consumer can read every feature
\* that the chosen modifiers need, and what no producer can write densely is sparse.  Only a
\* display that leaves the composition to the GPU may lack the feature of a block linear format.
EveryIpHasTheFeatures ==
  Searched /\ alloc_format # Invalid =>
    LET gpuComposes == is_block_linear(alloc_format) /\ "GPU" \in get_consumers(req.usage)
        readers == get_consumers(req.usage) \ (IF gpuComposes THEN {"DPU"} ELSE {})
        writers == Producers(req.usage)
        support(p, c, features) == \A f \in features : ip_support_feature(req.dir, p, c, f)
    IN /\ \A ip \in writers : support({ip}, {}, UsedFeatures(alloc_format))
       /\ \A ip \in readers : support({}, {ip}, UsedFeatures(alloc_format))
       /\ is_afbc(alloc_format) /\ AFBC_SPARSE \notin alloc_format.mods =>
            support(writers, {}, {"AFBC_WRITE_NON_SPARSE"})

\* What the selection returns for a HAL format, get_alloc_type and validate_format accept: a
\* request that gets a format is refused later only for a BLOB of more than one row.
SelectedIsAllocatable ==
  pc = "failed" /\ Searched /\ alloc_format # Invalid =>
    alloc_format.base = "BLOB" /\ req.height # 1

(***************************************************************************)
(* The layout                                                              *)
(***************************************************************************)
DivUp(a, b) == (a + b - 1) \div b

\* The samples of the requested image in a plane, <<columns, rows>>.
Samples(plane) ==
  [d \in {1, 2} |-> DivUp(<<req.width, req.height>>[d],
                          IF plane > 1 /\ is_yuv(info) THEN info.sub[d] ELSE 1)]

\* The least number of bytes that hold the samples of a plane.
Holds(plane) ==
  LET s == Samples(plane)
      pixels == s[1] * s[2]
      body == DivUp(pixels * info.bpp_afbc[plane], 8)
  IN CASE Afbc -> DivUp(pixels, 256) * 16 + (IF type.front_safe THEN 2 ELSE 1) * body
       [] type.type = "AFRC" -> DivUp(s[1], type.clump[plane][1]) *
                                DivUp(s[2], type.clump[plane][2]) * CodingUnit(plane)
       [] OTHER -> DivUp(pixels * info.bpp[plane], 8)

Fits(bytes) ==
  \A p \in DOMAIN plane_info :
    plane_info[p].offset + Holds(p) <=
      (IF p < info.npln THEN plane_info[p + 1].offset ELSE bytes)

\* Only a private format puts the CPU on a compressed buffer; its blocks are then not whole.
CpuOnBlocks == Cpu /\ type.type # "UNCOMPRESSED"

\* calc_allocation_size: each plane of each layer holds the requested image, rounding included,
\* before the next plane or layer starts.
PlanesFit == pc = "derived" /\ ~CpuOnBlocks => Fits(size \div req.layers)

\* Rows are rounded to bytes for the hardware: they are whole pixels only of these sizes.
WholePixels == HwUsage => info.bpp[1] \in {8, 16, 32, 64}

\* The rows of an uncompressed plane hold the requested width, start where the hardware and
\* the CPU want them, and the pixel stride counts whole pixels of the luma row where they can be counted.
RowsFit ==
  pc = "derived" /\ type.type = "UNCOMPRESSED" =>
    /\ \A p \in DOMAIN plane_info :
         /\ plane_info[p].stride * 8 >= Samples(p)[1] * info.bpp[p]
         /\ plane_info[p].h >= Samples(p)[2]
         /\ HwUsage /\ info.tile_size = 1 => plane_info[p].stride % hw_align = 0
         /\ Cpu => plane_info[p].stride % ((info.bpp[p] * info.align_w_cpu) \div 8) = 0
    /\ pixel_stride >= req.width
    /\ WholePixels => pixel_stride * info.bpp[1] = plane_info[1].stride * 8

\* A YV12 buffer that the CPU uses has the layout Android fixes for it: both chroma planes have
\* the stride ALIGN(stride/2, 16) and follow the luma plane with no gap.
Yv12Layout ==
  pc = "derived" /\ info.id = "YV12" /\ type.type = "UNCOMPRESSED" /\ Cpu =>
    LET luma == plane_info[1]
        c_stride == GRALLOC_ALIGN(luma.stride \div 2, 16)
    IN /\ luma.stride % 16 = 0
       /\ \A p \in {2, 3} : plane_info[p].stride = c_stride
       /\ plane_info[2].offset = luma.stride * luma.h
       /\ plane_info[3].offset = plane_info[2].offset + c_stride * plane_info[2].h

\* What the start of a plane has to be a multiple of.
StartAlign(plane) ==
  CASE Afbc -> IF type.tiled THEN 4096 ELSE 128
    [] type.type = "AFRC" -> afrc_plane_alignment_requirement(CodingUnit(plane))
    [] type.type = "UNCOMPRESSED" -> Max({1, hw_align})
    [] OTHER -> 1

\* "Each layer of a multi-layer buffer must be aligned so that it is accessible by both producer
\* and consumer": planes start aligned in every layer, in AFRC buffers with 24-byte units
\* only in the first one.
LayersAligned ==
  pc = "derived" /\ ~CpuOnBlocks /\ info.tile_size = 1 =>
    \A p \in DOMAIN plane_info, layer \in 0..(req.layers - 1) :
      layer = 0 \/ type.type # "AFRC" =>
        (layer * (size \div req.layers) + plane_info[p].offset) % StartAlign(p) = 0

\* The asserts of calc_allocation_size: they hold but for the pixel stride of compressed buffers
\* and of pixels of 12, 24 or 40 bits in rows rounded for the hardware, and for compressed
\* formats with no bits per pixel.
AssertsHold ==
  /\ "pixel_stride" \in broken =>
       type.type # "UNCOMPRESSED" \/ ~WholePixels
  /\ "zero_bpp" \in broken => info.bpp[1] = 0 /\ type.type # "UNCOMPRESSED"
  /\ broken \subseteq {"pixel_stride", "zero_bpp"} \/ CpuOnBlocks

\* size is the "total calculated buffer size including all planes", also of a framebuffer.
FramebufferHoldsPlanes == pc = "done" => Fits(size \div req.layers)

=============================================================================
