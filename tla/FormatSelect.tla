---------------------------- MODULE FormatSelect -----------------------------
(***************************************************************************)
(* The choice of the format to allocate, src/src/core/formats.cpp: who     *)
(* produces and consumes a buffer of some usage, which layouts of a base   *)
(* format all of them support, which modifiers to enable, and how the      *)
(* candidates are graded.  The data type of a format, which no decision    *)
(* reads, is left out.                                                     *)
(*                                                                         *)
(* A request is a record: dir names the processors' configuration, kind    *)
(* tells a HAL format from a private (forced) one, format and mods are     *)
(* what was asked for, usage and flags are sets of names.                  *)
(***************************************************************************)
EXTENDS AllocType, Capabilities

\* What the code takes for granted of its tables: a format has one row in each, planes, a depth
\* that block linear layouts know, and is linear where a processor writes it so.  The last two
\* formats may be given rows of pixels whatever the processors can do.
ASSUME TablesAgree ==
  /\ \A i \in DOMAIN formats :
       LET row == formats[i]
       IN /\ get_format_info[row.id] = row
          /\ row.npln \in Nat \ {0}
          /\ "block_linear" \in row.flags => row.bps \in {8, 10}
          /\ \A ip \in IPs \cup {"CPU"} :
               "LIN" \in get_format_ip_support[row.id].wr[ip] => "linear" \in row.flags
  /\ \A id \in {"BGRA_8888", "RGBA_16161616"} :
       get_format_info[id].id = id /\ "linear" \in get_format_info[id].flags

DescriptorFlags ==
  {"GPU_DATA_BUFFER_WITH_ANY_FORMAT", "USE_AIDL_FRONTBUFFER_USAGE", "SUPPORTS_R8",
   "HWC_FB_DISABLE_AFBC", "HWC_FORCE_BGRA_8888", "SUPPORTS_R16_RG16", "HW_IMP_CAM_USAGE"}

Meets(a, b) == a \cap b # {}

\* A sole HW_COMPOSER makes the DPU consumer and producer.
get_consumers(usage) ==
  LET u == usage \ (VENDOR \cup {"PROTECTED"})
      named == {ip \in IPs \cup {"CPU"} :
                  CASE ip = "CPU" -> "SW_READ" \in u
                    [] ip = "DPU" -> "HW_FB" \in u \/ {"HW_TEXTURE", "HW_COMPOSER"} \subseteq u
                    [] ip = "VPU" -> "HW_VIDEO_ENCODER" \in u
                    [] ip = "GPU" -> Meets(u, {"HW_TEXTURE", "GPU_DATA_BUFFER"})
                    [] ip = "CAM" -> Meets(u, {"HW_CAMERA_READ", "SENSOR_DIRECT_DATA"})
                    [] OTHER -> FALSE}
  IN IF named = {} /\ "HW_COMPOSER" \in u THEN {"DPU"} ELSE named

get_producers(usage) ==
  LET u == usage \ (VENDOR \cup {"PROTECTED"})
  IN IF u = {"HW_COMPOSER"} THEN {"DPU"}
     ELSE {ip \in IPs \cup {"CPU"} :
             CASE ip = "CPU" -> "SW_WRITE" \in u
               [] ip = "DPU" -> "DECODER" \notin u /\ {"HW_COMPOSER", "HW_VIDEO_ENCODER"} \subseteq u
               [] ip = "GPU" -> Meets(u, {"HW_RENDER", "GPU_DATA_BUFFER"})
               [] ip = "CAM" -> "HW_CAMERA_WRITE" \in u
               [] ip = "VPU" -> "DECODER" \in u
               [] OTHER -> FALSE}

gralloc_usage_is_frontbuffer(usage) ==
  "FRONTBUFFER" \in usage \/ ("PRIVATE_0" \in usage /\ "PRIVATE_2" \notin usage)
gralloc_usage_is_no_afbc(usage) == "PRIVATE_1" \in usage /\ "PRIVATE_2" \notin usage

GRALLOC_ALIGN(value, base) == ((value + base - 1) \div base) * base

\* Buffers of the video decoder, 100x100 ones when the GPU renders to them.
need_do_width_height_align(usage, w, h) ==
  /\ "DECODER" \in usage
  /\ "SENSOR_DIRECT_DATA" \in usage \/ ("HW_RENDER" \in usage /\ w = 100 /\ h = 100)

\* The dimensions <<w, h>> after padding for the producers.
mali_gralloc_adjust_dimensions(info, f, usage, w0, h0) ==
  LET producers == get_producers(usage)
      h1 == IF "VPU" \in producers /\ is_afbc(f) /\ is_yuv(info) /\ info.sub = <<2, 2>>
            THEN h0 + (IF AFBC_TILED_HEADERS \in f.mods THEN 16 ELSE 32) ELSE h0
      pad == "GPU" \in producers /\ is_afbc(f)
      w2 == IF pad THEN GRALLOC_ALIGN(w0, 16) ELSE w0
      h2 == IF pad THEN GRALLOC_ALIGN(h1, 16) ELSE h1
      decoder == need_do_width_height_align(usage, w2, h2)
  IN <<IF decoder THEN GRALLOC_ALIGN(w2, 64) ELSE w2,
       IF decoder /\ "PRIVATE_3" \notin usage THEN GRALLOC_ALIGN(h2, 64) ELSE h2>>

\* The layouts that the table gives every producer and consumer; the camera reads anything.
ip_supports_base_format(producers, consumers, format) ==
  {l \in LABR : /\ \A ip \in producers : l \in format.wr[ip]
                /\ \A ip \in consumers \ {"CAM"} : l \in format.rd[ip]}

usage_supports_base_format(usage, layouts) ==
  IF "GPU_DATA_BUFFER" \in usage THEN layouts \cap L ELSE layouts

is_subsampled_yuv(info) == is_yuv(info) /\ (info.sub[1] > 1 \/ info.sub[2] > 1)

\* With no other producer the CPU is taken for one.
Producers(usage) == IF get_producers(usage) = {} THEN {"CPU"} ELSE get_producers(usage)

\* Producers and consumers with the features they support together, without the display, and
\* each on its own: what ip_t::support and support say, which stays the same for the process.
Users(dir, usage) ==
  LET p == Producers(usage)
      c == get_consumers(usage)
      support(producers, consumers) ==
        {feature \in Features : ip_support_feature(dir, producers, consumers, feature)}
  IN [producers |-> p, consumers |-> c, both |-> support(p, c), write |-> support(p, {}),
      read |-> support({}, c), without_dpu |-> support(p, c \ {"DPU"}),
      display |-> present(dir, "DPU")]

\* Mutant: the 64x4 superblocks that the planes are made of are taken for granted.
MultiplaneIfTiled(features) == "AFBC_TILED_HEADERS" \in features

is_afbc_multiplane_supported(features) == {"AFBC_TILED_HEADERS", "AFBC_64X4"} \subseteq features

get_internal_format_with_usage(r) ==
  IF /\ "HW_IMP_CAM_USAGE" \in r.flags /\ r.format = "IMPLEMENTATION_DEFINED"
     /\ Meets(r.usage, {"HW_CAMERA_WRITE", "SENSOR_DIRECT_DATA", "HW_CAMERA_READ"})
  THEN "RG16" ELSE get_internal_format(r.format)

\* The feature that a whole base format needs.
NeededFeature(info) ==
  CASE info.id = "RGBA_1010102" -> {"FORMAT_R10G10B10A2"}
    [] info.id = "RGBA_16161616" -> {"FORMAT_R16G16B16A16_FLOAT"}
    [] info.id = "RGBA_10101010" -> {"FORMAT_R10G10B10A10"}
    [] info.id \in {"RAW16", "RG16"} -> {"FORMAT_RGB16"}
    [] is_depth_stencil_format(info) -> {"FORMAT_DEPTH_STENCIL"}
    [] OTHER -> {}

\* The layouts that the producers p and consumers c, who share the features, can use.
is_format_supported(info, usage, p, c, features) ==
  LET listed == usage_supports_base_format(usage,
                  ip_supports_base_format(p, c, get_format_ip_support[info.id]))
      afbc == /\ "afbc" \in info.flags /\ "AFBC_16X16" \in features
              /\ is_yuv(info) => "AFBC_YUV" \in features
              /\ gralloc_usage_is_frontbuffer(usage) => "AFBC_DOUBLE_BODY" \in features
              /\ info.id = "Y210" => "AFBC_FORMAT_Y210" \in features
      afrc == "afrc" \in info.flags /\ Meets({"AFRC_ROT_LAYOUT", "AFRC_SCAN_LAYOUT"}, features)
      bl == /\ {"block_linear", "is_yuv"} \subseteq info.flags
            /\ info.bps = 8 => "YUV_BL_8" \in features
            /\ info.bps = 10 => "YUV_BL_10" \in features
      able == {l \in listed : (l = "AFBC" => afbc) /\ (l = "AFRC" => afrc) /\ (l = "BL" => bl)}
  IN IF ~(NeededFeature(info) \subseteq features) THEN N
     ELSE IF info.id = "RGBA_16161616" /\ "AFBC_FORMAT_R16G16B16A16_FLOAT" \notin features
          THEN (IF able = N THEN N ELSE L)
     ELSE able

\* Wide and extra-wide blocks do not go with front-buffer-safe formats.
ResolveDoubleBody(f) ==
  IF AFBC_DOUBLE_BODY \in f.mods THEN WithoutMods(f, {AFBC_WIDEBLK, AFBC_EXTRAWIDEBLK}) ELSE f

\* Wide blocks are split, or given up, except of subsampled formats and RGB_565, which are not.
ResolveSplit(info, f, features) ==
  LET wide == AFBC_WIDEBLK \in f.mods
  IN IF info.id = "RGB_565" \/ (wide /\ is_subsampled_yuv(info)) THEN WithoutMods(f, {AFBC_SPLITBLK})
     ELSE IF ~wide \/ AFBC_SPLITBLK \in f.mods THEN f
     ELSE IF "AFBC_BLOCK_SPLIT" \in features THEN WithMods(f, {AFBC_SPLITBLK})
     ELSE WithoutMods(f, {AFBC_WIDEBLK})

BlockFeature ==
  [bit \in {AFBC_SPLITBLK, AFBC_WIDEBLK, AFBC_TILED_HEADERS} |->
     CASE bit = AFBC_SPLITBLK -> "AFBC_BLOCK_SPLIT"
       [] bit = AFBC_WIDEBLK -> "AFBC_32X8"
       [] bit = AFBC_TILED_HEADERS -> "AFBC_TILED_HEADERS"]

MustBeSparse(u) == u.producers = {} \/ "AFBC_WRITE_NON_SPARSE" \notin u.write

\* Modifiers that the AFBC specification or a processor rules out are turned off, split-block
\* and sparse also on; each step sees what the one before it left.
validate_afbc_format(info, f, u) ==
  LET resolved == ResolveSplit(info, ResolveDoubleBody(f), u.both)
      lacking == {bit \in DOMAIN BlockFeature : BlockFeature[bit] \notin u.both}
  IN [base |-> f.base,
      mods |-> (IF is_afbc(f) /\ "AFBC_16X16" \notin u.both THEN {} ELSE resolved.mods \ lacking)
                 \cup (IF MustBeSparse(u) THEN {AFBC_SPARSE} ELSE {})]

\* The coding unit size that the usage asks for, 0 when none.
LumaCodingSize(usage) ==
  CASE usage \cap {"PRIVATE_0", "PRIVATE_1", "PRIVATE_2"} = {"PRIVATE_0", "PRIVATE_2"} -> 16
    [] usage \cap {"PRIVATE_0", "PRIVATE_1", "PRIVATE_2"} = {"PRIVATE_1", "PRIVATE_2"} -> 24
    [] usage \cap {"PRIVATE_0", "PRIVATE_1", "PRIVATE_2"} = {"PRIVATE_2"} -> 32
    [] OTHER -> 0
ChromaCodingSize(usage) ==
  CASE usage \cap {"PRIVATE_11", "PRIVATE_12"} = {"PRIVATE_11"} -> 16
    [] usage \cap {"PRIVATE_11", "PRIVATE_12"} = {"PRIVATE_12"} -> 24
    [] usage \cap {"PRIVATE_11", "PRIVATE_12"} = {"PRIVATE_11", "PRIVATE_12"} -> 32
    [] OTHER -> 0

get_afrc_format(info, usage, features) ==
  LET luma == LumaCodingSize(usage)
      chroma == ChromaCodingSize(usage)
      layout == IF "AFRC_ROT_LAYOUT" \in features THEN {AFRC_ROT_LAYOUT} ELSE {}
      coded == Meets({"AFRC_ROT_LAYOUT", "AFRC_SCAN_LAYOUT"}, features)
               /\ luma # 0 /\ (is_yuv(info) <=> chroma # 0)
  IN IF ~coded THEN from_android(info.id)
     ELSE [base |-> info.id,
           mods |-> {AFRC_BASIC} \cup layout \cup CodingBits(luma, AFRC_LUMA_SHIFT) \cup
                    (IF is_yuv(info) THEN CodingBits(chroma, AFRC_CHROMA_SHIFT) ELSE {})]

\* The modifiers that the processors u could use.
AfbcMods(info, usage, u) ==
  LET tiled == "AFBC_TILED_HEADERS" \in u.both
      toDisplay == "GPU" \in u.producers /\ "DPU" \in u.consumers /\ u.display
      wanted(m) ==
        CASE m = AFBC_BASIC -> TRUE
          [] m = AFBC_YUV_TRANSFORM -> "yuv_transform" \in info.flags
          [] m = AFBC_SPARSE -> MustBeSparse(u)
          [] m = AFBC_TILED_HEADERS -> tiled
          [] m = AFBC_DOUBLE_BODY -> /\ tiled /\ gralloc_usage_is_frontbuffer(usage)
                                     /\ "AFBC_DOUBLE_BODY" \in u.both
          [] m = AFBC_EXTRAWIDEBLK -> /\ tiled /\ info.npln > 1 /\ is_yuv(info)
                                      /\ is_afbc_multiplane_supported(u.both)
          [] m = AFBC_WIDEBLK -> toDisplay /\ "AFBC_32X8" \in u.both /\ ~is_yuv(info)
          [] m = AFBC_SPLITBLK -> /\ toDisplay /\ "AFBC_BLOCK_SPLIT" \in u.both
                                  /\ ~is_yuv(info) /\ is_rgb(info) /\ info.bpp[1] >= 24
  IN {m \in {AFBC_BASIC, AFBC_YUV_TRANSFORM, AFBC_SPARSE, AFBC_TILED_HEADERS, AFBC_DOUBLE_BODY,
             AFBC_EXTRAWIDEBLK, AFBC_WIDEBLK, AFBC_SPLITBLK} : wanted(m)}

get_afbc_format(info, usage, u) ==
  LET avoid == \/ is_yuv(info) /\ "AFBC_YUV" \notin u.read \cap u.write
               \/ "VPU" \in u.producers \cap u.consumers
               \/ "AFBC_16X16" \notin u.both
  IN IF avoid THEN from_android(info.id)
     ELSE validate_afbc_format(info, [base |-> info.id, mods |-> AfbcMods(info, usage, u)], u)

get_bl_format(f, features) ==
  IF Meets({"YUV_BL_8", "YUV_BL_10"}, features) THEN WithMods(f, {BLOCK_LINEAR_BASIC}) ELSE f

\* Mutant: the planes need not be separate.
AnyAfbcType(info, afbcType) == afbcType # NoType

\* The planes of a multi-plane format have to be compressed separately.
UsableAfbcType(info, afbcType) == afbcType # NoType /\ (info.npln = 1 \/ afbcType.multi)

\* The format to allocate for one base format, Invalid when no layout is supported.  A format
\* that the DPU cannot show is composed by the GPU, but the features looked up next are still
\* those of all consumers.
get_supported_format(r, info, u) ==
  LET supported == is_format_supported(info, r.usage, u.producers, u.consumers, u.both)
      fallback == supported = N /\ {"GPU", "DPU"} \subseteq u.consumers
      linear == "HWC_FB_DISABLE_AFBC" \in r.flags /\ "HW_FB" \in r.usage
      layouts == (IF linear THEN L ELSE LABR) \cap
                 (IF fallback
                  THEN is_format_supported(info, r.usage, u.producers, u.consumers \ {"DPU"},
                                           u.without_dpu)
                  ELSE supported)
      afrc == get_afrc_format(info, r.usage, u.both)
      afbc == get_afbc_format(info, r.usage, u)
      bl == get_bl_format(from_android(info.id), u.both)
  IN IF "AFRC" \in layouts /\ is_afrc(afrc) THEN afrc
     ELSE IF /\ "AFBC" \in layouts /\ ~gralloc_usage_is_no_afbc(r.usage) /\ is_afbc(afbc)
             /\ UsableAfbcType(info, get_alloc_type(info, afbc, r.usage))
          THEN afbc
     ELSE IF "BL" \in layouts /\ is_block_linear(bl) THEN bl
     ELSE IF "LIN" \in layouts THEN from_android(info.id) ELSE Invalid

comparable_components(old, new) ==
  LET same == total_components(new) = total_components(old)
  IN CASE is_yuv(old) /\ new.bps = old.bps ->
            \/ same
            \/ /\ "has_alpha" \in old.flags /\ total_components(new) = 3
               /\ is_yuv(new) /\ "has_alpha" \notin new.flags
       [] is_rgb(old) ->
            /\ same
            /\ \/ new.bpp[1] = old.bpp[1] /\ new.bps = old.bps
               \/ old.id \in {"RGBX_8888", "RGB_565"} /\ new.bpp[1] = 24
       [] ~is_yuv(old) /\ ~is_rgb(old) /\ is_depth_stencil_format(old)
            /\ is_depth_stencil_format(new) -> same /\ new.bps = old.bps
       [] OTHER -> new.id = old.id

is_format_compatible(old, new) ==
  /\ new.sub = old.sub /\ is_rgb(new) = is_rgb(old) /\ is_yuv(new) = is_yuv(old)
  /\ comparable_components(old, new)

\* AFRC outweighs everything.  The bits that AFBC and AFRC share count for either.
GradedBits == {AFBC_BASIC, AFRC_BASIC, BLOCK_LINEAR_BASIC, AFBC_SPLITBLK, AFBC_WIDEBLK,
               AFBC_TILED_HEADERS, AFBC_EXTRAWIDEBLK, AFBC_DOUBLE_BODY, AFBC_YUV_TRANSFORM,
               AFBC_SPARSE}

\* Of a format f whose base format has the properties info; 0 when there is none.
grade_format(f, info, req_info) ==
  LET reordered == is_afrc(f) /\ is_same_or_components_reordered(req_info, info)
  IN IF f = Invalid \/ (~is_afrc(f) /\ is_rgb(req_info) /\ req_info.bpp[1] # info.bpp[1]) THEN 0
     ELSE 1 + Cardinality(f.mods \cap GradedBits) + (IF reordered THEN 1 ELSE 0)
            + (IF is_afbc(f) THEN 1 ELSE 0) + (IF is_afrc(f) THEN 2^30 - 1 ELSE 0)

is_format_multiplane_afbc(info, f) ==
  LET both == {AFBC_EXTRAWIDEBLK, AFBC_TILED_HEADERS}
  IN /\ is_afbc(f)
     /\ (is_yuv(info) /\ both \subseteq f.mods) \/ (info.npln > 1 /\ f.mods \cap both = {})

check_modifiers_against_format(info, f) ==
  \/ is_afrc(f) /\ "afrc" \in info.flags
  \/ f.mods = {}
  \/ is_block_linear(f) /\ "block_linear" \in info.flags
  \/ /\ is_afbc(f) /\ "afbc" \in info.flags
     /\ info.npln = (IF is_format_multiplane_afbc(info, f) THEN 2 ELSE 1)

select_forced_format(r) ==
  LET base == get_internal_format(r.format)
      f == [base |-> base, mods |-> r.mods]
  IN IF base # UNDEFINED /\ check_modifiers_against_format(get_format_info[base], f)
     THEN f ELSE Invalid

\* select_best_format looks for a format; it turns the other requests away at once.
Permitted(r, info) ==
  /\ (r.usage \ VENDOR) \subseteq info.permitted
  /\ gralloc_usage_is_no_afbc(r.usage) => ~is_yuv(info)
  /\ "GPU_DATA_BUFFER" \in r.usage =>
       "GPU_DATA_BUFFER_WITH_ANY_FORMAT" \in r.flags \/ info.id = "BLOB"
  /\ "FRONTBUFFER" \in r.usage => "USE_AIDL_FRONTBUFFER_USAGE" \in r.flags
  /\ info.id = "R8" => "SUPPORTS_R8" \in r.flags
  /\ r.format \in {"R16_UINT", "RG16"} => "SUPPORTS_R16_RG16" \in r.flags

Accepted(r) ==
  LET base == get_internal_format_with_usage(r)
  IN base # UNDEFINED /\ Permitted(r, get_format_info[base])

\* What select_best_format makes of the best format f.
ForcedForFramebuffer(r, f) ==
  IF ~("HWC_FORCE_BGRA_8888" \in r.flags /\ "HW_FB" \in r.usage) THEN f
  ELSE IF f.base # "BGRA_8888" /\ Meets(r.usage, SW_USAGE) THEN Invalid
  ELSE from_android("BGRA_8888")

=============================================================================
