----------------------------- MODULE FormatTable -----------------------------
(***************************************************************************)
(* The tables of src/src/core/format_info.cpp: the properties of every     *)
(* base format, what each processor can do with it, and the HAL formats    *)
(* that map to another internal one, with the functions that read them.    *)
(*                                                                         *)
(* A format is its internal name; a HAL format of the same number has the  *)
(* same name, and so have HAL_YV12, HAL_Y8 and HAL_Y16, whose numbers the  *)
(* code renumbers.  The Boolean members of format_info_t are the set       *)
(* flags, permitted_usage is the set of usage names, and the members of    *)
(* format_ip_support_t are sets of the layouts LIN, AFBC, AFRC and BL.     *)
(***************************************************************************)
EXTENDS Integers, SequencesExt

SW_USAGE == {"SW_READ", "SW_WRITE"}

\* STANDARD_USAGE: the usages most formats permit.
STANDARD == SW_USAGE \cup
  {"HW_TEXTURE", "HW_RENDER", "HW_2D", "HW_COMPOSER", "HW_FB", "EXTERNAL_DISP", "PROTECTED",
   "CURSOR", "HW_VIDEO_ENCODER", "HW_CAMERA_WRITE", "HW_CAMERA_READ", "RENDERSCRIPT",
   "DECODER", "SENSOR_DIRECT_DATA", "GPU_DATA_BUFFER", "FRONTBUFFER"}

\* VENDOR_USAGE: the bits 28 to 31 and 48 to 63, here the ones the code reads.
VENDOR == {"PRIVATE_0", "PRIVATE_1", "PRIVATE_2", "PRIVATE_3", "PRIVATE_11", "PRIVATE_12",
           "PRIVATE_14", "USING_SLOT"}

\* add_universal_usages: the usages every format permits.
UNIVERSAL == SW_USAGE \cup {"PROTECTED"}

\* A row of formats[]: components, bits and bits per pixel of each plane, subsampling and
\* alignment as <<horizontal, vertical>>, the CPU's alignment, the linear tile, the flags.
Fmt(id, ncmp, bps, bpp_afbc, bpp, sub, align, align_w_cpu, tile_size, flags, permitted) ==
  [id |-> id, npln |-> Len(ncmp), ncmp |-> ncmp, bps |-> bps, bpp_afbc |-> bpp_afbc,
   bpp |-> bpp, sub |-> sub, align |-> align, align_w_cpu |-> align_w_cpu,
   tile_size |-> tile_size, flags |-> flags, permitted |-> permitted \cup UNIVERSAL]

formats_rgb == <<
  Fmt("RGB_565", <<3>>, 6, <<16>>, <<16>>, <<0, 0>>, <<1, 1>>, 1, 1,
      {"is_rgb", "afbc", "linear", "yuv_transform"}, STANDARD),
  Fmt("RGB_888", <<3>>, 8, <<24>>, <<24>>, <<0, 0>>, <<1, 1>>, 1, 1,
      {"is_rgb", "afbc", "linear", "yuv_transform", "flex", "afrc"}, STANDARD),
  Fmt("RGBA_8888", <<4>>, 8, <<32>>, <<32>>, <<0, 0>>, <<1, 1>>, 1, 1,
      {"has_alpha", "is_rgb", "afbc", "linear", "yuv_transform", "flex", "afrc"}, STANDARD),
  Fmt("BGRA_8888", <<4>>, 8, <<32>>, <<32>>, <<0, 0>>, <<1, 1>>, 1, 1,
      {"has_alpha", "is_rgb", "afbc", "linear", "flex"}, STANDARD),
  Fmt("RGBX_8888", <<3>>, 8, <<32>>, <<32>>, <<0, 0>>, <<1, 1>>, 1, 1,
      {"is_rgb", "afbc", "linear", "yuv_transform", "flex"}, STANDARD),
  Fmt("RGBA_1010102", <<4>>, 10, <<32>>, <<32>>, <<0, 0>>, <<1, 1>>, 1, 1,
      {"has_alpha", "is_rgb", "afbc", "linear", "yuv_transform"}, STANDARD),
  Fmt("RGBA_16161616", <<4>>, 16, <<64>>, <<64>>, <<0, 0>>, <<1, 1>>, 1, 1,
      {"has_alpha", "is_rgb", "afbc", "linear", "yuv_transform", "flex"}, STANDARD),
  Fmt("RGBA_10101010", <<4>>, 10, <<40>>, <<64>>, <<0, 0>>, <<1, 1>>, 1, 1,
      {"has_alpha", "is_rgb", "afbc", "linear", "yuv_transform", "afrc"},
      STANDARD \ {"HW_COMPOSER"}) >>

formats_yuv_8 == <<
  Fmt("Y8", <<1>>, 8, <<8>>, <<8>>, <<1, 1>>, <<2, 2>>, 16, 1,
      {"is_yuv", "afbc", "linear", "flex", "afrc"},
      {"HW_CAMERA_WRITE", "HW_CAMERA_READ", "HW_TEXTURE", "HW_RENDER"}),
  Fmt("Y16", <<1>>, 16, <<16>>, <<16>>, <<1, 1>>, <<2, 2>>, 16, 1,
      {"is_yuv", "afbc", "linear", "flex"},
      {"HW_CAMERA_WRITE", "HW_CAMERA_READ", "HW_TEXTURE", "HW_RENDER"}),
  Fmt("YUV420_8BIT_I", <<3>>, 8, <<12>>, <<0>>, <<2, 2>>, <<2, 2>>, 1, 1,
      {"is_yuv", "afbc"}, STANDARD),
  Fmt("RG16", <<2>>, 16, <<32>>, <<32>>, <<0, 0>>, <<1, 1>>, 1, 1,
      {"is_rgb", "afbc", "linear", "flex"}, STANDARD),
  Fmt("NV12", <<1, 2>>, 8, <<8, 16>>, <<8, 16>>, <<2, 2>>, <<2, 2>>, 1, 1,
      {"is_yuv", "afbc", "linear", "flex", "block_linear", "afrc"}, STANDARD),
  Fmt("NV21", <<1, 2>>, 8, <<8, 16>>, <<8, 16>>, <<2, 2>>, <<2, 2>>, 1, 1,
      {"is_yuv", "afbc", "linear", "flex", "afrc"}, STANDARD),
  Fmt("YV12", <<1, 1, 1>>, 8, <<8, 8, 8>>, <<8, 8, 8>>, <<2, 2>>, <<2, 2>>, 16, 1,
      {"is_yuv", "afbc", "linear", "flex"},
      {"HW_CAMERA_WRITE", "HW_CAMERA_READ", "HW_TEXTURE", "HW_RENDER", "HW_COMPOSER", "HW_FB", "HW_VIDEO_ENCODER", "DECODER", "EXTERNAL_DISP", "FRONTBUFFER"}),
  Fmt("YU12", <<1, 1, 1>>, 8, <<0, 0, 0>>, <<8, 8, 8>>, <<2, 2>>, <<2, 2>>, 16, 1,
      {"is_yuv", "linear", "flex", "afrc"}, STANDARD) >>

formats_yuv_8_dense == <<
  Fmt("YUV422_8BIT", <<3>>, 8, <<16>>, <<16>>, <<2, 1>>, <<2, 1>>, 1, 1,
      {"is_yuv", "afbc", "linear", "flex"}, STANDARD),
  Fmt("NV16", <<1, 2>>, 8, <<8, 16>>, <<8, 16>>, <<2, 1>>, <<2, 1>>, 1, 1,
      {"is_yuv", "afbc", "linear", "flex", "block_linear", "afrc"}, STANDARD),
  Fmt("YUV444", <<1, 1, 1>>, 8, <<0, 0, 0>>, <<0, 0, 0>>, <<1, 1>>, <<1, 1>>, 1, 1,
      {"is_yuv", "afrc"}, STANDARD),
  Fmt("Q410", <<1, 1, 1>>, 10, <<0, 0, 0>>, <<0, 0, 0>>, <<1, 1>>, <<1, 1>>, 1, 1,
      {"is_yuv", "afrc"}, STANDARD),
  Fmt("Q401", <<1, 1, 1>>, 10, <<0, 0, 0>>, <<0, 0, 0>>, <<1, 1>>, <<1, 1>>, 1, 1,
      {"is_yuv", "afrc"}, STANDARD) >>

formats_yuv_10 == <<
  Fmt("YUV420_10BIT_I", <<3>>, 10, <<15>>, <<0>>, <<2, 2>>, <<2, 2>>, 1, 1,
      {"is_yuv", "afbc"}, STANDARD),
  Fmt("Y0L2", <<4>>, 10, <<0>>, <<16>>, <<2, 2>>, <<2, 2>>, 1, 2,
      {"has_alpha", "is_yuv", "linear"}, STANDARD),
  Fmt("P010", <<1, 2>>, 10, <<10, 20>>, <<16, 32>>, <<2, 2>>, <<2, 2>>, 1, 1,
      {"is_yuv", "afbc", "linear", "flex", "block_linear", "afrc"}, STANDARD),
  Fmt("NV15", <<1, 2>>, 10, <<0, 0>>, <<10, 20>>, <<2, 2>>, <<2, 2>>, 1, 1,
      {"is_yuv", "block_linear"}, STANDARD),
  Fmt("Y210", <<3>>, 10, <<20>>, <<32>>, <<2, 1>>, <<2, 1>>, 1, 1,
      {"is_yuv", "afbc", "linear", "flex"}, STANDARD),
  Fmt("P210", <<1, 2>>, 10, <<10, 20>>, <<16, 32>>, <<2, 1>>, <<2, 1>>, 1, 1,
      {"is_yuv", "afbc", "linear", "flex", "afrc"}, STANDARD),
  Fmt("Y410", <<4>>, 10, <<0>>, <<32>>, <<1, 1>>, <<1, 1>>, 1, 1,
      {"has_alpha", "is_yuv", "linear"}, STANDARD) >>

formats_other == <<
  Fmt("RAW16", <<1>>, 16, <<16>>, <<16>>, <<0, 0>>, <<2, 2>>, 16, 1, {"afbc", "linear"}, STANDARD),
  Fmt("RAW12", <<1>>, 12, <<0>>, <<12>>, <<0, 0>>, <<4, 2>>, 4, 1,
      {"linear"}, {"HW_CAMERA_WRITE", "HW_CAMERA_READ", "RENDERSCRIPT", "HW_TEXTURE", "HW_RENDER"}),
  Fmt("RAW10", <<1>>, 10, <<0>>, <<10>>, <<0, 0>>, <<4, 2>>, 4, 1,
      {"linear"}, {"HW_CAMERA_WRITE", "HW_CAMERA_READ", "RENDERSCRIPT", "HW_TEXTURE", "HW_RENDER"}),
  Fmt("BLOB", <<1>>, 8, <<0>>, <<8>>, <<0, 0>>, <<1, 1>>, 1, 1, {"linear"}, STANDARD),
  Fmt("DEPTH_16", <<1>>, 16, <<16>>, <<16>>, <<0, 0>>, <<1, 1>>, 1, 1, {"afbc", "linear"}, STANDARD),
  Fmt("DEPTH_24", <<1>>, 24, <<0>>, <<24>>, <<0, 0>>, <<1, 1>>, 1, 1, {"linear"}, STANDARD),
  Fmt("DEPTH_24_STENCIL_8", <<2>>, 24, <<0>>, <<32>>, <<0, 0>>, <<1, 1>>, 1, 1, {"linear"}, STANDARD),
  Fmt("DEPTH_24_STENCIL_8_AFBC", <<1, 1>>, 24, <<24, 8>>, <<0, 0>>, <<0, 0>>, <<1, 1>>, 1, 1,
      {"afbc"}, STANDARD),
  Fmt("DEPTH_32F", <<1>>, 32, <<32>>, <<32>>, <<0, 0>>, <<1, 1>>, 1, 1, {"afbc", "linear"}, STANDARD),
  Fmt("DEPTH_32F_STENCIL_8", <<2>>, 32, <<0>>, <<40>>, <<0, 0>>, <<1, 1>>, 1, 1, {"linear"}, STANDARD),
  Fmt("STENCIL_8", <<1>>, 8, <<0>>, <<8>>, <<0, 0>>, <<1, 1>>, 1, 1, {"linear"}, STANDARD),
  Fmt("R8", <<1>>, 8, <<0>>, <<8>>, <<0, 0>>, <<1, 1>>, 1, 1,
      {"is_rgb", "linear"}, {"HW_TEXTURE", "HW_RENDER"}),
  Fmt("YUV444_8BIT_I", <<3>>, 8, <<0>>, <<24>>, <<1, 1>>, <<1, 1>>, 1, 1,
      {"is_yuv", "linear"}, STANDARD) >>

\* The table, in the order in which get_best_format walks it.
formats == formats_rgb \o formats_yuv_8 \o formats_yuv_8_dense \o
           formats_yuv_10 \o formats_other

\* Every format has one row.
ASSUME RowsDiffer ==
  /\ DOMAIN formats \subseteq Nat \ {0}
  /\ \A i, j \in DOMAIN formats : formats[i].id = formats[j].id => i = j

\* Sets of layouts: linear (L), AFBC (A), block linear (B), AFRC (R).
N == {}
L == {"LIN"}
A == {"AFBC"}
B == {"BL"}
R == {"AFRC"}
LA == L \cup A
LR == L \cup R
LB == L \cup B
AB == A \cup B
LAB == LA \cup B
LAR == LA \cup R
LBR == LB \cup R
LABR == LAB \cup R

\* A row of formats_ip_support[].
Ip(id, cpu_rd, cpu_wr, gpu_rd, gpu_wr, dpu_rd, dpu_wr, dpu_aeu_wr, vpu_rd, vpu_wr, cam_wr) ==
  [id |-> id,
   rd |-> [CPU |-> cpu_rd, GPU |-> gpu_rd, DPU |-> dpu_rd, VPU |-> vpu_rd],
   wr |-> [CPU |-> cpu_wr, GPU |-> gpu_wr, DPU |-> dpu_wr, DPU_AEU |-> dpu_aeu_wr,
           VPU |-> vpu_wr, CAM |-> cam_wr]]

ip_support_rgb == <<
  Ip("RGB_565", L, L, LA, LA, LA, N, A, N, N, N),
  Ip("RGB_888", L, L, LAR, LAR, LAR, L, A, N, N, N),
  Ip("RGBA_8888", L, L, LAR, LAR, LAR, L, A, L, N, N),
  Ip("BGRA_8888", L, L, L, L, L, L, N, L, N, N),
  Ip("RGBX_8888", L, L, LA, LA, LA, L, N, N, N, N),
  Ip("RGBA_1010102", L, L, LA, LA, LA, L, A, L, L, N),
  Ip("RGBA_16161616", L, L, LA, LA, N, N, N, N, N, LA),
  Ip("RGBA_10101010", L, L, LAR, LAR, N, N, N, N, N, N) >>

ip_support_yuv_8 == <<
  Ip("Y8", L, L, N, N, N, N, N, N, N, N),
  Ip("Y16", L, L, N, N, N, N, N, N, N, N),
  Ip("YUV420_8BIT_I", N, N, A, A, A, N, A, A, A, N),
  Ip("RG16", L, L, LA, LA, LA, N, N, N, N, LA),
  Ip("NV12", L, L, LABR, LBR, LR, L, N, L, LAB, L),
  Ip("NV21", L, L, LR, LR, LR, L, N, L, L, L),
  Ip("YV12", L, L, LR, LR, LR, N, N, L, L, L),
  Ip("YU12", L, L, LR, LR, LR, N, N, L, L, N) >>

ip_support_yuv_8_dense == <<
  Ip("YUV422_8BIT", L, L, LA, LA, LA, N, A, N, N, N),
  Ip("NV16", L, L, LABR, LBR, R, N, N, N, AB, N),
  Ip("YUV444", N, N, R, R, R, N, N, N, N, N),
  Ip("Q410", N, N, R, R, R, N, N, N, N, N),
  Ip("Q401", N, N, R, R, R, N, N, N, N, N) >>

ip_support_yuv_10 == <<
  Ip("YUV420_10BIT_I", N, N, A, A, A, N, A, A, A, N),
  Ip("Y0L2", L, L, L, L, L, N, N, L, L, N),
  Ip("P010", L, L, LBR, LBR, LR, N, N, L, LB, N),
  Ip("NV15", N, N, B, N, N, N, N, N, B, N),
  Ip("Y210", L, L, LA, LA, N, N, N, N, N, N),
  Ip("P210", L, L, LR, LR, R, N, N, N, N, N),
  Ip("Y410", L, L, L, LA, N, N, N, N, N, N) >>

ip_support_other == <<
  Ip("RAW16", L, L, LA, LA, LA, N, N, N, N, LA),
  Ip("RAW12", L, L, N, N, N, N, N, N, N, N),
  Ip("RAW10", L, L, N, N, N, N, N, N, N, N),
  Ip("BLOB", L, L, L, L, N, N, N, N, N, L),
  Ip("DEPTH_16", L, L, N, N, N, N, N, N, N, N),
  Ip("DEPTH_24", L, L, N, N, N, N, N, N, N, N),
  Ip("DEPTH_24_STENCIL_8", L, L, N, N, N, N, N, N, N, N),
  Ip("DEPTH_24_STENCIL_8_AFBC", N, N, A, A, N, N, N, N, N, N),
  Ip("DEPTH_32F", L, L, LA, LA, N, N, N, A, A, N),
  Ip("DEPTH_32F_STENCIL_8", L, L, N, N, N, N, N, N, N, N),
  Ip("STENCIL_8", L, L, N, N, N, N, N, N, N, N),
  Ip("R8", L, L, L, L, N, N, N, N, N, N),
  Ip("YUV444_8BIT_I", L, L, L, L, L, L, L, L, L, L) >>

formats_ip_support == ip_support_rgb \o ip_support_yuv_8 \o ip_support_yuv_8_dense \o
                      ip_support_yuv_10 \o ip_support_other

\* The rows of a table by their formats.
ById(table) == FoldLeft(LAMBDA found, row : found @@ (row.id :> row), << >>, table)

\* Of a format of FormatIds; get_format_info returns null for any other.
get_format_info == ById(formats)
get_format_ip_support == ById(formats_ip_support)

UNDEFINED == "UNDEFINED"
FormatIds == DOMAIN get_format_info

\* hal_to_internal_format, but for the formats that keep their name.
hal_to_internal_format ==
  [YCrCb_420_SP |-> "NV21", YCbCr_422_I |-> "YUV422_8BIT", IMPLEMENTATION_DEFINED |-> "NV12",
   YCbCr_420_888 |-> "NV12", RAW_OPAQUE |-> UNDEFINED, YCbCr_422_888 |-> "YUV422_8BIT",
   YCbCr_444_888 |-> "YUV444_8BIT_I", FLEX_RGB_888 |-> UNDEFINED,
   FLEX_RGBA_8888 |-> UNDEFINED, YCBCR_P010 |-> "P010", R16_UINT |-> "RAW16"]

\* A format neither table knows is UNDEFINED.
get_internal_format(base_format) ==
  LET f == IF base_format \in DOMAIN hal_to_internal_format
           THEN hal_to_internal_format[base_format] ELSE base_format
  IN IF f \in FormatIds THEN f ELSE UNDEFINED

is_yuv(info) == "is_yuv" \in info.flags
is_rgb(info) == "is_rgb" \in info.flags

total_components(info) == FoldLeft(LAMBDA a, b : a + b, 0, info.ncmp)

is_depth_stencil_format(info) ==
  info.id \in {"DEPTH_16", "DEPTH_24", "DEPTH_32F", "DEPTH_32F_STENCIL_8",
               "DEPTH_24_STENCIL_8_AFBC", "DEPTH_24_STENCIL_8", "STENCIL_8"}

\* Formats that differ at most in the order of their components.
is_same_or_components_reordered(x, y) ==
  /\ x.npln = y.npln /\ total_components(x) = total_components(y)
  /\ x.bps = y.bps /\ is_yuv(x) = is_yuv(y) /\ x.sub = y.sub

=============================================================================
