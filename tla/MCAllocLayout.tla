---------------------------- MODULE MCAllocLayout ----------------------------
(* Instances of AllocLayout for TLC.                                       *)
EXTENDS AllocLayout

File(ip, features) == [xml |-> TRUE, parses |-> TRUE, ips |-> <<[ip |-> ip, features |-> features]>>]

Rgba10(permission) == <<"FORMAT_R10G10B10A2", permission>>
GpuFeatures ==
  <<Rgba10("RW"), <<"FORMAT_R16G16B16A16_FLOAT", "RW">>, <<"AFBC_16X16", "RW">>,
    <<"AFBC_32X8", "RW">>, <<"AFBC_BLOCK_SPLIT", "RW">>, <<"YUV_BL_8", "RO">>>>
DpuFeatures ==
  <<<<"AFBC_16X16", "RO">>, <<"AFBC_32X8", "RO">>, <<"AFBC_BLOCK_SPLIT", "RO">>>>
Afrc == <<<<"AFRC_SCAN_LAYOUT", "RW">>>>
All(permission) ==
  FoldSet(LAMBDA f, s : Append(s, <<f, permission>>), << >>, Features \ {"DISABLED"})

\* The configurations of the repository (gpu.xml, dpu.xml, ... and vale/), one of processors
\* that can do everything, and one without 64x4 blocks whose display is described after a file
\* that does not parse.
MCDirs ==
  [shipped |-> <<File("DPU", <<Rgba10("RW")>> \o DpuFeatures), File("GPU", GpuFeatures),
                 File("VPU", <<Rgba10("RW")>>), File("CAM", <<Rgba10("RW")>>)>>,
   vale |-> <<File("DPU", DpuFeatures \o Afrc), File("GPU", GpuFeatures \o Afrc),
              File("VPU", << >>), File("CAM", << >>)>>,
   full |-> <<File("GPU", All("RW")), File("DPU", All("RO")), File("VPU", All("RW"))>>,
   cut |-> <<File("GPU", GpuFeatures \o <<<<"AFBC_YUV", "RW">>, <<"AFBC_TILED_HEADERS", "RW">>>>), [xml |-> TRUE, parses |-> FALSE, ips |-> << >>],
             File("DPU", DpuFeatures)>>]

Gpu == {"HW_RENDER", "HW_TEXTURE"}
Usages ==
  {SW_USAGE, {"HW_TEXTURE"}, {"PROTECTED"}, Gpu, Gpu \cup {"HW_COMPOSER"}, {"HW_COMPOSER"},
   {"HW_FB", "HW_RENDER", "HW_COMPOSER"}, {"HW_FB", "SW_WRITE"}, {"HW_FB"} \cup Gpu,
   {"DECODER", "HW_TEXTURE", "HW_COMPOSER"}, {"HW_CAMERA_WRITE", "HW_VIDEO_ENCODER"},
   {"HW_COMPOSER", "HW_VIDEO_ENCODER"}, {"DECODER", "HW_VIDEO_ENCODER"}, {"GPU_DATA_BUFFER"},
   Gpu \cup {"FRONTBUFFER", "HW_COMPOSER"}, Gpu \cup {"PRIVATE_0"}, Gpu \cup {"PRIVATE_1"},
   Gpu \cup {"PRIVATE_2", "HW_COMPOSER"}, Gpu \cup {"PRIVATE_2", "PRIVATE_1", "PRIVATE_11"},
   Gpu \cup {"PRIVATE_2", "PRIVATE_0", "PRIVATE_12"}, Gpu \cup {"PRIVATE_14", "PROTECTED"},
   SW_USAGE \cup Gpu, {"SW_READ", "HW_CAMERA_WRITE"}}

Aidl == {"GPU_DATA_BUFFER_WITH_ANY_FORMAT", "USE_AIDL_FRONTBUFFER_USAGE", "SUPPORTS_R8",
         "SUPPORTS_R16_RG16"}
Flags == {{}, Aidl, Aidl \cup {"HWC_FB_DISABLE_AFBC", "HW_IMP_CAM_USAGE"},
          Aidl \cup {"HWC_FORCE_BGRA_8888"}}

HalFormats == FormatIds \cup DOMAIN hal_to_internal_format

Request(dir, kind, format, mods, usage, flags, w, h, layers) ==
  [dir |-> dir, kind |-> kind, format |-> format, mods |-> mods, usage |-> usage,
   flags |-> flags, width |-> w, height |-> h, layers |-> layers]

\* Every format, usage and configuration, of one size.
SelectRequests ==
  {Request(dir, "hal", format, {}, usage, flags, 1280, 720, 1) :
     dir \in DOMAIN MCDirs, format \in HalFormats, usage \in Usages, flags \in Flags}

\* Forced formats, as GRALLOC_PRIVATE_FORMAT_WRAPPER makes them.
ForcedMods ==
  {{}, {AFBC_BASIC}, {AFBC_BASIC, AFBC_SPARSE, AFBC_WIDEBLK, AFBC_SPLITBLK},
   {AFBC_BASIC, AFBC_TILED_HEADERS, AFBC_DOUBLE_BODY, AFBC_YUV_TRANSFORM},
   {AFBC_BASIC, AFBC_TILED_HEADERS, AFBC_EXTRAWIDEBLK}, {AFBC_BASIC, AFBC_EXTRAWIDEBLK},
   {BLOCK_LINEAR_BASIC}, {AFRC_BASIC}, {AFRC_BASIC, AFRC_ROT_LAYOUT, AFRC_LUMA_SHIFT + 1},
   {AFRC_BASIC, AFRC_LUMA_SHIFT, AFRC_LUMA_SHIFT + 1}}

Sizes == {<<1, 1>>, <<33, 18>>, <<100, 100>>, <<1920, 1080>>}

\* Fewer usages, more sizes and layers; decoder slots; forced formats.
LayoutUsages ==
  {SW_USAGE, Gpu, SW_USAGE \cup Gpu, {"HW_CAMERA_WRITE", "HW_VIDEO_ENCODER"},
   {"DECODER", "HW_RENDER", "USING_SLOT"}, {"DECODER", "SENSOR_DIRECT_DATA", "PRIVATE_3"},
   Gpu \cup {"PRIVATE_2", "PRIVATE_1", "PRIVATE_11"}, Gpu \cup {"PRIVATE_2", "PRIVATE_1"},
   Gpu \cup {"PRIVATE_14"}, Gpu \cup {"FRONTBUFFER"}}

LayoutRequests ==
  {Request(dir, "hal", format, {}, usage, Aidl, size_[1], size_[2], layers) :
     dir \in {"shipped", "vale", "full"}, format \in HalFormats, usage \in LayoutUsages,
     size_ \in Sizes, layers \in {1, 3}}

ForcedRequests ==
  {Request("shipped", "private", format, mods, usage, {}, size_[1], size_[2], 1) :
     format \in FormatIds \cup {"YCbCr_420_888", "RAW_OPAQUE"}, mods \in ForcedMods,
     usage \in {SW_USAGE, Gpu}, size_ \in Sizes}

AllRequests == <<SelectRequests, LayoutRequests, ForcedRequests>>

MCDecoderAligns == {<<32, 16>>, <<64, 64>>, <<64, 0>>}

\* Framebuffers, among them one of 64-bit pixels and one of three layers.
FramebufferRequests ==
  <<{Request("shipped", "hal", format, {}, usage, {}, size_[1], size_[2], layers) :
     format \in {"RGBA_8888", "RGBA_16161616", "BGRA_8888"},
     usage \in {{"HW_FB"} \cup Gpu, {"HW_FB"} \cup Gpu \cup SW_USAGE},
     size_ \in {<<384, 180>>, <<1280, 720>>, <<1920, 1080>>, <<3840, 2160>>}, layers \in {1, 3}}>>
=============================================================================
