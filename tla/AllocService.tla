---------------------------- MODULE AllocService -----------------------------
(***************************************************************************)
(* The allocator service: allocate and allocate2 of src/src/aidl/          *)
(* allocator.cpp (and allocate of 4.x), the loop over buffers of           *)
(* src/src/idl_common/allocator/allocator.cpp, and allocator_allocate of   *)
(* the DMA-BUF heaps with its choice of heap, the video buffers it takes   *)
(* from the UVM driver and its fallback.  Every caller is a thread of the  *)
(* service; decoders set the parameters of their slots meanwhile           *)
(* (DecoderSlots), and each call of the system may fail.                   *)
(*                                                                         *)
(* The layout is AllocLayout's; here a buffer's stride stands for the      *)
(* alignment of its width, which is what the buffers of one request can    *)
(* differ in.                                                              *)
(***************************************************************************)
EXTENDS DecoderSlots, Sequences

CONSTANTS Callers,      \* threads of the service, named for who asks for buffers
          AppRequests,  \* what callers ask for but for decoders' buffers
          Counts,       \* numbers of buffers to ask for
          Heaps         \* the heaps that the kernel has

VARIABLES pc,           \* where the request of each caller stands
          req,          \* the request: what it asks for, and count
          decoder,      \* [type, para]: decoder_para_type and decoder_para of the descriptor
          cur,          \* the buffer being made
          bufs,         \* the buffers made so far: gralloc_buffers
          open,         \* <<caller, buffer, descriptor>>: the descriptors the service has open
          protected,    \* protected_heap_supported, a static of the process
          answer,       \* the last answer to each caller
          failed,       \* history: the calls that failed during the request
          changed       \* history: the parameters of its slot changed during the request

request == <<req, decoder, cur, bufs>>
history == <<failed, changed>>
service == <<pc, request, open, protected, answer, history>>
vars == <<slot_vars, service>>


YuvFormats == {"YCbCr_420_888", "YCBCR_P010"}

\* What a client asks for, with allocate or allocate2.  derivable: the format and the size can be
\* derived (FormatSelect and AllocLayout tell when); debug_log: the name is "gralloc_debug_log";
\* options: there are additionalOptions.
Asked(call, usage, format, derivable, debug_log, options) ==
  [call |-> call, usage |-> usage, format |-> format, derivable |-> derivable,
   debug_log |-> debug_log, options |-> options, count |-> 0]

ASSUME ServiceAssumption ==
  /\ Counts \subseteq Nat /\ "" \notin Heaps
  /\ AppRequests \subseteq [call : {"allocate", "allocate2"}, usage : SUBSET STRING, format : STRING,
                            derivable : BOOLEAN, debug_log : BOOLEAN, options : BOOLEAN, count : {0}]
  /\ \A r \in AppRequests : "USING_SLOT" \notin r.usage

\* A buffer of which only the heap, the flags and the stride are known; memory is found for it.
Planned(heap, flags, stride) ==
  [heap |-> heap, mem |-> "", flags |-> flags, stride |-> stride, uvm |-> {}, scalar |-> 0, scaled |-> ""]
Backed(b, mem, flags, uvm, scalar, scaled) ==
  [heap |-> b.heap, mem |-> mem, flags |-> flags, stride |-> b.stride, uvm |-> uvm,
   scalar |-> scalar, scaled |-> scaled]
NoBuffer == Planned("", {}, 0)
NoRequest == Asked("allocate", {}, "", TRUE, FALSE, FALSE)
NoParameters == [type |-> "NONE", para |-> ZeroPara]

Init == /\ SlotInit
        /\ pc = [c \in Callers |-> "idle"] /\ req = [c \in Callers |-> NoRequest]
        /\ decoder = [c \in Callers |-> NoParameters]
        /\ cur = [c \in Callers |-> NoBuffer] /\ bufs = [c \in Callers |-> << >>]
        /\ open = {} /\ protected = "unknown"
        /\ answer = [c \in Callers |-> "none"]
        /\ failed = [c \in Callers |-> {}] /\ changed = [c \in Callers |-> FALSE]

Meets(a, b) == a \cap b # {}
is_android_yuv_format(f) == f \in YuvFormats

\* am_gralloc_is_omx_metadata_extend_usage, ..._osd_extend_usage and the buffers of either.
metadata_usage(u) == "DECODER" \in u /\ "HW_RENDER" \notin u
osd_usage(u) == {"DECODER", "HW_RENDER"} \subseteq u
full_usage(u) == "DECODER" \in u /\ "SENSOR_DIRECT_DATA" \in u

(***************************************************************************)
(* A request arrives, or the answer to it leaves                           *)
(***************************************************************************)
\* Decoders ask for buffers of the slot that they hold.
Asks(c) ==
  AppRequests \cup
    (IF c \in Decoders
     THEN {Asked(call, {"DECODER", "HW_TEXTURE"} \cup compose_slot_id(c), f, derivable, FALSE, FALSE) :
             call \in {"allocate", "allocate2"}, f \in YuvFormats, derivable \in BOOLEAN}
     ELSE {})

Request(c) ==
  /\ pc[c] = "idle" /\ (c \in Decoders => dpc[c] = "idle")
  /\ \E count \in Counts, r \in Asks(c) : req' = [req EXCEPT ![c] = [r EXCEPT !.count = count]]
  /\ pc' = [pc EXCEPT ![c] = "arrived"]
  /\ answer' = [answer EXCEPT ![c] = "none"]
  /\ failed' = [failed EXCEPT ![c] = {}] /\ changed' = [changed EXCEPT ![c] = FALSE]
  /\ UNCHANGED <<slot_vars, decoder, cur, bufs, open, protected>>

\* Mutant: the descriptors of the buffers that were complete stay open.
ClosesLast(c) == {fd \in open : fd[1] = c /\ fd[2] = Len(bufs[c]) + 1}

\* What native_handle_deleter and unique_fd close when the request ends.
Closes(c) == {fd \in open : fd[1] = c}

Answer(c, a) ==
  /\ pc' = [pc EXCEPT ![c] = "idle"] /\ answer' = [answer EXCEPT ![c] = a]
  /\ open' = open \ Closes(c)
  /\ decoder' = [decoder EXCEPT ![c] = NoParameters] /\ bufs' = [bufs EXCEPT ![c] = << >>]
  /\ cur' = [cur EXCEPT ![c] = Planned(cur[c].heap, {}, 0)]

Proceed(c, where) == pc' = [pc EXCEPT ![c] = where] /\ UNCHANGED answer

Opens(c, fd) == open' = open \cup {<<c, Len(bufs[c]) + 1, fd>>}

Works == UNCHANGED <<slot_vars, history>>

\* One of the calls that the request makes fails.
Fails(c, call) ==
  /\ faults < MaxFaults /\ faults' = faults + 1
  /\ failed' = [failed EXCEPT ![c] = @ \cup {call}]
  /\ UNCHANGED <<dpc, at, slot, status, para, mine, crossed, changed>>

(***************************************************************************)
(* allocate decodes its descriptor; allocate2 copies the fields of its own *)
(* and asks isSupported first.                                             *)
(***************************************************************************)
BadDescriptor(c) ==
  /\ pc[c] = "arrived" /\ req[c].call = "allocate"
  /\ Answer(c, "BAD_DESCRIPTOR")
  /\ Works /\ UNCHANGED <<req, protected>>

Decoded(c) ==
  /\ pc[c] = "arrived" /\ req[c].call = "allocate"
  /\ Proceed(c, "loop")
  /\ Works /\ UNCHANGED <<request, open, protected>>

\* A buffer of that name is a request to read the log level again.
DebugLog(c) ==
  /\ pc[c] = "arrived" /\ req[c].call = "allocate2" /\ req[c].debug_log
  /\ Answer(c, "UNSUPPORTED")
  /\ Works /\ UNCHANGED <<req, protected>>

\* LayerHeap makes the choice between the heaps of a layer.
am_gralloc_pick_dma_buf_heap(usage, format) ==
  IF "PROTECTED" \in usage THEN {IF is_android_yuv_format(format) THEN "codec_mm" ELSE "protected"}
  ELSE IF "HW_FB" \in usage THEN {"fb"}
  ELSE IF osd_usage(usage) \/ Meets(usage, {"HW_CAMERA_WRITE", "HW_VIDEO_ENCODER"})
       THEN {IF Meets(usage, {"SW_READ", "SW_WRITE"}) THEN "codec_mm" ELSE "codec_mm_uncached"}
  ELSE IF "HW_COMPOSER" \in usage /\ ~is_android_yuv_format(format) THEN {"gfx", "system"}
  ELSE IF "SW_READ" \in usage \/ metadata_usage(usage) THEN {"system"} ELSE {"system_uncached"}

HasProtectedHeap(format) == am_gralloc_pick_dma_buf_heap({"PROTECTED"}, format) \subseteq Heaps

\* Mutant: the test for an option that is not supported is turned round.
SupportsNoneOnly(c) == req[c].options

supported_options(c) == ~req[c].options

\* isSupported derives the format and the size as the loop does, with a descriptor of its own.  The
\* static is initialised by the first protected request whose format and size can be derived.
IsSupported(c) ==
  /\ pc[c] = "arrived" /\ req[c].call = "allocate2" /\ ~req[c].debug_log
  /\ protected' = IF protected = "unknown" /\ req[c].derivable /\ "PROTECTED" \in req[c].usage
                   THEN IF HasProtectedHeap(req[c].format) THEN "yes" ELSE "no"
                   ELSE protected
  /\ IF /\ req[c].derivable
        /\ "PROTECTED" \in req[c].usage => protected' = "yes"
        /\ supported_options(c)
     THEN Proceed(c, "loop") /\ UNCHANGED <<decoder, cur, bufs, open>>
     ELSE Answer(c, "UNSUPPORTED")
  /\ Works /\ UNCHANGED req

MoreToMake(c) == Len(bufs[c]) < req[c].count

\* The loop is left: the handles are moved into the result, or to the callback.
Deliver(c) ==
  /\ pc[c] = "loop" /\ ~MoreToMake(c)
  /\ Answer(c, "ok")
  /\ Works /\ UNCHANGED <<req, protected>>

(***************************************************************************)
(* mali_gralloc_derive_format_and_size: the parameters of the slot are     *)
(* read for every buffer; decoder_para_type is not reset                   *)
(***************************************************************************)
decode_slot_id(usage) == CHOOSE s \in Slots : SlotBits(s) = usage \cap SlotBits(31)

\* Mutant: the alignments need not be there.
IgnoresAligns(p) == p.dim # 0

valid_wh(p) == p.dim # 0 /\ p.align # 0

\* Mutant: width and height, if they are there, say how large the buffer is.
DimensionsFirst(p) == IF valid_wh(p) THEN "WxH" ELSE IF p.size # 0 THEN "SIZE" ELSE "NONE"

ParaType(p) == CASE p.size = 0 -> IF valid_wh(p) THEN "WxH" ELSE "NONE"
                 [] p.size # 0 -> IF valid_wh(p) THEN "BOTH" ELSE "SIZE"

(***************************************************************************)
(* allocator_allocate                                                      *)
(***************************************************************************)
Coherent == {"ION_DMA_HEAP", "CONTINUOUS_BUF"}
Contiguous == {"gfx", "fb", "codec_mm", "codec_mm_uncached"}

am_gralloc_set_buffer_flags(heap, usage) ==
  UNION {IF heap \in Contiguous THEN Coherent ELSE {},
         IF metadata_usage(usage) THEN {"VIDEO_OVERLAY", "VIDEO_OMX"} ELSE {},
         IF "PROTECTED" \in usage THEN {"SECURE_PROTECTED", "CONTINUOUS_BUF"} ELSE {}}

StrideOf(d, usage) ==
  IF d.para.align # 0 THEN d.para.align ELSE IF full_usage(usage) THEN 64 ELSE 1

Derive(c) ==
  /\ pc[c] = "loop" /\ MoreToMake(c) /\ req[c].derivable
  /\ LET usage == req[c].usage
         got == para[decode_slot_id(usage)]
         unset == [type |-> decoder[c].type, para |-> [decoder[c].para EXCEPT !.align = 0]]
         Derived(d) ==
           /\ decoder' = [decoder EXCEPT ![c] = d]
           /\ \E heap \in am_gralloc_pick_dma_buf_heap(usage, req[c].format) :
                cur' = [cur EXCEPT ![c] = Planned(heap, am_gralloc_set_buffer_flags(heap, usage),
                                                  StrideOf(d, usage))]
     IN \/ "USING_SLOT" \notin usage /\ Derived(unset) /\ Works
        \/ "USING_SLOT" \in usage /\ Derived([type |-> ParaType(got), para |-> got]) /\ Works
        \/ "USING_SLOT" \in usage /\ Derived(unset) /\ Fails(c, "para")
  /\ Proceed(c, "uvm")
  /\ UNCHANGED <<req, bufs, open, protected>>

\* The format is not one that the GPU, the display and the layout can do: the allocation failed, as
\* far as the loop can tell, for want of memory.
NotDerivable(c) ==
  /\ pc[c] = "loop" /\ MoreToMake(c) /\ ~req[c].derivable
  /\ Answer(c, "NO_RESOURCES")
  /\ Works /\ UNCHANGED <<req, protected>>

\* am_gralloc_exec_uvm_policy: flags, scalar and size of what is asked of the UVM driver.
UvmFlags(c) ==
  LET usage == req[c].usage
  IN {f \in {"DELAY_ALLOC", "PROTECTED", "CACHED", "FBC_DEC", "SKIP_REALLOC"} :
        CASE f = "DELAY_ALLOC" -> /\ decoder[c].type = "NONE" /\ ~osd_usage(usage)
                                  /\ ~Meets(usage, {"SENSOR_DIRECT_DATA", "PRIVATE_2", "CURSOR", "PRIVATE_7"})
          [] f = "PROTECTED" -> "PROTECTED" \in usage
          [] f = "CACHED" -> "SW_READ" \in usage
          [] f = "FBC_DEC" -> "PRIVATE_3" \in usage
          [] f = "SKIP_REALLOC" -> \/ decoder[c].para.compress = 0 \/ osd_usage(usage)
                                   \/ full_usage(usage) /\ req[c].format = "INTERNAL_P010"}

\* The square root of the number of pages, of a buffer of 64 pages that replaces a decoder's.
RootOfPages == 8

Scalar(c) ==
  LET usage == req[c].usage
  IN CASE decoder[c].type # "NONE" -> 2
       [] decoder[c].type = "NONE" /\ (osd_usage(usage) \/ full_usage(usage)) -> 1
       [] decoder[c].type = "NONE" /\ ~osd_usage(usage) /\ ~full_usage(usage) ->
            IF "PRIVATE_2" \in usage THEN 2 ELSE IF "CURSOR" \in usage THEN 4
            ELSE IF "PRIVATE_7" \in usage THEN RootOfPages ELSE 1

Scaled(c) ==
  CASE decoder[c].type = "WxH" -> "width*height"
    [] decoder[c].type \in {"SIZE", "BOTH"} -> "size"
    [] decoder[c].type = "NONE" -> IF Scalar(c) = 1 THEN "descriptor"
                                   ELSE IF "PRIVATE_7" \in req[c].usage THEN "page" ELSE "policy"

ForUvm(c) == metadata_usage(req[c].usage) \/ osd_usage(req[c].usage)

AllocUvm(c) ==
  /\ pc[c] = "uvm" /\ ForUvm(c)
  /\ Opens(c, "share")
  /\ cur' = [cur EXCEPT ![c] =
               Backed(@, "uvm", @.flags \cup {"UVM_BUFFER"}, UvmFlags(c), Scalar(c), Scaled(c))]
  /\ Proceed(c, "handle")
  /\ Works /\ UNCHANGED <<req, decoder, bufs, protected>>

UvmFails(c) ==
  /\ pc[c] = "uvm" /\ ForUvm(c)
  /\ Answer(c, "NO_RESOURCES")
  /\ Fails(c, "uvm") /\ UNCHANGED <<req, protected>>

NotForUvm(c) ==
  /\ pc[c] = "uvm" /\ ~ForUvm(c)
  /\ Proceed(c, "alloc")
  /\ Works /\ UNCHANGED <<request, open, protected>>

\* /dev/uvm cannot be opened: uvm_buffer_flag is what malloc left there.
NoUvmDevice(c) ==
  /\ pc[c] = "uvm"
  /\ \/ Proceed(c, "alloc") /\ UNCHANGED <<decoder, cur, bufs, open>>
     \/ Answer(c, "NO_RESOURCES")
  /\ Fails(c, "uvm_open") /\ UNCHANGED <<req, protected>>

Allocated(c, heap, flags) ==
  /\ Opens(c, "share") /\ Proceed(c, "handle")
  /\ cur' = [cur EXCEPT ![c] = Backed(@, heap, flags, {}, 0, "")]
  /\ Works /\ UNCHANGED <<req, decoder, bufs, protected>>

AllocHeap(c) ==
  /\ pc[c] = "alloc" /\ cur[c].heap \in Heaps
  /\ Allocated(c, cur[c].heap, cur[c].flags)

MayFallBack(heap) == heap \in {"gfx", "system_uncached", "protected"}

\* Mutant: the same heap is tried again.
RefusedTriesAgain(c) ==
  Proceed(c, "alloc") /\ UNCHANGED <<decoder, cur, bufs, open, req, protected>>

Refused(c) ==
  /\ IF MayFallBack(cur[c].heap) THEN Proceed(c, "fallback") /\ UNCHANGED <<decoder, cur, bufs, open>>
     ELSE Answer(c, "NO_RESOURCES")
  /\ UNCHANGED <<req, protected>>

NoHeap(c) == pc[c] = "alloc" /\ cur[c].heap \notin Heaps /\ Refused(c) /\ Works

HeapFails(c) == pc[c] = "alloc" /\ cur[c].heap \in Heaps /\ Refused(c) /\ Fails(c, "heap")

\* Mutant: the flags of the heap that was tried stay.
KeepsFlags(flags) == flags

FallbackFlags(flags) == flags \ Coherent

Fallback(c) ==
  /\ pc[c] = "fallback"
  /\ Allocated(c, "system", FallbackFlags(cur[c].flags))

FallbackFails(c) ==
  /\ pc[c] = "fallback"
  /\ Answer(c, "NO_RESOURCES")
  /\ Fails(c, "fallback") /\ UNCHANGED <<req, protected>>

\* need_mmap compares two widths rounded up to w_align.
Divides(c) == decoder[c].type \in {"WxH", "BOTH"}

\* make_private_handle and what allocator_allocate adds to the handle: the dup is not checked.
MakeHandle(c) ==
  /\ pc[c] = "handle" /\ ~(Divides(c) /\ decoder[c].para.align = 0)
  /\ Proceed(c, "shared_memory")
  /\ \/ Opens(c, "extend") /\ Works
     \/ UNCHANGED open /\ Fails(c, "dup")
  /\ UNCHANGED <<request, protected>>

HandleFails(c) ==
  /\ pc[c] = "handle"
  /\ Answer(c, "NO_RESOURCES")
  /\ Fails(c, "handle") /\ UNCHANGED <<req, protected>>

\* A division by zero: the process dies with every request in it and is started again, or (arm64)
\* the quotient is 0.
DivideByZero(c) ==
  /\ pc[c] = "handle" /\ Divides(c) /\ decoder[c].para.align = 0
  /\ \/ /\ open' = {} /\ protected' = "unknown"
        /\ pc' = [e \in Callers |-> "idle"]
        /\ decoder' = [e \in Callers |-> NoParameters] /\ bufs' = [e \in Callers |-> << >>]
        /\ cur' = [e \in Callers |-> NoBuffer]
        /\ answer' = [e \in Callers |-> IF pc[e] = "idle" THEN answer[e] ELSE "DEAD_OBJECT"]
     \/ Opens(c, "extend") /\ Proceed(c, "shared_memory") /\ UNCHANGED <<decoder, cur, bufs, protected>>
  /\ Works /\ UNCHANGED req

(***************************************************************************)
(* The rest of the loop: the metadata and the stride                       *)
(***************************************************************************)
SharedMemory(c) ==
  /\ pc[c] = "shared_memory"
  /\ Opens(c, "share_attr") /\ Proceed(c, "metadata")
  /\ Works /\ UNCHANGED <<request, protected>>

SharedMemoryFails(c) ==
  /\ pc[c] = "shared_memory"
  /\ Answer(c, "UNSUPPORTED")
  /\ Fails(c, "shared_memory") /\ UNCHANGED <<req, protected>>

MmapFails(c) ==
  /\ pc[c] = "metadata"
  /\ Answer(c, "NO_RESOURCES")
  /\ Fails(c, "mmap") /\ UNCHANGED <<req, protected>>

\* Mutant: the first buffer differs from a stride that no buffer has given yet.
DiffersFromNone(c) == bufs[c] = << >> \/ bufs[c][1].stride # cur[c].stride

StrideDiffers(c) == bufs[c] # << >> /\ bufs[c][1].stride # cur[c].stride

InitMetadata(c) ==
  /\ pc[c] = "metadata"
  /\ IF StrideDiffers(c) THEN Answer(c, "UNSUPPORTED")
     ELSE /\ bufs' = [bufs EXCEPT ![c] = Append(@, cur[c])]
          /\ Proceed(c, "loop") /\ UNCHANGED <<decoder, cur, open>>
  /\ Works /\ UNCHANGED <<req, protected>>

Serve(c) ==
  \/ BadDescriptor(c) \/ Decoded(c) \/ DebugLog(c) \/ IsSupported(c) \/ Deliver(c)
  \/ Derive(c) \/ NotDerivable(c) \/ AllocUvm(c) \/ UvmFails(c) \/ NotForUvm(c) \/ NoUvmDevice(c)
  \/ AllocHeap(c) \/ NoHeap(c) \/ HeapFails(c) \/ Fallback(c) \/ FallbackFails(c)
  \/ MakeHandle(c) \/ HandleFails(c) \/ DivideByZero(c)
  \/ SharedMemory(c) \/ SharedMemoryFails(c) \/ MmapFails(c) \/ InitMetadata(c)

ParaChanges(usage) ==
  "USING_SLOT" \in usage /\ para'[decode_slot_id(usage)] # para[decode_slot_id(usage)]

\* A step of a decoder, outside the service.  It keeps its slot while it waits for buffers.
Decode(d) ==
  /\ SlotStep(d)
  /\ d \in Callers /\ pc[d] # "idle" => slot'[d] = slot[d]
  /\ changed' = [c \in Callers |-> changed[c] \/ (pc[c] # "idle" /\ ParaChanges(req[c].usage))]
  /\ UNCHANGED <<pc, request, open, protected, answer, failed>>

Next == (\E c \in Callers : Request(c) \/ Serve(c)) \/ (\E d \in Decoders : Decode(d))

Spec == Init /\ [][Next]_vars /\ \A c \in Callers : WF_vars(Serve(c))

-----------------------------------------------------------------------------
TypeOK ==
  /\ SlotTypeOK
  /\ pc \in [Callers -> {"idle", "arrived", "loop", "uvm", "alloc", "fallback", "handle",
                         "shared_memory", "metadata"}]
  /\ \A c \in Callers : /\ Len(bufs[c]) <= req[c].count
                        /\ decoder[c].type \in {"NONE", "WxH", "SIZE", "BOTH"}
                        /\ decoder[c].para \in Para
  /\ open \subseteq Callers \X Nat \X {"share", "extend", "share_attr"}
  /\ protected \in {"unknown", "yes", "no"}
  /\ answer \in [Callers -> {"none", "ok", "BAD_DESCRIPTOR", "NO_RESOURCES",
                             "UNSUPPORTED", "DEAD_OBJECT"}]

Held(c) == 1..Len(bufs[c])

\* allocate: a request that is over leaves no descriptor open in the service, whatever failed in
\* it; the memory and the metadata of each buffer stay open until then.
NothingLeaks ==
  /\ \A fd \in open : pc[fd[1]] # "idle"
  /\ \A c \in Callers : pc[c] # "idle" =>
       \A i \in Held(c) : {<<c, i, "share">>, <<c, i, "share_attr">>} \subseteq open

\* Why allocate2 may refuse a request before it tries: it is none for a buffer, has options, or its
\* format and size cannot be derived.
RefusedUntried(r) == r.call = "allocate2" /\ (r.debug_log \/ r.options \/ ~r.derivable)

\* What goes wrong while buffers are made, and is told the client as UNSUPPORTED.
FailsAsUnsupported(c) == changed[c] \/ Meets(failed[c], {"para", "shared_memory"})

\* A client is told UNSUPPORTED only if allocate2 refused the request untried, or its slot's
\* parameters changed while it was served or could not be read, or there was no shared memory, or it
\* is for protected memory and the kernel lacks one of the two heaps for that - perhaps not the one
\* that it needs.  It is told NO_RESOURCES only if some were missing, where a heap with a fallback
\* that fails alone is not enough, or if allocate was asked for what cannot be derived.
ErrorsAreExplained ==
  \A c \in Callers :
    /\ answer[c] = "UNSUPPORTED" =>
         \/ RefusedUntried(req[c]) \/ FailsAsUnsupported(c)
         \/ /\ req[c].call = "allocate2" /\ "PROTECTED" \in req[c].usage
            /\ ~({"codec_mm", "protected"} \subseteq Heaps)
    /\ answer[c] = "NO_RESOURCES" =>
         \/ req[c].call = "allocate" /\ ~req[c].derivable
         \/ Meets(failed[c], {"uvm", "uvm_open", "fallback", "handle", "mmap"})
         \/ ~MayFallBack(cur[c].heap) /\ ("heap" \in failed[c] \/ cur[c].heap \notin Heaps)

\* The flags of a handle, which the display and the video layer trust, tell where its memory is
\* from: UVM, contiguous or not; protected memory is so but after the fallback of heap-secure,
\* which the build allows.
FlagsTellMemory ==
  \A c \in Callers : \A i \in Held(c) :
    LET b == bufs[c][i]
    IN /\ "UVM_BUFFER" \in b.flags <=> b.mem = "uvm"
       /\ "CONTINUOUS_BUF" \in b.flags => b.mem \in Contiguous \cup {"protected", "uvm"}
       /\ b.mem \in Contiguous \cup {"protected"} => "CONTINUOUS_BUF" \in b.flags
       /\ "SECURE_PROTECTED" \in b.flags =>
            b.mem \in {"protected", "codec_mm", "uvm"} \/ b.heap = "protected"
       /\ metadata_usage(req[c].usage) /\ b.mem # "uvm" => "uvm_open" \in failed[c]

\* The buffers of a decoder are made with the parameters that it set last: size before width and
\* height, its alignment before others, whichever slot it has.  Not so if two calls worked on its
\* slot at a time (DecoderSlots), if it sets others before its buffers are made, or if the driver
\* does not tell the service the parameters; and a heap's buffers have only their alignment.
MadeAsTheDecoderAsked ==
  \A c \in Decoders \cap Callers : \A i \in Held(c) :
    LET b == bufs[c][i]
        p == mine[c]
    IN /\ pc[c] # "idle" /\ slot[c] # NoSlot /\ "USING_SLOT" \in req[c].usage
       /\ slot[c] \notin crossed /\ ~changed[c] /\ "para" \notin failed[c] /\ b.mem = "uvm"
       => /\ p.size # 0 => b.scaled = "size" /\ b.scalar = 2
          /\ p.size = 0 /\ p.dim # 0 => b.scaled = "width*height" /\ b.scalar = 2
          /\ Nonzero(p) => "DELAY_ALLOC" \notin b.uvm
          /\ p.align # 0 => b.stride = p.align
          /\ p.compress = 0 <=> "SKIP_REALLOC" \in b.uvm

\* decoder_para_type is not reset between buffers: allocator_allocate divides by an alignment of 0
\* only if reading the parameters failed after it had worked for a buffer of the same request.
DividesOnlyByStaleZero ==
  \A c \in Callers :
    pc[c] = "handle" /\ Divides(c) /\ decoder[c].para.align = 0 =>
      "para" \in failed[c] /\ bufs[c] # << >>

\* Every request is answered, or dies with the process.
RequestsAreAnswered == \A c \in Callers : pc[c] # "idle" ~> pc[c] = "idle"

=============================================================================
