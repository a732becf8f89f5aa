-------------------------- MODULE AllocServiceProofs --------------------------
(***************************************************************************)
(* Proofs about the allocator service for any number of callers, decoders, *)
(* slots, heaps and failing calls.  The invariant has a part for each      *)
(* request; a step of one caller leaves the parts of the others alone, but *)
(* for the division by zero, which ends all of them.                       *)
(***************************************************************************)
EXTENDS DecoderSlotsProofs, SequenceTheorems

-----------------------------------------------------------------------------
(* Types                                                                   *)

Stages == {"idle", "arrived", "loop", "uvm", "alloc", "fallback", "handle", "shared_memory", "metadata"}

\* The memory of the buffer being made is found; it is planned at least.
Made    == {"handle", "shared_memory", "metadata"}
Derived == {"uvm", "alloc", "fallback"} \cup Made

ServiceTypes ==
  /\ pc \in [Callers -> Stages]
  /\ DOMAIN req = Callers /\ DOMAIN decoder = Callers /\ DOMAIN cur = Callers
  /\ DOMAIN bufs = Callers /\ DOMAIN answer = Callers
  /\ DOMAIN failed = Callers /\ changed \in [Callers -> BOOLEAN]
  /\ \A c \in Callers : \E S : bufs[c] \in Seq(S)

LEMMA AppendGrows ==
  ASSUME NEW S, NEW s \in Seq(S), NEW e
  PROVE  /\ \E T : Append(s, e) \in Seq(T)
         /\ Len(s) \in Nat /\ Len(Append(s, e)) = Len(s) + 1
         /\ \A i \in 1..Len(s) : Append(s, e)[i] = s[i]
         /\ Append(s, e)[Len(s) + 1] = e
         /\ Append(s, e) # << >>
<1> DEFINE T == S \cup {e}
<1>1. s \in Seq(T) /\ e \in T
  BY SeqMonotonic
<1>2. Append(s, e) \in Seq(T)
  BY <1>1
<1> QED
  BY <1>1, <1>2

LEMMA NoneHeld == Len(<< >>) = 0 /\ 1..0 = {} /\ \A S : << >> \in Seq(S)
  OBVIOUS

\* What of a buffer is kept where.
LEMMA BufferFields ==
  /\ \A h, f, s : /\ Planned(h, f, s).heap = h /\ Planned(h, f, s).flags = f /\ Planned(h, f, s).stride = s
                  /\ Planned(h, f, s).mem = ""
  /\ \A b, m, f, u, x, y :
       /\ Backed(b, m, f, u, x, y).heap = b.heap /\ Backed(b, m, f, u, x, y).mem = m
       /\ Backed(b, m, f, u, x, y).flags = f /\ Backed(b, m, f, u, x, y).stride = b.stride
       /\ Backed(b, m, f, u, x, y).uvm = u /\ Backed(b, m, f, u, x, y).scalar = x
       /\ Backed(b, m, f, u, x, y).scaled = y
  BY DEF Planned, Backed

LEMMA ServiceTypesInit == Init => ServiceTypes
<1> SUFFICES ASSUME Init PROVE ServiceTypes
  OBVIOUS
<1>1. \A c \in Callers : \E S : bufs[c] \in Seq(S)
  <2>1. << >> \in Seq({})
    OBVIOUS
  <2> QED
    BY <2>1 DEF Init
<1> QED
  BY <1>1 DEF Init, ServiceTypes, Stages

-----------------------------------------------------------------------------
(* Steps of one caller                                                     *)

\* What the step of caller c leaves alone.
Others(c) ==
  /\ \A e \in Callers \ {c} :
       /\ pc'[e] = pc[e] /\ req'[e] = req[e] /\ decoder'[e] = decoder[e] /\ cur'[e] = cur[e]
       /\ bufs'[e] = bufs[e] /\ answer'[e] = answer[e] /\ failed'[e] = failed[e] /\ changed'[e] = changed[e]
       /\ \A n, u : <<e, n, u>> \in open' <=> <<e, n, u>> \in open

\* Descriptors are opened and closed for one request only.
LEMMA OpensIsLocal ==
  ASSUME NEW c, NEW fd, Opens(c, fd)
  PROVE  \A e, n, u : <<e, n, u>> \in open' <=>
                        <<e, n, u>> \in open \/ (e = c /\ n = Len(bufs[c]) + 1 /\ u = fd)
  BY DEF Opens

LEMMA ClosesIsLocal ==
  ASSUME NEW c, open' = open \ Closes(c)
  PROVE  \A e, n, u : <<e, n, u>> \in open' <=> <<e, n, u>> \in open /\ e # c
  BY DEF Closes

LEMMA HistoryIsLocal ==
  ASSUME NEW c \in Callers, ServiceTypes, Works \/ \E call : Fails(c, call)
  PROVE  /\ \A e \in Callers \ {c} : failed'[e] = failed[e]
         /\ failed[c] \subseteq failed'[c] /\ changed' = changed /\ DOMAIN failed' = Callers
         /\ UNCHANGED <<para, slot>>
  BY DEF ServiceTypes, Works, Fails, history, slot_vars

\* An answer: everything that the request had is given back.
LEMMA AnswerIsLocal ==
  ASSUME NEW c \in Callers, NEW a, ServiceTypes, Answer(c, a), UNCHANGED req,
         Works \/ \E call : Fails(c, call)
  PROVE  /\ Others(c) /\ ServiceTypes'
         /\ pc'[c] = "idle" /\ bufs'[c] = << >> /\ decoder'[c] = NoParameters
         /\ cur'[c].heap = cur[c].heap /\ answer'[c] = a /\ req'[c] = req[c]
         /\ \A n, u : <<c, n, u>> \notin open'
<1>1. \A e, n, u : <<e, n, u>> \in open' <=> <<e, n, u>> \in open /\ e # c
  BY ClosesIsLocal DEF Answer
<1>2. /\ \A e \in Callers \ {c} : failed'[e] = failed[e]
      /\ changed' = changed /\ DOMAIN failed' = Callers
  BY HistoryIsLocal
<1>3. /\ pc'[c] = "idle" /\ bufs'[c] = << >> /\ decoder'[c] = NoParameters
      /\ cur'[c] = Planned(cur[c].heap, {}, 0) /\ answer'[c] = a
  BY DEF Answer, ServiceTypes
<1>4. \A e \in Callers \ {c} :
        /\ pc'[e] = pc[e] /\ decoder'[e] = decoder[e] /\ cur'[e] = cur[e]
        /\ bufs'[e] = bufs[e] /\ answer'[e] = answer[e]
  BY DEF Answer, ServiceTypes
<1>5. Others(c)
  BY <1>1, <1>2, <1>4 DEF Others
<1>6. ServiceTypes'
  <2>1. \A e \in Callers : \E S : bufs'[e] \in Seq(S)
    BY <1>3, <1>4, NoneHeld DEF ServiceTypes
  <2> QED
    BY <1>2, <2>1 DEF ServiceTypes, Answer, Stages
<1>7. cur'[c].heap = cur[c].heap
  <2>1. Planned(cur[c].heap, {}, 0).heap = cur[c].heap
    BY DEF Planned
  <2> QED
    BY <1>3, <2>1
<1>8. \A n, u : <<c, n, u>> \notin open'
  BY <1>1
<1> QED
  BY <1>3, <1>5, <1>6, <1>7, <1>8

\* A request goes on to its next stage; of what it has, only descriptors are added to.
LEMMA MoveIsLocal ==
  ASSUME NEW c \in Callers, NEW where \in Stages, ServiceTypes, Proceed(c, where),
         UNCHANGED request, UNCHANGED open \/ \E fd : Opens(c, fd),
         Works \/ \E call : Fails(c, call)
  PROVE  Others(c) /\ ServiceTypes' /\ pc'[c] = where
<1>1. /\ \A e \in Callers \ {c} : failed'[e] = failed[e]
      /\ changed' = changed /\ DOMAIN failed' = Callers
  BY HistoryIsLocal
<1>2. \A e, n, u : e # c => (<<e, n, u>> \in open' <=> <<e, n, u>> \in open)
  <2>1. CASE UNCHANGED open
    BY <2>1
  <2>2. ASSUME NEW fd, Opens(c, fd)
        PROVE  \A e, n, u : e # c => (<<e, n, u>> \in open' <=> <<e, n, u>> \in open)
    BY <2>2, OpensIsLocal
  <2> QED
    BY <2>1, <2>2
<1>3. Others(c)
  BY <1>1, <1>2 DEF Others, Proceed, request, ServiceTypes
<1>4. ServiceTypes'
  BY <1>1 DEF Proceed, request, ServiceTypes
<1> QED
  BY <1>3, <1>4 DEF Proceed, ServiceTypes

\* The buffer being made is planned or found, or the parameters of its decoder are read.
LEMMA MakeIsLocal ==
  ASSUME NEW c \in Callers, NEW where \in Stages, NEW b, NEW d, ServiceTypes, Proceed(c, where),
         cur' = [cur EXCEPT ![c] = b], decoder' = [decoder EXCEPT ![c] = d] \/ UNCHANGED decoder,
         UNCHANGED <<req, bufs>>, UNCHANGED open \/ \E fd : Opens(c, fd),
         Works \/ \E call : Fails(c, call)
  PROVE  /\ Others(c) /\ ServiceTypes'
         /\ pc'[c] = where /\ cur'[c] = b
<1>1. /\ \A e \in Callers \ {c} : failed'[e] = failed[e]
      /\ changed' = changed /\ DOMAIN failed' = Callers
  BY HistoryIsLocal
<1>2. \A e, n, u : e # c => (<<e, n, u>> \in open' <=> <<e, n, u>> \in open)
  <2>1. CASE UNCHANGED open
    BY <2>1
  <2>2. ASSUME NEW fd, Opens(c, fd)
        PROVE  \A e, n, u : e # c => (<<e, n, u>> \in open' <=> <<e, n, u>> \in open)
    BY <2>2, OpensIsLocal
  <2> QED
    BY <2>1, <2>2
<1>3. Others(c)
  BY <1>1, <1>2 DEF Others, Proceed, ServiceTypes
<1>4. ServiceTypes'
  BY <1>1 DEF Proceed, ServiceTypes
<1> QED
  BY <1>3, <1>4 DEF Proceed, ServiceTypes

\* A buffer is complete.
LEMMA AppendIsLocal ==
  ASSUME NEW c \in Callers, ServiceTypes, Proceed(c, "loop"), Works,
         bufs' = [bufs EXCEPT ![c] = Append(@, cur[c])], UNCHANGED <<req, decoder, cur, open>>
  PROVE  /\ Others(c) /\ ServiceTypes'
         /\ pc'[c] = "loop" /\ bufs'[c] # << >>
         /\ Len(bufs[c]) \in Nat /\ Len(bufs'[c]) = Len(bufs[c]) + 1
         /\ \A i \in 1..Len(bufs[c]) : bufs'[c][i] = bufs[c][i]
         /\ bufs'[c][Len(bufs[c]) + 1] = cur[c]
<1>1. PICK S : bufs[c] \in Seq(S)
  BY DEF ServiceTypes
<1>2. bufs'[c] = Append(bufs[c], cur[c]) /\ DOMAIN bufs' = Callers
      /\ \A e \in Callers \ {c} : bufs'[e] = bufs[e]
  BY DEF ServiceTypes
<1>3. Others(c)
  BY <1>2 DEF Others, Proceed, ServiceTypes, Works, history
<1>4. ServiceTypes'
  <2>1. \A e \in Callers : \E T : bufs'[e] \in Seq(T)
    BY <1>1, <1>2, AppendGrows DEF ServiceTypes
  <2> QED
    BY <1>2, <2>1 DEF ServiceTypes, Proceed, Stages, Works, history
<1>5. /\ bufs'[c] # << >>
      /\ Len(bufs[c]) \in Nat /\ Len(bufs'[c]) = Len(bufs[c]) + 1
      /\ \A i \in 1..Len(bufs[c]) : bufs'[c][i] = bufs[c][i]
      /\ bufs'[c][Len(bufs[c]) + 1] = cur[c]
  BY <1>1, <1>2, AppendGrows
<1> QED
  BY <1>3, <1>4, <1>5 DEF Proceed, ServiceTypes

\* The process dies, and its requests with it.
Dies ==
  /\ open' = {} /\ pc' = [e \in Callers |-> "idle"]
  /\ decoder' = [e \in Callers |-> NoParameters] /\ bufs' = [e \in Callers |-> << >>]
  /\ cur' = [e \in Callers |-> NoBuffer]
  /\ answer' = [e \in Callers |-> IF pc[e] = "idle" THEN answer[e] ELSE "DEAD_OBJECT"]
  /\ Works /\ UNCHANGED req

LEMMA DeathTypes == ServiceTypes /\ Dies => ServiceTypes'
<1> SUFFICES ASSUME ServiceTypes, Dies PROVE ServiceTypes'
  OBVIOUS
<1>1. \A e \in Callers : \E S : bufs'[e] \in Seq(S)
  BY NoneHeld DEF Dies
<1> QED
  BY <1>1 DEF ServiceTypes, Dies, Stages, Works, history

-----------------------------------------------------------------------------
(* The inductive invariant, for each request                               *)

\* What is open belongs to a request that is under way, and to its buffers.
Stage(c) ==
  /\ pc[c] \in {"idle", "arrived"} => bufs[c] = << >>
  /\ \A n, u : <<c, n, u>> \in open => pc[c] # "idle"
  /\ \A i \in Held(c) : <<c, i, "share">> \in open /\ <<c, i, "share_attr">> \in open
  /\ pc[c] \in Made => <<c, Len(bufs[c]) + 1, "share">> \in open
  /\ pc[c] = "metadata" => <<c, Len(bufs[c]) + 1, "share_attr">> \in open

\* The flags of a buffer tell where its memory is from.
Trusted(c, b) ==
  /\ "UVM_BUFFER" \in b.flags <=> b.mem = "uvm"
  /\ "CONTINUOUS_BUF" \in b.flags => b.mem \in Contiguous \cup {"protected", "uvm"}
  /\ b.mem \in Contiguous \cup {"protected"} => "CONTINUOUS_BUF" \in b.flags
  /\ "SECURE_PROTECTED" \in b.flags =>
       b.mem \in {"protected", "codec_mm", "uvm"} \/ b.heap = "protected"
  /\ metadata_usage(req[c].usage) /\ b.mem # "uvm" => "uvm_open" \in failed[c]

\* Until memory is found, the flags are those of the heap that the usage picks.
Memory(c) ==
  /\ \A i \in Held(c) : Trusted(c, bufs[c][i])
  /\ pc[c] \in Made => Trusted(c, cur[c])
  /\ pc[c] \in {"uvm", "alloc", "fallback"} =>
       /\ cur[c].heap \in am_gralloc_pick_dma_buf_heap(req[c].usage, req[c].format)
       /\ cur[c].flags = am_gralloc_set_buffer_flags(cur[c].heap, req[c].usage)
  /\ pc[c] \in {"alloc", "fallback"} /\ metadata_usage(req[c].usage) => "uvm_open" \in failed[c]
  /\ pc[c] = "fallback" => MayFallBack(cur[c].heap)

\* The first buffer has the parameters of nobody before it.
Params(c) ==
  /\ pc[c] \in {"idle", "arrived"} \/ (pc[c] = "loop" /\ bufs[c] = << >>) =>
       decoder[c] = NoParameters
  /\ "USING_SLOT" \notin req[c].usage => decoder[c] = NoParameters
  /\ Divides(c) /\ decoder[c].para.align = 0 => "para" \in failed[c] /\ bufs[c] # << >>

\* What the driver answers to a request for the parameters of its slot.
Given(c) ==
  IF "USING_SLOT" \in req[c].usage
  THEN [type |-> ParaType(para[decode_slot_id(req[c].usage)]), para |-> para[decode_slot_id(req[c].usage)]]
  ELSE NoParameters

\* A video buffer of the size and the flags that the parameters ask for.
AsGiven(c, b) ==
  b.mem = "uvm" =>
    /\ Given(c).type # "NONE" => b.scalar = 2 /\ "DELAY_ALLOC" \notin b.uvm
    /\ Given(c).type = "WxH" => b.scaled = "width*height"
    /\ Given(c).type \in {"SIZE", "BOTH"} => b.scaled = "size"
    /\ "SKIP_REALLOC" \in b.uvm <=>
         \/ Given(c).para.compress = 0 \/ osd_usage(req[c].usage)
         \/ full_usage(req[c].usage) /\ req[c].format = "INTERNAL_P010"

\* While the parameters are those that were read first, all buffers are alike.
Steady(c) ==
  ~changed[c] /\ "para" \notin failed[c] /\ pc[c] # "idle" =>
    /\ \A i \in Held(c) : /\ bufs[c][i].stride = StrideOf(Given(c), req[c].usage)
                          /\ AsGiven(c, bufs[c][i])
    /\ pc[c] \in Derived =>
         decoder[c] = Given(c) /\ cur[c].stride = StrideOf(Given(c), req[c].usage)
    /\ pc[c] \in Made => AsGiven(c, cur[c])

\* allocate2 may refuse such a request before it tries.
Refusable(r) ==
  \/ RefusedUntried(r)
  \/ r.call = "allocate2" /\ "PROTECTED" \in r.usage /\ ~({"codec_mm", "protected"} \subseteq Heaps)

\* allocate is asked for what cannot be derived; allocate2 finds that out in isSupported.
Underivable(r) == r.call = "allocate" /\ ~r.derivable

Explained(c) ==
  /\ pc[c] # "idle" => answer[c] = "none"
  /\ pc[c] \notin {"idle", "arrived"} => req[c].call = "allocate" \/ req[c].derivable
  /\ answer[c] = "UNSUPPORTED" =>
       Refusable(req[c]) \/ changed[c] \/ Meets(failed[c], {"para", "shared_memory"})
  /\ answer[c] = "NO_RESOURCES" =>
       \/ Underivable(req[c])
       \/ Meets(failed[c], {"uvm", "uvm_open", "fallback", "handle", "mmap"})
       \/ ~MayFallBack(cur[c].heap) /\ ("heap" \in failed[c] \/ cur[c].heap \notin Heaps)

\* A decoder asks for its buffers with the slot that it holds, and keeps it meanwhile.
Usage(c) ==
  pc[c] # "idle" /\ "USING_SLOT" \in req[c].usage =>
    /\ c \in Decoders /\ slot[c] \in Slots
    /\ req[c].usage = {"DECODER", "HW_TEXTURE"} \cup SlotBits(slot[c])
    /\ req[c].format \in YuvFormats

Good(c) == Stage(c) /\ Memory(c) /\ Params(c) /\ Steady(c) /\ Explained(c) /\ Usage(c)

OpenTypes == open \subseteq Callers \X Nat \X {"share", "extend", "share_attr"}

MineSet == \A d \in Decoders : mine[d] = ZeroPara \/ Nonzero(mine[d])

\* The static that tells whether there is protected memory knows of a heap that is missing.
StaticIsOfAHeap ==
  /\ protected \in {"unknown", "yes", "no"}
  /\ protected = "no" => ~({"codec_mm", "protected"} \subseteq Heaps)

ServiceInv == ServiceTypes /\ OpenTypes /\ MineSet /\ \A c \in Callers : Good(c)

-----------------------------------------------------------------------------
(* What a step of one caller leaves of the others                          *)

LEMMA OthersKeep ==
  ASSUME NEW c \in Callers, NEW e \in Callers \ {c}, Others(c), Good(e),
         UNCHANGED <<para, slot>>
  PROVE  Good(e)'
<1>1. /\ pc'[e] = pc[e] /\ req'[e] = req[e] /\ decoder'[e] = decoder[e] /\ cur'[e] = cur[e]
      /\ bufs'[e] = bufs[e] /\ answer'[e] = answer[e] /\ failed'[e] = failed[e]
      /\ changed'[e] = changed[e]
      /\ \A n, u : <<e, n, u>> \in open' <=> <<e, n, u>> \in open
  BY DEF Others
<1>2. Stage(e)'
  BY <1>1 DEF Good, Stage, Held
<1>3. Memory(e)'
  <2>1. \A b : Trusted(e, b) => Trusted(e, b)'
    BY <1>1 DEF Trusted
  <2> QED
    BY <1>1, <2>1 DEF Good, Memory, Held
<1>4. Params(e)'
  BY <1>1 DEF Good, Params, Divides
<1>5. Steady(e)'
  <2>1. Given(e)' = Given(e)
    BY <1>1 DEF Given, decode_slot_id
  <2>2. \A b : AsGiven(e, b) => AsGiven(e, b)'
    BY <1>1, <2>1 DEF AsGiven
  <2> QED
    BY <1>1, <2>1, <2>2 DEF Good, Steady, Held
<1>6. Explained(e)'
  BY <1>1 DEF Good, Explained
<1>7. Usage(e)'
  BY <1>1 DEF Good, Usage
<1> QED
  BY <1>2, <1>3, <1>4, <1>5, <1>6, <1>7 DEF Good

\* What a step of the service does to one request is enough for the invariant.
LEMMA OneRequest ==
  ASSUME NEW c \in Callers, ServiceInv, Others(c), ServiceTypes', OpenTypes', Good(c)',
         UNCHANGED <<para, slot, mine>>
  PROVE  ServiceInv'
  BY OthersKeep DEF ServiceInv, MineSet

LEMMA OpensKeepsTypes ==
  ASSUME NEW c \in Callers, ServiceTypes, OpenTypes,
         NEW fd \in {"share", "extend", "share_attr"}, Opens(c, fd)
  PROVE  OpenTypes'
<1>1. Len(bufs[c]) + 1 \in Nat
  BY AppendGrows DEF ServiceTypes
<1> QED
  BY <1>1 DEF OpenTypes, Opens

-----------------------------------------------------------------------------
(* Answers                                                                 *)

\* What is left to show of an answer is that it is explained.
LEMMA AnswerInv ==
  ASSUME NEW c \in Callers, NEW a, ServiceInv, pc[c] # "idle", Answer(c, a), UNCHANGED req,
         Works \/ \E call : Fails(c, call),
         a = "UNSUPPORTED" =>
           Refusable(req[c]) \/ changed[c] \/ Meets(failed'[c], {"para", "shared_memory"}),
         a = "NO_RESOURCES" =>
           \/ Underivable(req[c])
           \/ Meets(failed'[c], {"uvm", "uvm_open", "fallback", "handle", "mmap"})
           \/ ~MayFallBack(cur[c].heap) /\ ("heap" \in failed'[c] \/ cur[c].heap \notin Heaps)
  PROVE  ServiceInv'
<1>1. /\ Others(c) /\ ServiceTypes'
      /\ pc'[c] = "idle" /\ bufs'[c] = << >> /\ decoder'[c] = NoParameters
      /\ cur'[c].heap = cur[c].heap /\ answer'[c] = a /\ req'[c] = req[c]
      /\ \A n, u : <<c, n, u>> \notin open'
  BY AnswerIsLocal DEF ServiceInv
<1>2. UNCHANGED <<para, slot, mine>> /\ changed' = changed
  BY DEF Works, Fails, slot_vars, history
<1>3. Held(c)' = {}
  BY <1>1, NoneHeld DEF Held
<1>4. Stage(c)' /\ Memory(c)'
  BY <1>1, <1>3 DEF Stage, Memory, Made
<1>5. Params(c)' /\ Steady(c)' /\ Usage(c)'
  BY <1>1 DEF Params, Steady, Usage, Divides, NoParameters
<1>6. Explained(c)'
  BY <1>1, <1>2 DEF Explained
<1>7. OpenTypes'
  BY DEF ServiceInv, OpenTypes, Answer
<1> QED
  BY <1>1, <1>2, <1>4, <1>5, <1>6, <1>7, OneRequest DEF Good

\* A failing call is one of the calls that failed.
LEMMA FailureIsKept ==
  ASSUME NEW c \in Callers, NEW call, ServiceInv, Fails(c, call)
  PROVE  failed'[c] = failed[c] \cup {call}
  BY DEF ServiceInv, ServiceTypes, Fails

\* Only allocate gets to its loop with what cannot be derived.
LEMMA NotDerivableInv ==
  ASSUME NEW c \in Callers, ServiceInv, NotDerivable(c)
  PROVE  ServiceInv'
<1>1. /\ pc[c] = "loop" /\ ~req[c].derivable /\ Answer(c, "NO_RESOURCES") /\ UNCHANGED req /\ Works
  BY DEF NotDerivable
<1>2. Underivable(req[c])
  BY <1>1 DEF ServiceInv, Good, Explained, Underivable
<1> QED
  BY <1>1, <1>2, AnswerInv

LEMMA PlainAnswersInv ==
  ASSUME NEW c \in Callers, ServiceInv, BadDescriptor(c) \/ Deliver(c)
  PROVE  ServiceInv'
<1>1. \E a \in {"BAD_DESCRIPTOR", "ok"} : Answer(c, a) /\ UNCHANGED req /\ Works /\ pc[c] # "idle"
  BY DEF BadDescriptor, Deliver
<1> QED
  BY <1>1, AnswerInv

\* Every call whose failure ends the request explains the answer.
LEMMA FailuresInv ==
  ASSUME NEW c \in Callers, ServiceInv,
         \/ UvmFails(c) \/ FallbackFails(c) \/ HandleFails(c) \/ MmapFails(c) \/ SharedMemoryFails(c)
  PROVE  ServiceInv'
<1>1. ASSUME UvmFails(c) \/ FallbackFails(c) \/ HandleFails(c) \/ MmapFails(c)
      PROVE  ServiceInv'
  <2>1. PICK call \in {"uvm", "fallback", "handle", "mmap"} :
          Fails(c, call) /\ Answer(c, "NO_RESOURCES") /\ UNCHANGED req /\ pc[c] # "idle"
    BY <1>1 DEF UvmFails, FallbackFails, HandleFails, MmapFails
  <2>2. Meets(failed'[c], {"uvm", "uvm_open", "fallback", "handle", "mmap"})
    BY <2>1, FailureIsKept DEF Meets
  <2> QED
    BY <2>1, <2>2, AnswerInv
<1>2. ASSUME SharedMemoryFails(c) PROVE ServiceInv'
  <2>1. /\ Fails(c, "shared_memory") /\ Answer(c, "UNSUPPORTED") /\ UNCHANGED req
        /\ pc[c] # "idle"
    BY <1>2 DEF SharedMemoryFails
  <2>2. Meets(failed'[c], {"para", "shared_memory"})
    BY <2>1, FailureIsKept DEF Meets
  <2> QED
    BY <2>1, <2>2, AnswerInv
<1> QED
  BY <1>1, <1>2

-----------------------------------------------------------------------------
(* Stages of a request that only move on                                   *)

\* The parts of the invariant that a move does not touch, but for its stage.
LEMMA MoveInv ==
  ASSUME NEW c \in Callers, NEW where \in Stages \ {"idle", "arrived", "metadata"}, ServiceInv,
         pc[c] # "idle", Proceed(c, where), UNCHANGED request, UNCHANGED open,
         Works \/ \E call : Fails(c, call),
         where = "loop" => pc[c] = "arrived",
         pc[c] = "arrived" => req[c].call = "allocate" \/ req[c].derivable,
         where \in {"uvm", "alloc", "fallback"} => pc[c] \in {"uvm", "alloc", "fallback"},
         where \in Made => pc[c] \in Made,
         where \in {"alloc", "fallback"} /\ metadata_usage(req[c].usage) => "uvm_open" \in failed'[c],
         where = "fallback" => MayFallBack(cur[c].heap)
  PROVE  ServiceInv'
<1>1. Others(c) /\ ServiceTypes' /\ pc'[c] = where
  BY MoveIsLocal DEF ServiceInv
<1>2. /\ UNCHANGED <<para, slot, mine>> /\ changed' = changed
      /\ failed[c] \subseteq failed'[c] /\ UNCHANGED <<req, decoder, cur, bufs, open, answer>>
  BY HistoryIsLocal DEF ServiceInv, Works, Fails, slot_vars, history, request, Proceed
<1>3. Stage(c)'
  BY <1>1, <1>2 DEF ServiceInv, Good, Stage, Held, Made
<1>4. Memory(c)'
  <2>1. \A b : Trusted(c, b) => Trusted(c, b)'
    BY <1>2 DEF Trusted
  <2> QED
    BY <1>1, <1>2, <2>1 DEF ServiceInv, Good, Memory, Held, Made
<1>5. Params(c)'
  BY <1>1, <1>2 DEF ServiceInv, Good, Params, Divides
<1>6. Steady(c)'
  <2>1. Given(c)' = Given(c)
    BY <1>2 DEF Given, decode_slot_id
  <2>2. \A b : AsGiven(c, b) => AsGiven(c, b)'
    BY <1>2, <2>1 DEF AsGiven
  <2> QED
    BY <1>1, <1>2, <2>1, <2>2 DEF ServiceInv, Good, Steady, Held, Derived, Made
<1>7. Explained(c)' /\ Usage(c)'
  BY <1>1, <1>2 DEF ServiceInv, Good, Explained, Usage, Meets
<1>8. OpenTypes'
  BY <1>2 DEF ServiceInv, OpenTypes
<1> QED
  BY <1>1, <1>2, <1>3, <1>4, <1>5, <1>6, <1>7, <1>8, OneRequest DEF Good

LEMMA StaticInit == Init => StaticIsOfAHeap
  BY DEF Init, StaticIsOfAHeap

\* Whichever request came first, it asked for one of the two heaps for protected memory.
LEMMA StaticOfIsSupported ==
  ASSUME NEW c \in Callers, StaticIsOfAHeap, IsSupported(c)
  PROVE  StaticIsOfAHeap'
<1>1. \A f : ~HasProtectedHeap(f) => ~({"codec_mm", "protected"} \subseteq Heaps)
  BY DEF HasProtectedHeap, am_gralloc_pick_dma_buf_heap
<1> QED
  BY <1>1 DEF IsSupported, StaticIsOfAHeap

LEMMA StaticInv == StaticIsOfAHeap /\ [Next]_vars => StaticIsOfAHeap'
<1> SUFFICES ASSUME StaticIsOfAHeap, [Next]_vars PROVE StaticIsOfAHeap'
  OBVIOUS
<1>1. ASSUME NEW c \in Callers, Serve(c), ~IsSupported(c)
      PROVE  protected' \in {protected, "unknown"}
  <2>1. CASE BadDescriptor(c) \/ Decoded(c) \/ DebugLog(c) \/ Deliver(c) \/ Derive(c) \/ NotDerivable(c)
    BY <2>1 DEF BadDescriptor, Decoded, DebugLog, Deliver, Derive, NotDerivable
  <2>2. CASE AllocUvm(c) \/ UvmFails(c) \/ NotForUvm(c) \/ NoUvmDevice(c)
    BY <2>2 DEF AllocUvm, UvmFails, NotForUvm, NoUvmDevice
  <2>3. CASE AllocHeap(c) \/ NoHeap(c) \/ HeapFails(c) \/ Fallback(c) \/ FallbackFails(c)
    BY <2>3 DEF AllocHeap, Allocated, NoHeap, HeapFails, Refused, Fallback, FallbackFails
  <2>4. CASE MakeHandle(c) \/ HandleFails(c) \/ DivideByZero(c)
    BY <2>4 DEF MakeHandle, HandleFails, DivideByZero
  <2>5. CASE SharedMemory(c) \/ SharedMemoryFails(c) \/ MmapFails(c) \/ InitMetadata(c)
    BY <2>5 DEF SharedMemory, SharedMemoryFails, MmapFails, InitMetadata
  <2> QED
    BY <1>1, <2>1, <2>2, <2>3, <2>4, <2>5 DEF Serve
<1>2. ASSUME NEW c \in Callers, Request(c) PROVE protected' = protected
  BY <1>2 DEF Request
<1>3. ASSUME NEW d \in Decoders, Decode(d) PROVE protected' = protected
  BY <1>3 DEF Decode
<1>4. CASE UNCHANGED vars
  BY <1>4 DEF vars, service, StaticIsOfAHeap
<1> QED
  BY <1>1, <1>2, <1>3, <1>4, StaticOfIsSupported DEF Next, StaticIsOfAHeap

\* allocate2 refuses a request for one of the reasons that Refusable names.
LEMMA RefusalInv ==
  ASSUME NEW c \in Callers, ServiceInv, StaticIsOfAHeap', IsSupported(c), Answer(c, "UNSUPPORTED"),
         \/ ~req[c].derivable
         \/ "PROTECTED" \in req[c].usage /\ protected' # "yes"
         \/ ~supported_options(c)
  PROVE  ServiceInv'
<1>1. pc[c] = "arrived" /\ UNCHANGED req /\ Works /\ req[c].call = "allocate2"
  BY DEF IsSupported
<1>2. Refusable(req[c])
  <2>1. CASE ~req[c].derivable \/ ~supported_options(c)
    BY <1>1, <2>1 DEF Refusable, RefusedUntried, supported_options
  <2>2. CASE req[c].derivable /\ "PROTECTED" \in req[c].usage /\ protected' # "yes"
    <3>1. protected' = "no"
      BY <2>2 DEF IsSupported, StaticIsOfAHeap
    <3> QED
      BY <1>1, <2>2, <3>1 DEF Refusable, StaticIsOfAHeap
  <2> QED
    BY <2>1, <2>2
<1> QED
  BY <1>1, <1>2, AnswerInv

LEMMA ArrivesInv ==
  ASSUME NEW c \in Callers, ServiceInv, StaticIsOfAHeap', Decoded(c) \/ IsSupported(c) \/ DebugLog(c)
  PROVE  ServiceInv'
<1>1. ASSUME pc[c] = "arrived", Proceed(c, "loop"), Works, UNCHANGED request, UNCHANGED open,
             req[c].call = "allocate" \/ req[c].derivable
      PROVE  ServiceInv'
  <2>1. /\ "loop" \in Stages \ {"idle", "arrived", "metadata"}
        /\ "loop" \notin {"uvm", "alloc", "fallback"} /\ "loop" \notin Made
    BY DEF Stages, Made
  <2> QED
    BY <1>1, <2>1, MoveInv
<1>2. CASE Decoded(c)
  BY <1>1, <1>2 DEF Decoded
<1>3. CASE DebugLog(c)
  <2>1. /\ pc[c] = "arrived" /\ Answer(c, "UNSUPPORTED") /\ UNCHANGED req /\ Works
        /\ Refusable(req[c])
    BY <1>3 DEF DebugLog, Refusable, RefusedUntried
  <2> QED
    BY <2>1, AnswerInv
<1>4. CASE IsSupported(c)
  <2> DEFINE Passes == /\ req[c].derivable
                       /\ "PROTECTED" \in req[c].usage => protected' = "yes"
                       /\ supported_options(c)
  <2>1. /\ pc[c] = "arrived" /\ Works /\ UNCHANGED req
        /\ IF Passes THEN Proceed(c, "loop") /\ UNCHANGED <<decoder, cur, bufs, open>>
           ELSE Answer(c, "UNSUPPORTED")
    BY <1>4 DEF IsSupported
  <2>2. CASE Passes
    BY <1>1, <2>1, <2>2 DEF request
  <2>3. CASE ~Passes
    <3>1. Answer(c, "UNSUPPORTED")
      BY <2>1, <2>3
    <3>2. \/ ~req[c].derivable
          \/ "PROTECTED" \in req[c].usage /\ protected' # "yes"
          \/ ~supported_options(c)
      BY <2>3
    <3> QED
      BY <1>4, <3>1, <3>2, RefusalInv
  <2> QED
    BY <2>2, <2>3
<1> QED
  BY <1>2, <1>3, <1>4

LEMMA NotForUvmInv ==
  ASSUME NEW c \in Callers, ServiceInv, NotForUvm(c)
  PROVE  ServiceInv'
<1>1. /\ pc[c] = "uvm" /\ Proceed(c, "alloc") /\ UNCHANGED request /\ UNCHANGED open /\ Works
      /\ ~metadata_usage(req[c].usage)
  BY DEF NotForUvm, ForUvm
<1> QED
  BY <1>1, MoveInv DEF Stages, Made

\* uvm_buffer_flag may be anything: the request ends, or takes no video buffer.
LEMMA NoUvmDeviceInv ==
  ASSUME NEW c \in Callers, ServiceInv, NoUvmDevice(c)
  PROVE  ServiceInv'
<1>1. /\ pc[c] = "uvm" /\ UNCHANGED req /\ Fails(c, "uvm_open") /\ "uvm_open" \in failed'[c]
      /\ Meets(failed'[c], {"uvm", "uvm_open", "fallback", "handle", "mmap"})
  BY FailureIsKept DEF NoUvmDevice, Meets
<1>2. CASE Proceed(c, "alloc") /\ UNCHANGED <<decoder, cur, bufs, open>>
  <2>1. UNCHANGED request /\ UNCHANGED open
    BY <1>1, <1>2 DEF request
  <2> QED
    BY <1>1, <1>2, <2>1, MoveInv DEF Stages, Made
<1>3. CASE Answer(c, "NO_RESOURCES")
  BY <1>1, <1>3, AnswerInv
<1> QED
  BY <1>2, <1>3 DEF NoUvmDevice

\* A heap that does not serve the request: another one does, or there is no fallback.
LEMMA RefusedInv ==
  ASSUME NEW c \in Callers, ServiceInv, NoHeap(c) \/ HeapFails(c)
  PROVE  ServiceInv'
<1>1. pc[c] = "alloc" /\ Refused(c) /\ UNCHANGED req /\ (Works \/ Fails(c, "heap"))
  BY DEF NoHeap, HeapFails, Refused
<1>2. cur[c].heap \notin Heaps \/ "heap" \in failed'[c]
  BY FailureIsKept DEF NoHeap, HeapFails
<1>3. CASE MayFallBack(cur[c].heap)
  <2>1. Proceed(c, "fallback") /\ UNCHANGED request /\ UNCHANGED open
    BY <1>1, <1>3 DEF Refused, request
  <2>2. metadata_usage(req[c].usage) => "uvm_open" \in failed'[c]
    BY <1>1, HistoryIsLocal DEF ServiceInv, Good, Memory
  <2> QED
    BY <1>1, <1>3, <2>1, <2>2, MoveInv DEF Stages, Made
<1>4. CASE ~MayFallBack(cur[c].heap)
  <2>1. Answer(c, "NO_RESOURCES")
    BY <1>1, <1>4 DEF Refused
  <2> QED
    BY <1>1, <1>2, <1>4, <2>1, AnswerInv
<1> QED
  BY <1>3, <1>4

\* Stages that open a descriptor for the buffer being made.
LEMMA OpenMoveInv ==
  ASSUME NEW c \in Callers, NEW where \in {"shared_memory", "metadata"}, ServiceInv,
         pc[c] \in Made, Proceed(c, where), UNCHANGED request, Works,
         NEW fd \in {"share", "extend", "share_attr"}, Opens(c, fd),
         where = "metadata" => fd = "share_attr"
  PROVE  ServiceInv'
<1>1. Others(c) /\ ServiceTypes' /\ pc'[c] = where
  BY MoveIsLocal DEF ServiceInv, Stages
<1>2. UNCHANGED <<para, slot, mine, changed, failed, req, decoder, cur, bufs, answer>>
  BY DEF Works, slot_vars, history, request, Proceed
<1>3. Stage(c)'
  <2>1. \A n, u : <<c, n, u>> \in open' <=>
                    <<c, n, u>> \in open \/ (n = Len(bufs[c]) + 1 /\ u = fd)
    BY OpensIsLocal
  <2> QED
    BY <1>1, <1>2, <2>1 DEF ServiceInv, Good, Stage, Held, Made
<1>4. Memory(c)'
  <2>1. \A b : Trusted(c, b) => Trusted(c, b)'
    BY <1>2 DEF Trusted
  <2> QED
    BY <1>1, <1>2, <2>1 DEF ServiceInv, Good, Memory, Held, Made
<1>5. Params(c)'
  BY <1>1, <1>2 DEF ServiceInv, Good, Params, Divides, Made
<1>6. Steady(c)'
  <2>1. Given(c)' = Given(c)
    BY <1>2 DEF Given, decode_slot_id
  <2>2. \A b : AsGiven(c, b) => AsGiven(c, b)'
    BY <1>2, <2>1 DEF AsGiven
  <2> QED
    BY <1>1, <1>2, <2>1, <2>2 DEF ServiceInv, Good, Steady, Held, Derived, Made
<1>7. Explained(c)' /\ Usage(c)'
  BY <1>1, <1>2 DEF ServiceInv, Good, Explained, Usage, Meets, Made
<1>8. OpenTypes'
  BY OpensKeepsTypes DEF ServiceInv
<1> QED
  BY <1>1, <1>2, <1>3, <1>4, <1>5, <1>6, <1>7, <1>8, OneRequest DEF Good

LEMMA MakeHandleInv ==
  ASSUME NEW c \in Callers, ServiceInv, MakeHandle(c)
  PROVE  ServiceInv'
<1>1. pc[c] = "handle" /\ Proceed(c, "shared_memory") /\ UNCHANGED request
  BY DEF MakeHandle
<1>2. CASE Opens(c, "extend") /\ Works
  BY <1>1, <1>2, OpenMoveInv DEF Made
<1>3. CASE UNCHANGED open /\ Fails(c, "dup")
  BY <1>1, <1>3, MoveInv DEF Made, Stages
<1> QED
  BY <1>2, <1>3 DEF MakeHandle

LEMMA SharedMemoryInv ==
  ASSUME NEW c \in Callers, ServiceInv, SharedMemory(c)
  PROVE  ServiceInv'
<1>1. /\ pc[c] = "shared_memory" /\ Proceed(c, "metadata") /\ UNCHANGED request /\ Works
      /\ Opens(c, "share_attr")
  BY DEF SharedMemory
<1> QED
  BY <1>1, OpenMoveInv DEF Made

-----------------------------------------------------------------------------
(* The buffer being made                                                   *)

\* Without a slot the parameters stay what they were: none.
LEMMA UnsetIsNone ==
  [type |-> NoParameters.type, para |-> [NoParameters.para EXCEPT !.align = 0]] = NoParameters
  BY DEF NoParameters, ZeroPara

\* The parameters are those that the driver gives, or the read of them failed.
LEMMA DeriveShape ==
  ASSUME NEW c \in Callers, ServiceInv, Derive(c)
  PROVE  \E d, heap :
           /\ decoder' = [decoder EXCEPT ![c] = d]
           /\ heap \in am_gralloc_pick_dma_buf_heap(req[c].usage, req[c].format)
           /\ cur' = [cur EXCEPT ![c] = Planned(heap, am_gralloc_set_buffer_flags(heap, req[c].usage),
                                               StrideOf(d, req[c].usage))]
           /\ \/ Works /\ d = Given(c)
              \/ Fails(c, "para") /\ d.type = decoder[c].type /\ "USING_SLOT" \in req[c].usage
<1> DEFINE usage == req[c].usage
           got == para[decode_slot_id(usage)]
           unset == [type |-> decoder[c].type, para |-> [decoder[c].para EXCEPT !.align = 0]]
           Reads(d) ==
             /\ decoder' = [decoder EXCEPT ![c] = d]
             /\ \E heap \in am_gralloc_pick_dma_buf_heap(usage, req[c].format) :
                  cur' = [cur EXCEPT ![c] = Planned(heap, am_gralloc_set_buffer_flags(heap, usage),
                                                    StrideOf(d, usage))]
<1>1. \/ "USING_SLOT" \notin usage /\ Reads(unset) /\ Works
      \/ "USING_SLOT" \in usage /\ Reads([type |-> ParaType(got), para |-> got]) /\ Works
      \/ "USING_SLOT" \in usage /\ Reads(unset) /\ Fails(c, "para")
  BY DEF Derive
<1> SUFFICES \E d : /\ Reads(d)
                    /\ \/ Works /\ d = Given(c)
                       \/ Fails(c, "para") /\ d.type = decoder[c].type /\ "USING_SLOT" \in usage
  OBVIOUS
<1> HIDE DEF Reads
<1>2. CASE "USING_SLOT" \notin usage /\ Reads(unset) /\ Works
  <2>1. decoder[c] = NoParameters /\ Given(c) = NoParameters
    BY <1>2 DEF ServiceInv, Good, Params, Given
  <2>2. unset = Given(c)
    BY <2>1, UnsetIsNone
  <2> QED
    BY <1>2, <2>2
<1>3. CASE "USING_SLOT" \in usage /\ Reads([type |-> ParaType(got), para |-> got]) /\ Works
  <2>1. Given(c) = [type |-> ParaType(got), para |-> got]
    BY <1>3 DEF Given
  <2> QED
    BY <1>3, <2>1
<1>4. CASE "USING_SLOT" \in usage /\ Reads(unset) /\ Fails(c, "para")
  <2>1. unset.type = decoder[c].type
    OBVIOUS
  <2> QED
    BY <1>4, <2>1
<1> QED
  BY <1>1, <1>2, <1>3, <1>4

\* The driver's parameters make the allocator divide by no alignment of 0.
LEMMA GivenDivides ==
  ASSUME NEW c \in Callers, Given(c).type \in {"WxH", "BOTH"}
  PROVE  Given(c).para.align # 0
  BY DEF Given, ParaType, valid_wh, NoParameters, ZeroPara

LEMMA DeriveInv ==
  ASSUME NEW c \in Callers, ServiceInv, Derive(c)
  PROVE  ServiceInv'
<1> DEFINE usage == req[c].usage
<1>1. PICK d, heap :
        /\ decoder' = [decoder EXCEPT ![c] = d]
        /\ heap \in am_gralloc_pick_dma_buf_heap(usage, req[c].format)
        /\ cur' = [cur EXCEPT ![c] = Planned(heap, am_gralloc_set_buffer_flags(heap, usage),
                                            StrideOf(d, usage))]
        /\ \/ Works /\ d = Given(c)
           \/ Fails(c, "para") /\ d.type = decoder[c].type /\ "USING_SLOT" \in usage
  BY DeriveShape
<1> DEFINE b == Planned(heap, am_gralloc_set_buffer_flags(heap, usage), StrideOf(d, usage))
<1>2. b.heap = heap /\ b.flags = am_gralloc_set_buffer_flags(heap, usage) /\ b.stride = StrideOf(d, usage)
  BY DEF Planned
<1> HIDE DEF b
<1>3. pc[c] = "loop" /\ Proceed(c, "uvm") /\ UNCHANGED <<req, bufs>> /\ UNCHANGED open
  BY DEF Derive
<1>4. cur' = [cur EXCEPT ![c] = b] /\ (Works \/ Fails(c, "para"))
  BY <1>1 DEF b
<1>5. /\ Others(c) /\ ServiceTypes'
      /\ pc'[c] = "uvm" /\ cur'[c] = b
  BY <1>1, <1>3, <1>4, MakeIsLocal DEF ServiceInv, Stages
<1>6. /\ UNCHANGED <<para, slot, mine>> /\ changed' = changed
      /\ failed[c] \subseteq failed'[c] /\ UNCHANGED <<req, bufs, open, answer>>
      /\ decoder'[c] = d
  BY <1>1, <1>3, <1>4, HistoryIsLocal DEF ServiceInv, ServiceTypes, Works, Fails, slot_vars, history, Proceed
<1>7. \/ Works /\ d = Given(c)
      \/ "para" \in failed'[c] /\ d.type = decoder[c].type /\ "USING_SLOT" \in usage
  BY <1>1, FailureIsKept
<1>8. Stage(c)'
  BY <1>3, <1>5, <1>6 DEF ServiceInv, Good, Stage, Held, Made
<1>9. Memory(c)'
  <2>1. \A x : Trusted(c, x) => Trusted(c, x)'
    BY <1>6 DEF Trusted
  <2>2. \A i \in Held(c)' : Trusted(c, bufs[c][i])'
    BY <1>6, <2>1 DEF ServiceInv, Good, Memory, Held
  <2> QED
    BY <1>1, <1>2, <1>5, <1>6, <2>2 DEF Memory, Made
<1>10. Params(c)'
  <2>1. "USING_SLOT" \notin req'[c].usage => decoder'[c] = NoParameters
    BY <1>6, <1>7 DEF Given
  <2>2. ASSUME d.type \in {"WxH", "BOTH"}, d.para.align = 0
        PROVE  "para" \in failed'[c] /\ bufs'[c] # << >>
    <3>1. d # Given(c)
      BY <2>2, GivenDivides
    <3>2. "para" \in failed'[c] /\ d.type = decoder[c].type
      BY <1>7, <3>1
    <3>3. decoder[c] # NoParameters
      BY <2>2, <3>2 DEF NoParameters
    <3> QED
      BY <1>3, <1>6, <3>2, <3>3 DEF ServiceInv, Good, Params
  <2> QED
    BY <1>5, <1>6, <2>1, <2>2 DEF Params, Divides
<1>11. Steady(c)'
  <2>1. Given(c)' = Given(c)
    BY <1>6 DEF Given, decode_slot_id
  <2>2. \A x : AsGiven(c, x) => AsGiven(c, x)'
    BY <1>6, <2>1 DEF AsGiven
  <2>3. ASSUME "para" \notin failed'[c]
        PROVE  decoder'[c] = Given(c) /\ cur'[c].stride = StrideOf(Given(c), req[c].usage)
    BY <1>2, <1>5, <1>6, <1>7, <2>3
  <2> QED
    BY <1>3, <1>5, <1>6, <2>1, <2>2, <2>3 DEF ServiceInv, Good, Steady, Held, Made
<1>12. Explained(c)' /\ Usage(c)'
  BY <1>3, <1>5, <1>6 DEF ServiceInv, Good, Explained, Usage
<1>13. OpenTypes'
  BY <1>6 DEF ServiceInv, OpenTypes
<1> QED
  BY <1>5, <1>6, <1>8, <1>9, <1>10, <1>11, <1>12, <1>13, OneRequest DEF Good

\* Memory is found.
LEMMA BackedInv ==
  ASSUME NEW c \in Callers, NEW b, ServiceInv, pc[c] \in {"uvm", "alloc", "fallback"},
         cur' = [cur EXCEPT ![c] = b], b.stride = cur[c].stride,
         Opens(c, "share"), Proceed(c, "handle"), Works, UNCHANGED <<req, decoder, bufs>>,
         Trusted(c, b),
         ~changed[c] /\ "para" \notin failed[c] => AsGiven(c, b)
  PROVE  ServiceInv'
<1>1. Others(c) /\ ServiceTypes' /\ pc'[c] = "handle" /\ cur'[c] = b
  BY MakeIsLocal DEF ServiceInv, Stages
<1>2. UNCHANGED <<para, slot, mine, changed, failed, req, decoder, bufs, answer>>
  BY DEF Works, slot_vars, history, Proceed
<1>3. Stage(c)'
  <2>1. \A n, u : <<c, n, u>> \in open' <=>
                    <<c, n, u>> \in open \/ (n = Len(bufs[c]) + 1 /\ u = "share")
    BY OpensIsLocal
  <2> QED
    BY <1>1, <1>2, <2>1 DEF ServiceInv, Good, Stage, Held, Made
<1>4. Memory(c)'
  <2>1. \A x : Trusted(c, x) => Trusted(c, x)'
    BY <1>2 DEF Trusted
  <2> QED
    BY <1>1, <1>2, <2>1 DEF ServiceInv, Good, Memory, Held, Made
<1>5. Params(c)'
  BY <1>1, <1>2 DEF ServiceInv, Good, Params, Divides
<1>6. Steady(c)'
  <2>1. Given(c)' = Given(c)
    BY <1>2 DEF Given, decode_slot_id
  <2>2. \A x : AsGiven(c, x) => AsGiven(c, x)'
    BY <1>2, <2>1 DEF AsGiven
  <2> QED
    BY <1>1, <1>2, <2>1, <2>2 DEF ServiceInv, Good, Steady, Held, Derived, Made
<1>7. Explained(c)' /\ Usage(c)'
  BY <1>1, <1>2 DEF ServiceInv, Good, Explained, Usage, Meets, Made
<1>8. OpenTypes'
  BY OpensKeepsTypes DEF ServiceInv
<1> QED
  BY <1>1, <1>2, <1>3, <1>4, <1>5, <1>6, <1>7, <1>8, OneRequest DEF Good

\* Which heap the usage picks, as far as the flags go.
LEMMA PickedHeap ==
  ASSUME NEW usage, NEW format, NEW heap \in am_gralloc_pick_dma_buf_heap(usage, format)
  PROVE  /\ heap \in Contiguous \cup {"protected", "system", "system_uncached"}
         /\ "PROTECTED" \in usage => heap \in {"codec_mm", "protected"}
         /\ heap = "protected" => "PROTECTED" \in usage
  BY DEF am_gralloc_pick_dma_buf_heap, Contiguous

LEMMA FlagsOfHeap ==
  ASSUME NEW heap, NEW usage, NEW flags, flags = am_gralloc_set_buffer_flags(heap, usage)
  PROVE  /\ "UVM_BUFFER" \notin flags
         /\ "CONTINUOUS_BUF" \in flags <=> (heap \in Contiguous \/ "PROTECTED" \in usage)
         /\ "SECURE_PROTECTED" \in flags <=> "PROTECTED" \in usage
<1>1. flags = UNION {IF heap \in Contiguous THEN Coherent ELSE {},
                     IF metadata_usage(usage) THEN {"VIDEO_OVERLAY", "VIDEO_OMX"} ELSE {},
                     IF "PROTECTED" \in usage THEN {"SECURE_PROTECTED", "CONTINUOUS_BUF"} ELSE {}}
  BY DEF am_gralloc_set_buffer_flags
<1>2. \A f : f \in flags <=>
               \/ heap \in Contiguous /\ f \in Coherent
               \/ metadata_usage(usage) /\ f \in {"VIDEO_OVERLAY", "VIDEO_OMX"}
               \/ "PROTECTED" \in usage /\ f \in {"SECURE_PROTECTED", "CONTINUOUS_BUF"}
  BY <1>1
<1> QED
  BY <1>2 DEF Coherent

LEMMA AllocHeapInv ==
  ASSUME NEW c \in Callers, ServiceInv, AllocHeap(c)
  PROVE  ServiceInv'
<1> DEFINE b == Backed(cur[c], cur[c].heap, cur[c].flags, {}, 0, "")
<1>1. /\ pc[c] = "alloc" /\ cur' = [cur EXCEPT ![c] = b]
      /\ Opens(c, "share") /\ Proceed(c, "handle") /\ Works /\ UNCHANGED <<req, decoder, bufs>>
  BY DEF AllocHeap, Allocated
<1>2. /\ b.heap = cur[c].heap /\ b.mem = cur[c].heap /\ b.flags = cur[c].flags
      /\ b.stride = cur[c].stride
  BY DEF Backed
<1> HIDE DEF b
<1>3. /\ cur[c].heap \in am_gralloc_pick_dma_buf_heap(req[c].usage, req[c].format)
      /\ cur[c].flags = am_gralloc_set_buffer_flags(cur[c].heap, req[c].usage)
      /\ metadata_usage(req[c].usage) => "uvm_open" \in failed[c]
  BY <1>1 DEF ServiceInv, Good, Memory
<1>4. b.mem # "uvm"
  BY <1>2, <1>3, PickedHeap DEF Contiguous
<1>5. Trusted(c, b)
  BY <1>2, <1>3, <1>4, PickedHeap, FlagsOfHeap DEF Trusted, Contiguous
<1> QED
  BY <1>1, <1>2, <1>4, <1>5, BackedInv DEF AsGiven

\* The flags of the heap that failed are taken back.
LEMMA FallbackInv ==
  ASSUME NEW c \in Callers, ServiceInv, Fallback(c)
  PROVE  ServiceInv'
<1> DEFINE b == Backed(cur[c], "system", FallbackFlags(cur[c].flags), {}, 0, "")
<1>1. /\ pc[c] = "fallback" /\ cur' = [cur EXCEPT ![c] = b]
      /\ Opens(c, "share") /\ Proceed(c, "handle") /\ Works /\ UNCHANGED <<req, decoder, bufs>>
  BY DEF Fallback, Allocated
<1>2. /\ b.heap = cur[c].heap /\ b.mem = "system" /\ b.flags = cur[c].flags \ Coherent
      /\ b.stride = cur[c].stride
  BY DEF Backed, FallbackFlags
<1> HIDE DEF b
<1>3. /\ cur[c].heap \in am_gralloc_pick_dma_buf_heap(req[c].usage, req[c].format)
      /\ cur[c].flags = am_gralloc_set_buffer_flags(cur[c].heap, req[c].usage)
      /\ metadata_usage(req[c].usage) => "uvm_open" \in failed[c]
      /\ cur[c].heap \in {"gfx", "system_uncached", "protected"}
  BY <1>1 DEF ServiceInv, Good, Memory, MayFallBack
<1>4. "CONTINUOUS_BUF" \notin b.flags /\ "UVM_BUFFER" \notin b.flags
  BY <1>2, <1>3, FlagsOfHeap DEF Coherent
<1>5. "SECURE_PROTECTED" \in b.flags => b.heap = "protected"
  BY <1>2, <1>3, PickedHeap, FlagsOfHeap
<1>6. Trusted(c, b)
  BY <1>2, <1>3, <1>4, <1>5 DEF Trusted, Contiguous
<1> QED
  BY <1>1, <1>2, <1>6, BackedInv DEF AsGiven

\* What UVM is asked for follows the parameters.
LEMMA AllocUvmInv ==
  ASSUME NEW c \in Callers, ServiceInv, AllocUvm(c)
  PROVE  ServiceInv'
<1> DEFINE b == Backed(cur[c], "uvm", cur[c].flags \cup {"UVM_BUFFER"}, UvmFlags(c), Scalar(c), Scaled(c))
<1>1. /\ pc[c] = "uvm" /\ cur' = [cur EXCEPT ![c] = b]
      /\ Opens(c, "share") /\ Proceed(c, "handle") /\ Works /\ UNCHANGED <<req, decoder, bufs>>
  BY DEF AllocUvm
<1>2. /\ b.heap = cur[c].heap /\ b.mem = "uvm" /\ b.flags = cur[c].flags \cup {"UVM_BUFFER"}
      /\ b.stride = cur[c].stride /\ b.uvm = UvmFlags(c) /\ b.scalar = Scalar(c)
      /\ b.scaled = Scaled(c)
  BY DEF Backed
<1> HIDE DEF b
<1>3. Trusted(c, b)
  BY <1>2 DEF Trusted, Contiguous
<1>4. ASSUME ~changed[c], "para" \notin failed[c] PROVE AsGiven(c, b)
  <2>1. decoder[c] = Given(c)
    BY <1>1, <1>4 DEF ServiceInv, Good, Steady, Derived
  <2>2. Given(c).type # "NONE" => b.scalar = 2
    BY <1>2, <2>1 DEF Scalar
  <2>3. Given(c).type # "NONE" => "DELAY_ALLOC" \notin b.uvm
    BY <1>2, <2>1 DEF UvmFlags
  <2>4. /\ Given(c).type = "WxH" => b.scaled = "width*height"
        /\ Given(c).type \in {"SIZE", "BOTH"} => b.scaled = "size"
    BY <1>2, <2>1 DEF Scaled
  <2>5. "SKIP_REALLOC" \in b.uvm <=>
          \/ Given(c).para.compress = 0 \/ osd_usage(req[c].usage)
          \/ full_usage(req[c].usage) /\ req[c].format = "INTERNAL_P010"
    BY <1>2, <2>1 DEF UvmFlags
  <2> QED
    BY <2>2, <2>3, <2>4, <2>5 DEF AsGiven
<1> QED
  BY <1>1, <1>2, <1>3, <1>4, BackedInv

\* The first buffer's stride is that of every other.
LEMMA InitMetadataInv ==
  ASSUME NEW c \in Callers, ServiceInv, InitMetadata(c)
  PROVE  ServiceInv'
<1>1. pc[c] = "metadata" /\ Works /\ UNCHANGED req
  BY DEF InitMetadata
<1>2. CASE StrideDiffers(c)
  <2>1. Answer(c, "UNSUPPORTED")
    BY <1>2 DEF InitMetadata
  <2>2. changed[c] \/ "para" \in failed[c]
    <3>1. SUFFICES ASSUME ~changed[c], "para" \notin failed[c] PROVE FALSE
      OBVIOUS
    <3>2. 1 \in Held(c)
      <4>1. PICK S : bufs[c] \in Seq(S)
        BY DEF ServiceInv, ServiceTypes
      <4> QED
        BY <1>2, <4>1 DEF Held, StrideDiffers
    <3> QED
      BY <1>1, <1>2, <3>1, <3>2 DEF ServiceInv, Good, Steady, Derived, Made, StrideDiffers
  <2>3. failed' = failed
    BY <1>1 DEF Works, history
  <2> QED
    BY <1>1, <2>1, <2>2, <2>3, AnswerInv DEF Meets
<1>3. CASE ~StrideDiffers(c)
  <2>1. /\ bufs' = [bufs EXCEPT ![c] = Append(@, cur[c])]
        /\ Proceed(c, "loop") /\ UNCHANGED <<decoder, cur, open>>
    BY <1>3 DEF InitMetadata
  <2>2. /\ Others(c) /\ ServiceTypes'
        /\ pc'[c] = "loop" /\ bufs'[c] # << >>
        /\ Len(bufs[c]) \in Nat /\ Len(bufs'[c]) = Len(bufs[c]) + 1
        /\ \A i \in 1..Len(bufs[c]) : bufs'[c][i] = bufs[c][i]
        /\ bufs'[c][Len(bufs[c]) + 1] = cur[c]
    BY <1>1, <2>1, AppendIsLocal DEF ServiceInv
  <2>3. UNCHANGED <<para, slot, mine, changed, failed, req, decoder, cur, open, answer>>
    BY <1>1, <2>1 DEF Works, slot_vars, history, Proceed
  <2>4. \A i \in Held(c)' :
          \/ i \in Held(c) /\ bufs'[c][i] = bufs[c][i]
          \/ i = Len(bufs[c]) + 1 /\ bufs'[c][i] = cur[c]
    BY <2>2 DEF Held
  <2>5. Stage(c)'
    BY <1>1, <2>2, <2>3, <2>4 DEF ServiceInv, Good, Stage, Made
  <2>6. Memory(c)'
    <3>1. \A x : Trusted(c, x) => Trusted(c, x)'
      BY <2>3 DEF Trusted
    <3> QED
      BY <1>1, <2>2, <2>3, <2>4, <3>1 DEF ServiceInv, Good, Memory, Made
  <2>7. Params(c)'
    BY <1>1, <2>2, <2>3 DEF ServiceInv, Good, Params, Divides
  <2>8. Steady(c)'
    <3>1. Given(c)' = Given(c)
      BY <2>3 DEF Given, decode_slot_id
    <3>2. \A x : AsGiven(c, x) => AsGiven(c, x)'
      BY <2>3, <3>1 DEF AsGiven
    <3> QED
      BY <1>1, <2>2, <2>3, <2>4, <3>1, <3>2 DEF ServiceInv, Good, Steady, Derived, Made
  <2>9. Explained(c)' /\ Usage(c)'
    BY <1>1, <2>2, <2>3 DEF ServiceInv, Good, Explained, Usage, Meets
  <2>10. OpenTypes'
    BY <2>3 DEF ServiceInv, OpenTypes
  <2> QED
    BY <2>2, <2>3, <2>5, <2>6, <2>7, <2>8, <2>9, <2>10, OneRequest DEF Good
<1> QED
  BY <1>2, <1>3

-----------------------------------------------------------------------------
(* The division by zero, new requests, and the decoders                    *)

LEMMA DiesInv ==
  ASSUME ServiceInv, Dies
  PROVE  ServiceInv'
<1>1. UNCHANGED <<para, slot, mine, failed, changed>> /\ UNCHANGED req
  BY DEF Dies, Works, slot_vars, history
<1>2. ASSUME NEW c \in Callers PROVE Good(c)'
  <2>1. /\ pc'[c] = "idle" /\ bufs'[c] = << >> /\ decoder'[c] = NoParameters
        /\ cur'[c] = NoBuffer /\ answer'[c] \in {answer[c], "DEAD_OBJECT"}
        /\ \A n, u : <<c, n, u>> \notin open'
    BY DEF Dies
  <2>2. Held(c)' = {}
    BY <2>1, NoneHeld DEF Held
  <2>3. Stage(c)' /\ Memory(c)'
    BY <2>1, <2>2 DEF Stage, Memory, Made
  <2>4. Params(c)' /\ Steady(c)' /\ Usage(c)'
    BY <2>1 DEF Params, Steady, Usage, Divides, NoParameters
  <2>5. Explained(c)'
    <3>1. cur'[c].heap \notin Heaps /\ ~MayFallBack(cur'[c].heap)
      <4>1. NoBuffer.heap = ""
        BY DEF NoBuffer, Planned
      <4> QED
        BY <2>1, <4>1, ServiceAssumption DEF MayFallBack
    <3>2. answer'[c] = "NO_RESOURCES" => cur'[c].heap \notin Heaps /\ ~MayFallBack(cur'[c].heap)
      BY <3>1
    <3>3. answer'[c] = "UNSUPPORTED" =>
            Refusable(req'[c]) \/ changed'[c] \/ Meets(failed'[c], {"para", "shared_memory"})
      BY <1>1, <2>1 DEF ServiceInv, Good, Explained
    <3> QED
      BY <2>1, <3>2, <3>3 DEF Explained
  <2> QED
    BY <2>3, <2>4, <2>5 DEF Good
<1>3. ServiceTypes' /\ OpenTypes'
  BY DeathTypes DEF ServiceInv, Dies, OpenTypes
<1>4. MineSet'
  BY <1>1 DEF ServiceInv, MineSet
<1> QED
  BY <1>2, <1>3, <1>4 DEF ServiceInv

LEMMA DivideByZeroInv ==
  ASSUME NEW c \in Callers, ServiceInv, DivideByZero(c)
  PROVE  ServiceInv'
<1>1. CASE Opens(c, "extend") /\ Proceed(c, "shared_memory")
           /\ UNCHANGED <<decoder, cur, bufs, protected>>
  <2>1. pc[c] = "handle" /\ UNCHANGED request /\ Works
    BY <1>1 DEF DivideByZero, request
  <2> QED
    BY <1>1, <2>1, OpenMoveInv DEF Made
<1>2. CASE Dies
  BY <1>2, DiesInv
<1> QED
  BY <1>1, <1>2 DEF DivideByZero, Dies

LEMMA SlotBitsUseASlot == \A s : "USING_SLOT" \in SlotBits(s)
  BY DEF SlotBits

LEMMA DecoderAsks ==
  ASSUME NEW c, NEW r \in Asks(c), r \notin AppRequests
  PROVE  /\ c \in Decoders
         /\ \E call \in {"allocate", "allocate2"}, f \in YuvFormats, derivable \in BOOLEAN :
              r = Asked(call, {"DECODER", "HW_TEXTURE"} \cup compose_slot_id(c), f, derivable, FALSE, FALSE)
<1> DEFINE A(call, f, derivable) ==
             Asked(call, {"DECODER", "HW_TEXTURE"} \cup compose_slot_id(c), f, derivable, FALSE, FALSE)
           Calls == {"allocate", "allocate2"}
           Rs == {A(call, f, derivable) : call \in Calls, f \in YuvFormats, derivable \in BOOLEAN}
<1>1. Asks(c) = AppRequests \cup (IF c \in Decoders THEN Rs ELSE {})
  BY DEF Asks
<1>2. c \in Decoders /\ r \in Rs
  <2> HIDE DEF Rs
  <2> QED
    BY <1>1
<1>3. \E call \in Calls, f \in YuvFormats, derivable \in BOOLEAN : r = A(call, f, derivable)
  <2> HIDE DEF A, Calls
  <2> QED
    BY <1>2, SMT
<1>4. c \in Decoders
  BY <1>2
<1> QED
  BY <1>3, <1>4

\* A decoder names the slot that it holds, other callers name none.
LEMMA RequestInv ==
  ASSUME NEW c \in Callers, ServiceInv, SlotTypeOK, Request(c)
  PROVE  ServiceInv'
<1>1. PICK count \in Counts, r \in Asks(c) :
        req' = [req EXCEPT ![c] = [r EXCEPT !.count = count]]
  BY DEF Request
<1>2. /\ pc[c] = "idle" /\ pc' = [pc EXCEPT ![c] = "arrived"]
      /\ answer' = [answer EXCEPT ![c] = "none"]
      /\ failed' = [failed EXCEPT ![c] = {}] /\ changed' = [changed EXCEPT ![c] = FALSE]
      /\ UNCHANGED <<para, slot, mine, decoder, cur, bufs, open>>
  BY DEF Request, slot_vars
<1>3. Others(c) /\ ServiceTypes'
  <2>1. Others(c)
    BY <1>1, <1>2 DEF Others, ServiceInv, ServiceTypes
  <2>2. ServiceTypes'
    BY <1>1, <1>2 DEF ServiceInv, ServiceTypes, Stages
  <2> QED
    BY <2>1, <2>2
<1>4. /\ pc'[c] = "arrived" /\ answer'[c] = "none" /\ bufs'[c] = << >>
      /\ decoder'[c] = NoParameters /\ req'[c].usage = r.usage /\ req'[c].format = r.format
      /\ \A n, u : <<c, n, u>> \notin open'
  <2>1. req'[c] = [r EXCEPT !.count = count]
    BY <1>1 DEF ServiceInv, ServiceTypes
  <2>6. [r EXCEPT !.count = count].usage = r.usage /\ [r EXCEPT !.count = count].format = r.format
    <3>1. CASE r \in AppRequests
      BY <3>1, ServiceAssumption
    <3>2. CASE r \notin AppRequests
      <4>1. PICK call \in {"allocate", "allocate2"}, f \in YuvFormats, derivable \in BOOLEAN :
              r = Asked(call, {"DECODER", "HW_TEXTURE"} \cup compose_slot_id(c), f, derivable, FALSE, FALSE)
        BY <3>2, DecoderAsks
      <4> QED
        BY <4>1 DEF Asked
    <3> QED
      BY <3>1, <3>2
  <2>2. pc'[c] = "arrived" /\ answer'[c] = "none"
    BY <1>2 DEF ServiceInv, ServiceTypes
  <2>3. Stage(c) /\ Params(c)
    BY DEF ServiceInv, Good
  <2>4. bufs'[c] = << >> /\ decoder'[c] = NoParameters
    BY <1>2, <2>3 DEF Stage, Params
  <2>5. \A n, u : <<c, n, u>> \notin open'
    BY <1>2, <2>3 DEF Stage
  <2> QED
    BY <2>1, <2>2, <2>4, <2>5, <2>6
<1>5. Held(c)' = {}
  BY <1>4, NoneHeld DEF Held
<1>6. Stage(c)' /\ Memory(c)'
  BY <1>4, <1>5 DEF Stage, Memory, Made
<1>7. Params(c)' /\ Steady(c)' /\ Explained(c)'
  BY <1>4, <1>5 DEF Params, Divides, Steady, Derived, Made, NoParameters, Explained
<1>8. Usage(c)'
  <2>1. CASE r \in AppRequests
    BY <1>4, <2>1, ServiceAssumption DEF Usage
  <2>2. CASE r \notin AppRequests
    <3>1. /\ c \in Decoders
          /\ \E call \in {"allocate", "allocate2"}, f \in YuvFormats, derivable \in BOOLEAN :
               r = Asked(call, {"DECODER", "HW_TEXTURE"} \cup compose_slot_id(c), f, derivable, FALSE, FALSE)
      BY <2>2, DecoderAsks
    <3>2. r.usage = {"DECODER", "HW_TEXTURE"} \cup compose_slot_id(c) /\ r.format \in YuvFormats
      BY <3>1 DEF Asked
    <3>3. ASSUME "USING_SLOT" \in r.usage
          PROVE  slot[c] \in Slots /\ compose_slot_id(c) = SlotBits(slot[c])
      <4>1. compose_slot_id(c) # {}
        BY <3>2, <3>3
      <4>2. slot[c] # NoSlot /\ compose_slot_id(c) = SlotBits(slot[c])
        BY <4>1 DEF compose_slot_id
      <4> QED
        BY <3>1, <4>2 DEF SlotTypeOK
    <3>4. slot' = slot
      BY <1>2
    <3> QED
      BY <1>4, <3>1, <3>2, <3>3, <3>4 DEF Usage
  <2> QED
    BY <2>1, <2>2
<1>9. OpenTypes'
  BY <1>2 DEF ServiceInv, OpenTypes
<1> QED
  BY <1>2, <1>3, <1>6, <1>7, <1>8, <1>9, OneRequest DEF Good

\* What a decoder does to the slots of the others, and what it sets.
LEMMA SlotStepIsLocal ==
  ASSUME NEW d \in Decoders, SlotTypeOK, MineSet, SlotStep(d)
  PROVE  MineSet' /\ \A e \in Decoders \ {d} : slot'[e] = slot[e]
<1>1. CASE SetParameters(d)
  <2>1. PICK p \in Paras[d] :
          Nonzero(p) /\ mine' = [mine EXCEPT ![d] = IF faults' = faults THEN p ELSE @]
    BY <1>1 DEF SetParameters
  <2> QED
    BY <1>1, <2>1 DEF SetParameters, MineSet, SlotTypeOK
<1>2. CASE \/ GetSlotId(d) \/ FindSlot(d) \/ NoSlotLeft(d) \/ ProbeUvm(d)
           \/ CheckParameters(d) \/ ResetParameters(d)
  BY <1>2 DEF GetSlotId, FindSlot, NoSlotLeft, ProbeUvm, CheckParameters, ResetParameters, MineSet
<1>3. CASE MarkSlot(d) \/ FreeSlot(d)
  BY <1>3 DEF MarkSlot, FreeSlot, MineSet, SlotTypeOK
<1> QED
  BY <1>1, <1>2, <1>3 DEF SlotStep

LEMMA DecodeInv ==
  ASSUME NEW d \in Decoders, ServiceInv, SlotTypeOK, Decode(d)
  PROVE  ServiceInv'
<1>1. /\ MineSet' /\ \A e \in Decoders \ {d} : slot'[e] = slot[e]
      /\ d \in Callers /\ pc[d] # "idle" => slot'[d] = slot[d]
  BY SlotStepIsLocal DEF Decode, ServiceInv
<1>2. /\ UNCHANGED <<pc, req, decoder, cur, bufs, open, answer, failed>>
      /\ changed' = [c \in Callers |-> changed[c] \/ (pc[c] # "idle" /\ ParaChanges(req[c].usage))]
  BY DEF Decode, request
<1>3. ServiceTypes'
  <2>1. changed' \in [Callers -> BOOLEAN]
    <3>1. \A c \in Callers : changed[c] \/ (pc[c] # "idle" /\ ParaChanges(req[c].usage)) \in BOOLEAN
      OBVIOUS
    <3> QED
      BY <1>2, <3>1 DEF ServiceInv, ServiceTypes
  <2> QED
    BY <1>2, <2>1 DEF ServiceInv, ServiceTypes
<1>4. ASSUME NEW c \in Callers PROVE Good(c)'
  <2>1. /\ changed[c] => changed'[c]
        /\ pc[c] # "idle" /\ ParaChanges(req[c].usage) => changed'[c]
    BY <1>2
  <2>2. Stage(c)' /\ Params(c)'
    BY <1>2 DEF ServiceInv, Good, Stage, Params, Held, Divides
  <2>3. Memory(c)'
    <3>1. \A b : Trusted(c, b) => Trusted(c, b)'
      BY <1>2 DEF Trusted
    <3> QED
      BY <1>2, <3>1 DEF ServiceInv, Good, Memory, Held
  <2>4. Steady(c)'
    <3>1. CASE ParaChanges(req[c].usage)
      BY <1>2, <2>1, <3>1 DEF Steady
    <3>2. CASE ~ParaChanges(req[c].usage)
      <4>1. Given(c)' = Given(c)
        BY <1>2, <3>2 DEF Given, decode_slot_id, ParaChanges
      <4>2. \A b : AsGiven(c, b) => AsGiven(c, b)'
        BY <1>2, <4>1 DEF AsGiven
      <4> QED
        BY <1>2, <2>1, <4>1, <4>2 DEF ServiceInv, Good, Steady, Held
    <3> QED
      BY <3>1, <3>2
  <2>5. Explained(c)'
    BY <1>2, <2>1 DEF ServiceInv, Good, Explained
  <2>6. Usage(c)'
    BY <1>1, <1>2 DEF ServiceInv, Good, Usage
  <2> QED
    BY <2>2, <2>3, <2>4, <2>5, <2>6 DEF Good
<1>5. OpenTypes'
  BY <1>2 DEF ServiceInv, OpenTypes
<1> QED
  BY <1>1, <1>3, <1>4, <1>5 DEF ServiceInv

-----------------------------------------------------------------------------
(* The invariant holds                                                     *)

LEMMA ServiceInvInit == Init => ServiceInv
<1> SUFFICES ASSUME Init PROVE ServiceInv
  OBVIOUS
<1>1. ServiceTypes /\ OpenTypes
  BY ServiceTypesInit DEF Init, OpenTypes
<1>2. MineSet
  BY DEF Init, SlotInit, MineSet
<1>3. ASSUME NEW c \in Callers PROVE Good(c)
  <2>1. /\ pc[c] = "idle" /\ bufs[c] = << >> /\ decoder[c] = NoParameters /\ answer[c] = "none"
        /\ \A n, u : <<c, n, u>> \notin open
    BY DEF Init
  <2>2. Held(c) = {}
    BY <2>1, NoneHeld DEF Held
  <2>3. Stage(c) /\ Memory(c) /\ Explained(c)
    BY <2>1, <2>2 DEF Stage, Memory, Explained, Made
  <2>4. Params(c) /\ Steady(c) /\ Usage(c)
    BY <2>1 DEF Params, Divides, Steady, Usage, NoParameters
  <2> QED
    BY <2>3, <2>4 DEF Good
<1> QED
  BY <1>1, <1>2, <1>3 DEF ServiceInv

LEMMA ServeInv ==
  ASSUME NEW c \in Callers, ServiceInv, StaticIsOfAHeap', Serve(c)
  PROVE  ServiceInv'
  BY PlainAnswersInv, NotDerivableInv, FailuresInv, ArrivesInv, DeriveInv, AllocUvmInv, NotForUvmInv, NoUvmDeviceInv,
     AllocHeapInv, RefusedInv, FallbackInv, MakeHandleInv, DivideByZeroInv, SharedMemoryInv,
     InitMetadataInv DEF Serve

LEMMA ServiceInvStep == ServiceInv /\ SlotInv /\ StaticIsOfAHeap /\ [Next]_vars => ServiceInv'
<1> SUFFICES ASSUME ServiceInv, SlotInv, StaticIsOfAHeap, [Next]_vars PROVE ServiceInv'
  OBVIOUS
<1>1. ASSUME NEW c \in Callers, Request(c) PROVE ServiceInv'
  BY <1>1, RequestInv DEF SlotInv
<1>2. ASSUME NEW c \in Callers, Serve(c) PROVE ServiceInv'
  BY <1>2, ServeInv, StaticInv
<1>3. ASSUME NEW d \in Decoders, Decode(d) PROVE ServiceInv'
  BY <1>3, DecodeInv DEF SlotInv
<1>4. CASE UNCHANGED vars
  <2>1. /\ UNCHANGED <<pc, req, decoder, cur, bufs, open, answer, failed, changed>>
        /\ UNCHANGED <<slot, para, mine>>
    BY <1>4 DEF vars, service, request, history, slot_vars
  <2>2. ServiceTypes' /\ OpenTypes' /\ MineSet'
    BY <2>1 DEF ServiceInv, ServiceTypes, OpenTypes, MineSet
  <2>3. ASSUME NEW c \in Callers PROVE Good(c)'
    <3>1. Given(c)' = Given(c)
      BY <2>1 DEF Given, decode_slot_id
    <3>2. \A b : (AsGiven(c, b) => AsGiven(c, b)') /\ (Trusted(c, b) => Trusted(c, b)')
      BY <2>1, <3>1 DEF AsGiven, Trusted
    <3>3. Stage(c)' /\ Memory(c)' /\ Params(c)'
      BY <2>1, <3>2 DEF ServiceInv, Good, Stage, Memory, Params, Held, Divides
    <3>4. Steady(c)' /\ Explained(c)' /\ Usage(c)'
      BY <2>1, <3>1, <3>2 DEF ServiceInv, Good, Steady, Explained, Usage, Held
    <3> QED
      BY <3>3, <3>4 DEF Good
  <2> QED
    BY <2>2, <2>3 DEF ServiceInv
<1> QED
  BY <1>1, <1>2, <1>3, <1>4 DEF Next

LEMMA ServiceInvAlways == Spec => [](SlotInv /\ ServiceInv /\ StaticIsOfAHeap)
<1>1. Init => SlotInv /\ ServiceInv /\ StaticIsOfAHeap
  BY SlotInvInit, ServiceInvInit, StaticInit DEF Init
<1>2. SlotInv /\ ServiceInv /\ StaticIsOfAHeap /\ [Next]_vars
        => (SlotInv /\ ServiceInv /\ StaticIsOfAHeap)'
  BY SlotInvStep, ServiceInvStep, StaticInv
<1> QED
  BY <1>1, <1>2, PTL DEF Spec

-----------------------------------------------------------------------------
(* Theorems                                                                *)

\* allocate closes what it opened: for any number of callers and buffers and whatever calls fail, a
\* descriptor is open only for a request under way, and those of its complete buffers are.
THEOREM AllDescriptorsAreClosed == Spec => []NothingLeaks
<1>1. ServiceInv => NothingLeaks
  <2> SUFFICES ASSUME ServiceInv PROVE NothingLeaks
    OBVIOUS
  <2>1. ASSUME NEW fd \in open PROVE pc[fd[1]] # "idle"
    <3>1. fd = <<fd[1], fd[2], fd[3]>> /\ fd[1] \in Callers
      BY DEF ServiceInv, OpenTypes
    <3> QED
      BY <3>1 DEF ServiceInv, Good, Stage
  <2>2. \A c \in Callers : \A i \in Held(c) : {<<c, i, "share">>, <<c, i, "share_attr">>} \subseteq open
    BY DEF ServiceInv, Good, Stage
  <2> QED
    BY <2>1, <2>2 DEF NothingLeaks
<1> QED
  BY <1>1, ServiceInvAlways, PTL

\* allocator_allocate and its fallback: the flags of every handle tell where its memory is from,
\* for any set of heaps, usages and failing calls.
THEOREM HandlesTellTheTruth == Spec => []FlagsTellMemory
<1>1. ServiceInv => FlagsTellMemory
  BY DEF ServiceInv, Good, Memory, Trusted, FlagsTellMemory
<1> QED
  BY <1>1, ServiceInvAlways, PTL

\* allocate and allocate2: for any set of heaps and of callers, NO_RESOURCES and UNSUPPORTED have one
\* of the causes that ErrorsAreExplained lists: what was asked for, a call of the system that failed,
\* a heap that the kernel lacks, or a decoder that set its parameters meanwhile.
THEOREM NoErrorWithoutACause == Spec => []ErrorsAreExplained
<1>1. ServiceInv => ErrorsAreExplained
  BY DEF ServiceInv, Good, Explained, Refusable, Underivable, FailsAsUnsupported, ErrorsAreExplained
<1> QED
  BY <1>1, ServiceInvAlways, PTL

\* need_mmap divides by zero only if am_gralloc_get_uvm_decoder_para failed for a later buffer of a
\* request, whatever parameters the decoders of the process set meanwhile.
THEOREM OnlyStaleParametersDivide == Spec => []DividesOnlyByStaleZero
<1>1. ServiceInv => DividesOnlyByStaleZero
  BY DEF ServiceInv, Good, Params, DividesOnlyByStaleZero
<1> QED
  BY <1>1, ServiceInvAlways, PTL

\* The five usage bits tell the 32 slots apart.
LEMMA SlotBitsAreDistinct ==
  ASSUME NEW s \in Slots, NEW t \in Slots, SlotBits(s) = SlotBits(t)
  PROVE  s = t
<1>1. s \in 0..31 /\ t \in 0..31
  BY SlotAssumption DEF Slots
<1>2. ASSUME NEW n \in 0..31
      PROVE  /\ "CURSOR" \in SlotBits(n) <=> n % 2 = 1
             /\ "SENSOR_DIRECT_DATA" \in SlotBits(n) <=> (n \div 2) % 2 = 1
             /\ "PRIVATE_2" \in SlotBits(n) <=> (n \div 4) % 2 = 1
             /\ "PRIVATE_7" \in SlotBits(n) <=> (n \div 8) % 2 = 1
             /\ "PRIVATE_6" \in SlotBits(n) <=> (n \div 16) % 2 = 1
  BY DEF SlotBits
<1>3. /\ s % 2 = t % 2 /\ (s \div 2) % 2 = (t \div 2) % 2 /\ (s \div 4) % 2 = (t \div 4) % 2
      /\ (s \div 8) % 2 = (t \div 8) % 2 /\ (s \div 16) % 2 = (t \div 16) % 2
  BY <1>1, <1>2
<1> QED
  BY <1>1, <1>3

\* A request with the bits of a slot reads the parameters of that slot.
LEMMA SlotIsDecoded ==
  ASSUME NEW s \in Slots
  PROVE  decode_slot_id({"DECODER", "HW_TEXTURE"} \cup SlotBits(s)) = s
<1>1. SlotBits(31) = {"USING_SLOT", "CURSOR", "SENSOR_DIRECT_DATA", "PRIVATE_2", "PRIVATE_7", "PRIVATE_6"}
  BY DEF SlotBits
<1>2. SlotBits(s) \subseteq SlotBits(31) /\ "DECODER" \notin SlotBits(31) /\ "HW_TEXTURE" \notin SlotBits(31)
  BY <1>1 DEF SlotBits
<1>3. ({"DECODER", "HW_TEXTURE"} \cup SlotBits(s)) \cap SlotBits(31) = SlotBits(s)
  BY <1>2
<1>4. \A t \in Slots : SlotBits(t) = SlotBits(s) => t = s
  BY SlotBitsAreDistinct
<1> QED
  BY <1>3, <1>4 DEF decode_slot_id

\* am_gralloc_get_slot_id, am_gralloc_set_parameters and allocate together: among any number of
\* decoders, one gets video buffers of the parameters it set if it was alone in taking its slot, sets
\* no others until its buffers are made, and the service can read the parameters.
THEOREM DecodersGetWhatTheyAsked == Spec => []MadeAsTheDecoderAsked
<1> DEFINE Alike(c, b, p) ==
             /\ p.size # 0 => b.scaled = "size" /\ b.scalar = 2
             /\ p.size = 0 /\ p.dim # 0 => b.scaled = "width*height" /\ b.scalar = 2
             /\ Nonzero(p) => "DELAY_ALLOC" \notin b.uvm
             /\ p.align # 0 => b.stride = p.align
             /\ p.compress = 0 <=> "SKIP_REALLOC" \in b.uvm
<1>1. ASSUME SlotInv, ServiceInv, NEW c \in Decoders \cap Callers, NEW i \in Held(c),
             pc[c] # "idle", slot[c] # NoSlot, "USING_SLOT" \in req[c].usage,
             slot[c] \notin crossed, ~changed[c], "para" \notin failed[c], bufs[c][i].mem = "uvm"
      PROVE  Alike(c, bufs[c][i], mine[c])
  <2> DEFINE b == bufs[c][i]
             p == mine[c]
  <2>1. /\ slot[c] \in Slots /\ req[c].usage = {"DECODER", "HW_TEXTURE"} \cup SlotBits(slot[c])
        /\ req[c].format \in YuvFormats
    BY <1>1 DEF ServiceInv, Good, Usage
  <2>2. para[slot[c]] = p
    BY <1>1, <2>1 DEF SlotInv, Sound, HeldBy
  <2>3. Given(c) = [type |-> ParaType(p), para |-> p]
    BY <1>1, <2>1, <2>2, SlotIsDecoded DEF Given
  <2>4. b.stride = StrideOf(Given(c), req[c].usage) /\ AsGiven(c, b)
    BY <1>1 DEF ServiceInv, Good, Steady
  <2>5. p \in Para /\ (p = ZeroPara \/ Nonzero(p))
    BY <1>1 DEF SlotInv, SlotTypeOK, ServiceInv, MineSet
  <2>6. ~osd_usage(req[c].usage) /\ req[c].format # "INTERNAL_P010"
    BY <2>1 DEF osd_usage, SlotBits, YuvFormats
  <2>7. /\ p.size # 0 => ParaType(p) \in {"SIZE", "BOTH"}
        /\ p.size = 0 /\ p.dim # 0 => ParaType(p) = "WxH"
        /\ Nonzero(p) => ParaType(p) # "NONE"
    BY <2>5 DEF ParaType, valid_wh, Nonzero, ZeroPara, Para
  <2>8. p.align # 0 => b.stride = p.align
    BY <2>3, <2>4 DEF StrideOf
  <2>9. p.compress = 0 <=> "SKIP_REALLOC" \in b.uvm
    BY <1>1, <2>3, <2>4, <2>6 DEF AsGiven
  <2> QED
    BY <1>1, <2>3, <2>4, <2>7, <2>8, <2>9 DEF AsGiven
<1>2. SlotInv /\ ServiceInv => MadeAsTheDecoderAsked
  BY <1>1 DEF MadeAsTheDecoderAsked
<1> QED
  BY <1>2, ServiceInvAlways, PTL
=============================================================================
