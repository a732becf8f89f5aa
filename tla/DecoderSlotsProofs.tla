------------------------- MODULE DecoderSlotsProofs --------------------------
(***************************************************************************)
(* Proofs about the decoder slots for any number of decoders and slots, as *)
(* a part of the system that AllocService specifies.                       *)
(*                                                                         *)
(* A slot that no two calls worked on at a time has either one holder, or one *)
(* call that works on it while the table says that it is free, or neither: *)
(* what happens to other slots does not matter to it.                      *)
(***************************************************************************)
EXTENDS AllocService, TLAPS

-----------------------------------------------------------------------------
(* The inductive invariant                                                 *)

\* The slots that others took stay theirs, whatever calls overlap.
Apart ==
  /\ \A s \in Taken : status[s] = 1
  /\ \A d \in Decoders : /\ slot[d] \notin Taken
                         /\ dpc[d] \in {"probe", "mark", "reset"} => at[d] \in Slots \ Taken

\* A slot that is worked on is free in the table, has no holder, and one call at a time works on it.
WorkedOn(s) ==
  \A d \in Decoders : WorksOn(d, s) =>
    /\ status[s] = 0
    /\ \A e \in Decoders : slot[e] # s /\ (WorksOn(e, s) => e = d)

HeldBy(s) ==
  \A d \in Decoders : slot[d] = s =>
    /\ status[s] = 1 /\ para[s] = mine[d]
    /\ \A e \in Decoders : slot[e] = s => e = d

\* A slot is marked only after its parameters were cleared.
Cleared(s) == \A d \in Decoders : WorksOn(d, s) /\ dpc[d] = "mark" => para[s] = ZeroPara

Sound(s) == WorkedOn(s) /\ HeldBy(s) /\ Cleared(s)

SlotInv == SlotTypeOK /\ Apart /\ \A s \in Slots \ crossed : Sound(s)

LEMMA ZeroIsPara == ZeroPara \in Para
  BY DEF ZeroPara, Para

LEMMA SlotArithmetic ==
  /\ SlotNum \in Nat /\ NoSlot \notin Slots
  /\ \A s \in Slots : s + 1 \in Slots \cup {NoSlot}
  BY SlotAssumption DEF Slots, NoSlot

LEMMA SlotInvInit == SlotInit => SlotInv
<1> SUFFICES ASSUME SlotInit PROVE SlotInv
  OBVIOUS
<1> USE SlotAssumption, ZeroIsPara, SlotArithmetic DEF SlotInit
<1>1. SlotTypeOK
  <2>1. 0 \in 0..MaxFaults
    OBVIOUS
  <2>2. \A s \in Slots : status[s] \in {0, 1}
    OBVIOUS
  <2> QED
    BY <2>1, <2>2 DEF SlotTypeOK
<1>2. Apart
  BY DEF Apart, Slots, NoSlot
<1>3. \A s \in Slots : Sound(s)
  BY DEF Sound, WorkedOn, HeldBy, Cleared, WorksOn
<1> QED
  BY <1>1, <1>2, <1>3 DEF SlotInv

-----------------------------------------------------------------------------
(* One lemma per step of a decoder                                         *)

\* A slot stays sound if the step changes nothing of it.
Same(s) ==
  /\ status'[s] = status[s] /\ para'[s] = para[s]
  /\ \A d \in Decoders : /\ WorksOn(d, s)' => WorksOn(d, s) /\ (dpc'[d] = "mark" => dpc[d] = "mark")
                         /\ slot'[d] = s => slot[d] = s /\ mine'[d] = mine[d]

LEMMA SameKeeps ==
  ASSUME NEW s \in Slots, Sound(s), Same(s)
  PROVE  Sound(s)'
<1>1. WorkedOn(s)' /\ Cleared(s)'
  BY DEF Sound, WorkedOn, Cleared, Same
<1>2. HeldBy(s)'
  BY DEF Sound, HeldBy, Same
<1> QED
  BY <1>1, <1>2 DEF Sound

LEMMA GetSlotIdInv ==
  ASSUME NEW d \in Decoders, SlotInv, GetSlotId(d)
  PROVE  SlotInv'
<1> USE SlotArithmetic DEF GetSlotId, Go
<1>1. SlotTypeOK'
  <2>1. 0 \in Slots
    BY SlotAssumption DEF Slots
  <2> QED
    BY <2>1 DEF SlotInv, SlotTypeOK
<1>2. Apart'
  BY DEF SlotInv, SlotTypeOK, Apart
<1>3. ASSUME NEW s \in Slots PROVE Same(s)
  BY DEF SlotInv, SlotTypeOK, Same, WorksOn
<1> QED
  BY <1>1, <1>2, <1>3, SameKeeps DEF SlotInv

LEMMA FindSlotInv ==
  ASSUME NEW d \in Decoders, SlotInv, FindSlot(d)
  PROVE  SlotInv'
<1> USE SlotArithmetic DEF FindSlot, Go
<1>1. SlotTypeOK'
  BY DEF SlotInv, SlotTypeOK
<1>2. Apart'
  BY DEF SlotInv, SlotTypeOK, Apart, IsFree
<1>3. ASSUME NEW s \in Slots \ crossed', Sound(s) PROVE Sound(s)'
  <2>1. CASE IsFree(at[d]) /\ s = at[d]
    <3>1. \A e \in Decoders : ~WorksOn(e, s)
      BY <1>3, <2>1
    <3>2. status[s] = 0 /\ \A e \in Decoders : slot[e] # s
      BY <1>3, <2>1 DEF IsFree, Sound, HeldBy
    <3>3. \A e \in Decoders : WorksOn(e, s)' => e = d /\ dpc'[e] = "probe"
      BY <2>1, <3>1 DEF SlotInv, SlotTypeOK, WorksOn
    <3> QED
      BY <3>2, <3>3 DEF Sound, WorkedOn, HeldBy, Cleared
  <2>2. CASE ~(IsFree(at[d]) /\ s = at[d])
    <3>1. Same(s)
      BY <2>2 DEF SlotInv, SlotTypeOK, Same, WorksOn
    <3> QED
      BY <1>3, <3>1, SameKeeps
  <2> QED
    BY <2>1, <2>2
<1>4. crossed \subseteq crossed'
  OBVIOUS
<1> QED
  BY <1>1, <1>2, <1>3, <1>4 DEF SlotInv

LEMMA NoSlotLeftInv ==
  ASSUME NEW d \in Decoders, SlotInv, NoSlotLeft(d)
  PROVE  SlotInv'
<1> USE DEF NoSlotLeft, Go
<1>1. SlotTypeOK' /\ Apart'
  BY DEF SlotInv, SlotTypeOK, Apart
<1>2. ASSUME NEW s \in Slots PROVE Same(s)
  BY DEF SlotInv, SlotTypeOK, Same, WorksOn
<1> QED
  BY <1>1, <1>2, SameKeeps DEF SlotInv

\* A call of the driver either succeeds, or is counted among the faults.
LEMMA SetUvmParaType ==
  ASSUME NEW s \in Slots, NEW p \in Para, SlotTypeOK, SetUvmPara(s, p)
  PROVE  /\ para' \in [Slots -> Para] /\ faults' \in 0..MaxFaults
         /\ faults' = faults => para' = [para EXCEPT ![s] = p]
         /\ faults' # faults => para' = para
  BY SlotAssumption DEF SlotTypeOK, SetUvmPara, Fault

LEMMA ProbeUvmInv ==
  ASSUME NEW d \in Decoders, SlotInv, ProbeUvm(d)
  PROVE  SlotInv'
<1> USE SlotArithmetic, ZeroIsPara DEF ProbeUvm, Go
<1>1. at[d] \in Slots /\ WorksOn(d, at[d])
  BY DEF SlotInv, Apart, WorksOn
<1>2. /\ para' \in [Slots -> Para] /\ faults' \in 0..MaxFaults
      /\ faults' = faults => para' = [para EXCEPT ![at[d]] = ZeroPara]
      /\ faults' # faults => para' = para
  BY <1>1, SetUvmParaType DEF SlotInv
<1>3. SlotTypeOK' /\ Apart'
  BY <1>2 DEF SlotInv, SlotTypeOK, Apart
<1>4. ASSUME NEW s \in Slots, Sound(s) PROVE Sound(s)'
  <2>1. CASE s = at[d]
    <3>1. status[s] = 0 /\ \A e \in Decoders : slot[e] # s /\ (WorksOn(e, s) => e = d)
      BY <1>1, <1>4, <2>1 DEF Sound, WorkedOn
    <3>2. \A e \in Decoders : WorksOn(e, s)' => e = d /\ faults' = faults
      BY <1>1, <2>1, <3>1 DEF SlotInv, SlotTypeOK, WorksOn
    <3>3. faults' = faults => para'[s] = ZeroPara
      BY <1>2, <2>1 DEF SlotInv, SlotTypeOK
    <3> QED
      BY <3>1, <3>2, <3>3 DEF Sound, WorkedOn, HeldBy, Cleared
  <2>2. CASE s # at[d]
    <3>1. Same(s)
      BY <1>1, <1>2, <2>2 DEF SlotInv, SlotTypeOK, Same, WorksOn
    <3> QED
      BY <1>4, <3>1, SameKeeps
  <2> QED
    BY <2>1, <2>2
<1> QED
  BY <1>3, <1>4 DEF SlotInv

LEMMA MarkSlotInv ==
  ASSUME NEW d \in Decoders, SlotInv, MarkSlot(d)
  PROVE  SlotInv'
<1> USE SlotArithmetic, ZeroIsPara DEF MarkSlot, Go
<1>1. at[d] \in Slots \ Taken /\ WorksOn(d, at[d])
  BY DEF SlotInv, Apart, WorksOn
<1>2. SlotTypeOK' /\ Apart'
  BY <1>1 DEF SlotInv, SlotTypeOK, Apart
<1>3. ASSUME NEW s \in Slots, Sound(s) PROVE Sound(s)'
  <2>1. CASE s = at[d]
    <3>1. /\ para[s] = ZeroPara
          /\ \A e \in Decoders : slot[e] # s /\ (WorksOn(e, s) => e = d)
      BY <1>1, <1>3, <2>1 DEF Sound, WorkedOn, Cleared
    <3>2. \A e \in Decoders : ~WorksOn(e, s)'
      BY <2>1, <3>1 DEF SlotInv, SlotTypeOK, WorksOn
    <3>3. status'[s] = 1 /\ para'[s] = mine'[d] /\ \A e \in Decoders : slot'[e] = s => e = d
      BY <2>1, <3>1 DEF SlotInv, SlotTypeOK
    <3> QED
      BY <3>2, <3>3 DEF Sound, WorkedOn, HeldBy, Cleared
  <2>2. CASE s # at[d]
    <3>1. Same(s)
      BY <1>1, <2>2 DEF SlotInv, SlotTypeOK, Same, WorksOn
    <3> QED
      BY <1>3, <3>1, SameKeeps
  <2> QED
    BY <2>1, <2>2
<1> QED
  BY <1>2, <1>3 DEF SlotInv

LEMMA CheckParametersInv ==
  ASSUME NEW d \in Decoders, SlotInv, CheckParameters(d)
  PROVE  SlotInv'
<1> USE DEF CheckParameters, Go
<1>1. SlotTypeOK' /\ Apart'
  BY DEF SlotInv, SlotTypeOK, Apart
<1>2. ASSUME NEW s \in Slots PROVE Same(s)
  BY DEF SlotInv, SlotTypeOK, Same, WorksOn
<1> QED
  BY <1>1, <1>2, SameKeeps DEF SlotInv

LEMMA SetParametersInv ==
  ASSUME NEW d \in Decoders, SlotInv, SetParameters(d)
  PROVE  SlotInv'
<1> PICK p \in Paras[d] : /\ SetUvmPara(slot[d], p)
                          /\ mine' = [mine EXCEPT ![d] = IF faults' = faults THEN p ELSE @]
  BY DEF SetParameters
<1>1. p \in Para
  BY SlotAssumption
<1> USE SlotArithmetic, <1>1 DEF SetParameters, Go
<1>2. /\ para' \in [Slots -> Para] /\ faults' \in 0..MaxFaults
      /\ faults' = faults => para' = [para EXCEPT ![slot[d]] = p]
      /\ faults' # faults => para' = para
  <2>1. CASE slot[d] \in Slots
    BY <2>1, SetUvmParaType DEF SlotInv
  <2>2. CASE slot[d] \notin Slots
    BY <2>2, SlotAssumption DEF SlotInv, SlotTypeOK, SetUvmPara, Fault
  <2> QED
    BY <2>1, <2>2
<1>3. SlotTypeOK' /\ Apart'
  BY <1>2 DEF SlotInv, SlotTypeOK, Apart
<1>4. ASSUME NEW s \in Slots, Sound(s) PROVE Sound(s)'
  <2>1. CASE s = slot[d]
    <3>1. /\ status[s] = 1 /\ para[s] = mine[d]
          /\ \A e \in Decoders : slot[e] = s => e = d
      BY <1>4, <2>1 DEF Sound, HeldBy
    <3>2. \A e \in Decoders : ~WorksOn(e, s)
      BY <1>4, <2>1 DEF Sound, WorkedOn
    <3>3. \A e \in Decoders : ~WorksOn(e, s)'
      BY <3>2 DEF SlotInv, SlotTypeOK, WorksOn
    <3>4. para'[s] = mine'[d]
      BY <1>2, <2>1, <3>1 DEF SlotInv, SlotTypeOK
    <3> QED
      BY <3>1, <3>3, <3>4 DEF Sound, WorkedOn, HeldBy, Cleared
  <2>2. CASE s # slot[d]
    <3>1. Same(s)
      BY <1>2, <2>2 DEF SlotInv, SlotTypeOK, Same, WorksOn
    <3> QED
      BY <1>4, <3>1, SameKeeps
  <2> QED
    BY <2>1, <2>2
<1> QED
  BY <1>3, <1>4 DEF SlotInv

LEMMA FreeSlotInv ==
  ASSUME NEW d \in Decoders, SlotInv, FreeSlot(d)
  PROVE  SlotInv'
<1> USE SlotArithmetic DEF FreeSlot, Go
<1>1. slot[d] \in Slots \ Taken
  BY DEF SlotInv, SlotTypeOK, Apart
<1>2. SlotTypeOK' /\ Apart'
  BY <1>1, SlotAssumption DEF SlotInv, SlotTypeOK, Apart
<1>3. ASSUME NEW s \in Slots, Sound(s) PROVE Sound(s)'
  <2>1. CASE s = slot[d]
    <3>1. \A e \in Decoders : slot[e] = s => e = d
      BY <1>3, <2>1 DEF Sound, HeldBy
    <3>2. \A e \in Decoders : ~WorksOn(e, s)
      BY <1>3, <2>1 DEF Sound, WorkedOn
    <3>3. /\ status'[s] = 0
          /\ \A e \in Decoders : /\ slot'[e] # s
                                 /\ WorksOn(e, s)' => e = d /\ dpc'[e] = "reset"
      BY <2>1, <3>1, <3>2 DEF SlotInv, SlotTypeOK, WorksOn
    <3> QED
      BY <3>3 DEF Sound, WorkedOn, HeldBy, Cleared
  <2>2. CASE s # slot[d]
    <3>1. Same(s)
      BY <1>1, <2>2 DEF SlotInv, SlotTypeOK, Same, WorksOn
    <3> QED
      BY <1>3, <3>1, SameKeeps
  <2> QED
    BY <2>1, <2>2
<1> QED
  BY <1>2, <1>3 DEF SlotInv

LEMMA ResetParametersInv ==
  ASSUME NEW d \in Decoders, SlotInv, ResetParameters(d)
  PROVE  SlotInv'
<1> USE SlotArithmetic, ZeroIsPara DEF ResetParameters, Go
<1>1. at[d] \in Slots /\ WorksOn(d, at[d])
  BY DEF SlotInv, Apart, WorksOn
<1>2. /\ para' \in [Slots -> Para] /\ faults' \in 0..MaxFaults
      /\ faults' = faults => para' = [para EXCEPT ![at[d]] = ZeroPara]
      /\ faults' # faults => para' = para
  BY <1>1, SetUvmParaType DEF SlotInv
<1>3. SlotTypeOK' /\ Apart'
  BY <1>2 DEF SlotInv, SlotTypeOK, Apart
<1>4. ASSUME NEW s \in Slots, Sound(s) PROVE Sound(s)'
  <2>1. CASE s = at[d]
    <3>1. \A e \in Decoders : slot[e] # s /\ (WorksOn(e, s) => e = d)
      BY <1>1, <1>4, <2>1 DEF Sound, WorkedOn
    <3>2. \A e \in Decoders : ~WorksOn(e, s)'
      BY <2>1, <3>1 DEF SlotInv, SlotTypeOK, WorksOn
    <3> QED
      BY <3>1, <3>2 DEF Sound, WorkedOn, HeldBy, Cleared
  <2>2. CASE s # at[d]
    <3>1. Same(s)
      BY <1>1, <1>2, <2>2 DEF SlotInv, SlotTypeOK, Same, WorksOn
    <3> QED
      BY <1>4, <3>1, SameKeeps
  <2> QED
    BY <2>1, <2>2
<1> QED
  BY <1>3, <1>4 DEF SlotInv

-----------------------------------------------------------------------------
(* The steps of the service leave the slots alone, but for the count of    *)
(* the calls that failed.                                                  *)

SysCalls == {"para", "dup", "uvm", "uvm_open", "heap", "fallback", "handle", "shared_memory", "mmap"}

LEMMA UnchangedSlots ==
  ASSUME SlotInv, UNCHANGED <<dpc, at, slot, status, para, mine, crossed>>, faults' \in 0..MaxFaults
  PROVE  SlotInv'
<1>1. SlotTypeOK' /\ Apart'
  BY DEF SlotInv, SlotTypeOK, Apart
<1>2. ASSUME NEW s \in Slots PROVE Same(s)
  BY DEF Same, WorksOn
<1> QED
  BY <1>1, <1>2, SameKeeps DEF SlotInv

LEMMA ServiceKeepsSlots ==
  ASSUME SlotInv, Works \/ \E c \in Callers, call \in SysCalls : Fails(c, call)
  PROVE  SlotInv'
<1>1. UNCHANGED <<dpc, at, slot, status, para, mine, crossed>> /\ faults' \in 0..MaxFaults
  BY SlotAssumption DEF SlotInv, SlotTypeOK, Works, slot_vars, Fails
<1> QED
  BY <1>1, UnchangedSlots

LEMMA SlotStepInv ==
  ASSUME SlotInv, NEW d \in Decoders, SlotStep(d)
  PROVE  SlotInv'
  BY GetSlotIdInv, FindSlotInv, NoSlotLeftInv, ProbeUvmInv, MarkSlotInv, CheckParametersInv,
     SetParametersInv, FreeSlotInv, ResetParametersInv DEF SlotStep

LEMMA ServeKeepsSlots ==
  ASSUME NEW c \in Callers, Serve(c)
  PROVE  Works \/ \E call \in SysCalls : Fails(c, call)
<1>1. ASSUME DebugLog(c) \/ IsSupported(c) \/ BadDescriptor(c) \/ Decoded(c) \/ Deliver(c)
             \/ NotDerivable(c) \/ AllocUvm(c) \/ NotForUvm(c) \/ NoHeap(c) \/ DivideByZero(c) \/ SharedMemory(c) \/ InitMetadata(c)
      PROVE  Works
  BY <1>1 DEF DebugLog, IsSupported, BadDescriptor, Decoded, Deliver, NotDerivable, AllocUvm, NotForUvm, NoHeap,
     DivideByZero, SharedMemory, InitMetadata
<1>2. ASSUME AllocHeap(c) \/ Fallback(c) PROVE Works
  BY <1>2 DEF AllocHeap, Fallback, Allocated
<1>3. ASSUME Derive(c) PROVE Works \/ Fails(c, "para")
  BY <1>3 DEF Derive
<1>4. ASSUME MakeHandle(c) PROVE Works \/ Fails(c, "dup")
  BY <1>4 DEF MakeHandle
<1>5. ASSUME UvmFails(c) \/ NoUvmDevice(c) \/ HeapFails(c) \/ FallbackFails(c) \/ HandleFails(c)
             \/ SharedMemoryFails(c) \/ MmapFails(c)
      PROVE  \/ Fails(c, "uvm") \/ Fails(c, "uvm_open") \/ Fails(c, "heap") \/ Fails(c, "fallback")
             \/ Fails(c, "handle") \/ Fails(c, "shared_memory") \/ Fails(c, "mmap")
  BY <1>5 DEF UvmFails, NoUvmDevice, HeapFails, FallbackFails, HandleFails, SharedMemoryFails,
     MmapFails
<1>7. CASE \/ DebugLog(c) \/ IsSupported(c) \/ BadDescriptor(c) \/ Decoded(c) \/ Deliver(c)
           \/ NotDerivable(c) \/ AllocUvm(c) \/ NotForUvm(c) \/ NoHeap(c) \/ DivideByZero(c) \/ SharedMemory(c) \/ InitMetadata(c)
           \/ AllocHeap(c) \/ Fallback(c)
  BY <1>1, <1>2, <1>7
<1>8. CASE Derive(c) \/ MakeHandle(c)
  BY <1>3, <1>4, <1>8 DEF SysCalls
<1>9. CASE \/ UvmFails(c) \/ NoUvmDevice(c) \/ HeapFails(c) \/ FallbackFails(c) \/ HandleFails(c)
           \/ SharedMemoryFails(c) \/ MmapFails(c)
  BY <1>5, <1>9 DEF SysCalls
<1> QED
  BY <1>7, <1>8, <1>9 DEF Serve

LEMMA SlotInvStep == SlotInv /\ [Next]_vars => SlotInv'
<1> SUFFICES ASSUME SlotInv, [Next]_vars PROVE SlotInv'
  OBVIOUS
<1>1. ASSUME NEW c \in Callers, Request(c) PROVE SlotInv'
  BY <1>1, UnchangedSlots DEF Request, slot_vars, SlotInv, SlotTypeOK
<1>2. ASSUME NEW c \in Callers, Serve(c) PROVE SlotInv'
  BY <1>2, ServeKeepsSlots, ServiceKeepsSlots
<1>3. ASSUME NEW d \in Decoders, Decode(d) PROVE SlotInv'
  BY <1>3, SlotStepInv DEF Decode
<1>4. CASE UNCHANGED vars
  BY <1>4, UnchangedSlots DEF vars, slot_vars, SlotInv, SlotTypeOK
<1> QED
  BY <1>1, <1>2, <1>3, <1>4 DEF Next

\* The calls of am_gralloc_ext.cpp keep their variables well typed, whatever fails.
LEMMA SlotInvAlways == Spec => []SlotInv
<1>1. Init => SlotInv
  BY SlotInvInit DEF Init
<1> QED
  BY <1>1, SlotInvStep, PTL DEF Spec

-----------------------------------------------------------------------------
(* Theorems                                                                *)

\* am_gralloc_get_slot_id and am_gralloc_free_slot: for any number of decoders and of slots, a slot
\* has one holder and stays marked unless a decoder found that very slot free while another call
\* worked on it, whatever calls of the driver fail and whatever happens to other slots; and nobody
\* ever gets a slot that was taken before.
THEOREM SlotsStayExclusive == Spec => []SlotsAreExclusive
<1>1. SlotInv => SlotsAreExclusive
  BY DEF SlotInv, SlotTypeOK, Apart, Sound, HeldBy, SlotsAreExclusive
<1> QED
  BY <1>1, SlotInvAlways, PTL

\* am_gralloc_set_parameters: in any number of decoders, the driver's parameters of a held slot are
\* those that its holder set last, unless a decoder found that very slot free while another call
\* worked on it; without that no reset comes late enough to take them away.
THEOREM ParametersAreTheHolders == Spec => []OwnParameters
<1>1. SlotInv => OwnParameters
  BY DEF SlotInv, SlotTypeOK, Sound, HeldBy, OwnParameters
<1> QED
  BY <1>1, SlotInvAlways, PTL
=============================================================================
