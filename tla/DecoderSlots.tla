---------------------------- MODULE DecoderSlots -----------------------------
(***************************************************************************)
(* The decoder slots of src/amlogic/am_gralloc_ext.cpp.  A decoder takes a *)
(* slot, sets the parameters of its buffers in it, and names the slot in   *)
(* the usage of the buffers it allocates; the UVM driver keeps the         *)
(* parameters.  aml_gralloc_slot_status is an array that the decoders of a *)
(* process share with no lock: each read, ioctl and write is a step.       *)
(***************************************************************************)
EXTENDS Integers, FiniteSets

CONSTANTS Decoders,     \* threads of one process that use slots
          SlotNum,      \* AML_GRALLOC_SLOT_NUM (32)
          Taken,        \* slots that other decoders took before and keep
          Paras,        \* what each decoder passes to am_gralloc_set_parameters
          MaxFaults     \* bound: how many calls of the system fail

VARIABLES dpc,          \* where each decoder stands
          at,           \* the slot a call of the decoder works on
          slot,         \* the slot that am_gralloc_get_slot_id returned to it
          status,       \* aml_gralloc_slot_status
          para,         \* the driver's parameters of each slot
          mine,         \* the parameters that the decoder set last
          crossed,      \* history: the slots that two calls worked on at a time
          faults        \* how many calls of the system failed so far

slot_vars == <<dpc, at, slot, status, para, mine, crossed, faults>>

Slots == 0..(SlotNum - 1)
NoSlot == SlotNum

\* dim: width and height are not 0; align: w_align and h_align.
Para == [dim : {0, 1}, align : Nat, size : {0, 1}, compress : {0, 1}]
ZeroPara == [dim |-> 0, align |-> 0, size |-> 0, compress |-> 0]

ASSUME SlotAssumption == /\ SlotNum \in 1..32 /\ Taken \subseteq Slots
                         /\ Paras \in [Decoders -> SUBSET Para] /\ MaxFaults \in Nat

SlotInit == /\ dpc = [d \in Decoders |-> "idle"]
            /\ at = [d \in Decoders |-> NoSlot] /\ slot = [d \in Decoders |-> NoSlot]
            /\ status = [s \in Slots |-> IF s \in Taken THEN 1 ELSE 0]
            /\ para = [s \in Slots |-> ZeroPara]
            /\ mine = [d \in Decoders |-> ZeroPara]
            /\ crossed = {} /\ faults = 0

\* A decoder that has found the slot free and not yet marked it, or has cleared its status and not
\* yet reset its parameters.
WorksOn(d, s) == dpc[d] \in {"probe", "mark", "reset"} /\ at[d] = s

Go(d, where) == dpc' = [dpc EXCEPT ![d] = where]

Fault == faults < MaxFaults /\ faults' = faults + 1

\* am_gralloc_set_uvm_decoder_para: the ioctl, which may fail.
SetUvmPara(s, p) == \/ para' = [para EXCEPT ![s] = p] /\ UNCHANGED faults
                    \/ Fault /\ UNCHANGED para

(***************************************************************************)
(* am_gralloc_get_slot_id                                                  *)
(***************************************************************************)
GetSlotId(d) ==
  /\ dpc[d] = "idle" /\ slot[d] = NoSlot
  /\ Go(d, "find") /\ at' = [at EXCEPT ![d] = 0]
  /\ UNCHANGED <<slot, status, para, mine, crossed, faults>>

\* Mutant: a slot counts as free whatever its status.
AnySlot(s) == TRUE

IsFree(s) == status[s] = 0

FindSlot(d) ==
  /\ dpc[d] = "find" /\ at[d] # NoSlot
  /\ IF IsFree(at[d])
     THEN /\ Go(d, "probe") /\ UNCHANGED at
          /\ crossed' = crossed \cup {s \in {at[d]} : \E e \in Decoders : WorksOn(e, s)}
     ELSE Go(d, "find") /\ at' = [at EXCEPT ![d] = @ + 1] /\ UNCHANGED crossed
  /\ UNCHANGED <<slot, status, para, mine, faults>>

NoSlotLeft(d) ==
  /\ dpc[d] = "find" /\ at[d] = NoSlot
  /\ Go(d, "idle")
  /\ UNCHANGED <<at, slot, status, para, mine, crossed, faults>>

ProbeUvm(d) ==
  /\ dpc[d] = "probe"
  /\ SetUvmPara(at[d], ZeroPara)
  /\ Go(d, IF faults' = faults THEN "mark" ELSE "idle")
  /\ at' = [at EXCEPT ![d] = IF faults' = faults THEN @ ELSE NoSlot]
  /\ UNCHANGED <<slot, status, mine, crossed>>

MarkSlot(d) ==
  /\ dpc[d] = "mark"
  /\ status' = [status EXCEPT ![at[d]] = 1]
  /\ slot' = [slot EXCEPT ![d] = at[d]] /\ mine' = [mine EXCEPT ![d] = ZeroPara]
  /\ at' = [at EXCEPT ![d] = NoSlot] /\ Go(d, "idle")
  /\ UNCHANGED <<para, crossed, faults>>

(***************************************************************************)
(* am_gralloc_set_parameters, of which all-zero ones are refused           *)
(***************************************************************************)
Nonzero(p) == p.size # 0 \/ (p.dim # 0 /\ p.align # 0)

CheckParameters(d) ==
  /\ dpc[d] = "idle" /\ slot[d] # NoSlot
  /\ status[slot[d]] # 0
  /\ Go(d, "set")
  /\ UNCHANGED <<at, slot, status, para, mine, crossed, faults>>

SetParameters(d) ==
  /\ dpc[d] = "set"
  /\ \E p \in Paras[d] :
       /\ Nonzero(p) /\ SetUvmPara(slot[d], p)
       /\ mine' = [mine EXCEPT ![d] = IF faults' = faults THEN p ELSE @]
  /\ Go(d, "idle")
  /\ UNCHANGED <<at, slot, status, crossed>>

(***************************************************************************)
(* am_gralloc_free_slot: the status is cleared before the parameters       *)
(***************************************************************************)
FreeSlot(d) ==
  /\ dpc[d] = "idle" /\ slot[d] # NoSlot
  /\ Go(d, "reset") /\ at' = [at EXCEPT ![d] = slot[d]]
  /\ status' = [status EXCEPT ![slot[d]] = 0] /\ slot' = [slot EXCEPT ![d] = NoSlot]
  /\ UNCHANGED <<para, mine, crossed, faults>>

ResetParameters(d) ==
  /\ dpc[d] = "reset"
  /\ SetUvmPara(at[d], ZeroPara)
  /\ at' = [at EXCEPT ![d] = NoSlot] /\ Go(d, "idle")
  /\ UNCHANGED <<slot, status, mine, crossed>>

\* am_gralloc_compose_slot_id: the usage bits that name a slot are bits that mean something else
\* without USING_SLOT, and to the tests that do not look at it.
SlotBits(s) ==
  {"USING_SLOT"} \cup {b \in {"CURSOR", "SENSOR_DIRECT_DATA", "PRIVATE_2", "PRIVATE_7", "PRIVATE_6"} :
     LET weight == CASE b = "CURSOR" -> 1 [] b = "SENSOR_DIRECT_DATA" -> 2 [] b = "PRIVATE_2" -> 4
                     [] b = "PRIVATE_7" -> 8 [] b = "PRIVATE_6" -> 16
     IN (s \div weight) % 2 = 1}

compose_slot_id(d) ==
  IF slot[d] # NoSlot /\ status[slot[d]] # 0 THEN SlotBits(slot[d]) ELSE {}

SlotStep(d) == \/ GetSlotId(d) \/ FindSlot(d) \/ NoSlotLeft(d) \/ ProbeUvm(d) \/ MarkSlot(d)
               \/ CheckParameters(d) \/ SetParameters(d) \/ FreeSlot(d) \/ ResetParameters(d)

-----------------------------------------------------------------------------
SlotTypeOK ==
  /\ dpc \in [Decoders -> {"idle", "find", "probe", "mark", "set", "reset"}]
  /\ at \in [Decoders -> Slots \cup {NoSlot}] /\ slot \in [Decoders -> Slots \cup {NoSlot}]
  /\ status \in [Slots -> {0, 1}] /\ para \in [Slots -> Para]
  /\ mine \in [Decoders -> Para]
  /\ crossed \subseteq Slots /\ faults \in 0..MaxFaults

\* am_gralloc_get_slot_id never gives a slot that others took before, and one decoder at a time
\* holds a slot, which stays marked, unless two calls worked on that slot at a time: a decoder found
\* it free while another was about to mark it, or to reset it.  Nothing in the code prevents that;
\* what goes wrong stays with that slot, and calls that overlap on others do no harm.
SlotsAreExclusive ==
  \A d \in Decoders : slot[d] # NoSlot =>
    /\ slot[d] \notin Taken
    /\ slot[d] \notin crossed =>
         /\ status[slot[d]] = 1
         /\ \A e \in Decoders \ {d} : slot[e] # slot[d]

\* The parameters of a decoder's slot are those it set last with success, and none of the last
\* holder's are left, also when am_gralloc_free_slot could not reset them.  A reset that comes late
\* takes parameters away only in a slot that its holder found free before that reset (crossed).
OwnParameters ==
  \A d \in Decoders :
    slot[d] # NoSlot /\ slot[d] \notin crossed => para[slot[d]] = mine[d]
=============================================================================
