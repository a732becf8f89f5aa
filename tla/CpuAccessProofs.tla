-------------------------- MODULE CpuAccessProofs --------------------------
(***************************************************************************)
(* Proofs about CpuAccess for any number of sessions, any buffer and any   *)
(* faults: types, the single mapping and, for clients that only unlock     *)
(* what they have locked, the lock count.                                  *)
(***************************************************************************)
EXTENDS CpuAccess, FiniteSetTheorems, TLAPS

-----------------------------------------------------------------------------
(* Types                                                                   *)

LEMMA NoModeIsMode == NoMode \in Mode
  BY DEF NoMode, Mode

\* Leaving a call keeps the session's fields well typed.
LEMMA LeaveType ==
  ASSUME NEW s \in Session, Leave(s), TypeOK
  PROVE  /\ pc' \in [Session -> PC]
         /\ mode' \in [Session -> Mode]
         /\ data' \in [Session -> Addr \union {Null}]
<1>1. "ready" \in PC
  BY DEF PC
<1> QED
  BY <1>1, NoModeIsMode DEF Leave, Goto, TypeOK

LEMMA TypeInit == Init => TypeOK
<1> SUFFICES ASSUME Init PROVE TypeOK
  OBVIOUS
<1>1. pc \in [Session -> PC]
  BY DEF Init, PC
<1>2. mode \in [Session -> Mode]
  BY NoModeIsMode DEF Init
<1>3. lock_count \in Int /\ stuck \in Int
  BY CpuAccessAssumption DEF CpuAccessAssumption, Init
<1>4. buf \in Buffer
  BY CpuAccessAssumption DEF CpuAccessAssumption, Init
<1> QED
  BY <1>1, <1>2, <1>3, <1>4 DEF Init, Fresh, TypeOK

LEMMA TypeStep == TypeOK /\ [Next]_vars => TypeOK'
<1> SUFFICES ASSUME TypeOK, [Next]_vars PROVE TypeOK'
  OBVIOUS
<1> USE CpuAccessAssumption
    DEF CpuAccessAssumption, TypeOK, PC, LockPC, UnlockPC, Goto, life, mapping,
        locks, handle, client, cache, history
<1>1. ASSUME NEW s \in Session, NEW m \in Modes, LockCall(s, m) PROVE TypeOK'
  <2>1. m \in Mode
    OBVIOUS
  <2>2. excuse' \in BOOLEAN
    BY <1>1 DEF LockCall
  <2>3. pc' \in [Session -> PC]
    BY <1>1 DEF LockCall
  <2> QED
    BY <1>1, <2>1, <2>2, <2>3 DEF LockCall
<1>2. ASSUME NEW s \in Session, UnlockCall(s) PROVE TypeOK'
  <2>1. excuse' \in BOOLEAN
    BY <1>2 DEF UnlockCall
  <2> QED
    BY <1>2, <2>1 DEF UnlockCall
<1>3. ASSUME NEW s \in Session, FlushCall(s) \/ RereadCall(s) PROVE TypeOK'
  BY <1>3 DEF FlushCall, RereadCall, SyncCall
<1>4. ASSUME NEW s \in Session, UnlockRefused(s) \/ SyncRefused(s) PROVE TypeOK'
  BY <1>4 DEF UnlockRefused, SyncRefused, vars
<1>5. ASSUME NEW s \in Session, CpuWrites(s) PROVE TypeOK'
  BY <1>5 DEF CpuWrites
<1>6. ASSUME NEW s \in Session, InvalidLock(s) PROVE TypeOK'
  BY <1>6 DEF InvalidLock
<1>7. ASSUME NEW s \in Session, SyncWait(s) PROVE TypeOK'
  BY <1>7 DEF SyncWait
<1>8. ASSUME NEW s \in Session, LockRejected(s) PROVE TypeOK'
  BY <1>8, LeaveType DEF LockRejected
<1>9. ASSUME NEW s \in Session, EnterMap(s) PROVE TypeOK'
  BY <1>9 DEF EnterMap
<1>10. ASSUME NEW s \in Session, Mmap(s) PROVE TypeOK'
  BY <1>10 DEF Mmap
<1>11. ASSUME NEW s \in Session, MmapFails(s) PROVE TypeOK'
  BY <1>11, LeaveType DEF MmapFails
<1>12. ASSUME NEW s \in Session, ReadBase(s) PROVE TypeOK'
  BY <1>12 DEF ReadBase
<1>13. ASSUME NEW s \in Session, CountLock(s) PROVE TypeOK'
  BY <1>13 DEF CountLock
<1>14. ASSUME NEW s \in Session, SetCpuWrite(s) PROVE TypeOK'
  BY <1>14 DEF SetCpuWrite, Mode
<1>15. ASSUME NEW s \in Session, SyncStart(s) PROVE TypeOK'
  BY <1>15 DEF SyncStart
<1>16. ASSUME NEW s \in Session, TestCpuWrite(s) PROVE TypeOK'
  BY <1>16 DEF TestCpuWrite
<1>17. ASSUME NEW s \in Session, SyncEnd(s) PROVE TypeOK'
  BY <1>17 DEF SyncEnd
<1>18. ASSUME NEW s \in Session, SyncEndFails(s) PROVE TypeOK'
  BY <1>18, LeaveType DEF SyncEndFails
<1>19. ASSUME NEW s \in Session, TestCount(s) PROVE TypeOK'
  BY <1>19 DEF TestCount
<1>20. ASSUME NEW s \in Session, DecrementCount(s) PROVE TypeOK'
  BY <1>20 DEF DecrementCount, SetCount
<1>21. ASSUME NEW s \in Session, ZeroCount(s) PROVE TypeOK'
  BY <1>21 DEF ZeroCount, SetCount
<1>22. ASSUME NEW s \in Session, ReloadCount(s) PROVE TypeOK'
  <2>1. CASE lock_count = 0
    BY <1>22, <2>1 DEF ReloadCount
  <2>2. CASE lock_count # 0
    BY <1>22, <2>2, LeaveType DEF ReloadCount
  <2> QED
    BY <2>1, <2>2
<1>23. ASSUME NEW s \in Session, ClearCpuWrite(s) PROVE TypeOK'
  BY <1>23, LeaveType DEF ClearCpuWrite
<1>24. ASSUME NEW s \in Session, FlushEnd(s) PROVE TypeOK'
  BY <1>24 DEF FlushEnd
<1>25. ASSUME NEW s \in Session, RereadStart(s) PROVE TypeOK'
  BY <1>25 DEF RereadStart
<1>26. CASE FreeBuffer
  <2>1. excuse' \in BOOLEAN
    BY <1>26 DEF FreeBuffer
  <2>2. /\ mode' \in [Session -> Mode]
        /\ data' \in [Session -> Addr \union {Null}]
        /\ open' \in [Session -> BOOLEAN]
    BY <1>26, NoModeIsMode DEF FreeBuffer
  <2>3. /\ live' \in BOOLEAN
        /\ cpu_write' \in BOOLEAN
    BY <1>26 DEF FreeBuffer
  <2>4. base' \in Addr \union {Null}
    BY <1>26 DEF FreeBuffer
  <2>5. buf' \in Buffer /\ map_mutex' \in Session \union {Null}
    BY <1>26 DEF FreeBuffer
  <2>6. lock_count' \in Int /\ stuck' \in Int
    BY <1>26 DEF FreeBuffer
  <2>7. /\ mapped' \subseteq Addr
        /\ pc' \in [Session -> PC]
        /\ dirty' \in BOOLEAN /\ stale' \in BOOLEAN /\ pending' \in BOOLEAN
    BY <1>26 DEF FreeBuffer
  <2> QED
    BY <2>1, <2>2, <2>3, <2>4, <2>5, <2>6, <2>7
<1>27. CASE ImportBuffer
  <2>1. lock_count' \in Int /\ stuck' \in Int
    BY <1>27, CpuAccessAssumption DEF CpuAccessAssumption, ImportBuffer
  <2> QED
    BY <1>27, <2>1 DEF ImportBuffer
<1>28. CASE DeviceStart \/ DeviceDone
  BY <1>28 DEF DeviceStart, DeviceDone
<1>29. CASE UNCHANGED vars
  BY <1>29 DEF vars
<1> QED
  BY <1>1, <1>2, <1>3, <1>4, <1>5, <1>6, <1>7, <1>8, <1>9, <1>10, <1>11, <1>12, <1>13,
     <1>14, <1>15, <1>16, <1>17, <1>18, <1>19, <1>20, <1>21, <1>22, <1>23, <1>24,
     <1>25, <1>26, <1>27, <1>28, <1>29
     DEF Next, Calls, InCall

\* Every reachable state is well typed, whatever the clients and the kernel do.
THEOREM TypeCorrect == Spec => []TypeOK
  BY TypeInit, TypeStep, PTL DEF Spec

-----------------------------------------------------------------------------
(* The single mapping.  It is inductive together with what the mutex       *)
(* protects: only the session that owns it is about to map, and then there *)
(* is no mapping yet.                                                      *)

MappingInv ==
    /\ mapped = IF base = Null THEN {} ELSE {base}
    /\ ~live => base = Null
    /\ \A s \in Session : pc[s] # "ready" => live
    /\ \A s \in Session : pc[s] = "mmap" => map_mutex = s /\ base = Null
    /\ \A s \in Session : data[s] \in {Null, base}

LEMMA MappingInit == Init => MappingInv
  BY DEF Init, Fresh, MappingInv

LEMMA MappingStep == TypeOK /\ MappingInv /\ [Next]_vars => MappingInv'
<1> SUFFICES ASSUME TypeOK, MappingInv, [Next]_vars PROVE MappingInv'
  OBVIOUS
<1> USE CpuAccessAssumption
    DEF CpuAccessAssumption, TypeOK, MappingInv, Goto, Leave, life, mapping,
        locks, handle, client, cache, history
<1>1. ASSUME NEW s \in Session, NEW m \in Modes, LockCall(s, m) PROVE MappingInv'
  BY <1>1 DEF LockCall, MayCall
<1>2. ASSUME NEW s \in Session, UnlockCall(s) \/ FlushCall(s) \/ RereadCall(s)
      PROVE  MappingInv'
  BY <1>2 DEF UnlockCall, FlushCall, RereadCall, SyncCall, MayUnlock, MayCall
<1>3. ASSUME NEW s \in Session, UnlockRefused(s) \/ SyncRefused(s) PROVE MappingInv'
  BY <1>3 DEF UnlockRefused, SyncRefused, vars
<1>4. ASSUME NEW s \in Session, CpuWrites(s) \/ InvalidLock(s) \/ SyncWait(s)
      PROVE  MappingInv'
  BY <1>4 DEF CpuWrites, InvalidLock, SyncWait
<1>5. ASSUME NEW s \in Session, LockRejected(s) \/ MmapFails(s) PROVE MappingInv'
  BY <1>5 DEF LockRejected, MmapFails
<1>6. ASSUME NEW s \in Session, EnterMap(s) PROVE MappingInv'
  BY <1>6 DEF EnterMap
<1>7. ASSUME NEW s \in Session, Mmap(s) PROVE MappingInv'
  \* No address has been given out, and no other session is about to map.
  <2>1. base = Null /\ map_mutex = s /\ mapped = {}
    BY <1>7 DEF Mmap
  <2>2. \A t \in Session : data[t] = Null
    BY <2>1
  <2>3. \A t \in Session : t # s => pc[t] # "mmap"
    BY <2>1
  <2> QED
    BY <1>7, <2>1, <2>2, <2>3 DEF Mmap
<1>8. ASSUME NEW s \in Session, ReadBase(s) \/ CountLock(s) \/ SetCpuWrite(s) \/ SyncStart(s)
      PROVE  MappingInv'
  BY <1>8 DEF ReadBase, CountLock, SetCpuWrite, SyncStart
<1>9. ASSUME NEW s \in Session,
             TestCpuWrite(s) \/ SyncEnd(s) \/ SyncEndFails(s) \/ TestCount(s)
      PROVE  MappingInv'
  BY <1>9 DEF TestCpuWrite, SyncEnd, SyncEndFails, TestCount
<1>10. ASSUME NEW s \in Session, DecrementCount(s) \/ ZeroCount(s) PROVE MappingInv'
  BY <1>10 DEF DecrementCount, ZeroCount, SetCount
<1>11. ASSUME NEW s \in Session, ReloadCount(s) \/ ClearCpuWrite(s) PROVE MappingInv'
  BY <1>11 DEF ReloadCount, ClearCpuWrite
<1>12. ASSUME NEW s \in Session, FlushEnd(s) \/ RereadStart(s) PROVE MappingInv'
  BY <1>12 DEF FlushEnd, RereadStart
<1>13. CASE FreeBuffer
  BY <1>13 DEF FreeBuffer
<1>14. CASE ImportBuffer
  BY <1>14 DEF ImportBuffer
<1>15. CASE DeviceStart \/ DeviceDone \/ UNCHANGED vars
  BY <1>15 DEF DeviceStart, DeviceDone, vars
<1> QED
  BY <1>1, <1>2, <1>3, <1>4, <1>5, <1>6, <1>7, <1>8, <1>9, <1>10, <1>11, <1>12, <1>13,
     <1>14, <1>15 DEF Next, Calls, InCall

\* However lock calls interleave, mali_map_buffer leaves one mapping, free_buffer
\* leaves none, and a lock's address is that of the mapping.
THEOREM SingleMapping == Spec => []OneMapping
<1>1. MappingInv => OneMapping
  BY DEF MappingInv, OneMapping
<1> QED
  BY <1>1, MappingInit, MappingStep, TypeCorrect, PTL DEF Spec

-----------------------------------------------------------------------------
(* The lock count, for clients that unlock only what they have locked.  It *)
(* is inductive together with where in a call a session's lock is counted: *)
(* a session on its way to the decrement is counted in lock_count, so the  *)
(* load that guards the decrement always finds a positive number.          *)

Uncounted == {"invalid", "wait", "map", "mmap", "base", "count", "ureload", "uclear"}
Counted   == {"setw", "start", "uflush", "uend", "utest", "udec"}

CountInv ==
    /\ CountMatches /\ stuck >= 0
    /\ \A s \in Session : pc[s] \in Uncounted => ~open[s]
    /\ \A s \in Session : pc[s] \in Counted => open[s]
    /\ \A s \in Session : pc[s] # "uzero"
    /\ ~live => \A s \in Session : Quiet(s)

LEMMA HoldersFinite == IsFiniteSet(Holders) /\ Cardinality(Holders) \in Nat
<1>1. IsFiniteSet(Holders)
  BY CpuAccessAssumption, FS_Subset DEF CpuAccessAssumption, Holders
<1> QED
  BY <1>1, FS_CardinalityType

\* A session that is counted makes lock_count positive.
LEMMA CountedIsPositive ==
  ASSUME TypeOK, CountMatches, stuck >= 0, NEW s \in Session, open[s]
  PROVE  lock_count > 0
<1>1. Cardinality(Holders) # 0
  BY HoldersFinite, FS_EmptySet DEF Holders
<1> QED
  BY <1>1, HoldersFinite DEF CountMatches, TypeOK

LEMMA AddHolder ==
  ASSUME TypeOK, NEW s \in Session, ~open[s], open' = [open EXCEPT ![s] = TRUE]
  PROVE  Cardinality(Holders') = Cardinality(Holders) + 1
<1>1. Holders' = Holders \union {s} /\ s \notin Holders
  BY DEF Holders, TypeOK
<1> QED
  BY <1>1, HoldersFinite, FS_AddElement

LEMMA RemoveHolder ==
  ASSUME TypeOK, NEW s \in Session, open[s], open' = [open EXCEPT ![s] = FALSE]
  PROVE  Cardinality(Holders') = Cardinality(Holders) - 1
<1>1. Holders' = Holders \ {s} /\ s \in Holders
  BY DEF Holders, TypeOK
<1> QED
  BY <1>1, HoldersFinite, FS_RemoveElement

LEMMA CountInit ==
  ASSUME FreshLockCounts \subseteq Nat
  PROVE  Init => CountInv
<1> SUFFICES ASSUME Init PROVE CountInv
  OBVIOUS
<1>1. Holders = {}
  BY DEF Init, Holders
<1>2. lock_count = stuck /\ stuck \in Nat
  BY DEF Init
<1> QED
  BY <1>1, <1>2, FS_EmptySet DEF Init, CountInv, CountMatches, Uncounted,
                                 Counted, Quiet

LEMMA CountStep ==
  ASSUME "unlock" \notin Strays, FreshLockCounts \subseteq Nat,
         TypeOK, CountInv, [Next]_vars
  PROVE  CountInv'
<1> USE DEF Goto, Leave, Quiet, life, mapping, locks, handle, client, cache,
            history, Uncounted, Counted
<1>a. ASSUME UNCHANGED <<lock_count, stuck, open>> PROVE CountMatches'
  BY <1>a DEF CountInv, CountMatches, Holders
<1>1. ASSUME NEW s \in Session, NEW m \in Modes, LockCall(s, m) PROVE CountInv'
  BY <1>1, <1>a DEF LockCall, MayCall, CountInv, TypeOK
<1>2. ASSUME NEW s \in Session, UnlockCall(s) PROVE CountInv'
  BY <1>2, <1>a DEF UnlockCall, MayUnlock, MayCall, CountInv, TypeOK
<1>3. ASSUME NEW s \in Session, FlushCall(s) \/ RereadCall(s) PROVE CountInv'
  BY <1>3, <1>a DEF FlushCall, RereadCall, SyncCall, MayUnlock, MayCall,
                    CountInv, TypeOK
<1>4. ASSUME NEW s \in Session, UnlockRefused(s) \/ SyncRefused(s) \/ CpuWrites(s)
      PROVE  CountInv'
  BY <1>4, <1>a DEF UnlockRefused, SyncRefused, CpuWrites, vars, CountInv,
                    TypeOK
<1>5. ASSUME NEW s \in Session, InvalidLock(s) PROVE CountInv'
  <2>1. Cardinality(Holders') = Cardinality(Holders) + 1
    BY <1>5, AddHolder DEF InvalidLock, CountInv
  <2>2. CountMatches'
    BY <1>5, <2>1, HoldersFinite DEF InvalidLock, CountInv, CountMatches,
                                     TypeOK
  <2> QED
    BY <1>5, <2>2 DEF InvalidLock, CountInv, TypeOK
<1>6. ASSUME NEW s \in Session,
             SyncWait(s) \/ LockRejected(s) \/ EnterMap(s) \/ Mmap(s) \/ MmapFails(s)
      PROVE  CountInv'
  BY <1>6, <1>a DEF SyncWait, LockRejected, EnterMap, Mmap, MmapFails,
                    CountInv, TypeOK
<1>7. ASSUME NEW s \in Session, ReadBase(s) \/ SetCpuWrite(s) \/ SyncStart(s) PROVE CountInv'
  BY <1>7, <1>a DEF ReadBase, SetCpuWrite, SyncStart, CountInv, TypeOK
<1>8. ASSUME NEW s \in Session, CountLock(s) PROVE CountInv'
  <2>1. Cardinality(Holders') = Cardinality(Holders) + 1
    BY <1>8, AddHolder DEF CountLock, CountInv
  <2>2. CountMatches'
    BY <1>8, <2>1, HoldersFinite DEF CountLock, CountInv, CountMatches, TypeOK
  <2> QED
    BY <1>8, <2>2 DEF CountLock, CountInv, TypeOK
<1>9. ASSUME NEW s \in Session, TestCpuWrite(s) \/ SyncEnd(s) PROVE CountInv'
  BY <1>9, <1>a DEF TestCpuWrite, SyncEnd, CountInv, TypeOK
<1>10. ASSUME NEW s \in Session, SyncEndFails(s) PROVE CountInv'
  <2>1. Cardinality(Holders') = Cardinality(Holders) - 1
    BY <1>10, RemoveHolder DEF SyncEndFails, CountInv
  <2>2. CountMatches'
    BY <1>10, <2>1, HoldersFinite DEF SyncEndFails, CountInv, CountMatches,
                                      TypeOK
  <2> QED
    BY <1>10, <2>2 DEF SyncEndFails, CountInv, TypeOK
<1>11. ASSUME NEW s \in Session, TestCount(s) PROVE CountInv'
  <2>1. lock_count > 0
    BY <1>11, CountedIsPositive DEF TestCount, CountInv
  <2> QED
    BY <1>11, <2>1, <1>a DEF TestCount, CountInv, TypeOK
<1>12. ASSUME NEW s \in Session, DecrementCount(s) PROVE CountInv'
  <2>1. Cardinality(Holders') = Cardinality(Holders) - 1
    BY <1>12, RemoveHolder DEF DecrementCount, SetCount, CountInv
  <2>2. CountMatches'
    BY <1>12, <2>1, HoldersFinite DEF DecrementCount, SetCount, CountInv,
                                      CountMatches, TypeOK
  <2> QED
    BY <1>12, <2>2 DEF DecrementCount, SetCount, CountInv, TypeOK
<1>13. ASSUME NEW s \in Session, ZeroCount(s) PROVE FALSE
  BY <1>13 DEF ZeroCount, CountInv
<1>14. ASSUME NEW s \in Session, ReloadCount(s) \/ ClearCpuWrite(s) PROVE CountInv'
  BY <1>14, <1>a DEF ReloadCount, ClearCpuWrite, CountInv, TypeOK
<1>15. ASSUME NEW s \in Session, FlushEnd(s) \/ RereadStart(s) PROVE CountInv'
  BY <1>15, <1>a DEF FlushEnd, RereadStart, CountInv, TypeOK
<1>16. CASE FreeBuffer
  <2>1. Holders' = {}
    BY <1>16 DEF FreeBuffer, Holders
  <2>2. CountMatches'
    BY <1>16, <2>1, FS_EmptySet DEF FreeBuffer, CountMatches
  <2> QED
    BY <1>16, <2>2 DEF FreeBuffer, CountInv, TypeOK
<1>17. CASE ImportBuffer
  <2>1. Holders' = {}
    BY <1>17 DEF ImportBuffer, Holders, CountInv
  <2>2. lock_count' = stuck' /\ stuck' \in Nat
    BY <1>17 DEF ImportBuffer
  <2>3. CountMatches'
    BY <2>1, <2>2, FS_EmptySet DEF CountMatches
  <2> QED
    BY <1>17, <2>3 DEF ImportBuffer, CountInv
<1>18. CASE DeviceStart \/ DeviceDone \/ UNCHANGED vars
  BY <1>18, <1>a DEF DeviceStart, DeviceDone, vars, CountInv, TypeOK
<1> QED
  BY <1>1, <1>2, <1>3, <1>4, <1>5, <1>6, <1>7, <1>8, <1>9, <1>10, <1>11, <1>12, <1>13,
     <1>14, <1>15, <1>16, <1>17, <1>18 DEF Next, Calls, InCall

\* With clients that keep to the call sequence and a count that does not start
\* below zero, no interleaving of the loads, increments and decrements of
\* lock_count loses or invents a lock.
THEOREM LockCountCorrect ==
  ASSUME "unlock" \notin Strays, FreshLockCounts \subseteq Nat
  PROVE  Spec => []CountMatches
<1>1. TypeOK /\ CountInv /\ [Next]_vars => CountInv'
  BY CountStep
<1>2. CountInv => CountMatches
  BY DEF CountInv
<1>3. Init => CountInv
  BY CountInit
<1> QED
  BY <1>1, <1>2, <1>3, TypeCorrect, PTL DEF Spec

\* ... so unlock_buffer never answers BAD_BUFFER to a client that holds a lock.
THEOREM HoldersCanUnlock ==
  ASSUME "unlock" \notin Strays, FreshLockCounts \subseteq Nat
  PROVE  Spec => []HolderIsNotRefused
<1>1. TypeOK /\ CountInv /\ [Next]_vars => CountInv'
  BY CountStep
<1>2. TypeOK /\ CountInv => HolderIsNotRefused
  BY CountedIsPositive DEF HolderIsNotRefused, CountInv
<1>3. Init => CountInv
  BY CountInit
<1> QED
  BY <1>1, <1>2, <1>3, TypeCorrect, PTL DEF Spec

-----------------------------------------------------------------------------
(* CpuAccess implements LockApi: counting a lock is Acquire, giving it back *)
(* or losing it to a failed sync is Release, mmap is MapBuffer, reading     *)
(* base is Learn, and every other step of a call changes nothing a client   *)
(* of the interface can tell.                                               *)

LEMMA ApiInitial == Init => Api!ApiInit
<1> SUFFICES ASSUME Init PROVE Api!ApiInit
  OBVIOUS
<1>1. Holders = {}
  BY DEF Init, Holders
<1>2. lock_count - stuck = 0
  BY CpuAccessAssumption DEF CpuAccessAssumption, Init
<1> QED
  BY <1>1, <1>2 DEF Init, Fresh, Api!ApiInit

LEMMA ApiStep ==
  ASSUME "unlock" \notin Strays, FreshLockCounts \subseteq Nat,
         TypeOK, MappingInv, CountInv, [Next]_vars
  PROVE  [Api!ApiNext]_Api!apiVars
<1> USE DEF Goto, Leave, life, mapping, locks, handle, client, cache, history,
            Api!ApiNext, Api!apiVars
<1>a. ASSUME UNCHANGED <<lock_count, stuck, open, base, data>> PROVE UNCHANGED Api!apiVars
  BY <1>a DEF Holders
<1>b. ASSUME NEW s \in Session, ~open[s], data' = [data EXCEPT ![s] = Null],
             UNCHANGED <<lock_count, stuck, open, base>>
      PROVE  Api!Forget(s)
  BY <1>b DEF Api!Forget, Holders
<1>c. ASSUME NEW s \in Session, ~open[s], open' = [open EXCEPT ![s] = TRUE],
             lock_count' = lock_count + 1, UNCHANGED <<stuck, base, data>>
      PROVE  Api!Acquire(s)
  <2>1. s \notin Holders /\ Holders' = Holders \union {s}
    BY <1>c DEF Holders, TypeOK
  <2> QED
    BY <1>c, <2>1 DEF Api!Acquire, TypeOK
<1>d. ASSUME NEW s \in Session, open[s], open' = [open EXCEPT ![s] = FALSE],
             lock_count' - stuck' = (lock_count - stuck) - 1, base' = base,
             data' \in {data, [data EXCEPT ![s] = Null]}
      PROVE  Api!Release(s)
  <2>1. s \in Holders /\ Holders' = Holders \ {s}
    BY <1>d DEF Holders, TypeOK
  <2>2. lock_count - stuck > 0
    <3>1. Cardinality(Holders) # 0
      BY <2>1, HoldersFinite, FS_EmptySet
    <3> QED
      BY <3>1, HoldersFinite DEF CountInv, CountMatches, TypeOK
  <2> QED
    BY <1>d, <2>1, <2>2 DEF Api!Release
<1>1. ASSUME NEW s \in Session, Calls(s) PROVE UNCHANGED Api!apiVars
  BY <1>1, <1>a DEF Calls, LockCall, UnlockCall, UnlockRefused, FlushCall,
                    RereadCall,
     SyncCall, SyncRefused, CpuWrites, vars
<1>2. ASSUME NEW s \in Session, InvalidLock(s) \/ CountLock(s) PROVE Api!Acquire(s)
  <2>1. ~open[s]
    BY <1>2 DEF InvalidLock, CountLock, CountInv, Uncounted
  <2> QED
    BY <1>2, <2>1, <1>c DEF InvalidLock, CountLock
<1>3. ASSUME NEW s \in Session,
             SyncWait(s) \/ EnterMap(s) \/ SetCpuWrite(s) \/ SyncStart(s) \/ TestCpuWrite(s)
             \/ SyncEnd(s) \/ TestCount(s) \/ FlushEnd(s) \/ RereadStart(s)
      PROVE  UNCHANGED Api!apiVars
  BY <1>3, <1>a DEF SyncWait, EnterMap, SetCpuWrite, SyncStart, TestCpuWrite,
                    SyncEnd,
     TestCount, FlushEnd, RereadStart
<1>4. ASSUME NEW s \in Session, LockRejected(s) \/ MmapFails(s) \/ ClearCpuWrite(s)
      PROVE  Api!Forget(s)
  <2>1. ~open[s]
    BY <1>4 DEF LockRejected, MmapFails, ClearCpuWrite, CountInv, Uncounted
  <2> QED
    BY <1>4, <2>1, <1>b DEF LockRejected, MmapFails, ClearCpuWrite
<1>5. ASSUME NEW s \in Session, Mmap(s) PROVE Api!MapBuffer
  BY <1>5, CpuAccessAssumption
     DEF CpuAccessAssumption, Mmap, MappingInv, Api!MapBuffer, Holders
<1>6. ASSUME NEW s \in Session, ReadBase(s) PROVE Api!Learn(s)
  <2>1. s \notin Holders
    BY <1>6 DEF ReadBase, CountInv, Uncounted, Holders
  <2> QED
    BY <1>6, <2>1 DEF ReadBase, Api!Learn, Holders
<1>7. ASSUME NEW s \in Session, SyncEndFails(s) PROVE Api!Release(s)
  <2>1. open[s]
    BY <1>7 DEF SyncEndFails, CountInv, Counted
  <2>2. lock_count' - stuck' = (lock_count - stuck) - 1
    BY <1>7 DEF SyncEndFails, TypeOK
  <2> QED
    BY <1>7, <2>1, <2>2, <1>d DEF SyncEndFails
<1>8. ASSUME NEW s \in Session, DecrementCount(s) PROVE Api!Release(s)
  <2>1. open[s]
    BY <1>8 DEF DecrementCount, CountInv, Counted
  <2>2. lock_count' - stuck' = (lock_count - stuck) - 1
    BY <1>8 DEF DecrementCount, SetCount, TypeOK
  <2> QED
    BY <1>8, <2>1, <2>2, <1>d DEF DecrementCount, SetCount
<1>9. ASSUME NEW s \in Session, ZeroCount(s) PROVE FALSE
  BY <1>9 DEF ZeroCount, CountInv
<1>10. ASSUME NEW s \in Session, ReloadCount(s)
       PROVE  Api!Forget(s) \/ UNCHANGED Api!apiVars
  <2>1. ~open[s]
    BY <1>10 DEF ReloadCount, CountInv, Uncounted
  <2> QED
    BY <1>10, <2>1, <1>a, <1>b DEF ReloadCount
<1>11. CASE FreeBuffer
  <2>1. Holders' = {} /\ lock_count' - stuck' = 0
    BY <1>11 DEF FreeBuffer, Holders
  <2> QED
    BY <1>11, <2>1 DEF FreeBuffer, Api!Drop
<1>12. CASE ImportBuffer
  \* A freed handle has no holder, so its count stood at what was stuck.
  <2>1. Holders = {} /\ Holders' = {} /\ base = Null
    BY <1>12 DEF ImportBuffer, CountInv, Quiet, Holders, MappingInv
  <2>2. lock_count - stuck = 0
    BY <2>1, FS_EmptySet DEF CountInv, CountMatches, TypeOK
  <2>3. lock_count' - stuck' = 0
    <3>1. stuck' = lock_count' /\ lock_count' \in FreshLockCounts
      BY <1>12 DEF ImportBuffer
    <3>2. lock_count' \in Nat
      BY <3>1
    <3>3. \A n \in Nat : n - n = 0
      OBVIOUS
    <3> QED
      BY <3>1, <3>2, <3>3, Zenon
  <2> QED
    BY <1>12, <2>1, <2>2, <2>3 DEF ImportBuffer
<1>13. CASE DeviceStart \/ DeviceDone \/ UNCHANGED vars
  BY <1>13, <1>a DEF DeviceStart, DeviceDone, vars
<1> QED
  BY <1>1, <1>2, <1>3, <1>4, <1>5, <1>6, <1>7, <1>8, <1>9, <1>10, <1>11, <1>12, <1>13
     DEF Next, InCall

\* What the threads do step by step is, to their clients, atomic locks and unlocks
\* of one buffer with one mapping.
THEOREM CpuAccessImplementsApi ==
  ASSUME "unlock" \notin Strays, FreshLockCounts \subseteq Nat
  PROVE  Spec => ImplementsApi
<1>1. TypeOK /\ MappingInv /\ CountInv /\ [Next]_vars => [Api!ApiNext]_Api!apiVars
  BY ApiStep
<1>2. TypeOK /\ CountInv /\ [Next]_vars => CountInv'
  BY CountStep
<1>3. Init => CountInv
  BY CountInit
<1> QED
  BY <1>1, <1>2, <1>3, ApiInitial, TypeInit, TypeStep, MappingInit, MappingStep, PTL
     DEF Spec, ImplementsApi, Api!ApiSpec

-----------------------------------------------------------------------------
(* Who may find cpu_write set.  The flag outlives the decrement of the     *)
(* last lock only while some session is on its way to clear it.            *)

Clearing == {"ureload", "uclear"}

SharedInv ==
    cpu_write /\ stuck = 0 => \E t \in Session : open[t] \/ pc[t] \in Clearing

\* A session that finds locks left over leaves them to their holders.
LEMMA SomebodyHolds ==
  ASSUME TypeOK, CountMatches, stuck = 0, lock_count # 0
  PROVE  \E t \in Session : open[t]
<1>1. Cardinality(Holders) # 0
  BY HoldersFinite DEF CountMatches, TypeOK
<1>2. Holders # {}
  BY <1>1, FS_EmptySet
<1> QED
  BY <1>2 DEF Holders

LEMMA SharedInit == Init => SharedInv
  BY DEF Init, Fresh, SharedInv

LEMMA SharedStep ==
  ASSUME TypeOK, CountInv, SharedInv, [Next]_vars
  PROVE  SharedInv'
<1> USE DEF SharedInv, Clearing, TypeOK, Goto, life, mapping, locks, handle,
            client, cache, history
<1>1. ASSUME NEW s \in Session, NEW m \in Modes, LockCall(s, m) PROVE SharedInv'
  BY <1>1 DEF LockCall, MayCall
<1>2. ASSUME NEW s \in Session, UnlockCall(s) \/ FlushCall(s) \/ RereadCall(s)
      PROVE  SharedInv'
  BY <1>2 DEF UnlockCall, FlushCall, RereadCall, SyncCall, MayUnlock, MayCall
<1>3. ASSUME NEW s \in Session, UnlockRefused(s) \/ SyncRefused(s) \/ CpuWrites(s)
      PROVE  SharedInv'
  BY <1>3 DEF UnlockRefused, SyncRefused, CpuWrites, vars
<1>4. ASSUME NEW s \in Session,
             SyncWait(s) \/ LockRejected(s) \/ EnterMap(s) \/ Mmap(s) \/ MmapFails(s)
      PROVE  SharedInv'
  BY <1>4 DEF SyncWait, LockRejected, EnterMap, Mmap, MmapFails, Leave
<1>5. ASSUME NEW s \in Session, InvalidLock(s) \/ CountLock(s) PROVE SharedInv'
  BY <1>5 DEF InvalidLock, CountLock
<1>6. ASSUME NEW s \in Session, SetCpuWrite(s) PROVE SharedInv'
  <2>1. open'[s]
    BY <1>6 DEF SetCpuWrite, CountInv, Counted
  <2> QED
    BY <2>1
<1>7. ASSUME NEW s \in Session, ReadBase(s) \/ SyncStart(s) PROVE SharedInv'
  BY <1>7 DEF ReadBase, SyncStart
<1>8. ASSUME NEW s \in Session, TestCpuWrite(s) \/ SyncEnd(s) \/ TestCount(s)
      PROVE  SharedInv'
  BY <1>8 DEF TestCpuWrite, SyncEnd, TestCount
<1>9. ASSUME NEW s \in Session, SyncEndFails(s) PROVE SharedInv'
  BY <1>9 DEF SyncEndFails, CountInv
<1>10. ASSUME NEW s \in Session, DecrementCount(s) \/ ZeroCount(s) PROVE SharedInv'
  BY <1>10 DEF DecrementCount, ZeroCount, SetCount
<1>11. ASSUME NEW s \in Session, ReloadCount(s) PROVE SharedInv'
  <2>1. CASE lock_count = 0
    BY <1>11, <2>1 DEF ReloadCount
  <2>2. CASE lock_count # 0
    <3>1. stuck = 0 => \E t \in Session : open[t]
      BY <2>2, SomebodyHolds DEF CountInv
    <3> QED
      BY <1>11, <2>2, <3>1 DEF ReloadCount
  <2> QED
    BY <2>1, <2>2
<1>12. ASSUME NEW s \in Session, ClearCpuWrite(s) PROVE SharedInv'
  BY <1>12 DEF ClearCpuWrite
<1>13. ASSUME NEW s \in Session, FlushEnd(s) \/ RereadStart(s) PROVE SharedInv'
  BY <1>13 DEF FlushEnd, RereadStart
<1>14. CASE FreeBuffer \/ ImportBuffer
  BY <1>14 DEF FreeBuffer, ImportBuffer
<1>15. CASE DeviceStart \/ DeviceDone \/ UNCHANGED vars
  BY <1>15 DEF DeviceStart, DeviceDone, vars
<1> QED
  BY <1>1, <1>2, <1>3, <1>4, <1>5, <1>6, <1>7, <1>8, <1>9, <1>10, <1>11, <1>12, <1>13,
     <1>14, <1>15 DEF Next, Calls, InCall

\* The only step into the answer "invalid lock" is a lock call that finds cpu_write.
LEMMA RefusedStep ==
  ASSUME TypeOK, CountInv, SharedInv, [Next]_vars, NEW s \in Session,
         pc[s] = "ready", pc'[s] = "invalid"
  PROVE  stuck > 0 \/ \E t \in Session \ {s} : ~Quiet(t)
<1> USE DEF TypeOK, Goto, life, mapping, locks, handle, client, cache, history
<1>1. \A r \in Session : ~InCall(r)
  BY DEF InCall, InvalidLock, SyncWait, LockRejected, EnterMap, Mmap, MmapFails,
         ReadBase, CountLock, SetCpuWrite, SyncStart, TestCpuWrite, SyncEnd,
         SyncEndFails, TestCount, DecrementCount, ZeroCount, SetCount, ReloadCount,
         ClearCpuWrite, FlushEnd, RereadStart, Leave
<1>2. \A r \in Session : Calls(r) => \E m \in Modes : LockCall(r, m)
  BY DEF Calls, UnlockCall, UnlockRefused, FlushCall, RereadCall, SyncCall,
         SyncRefused, CpuWrites, vars
<1>3. ~(FreeBuffer \/ ImportBuffer \/ DeviceStart \/ DeviceDone \/ UNCHANGED vars)
  BY DEF FreeBuffer, ImportBuffer, DeviceStart, DeviceDone, vars
<1>4. PICK r \in Session, m \in Modes : LockCall(r, m)
  BY <1>1, <1>2, <1>3 DEF Next
<1>5. r = s /\ cpu_write /\ ~open[s]
  BY <1>4 DEF LockCall, WriteLocked
<1>6. stuck = 0 => \E t \in Session : open[t] \/ pc[t] \in Clearing
  BY <1>5 DEF SharedInv
<1> QED
  BY <1>5, <1>6 DEF Quiet, Clearing, CountInv

\* The flag that makes lock_buffer refuse writers never outlives the last lock:
\* a writer is turned away only while another session is open or inside a call,
\* or after a sync that failed in unlock_buffer has left a lock counted.
THEOREM WritersRefusedOnlyIfShared ==
  ASSUME "unlock" \notin Strays, FreshLockCounts \subseteq Nat
  PROVE  Spec => RefusedOnlyIfShared
<1>1. TypeOK /\ CountInv /\ [Next]_vars => CountInv'
  BY CountStep
<1>2. TypeOK /\ CountInv /\ SharedInv /\ [Next]_vars => SharedInv'
  BY SharedStep
<1>3. TypeOK /\ CountInv /\ SharedInv /\ [Next]_vars =>
        [\A s \in Session :
            pc[s] = "ready" /\ pc'[s] = "invalid" =>
                stuck > 0 \/ \E t \in Session \ {s} : ~Quiet(t)]_vars
  BY RefusedStep
<1>4. Init => CountInv
  BY CountInit
<1> QED
  BY <1>1, <1>2, <1>3, <1>4, TypeInit, TypeStep, SharedInit, PTL
     DEF Spec, RefusedOnlyIfShared

-----------------------------------------------------------------------------
(* What readers see.  While the device writes, every lock call is held     *)
(* back before it learns an address, so whoever has an address afterwards  *)
(* still has its cache invalidation ahead or has done it.                  *)

Entering  == {"invalid", "wait", "map", "mmap", "base", "count"}
Acquiring == {"map", "mmap", "base", "count", "setw", "start"}

ReadInv ==
    /\ \A s \in Session : data[s] # Null => open[s] \/ pc[s] \in {"count"} \union Clearing
    /\ \A s \in Session : pc[s] \in Entering => ~open[s]
    /\ pending => \A s \in Session : data[s] = Null /\ pc[s] \notin Acquiring
    /\ stale => \A s \in Session :
           open[s] /\ mode[s].read /\ data[s] # Null => pc[s] \in {"setw", "start"}

LEMMA ReadInit == Init => ReadInv
  BY DEF Init, ReadInv, Entering, Acquiring

LEMMA ReadStep ==
  ASSUME "start" \notin Faults, TypeOK, ReadInv, [Next]_vars
  PROVE  ReadInv'
<1> USE DEF ReadInv, Entering, Acquiring, Clearing, TypeOK, Goto, life, mapping,
            locks, handle, client, cache, history
<1>1. ASSUME NEW s \in Session, NEW m \in Modes, LockCall(s, m) PROVE ReadInv'
  BY <1>1 DEF LockCall, MayCall
<1>2. ASSUME NEW s \in Session, UnlockCall(s) \/ FlushCall(s) \/ RereadCall(s)
      PROVE  ReadInv'
  BY <1>2 DEF UnlockCall, FlushCall, RereadCall, SyncCall, MayUnlock, MayCall
<1>3. ASSUME NEW s \in Session, UnlockRefused(s) \/ SyncRefused(s) \/ CpuWrites(s)
      PROVE  ReadInv'
  BY <1>3 DEF UnlockRefused, SyncRefused, CpuWrites, vars
<1>4. ASSUME NEW s \in Session, InvalidLock(s) PROVE ReadInv'
  <2>1. data[s] = Null
    BY <1>4 DEF InvalidLock
  <2> QED
    BY <1>4, <2>1 DEF InvalidLock
<1>5. ASSUME NEW s \in Session, SyncWait(s) \/ EnterMap(s) PROVE ReadInv'
  BY <1>5 DEF SyncWait, EnterMap
<1>6. ASSUME NEW s \in Session, LockRejected(s) \/ MmapFails(s) PROVE ReadInv'
  BY <1>6 DEF LockRejected, MmapFails, Leave
<1>7. ASSUME NEW s \in Session, Mmap(s) PROVE ReadInv'
  BY <1>7 DEF Mmap
<1>8. ASSUME NEW s \in Session, ReadBase(s) PROVE ReadInv'
  BY <1>8 DEF ReadBase
<1>9. ASSUME NEW s \in Session, CountLock(s) PROVE ReadInv'
  BY <1>9 DEF CountLock
<1>10. ASSUME NEW s \in Session, SetCpuWrite(s) PROVE ReadInv'
  BY <1>10 DEF SetCpuWrite
<1>11. ASSUME NEW s \in Session, SyncStart(s) PROVE ReadInv'
  BY <1>11 DEF SyncStart
<1>12. ASSUME NEW s \in Session, TestCpuWrite(s) \/ SyncEnd(s) \/ TestCount(s)
       PROVE  ReadInv'
  BY <1>12 DEF TestCpuWrite, SyncEnd, TestCount
<1>13. ASSUME NEW s \in Session, SyncEndFails(s) PROVE ReadInv'
  BY <1>13 DEF SyncEndFails, Leave
<1>14. ASSUME NEW s \in Session, DecrementCount(s) \/ ZeroCount(s) PROVE ReadInv'
  BY <1>14 DEF DecrementCount, ZeroCount, SetCount
<1>15. ASSUME NEW s \in Session, ReloadCount(s) PROVE ReadInv'
  BY <1>15 DEF ReloadCount, Leave
<1>16. ASSUME NEW s \in Session, ClearCpuWrite(s) PROVE ReadInv'
  BY <1>16 DEF ClearCpuWrite, Leave
<1>17. ASSUME NEW s \in Session, FlushEnd(s) \/ RereadStart(s) PROVE ReadInv'
  BY <1>17 DEF FlushEnd, RereadStart
<1>18. CASE FreeBuffer \/ ImportBuffer
  BY <1>18 DEF FreeBuffer, ImportBuffer
<1>19. CASE DeviceStart
  BY <1>19 DEF DeviceStart, Quiet
<1>20. CASE DeviceDone \/ UNCHANGED vars
  BY <1>20 DEF DeviceDone, vars
<1> QED
  BY <1>1, <1>2, <1>3, <1>4, <1>5, <1>6, <1>7, <1>8, <1>9, <1>10, <1>11, <1>12, <1>13,
     <1>14, <1>15, <1>16, <1>17, <1>18, <1>19, <1>20 DEF Next, Calls, InCall

\* While the start of a CPU access does not fail, a session that locked for
\* reading and was given an address finds what the device wrote, whatever locks,
\* unlocks and frees the other threads make, in whatever order.
THEOREM ReadersAreUpToDate ==
  ASSUME "start" \notin Faults
  PROVE  Spec => []ReadersSeeDeviceData
<1>1. TypeOK /\ ReadInv /\ [Next]_vars => ReadInv'
  BY ReadStep
<1>2. ReadInv => ReadersSeeDeviceData
  BY DEF ReadInv, ReadersSeeDeviceData
<1> QED
  BY <1>1, <1>2, ReadInit, TypeCorrect, PTL DEF Spec

-----------------------------------------------------------------------------
(* What devices see.  buffer_sync flushes when cpu_write is set, so while   *)
(* calls do not overlap and no reader joins a writer the flag must stand    *)
(* for "somebody may have written" from the lock to its unlock.             *)

Busy(s)   == pc[s] \in LockPC \union UnlockPC
Writer(s) == open[s] /\ mode[s].write

FlagInv ==
    /\ \A s, t \in Session : Busy(s) /\ Busy(t) => s = t
    /\ \A s \in Session : Writer(s) /\ pc[s] # "setw" => cpu_write
    /\ \A s \in Session : pc[s] = "invalid" => cpu_write
    /\ \A s \in Session : pc[s] = "uclear" => \A t \in Session : ~open[t]
    /\ \A s, t \in Session :
           pc[s] \in LockPC /\ ~mode[s].write /\ Writer(t) => s = t
    /\ dirty => \E s \in Session : Writer(s) /\ pc[s] \notin {"utest", "udec"}

BackInv == ~excuse => FlagInv

LEMMA BackInit == Init => BackInv
  BY DEF Init, BackInv, FlagInv, Busy, Writer, LockPC, UnlockPC

\* A lock call that finds the buffer quiet and clean starts from nothing.
LEMMA BackLockCall ==
  ASSUME TypeOK, CountInv, BackInv, NEW s \in Session, NEW m \in Modes,
         LockCall(s, m)
  PROVE  BackInv'
<1> SUFFICES ASSUME ~excuse' PROVE FlagInv'
  BY DEF BackInv
<1> USE DEF LockPC, UnlockPC, TypeOK, Goto, life, mapping, locks, handle, client,
            cache, history
<1>1. /\ pc[s] = "ready" /\ ~open[s]
      /\ UNCHANGED <<open, cpu_write, dirty>>
      /\ mode' = [mode EXCEPT ![s] = m]
      /\ pc' = [pc EXCEPT ![s] = IF WriteLocked(m) THEN "invalid"
                                 ELSE IF m.fence THEN "wait" ELSE "map"]
  BY DEF LockCall, MayCall
<1>2. /\ \A t \in Session \ {s} : pc[t] = "ready"
      /\ ~m.write => \A t \in Session : ~Writer(t)
  BY DEF LockCall, Overlapped, Writer
<1>3. m.write \in BOOLEAN /\ mode'[s] = m /\ pc'[s] \in {"invalid", "wait", "map"}
  BY <1>1, CpuAccessAssumption DEF CpuAccessAssumption, Mode
<1>4. \A t \in Session : t # s => mode'[t] = mode[t] /\ pc'[t] = "ready"
  BY <1>1, <1>2
<1>5. \A t \in Session : Writer(t)' <=> Writer(t)
  BY <1>1, <1>4 DEF Writer
<1>6. /\ pc'[s] = "invalid" => cpu_write
      /\ \A t \in Session : Busy(t)' => t = s
  BY <1>1, <1>4 DEF WriteLocked, Busy
<1>7. CASE excuse
  <2>1. ~dirty /\ \A t \in Session : ~open[t]
    BY <1>1, <1>7 DEF LockCall, Quiet
  <2> QED
    BY <1>1, <1>3, <1>4, <1>5, <1>6, <2>1 DEF FlagInv, Writer
<1>8. CASE ~excuse
  <2>1. FlagInv
    BY <1>8 DEF BackInv
  <2>2. \A t \in Session : Writer(t) => cpu_write
    BY <1>1, <1>2, <2>1 DEF FlagInv, Writer
  <2>3. dirty => \E t \in Session : Writer(t) /\ t # s
    BY <1>1, <2>1 DEF FlagInv, Writer
  <2> QED
    BY <1>1, <1>2, <1>3, <1>4, <1>5, <1>6, <2>2, <2>3 DEF FlagInv
<1> QED
  BY <1>7, <1>8

LEMMA BackStep ==
  ASSUME "unlock" \notin Strays, FreshLockCounts \subseteq Nat,
         TypeOK, CountInv, BackInv, [Next]_vars
  PROVE  BackInv'
<1> USE DEF Busy, Writer, LockPC, UnlockPC, TypeOK, Goto, life, mapping, locks,
            handle, client, cache, history
<1>1. ASSUME NEW s \in Session, NEW m \in Modes, LockCall(s, m) PROVE BackInv'
  BY <1>1, BackLockCall
<1>2. ASSUME NEW s \in Session, UnlockCall(s) PROVE BackInv'
  <2>1. ~excuse' => ~excuse /\ \A t \in Session \ {s} : pc[t] = "ready"
    BY <1>2 DEF UnlockCall, Overlapped
  <2> QED
    BY <1>2, <2>1 DEF UnlockCall, MayUnlock, MayCall, BackInv, FlagInv
<1>3. ASSUME NEW s \in Session, FlushCall(s) \/ RereadCall(s) PROVE BackInv'
  BY <1>3 DEF FlushCall, RereadCall, SyncCall, MayUnlock, MayCall, BackInv, FlagInv
<1>4. ASSUME NEW s \in Session, UnlockRefused(s) \/ SyncRefused(s) PROVE BackInv'
  BY <1>4 DEF UnlockRefused, SyncRefused, vars, BackInv, FlagInv
<1>5. ASSUME NEW s \in Session, CpuWrites(s) PROVE BackInv'
  BY <1>5 DEF CpuWrites, BackInv, FlagInv
<1>6. ASSUME NEW s \in Session, InvalidLock(s) PROVE BackInv'
  BY <1>6 DEF InvalidLock, BackInv, FlagInv
<1>7. ASSUME NEW s \in Session, SyncWait(s) \/ EnterMap(s) \/ Mmap(s) \/ ReadBase(s)
      PROVE  BackInv'
  BY <1>7 DEF SyncWait, EnterMap, Mmap, ReadBase, BackInv, FlagInv
<1>8. ASSUME NEW s \in Session, LockRejected(s) \/ MmapFails(s) PROVE BackInv'
  <2>1. ~open[s]
    BY <1>8 DEF LockRejected, MmapFails, CountInv, Uncounted
  <2> QED
    BY <1>8, <2>1 DEF LockRejected, MmapFails, Leave, BackInv, FlagInv
<1>9. ASSUME NEW s \in Session, CountLock(s) PROVE BackInv'
  BY <1>9 DEF CountLock, BackInv, FlagInv
<1>10. ASSUME NEW s \in Session, SetCpuWrite(s) PROVE BackInv'
  BY <1>10 DEF SetCpuWrite, BackInv, FlagInv
<1>11. ASSUME NEW s \in Session, SyncStart(s) PROVE BackInv'
  BY <1>11 DEF SyncStart, BackInv, FlagInv
<1>12. ASSUME NEW s \in Session, TestCpuWrite(s) PROVE BackInv'
  BY <1>12 DEF TestCpuWrite, BackInv, FlagInv
<1>13. ASSUME NEW s \in Session, SyncEnd(s) \/ TestCount(s) PROVE BackInv'
  BY <1>13 DEF SyncEnd, TestCount, BackInv, FlagInv, CountInv
<1>14. ASSUME NEW s \in Session, SyncEndFails(s) PROVE BackInv'
  BY <1>14 DEF SyncEndFails, BackInv
<1>15. ASSUME NEW s \in Session, DecrementCount(s) PROVE BackInv'
  BY <1>15 DEF DecrementCount, SetCount, BackInv, FlagInv
<1>16. ASSUME NEW s \in Session, ZeroCount(s) PROVE FALSE
  BY <1>16 DEF ZeroCount, CountInv
<1>17. ASSUME NEW s \in Session, ReloadCount(s) PROVE BackInv'
  <2>1. ~open[s]
    BY <1>17 DEF ReloadCount, CountInv, Uncounted
  <2>2. lock_count = 0 => \A t \in Session : ~open[t]
    BY CountedIsPositive DEF CountInv
  <2> QED
    BY <1>17, <2>1, <2>2 DEF ReloadCount, Leave, BackInv, FlagInv
<1>18. ASSUME NEW s \in Session, ClearCpuWrite(s) PROVE BackInv'
  BY <1>18 DEF ClearCpuWrite, Leave, BackInv, FlagInv
<1>19. ASSUME NEW s \in Session, FlushEnd(s) \/ RereadStart(s) PROVE BackInv'
  BY <1>19 DEF FlushEnd, RereadStart, BackInv, FlagInv
<1>20. CASE FreeBuffer
  BY <1>20 DEF FreeBuffer, BackInv, FlagInv
<1>21. CASE ImportBuffer
  <2>1. \A t \in Session : ~open[t] /\ pc[t] = "ready"
    BY <1>21 DEF ImportBuffer, CountInv, Quiet
  <2> QED
    BY <1>21, <2>1 DEF ImportBuffer, BackInv, FlagInv
<1>22. CASE DeviceStart \/ DeviceDone \/ UNCHANGED vars
  BY <1>22 DEF DeviceStart, DeviceDone, vars, BackInv, FlagInv
<1> QED
  BY <1>1, <1>2, <1>3, <1>4, <1>5, <1>6, <1>7, <1>8, <1>9, <1>10, <1>11, <1>12, <1>13,
     <1>14, <1>15, <1>16, <1>17, <1>18, <1>19, <1>20, <1>21, <1>22
     DEF Next, Calls, InCall

\* What was written under a lock has been written back when the last lock is given
\* back, unless calls overlapped, a reader joined a writer, or a sync failed.
THEOREM DevicesSeeCpuWrites ==
  ASSUME "unlock" \notin Strays, FreshLockCounts \subseteq Nat
  PROVE  Spec => []WrittenBack
<1>1. TypeOK /\ CountInv /\ [Next]_vars => CountInv'
  BY CountStep
<1>2. TypeOK /\ CountInv /\ BackInv /\ [Next]_vars => BackInv'
  BY BackStep
<1>3. BackInv => WrittenBack
  BY DEF BackInv, FlagInv, WrittenBack, Quiet, Writer
<1>4. Init => CountInv
  BY CountInit
<1> QED
  BY <1>1, <1>2, <1>3, <1>4, TypeInit, TypeStep, BackInit, PTL DEF Spec

-----------------------------------------------------------------------------
(* Clients that unlock, flush or free out of sequence, one call at a time. *)
(* The count may then be too low for the locks that are held, never too    *)
(* high: decrements of locks nobody took stop at zero.                     *)

CallsInv ==
    /\ \A s, t \in Session : pc[s] # "ready" /\ pc[t] # "ready" => s = t
    /\ \A s \in Session : pc[s] \in Entering => ~open[s]
    /\ \A s \in Session : pc[s] = "udec" => lock_count > 0
    /\ ~live => \A s \in Session : pc[s] = "ready"

SequentialInv ==
    /\ CallsInv
    /\ 0 <= stuck /\ 0 <= lock_count
    /\ lock_count <= stuck + Cardinality(Holders)

LEMMA SequentialInit ==
  ASSUME FreshLockCounts \subseteq Nat
  PROVE  Init => SequentialInv
<1> SUFFICES ASSUME Init PROVE SequentialInv
  OBVIOUS
<1>1. Holders = {} /\ lock_count \in Nat /\ stuck = lock_count
  BY DEF Init, Holders
<1> QED
  BY <1>1, FS_EmptySet DEF Init, SequentialInv, CallsInv, Entering

LEMMA CallsStep ==
  ASSUME Interleave = FALSE, TypeOK, CallsInv, [Next]_vars
  PROVE  CallsInv'
<1> USE DEF CallsInv, Entering, TypeOK, Goto, Leave, life, mapping, locks, handle,
            client, cache, history
<1>1. ASSUME NEW s \in Session, Calls(s) PROVE CallsInv'
  <2>1. CASE \E m \in Modes : LockCall(s, m)
    BY <2>1 DEF LockCall, MayCall
  <2>2. CASE UnlockCall(s)
    BY <2>2 DEF UnlockCall, MayUnlock, MayCall
  <2>3. CASE FlushCall(s) \/ RereadCall(s)
    BY <2>3 DEF FlushCall, RereadCall, SyncCall, MayUnlock, MayCall
  <2>4. CASE UnlockRefused(s) \/ SyncRefused(s) \/ CpuWrites(s)
    BY <2>4 DEF UnlockRefused, SyncRefused, CpuWrites, vars
  <2> QED
    BY <1>1, <2>1, <2>2, <2>3, <2>4 DEF Calls
<1>2. ASSUME NEW s \in Session,
             InvalidLock(s) \/ SyncWait(s) \/ LockRejected(s) \/ EnterMap(s) \/ Mmap(s)
             \/ MmapFails(s)
      PROVE  CallsInv'
  BY <1>2 DEF InvalidLock, SyncWait, LockRejected, EnterMap, Mmap, MmapFails
<1>3. ASSUME NEW s \in Session,
             ReadBase(s) \/ CountLock(s) \/ SetCpuWrite(s) \/ SyncStart(s)
      PROVE  CallsInv'
  BY <1>3 DEF ReadBase, CountLock, SetCpuWrite, SyncStart
<1>4. ASSUME NEW s \in Session,
             TestCpuWrite(s) \/ SyncEnd(s) \/ SyncEndFails(s) \/ TestCount(s)
      PROVE  CallsInv'
  BY <1>4 DEF TestCpuWrite, SyncEnd, SyncEndFails, TestCount
<1>5. ASSUME NEW s \in Session,
             DecrementCount(s) \/ ZeroCount(s) \/ ReloadCount(s) \/ ClearCpuWrite(s)
      PROVE  CallsInv'
  BY <1>5 DEF DecrementCount, ZeroCount, SetCount, ReloadCount, ClearCpuWrite
<1>6. ASSUME NEW s \in Session, FlushEnd(s) \/ RereadStart(s) PROVE CallsInv'
  BY <1>6 DEF FlushEnd, RereadStart
<1>7. CASE FreeBuffer
  BY <1>7 DEF FreeBuffer
<1>8. CASE ImportBuffer \/ DeviceStart \/ DeviceDone \/ UNCHANGED vars
  BY <1>8 DEF ImportBuffer, DeviceStart, DeviceDone, vars
<1> QED
  BY <1>1, <1>2, <1>3, <1>4, <1>5, <1>6, <1>7, <1>8 DEF Next, InCall

\* A session less, if it was one.
LEMMA FewerHolders ==
  ASSUME TypeOK, NEW s \in Session
  PROVE  /\ Cardinality(Holders \ {s}) \in Nat
         /\ Cardinality(Holders \ {s}) >= Cardinality(Holders) - 1
<1>1. /\ IsFiniteSet(Holders \ {s})
      /\ Cardinality(Holders \ {s}) =
           IF s \in Holders THEN Cardinality(Holders) - 1 ELSE Cardinality(Holders)
  BY HoldersFinite, FS_RemoveElement, Zenon
<1>2. Cardinality(Holders \ {s}) \in Nat
  BY <1>1, FS_CardinalityType, Zenon
<1> QED
  BY <1>1, <1>2, HoldersFinite

LEMMA SequentialStep ==
  ASSUME Interleave = FALSE, FreshLockCounts \subseteq Nat,
         TypeOK, SequentialInv, [Next]_vars
  PROVE  SequentialInv'
<1> USE DEF TypeOK, Goto, life, mapping, locks, handle, client, cache, history
<1>1. CallsInv'
  BY CallsStep DEF SequentialInv
<1>a. ASSUME UNCHANGED <<lock_count, open, stuck>> PROVE SequentialInv'
  BY <1>1, <1>a DEF SequentialInv, Holders
<1>2. ASSUME NEW s \in Session, InvalidLock(s) \/ CountLock(s) PROVE SequentialInv'
  <2>1. Cardinality(Holders') = Cardinality(Holders) + 1
    BY <1>2, AddHolder
       DEF InvalidLock, CountLock, SequentialInv, CallsInv, Entering
  <2> QED
    BY <1>1, <1>2, <2>1, HoldersFinite DEF InvalidLock, CountLock, SequentialInv
<1>3. ASSUME NEW s \in Session, DecrementCount(s) \/ ZeroCount(s) PROVE SequentialInv'
  <2>1. Holders' = Holders \ {s}
    BY <1>3 DEF DecrementCount, ZeroCount, SetCount, Holders
  <2> QED
    BY <1>1, <1>3, <2>1, FewerHolders, HoldersFinite
       DEF DecrementCount, ZeroCount, SetCount, SequentialInv, CallsInv
<1>4. ASSUME NEW s \in Session, Calls(s) PROVE SequentialInv'
  BY <1>4, <1>a DEF Calls, LockCall, UnlockCall, UnlockRefused, FlushCall,
                    RereadCall, SyncCall, SyncRefused, CpuWrites, vars
<1>5. ASSUME NEW s \in Session, SyncEndFails(s) PROVE SequentialInv'
  <2>1. Holders' = Holders \ {s} /\ stuck' = stuck + 1 /\ lock_count' = lock_count
    BY <1>5 DEF SyncEndFails, Holders
  <2> QED
    BY <1>1, <2>1, FewerHolders, HoldersFinite DEF SequentialInv
<1>6. ASSUME NEW s \in Session, InCall(s),
             ~(InvalidLock(s) \/ CountLock(s) \/ DecrementCount(s) \/ ZeroCount(s)
               \/ SyncEndFails(s))
      PROVE  SequentialInv'
  BY <1>6, <1>a
     DEF InCall, SyncWait, LockRejected, EnterMap, Mmap, MmapFails, ReadBase,
         SetCpuWrite, SyncStart, TestCpuWrite, SyncEnd, TestCount, ReloadCount,
         ClearCpuWrite, FlushEnd, RereadStart, Leave
<1>7. CASE FreeBuffer
  <2>1. Holders' = {}
    BY <1>7 DEF FreeBuffer, Holders
  <2> QED
    BY <1>1, <1>7, <2>1, FS_EmptySet DEF FreeBuffer, SequentialInv
<1>8. CASE ImportBuffer
  <2>1. Holders' = Holders /\ lock_count' \in Nat /\ stuck' = lock_count'
    BY <1>8 DEF ImportBuffer, Holders
  <2> QED
    BY <1>1, <2>1, HoldersFinite DEF SequentialInv
<1>9. CASE DeviceStart \/ DeviceDone \/ UNCHANGED vars
  BY <1>9, <1>a DEF DeviceStart, DeviceDone, vars
<1> QED
  BY <1>2, <1>3, <1>4, <1>5, <1>6, <1>7, <1>8, <1>9 DEF Next

\* Only a call that found lock_count positive goes on to flush or give back.
LEMMA AcceptedStep ==
  ASSUME TypeOK, SequentialInv, [Next]_vars, NEW s \in Session,
         pc[s] = "ready", pc'[s] \in {"uflush", "fend", "rstart"}
  PROVE  Holders # {} \/ stuck # 0
<1> USE DEF TypeOK, Goto, life, mapping, locks, handle, client, cache, history
<1>1. \A r \in Session : ~InCall(r)
  BY DEF InCall, InvalidLock, SyncWait, LockRejected, EnterMap, Mmap, MmapFails,
         ReadBase, CountLock, SetCpuWrite, SyncStart, TestCpuWrite, SyncEnd,
         SyncEndFails, TestCount, DecrementCount, ZeroCount, SetCount, ReloadCount,
         ClearCpuWrite, FlushEnd, RereadStart, Leave
<1>2. \A r \in Session : Calls(r) => UnlockCall(r) \/ FlushCall(r) \/ RereadCall(r)
  BY DEF Calls, LockCall, UnlockRefused, SyncRefused, CpuWrites, vars
<1>3. ~(FreeBuffer \/ ImportBuffer \/ DeviceStart \/ DeviceDone \/ UNCHANGED vars)
  BY DEF FreeBuffer, ImportBuffer, DeviceStart, DeviceDone, vars
<1>4. lock_count # 0
  BY <1>1, <1>2, <1>3 DEF Next, UnlockCall, FlushCall, RereadCall, SyncCall
<1> QED
  BY <1>4, FS_EmptySet DEF SequentialInv

\* Calls that do not overlap: whatever fails and whoever calls out of sequence,
\* an unlock, flush or reread passes without a lock only on a handle whose count
\* did not start at zero, or after the flush of an unlock failed.
THEOREM AcceptedOnlyIfCountedAlways ==
  ASSUME Interleave = FALSE, FreshLockCounts \subseteq Nat
  PROVE  Spec => AcceptedOnlyIfCounted
<1>1. TypeOK /\ SequentialInv /\ [Next]_vars => SequentialInv'
  BY SequentialStep
<1>2. TypeOK /\ SequentialInv /\ [Next]_vars =>
        [\A s \in Session :
            pc[s] = "ready" /\ pc'[s] \in {"uflush", "fend", "rstart"} =>
                Holders # {} \/ stuck # 0]_vars
  BY AcceptedStep
<1>3. Init => SequentialInv
  BY SequentialInit
<1> QED
  BY <1>1, <1>2, <1>3, TypeInit, TypeStep, PTL DEF Spec, AcceptedOnlyIfCounted

=============================================================================
