----------------------------- MODULE CpuAccess -----------------------------
(***************************************************************************)
(* CPU locks of one imported buffer: lock_buffer, unlock_buffer,           *)
(* flush_locked_buffer and reread_locked_buffer of mapper_common.cpp and,  *)
(* under them, mali_gralloc_lock, mali_map_buffer, buffer_sync and         *)
(* mali_unmap_buffer of buffer_access.cpp, at the grain of one shared      *)
(* access or system call per step, as threads of one process interleave    *)
(* them.                                                                   *)
(*                                                                         *)
(* A session is one lock call together with the unlock that ends it, so a  *)
(* thread that nests two locks is two sessions.  The fields of             *)
(* imported_handle are base, lock_count and cpu_write;                     *)
(* invalid_write_locks is left out, as it is only ever logged.             *)
(***************************************************************************)
EXTENDS Integers, FiniteSets

CONSTANTS
    Session,           \* lock/unlock sessions
    Addr,              \* addresses mmap may return
    Null,              \* nullptr; also "nobody" for the mutex
    Modes,             \* the arguments lock is called with
    Buffers,           \* the kinds of buffer that are imported
    Faults,            \* the system calls that may fail: "map", "start", "end"
    Strays,            \* calls out of sequence: "unlock" or "flush" without a
                       \* lock, "free" with one
    FreshLockCounts,   \* what the memory of a new handle may hold as lock_count
    MaxStuck,          \* bound on locks that a failed unlock leaves counted
    Interleave         \* whether calls of different sessions overlap in time

\* What lock is asked for: usage bits, an unsignalled acquire fence or none,
\* and whether the access region lies inside the buffer.
Mode == [read : BOOLEAN, write : BOOLEAN, fence : BOOLEAN, inside : BOOLEAN]

\* blob: the format is BLOB; mappable: need_mmap, not delay-allocated and not
\* a reduced-size decoder buffer; afbc: the format has modifiers.
Buffer == [blob : BOOLEAN, mappable : BOOLEAN, afbc : BOOLEAN]

ASSUME CpuAccessAssumption ==
    /\ IsFiniteSet(Session)
    /\ Null \notin Addr /\ Null \notin Session
    /\ Modes \subseteq Mode
    /\ Buffers \subseteq Buffer /\ Buffers # {}
    /\ Faults \subseteq {"map", "start", "end"}
    /\ Strays \subseteq {"unlock", "flush", "free"}
    /\ FreshLockCounts \subseteq Int /\ FreshLockCounts # {}
    /\ MaxStuck \in Nat
    /\ Interleave \in BOOLEAN

VARIABLES
    \* the handle and the process
    live,        \* the handle is imported and not yet freed
    buf,         \* what kind of buffer it is
    base,        \* imported_handle::base
    lock_count,  \* imported_handle::lock_count
    cpu_write,   \* imported_handle::cpu_write, zero or not
    map_mutex,   \* g_map_mutex: the session that holds it, or Null
    mapped,      \* the addresses at which the process has the buffer mapped
    \* the sessions
    pc,          \* where each session is in the call it is making
    mode,        \* the arguments of its lock call
    data,        \* the address lock returned to it
    open,        \* its lock is counted in lock_count
    \* CPU caches and device
    dirty,       \* the CPU cache holds writes the device cannot see
    stale,       \* the CPU cache holds data the device has overwritten
    pending,     \* the device is writing; the buffer's fence is unsignalled
    \* history, read by no guard
    stuck,       \* the part of lock_count that belongs to no session
    excuse       \* calls overlapped, or a lock was mishandled by its client

life    == <<live, buf>>
mapping == <<base, map_mutex, mapped>>
locks   == <<lock_count, cpu_write>>
handle  == <<life, mapping, locks>>
client  == <<mode, data, open>>
cache   == <<dirty, stale, pending>>
history == <<stuck, excuse>>
vars    == <<handle, pc, client, cache, history>>

NoMode == [read |-> FALSE, write |-> FALSE, fence |-> FALSE, inside |-> FALSE]

LockPC   == {"invalid", "wait", "map", "mmap", "base", "count", "setw", "start"}
UnlockPC == {"uflush", "uend", "utest", "udec", "uzero", "ureload", "uclear"}
PC       == {"ready", "fend", "rstart"} \union LockPC \union UnlockPC

Goto(s, l) == pc' = [pc EXCEPT ![s] = l]
Quiet(s)   == pc[s] = "ready" /\ ~open[s]

\* A new call may start: nobody is inside one, or calls may overlap.
MayCall(s) ==
    /\ live
    /\ pc[s] = "ready"
    /\ Interleave \/ \A t \in Session : pc[t] = "ready"

Overlapped(s) == \E t \in Session \ {s} : pc[t] # "ready"

-----------------------------------------------------------------------------
Fresh ==
    /\ base = Null
    /\ cpu_write = FALSE
    /\ mapped = {}

Init ==
    /\ live = TRUE
    /\ buf \in Buffers
    /\ Fresh
    /\ lock_count \in FreshLockCounts
    /\ map_mutex = Null
    /\ pc = [s \in Session |-> "ready"]
    /\ mode = [s \in Session |-> NoMode]
    /\ data = [s \in Session |-> Null]
    /\ open = [s \in Session |-> FALSE]
    /\ dirty = FALSE /\ stale = FALSE /\ pending = FALSE
    /\ stuck = lock_count
    /\ excuse = FALSE

-----------------------------------------------------------------------------
(* lock_buffer and mali_gralloc_lock                                       *)

\* A second writer of a two-dimensional buffer is told it has a lock.
WriteLocked(m) == cpu_write /\ m.write /\ ~buf.blob

Accepted(m) == m.inside /\ (m.read \/ m.write) /\ ~buf.afbc

Leave(s) ==
    /\ Goto(s, "ready")
    /\ mode' = [mode EXCEPT ![s] = NoMode]
    /\ data' = [data EXCEPT ![s] = Null]

\* Entering the call, up to the test of cpu_write.  A client that hands a
\* buffer back to the CPU passes the fence of the device's work.
LockCall(s, m) ==
    /\ MayCall(s) /\ ~open[s]
    /\ pending => m.fence
    /\ mode' = [mode EXCEPT ![s] = m]
    /\ Goto(s, IF WriteLocked(m) THEN "invalid" ELSE IF m.fence THEN "wait" ELSE "map")
    /\ excuse' =
        \/ Overlapped(s)
        \/ ~m.write /\ \E t \in Session : open[t] /\ mode[t].write
        \/ excuse /\ (dirty \/ \E t \in Session \ {s} : ~Quiet(t))
    /\ UNCHANGED <<handle, data, open, cache, stuck>>

\* Mutant: the lock that lock_buffer lets through is not counted.
InvalidLockUncounted(s) ==
    /\ pc[s] = "invalid"
    /\ open' = [open EXCEPT ![s] = TRUE]
    /\ Goto(s, "ready")
    /\ UNCHANGED <<handle, mode, data, cache, history>>

\* The lock is counted and NONE returned, with no address and no wait.
InvalidLock(s) ==
    /\ pc[s] = "invalid"
    /\ lock_count' = lock_count + 1
    /\ open' = [open EXCEPT ![s] = TRUE]
    /\ Goto(s, "ready")
    /\ UNCHANGED <<life, mapping, cpu_write, mode, data, cache, history>>

\* Mutant: the acquire fence is not waited for.
SyncWaitPolls(s) ==
    /\ pc[s] = "wait"
    /\ Goto(s, "map")
    /\ UNCHANGED <<handle, client, cache, history>>

SyncWait(s) ==
    /\ pc[s] = "wait"
    /\ ~pending
    /\ Goto(s, "map")
    /\ UNCHANGED <<handle, client, cache, history>>

LockRejected(s) ==
    /\ pc[s] = "map"
    /\ ~Accepted(mode[s])
    /\ Leave(s)
    /\ UNCHANGED <<handle, open, cache, history>>

\* Mutant: mali_map_buffer without the mutex.
EnterMapUnlocked(s) ==
    /\ pc[s] = "map"
    /\ Accepted(mode[s])
    /\ Goto(s, IF base = Null /\ buf.mappable THEN "mmap" ELSE "base")
    /\ UNCHANGED <<handle, client, cache, history>>

\* Mutant: the mutex is not released when there is nothing to map.
EnterMapKeepsMutex(s) ==
    /\ pc[s] = "map"
    /\ Accepted(mode[s])
    /\ map_mutex = Null
    /\ map_mutex' = s
    /\ Goto(s, IF base = Null /\ buf.mappable THEN "mmap" ELSE "base")
    /\ UNCHANGED <<life, base, mapped, locks, client, cache, history>>

\* mali_map_buffer takes the mutex; it keeps it only when it has to map.
EnterMap(s) ==
    /\ pc[s] = "map"
    /\ Accepted(mode[s])
    /\ map_mutex = Null
    /\ IF base = Null /\ buf.mappable
       THEN map_mutex' = s /\ Goto(s, "mmap")
       ELSE UNCHANGED map_mutex /\ Goto(s, "base")
    /\ UNCHANGED <<life, base, mapped, locks, client, cache, history>>

\* Mutant: the address recorded is the one base had before.
MmapOldBase(s) ==
    /\ pc[s] = "mmap"
    /\ base' \in Addr \ mapped
    /\ mapped' = mapped \union {base}
    /\ map_mutex' = Null
    /\ Goto(s, "base")
    /\ UNCHANGED <<life, locks, client, cache, history>>

Mmap(s) ==
    /\ pc[s] = "mmap"
    /\ base' \in Addr \ mapped
    /\ mapped' = mapped \union {base'}
    /\ map_mutex' = Null
    /\ Goto(s, "base")
    /\ UNCHANGED <<life, locks, client, cache, history>>

MmapFails(s) ==
    /\ pc[s] = "mmap"
    /\ "map" \in Faults
    /\ map_mutex' = Null
    /\ Leave(s)
    /\ UNCHANGED <<life, base, mapped, locks, open, cache, history>>

\* The address is read after the mutex has been released.
ReadBase(s) ==
    /\ pc[s] = "base"
    /\ data' = [data EXCEPT ![s] = base]
    /\ Goto(s, "count")
    /\ UNCHANGED <<handle, mode, open, cache, history>>

\* buffer_sync with a direction: count, set cpu_write, then the ioctl, whose
\* failure is ignored.
CountLock(s) ==
    /\ pc[s] = "count"
    /\ lock_count' = lock_count + 1
    /\ open' = [open EXCEPT ![s] = TRUE]
    /\ Goto(s, "setw")
    /\ UNCHANGED <<life, mapping, cpu_write, mode, data, cache, history>>

\* Mutant: TX_TO_DEVICE is forgotten, only TX_BOTH counts as a write.
SetCpuWriteBoth(s) ==
    /\ pc[s] = "setw"
    /\ cpu_write' = (mode[s].write /\ mode[s].read)
    /\ Goto(s, "start")
    /\ UNCHANGED <<life, mapping, lock_count, client, cache, history>>

SetCpuWrite(s) ==
    /\ pc[s] = "setw"
    /\ cpu_write' = mode[s].write
    /\ Goto(s, "start")
    /\ UNCHANGED <<life, mapping, lock_count, client, cache, history>>

SyncStart(s) ==
    /\ pc[s] = "start"
    /\ \/ stale' = (stale /\ ~mode[s].read)
       \/ "start" \in Faults /\ UNCHANGED stale
    /\ Goto(s, "ready")
    /\ UNCHANGED <<handle, client, dirty, pending, history>>

-----------------------------------------------------------------------------
(* unlock_buffer and buffer_sync(TX_NONE)                                  *)

MayUnlock(s, call) == MayCall(s) /\ (open[s] \/ call \in Strays)

UnlockRefused(s) ==
    /\ MayUnlock(s, "unlock")
    /\ lock_count = 0
    /\ UNCHANGED vars

UnlockCall(s) ==
    /\ MayUnlock(s, "unlock")
    /\ lock_count # 0
    /\ Goto(s, "uflush")
    /\ excuse' = (excuse \/ Overlapped(s))
    /\ UNCHANGED <<handle, client, cache, stuck>>

TestCpuWrite(s) ==
    /\ pc[s] = "uflush"
    /\ Goto(s, IF cpu_write THEN "uend" ELSE "utest")
    /\ UNCHANGED <<handle, client, cache, history>>

SyncEnd(s) ==
    /\ pc[s] = "uend"
    /\ dirty' = FALSE
    /\ Goto(s, "utest")
    /\ UNCHANGED <<handle, client, stale, pending, history>>

\* The early return: unlock reports success and the lock stays counted.
SyncEndFails(s) ==
    /\ pc[s] = "uend"
    /\ "end" \in Faults
    /\ stuck < MaxStuck
    /\ stuck' = stuck + 1
    /\ excuse' = TRUE
    /\ open' = [open EXCEPT ![s] = FALSE]
    /\ Leave(s)
    /\ UNCHANGED <<handle, cache>>

TestCount(s) ==
    /\ pc[s] = "utest"
    /\ Goto(s, IF lock_count > 0 THEN "udec" ELSE "uzero")
    /\ UNCHANGED <<handle, client, cache, history>>

SetCount(s, n) ==
    /\ lock_count' = n
    /\ open' = [open EXCEPT ![s] = FALSE]
    /\ Goto(s, "ureload")
    /\ UNCHANGED <<life, mapping, cpu_write, mode, data, cache, history>>

\* Mutant: an unlock gives back every lock.
DecrementCountToZero(s) == pc[s] = "udec" /\ SetCount(s, 0)

DecrementCount(s) == pc[s] = "udec" /\ SetCount(s, lock_count - 1)
ZeroCount(s)      == pc[s] = "uzero" /\ SetCount(s, 0)

\* Mutant: cpu_write is never cleared.
ReloadCountNeverClears(s) ==
    /\ pc[s] = "ureload"
    /\ Leave(s)
    /\ UNCHANGED <<handle, open, cache, history>>

ReloadCount(s) ==
    /\ pc[s] = "ureload"
    /\ IF lock_count = 0 THEN Goto(s, "uclear") /\ UNCHANGED <<mode, data>> ELSE Leave(s)
    /\ UNCHANGED <<handle, open, cache, history>>

ClearCpuWrite(s) ==
    /\ pc[s] = "uclear"
    /\ cpu_write' = FALSE
    /\ Leave(s)
    /\ UNCHANGED <<life, mapping, lock_count, open, cache, history>>

-----------------------------------------------------------------------------
(* flush_locked_buffer and reread_locked_buffer                            *)

SyncRefused(s) ==
    /\ MayUnlock(s, "flush")
    /\ lock_count = 0
    /\ UNCHANGED vars

\* Mutant: a buffer that is not locked may be flushed.
SyncCallUnchecked(s, l) ==
    /\ MayUnlock(s, "flush")
    /\ Goto(s, l)
    /\ UNCHANGED <<handle, client, cache, history>>

SyncCall(s, l) ==
    /\ MayUnlock(s, "flush")
    /\ lock_count # 0
    /\ Goto(s, l)
    /\ UNCHANGED <<handle, client, cache, history>>

FlushCall(s)  == SyncCall(s, "fend")
RereadCall(s) == SyncCall(s, "rstart")

FlushEnd(s) ==
    /\ pc[s] = "fend"
    /\ \/ dirty' = FALSE
       \/ "end" \in Faults /\ UNCHANGED dirty
    /\ Goto(s, "ready")
    /\ UNCHANGED <<handle, client, stale, pending, history>>

RereadStart(s) ==
    /\ pc[s] = "rstart"
    /\ \/ stale' = FALSE
       \/ "start" \in Faults /\ UNCHANGED stale
    /\ Goto(s, "ready")
    /\ UNCHANGED <<handle, client, dirty, pending, history>>

-----------------------------------------------------------------------------
(* import_buffer and free_buffer, as far as they touch the lock state: a   *)
(* client frees the handle outside any call, after its last unlock unless  *)
(* it breaks the call sequence; mali_unmap_buffer unmaps and the handle is *)
(* gone.  lock_count of a new handle is whatever its memory held, since no *)
(* constructor of imported_handle runs.                                    *)

FreeBuffer ==
    /\ live
    /\ \A s \in Session : pc[s] = "ready"
    /\ "free" \in Strays \/ \A s \in Session : ~open[s]
    /\ live' = FALSE
    /\ base' = Null
    /\ cpu_write' = FALSE
    /\ lock_count' = 0
    /\ mapped' = mapped \ {base}
    /\ mode' = [s \in Session |-> NoMode]
    /\ data' = [s \in Session |-> Null]
    /\ open' = [s \in Session |-> FALSE]
    /\ stuck' = 0
    /\ excuse' = (excuse \/ \E s \in Session : open[s])
    /\ UNCHANGED <<buf, map_mutex, pc, cache>>

ImportBuffer ==
    /\ ~live
    /\ live' = TRUE
    /\ base' = Null
    /\ cpu_write' = FALSE
    /\ lock_count' \in FreshLockCounts
    /\ stuck' = lock_count'
    /\ UNCHANGED <<buf, map_mutex, mapped, pc, client, cache, excuse>>

-----------------------------------------------------------------------------
(* Clients and devices: external                                           *)

CpuWrites(s) ==
    /\ pc[s] = "ready" /\ open[s]
    /\ mode[s].write /\ data[s] # Null
    /\ dirty' = TRUE
    /\ UNCHANGED <<handle, pc, client, stale, pending, history>>

\* A buffer is given to a device only while no CPU session is open on it.
DeviceStart ==
    /\ ~pending
    /\ \A s \in Session : Quiet(s)
    /\ pending' = TRUE
    /\ UNCHANGED <<handle, pc, client, dirty, stale, history>>

DeviceDone ==
    /\ pending
    /\ pending' = FALSE
    /\ stale' = TRUE
    /\ UNCHANGED <<handle, pc, client, dirty, history>>

-----------------------------------------------------------------------------
\* Everything a thread does between entering a call and returning from it.
InCall(s) ==
    \/ InvalidLock(s) \/ SyncWait(s) \/ LockRejected(s)
    \/ EnterMap(s) \/ Mmap(s) \/ MmapFails(s)
    \/ ReadBase(s) \/ CountLock(s) \/ SetCpuWrite(s) \/ SyncStart(s)
    \/ TestCpuWrite(s) \/ SyncEnd(s) \/ SyncEndFails(s) \/ TestCount(s)
    \/ DecrementCount(s) \/ ZeroCount(s) \/ ReloadCount(s) \/ ClearCpuWrite(s)
    \/ FlushEnd(s) \/ RereadStart(s)

Calls(s) ==
    \/ \E m \in Modes : LockCall(s, m)
    \/ UnlockCall(s) \/ UnlockRefused(s)
    \/ FlushCall(s) \/ RereadCall(s) \/ SyncRefused(s)
    \/ CpuWrites(s)

Next ==
    \/ \E s \in Session : Calls(s) \/ InCall(s)
    \/ FreeBuffer \/ ImportBuffer
    \/ DeviceStart \/ DeviceDone

Spec == Init /\ [][Next]_vars

\* Threads inside a call keep running, a device finishes what it has started.
FairSpec ==
    /\ Spec
    /\ \A s \in Session : WF_vars(InCall(s))
    /\ WF_vars(DeviceDone)

-----------------------------------------------------------------------------
(* Properties                                                              *)

TypeOK ==
    /\ live \in BOOLEAN
    /\ buf \in Buffer
    /\ base \in Addr \union {Null}
    /\ lock_count \in Int
    /\ cpu_write \in BOOLEAN
    /\ map_mutex \in Session \union {Null}
    /\ mapped \subseteq Addr
    /\ pc \in [Session -> PC]
    /\ mode \in [Session -> Mode]
    /\ data \in [Session -> Addr \union {Null}]
    /\ open \in [Session -> BOOLEAN]
    /\ dirty \in BOOLEAN /\ stale \in BOOLEAN /\ pending \in BOOLEAN
    /\ stuck \in Int
    /\ excuse \in BOOLEAN

Holders == {s \in Session : open[s]}

\* lock_count is the number of sessions whose lock has been counted and not
\* given back, plus what failed unlocks left behind: no interleaving of the
\* separate loads, increments and decrements of buffer_sync loses a lock.
CountMatches == lock_count = stuck + Cardinality(Holders)

\* mali_map_buffer: the buffer has at most one mapping, the one in base, no
\* mapping outlives the handle, and a session's address stays valid until its
\* lock is given back.
OneMapping ==
    /\ mapped = IF base = Null THEN {} ELSE {base}
    /\ ~live => mapped = {}
    /\ \A s \in Session : open[s] => data[s] \in {Null} \union mapped

\* What the test of lock_count is worth when clients call out of sequence: an
\* unlock, flush or reread passes while no client holds a lock only on a handle
\* whose count was not zero when it was imported, or on which the flush of an
\* earlier unlock has failed.  A stray unlock never makes up a lock.
AcceptedOnlyIfCounted ==
    [][\A s \in Session :
          pc[s] = "ready" /\ pc'[s] \in {"uflush", "fend", "rstart"} =>
              Holders # {} \/ stuck # 0]_vars

\* The client that holds a lock is never told BAD_BUFFER.
HolderIsNotRefused ==
    \A s \in Session : open[s] /\ pc[s] = "ready" => lock_count > 0

\* lock waits for the acquire fence before it invalidates the CPU cache, so a
\* session that reads finds what the device wrote.
ReadersSeeDeviceData ==
    \A s \in Session :
        open[s] /\ pc[s] = "ready" /\ mode[s].read /\ data[s] # Null => ~stale

\* Data written under a lock has been written back once every lock has been
\* given back, unless calls overlapped in time, a read lock was taken over a
\* write lock, or a sync failed: buffer_sync's flush depends on cpu_write alone.
WrittenBack == (\A s \in Session : Quiet(s)) /\ ~excuse => ~dirty

\* The flag that makes lock_buffer refuse writers does not outlive the last
\* lock, whatever the interleaving: a writer is turned away (counted, but given
\* no address) only while some other session is open or in a call.
RefusedOnlyIfShared ==
    [][\A s \in Session :
          pc[s] = "ready" /\ pc'[s] = "invalid" =>
              stuck > 0 \/ \E t \in Session \ {s} : ~Quiet(t)]_vars

\* Every lock, unlock, flush and reread call returns.
CallsReturn == \A s \in Session : pc[s] # "ready" ~> pc[s] = "ready"

-----------------------------------------------------------------------------
\* The detailed steps implement the atomic interface.
Api == INSTANCE LockApi WITH
         holders <- Holders, count <- lock_count - stuck, mapping <- base, view <- data
ImplementsApi == Api!ApiSpec
=============================================================================
