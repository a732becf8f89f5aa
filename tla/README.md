# Verification of the Arm/Amlogic gralloc

TLA+ models of the graphics memory allocator and mapper in this repository, the
TLC runs that check them on small instances, and TLAPS proofs of the properties
that matter most for every instance. Paths are relative to the repository root;
`buffer_access.cpp` stands for `src/core/buffer_access.cpp`, `mapper_common.cpp`
for `src/idl_common/mapper/mapper_common.cpp`, and so on; the full paths are in
`PROJECT.json`.

## 1. The system

An allocator service (one process) turns descriptors into buffers: a dma-buf, a
shared page of metadata and a handle (three file descriptors and some integers).
Handles travel to client processes, where the mapper library imports them, maps
them for the CPU on `lock`, maintains the caches, reads and writes the metadata
and frees them.

| component | state | operations | correct when |
|---|---|---|---|
| CPU access (`buffer_access.cpp`, `mapper_common.cpp`) | `base`, `lock_count`, `cpu_write` of a handle; one mutex for all maps | lock, unlock, flush, reread, map, unmap | locks are counted in every interleaving; one mapping; what is written reaches the device, what the device wrote reaches readers |
| handles and pool (`buffer.h`, `registered_handle_pool.cpp`) | the handle's descriptors, type, `import_pid`, `attr_base`; the set of registered handles | import, free, get, set, dump | no descriptor or mapping leaks or is closed twice; the pool holds live handles only |
| layer heap choice (`aml_dma_buf_heaps.cpp:759`) | table of layers with remaining count, size, time, heap | pick, expire | the three buffers of a layer get one answer, and one heap where it can give them; what was promised is there |
| DMA-BUF allocator (`aml_dma_buf_heaps.cpp`) | the cached protected-heap answer | pick a heap, UVM, allocate, fall back | flags match the heap; no descriptor is lost on any error path |
| allocator service (`idl_common/allocator`, `aidl`, `4.x`) | between calls only whether protected memory is supported | allocate and allocate2 n buffers, isSupported | all or nothing; equal strides; an error has a cause |
| size and layout (`buffer_allocation.cpp`) | none | derive format and size | planes lie inside the allocation, do not overlap, strides are aligned |
| format selection (`formats.cpp`, `format_info.cpp`) | tables, capabilities | select a format | every producer and consumer supports the result; no better one was passed over |
| capabilities (`capabilities/`) | one set of features per processor, read once | find a feature | what a processor lacks is never used |
| shared metadata (`shared_metadata.cpp`, `mapper_metadata.cpp`) | one shared page per buffer, no lock | get, set, dump per item | a quiet get returns what was last set; a race shows no value that nobody set where one word holds it |
| mapper front-ends (`stablec`, `4.x`, `mapper_hidl.cpp`) | none | translate calls, errors, encodings | errors map faithfully; what is answered decodes to what was set |
| Amlogic extensions (`amlogic/`) | table of 32 decoder slots, uvm node | get, set, free slot | a slot has one owner; its parameters reach the allocation and nobody else's |

How they interact: the service calls size and layout, then the allocator, then
initialises the shared metadata. The mapper front-ends call `mapper_common`,
which owns the pool and calls CPU access, which calls the allocator's map and
sync entry points. The decoder writes slot parameters that the size computation
of a later allocation reads through the uvm node. Within a process the mapper is
called by any number of threads; `lock_count` is atomic, `cpu_write`, `base` and
the metadata are plain memory; `g_map_mutex` covers map and unmap only. The AIDL
service runs one thread, the HIDL one up to four over the same static state.

Hard behaviours: interleavings inside lock and unlock; locks that nest; failed
ioctls halfway through an unlock; import failing after some descriptors were
duplicated; a handle found in the pool and freed before use; the layer table
when a layer stops asking, when other users of the heap interfere, when several
threads use it; decoder parameters that change between two buffers of one
allocation; two processes on one metadata page. `PROJECT.json` lists each
hazard at its line.

## 2. The modules

| module | models | composed with |
|---|---|---|
| `LockApi`, `CpuAccess` | the locks of one buffer, and what they promise as atomic calls | `CpuAccess` implements `LockApi` |
| `LayerHeap` | the layer table, several threads, timeouts, other users of the heap | |
| `HandlePool` | import, free and dump, partial failure, several mapper instances | |
| `FormatTable`, `AllocType`, `Capabilities`, `FormatSelect` | pure definitions: the tables, formats with modifiers, the processors' features, the decisions of `formats.cpp` | |
| `AllocLayout` | one request from its arrival to the size asked of the allocator | extends `FormatSelect`, which extends `AllocType` and `Capabilities` |
| `DecoderSlots` | the slots of a decoder process and the parameters in the UVM driver | |
| `AllocService` | the requests of several callers, each call of the system one step | extends `DecoderSlots`: decoders change parameters during a request |
| `SharedMetadata` | the items of the metadata page as pure definitions | |
| `Metadata` | get, set and dump by several clients, import and free in between | extends `SharedMetadata` |

`MC*` modules give the constants of the instances; `*Proofs` modules hold the
theorems, `SumTheorems` facts about finite sums that they use. No module declares a RECURSIVE operator.

Left for later: models of the encoding of descriptors by the HIDL front-end and
of the int32 region check of a lock.

## 3. CpuAccess: the locks of one buffer

### State and actions

One imported handle, and *sessions*: a lock call with the unlock that ends it. A
thread that nests two locks is two sessions. `base`, `lock_count` and
`cpu_write` are the fields of `imported_handle`; `map_mutex` is `g_map_mutex`;
`mapped` is what the process has mapped. `pc[s]` is where session `s` is in its
call; each label stands between two accesses to shared state:

| steps | code |
|---|---|
| `LockCall`, `InvalidLock`, `SyncWait`, `LockRejected` | `lock_buffer` (`mapper_common.cpp:195`): the test of `cpu_write`, the second writer that is counted and told NONE, the fence, the validation |
| `EnterMap`, `Mmap`, `MmapFails`, `ReadBase` | `mali_map_buffer` under the mutex, `allocator_map`, `*vaddr = hnd->base` after it |
| `CountLock`, `SetCpuWrite`, `SyncStart` | `buffer_sync` with a direction |
| `UnlockCall`, `TestCpuWrite`, `SyncEnd(Fails)`, `TestCount`, `DecrementCount`/`ZeroCount`, `ReloadCount`, `ClearCpuWrite` | `unlock_buffer` and `buffer_sync(TX_NONE)`: the early return when the ioctl fails, the test, the atomic decrement, the second load |
| `FlushCall`, `RereadCall`, `FlushEnd`, `RereadStart` | `flush_locked_buffer`, `reread_locked_buffer` |
| `FreeBuffer`, `ImportBuffer` | the part of free and import that touches these fields |
| `CpuWrites`, `DeviceStart`, `DeviceDone` | clients and devices, external |

Caches are three flags: `dirty` (the CPU wrote and nothing was flushed), `stale`
(the device wrote and nothing was invalidated), `pending` (the device is still
writing, its fence unsignalled). Buffers differ in whether their format is BLOB,
whether they can be mapped and whether they are AFBC; lock arguments in the
usage bits, the fence and whether the region is inside. `invalid_write_locks` is
only logged and left out. `stuck` and `excuse` are history no guard reads.

`LockApi` is the interface with atomic calls: holders, a count, one mapping, the
address each session was given. `CpuAccess` implements it (`ImplementsApi`) with
`holders` the sessions whose lock is counted, `count` the lock count less
`stuck`, `mapping` the base.

### Runs

| run | shows |
|---|---|
| `cpu_concurrent` | three sessions, all interleavings, fences, a device, mmap and the sync of an unlock may fail: types, `CountMatches`, `OneMapping`, `WrittenBack`, `ReadersSeeDeviceData`, `RefusedOnlyIfShared`, and the atomic interface is implemented |
| `cpu_faults` | two sessions, every kind of buffer, both sync ioctls may fail, clients may unlock without a lock while another unlocks: every call returns |
| `cpu_sequential` | calls that do not overlap but nest in any order, with clients that unlock, flush and free out of sequence, flushes that fail and handles whose count starts at 0 or 2: `AcceptedOnlyIfCounted` |

Bounds: three sessions are enough for one session to hold a lock while two
others race in the test-decrement-reload of an unlock; two addresses tell a
second mapping from the first. With faults or liveness two sessions keep the
state space small. A failed sync at the start of a lock is left to `cpu_faults`:
it is ignored by the code, and a reader may then find stale data. `MaxStuck`
bounds how often the flush of an unlock may fail; after one failure every other
session meets what it left. `FreshLockCounts` is what the memory of a new handle
may hold as `lock_count`: 0 in the runs about what follows from a right count, 2
as well in `cpu_sequential`. Symmetry is used only in runs without liveness;
`LockApi` treats sessions and addresses alike.

`WrittenBack` holds for calls that do not overlap; `excuse` records the cases in
which the code is known not to flush (a read lock taken over a write lock,
overlapping calls, a failed sync, freeing a locked buffer) until the buffer is
clean and unlocked again (section 9).

Fairness (`FairSpec`): a thread inside a call keeps running (weak fairness of
its next step), a device finishes what it started. In `cpu_faults` mmap does not
fail: a lock call whose mmap fails releases the mutex unmapped, and clients
retrying for ever could then starve a third thread on `std::mutex`, which
promises no fairness.

`AcceptedOnlyIfCounted` is less than `mapper_common.hpp:115` promises, which is
that a reread is refused of "a buffer that has not been locked". Nothing sets
`lock_count` of a new handle: `make_imported_handle` (`buffer.h:385`) casts raw
memory to `imported_handle`, so no constructor runs, the initialiser at
`buffer.h:287` never does, and `import_buffer` sets only `base` and `cpu_write`. The
property says that a call without a lock passes only on a handle whose memory was
not zero there, or on which a failed flush has left a lock counted; `stuck` counts both.

### Proofs (`CpuAccessProofs`)

For any number of sessions, any buffers, arguments and faults:

- `TypeCorrect`: `TypeOK` is inductive.
- `SingleMapping`: `OneMapping`. It is not inductive: `MappingInv` adds that the
  session at `mmap` holds the mutex and base is null then, and that data read by
  a session in the middle of its call is already base.
- `LockCountCorrect`: `CountMatches`, for clients that unlock only what they
  locked (`"unlock" \notin Strays`). `CountInv` adds at which points of a call a
  session is counted; a finite-set lemma for adding and removing a holder does
  the arithmetic. With stray unlocks the statement is false.
- `HoldersCanUnlock`: `HolderIsNotRefused` follows from the count; it is proved and not run, being a corollary of `CountMatches`.
- `WritersRefusedOnlyIfShared`: `RefusedOnlyIfShared`, for clients that unlock
  only what they locked. `SharedInv` follows the flag `cpu_write` into every
  call: while nothing is stuck and it is set, some session is open or is on the
  way to clearing it. With stray unlocks the statement is false.
- `ReadersAreUpToDate`: `ReadersSeeDeviceData`, while the sync that starts a CPU
  access does not fail. `ReadInv` says between which steps of a lock the buffer
  may still be stale: not after the fence and the sync.
- `DevicesSeeCpuWrites`: `WrittenBack`, for clients that unlock only what they
  locked. `BackInv` needs `FlagInv`: unless `excuse` records why not, `cpu_write`
  is set from before a client can write until after the flush.
- `AcceptedOnlyIfCountedAlways`: `AcceptedOnlyIfCounted`, for calls that do not
  overlap, whatever clients call out of sequence and whatever fails. `SequentialInv`:
  the count is never higher than the locks held and those in `stuck` (what the
  handle started with and what failed flushes left), and the decrement of an unlock
  stops at zero, so a stray unlock can only make it lower.

Every theorem assumes `CpuAccessAssumption` (sessions finite, null is no
address, constants in their ranges); what else one assumes is named above. Those
about the count or `cpu_write` also assume that the count of a new handle is not
below zero (`FreshLockCounts \subseteq Nat`), which nothing in the code sees to.
Liveness is model-checked only.

## 4. LayerHeap: three buffers from one heap

`LayerHeap` models `am_gralloc_pick_heap_gfx` and the part of
`allocator_allocate` that uses its answer, as built with `ALLOC_FROM_SAME_HEAP`.

### State and actions

| variable | code |
|---|---|
| `layers` | the static table; an entry with `count` 0 is one that is not there |
| `clock`, `now[t]` | `CLOCK_MONOTONIC` and the reading a thread works with, in ticks |
| `free`, `held`, `others`, `seen[t]` | free space of heap-gfx, who has taken it, the size a thread read |
| `pc`, `req`, `gfx` | where a thread is in the call, its request, the heap it picked |
| `served` | history: of the set of three a layer is being served, the requests, the answers and the heaps; `cut` once a restart, or a silence of the timeout, came in the middle of a set |

A call is `Pick` (the early returns, or the readings of clock and free size),
`Expire` (the loop over old entries), `Found` or `NotFound` and `Insert`, then
`AllocGfx`, `AllocSystem` (picked or fallen back to) or `AllocFails`. Two
undefined behaviours are choices: the loop erases the element it stands on, so
`Expire` removes any non-empty part of the old entries; and the age of an entry
is an unsigned difference, so `Expired` includes entries younger than the
reading. The environment frees buffers, lets other processes use heap-gfx, lets
time pass and restarts the service. Two threads interleave at the steps above;
a race inside one operation of `unordered_map` is not modelled further.
A restarted service starts with an empty table, while `held` and `served` stay:
after a restart in the middle of a set the table counts the layer's buffers wrong
for good. A silence may do the same, as the loop may end before it has removed the entry.

### Runs

| run | instance | shows |
|---|---|---|
| `layer_promises` | one thread, two layers of sizes 1 and 2, heap 7, a tick that times out, restarts, system heap fails | the buffers of a layer that was not cut in the middle of a set come from one heap; what is promised and about to be taken is free |
| `layer_timeouts` | one thread, heap 3, two ticks with timeout 2, unnamed and CPU requests, other users, either heap and the CMA ioctl may fail | buffers fall back behind the table's back or fail, and a layer's requests still get one answer; an entry goes early only if its layer was silent |
| `layer_threads` | two threads, a violation | the finding below |

Bounds. A heap of 7 holds a set of either layer (3 or 6 units) but not of both, a
heap of 3 exactly one set: the test that compares promises with free space goes
both ways in each. Two ticks with a timeout of two tell "answered one tick ago"
from "old", and let an entry refreshed at tick 1 outlive tick 2. The two layers of
`layer_timeouts` are alike, hence its symmetry.
`ThreeFromOneHeap` is checked without other users and faults of heap-gfx: a promised
buffer that finds it taken falls back to the system heap without the table knowing,
and the heaps do differ (`layer_timeouts`, where only `ThreeOneAnswer` is claimed).
What the comment at `aml_dma_buf_heaps.h:54` wants to avoid, "the three buffers of the
layer being allocated from different heaps", is not avoided for a layer cut in the
middle of a set: a restart between its first and second buffer makes the second one
a first one, decided by what is free then.
`PromisesAreKept` is checked there only, because
other users and requests without a layer's name may take what was promised.
There is no deadlock and no liveness claim: the code never waits.

### Finding

`layer_threads`: in the HIDL service (four threads) the difference of time
stamps can be negative, that is huge, and a new entry is removed although
`aml_dma_buf_heaps.cpp:765` says entries go after five seconds.

### Proofs (`LayerHeapProofs`)

For any layers, requests, heap size, faults, other users and restarts:

- `TypeCorrect`, for any number of threads. The type invariant is strengthened
  with `Reaches`: a thread at the table serves a request of a layer.
- `EntriesStay`, for one thread. The invariant `Ages`: an entry carries the time
  of its layer's last answer, the thread in the loop read the clock after every
  entry was made, and a thread that inserts finds no entry.
- `OneAnswer`, for one thread, whatever fails, times out and whoever else uses the
  heap: `ThreeOneAnswer`, of the layers that were not cut in the middle of a set. A
  restart or a silence between two sets does a layer no harm. The invariant `Turns`
  relates an entry's remaining count to the requests its layer has made, one more
  while the thread is at the table, and its heap to the answers given; an entry that
  is gone in the middle of a set belongs to a layer silent for so long that its next
  request cuts it. It needs `Ages` to know that the loop removes no younger one.
- `PromisesKept`, for one thread, whatever times out: `PromisesAreKept`, the sum
  over the table. `PromiseInv` adds what an entry's size is (`EntrySizes`) and that
  the free space read is still there when it is used (`Readings`). The sum is
  `SumFunctionOnSet` of the community modules; `SumTheorems` proves by induction
  on finite sets (`FiniteInduction`) what a step does to it: taking one element
  out, changing one (`TotalChange`), lessening all (`TotalMonotonic`).
- `OneHeap`, for one thread: `ThreeFromOneHeap`. The
  invariant `HeapsFollow`: heaps follow answers, as the buffer about to be taken is
  among what is promised (`TakerFits`), so the system heap is no fallback.

"One thread" is `Single`, the AIDL service's
`ABinderProcess_setThreadPoolMaxThreadCount(0)`; `layer_threads` shows it is
needed. The last two also assume what their run does: heap-gfx has no other users
(`~OtherUsers`), the CMA ioctl answers, and requests name a layer that always
asks for one size or have CPU bits (`LayersOfOneSize`); `OneHeap` further that
heap-gfx gives what is free. Without the first, others take what was promised;
without the others, a request takes from heap-gfx what no entry counts.

## 5. HandlePool: importing, freeing and dumping handles

`HandlePool` models `import_buffer` with `make_imported_handle`, `free_buffer`
and `dump_buffers` in one process, which may load the mapper more than once.

### State and actions

| variable | code |
|---|---|
| `live`, `numFds`, `imported` | the allocated addresses, and of the handle there the count of descriptors and whether its type says imported |
| `open[a]` | how many of the descriptors duplicated for the handle are open |
| `attr`, `base` | the handles whose attributes, whose pixels are mapped |
| `pool[i]` | `bufPool` of mapper instance `i`; its mutex is held by a thread at `dump` |
| `pc`, `inst`, `hdl` | where a thread is, the instance it calls, its handle |
| `todo`, `dumped` | what its dump has to visit and has reported |
| `held`, `by`, `orphans` | history: who owns a handle, who imported it, what a free through another instance has left in a pool |

An import is `ImportBuffer`, three times `Dup`, `SetType`, `MapAttr`, `Add`, and
from `DupFails` or `MapAttrFails` the deleter's `Close` and `Delete`. A free is
`FreeBuffer`, `Remove`, `Unmap`, `Close`, `Delete`. A dump is `DumpBuffers`, a
`Visit` per handle and `DumpEnd`. `MapBase` stands for the first lock. `dup` and
`mmap` may fail at any time, because the rest of the process uses descriptors
and memory too. An address is free for reuse after `Delete`, so a pool can hold
the address of a handle that is gone and of one that is new. Calls that are
refused (a handle that is not gralloc's or not imported) change nothing and are
left out; `import_pid` is that of the one process.

Assumed of clients: a handle is freed once and not used afterwards. They may
free through any instance (`Foreign`).

### Run, bounds and proofs

`handle_pool` checks the five properties with two threads, two instances and two
addresses: a free through one instance can overlap a dump or an import of the
other, and an address can be reused while the other instance still lists it.
Nothing is counted but the descriptors of a handle, so no bound is needed.
There is no liveness claim: `std::mutex` does not promise one.

`HandlePoolProofs` proves all five for any threads, instances and addresses. The
invariant `IInv` is about ownership: a handle belongs to a client or to one call
(`Ownership`), what it has at each point of that call is known (`Stages`), what a
client owns is whole and registered (`HeldWhole`), what is free is bare
(`FreeBare`), and what a pool lists and is no orphan is owned (`PoolOwned`). None
of the five properties is inductive without `Ownership`: two calls on one handle
would close it twice. `DumpsAreComplete` adds `DumpFrozen`, the effect of the
mutex. No assumption on the constants is used.

## 6. AllocLayout: from a request to a layout

A request is what a client asks for (a HAL format or a forced one with
modifiers, usage, descriptor flags, size, layers) and the configuration of the
processors on the device. `AllocLayout` follows one request through
`mali_gralloc_derive_format_and_size`:

| steps | code |
|---|---|
| `SelectForcedFormat`, `RefuseRequest`, `StartSearch` | `mali_gralloc_select_format` before its search |
| `ConsiderCandidate`, `ChooseFormat` | the loop of `get_best_format` and the choice after it; a step per base format, since each is compared with what the earlier ones left |
| `DeriveType`, `AlignDimensions` | `get_alloc_type`, `validate_format`, the decoder's alignment or `mali_gralloc_adjust_dimensions` |
| `CalcPlane`, `FinishLayout` | the loop of `calc_allocation_size`, the layers, the AFRC pitch |
| `set_fixed_buffer_size` | the size of a framebuffer |

`FormatTable` has every row of `formats[]`, of the IP support table and of the
table from HAL to internal formats; flags are a set. `AllocType` has formats with
modifiers: the same bits mean different things for AFBC and AFRC. `Capabilities`
has the search of the XML files, which gives up at the first that does not parse.
An assert that does not hold is recorded in `broken` and the program goes on.
`req_info` and `info` are the table's rows of the requested and of the chosen base
format (`req_fmt_info`, `format_info`); `users` has the producers and consumers and
the sets of features that `ip_t::support` answers for them, which never change
while the process runs.

### Run `alloc_layout`, and its bounds

Three sets of requests: every format of the table and the HAL with 23 usages, 4
sets of flags and 4 configurations of processors (the two of the repository, one
where all can do everything, one with a file that does not parse) at one size,
for the selection; every format with fewer usages, four sizes (1x1, odd, round,
1080p), one layer and three, and decoder alignments, for the layout; and forced
formats with ten sets of modifiers, legal and illegal. Each request is followed
alone: nothing is shared, so one at a time shows as much as many. The sizes are
small enough that no integer of the code overflows.

`SelectionIsBest` compares the result of the search with a definition over the
whole table. `EveryIpHasTheFeatures` asks the capabilities of each processor for
what the chosen modifiers need, `SelectedIsAllocatable` that the two modules that
decide on modifiers agree. `PlanesFit`, `RowsFit`, `Yv12Layout` and
`LayersAligned` relate a layout to the image that was asked for, by definitions
of their own. `AssertsHold` says which asserts of `calc_allocation_size` fail and
for what: the pixel stride of rows that are not whole pixels.

### Proofs (`AllocLayoutProofs`)

For every set of requests and every configuration of the processors:

- `BestFormatIsSelected`: `SelectionIsBest`. The invariant `SearchInv` describes
  the search half way: `best` is the first of the best among the rows considered so
  far, `own` is what the requested format was worth. `MinExists` makes "the next
  row" well defined, `GradeIsNat` grades comparable, `RemapUnlessCpu` ties
  `MayRemap` to the usage.
- `SelectedIsSupported`: `EveryIpHasTheFeatures`. `SupportedKinds` lists what
  `get_supported_format` can return, and a lemma for each kind says which features
  its modifiers rest on (`AfbcIsSupported`, `AfrcIsSupported`, `ValidatedMods` for
  what `validate_afbc_format` turns off and on again). `ChosenInv` follows the
  format from the search to the end.
- `SelectedIsNotRefused`: `SelectedIsAllocatable`, from the same lemmas.

They assume of the tables what `RowsDiffer` and `TablesAgree` say: a format has one
row in each, block linear formats have 8 or 10 bits, what a processor writes
linearly has a linear layout. The tables are constants, so TLC's evaluation of
these assumptions, and of `RowsAreSound` below, is exhaustive.

The layout, for every size, number of layers and decoder alignment:

- The invariant is `LayoutInv`. None of the five properties is inductive:
  `AssertsHold` does not say where its asserts come from, and the others speak of a
  finished layout and not of the steps that lead to it. `LayoutInv` says instead
  that each plane calculated so far satisfies `PlaneIs`, its equations in the
  request, the row, the type and the planes before it, that `size` is where the
  last one ends, and that each recorded assert is one of some plane. `CalcStep` adds a plane (`StrideIsNat` and `BodyIsNat` show that
  it is numbers); the `...Stays` lemmas say that the equations of earlier planes
  remain, and `TypeFacts` what `get_alloc_type` and `validate_format` guarantee.
  Once the layout is derived, `LayoutInv` gives `Derived`, and the rest is arithmetic.
- `RowsAreRight`: `RowsFit`. `AlignedIs` and `StrideIs`: rounding to `stride_align`,
  the least common multiple (`LcmIs`) of what hardware and CPU want, keeps both.
- `Yv12IsAndroids`: `Yv12Layout`. Half of a luma stride is aligned as well
  because the luma stride is aligned to twice as much (`SharedStride`, `HalfRounds`).
- `EveryPlaneFits`: `PlanesFit`. A lemma for each kind of buffer
  (`UncompressedHolds`, `AfrcHolds`, `BlockLinearHolds`, `AfbcHolds`): the rounded
  plane covers the samples (`PixelsCover`) and its blocks hold their bits.
- `EveryLayerIsAligned`: `LayersAligned`. What a plane takes is a multiple of
  what the next one needs (`AfbcAligned`, `UncompressedAligned`), and so is a layer.
- `AssertsAreKept`: `AssertsHold`, from `PlaneAsserts`.

They assume `RowsAreSound`, what the calculation takes for granted of the rows:
rows of pixels end on bytes, with and without the CPU's alignment; only tiled rows
of 16-bit pixels have `tile_size` 2; the alignment of a format is a multiple of
its subsampling; block linear formats are YUV. And that a decoder's alignments
are numbers (`DecoderAlignsAreNumbers`, `uint32_t` in the code). Numbers
in the model are unbounded: the theorems say nothing of a size that overflows the
code's integers.

### Finding

`framebuffer_size`: `set_fixed_buffer_size` (`buffer_allocation.cpp:935`)
replaces the computed size with that of 1080p at 32 bits, also for 64-bit pixels
and several layers, which need more.

## 7. AllocService and DecoderSlots

### State and actions

| variable | code |
|---|---|
| `pc`, `req`, `decoder`, `cur`, `bufs` | where a request is in `allocate` and `allocator_allocate`, the descriptor and its decoder members, the buffer being made, `gralloc_buffers` |
| `open` | the descriptors the service holds, by request, buffer and use |
| `protected` | the function-local static of `allocator_supports_protected_memory`: unknown until the first protected request initialises it, lost when the process dies |
| `status`, `para` | `aml_gralloc_slot_status`, which no lock protects; the parameters the UVM driver keeps per slot |
| `dpc`, `at`, `slot`, `mine` | where a decoder is in a call on slots, the slot it looks at, the slot and the parameters it believes it has |
| `failed`, `changed`, `crossed`, `answer` | history no guard reads (the calls that failed, whether the slot's parameters changed, the slots on which two calls worked at a time), and the last answer |

A request comes through `allocate` (`Decoded` or `BadDescriptor`) or `allocate2`,
which refuses the name "gralloc_debug_log" (`DebugLog`) and asks `IsSupported`:
that derives the format and the size once more, tests the static and refuses
options. Then for each buffer `Derive` or `NotDerivable`, `AllocUvm` or `AllocHeap`
with `Refused` and `Fallback`, `MakeHandle`, `SharedMemory`, `InitMetadata`, and
`Deliver`. Whether a request can be derived is part of it (`derivable`; section 6
tells when): `allocate` answers it NO_RESOURCES, as the code does, `allocate2`
UNSUPPORTED. Each has its failure as an action of its own, and `Answer` closes what
the destructors on that way out close. Undefined behaviour is a choice: the flag
that `exec_uvm_policy` leaves uninitialised when `/dev/uvm` is missing, and the
division by a stale alignment of zero, which ends the process or, on arm64,
gives zero. `am_gralloc_get_slot_id` is `GetSlotId`, `FindSlot`, `ProbeUvm`,
`MarkSlot`: the status is seen free and marked two calls of the driver later.

### Runs, bounds and fairness

| run | instance | shows |
|---|---|---|
| `alloc_service` | two callers, requests through both entry points for two buffers, also of what is refused untried or cannot be derived; a kernel without codec_mm and system_uncached; one call of the system fails | `NothingLeaks`, `ErrorsAreExplained`, `FlagsTellMemory`, `RequestsAreAnswered` |
| `decoder_slots` | two decoders of one process, one of them asks for buffers; 3 slots, the first taken by others, so that they compete for the second; one call fails | `SlotsAreExclusive`, `OwnParameters`, `MadeAsTheDecoderAsked`, `DividesOnlyByStaleZero`, `ErrorsAreExplained` |

Two buffers are what a second one needs to differ from the first; one failure
can hit any call of any buffer, and the way out does not depend on earlier
failures. Two free slots let a decoder go wrong on one while the other is in order,
and the bits of slot 2 mean something else to the code. `ErrorsAreExplained` is checked
in both runs: only decoders' requests can end in a stride that differs. A decoder waits for the answer before it
frees its slot.
`RequestsAreAnswered` assumes weak fairness of each caller's thread: the kernel
schedules it and its system calls return.

The slot table has no lock, and the runs let every call overlap every other. Two
decoders may find one slot free and both get it, and the reset of
`am_gralloc_free_slot`, which comes after the status is cleared, may wipe what the
next holder has set. `crossed` records the slots that a decoder found free while
another call worked on them, and the properties say that only those go wrong: a
slot with one call at a time on it stays right whatever overlaps elsewhere. That
the code has no lock there is a hazard, but nothing in the repository says that
decoders may call it from several threads, so it is no finding.

`ErrorsAreExplained` lists what an error can come from. Three of its causes are not
short memory or a bad request: a decoder that changes its parameters between two
buffers, or whose parameters cannot be read (the strides then differ), and, for
protected memory, the lack of the heap of the other kind of format:
`allocator_supports_protected_memory` (`aml_dma_buf_heaps.cpp:452`) keeps the answer
for the format of the first protected request. In `alloc_service` protected graphics
are refused after protected video although their heap is there, while
`aidl/allocator.cpp:164` says of `isSupported` "Check if it is possible to allocate a
buffer for the given description".

### Proofs (`DecoderSlotsProofs`, `AllocServiceProofs`)

For any callers, decoders, slots, heaps, requests and failing calls, all seven
safety properties of the two runs are proved of the composed system.

- `SlotsStayExclusive` and `ParametersAreTheHolders` rest on `SlotInv`: in each
  slot that is not crossed (`Sound`), one call at a time works, on a slot that is
  unmarked until that call marks it, so it is nobody's (`WorkedOn`, `HeldBy`), and
  its parameters are zero by then (`Cleared`); no call works on a slot that was
  taken before (`Apart`). The properties alone say nothing of the calls under way,
  and are not inductive.
- The other five rest on `ServiceInv`, which has a part for each request:
  `Stage` (which descriptors are open at each point), `Memory` (until memory is
  found the flags are those of the picked heap, which is why the fallback may
  clear them), `Params` (a request's first buffer finds no parameters of an
  earlier one), `Steady` (while nothing changed and no read failed, all buffers
  have what the driver gives), `Explained` (with what `isSupported` let through: a
  request of `allocate2` past it can be derived), and `Usage` (a decoder names the
  slot that it holds, and holds it until the answer). A step of one caller
  leaves the parts of the others alone (`OthersKeep`), except the division by
  zero, which ends every request (`DiesInv`). The callers share the static, and
  `StaticIsOfAHeap` says what its "no" is worth: one of the two heaps is missing.
- `DecodersGetWhatTheyAsked` is where the two meet: the five usage bits are
  distinct for the 32 slots (`SlotBitsAreDistinct`), so what is read is what the
  slot has, and by `SlotInv` that is what the decoder set.

Assumed: `SlotAssumption` (at most 32 slots, as five bits can name) and
`ServiceAssumption` (counts are numbers; only decoders name slots).

## 8. Metadata: one page, many clients

### State and actions

The page is shared by all processes that import a buffer and no lock protects
it. Items share no word (the `static_assert`s on offsets), so a behaviour is
about one `item`, of each kind: one-word optionals, a crop, optional structures,
vectors, an Amlogic item, and items of the handle, which never change. The page of an
item is a state (or size) and words; a set stores them and a get loads them one
at a time in any order, as the compiler and the processor may. A word is not
torn; on 32-bit builds the chroma siting, an `int64_t`, might be, which is left out.

| steps | code |
|---|---|
| `SetImported`, `SetRaw`, `Fallback` | `set`: the handle's type, `aml_get` for Amlogic items |
| `Check`, `StoreWord`, `EndSet` | `set_metadata`: decode, compare, refuse, store |
| `Read`, `ReadRaw`, `LoadState`, `Load`, `Answer` | `get` and `dump_buffer_helper`, `get_metadata`, the encoders, `process_encoder_result` |
| `Import`, `Unregister`, `Unmap`, `Clear`, `Delete` | import and free as far as other clients can notice |
| `UseFreed` | a set whose handle its owner freed |

A value leaves as bytes in one of three forms (`Form`): behind the header of its
item, padded to 512 bytes (a stable-C dump), or raw (Amlogic items, whose encoders
write a bare `int32`). `Decoded` is what the external decoders make of each.
Stable-C callers pass memory of some size (`Room`), for raw handles too, a dump
brings 512 bytes, HIDL encoders size their own output; `Size` is what a value
takes, among them the layouts of three planes, which do not fit into a dump.

### Run `metadata`, and its bounds

Two clients of one process (they can find each other's handles) do everything, a
third in another process only reads, as a compositor does; the vector holds two
words, the plane is three wide and the crop one, so that a crop can lie at
either edge and be torn between them; rooms are nothing, an Amlogic item's four bytes, the dump's, and enough.

`OneWordItemsAreRegisters` says that items of one word are registers in spite of
the state word beside them: this rests on a state that is only ever set, and on
the order in which nothing is promised. `CropsStayInside` is what is left of a
crop that is torn. `UnracedReadsRoundTrip` is about everything else: defaults,
refusals, rooms, processes, and the bytes, which decode to the value that was set
but for Amlogic items, whose header is missing, and absent items in a stable-C
dump, which come as zeros. `FreedUnderASetOnly` bounds the use of
freed handles: only a raw handle's set that found another client's handle.

So the repository does not read what it sets: the library in `am_gralloc_ext.cpp`
sets Amlogic items behind a gralloc4 header (`:90`) and decodes its gets with
`gralloc4::decodeInt32` (`:78`), while both mappers answer with four bare bytes
(`4.x/mapper/mapper.cpp:262`, `stablec/mapper/mapper.cpp:187`). The property excuses
exactly this.

### Proofs (`MetadataProofs`)

For any clients, processes, items, planes and rooms:

- `OwnHandlesAreSafe`. The invariant says who works with which handle at each
  point: only a set on a raw handle works with one that it does not own, and what
  is in a process's pool is a handle that its owner has not begun to free.
- `OneWordRegisters`. The invariant adds that the word of the page is that of a
  value in `holds`, the values that the item may hold, also while a set has not
  stored the state yet (`RegPage`, `RegSet`), and that a get under way has seen
  all of `holds` (`RegGet`).
- `TornCropsStayInside`. Each word of a crop, on the page, in a get or still to be
  stored by a set, is inside the plane on its own side, and the order of the
  sides' stores does not matter.
- `ReadsRoundTrip`: `UnracedReadsRoundTrip`. What an encoder makes of a value
  depends on the item, the call and the room only (`EncodedTrip`, `Legible`). The
  property speaks of the moments when nothing is under way;
  the invariant (`TripInv`) must follow the page through those when something
  is. A call knows of every set beside it (`Overlaps`), so what a quiet call
  found or stored is still in the page (`TripGet`, `TripSet`). When the item
  may hold one value only, then the page shows it, or each store that makes it
  show that value is in the page or pending in some set (`PageInv`,
  `PageHolds`): this part carries over from sets that raced to the quiet read
  after them, if they happened to store the same value. Amlogic items are an
  exception: they are one word, so the page shows the value at all times, and
  a store that never comes, of a set whose handle was freed, changes nothing.

Assumed are `MetadataAssumption` and `SharedMetadataAssumption`: the ranges of
the constants.

## 9. Disagreements and hazards without a run

Met while modelling, and not checked by a run of their own (others are told where
a property has to allow for them: `buffer.h:385` in section 3, `aml_dma_buf_heaps.h:54`
in section 4, `aml_dma_buf_heaps.cpp:452` in section 7, Amlogic items in section 8):

- `buffer_access.cpp:95`: a read lock over a write lock clears `cpu_write`, and
  neither unlock flushes; `:112`: after a failed flush the lock stays counted, and
  the next writer is told NONE and given no address; stray unlocks that overlap can
  take `lock_count` below zero; `:151`: `(l + w) < 0`
  tests for a signed overflow, which is undefined.
- `aml_dma_buf_heaps.cpp:795`: `layers.erase` inside the range-for ends or derails
  the loop, and old entries keep their promise; `:775`: layers whose names differ in
  trailing digits share an entry; `:318`: a failed `dup` goes unnoticed.
- `am_gralloc_ext.cpp:802`: the slots are numbered per process, the driver's
  parameters are not; `:62-81`: when the mapper refuses, `am_get_metadata`
  returns 0 and leaves the value unset.
- `am_gralloc_ref.h:27`: the bits of a slot are the usages "one sixteenth", "a
  quarter" and "replaces a decoder's buffer" too. `allocator_map`
  (`aml_dma_buf_heaps.cpp:386`) tests those, so a buffer of a slot with bit 0 or 2
  is not mapped (its lock gives a null address), and of a slot with bit 3 one
  page is.
- `buffer_allocation.cpp:671`: sizes are `int`s that very large buffers overflow.
- Metadata: `decodeAmlInt32Value_stableC` copies the pointer instead of what it
  points to; `crops[0]` is read of a vector that may be empty
  (`mapper_metadata.cpp:634`); the name of a chroma siting is lost.

## 10. Not modelled

Logging, text dumps, the gralloc1 entry points `lock_ycbcr` and `lock_async`, the
arithmetic of the lock region, `get_reserved_region` and `get_transport_size`
(plain reads), build files and interface definitions; the ion and upstream
dma-buf back ends, which the default build leaves out; the conversions to DRM
numbers, which are data. Of the allocator: the exact size of media buffers
(buffers that replace a decoder's have one size), the clearing of buffers for
encoders, `need_mmap`.
Of the front-ends: the wire format of HIDL descriptors and metadata. Slots are
those of one process. `TypeOK` of `AllocService` is there for proofs and checked
by no run.

Model-checked only: liveness, which is out of the proof system's reach.
