----------------------------- MODULE LayerHeap -----------------------------
(***************************************************************************)
(* How the allocator chooses between heap-gfx and the system heap for the  *)
(* three buffers of a composer layer: am_gralloc_pick_heap_gfx and the     *)
(* part of allocator_allocate that uses its answer, in                     *)
(* aml_dma_buf_heaps.cpp built with ALLOC_FROM_SAME_HEAP.                  *)
(*                                                                         *)
(* The first buffer of a layer decides, and a table entry promises the     *)
(* other two.  The table is static and has no lock: the AIDL service runs  *)
(* one thread over it, the HIDL service up to four.  Layers are the names  *)
(* left when trailing digits are stripped; sizes are in units.             *)
(***************************************************************************)
EXTENDS Integers, FiniteSets, Functions

CONSTANTS
    Thread,      \* binder threads of the service
    Layer,       \* layer names
    NoLayer,     \* the empty name
    Requests,    \* the requests clients make
    HeapSize,    \* size of heap-gfx
    Timeout,     \* FORCE_REMOVE_TIME, in ticks
    MaxTime,     \* bound of the clock
    Faults,      \* "info", "gfx", "system": the CMA ioctl, either Alloc may fail
    OtherUsers,  \* whether other processes allocate from heap-gfx
    Crashes      \* whether the service may be restarted

BUFFER_COUNT_PER_LAYER == 3

Sizes == 0..HeapSize

\* cpu: the usage has CPU bits.
Request == [layer : Layer \union {NoLayer}, size : Sizes \ {0}, cpu : BOOLEAN]

\* aml_gralloc_layer_info; count 0 stands for a layer that is not in the table.
Entry == [count : 0..BUFFER_COUNT_PER_LAYER - 1, size : Sizes, time_stamp : 0..MaxTime,
          pick_heap_gfx : BOOLEAN]

\* The set of three a layer is being served: its requests, the time of the last
\* answer, the answers and the heaps its buffers came from; cut: a restart, or a
\* silence of the timeout, came in the middle of a set, since when the table may
\* count the layer's sets from another buffer.
History == [requests : 0..BUFFER_COUNT_PER_LAYER, last : 0..MaxTime,
            picks : SUBSET BOOLEAN, heaps : SUBSET {"gfx", "system"}, cut : BOOLEAN]

ASSUME LayerHeapAssumption ==
    /\ NoLayer \notin Layer /\ IsFiniteSet(Layer)
    /\ Requests \subseteq Request
    /\ HeapSize \in Nat /\ Timeout \in Nat \ {0} /\ MaxTime \in Nat
    /\ Faults \subseteq {"info", "gfx", "system"}
    /\ OtherUsers \in BOOLEAN /\ Crashes \in BOOLEAN

VARIABLES
    layers,   \* the static table
    clock,    \* CLOCK_MONOTONIC
    free,     \* free space in heap-gfx
    held,     \* held[n]: buffers of size n that live in heap-gfx
    others,   \* space other processes have taken from heap-gfx
    pc,       \* where each thread is
    req,      \* the request it serves
    now,      \* the time it read
    seen,     \* the free size it read
    gfx,      \* its decision
    served    \* history: the current set of three of each layer

table  == <<layers, clock>>
heap   == <<free, held, others>>
local  == <<req, now, seen, gfx>>
vars   == <<table, heap, pc, local, served>>

Absent  == [count |-> 0, size |-> 0, time_stamp |-> 0, pick_heap_gfx |-> FALSE]
Unserved == [requests |-> 0, last |-> 0, picks |-> {}, heaps |-> {}, cut |-> FALSE]

Goto(t, l) == pc' = [pc EXCEPT ![t] = l]
Decide(t, b) == gfx' = [gfx EXCEPT ![t] = b] /\ Goto(t, "alloc")

\* The table's answer to a request of a layer, kept in the history.
Answer(t, b) ==
    /\ Decide(t, b)
    /\ LET s == served[req[t].layer]
       IN  served' = [served EXCEPT ![req[t].layer] =
              [requests |-> s.requests, last |-> now[t],
               picks |-> s.picks \union {b}, heaps |-> s.heaps, cut |-> s.cut]]

Init ==
    /\ layers = [l \in Layer |-> Absent]
    /\ clock = 0
    /\ free = HeapSize /\ others = 0
    /\ held = [n \in Sizes |-> 0]
    /\ pc = [t \in Thread |-> "idle"]
    /\ req \in [Thread -> Requests]
    /\ now = [t \in Thread |-> 0]
    /\ seen = [t \in Thread |-> 0]
    /\ gfx = [t \in Thread |-> FALSE]
    /\ served = [l \in Layer |-> Unserved]

-----------------------------------------------------------------------------
InTheMiddle(l) == served[l].requests \in 1..BUFFER_COUNT_PER_LAYER - 1

\* The request joins the set of three its layer is being served, or opens a new
\* one: after three, or after a silence of Timeout.
Joins(l) ==
    LET s == served[l]
        silent == clock - s.last >= Timeout
    IN  served' = [served EXCEPT ![l] =
            IF s.requests = BUFFER_COUNT_PER_LAYER \/ silent
            THEN [requests |-> 1, last |-> s.last, picks |-> {}, heaps |-> {},
                  cut |-> s.cut \/ InTheMiddle(l)]
            ELSE [requests |-> s.requests + 1, last |-> s.last,
                  picks |-> s.picks, heaps |-> s.heaps, cut |-> s.cut]]

Unnamed(t, r) ==
    /\ r.cpu \/ r.layer = NoLayer
    /\ Decide(t, ~r.cpu)
    /\ UNCHANGED <<now, seen, served>>

\* Without the CMA information the request goes to heap-gfx and no entry counts it.
NoInfo(t, r) ==
    /\ ~r.cpu /\ r.layer # NoLayer
    /\ "info" \in Faults
    /\ Decide(t, TRUE)
    /\ UNCHANGED <<now, seen, served>>

\* The clock is read just before the free size.
Named(t, r) ==
    /\ ~r.cpu /\ r.layer # NoLayer
    /\ now' = [now EXCEPT ![t] = clock]
    /\ seen' = [seen EXCEPT ![t] = free]
    /\ Goto(t, "expire")
    /\ Joins(r.layer)
    /\ UNCHANGED gfx

Pick(t, r) ==
    /\ pc[t] = "idle"
    /\ req' = [req EXCEPT ![t] = r]
    /\ Unnamed(t, r) \/ NoInfo(t, r) \/ Named(t, r)
    /\ UNCHANGED <<table, heap>>

\* The difference of the time stamps is taken in uint64_t, so an entry younger
\* than the thread's own reading of the clock looks very old.
Expired(t) ==
    {l \in Layer :
        /\ layers[l].count > 0
        /\ now[t] < layers[l].time_stamp \/ now[t] - layers[l].time_stamp >= Timeout}

\* The loop erases the element it stands on and then steps from freed memory:
\* it may end at the first one erased or go on to others.
Expire(t) ==
    /\ pc[t] = "expire"
    /\ \E gone \in SUBSET Expired(t) :
          /\ Expired(t) # {} => gone # {}
          /\ layers' = [l \in Layer |-> IF l \in gone THEN Absent ELSE layers[l]]
    /\ Goto(t, "find")
    /\ UNCHANGED <<clock, heap, local, served>>

\* Mutant: the entry keeps the time of its first buffer.
FoundNoRefresh(t) ==
    LET l == req[t].layer
        n == layers[l].count - 1
    IN  /\ pc[t] = "find"
        /\ layers[l].count > 0
        /\ layers' = [layers EXCEPT ![l] = IF n = 0 THEN Absent ELSE [@ EXCEPT !.count = n]]
        /\ Answer(t, layers[l].pick_heap_gfx)
        /\ UNCHANGED <<clock, heap, req, now, seen>>

\* Mutant: every buffer is decided by what is free when it is asked for.
FoundDecidesAgain(t) ==
    LET l == req[t].layer
        n == layers[l].count - 1
    IN  /\ pc[t] = "find"
        /\ layers[l].count > 0
        /\ layers' = [layers EXCEPT ![l] =
              IF n = 0 THEN Absent
              ELSE [count |-> n, size |-> layers[l].size, time_stamp |-> now[t],
                    pick_heap_gfx |-> layers[l].pick_heap_gfx]]
        /\ Answer(t, seen[t] >= req[t].size * BUFFER_COUNT_PER_LAYER)
        /\ UNCHANGED <<clock, heap, req, now, seen>>

\* A layer that is in the table: one buffer fewer to come, the same heap.
Found(t) ==
    LET l == req[t].layer
        n == layers[l].count - 1
    IN  /\ pc[t] = "find"
        /\ layers[l].count > 0
        /\ layers' = [layers EXCEPT ![l] =
              IF n = 0 THEN Absent
              ELSE [count |-> n, size |-> layers[l].size, time_stamp |-> now[t],
                    pick_heap_gfx |-> layers[l].pick_heap_gfx]]
        /\ Answer(t, layers[l].pick_heap_gfx)
        /\ UNCHANGED <<clock, heap, req, now, seen>>

NotFound(t) ==
    /\ pc[t] = "find"
    /\ layers[req[t].layer].count = 0
    /\ Goto(t, "insert")
    /\ UNCHANGED <<table, heap, local, served>>

wait_alloc_size == SumFunctionOnSet([l \in Layer |-> layers[l].count * layers[l].size], Layer)

\* Mutant: the promises are not set aside.
FitsAlone(t) == seen[t] >= req[t].size * BUFFER_COUNT_PER_LAYER

Fits(t) ==
    /\ wait_alloc_size < seen[t]
    /\ seen[t] - wait_alloc_size >= req[t].size * BUFFER_COUNT_PER_LAYER

\* Mutant: the first buffer is counted among those to come.
InsertCountsAll(t) ==
    LET l == req[t].layer
    IN  /\ pc[t] = "insert"
        /\ layers' = [layers EXCEPT ![l] =
              [count |-> BUFFER_COUNT_PER_LAYER, size |-> IF Fits(t) THEN req[t].size ELSE 0,
               time_stamp |-> now[t], pick_heap_gfx |-> Fits(t)]]
        /\ Answer(t, Fits(t))
        /\ UNCHANGED <<clock, heap, req, now, seen>>

\* unordered_map::insert leaves an element that is already there alone.
Insert(t) ==
    LET l == req[t].layer
    IN  /\ pc[t] = "insert"
        /\ layers' = IF layers[l].count > 0 THEN layers
                     ELSE [layers EXCEPT ![l] =
                        [count |-> BUFFER_COUNT_PER_LAYER - 1,
                         size |-> IF Fits(t) THEN req[t].size ELSE 0,
                         time_stamp |-> now[t],
                         pick_heap_gfx |-> Fits(t)]]
        /\ Answer(t, Fits(t))
        /\ UNCHANGED <<clock, heap, req, now, seen>>

-----------------------------------------------------------------------------
(* allocator_allocate, from the heap that was picked                       *)

Serve(t, h) ==
    /\ LET l == req[t].layer
       IN  served' = IF l = NoLayer \/ req[t].cpu THEN served
                     ELSE [served EXCEPT ![l] =
                        [requests |-> served[l].requests, last |-> served[l].last,
                         picks |-> served[l].picks, heaps |-> served[l].heaps \union {h},
                         cut |-> served[l].cut]]
    /\ Goto(t, "idle")

AllocGfx(t) ==
    LET n == req[t].size
    IN  /\ pc[t] = "alloc"
        /\ gfx[t]
        /\ free >= n
        /\ free' = free - n
        /\ held' = [held EXCEPT ![n] = @ + 1]
        /\ Serve(t, "gfx")
        /\ UNCHANGED <<table, others, local>>

\* The system heap, picked or fallen back to.
AllocSystem(t) ==
    /\ pc[t] = "alloc"
    /\ gfx[t] => free < req[t].size \/ "gfx" \in Faults
    /\ Serve(t, "system")
    /\ UNCHANGED <<table, heap, local>>

AllocFails(t) ==
    /\ pc[t] = "alloc"
    /\ gfx[t] => free < req[t].size \/ "gfx" \in Faults
    /\ "system" \in Faults
    /\ Goto(t, "idle")
    /\ UNCHANGED <<table, heap, local, served>>

-----------------------------------------------------------------------------
(* The environment                                                         *)

\* The last handle to a buffer is closed.
BufferFreed ==
    \E n \in Sizes :
        /\ held[n] > 0
        /\ held' = [held EXCEPT ![n] = @ - 1]
        /\ free' = free + n
        /\ UNCHANGED <<table, others, pc, local, served>>

OthersAlloc ==
    /\ OtherUsers /\ free > 0
    /\ free' = free - 1 /\ others' = others + 1
    /\ UNCHANGED <<table, held, pc, local, served>>

OthersFree ==
    /\ others > 0
    /\ free' = free + 1 /\ others' = others - 1
    /\ UNCHANGED <<table, held, pc, local, served>>

Tick ==
    /\ clock < MaxTime
    /\ clock' = clock + 1
    /\ UNCHANGED <<layers, heap, pc, local, served>>

\* The service dies and is started again: its table is empty, the buffers that
\* clients hold live on, and a layer goes on with the set of three it was at.
Restart ==
    /\ Crashes
    /\ layers' = [l \in Layer |-> Absent]
    /\ pc' = [t \in Thread |-> "idle"]
    /\ served' = [l \in Layer |->
          [requests |-> served[l].requests, last |-> served[l].last,
           picks |-> served[l].picks, heaps |-> served[l].heaps,
           cut |-> served[l].cut \/ InTheMiddle(l)]]
    /\ UNCHANGED <<clock, heap, local>>

-----------------------------------------------------------------------------
Serves(t) ==
    \/ \E r \in Requests : Pick(t, r)
    \/ Expire(t) \/ Found(t) \/ NotFound(t) \/ Insert(t)
    \/ AllocGfx(t) \/ AllocSystem(t) \/ AllocFails(t)

Next ==
    \/ \E t \in Thread : Serves(t)
    \/ BufferFreed \/ OthersAlloc \/ OthersFree \/ Tick \/ Restart

Spec == Init /\ [][Next]_vars

-----------------------------------------------------------------------------
(* Properties                                                              *)

TypeOK ==
    /\ layers \in [Layer -> Entry]
    /\ clock \in 0..MaxTime
    /\ free \in Nat /\ others \in Nat
    /\ held \in [Sizes -> Nat]
    /\ pc \in [Thread -> {"idle", "expire", "find", "insert", "alloc"}]
    /\ req \in [Thread -> Requests]
    /\ now \in [Thread -> 0..MaxTime]
    /\ seen \in [Thread -> Nat]
    /\ gfx \in [Thread -> BOOLEAN]
    /\ served \in [Layer -> History]

\* Comment of aml_gralloc_layer_info: it is used to avoid "the three buffers of
\* the layer being allocated from different heaps".  Not so of a layer that has
\* been cut in the middle of a set: by a restart of the service, with which the
\* table is lost, or by the timeout, after which it is decided for again.
ThreeFromOneHeap == \A l \in Layer : ~served[l].cut => Cardinality(served[l].heaps) <= 1

\* What the table can see to of that: it gives the three requests one answer,
\* also when the allocation that follows fails or falls back.
ThreeOneAnswer == \A l \in Layer : ~served[l].cut => Cardinality(served[l].picks) <= 1

\* The point of wait_alloc_size: what the table promises and what threads are
\* about to take is free in heap-gfx.
Promised ==
    wait_alloc_size
      + SumFunctionOnSet([t \in Thread |-> req[t].size], {t \in Thread : pc[t] = "alloc" /\ gfx[t]})

PromisesAreKept == Promised <= free

\* An entry that has not given its three buffers leaves the table only when its
\* layer has had no answer for the timeout (or the service was restarted).
RemovedOnlyWhenSilent ==
    [][\A l \in Layer :
          layers[l].count > 0 /\ layers'[l].count = 0 =>
              \/ layers[l].count = 1 /\ \E t \in Thread : pc[t] = "find"
              \/ clock - served[l].last >= Timeout
              \/ ~\E t \in Thread : pc'[t] # "idle"]_vars

=============================================================================
