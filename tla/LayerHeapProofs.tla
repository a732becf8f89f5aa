-------------------------- MODULE LayerHeapProofs --------------------------
(***************************************************************************)
(* Proofs about LayerHeap for any layers, requests, heap and faults:       *)
(* types for any number of threads and, for the one thread of the AIDL     *)
(* service, that no entry is removed early, that what the table promises   *)
(* is free, and that, while nothing times out, the three requests of a     *)
(* layer get one answer and their buffers come from one heap.              *)
(***************************************************************************)
EXTENDS LayerHeap, SumTheorems

Single == \A t, u \in Thread : t = u

AtTable == {"expire", "find", "insert"}
PCs == {"idle", "expire", "find", "insert", "alloc"}

-----------------------------------------------------------------------------
(* Types                                                                   *)

\* Only requests of a layer reach the table.
Reaches == \A t \in Thread : pc[t] \in AtTable => req[t].layer \in Layer

TypeInv == TypeOK /\ Reaches

LEMMA AbsentType == Absent \in Entry
  BY LayerHeapAssumption
     DEF LayerHeapAssumption, Absent, Entry, Sizes, BUFFER_COUNT_PER_LAYER

LEMMA UnservedType == Unserved \in History
  BY LayerHeapAssumption
     DEF LayerHeapAssumption, Unserved, History, BUFFER_COUNT_PER_LAYER

LEMMA TypeInit == Init => TypeInv
<1> SUFFICES ASSUME Init PROVE TypeInv
  OBVIOUS
<1> USE LayerHeapAssumption DEF LayerHeapAssumption
<1>1. layers \in [Layer -> Entry]
  BY AbsentType DEF Init
<1>2. served \in [Layer -> History]
  BY UnservedType DEF Init
<1>3. Reaches
  BY DEF Init, Reaches, AtTable
<1> QED
  BY <1>1, <1>2, <1>3 DEF Init, TypeInv, TypeOK, History, Sizes

\* An answer keeps the types of the decision and the history.
LEMMA AnswerType ==
  ASSUME TypeInv, NEW t \in Thread, pc[t] \in AtTable, NEW b \in BOOLEAN, Answer(t, b)
  PROVE  /\ gfx' \in [Thread -> BOOLEAN]
         /\ pc' = [pc EXCEPT ![t] = "alloc"]
         /\ served' \in [Layer -> History]
<1> DEFINE s == served[req[t].layer]
<1>1. req[t].layer \in Layer /\ now[t] \in 0..MaxTime
  BY DEF TypeInv, TypeOK, Reaches
<1>2. served \in [Layer -> History] /\ gfx \in [Thread -> BOOLEAN]
  BY DEF TypeInv, TypeOK
<1>3. [requests |-> s.requests, last |-> now[t],
       picks |-> s.picks \union {b}, heaps |-> s.heaps, cut |-> s.cut] \in History
  <2>1. s \in History
    BY <1>1, <1>2
  <2> QED
    BY <1>1, <2>1 DEF History
<1> QED
  BY <1>1, <1>2, <1>3 DEF Answer, Decide, Goto

LEMMA RestartType ==
  ASSUME TypeInv, Restart
  PROVE  served' \in [Layer -> History]
<1> SUFFICES ASSUME NEW l \in Layer
             PROVE  [requests |-> served[l].requests, last |-> served[l].last,
                     picks |-> served[l].picks, heaps |-> served[l].heaps,
                     cut |-> served[l].cut \/ InTheMiddle(l)] \in History
  BY DEF Restart
<1>1. served[l] \in History /\ InTheMiddle(l) \in BOOLEAN
  BY DEF TypeInv, TypeOK, InTheMiddle
<1> QED
  BY <1>1 DEF History

LEMMA JoinsType ==
  ASSUME TypeInv, NEW l \in Layer, Joins(l)
  PROVE  served' \in [Layer -> History]
<1> DEFINE s == served[l]
<1>1. served \in [Layer -> History] /\ s \in History
  BY DEF TypeInv, TypeOK
<1>2. [requests |-> 1, last |-> s.last, picks |-> {}, heaps |-> {},
       cut |-> s.cut \/ InTheMiddle(l)] \in History
  BY <1>1 DEF History, InTheMiddle, BUFFER_COUNT_PER_LAYER
<1>3. s.requests # BUFFER_COUNT_PER_LAYER
        => [requests |-> s.requests + 1, last |-> s.last,
            picks |-> s.picks, heaps |-> s.heaps, cut |-> s.cut] \in History
  BY <1>1 DEF History, BUFFER_COUNT_PER_LAYER
<1> QED
  BY <1>1, <1>2, <1>3 DEF Joins

LEMMA TypeStep == TypeInv /\ [Next]_vars => TypeInv'
<1> SUFFICES ASSUME TypeInv, [Next]_vars PROVE TypeInv'
  OBVIOUS
<1> USE LayerHeapAssumption
    DEF LayerHeapAssumption, TypeInv, TypeOK, Reaches, AtTable, Goto, table, heap, local
<1>1. ASSUME NEW t \in Thread, NEW r \in Requests, Pick(t, r) PROVE TypeInv'
  <2>1. r \in Request
    OBVIOUS
  <2>2. CASE Unnamed(t, r)
    BY <1>1, <2>1, <2>2 DEF Pick, Unnamed, Decide, Request
  <2>3. CASE NoInfo(t, r)
    BY <1>1, <2>1, <2>3 DEF Pick, NoInfo, Decide, Request
  <2>4. CASE Named(t, r)
    <3>1. r.layer \in Layer
      BY <2>1, <2>4 DEF Named, Request
    <3>2. served' \in [Layer -> History]
      BY <2>4, <3>1, JoinsType DEF Named
    <3> QED
      BY <1>1, <2>4, <3>1, <3>2 DEF Pick, Named
  <2> QED
    BY <1>1, <2>2, <2>3, <2>4 DEF Pick
<1>2. ASSUME NEW t \in Thread, Expire(t) PROVE TypeInv'
  BY <1>2, AbsentType DEF Expire
<1>3. ASSUME NEW t \in Thread, Found(t) PROVE TypeInv'
  <2> DEFINE l == req[t].layer
             n == layers[l].count - 1
  <2>1. l \in Layer /\ layers[l] \in Entry /\ layers[l].count > 0 /\ now[t] \in 0..MaxTime
    BY <1>3 DEF Found
  <2>2. n # 0 => [count |-> n, size |-> layers[l].size, time_stamp |-> now[t],
                  pick_heap_gfx |-> layers[l].pick_heap_gfx] \in Entry
    BY <2>1 DEF Entry, BUFFER_COUNT_PER_LAYER
  <2>3. layers' \in [Layer -> Entry]
    BY <1>3, <2>1, <2>2, AbsentType DEF Found
  <2>4. /\ gfx' \in [Thread -> BOOLEAN]
        /\ pc' = [pc EXCEPT ![t] = "alloc"]
        /\ served' \in [Layer -> History]
    BY <1>3, <2>1, AnswerType DEF Found, Entry
  <2> QED
    BY <1>3, <2>3, <2>4 DEF Found
<1>4. ASSUME NEW t \in Thread, NotFound(t) PROVE TypeInv'
  BY <1>4 DEF NotFound
<1>5. ASSUME NEW t \in Thread, Insert(t) PROVE TypeInv'
  <2>1. req[t].layer \in Layer /\ now[t] \in 0..MaxTime /\ req[t].size \in Sizes
    BY <1>5 DEF Insert, Request
  <2>2. Fits(t) \in BOOLEAN
    BY DEF Fits
  <2>3. [count |-> BUFFER_COUNT_PER_LAYER - 1, size |-> IF Fits(t) THEN req[t].size ELSE 0,
         time_stamp |-> now[t], pick_heap_gfx |-> Fits(t)] \in Entry
    BY <2>1, <2>2 DEF Entry, Sizes, BUFFER_COUNT_PER_LAYER
  <2>4. layers' \in [Layer -> Entry]
    BY <1>5, <2>1, <2>3 DEF Insert
  <2>5. /\ gfx' \in [Thread -> BOOLEAN]
        /\ pc' = [pc EXCEPT ![t] = "alloc"]
        /\ served' \in [Layer -> History]
    BY <1>5, <2>2, AnswerType DEF Insert
  <2> QED
    BY <1>5, <2>4, <2>5 DEF Insert
<1>6. ASSUME NEW t \in Thread, NEW h \in {"gfx", "system"}, pc[t] = "alloc", Serve(t, h)
      PROVE  served' \in [Layer -> History] /\ pc' = [pc EXCEPT ![t] = "idle"]
  <2> DEFINE s == served[req[t].layer]
  <2>1. req[t].layer # NoLayer => req[t].layer \in Layer
    BY DEF Request
  <2>2. req[t].layer # NoLayer =>
          [requests |-> s.requests, last |-> s.last, picks |-> s.picks,
           heaps |-> s.heaps \union {h}, cut |-> s.cut] \in History
    <3>1. SUFFICES ASSUME req[t].layer # NoLayer PROVE [requests |-> s.requests,
             last |-> s.last, picks |-> s.picks, heaps |-> s.heaps \union {h},
             cut |-> s.cut] \in History
      OBVIOUS
    <3>2. s \in History
      BY <2>1, <3>1
    <3> QED
      BY <3>2 DEF History
  <2> QED
    BY <1>6, <2>1, <2>2 DEF Serve
<1>7. ASSUME NEW t \in Thread, AllocGfx(t) PROVE TypeInv'
  <2>1. req[t].size \in Sizes /\ req[t].size \in Nat
    BY DEF Request, Sizes
  <2>2. free' \in Nat /\ held' \in [Sizes -> Nat]
    BY <1>7, <2>1 DEF AllocGfx
  <2> QED
    BY <1>6, <1>7, <2>2 DEF AllocGfx
<1>8. ASSUME NEW t \in Thread, AllocSystem(t) PROVE TypeInv'
  BY <1>6, <1>8 DEF AllocSystem
<1>9. ASSUME NEW t \in Thread, AllocFails(t) PROVE TypeInv'
  BY <1>9 DEF AllocFails
<1>10. CASE BufferFreed
  BY <1>10 DEF BufferFreed, Sizes
<1>11. CASE OthersAlloc \/ OthersFree
  BY <1>11 DEF OthersAlloc, OthersFree
<1>12. CASE Tick
  BY <1>12 DEF Tick
<1>13. CASE Restart
  BY <1>13, AbsentType, RestartType DEF Restart
<1>14. CASE UNCHANGED vars
  BY <1>14 DEF vars
<1> QED
  BY <1>1, <1>2, <1>3, <1>4, <1>5, <1>7, <1>8, <1>9, <1>10, <1>11, <1>12, <1>13, <1>14
     DEF Next, Serves

\* Types: every state of the allocator, its table and the heap is well typed,
\* whatever the threads, the requests and the faults.
THEOREM TypeCorrect == Spec => []TypeOK
<1>1. TypeInv => TypeOK
  BY DEF TypeInv
<1> QED
  BY TypeInit, TypeStep, <1>1, PTL DEF Spec

-----------------------------------------------------------------------------
(* One thread: no entry is removed early                                   *)

\* An entry carries the time of its layer's last answer, and the thread that is
\* about to look for old entries has read the clock after all of them.
Ages ==
    /\ \A l \in Layer : layers[l].count > 0 =>
          layers[l].time_stamp = served[l].last /\ layers[l].time_stamp <= clock
    /\ \A t \in Thread : now[t] <= clock
    /\ \A t \in Thread : pc[t] = "expire" =>
          \A l \in Layer : layers[l].count > 0 => layers[l].time_stamp <= now[t]
    /\ \A t \in Thread : pc[t] = "insert" => layers[req[t].layer].count = 0

LEMMA AgesInit == Init => Ages
  BY LayerHeapAssumption DEF LayerHeapAssumption, Init, Ages, Absent

\* What an answer leaves of the history.
LEMMA AnswerHistory ==
  ASSUME TypeInv, NEW t \in Thread, pc[t] \in AtTable, NEW b \in BOOLEAN, Answer(t, b)
  PROVE  /\ \A l \in Layer : l # req[t].layer => served'[l] = served[l]
         /\ served'[req[t].layer].last = now[t]
         /\ served'[req[t].layer].requests = served[req[t].layer].requests
         /\ served'[req[t].layer].picks = served[req[t].layer].picks \union {b}
         /\ served'[req[t].layer].cut = served[req[t].layer].cut
  BY DEF TypeInv, TypeOK, Reaches, Answer

LEMMA JoinsHistory ==
  ASSUME TypeInv, NEW l \in Layer, Joins(l)
  PROVE  \A k \in Layer : served'[k].last = served[k].last
  BY DEF Joins, TypeInv, TypeOK

LEMMA ServeHistory ==
  ASSUME TypeInv, NEW t \in Thread, NEW h, Serve(t, h)
  PROVE  \A k \in Layer : /\ served'[k].last = served[k].last
                          /\ served'[k].requests = served[k].requests
                          /\ served'[k].picks = served[k].picks
                          /\ served'[k].cut = served[k].cut
  BY DEF Serve, TypeInv, TypeOK

LEMMA AgesStep == Single /\ TypeInv /\ Ages /\ [Next]_vars => Ages'
<1> SUFFICES ASSUME Single, TypeInv, Ages, [Next]_vars PROVE Ages'
  OBVIOUS
<1> USE LayerHeapAssumption DEF LayerHeapAssumption, Ages, Goto, table, heap, local
<1>1. /\ layers \in [Layer -> Entry] /\ pc \in [Thread -> PCs]
      /\ clock \in Int /\ now \in [Thread -> Int]
      /\ \A l \in Layer : layers[l].count \in Int /\ layers[l].time_stamp \in Int
  BY DEF TypeInv, TypeOK, Entry, PCs
<1>2. ASSUME NEW t \in Thread, NEW r \in Requests, Pick(t, r) PROVE Ages'
  <2>1. CASE Unnamed(t, r) \/ NoInfo(t, r)
    BY <1>1, <1>2, <2>1 DEF Pick, Unnamed, NoInfo, Decide, Single
  <2>2. CASE Named(t, r)
    <3>1. \A k \in Layer : served'[k].last = served[k].last
      BY <2>2, JoinsHistory DEF Named, Request
    <3> QED
      BY <1>1, <1>2, <2>2, <3>1 DEF Pick, Named, Single
  <2> QED
    BY <1>2, <2>1, <2>2 DEF Pick
<1>3. ASSUME NEW t \in Thread, Expire(t) PROVE Ages'
  BY <1>1, <1>3 DEF Expire, Absent, Single
<1>4. ASSUME NEW t \in Thread, Found(t) PROVE Ages'
  <2> DEFINE l == req[t].layer
  <2>1. l \in Layer /\ layers[l].pick_heap_gfx \in BOOLEAN /\ pc[t] \in AtTable
    BY <1>1, <1>4 DEF Found, TypeInv, Reaches, AtTable, Entry
  <2>2. /\ \A k \in Layer : k # l => served'[k] = served[k]
        /\ served'[l].last = now[t]
    <3>1. Answer(t, layers[l].pick_heap_gfx)
      BY <1>4 DEF Found
    <3> QED
      BY <2>1, <3>1, AnswerHistory
  <2>3. /\ \A k \in Layer : k # l => layers'[k] = layers[k]
        /\ layers'[l].count > 0 => layers'[l].time_stamp = now[t]
    BY <1>1, <1>4, <2>1 DEF Found, Absent
  <2>4. pc' = [pc EXCEPT ![t] = "alloc"] /\ clock' = clock /\ now' = now
    BY <1>4 DEF Found, Answer, Decide
  <2> QED
    BY <1>1, <2>1, <2>2, <2>3, <2>4 DEF Single
<1>5. ASSUME NEW t \in Thread, NotFound(t) PROVE Ages'
  BY <1>1, <1>5 DEF NotFound, Single
<1>6. ASSUME NEW t \in Thread, Insert(t) PROVE Ages'
  <2> DEFINE l == req[t].layer
  <2>1. /\ l \in Layer /\ layers[l].count = 0 /\ Fits(t) \in BOOLEAN
        /\ pc[t] \in AtTable
    BY <1>6 DEF Insert, TypeInv, Reaches, AtTable, Fits
  <2>2. /\ \A k \in Layer : k # l => served'[k] = served[k]
        /\ served'[l].last = now[t]
    <3>1. Answer(t, Fits(t))
      BY <1>6 DEF Insert
    <3> QED
      BY <2>1, <3>1, AnswerHistory
  <2>3. /\ \A k \in Layer : k # l => layers'[k] = layers[k]
        /\ layers'[l].time_stamp = now[t]
    BY <1>1, <1>6, <2>1 DEF Insert
  <2>4. pc' = [pc EXCEPT ![t] = "alloc"] /\ clock' = clock /\ now' = now
    BY <1>6 DEF Insert, Answer, Decide
  <2> QED
    BY <1>1, <2>1, <2>2, <2>3, <2>4 DEF Single
<1>7. ASSUME NEW t \in Thread, AllocGfx(t) \/ AllocSystem(t) \/ AllocFails(t) PROVE Ages'
  <2>1. \A k \in Layer : served'[k].last = served[k].last
    BY <1>7, ServeHistory DEF AllocGfx, AllocSystem, AllocFails
  <2>2. pc' = [pc EXCEPT ![t] = "idle"] /\ UNCHANGED <<table, local>>
    BY <1>7 DEF AllocGfx, AllocSystem, AllocFails, Serve
  <2> QED
    BY <1>1, <2>1, <2>2
<1>8. CASE BufferFreed \/ OthersAlloc \/ OthersFree \/ Tick \/ Restart \/ UNCHANGED vars
  BY <1>1, <1>8 DEF BufferFreed, OthersAlloc, OthersFree, Tick, Restart, Absent, vars
<1> QED
  BY <1>2, <1>3, <1>4, <1>5, <1>6, <1>7, <1>8 DEF Next, Serves

\* With one thread over the table, the loop that clears old entries never takes
\* one whose layer was answered less than the timeout ago.
THEOREM EntriesStay == ASSUME Single PROVE Spec => RemovedOnlyWhenSilent
<1> DEFINE Kept(l) ==
      layers[l].count > 0 /\ layers'[l].count = 0 =>
        \/ layers[l].count = 1 /\ \E t \in Thread : pc[t] = "find"
        \/ clock - served[l].last >= Timeout
        \/ ~\E t \in Thread : pc'[t] # "idle"
<1>1. ASSUME TypeInv, Ages, Next, NEW l \in Layer PROVE Kept(l)
  <2> USE DEF Goto, table, heap, local
  <2>1. /\ layers \in [Layer -> Entry] /\ layers[l].count \in Int
        /\ layers[l].time_stamp \in Int /\ clock \in Int /\ now \in [Thread -> Int]
        /\ Timeout \in Int /\ pc \in [Thread -> PCs]
    BY <1>1, LayerHeapAssumption DEF LayerHeapAssumption, TypeInv, TypeOK, Entry, PCs
  <2>2. ASSUME NEW t \in Thread, Expire(t) PROVE Kept(l)
    <3>1. CASE l \in Expired(t)
      BY <1>1, <2>1, <2>2, <3>1 DEF Expire, Expired, Ages
    <3>2. CASE l \notin Expired(t)
      BY <2>2, <3>2 DEF Expire
    <3> QED
      BY <3>1, <3>2
  <2>3. ASSUME NEW t \in Thread, Found(t) PROVE Kept(l)
    <3>1. l # req[t].layer => layers'[l] = layers[l]
      BY <2>1, <2>3 DEF Found
    <3>2. l = req[t].layer /\ layers[l].count # 1 => layers'[l].count = layers[l].count - 1
      BY <2>1, <2>3 DEF Found
    <3> QED
      BY <2>1, <2>3, <3>1, <3>2 DEF Found
  <2>4. ASSUME NEW t \in Thread, Insert(t) PROVE Kept(l)
    BY <2>1, <2>4 DEF Insert, BUFFER_COUNT_PER_LAYER
  <2>5. CASE Restart
    BY <2>5, <2>1 DEF Restart
  <2>6. CASE layers' = layers
    BY <2>6, <2>1
  <2> QED
    BY <1>1, <2>2, <2>3, <2>4, <2>5, <2>6
       DEF Next, Serves, Pick, NotFound, AllocGfx, AllocSystem, AllocFails, BufferFreed,
           OthersAlloc, OthersFree, Tick
<1>2. TypeInv /\ Ages /\ [Next]_vars => [\A l \in Layer : Kept(l)]_vars
  BY <1>1
<1>3. Single
  OBVIOUS
<1> QED
  BY TypeInit, TypeStep, AgesInit, AgesStep, <1>2, <1>3, PTL DEF Spec, RemovedOnlyWhenSilent

-----------------------------------------------------------------------------
(* One thread: one answer for three requests                               *)

\* A thread is looking the layer up.
Busy(l) == \E t \in Thread : pc[t] \in AtTable /\ req[t].layer = l

\* An entry is what is left of the set of three that its layer is being served,
\* and carries the answer every request of the set has had; unless a set of the
\* layer was cut, since when the table may count from another buffer.  An entry
\* is gone in the middle of a set only when its layer has been silent for so long
\* that its next request cuts it; the entry of a layer that is looked up is young.
TurnOf(l) ==
    LET c == layers[l].count
        s == served[l]
    IN  ~s.cut =>
        /\ c > 0 => /\ s.requests = BUFFER_COUNT_PER_LAYER - c + (IF Busy(l) THEN 1 ELSE 0)
                    /\ s.picks = {layers[l].pick_heap_gfx}
        /\ c = 0 /\ Busy(l) => s.requests = 1 /\ s.picks = {}
        /\ c = 0 /\ ~Busy(l) => \/ s.requests \in {0, BUFFER_COUNT_PER_LAYER}
                               \/ clock - s.last >= Timeout
        /\ c > 0 => \A t \in Thread :
              pc[t] = "expire" /\ req[t].layer = l => ~(now[t] - s.last >= Timeout)
        /\ s.requests = 0 => s.picks = {}
        /\ \E b \in BOOLEAN : s.picks \subseteq {b}

Turns == \A l \in Layer : TurnOf(l)

LEMMA TurnsInit == Init => Turns
<1> SUFFICES ASSUME Init, NEW l \in Layer PROVE TurnOf(l)
  BY DEF Turns
<1>1. /\ layers[l].count = 0 /\ served[l].requests = 0 /\ served[l].picks = {}
      /\ ~Busy(l)
  BY DEF Init, Absent, Unserved, Busy, AtTable
<1>2. \E b \in BOOLEAN : served[l].picks \subseteq {b}
  BY <1>1, TRUE \in BOOLEAN
<1> QED
  BY <1>1, <1>2 DEF TurnOf, BUFFER_COUNT_PER_LAYER

\* A step that leaves a layer's entry, its history and whether it is being looked
\* up alone keeps its turn, also when time passes.
LEMMA TurnKept ==
  ASSUME TypeInv, NEW l \in Layer, TurnOf(l),
         layers'[l] = layers[l],
         served'[l].requests = served[l].requests, served'[l].picks = served[l].picks,
         served'[l].cut = served[l].cut, served'[l].last = served[l].last,
         clock' \in Int, clock <= clock',
         \A t \in Thread : pc'[t] = "expire" /\ req'[t].layer = l =>
            pc[t] = "expire" /\ req[t].layer = l /\ now'[t] = now[t],
         Busy(l)' <=> Busy(l)
  PROVE  TurnOf(l)'
<1>1. clock \in Int /\ served[l].last \in Int /\ Timeout \in Int
  BY LayerHeapAssumption DEF LayerHeapAssumption, TypeInv, TypeOK, History
<1>2. clock - served[l].last >= Timeout => clock' - served'[l].last >= Timeout
  BY <1>1
<1> HIDE DEF TypeInv
<1> QED
  BY <1>2 DEF TurnOf

\* The answer to the request of a layer that is looked up.
LEMMA TurnAnswered ==
  ASSUME Single, TypeInv, Turns, NEW t \in Thread, pc[t] \in AtTable, NEW b \in BOOLEAN,
         Answer(t, b), req' = req, clock' = clock,
         \A l \in Layer : l # req[t].layer => layers'[l] = layers[l],
         NEW c \in 0..BUFFER_COUNT_PER_LAYER - 1,
         layers'[req[t].layer].count = c,
         c > 0 => layers'[req[t].layer].pick_heap_gfx = b,
         ~served[req[t].layer].cut =>
            /\ served[req[t].layer].requests = BUFFER_COUNT_PER_LAYER - c
            /\ served[req[t].layer].picks \subseteq {b}
  PROVE  Turns'
<1> SUFFICES ASSUME NEW l \in Layer PROVE TurnOf(l)'
  BY DEF Turns
<1>1. pc' = [pc EXCEPT ![t] = "alloc"] /\ pc \in [Thread -> PCs]
  BY DEF Answer, Decide, Goto, TypeInv, TypeOK, PCs
<1>2. ~Busy(l)' /\ \A u \in Thread : pc'[u] # "expire"
  BY <1>1 DEF Busy, Single, AtTable
<1>5. clock' \in Int /\ clock <= clock'
  BY LayerHeapAssumption DEF LayerHeapAssumption, TypeInv, TypeOK
<1>3. CASE l # req[t].layer
  <2>1. ~Busy(l)
    BY <1>3 DEF Busy, Single
  <2>2. served'[l] = served[l]
    BY <1>3, AnswerHistory
  <2> QED
    BY <1>2, <1>3, <1>5, <2>1, <2>2, TurnKept DEF Turns
<1>4. CASE l = req[t].layer
  <2>1. served'[l].cut = served[l].cut
    BY <1>4, AnswerHistory
  <2>2. ~served[l].cut => served'[l].requests = BUFFER_COUNT_PER_LAYER - c /\ served'[l].picks = {b}
    BY <1>4, AnswerHistory
  <2>3. layers'[l].count = c /\ (c > 0 => layers'[l].pick_heap_gfx = b)
    BY <1>4
  <2> QED
    <3>2. ~served'[l].cut => \E d \in BOOLEAN : served'[l].picks \subseteq {d}
      BY <2>1, <2>2
    <3>3. ~served'[l].cut =>
            /\ served'[l].requests = BUFFER_COUNT_PER_LAYER - c
            /\ served'[l].picks = {b} /\ served'[l].requests # 0
      BY <2>1, <2>2 DEF BUFFER_COUNT_PER_LAYER
    <3> QED
      BY <1>2, <2>3, <3>2, <3>3 DEF TurnOf, BUFFER_COUNT_PER_LAYER
<1> QED
  BY <1>3, <1>4

LEMMA TurnsStep ==
  ASSUME Single
  PROVE  TypeInv /\ Ages /\ Turns /\ [Next]_vars => Turns'
<1> SUFFICES ASSUME TypeInv, Ages, Turns, [Next]_vars PROVE Turns'
  OBVIOUS
<1> USE LayerHeapAssumption DEF LayerHeapAssumption, Goto, table, heap, local
<1>1. /\ layers \in [Layer -> Entry] /\ pc \in [Thread -> PCs]
      /\ req \in [Thread -> Requests] /\ served \in [Layer -> History]
      /\ clock \in 0..MaxTime /\ now \in [Thread -> 0..MaxTime]
      /\ \A l \in Layer : layers[l].count \in 0..BUFFER_COUNT_PER_LAYER - 1
                          /\ layers[l].time_stamp \in 0..MaxTime
                          /\ layers[l].pick_heap_gfx \in BOOLEAN
                          /\ served[l].last \in 0..MaxTime
      /\ clock \in Int
  BY DEF TypeInv, TypeOK, Entry, PCs, History
<1>2. ASSUME NEW t \in Thread, NEW r \in Requests, Pick(t, r) PROVE Turns'
  <2>1. ASSUME NEW l \in Layer PROVE ~Busy(l)
    BY <1>2 DEF Busy, Single, AtTable, Pick
  <2>2. CASE Unnamed(t, r) \/ NoInfo(t, r)
    <3>1. \A l \in Layer : ~Busy(l)'
      BY <1>1, <1>2, <2>2 DEF Pick, Unnamed, NoInfo, Decide, Busy, Single, AtTable
    <3>2. \A u \in Thread : pc'[u] # "expire"
      BY <1>1, <1>2, <2>2 DEF Pick, Unnamed, NoInfo, Decide, Single
    <3>3. layers' = layers /\ clock' = clock
      BY <1>2 DEF Pick
    <3>4. served' = served
      BY <2>2 DEF Unnamed, NoInfo
    <3>5. clock' \in Int /\ clock <= clock'
      BY <1>1, <3>3
    <3> QED
      BY <2>1, <3>1, <3>2, <3>3, <3>4, <3>5, TurnKept DEF Turns
  <2>3. CASE Named(t, r)
    <3> SUFFICES ASSUME NEW l \in Layer PROVE TurnOf(l)'
      BY DEF Turns
    <3> DEFINE s == served[r.layer]
    <3>1. r.layer \in Layer /\ pc' = [pc EXCEPT ![t] = "expire"] /\ req' = [req EXCEPT ![t] = r]
      BY <1>2, <2>3 DEF Pick, Named, Request
    <3>2. Busy(l)' <=> l = r.layer
      BY <1>1, <3>1 DEF Busy, Single, AtTable
    <3>3. layers' = layers
      BY <1>2 DEF Pick
    <3>4. Joins(r.layer)
      BY <2>3 DEF Named
    <3>5. CASE l # r.layer
      <4>1. served'[l] = served[l]
        BY <1>1, <3>1, <3>4, <3>5 DEF Joins
      <4> QED
        <5>1. \A u \in Thread : pc'[u] = "expire" => req'[u].layer # l
          BY <1>1, <3>1, <3>5 DEF Single
        <5>2. clock' \in Int /\ clock <= clock'
          BY <1>1, <1>2 DEF Pick
        <5> QED
          BY <2>1, <3>2, <3>3, <3>5, <4>1, <5>1, <5>2, TurnKept DEF Turns
    <3>6. CASE l = r.layer
      <4> DEFINE silent == clock - s.last >= Timeout
      <4>1. s \in History /\ TurnOf(l) /\ ~Busy(l)
        BY <1>1, <2>1, <3>1, <3>6 DEF Turns
      <4>2. s.requests \in 0..BUFFER_COUNT_PER_LAYER /\ (InTheMiddle(l) <=> s.requests \in {1, 2})
        BY <3>6, <4>1 DEF History, InTheMiddle, BUFFER_COUNT_PER_LAYER
      <4>3. now'[t] = clock /\ served'[l].last = s.last
        BY <1>1, <2>3, <3>1, <3>4, <3>6, JoinsHistory DEF Named
      <4>4. CASE s.requests = BUFFER_COUNT_PER_LAYER \/ silent
        <5>1. /\ served'[l].requests = 1 /\ served'[l].picks = {}
              /\ served'[l].cut = (s.cut \/ InTheMiddle(l))
          BY <1>1, <3>1, <3>4, <3>6, <4>4 DEF Joins
        <5>2. ~served'[l].cut => layers[l].count = 0
          <6>1. ~s.cut /\ layers[l].count > 0 => s.requests = BUFFER_COUNT_PER_LAYER - layers[l].count
            BY <1>1, <3>6, <4>1 DEF TurnOf, BUFFER_COUNT_PER_LAYER
          <6>2. layers[l].count \in 0..2
            BY <1>1 DEF BUFFER_COUNT_PER_LAYER
          <6>3. ~served'[l].cut => ~s.cut /\ ~InTheMiddle(l)
            BY <5>1, Zenon
          <6>4. layers[l].count > 0 /\ s.requests = BUFFER_COUNT_PER_LAYER - layers[l].count
                  => s.requests \in {1, 2}
            BY <6>2 DEF BUFFER_COUNT_PER_LAYER
          <6>5. layers[l].count > 0 \/ layers[l].count = 0
            BY <6>2
          <6> QED
            BY <4>2, <6>1, <6>3, <6>4, <6>5, Zenon
        <5>3. \E b \in BOOLEAN : served'[l].picks \subseteq {b}
          BY <5>1, TRUE \in BOOLEAN
        <5> QED
          BY <3>2, <3>3, <3>6, <5>1, <5>2, <5>3 DEF TurnOf
      <4>5. CASE ~(s.requests = BUFFER_COUNT_PER_LAYER \/ silent)
        <5>1. /\ served'[l].requests = s.requests + 1 /\ served'[l].picks = s.picks
              /\ served'[l].cut = s.cut
          BY <1>1, <3>1, <3>4, <3>6, <4>5 DEF Joins
        <5>2. \A u \in Thread : pc'[u] = "expire" => ~(now'[u] - served'[l].last >= Timeout)
          BY <4>3, <4>5 DEF Single
        <5>3. ~s.cut /\ layers[l].count = 0 => s.requests = 0 /\ s.picks = {}
          BY <3>6, <4>1, <4>5 DEF TurnOf
        <5> HIDE DEF s, silent
        <5>4. ~s.cut => \E b \in BOOLEAN : s.picks \subseteq {b}
          BY <3>6, <4>1 DEF TurnOf, s
        <5>5. ~s.cut /\ layers[l].count > 0 =>
                /\ s.requests = BUFFER_COUNT_PER_LAYER - layers[l].count
                /\ s.picks = {layers[l].pick_heap_gfx}
          BY <1>1, <3>6, <4>1 DEF TurnOf, s, BUFFER_COUNT_PER_LAYER
        <5>6. layers[l].count \in 0..BUFFER_COUNT_PER_LAYER - 1
          BY <1>1
        <5> QED
          BY <3>2, <3>3, <3>6, <4>2, <5>1, <5>2, <5>3, <5>4, <5>5, <5>6 DEF TurnOf, BUFFER_COUNT_PER_LAYER
      <4> QED
        BY <4>4, <4>5
    <3> QED
      BY <3>5, <3>6
  <2> QED
    BY <1>2, <2>2, <2>3 DEF Pick
<1>3. ASSUME NEW t \in Thread, Expire(t) PROVE Turns'
  <2> SUFFICES ASSUME NEW l \in Layer PROVE TurnOf(l)'
    BY DEF Turns
  <2>1. /\ pc' = [pc EXCEPT ![t] = "find"] /\ pc[t] = "expire"
        /\ clock' = clock /\ served' = served /\ req' = req /\ now' = now
    BY <1>3 DEF Expire
  <2>2. Busy(l)' <=> Busy(l)
    BY <1>1, <2>1 DEF Busy, AtTable
  <2>3. TurnOf(l)
    BY DEF Turns
  <2>4. CASE layers'[l] = layers[l]
    BY <1>1, <2>1, <2>2, <2>3, <2>4, TurnKept
  <2>5. CASE layers'[l] # layers[l]
    <3>1. l \in Expired(t) /\ layers'[l].count = 0
      BY <1>1, <1>3, <2>5 DEF Expire, Absent
    <3>2. layers[l].count > 0 /\ now[t] - served[l].last >= Timeout /\ now[t] <= clock
      BY <1>1, <2>1, <3>1 DEF Expired, Ages
    <3>3. clock - served[l].last >= Timeout
      BY <1>1, <3>2
    <3>4. ~served[l].cut => ~Busy(l)
      BY <2>1, <2>3, <3>2 DEF TurnOf, Busy, Single
    <3>5. layers[l].count \in 1..2 /\ (~served[l].cut => served[l].requests # 0)
      BY <1>1, <2>3, <3>2, <3>4 DEF TurnOf, BUFFER_COUNT_PER_LAYER
    <3> QED
      BY <2>1, <2>2, <2>3, <3>1, <3>3, <3>4, <3>5 DEF TurnOf
  <2> QED
    BY <2>4, <2>5
<1>4. ASSUME NEW t \in Thread, Found(t) PROVE Turns'
  <2> DEFINE l == req[t].layer
             b == layers[l].pick_heap_gfx
             c == layers[l].count - 1
  <2>1. l \in Layer /\ pc[t] \in AtTable /\ Busy(l) /\ TurnOf(l)
    BY <1>4 DEF Found, TypeInv, Reaches, AtTable, Busy, Turns
  <2>2. b \in BOOLEAN /\ c \in 0..BUFFER_COUNT_PER_LAYER - 1 /\ layers[l].count > 0
    BY <1>1, <1>4, <2>1 DEF Found, BUFFER_COUNT_PER_LAYER
  <2>3. ~served[l].cut =>
          served[l].requests = BUFFER_COUNT_PER_LAYER - c /\ served[l].picks \subseteq {b}
    BY <1>1, <2>1, <2>2 DEF TurnOf, BUFFER_COUNT_PER_LAYER
  <2>4. /\ \A k \in Layer : k # l => layers'[k] = layers[k]
        /\ layers'[l].count = c
        /\ c > 0 => layers'[l].pick_heap_gfx = b
    <3>1. \A k \in Layer : k # l => layers'[k] = layers[k]
      BY <1>1, <1>4, <2>1 DEF Found
    <3>2. CASE c = 0
      <4>1. layers'[l] = Absent
        BY <1>1, <1>4, <2>1, <3>2 DEF Found
      <4>2. layers'[l].count = 0
        BY <4>1 DEF Absent
      <4> QED
        BY <3>1, <3>2, <4>2
    <3>3. CASE c # 0
      <4>1. layers'[l] = [count |-> c, size |-> layers[l].size, time_stamp |-> now[t],
                          pick_heap_gfx |-> b]
        BY <1>1, <1>4, <2>1, <3>3 DEF Found
      <4> QED
        BY <3>1, <4>1
    <3> QED
      BY <3>2, <3>3
  <2>5. Answer(t, b) /\ req' = req /\ clock' = clock
    BY <1>4 DEF Found
  <2> HIDE DEF b, c
  <2> QED
    BY <2>1, <2>2, <2>3, <2>4, <2>5, TurnAnswered
<1>5. ASSUME NEW t \in Thread, NotFound(t) PROVE Turns'
  <2>1. \A l \in Layer : Busy(l)' <=> Busy(l)
    BY <1>1, <1>5 DEF NotFound, Busy, AtTable
  <2> QED
    <3>1. /\ layers' = layers /\ served' = served /\ clock' \in Int /\ clock <= clock'
          /\ \A u \in Thread : pc'[u] # "expire"
      BY <1>1, <1>5 DEF NotFound, Single
    <3> QED
      BY <2>1, <3>1, TurnKept DEF Turns
<1>6. ASSUME NEW t \in Thread, Insert(t) PROVE Turns'
  <2> DEFINE l == req[t].layer
             b == Fits(t)
             c == BUFFER_COUNT_PER_LAYER - 1
  <2>1. l \in Layer /\ pc[t] \in AtTable /\ layers[l].count = 0
    BY <1>6 DEF Insert, TypeInv, Reaches, AtTable, Ages
  <2>6. Busy(l) /\ TurnOf(l)
    BY <2>1 DEF Busy, Turns
  <2>2. b \in BOOLEAN /\ c \in 0..BUFFER_COUNT_PER_LAYER - 1
    BY DEF Fits, BUFFER_COUNT_PER_LAYER
  <2>3. ~served[l].cut =>
          served[l].requests = BUFFER_COUNT_PER_LAYER - c /\ served[l].picks \subseteq {b}
    BY <2>1, <2>2, <2>6 DEF TurnOf, BUFFER_COUNT_PER_LAYER
  <2>4. /\ \A k \in Layer : k # l => layers'[k] = layers[k]
        /\ layers'[l].count = c
        /\ layers'[l].pick_heap_gfx = b
    BY <1>1, <1>6, <2>1 DEF Insert
  <2>5. Answer(t, b) /\ req' = req /\ clock' = clock
    BY <1>6 DEF Insert
  <2> HIDE DEF b, c
  <2> QED
    BY <2>1, <2>2, <2>3, <2>4, <2>5, TurnAnswered
<1>7. ASSUME NEW t \in Thread, AllocGfx(t) \/ AllocSystem(t) \/ AllocFails(t) PROVE Turns'
  <2>1. \A l \in Layer : /\ served'[l].requests = served[l].requests
                         /\ served'[l].picks = served[l].picks
                         /\ served'[l].cut = served[l].cut
                         /\ served'[l].last = served[l].last
    BY <1>7, ServeHistory DEF AllocGfx, AllocSystem, AllocFails
  <2>2. pc' = [pc EXCEPT ![t] = "idle"] /\ pc[t] = "alloc" /\ UNCHANGED <<table, local>>
    BY <1>7 DEF AllocGfx, AllocSystem, AllocFails, Serve
  <2>3. \A l \in Layer : Busy(l)' <=> Busy(l)
    BY <1>1, <2>2 DEF Busy, AtTable
  <2> QED
    <3>1. /\ layers' = layers /\ clock' \in Int /\ clock <= clock'
          /\ \A u \in Thread : pc'[u] # "expire"
      BY <1>1, <2>2 DEF Single
    <3> QED
      BY <2>1, <2>3, <3>1, TurnKept DEF Turns
<1>8. CASE Restart
  <2> SUFFICES ASSUME NEW l \in Layer PROVE TurnOf(l)'
    BY DEF Turns
  <2>1. layers'[l].count = 0 /\ ~Busy(l)'
    BY <1>8 DEF Restart, Absent, Busy, AtTable
  <2>2. /\ served'[l].requests = served[l].requests /\ served'[l].picks = served[l].picks
        /\ ~served'[l].cut => ~served[l].cut /\ served[l].requests \notin 1..BUFFER_COUNT_PER_LAYER - 1
    BY <1>8 DEF Restart, InTheMiddle
  <2>3. served[l].requests \in 0..BUFFER_COUNT_PER_LAYER /\ TurnOf(l)
    BY <1>1 DEF History, Turns
  <2> QED
    BY <2>1, <2>2, <2>3 DEF TurnOf, BUFFER_COUNT_PER_LAYER
<1>9. CASE BufferFreed \/ OthersAlloc \/ OthersFree \/ Tick \/ UNCHANGED vars
  <2>1. layers' = layers /\ served' = served /\ pc' = pc /\ req' = req
    BY <1>9 DEF BufferFreed, OthersAlloc, OthersFree, Tick, vars
  <2>2. now' = now /\ clock' \in Int /\ clock <= clock'
    BY <1>1, <1>9 DEF BufferFreed, OthersAlloc, OthersFree, Tick, vars
  <2>3. \A l \in Layer : Busy(l)' <=> Busy(l)
    BY <2>1 DEF Busy
  <2> QED
    BY <2>1, <2>2, <2>3, TurnKept DEF Turns
<1> QED
  BY <1>2, <1>3, <1>4, <1>5, <1>6, <1>7, <1>8, <1>9 DEF Next, Serves

\* With one thread, the three requests of a layer get one answer whatever fails,
\* whatever happens between its sets of three, and whatever times out of other
\* layers; a layer cut in the middle of a set, by a restart or by a silence of the
\* timeout, is left out.
THEOREM OneAnswer ==
  ASSUME Single
  PROVE  Spec => []ThreeOneAnswer
<1>1. TypeInv /\ Turns => ThreeOneAnswer
  <2> SUFFICES ASSUME TypeInv, Turns, NEW l \in Layer, ~served[l].cut
               PROVE  Cardinality(served[l].picks) <= 1
    BY DEF ThreeOneAnswer
  <2>1. PICK b \in BOOLEAN : served[l].picks \subseteq {b}
    BY DEF Turns, TurnOf
  <2>2. IsFiniteSet({b}) /\ Cardinality({b}) = 1
    BY FS_Singleton
  <2> QED
    BY <2>1, <2>2, FS_Subset
<1>2. Single
  OBVIOUS
<1> QED
  BY TypeInit, TypeStep, AgesInit, AgesStep, TurnsInit, TurnsStep, <1>1, <1>2, PTL DEF Spec

-----------------------------------------------------------------------------
(* One thread: what is promised is free                                    *)

\* Clients ask for a layer, or for the CPU and so not from heap-gfx, and the
\* buffers of a layer have one size.
LayersOfOneSize ==
    /\ \A r \in Requests : r.cpu \/ r.layer \in Layer
    /\ \A r, s \in Requests : ~r.cpu /\ ~s.cpu /\ r.layer = s.layer => r.size = s.size

\* An entry that picked heap-gfx promises buffers of the size its layer asks for,
\* another one promises nothing.
EntrySizes ==
    \A l \in Layer : layers[l].count > 0 =>
        IF layers[l].pick_heap_gfx
        THEN \A r \in Requests : ~r.cpu /\ r.layer = l => r.size = layers[l].size
        ELSE layers[l].size = 0

\* What a thread read of the free space can only have grown, and only requests
\* of a layer take from heap-gfx.
Readings ==
    \A t \in Thread :
        /\ pc[t] \in AtTable => ~req[t].cpu /\ seen[t] <= free
        /\ pc[t] = "alloc" /\ gfx[t] => ~req[t].cpu /\ req[t].layer \in Layer

PromiseInv == EntrySizes /\ Readings /\ PromisesAreKept

\* The two sums of Promised: what a table promises, and what threads at pcs are about to take.
Waiting(table_) == SumFunctionOnSet([l \in Layer |-> table_[l].count * table_[l].size], Layer)

Taken(pcs, reqs, picks) ==
    SumFunctionOnSet([t \in Thread |-> reqs[t].size], {t \in Thread : pcs[t] = "alloc" /\ picks[t]})

LEMMA PromisedIs ==
  /\ wait_alloc_size = Waiting(layers)
  /\ Promised = Waiting(layers) + Taken(pc, req, gfx)
  /\ Promised' = Waiting(layers') + Taken(pc', req', gfx')
  BY DEF Promised, wait_alloc_size, Waiting, Taken

LEMMA EntryWaits ==
  ASSUME NEW e \in Entry
  PROVE  e.count * e.size \in Nat
<1>1. e.count \in {0, 1, 2} /\ e.size \in Nat
  BY LayerHeapAssumption DEF LayerHeapAssumption, Entry, Sizes, BUFFER_COUNT_PER_LAYER
<1> QED
  BY <1>1

LEMMA WaitingType ==
  ASSUME NEW table_ \in [Layer -> Entry]
  PROVE  Waiting(table_) \in Int
<1> DEFINE f == [l \in Layer |-> table_[l].count * table_[l].size]
<1>1. \A l \in Layer : f[l] \in Int
  BY EntryWaits
<1>2. IsFiniteSet(Layer)
  BY LayerHeapAssumption DEF LayerHeapAssumption
<1>3. SumFunctionOnSet(f, Layer) \in Int
  <2> HIDE DEF f
  <2> QED
    BY <1>1, <1>2, TotalTakeOut
<1> QED
  BY <1>3 DEF Waiting

\* A change to one entry changes the promises by that entry's.
LEMMA WaitingChange ==
  ASSUME NEW old \in [Layer -> Entry], NEW new \in [Layer -> Entry], NEW l \in Layer,
         \A k \in Layer \ {l} : new[k] = old[k]
  PROVE  Waiting(new) = Waiting(old) - old[l].count * old[l].size + new[l].count * new[l].size
<1> DEFINE f == [k \in Layer |-> old[k].count * old[k].size]
           g == [k \in Layer |-> new[k].count * new[k].size]
<1>1. \A k \in Layer : f[k] \in Int /\ g[k] \in Int
  BY EntryWaits
<1>2. \A k \in Layer \ {l} : g[k] = f[k]
  OBVIOUS
<1>3. IsFiniteSet(Layer)
  BY LayerHeapAssumption DEF LayerHeapAssumption
<1>4. SumFunctionOnSet(g, Layer) = SumFunctionOnSet(f, Layer) - f[l] + g[l]
  <2> HIDE DEF f, g
  <2> QED
    BY <1>1, <1>2, <1>3, TotalChange
<1> QED
  BY <1>4 DEF Waiting

\* Entries that leave take their promises with them.
LEMMA WaitingShrinks ==
  ASSUME NEW old \in [Layer -> Entry], NEW new \in [Layer -> Entry],
         \A l \in Layer : new[l] = old[l] \/ new[l] = Absent
  PROVE  Waiting(new) <= Waiting(old)
<1> DEFINE f == [k \in Layer |-> old[k].count * old[k].size]
           g == [k \in Layer |-> new[k].count * new[k].size]
<1>1. ASSUME NEW k \in Layer PROVE f[k] \in Int /\ g[k] \in Int /\ g[k] <= f[k]
  <2>1. f[k] \in Nat /\ g[k] \in Nat
    BY EntryWaits
  <2>2. g[k] = f[k] \/ g[k] = 0
    BY DEF Absent
  <2> HIDE DEF f, g
  <2> QED
    BY <2>1, <2>2
<1>2. IsFiniteSet(Layer)
  BY LayerHeapAssumption DEF LayerHeapAssumption
<1>3. SumFunctionOnSet(g, Layer) <= SumFunctionOnSet(f, Layer)
  <2> HIDE DEF f, g
  <2> QED
    BY <1>1, <1>2, TotalMonotonic
<1> QED
  BY <1>3 DEF Waiting

LEMMA NothingWaits == Waiting([l \in Layer |-> Absent]) = 0
<1> DEFINE f == [k \in Layer |-> [l \in Layer |-> Absent][k].count * [l \in Layer |-> Absent][k].size]
<1>1. \A l \in Layer : f[l] = 0
  BY DEF Absent
<1>2. IsFiniteSet(Layer)
  BY LayerHeapAssumption DEF LayerHeapAssumption
<1>3. SumFunctionOnSet(f, Layer) = 0
  <2> HIDE DEF f
  <2> QED
    BY <1>1, <1>2, TotalZero
<1> QED
  BY <1>3 DEF Waiting

\* The one thread is the only one to take.
LEMMA TakenByOne ==
  ASSUME Single, NEW t \in Thread, NEW pcs, NEW reqs \in [Thread -> Requests], NEW picks
  PROVE  Taken(pcs, reqs, picks) = IF pcs[t] = "alloc" /\ picks[t] THEN reqs[t].size ELSE 0
<1> DEFINE f == [u \in Thread |-> reqs[u].size]
           S == {u \in Thread : pcs[u] = "alloc" /\ picks[u]}
<1>1. f[t] = reqs[t].size /\ reqs[t].size \in Int
  BY LayerHeapAssumption DEF LayerHeapAssumption, Request, Sizes
<1>2. Taken(pcs, reqs, picks) = SumFunctionOnSet(f, S)
  BY DEF Taken
<1>3. \A u \in Thread : u = t
  BY DEF Single
<1>4. CASE pcs[t] = "alloc" /\ picks[t]
  <2>1. S = {t}
    BY <1>3, <1>4
  <2>2. IsFiniteSet({t}) /\ {t} \ {t} = {}
    BY FS_Singleton
  <2> HIDE DEF f, S
  <2>3. SumFunctionOnSet(f, {t}) = f[t] + SumFunctionOnSet(f, {t} \ {t})
    BY <1>1, <2>2, TotalTakeOut
  <2>4. SumFunctionOnSet(f, S) = f[t] + 0
    BY <2>1, <2>2, <2>3, TotalEmpty
  <2> QED
    BY <1>1, <1>2, <1>4, <2>4
<1>5. CASE ~(pcs[t] = "alloc" /\ picks[t])
  <2>1. S = {}
    BY <1>3, <1>5
  <2> HIDE DEF f, S
  <2> QED
    BY <1>2, <1>5, <2>1, TotalEmpty
<1> QED
  BY <1>4, <1>5

\* Without a taker nothing is taken, however many threads there are.
LEMMA NothingTaken ==
  ASSUME NEW pcs, NEW reqs, NEW picks, \A t \in Thread : pcs[t] # "alloc"
  PROVE  Taken(pcs, reqs, picks) = 0
<1>1. {u \in Thread : pcs[u] = "alloc" /\ picks[u]} = {}
  OBVIOUS
<1> QED
  BY <1>1, TotalEmpty DEF Taken

LEMMA PromiseInit == Init => PromiseInv
<1> SUFFICES ASSUME Init PROVE PromiseInv
  OBVIOUS
<1>1. EntrySizes /\ Readings
  BY DEF Init, EntrySizes, Readings, Absent, AtTable
<1>2. Waiting(layers) = 0
  BY NothingWaits DEF Init
<1>3. Taken(pc, req, gfx) = 0
  BY NothingTaken DEF Init
<1> QED
  BY <1>1, <1>2, <1>3, PromisedIs, LayerHeapAssumption
     DEF LayerHeapAssumption, PromiseInv, PromisesAreKept, Init

LEMMA PromiseStep ==
  ASSUME Single, LayersOfOneSize, ~OtherUsers, "info" \notin Faults
  PROVE  TypeInv /\ Ages /\ PromiseInv /\ [Next]_vars => PromiseInv'
<1> SUFFICES ASSUME TypeInv, Ages, PromiseInv, [Next]_vars PROVE PromiseInv'
  OBVIOUS
<1> USE LayerHeapAssumption DEF LayerHeapAssumption, Goto, table, heap, local
<1>t. TypeInv'
  BY TypeStep
<1>1. /\ layers \in [Layer -> Entry] /\ layers' \in [Layer -> Entry]
      /\ pc \in [Thread -> PCs] /\ free \in Nat /\ free' \in Nat
      /\ req \in [Thread -> Requests] /\ req' \in [Thread -> Requests]
      /\ seen \in [Thread -> Nat] /\ gfx \in [Thread -> BOOLEAN]
      /\ \A r \in Requests : r.size \in Nat /\ r.cpu \in BOOLEAN
      /\ \A t \in Thread, u \in Thread : t = u
  BY <1>t DEF TypeInv, TypeOK, PCs, Request, Sizes, Single
<1>2. Waiting(layers) \in Int /\ Waiting(layers') \in Int
  BY <1>1, WaitingType
\* A step of the one thread, in the terms of the sums.
<1>3. ASSUME NEW t \in Thread
      PROVE  /\ Promised = Waiting(layers) + (IF pc[t] = "alloc" /\ gfx[t] THEN req[t].size ELSE 0)
             /\ Promised' = Waiting(layers') + (IF pc'[t] = "alloc" /\ gfx'[t] THEN req'[t].size ELSE 0)
  BY <1>1, PromisedIs, TakenByOne
<1>4. ASSUME NEW t \in Thread, NEW r \in Requests, Pick(t, r) PROVE PromiseInv'
  <2>1. layers' = layers /\ free' = free /\ req' = [req EXCEPT ![t] = r] /\ pc[t] = "idle"
    BY <1>4 DEF Pick
  <2>2. EntrySizes'
    BY <2>1 DEF PromiseInv, EntrySizes
  <2>3. CASE r.cpu
    <3>1. pc' = [pc EXCEPT ![t] = "alloc"] /\ gfx' = [gfx EXCEPT ![t] = FALSE]
      BY <1>4, <2>3 DEF Pick, Unnamed, NoInfo, Named, Decide
    <3>2. Readings'
      BY <1>1, <3>1 DEF Readings, AtTable
    <3> QED
      BY <1>1, <1>2, <1>3, <2>1, <2>2, <3>1, <3>2 DEF PromiseInv, PromisesAreKept
  <2>4. CASE ~r.cpu
    <3>1. r.layer \in Layer /\ r.layer # NoLayer
      BY <2>4 DEF LayersOfOneSize
    <3>2. /\ pc' = [pc EXCEPT ![t] = "expire"] /\ gfx' = gfx
          /\ seen' = [seen EXCEPT ![t] = free]
      BY <1>4, <2>4, <3>1 DEF Pick, Unnamed, NoInfo, Named
    <3>3. Readings'
      BY <1>1, <2>1, <2>4, <3>2 DEF Readings, AtTable
    <3> QED
      BY <1>1, <1>2, <1>3, <2>1, <2>2, <3>2, <3>3 DEF PromiseInv, PromisesAreKept
  <2> QED
    BY <2>3, <2>4
<1>5. ASSUME NEW t \in Thread, Expire(t) PROVE PromiseInv'
  <2>1. /\ pc[t] = "expire" /\ pc' = [pc EXCEPT ![t] = "find"]
        /\ UNCHANGED <<free, req, seen, gfx>>
        /\ \A l \in Layer : layers'[l] = layers[l] \/ layers'[l] = Absent
    BY <1>5 DEF Expire
  <2>2. EntrySizes'
    BY <2>1 DEF PromiseInv, EntrySizes, Absent
  <2>3. Readings'
    BY <1>1, <2>1 DEF PromiseInv, Readings, AtTable
  <2>4. Waiting(layers') <= Waiting(layers)
    BY <1>1, <2>1, WaitingShrinks
  <2>5. Promised' = Waiting(layers') /\ Promised = Waiting(layers)
    BY <1>1, <1>2, <1>3, <2>1
  <2> QED
    BY <1>1, <1>2, <2>1, <2>2, <2>3, <2>4, <2>5 DEF PromiseInv, PromisesAreKept
<1>6. ASSUME NEW t \in Thread, Found(t) PROVE PromiseInv'
  <2> DEFINE l == req[t].layer
             e == layers[l]
             n == e.count - 1
  <2>1. /\ l \in Layer /\ e \in Entry /\ e.count \in {1, 2} /\ e.size \in Nat
        /\ e.pick_heap_gfx \in BOOLEAN /\ req[t] \in Requests /\ ~req[t].cpu
    BY <1>1, <1>6
       DEF Found, TypeInv, Reaches, AtTable, Entry, Sizes, BUFFER_COUNT_PER_LAYER, PromiseInv, Readings
  <2>2. /\ pc[t] = "find" /\ pc' = [pc EXCEPT ![t] = "alloc"]
        /\ gfx' = [gfx EXCEPT ![t] = e.pick_heap_gfx]
        /\ UNCHANGED <<free, req, seen>>
    BY <1>6 DEF Found, Answer, Decide
  <2>3. /\ \A k \in Layer \ {l} : layers'[k] = layers[k]
        /\ layers'[l].count = n
        /\ n # 0 => layers'[l].size = e.size /\ layers'[l].pick_heap_gfx = e.pick_heap_gfx
    <3>1. layers' = [layers EXCEPT ![l] =
              IF n = 0 THEN Absent
              ELSE [count |-> n, size |-> e.size, time_stamp |-> now[t],
                    pick_heap_gfx |-> e.pick_heap_gfx]]
      BY <1>6 DEF Found
    <3>2. Absent.count = 0
      BY DEF Absent
    <3> HIDE DEF n, e
    <3>3. layers'[l] = IF n = 0 THEN Absent
                       ELSE [count |-> n, size |-> e.size, time_stamp |-> now[t],
                             pick_heap_gfx |-> e.pick_heap_gfx]
      BY <1>1, <2>1, <3>1
    <3> QED
      BY <1>1, <2>1, <3>1, <3>2, <3>3
  <2>4. layers'[l].count * layers'[l].size = n * e.size
    <3>1. CASE n = 0
      <4>1. layers'[l] \in Entry
        BY <1>1, <2>1
      <4>2. layers'[l].count = 0 /\ layers'[l].size \in Nat
        BY <2>3, <3>1, <4>1 DEF Entry, Sizes
      <4> QED
        BY <2>1, <3>1, <4>2
    <3>2. CASE n # 0
      BY <2>3, <3>2
    <3> QED
      BY <3>1, <3>2
  <2>5. Waiting(layers') = Waiting(layers) - e.count * e.size + layers'[l].count * layers'[l].size
    <3> HIDE DEF l, e
    <3> QED
      BY <1>1, <2>1, <2>3, WaitingChange DEF e
  <2>6. Waiting(layers') = Waiting(layers) - e.size
    BY <1>2, <2>1, <2>3, <2>4, <2>5
  <2>7. IF e.pick_heap_gfx THEN req[t].size = e.size ELSE e.size = 0
    BY <2>1 DEF PromiseInv, EntrySizes
  <2>8. Promised' = Promised
    BY <1>1, <1>2, <1>3, <2>1, <2>2, <2>6, <2>7
  <2>9. EntrySizes'
    BY <2>1, <2>3 DEF PromiseInv, EntrySizes
  <2>10. Readings'
    BY <1>1, <2>1, <2>2 DEF PromiseInv, Readings, AtTable
  <2> QED
    BY <2>2, <2>8, <2>9, <2>10 DEF PromiseInv, PromisesAreKept
<1>7. ASSUME NEW t \in Thread, NotFound(t) PROVE PromiseInv'
  <2>1. /\ pc[t] = "find" /\ pc' = [pc EXCEPT ![t] = "insert"]
        /\ UNCHANGED <<layers, free, req, seen, gfx>>
    BY <1>7 DEF NotFound
  <2>2. Promised' = Promised
    BY <1>1, <1>3, <2>1
  <2> QED
    BY <1>1, <2>1, <2>2 DEF PromiseInv, PromisesAreKept, EntrySizes, Readings, AtTable
<1>8. ASSUME NEW t \in Thread, Insert(t) PROVE PromiseInv'
  <2> DEFINE l == req[t].layer
             e == layers'[l]
             n == req[t].size
  <2>1. /\ l \in Layer /\ layers[l] \in Entry /\ layers[l].count = 0 /\ layers[l].size \in Nat
        /\ n \in Nat /\ req[t] \in Requests /\ ~req[t].cpu /\ seen[t] <= free /\ seen[t] \in Nat
    BY <1>1, <1>8
       DEF Insert, TypeInv, Reaches, AtTable, Entry, Sizes, PromiseInv, Readings, Ages
  <2>2. /\ pc[t] = "insert" /\ pc' = [pc EXCEPT ![t] = "alloc"]
        /\ gfx' = [gfx EXCEPT ![t] = Fits(t)]
        /\ UNCHANGED <<free, req, seen>>
    BY <1>8 DEF Insert, Answer, Decide
  <2>3. /\ \A k \in Layer \ {l} : layers'[k] = layers[k]
        /\ e = [count |-> 2, size |-> IF Fits(t) THEN n ELSE 0, time_stamp |-> now[t],
                pick_heap_gfx |-> Fits(t)]
    BY <1>1, <1>8, <2>1 DEF Insert, BUFFER_COUNT_PER_LAYER
  <2>4. Waiting(layers') = Waiting(layers) - layers[l].count * layers[l].size + e.count * e.size
    <3> HIDE DEF l
    <3> QED
      BY <1>1, <2>1, <2>3, WaitingChange
  <2>5. Waiting(layers') = Waiting(layers) + 2 * e.size
    BY <1>2, <2>1, <2>3, <2>4
  <2>9. EntrySizes'
    BY <2>1, <2>3 DEF PromiseInv, EntrySizes, LayersOfOneSize
  <2>10. Readings'
    BY <1>1, <2>1, <2>2 DEF PromiseInv, Readings, AtTable
  <2>6. CASE Fits(t)
    <3>1. seen[t] - Waiting(layers) >= n * 3
      BY <2>6, PromisedIs DEF Fits, BUFFER_COUNT_PER_LAYER
    <3>2. e.size = n
      BY <2>3, <2>6
    <3>3. Promised' = Waiting(layers) + 2 * n + n
      BY <1>1, <1>2, <1>3, <2>1, <2>2, <2>5, <2>6, <3>2
    <3> HIDE DEF n, e
    <3> QED
      BY <1>1, <1>2, <2>1, <2>2, <3>1, <3>3, <2>9, <2>10 DEF PromiseInv, PromisesAreKept
  <2>7. CASE ~Fits(t)
    <3>1. e.size = 0
      BY <2>3, <2>7
    <3>2. Promised' = Waiting(layers) /\ Promised = Waiting(layers)
      BY <1>1, <1>2, <1>3, <2>1, <2>2, <2>5, <2>7, <3>1
    <3> QED
      BY <2>2, <3>2, <2>9, <2>10 DEF PromiseInv, PromisesAreKept
  <2> QED
    BY <2>6, <2>7
<1>9. ASSUME NEW t \in Thread, AllocGfx(t) \/ AllocSystem(t) \/ AllocFails(t) PROVE PromiseInv'
  <2>1. /\ pc[t] = "alloc" /\ pc' = [pc EXCEPT ![t] = "idle"]
        /\ UNCHANGED <<layers, req, seen, gfx>>
        /\ free' = free \/ (gfx[t] /\ free' = free - req[t].size)
    BY <1>9 DEF AllocGfx, AllocSystem, AllocFails, Serve
  <2>2. Promised' = Promised - (IF gfx[t] THEN req[t].size ELSE 0)
    BY <1>1, <1>2, <1>3, <2>1
  <2>3. Promised \in Int /\ req[t].size \in Nat
    BY <1>1, <1>2, <1>3
  <2>4. Promised' <= free'
    BY <1>1, <2>1, <2>2, <2>3 DEF PromiseInv, PromisesAreKept
  <2>5. EntrySizes' /\ Readings'
    BY <1>1, <2>1 DEF PromiseInv, EntrySizes, Readings, AtTable
  <2> QED
    BY <2>4, <2>5 DEF PromiseInv, PromisesAreKept
<1>10. CASE Restart
  <2>1. /\ layers' = [l \in Layer |-> Absent] /\ pc' = [t \in Thread |-> "idle"] /\ free' = free
    BY <1>10 DEF Restart
  <2>2. Promised' = 0
    BY <2>1, PromisedIs, NothingWaits, NothingTaken
  <2>3. EntrySizes' /\ Readings'
    BY <2>1 DEF EntrySizes, Readings, AtTable, Absent
  <2> QED
    BY <1>1, <2>1, <2>2, <2>3 DEF PromiseInv, PromisesAreKept
<1>11. CASE BufferFreed \/ Tick \/ OthersFree \/ UNCHANGED vars
  <2>1. UNCHANGED <<layers, pc, req, seen, gfx>> /\ free' >= free
    BY <1>1, <1>11 DEF BufferFreed, Tick, OthersFree, vars, Sizes
  <2>2. Promised' = Promised /\ Promised \in Int
    <3>1. CASE Thread = {}
      <4>1. Taken(pc, req, gfx) = 0 /\ Taken(pc', req', gfx') = 0
        BY <3>1, NothingTaken
      <4> QED
        BY <1>2, <2>1, <4>1, PromisedIs
    <3>2. CASE Thread # {}
      BY <1>1, <1>2, <1>3, <2>1, <3>2
    <3> QED
      BY <3>1, <3>2
  <2>3. EntrySizes' /\ Readings'
    BY <1>1, <2>1 DEF PromiseInv, EntrySizes, Readings
  <2> QED
    BY <1>1, <2>1, <2>2, <2>3 DEF PromiseInv, PromisesAreKept
<1> QED
  BY <1>4, <1>5, <1>6, <1>7, <1>8, <1>9, <1>10, <1>11 DEF Next, Serves, OthersAlloc

\* With one thread, alone on heap-gfx and told of its free space, what the table
\* promises and the thread is about to take is free, also as entries time out,
\* allocations fail and the service restarts.
THEOREM PromisesKept ==
  ASSUME Single, LayersOfOneSize, ~OtherUsers, "info" \notin Faults
  PROVE  Spec => []PromisesAreKept
<1>1. PromiseInv => PromisesAreKept
  BY DEF PromiseInv
<1>2. Single /\ LayersOfOneSize /\ ~OtherUsers /\ "info" \notin Faults
  OBVIOUS
<1> QED
  BY TypeInit, TypeStep, AgesInit, AgesStep, PromiseInit, PromiseStep, <1>1, <1>2, PTL DEF Spec

-----------------------------------------------------------------------------
(* One thread: the three buffers come from one heap                        *)

\* The buffers of a layer came from heaps its set of three was answered, and so
\* will the one that is being allocated.
HeapsFollow ==
    /\ \A l \in Layer : /\ "gfx" \in served[l].heaps => TRUE \in served[l].picks
                        /\ "system" \in served[l].heaps => FALSE \in served[l].picks
    /\ \A t \in Thread : pc[t] = "alloc" /\ ~req[t].cpu => gfx[t] \in served[req[t].layer].picks

LEMMA HeapsInit == Init => HeapsFollow
<1> SUFFICES ASSUME Init PROVE HeapsFollow
  OBVIOUS
<1>1. \A l \in Layer : served[l].heaps = {}
  BY DEF Init, Unserved
<1>2. \A t \in Thread : pc[t] # "alloc"
  BY DEF Init
<1> QED
  BY <1>1, <1>2 DEF HeapsFollow

\* The buffer the thread is about to take from heap-gfx is there.
LEMMA TakerFits ==
  ASSUME Single, TypeInv, PromiseInv, NEW t \in Thread, pc[t] = "alloc", gfx[t]
  PROVE  ~(free < req[t].size)
<1>1. layers \in [Layer -> Entry] /\ req \in [Thread -> Requests] /\ req[t].size \in Nat /\ free \in Nat
  BY LayerHeapAssumption DEF LayerHeapAssumption, TypeInv, TypeOK, Request, Sizes
<1>2. Promised = Waiting(layers) + req[t].size
  BY <1>1, PromisedIs, TakenByOne
<1>3. Waiting([l \in Layer |-> Absent]) <= Waiting(layers)
  BY <1>1, AbsentType, WaitingShrinks
<1>4. 0 <= Waiting(layers) /\ Waiting(layers) \in Int
  BY <1>1, <1>3, NothingWaits, WaitingType
<1> QED
  BY <1>1, <1>2, <1>4 DEF PromiseInv, PromisesAreKept

LEMMA HeapsStep ==
  ASSUME Single, LayersOfOneSize, "info" \notin Faults, "gfx" \notin Faults
  PROVE  TypeInv /\ PromiseInv /\ HeapsFollow /\ [Next]_vars => HeapsFollow'
<1> SUFFICES ASSUME TypeInv, PromiseInv, HeapsFollow, [Next]_vars PROVE HeapsFollow'
  OBVIOUS
<1> USE LayerHeapAssumption DEF LayerHeapAssumption, Goto, table, heap, local
<1>1. /\ pc \in [Thread -> PCs] /\ req \in [Thread -> Requests]
      /\ gfx \in [Thread -> BOOLEAN] /\ served \in [Layer -> History]
      /\ \A l \in Layer : served[l] \in History
      /\ \A r \in Requests : r.cpu \in BOOLEAN /\ (~r.cpu => r.layer \in Layer /\ r.layer # NoLayer)
      /\ \A t \in Thread, u \in Thread : t = u
  BY DEF TypeInv, TypeOK, PCs, Request, Single, LayersOfOneSize
<1>2. ASSUME NEW t \in Thread, NEW r \in Requests, Pick(t, r) PROVE HeapsFollow'
  <2>1. pc[t] = "idle" /\ req' = [req EXCEPT ![t] = r]
    BY <1>2 DEF Pick
  <2>2. CASE r.cpu
    <3>1. served' = served
      BY <1>2, <2>2 DEF Pick, Unnamed, NoInfo, Named
    <3> QED
      BY <1>1, <2>1, <2>2, <3>1 DEF HeapsFollow
  <2>3. CASE ~r.cpu
    <3>1. pc' = [pc EXCEPT ![t] = "expire"] /\ Joins(r.layer) /\ r.layer \in Layer
      BY <1>1, <1>2, <2>3 DEF Pick, Unnamed, NoInfo, Named
    <3>2. ASSUME NEW l \in Layer
          PROVE  /\ "gfx" \in served'[l].heaps => TRUE \in served'[l].picks
                 /\ "system" \in served'[l].heaps => FALSE \in served'[l].picks
      <4>1. \/ served'[l].heaps = {}
            \/ served'[l].heaps = served[l].heaps /\ served'[l].picks = served[l].picks
        BY <1>1, <3>1 DEF Joins
      <4> QED
        BY <4>1 DEF HeapsFollow
    <3> QED
      BY <1>1, <3>1, <3>2 DEF HeapsFollow
  <2> QED
    BY <2>2, <2>3
<1>3. ASSUME NEW t \in Thread, pc[t] \in AtTable, NEW b \in BOOLEAN, Answer(t, b), req' = req
      PROVE  HeapsFollow'
  <2>1. /\ \A l \in Layer : l # req[t].layer => served'[l] = served[l]
        /\ served'[req[t].layer].picks = served[req[t].layer].picks \union {b}
    BY <1>3, AnswerHistory
  <2>2. req[t].layer \in Layer
    BY <1>3 DEF TypeInv, Reaches
  <2>3. served'[req[t].layer].heaps = served[req[t].layer].heaps
    BY <1>1, <1>3, <2>2 DEF Answer
  <2>4. gfx'[t] = b
    BY <1>1, <1>3 DEF Answer, Decide
  <2>5. ASSUME NEW u \in Thread PROVE gfx'[u] \in served'[req'[u].layer].picks
    <3>1. u = t
      BY <1>1
    <3> QED
      BY <1>3, <2>1, <2>4, <3>1
  <2>6. \A l \in Layer : /\ served'[l].heaps = served[l].heaps
                         /\ served[l].picks \subseteq served'[l].picks
    BY <2>1, <2>3
  <2> QED
    BY <2>5, <2>6 DEF HeapsFollow
<1>4. ASSUME NEW t \in Thread, Found(t) PROVE HeapsFollow'
  <2>1. layers[req[t].layer].pick_heap_gfx \in BOOLEAN /\ pc[t] \in AtTable
    BY <1>4 DEF Found, TypeInv, TypeOK, Reaches, AtTable, Entry
  <2> QED
    BY <1>3, <1>4, <2>1 DEF Found
<1>5. ASSUME NEW t \in Thread, Insert(t) PROVE HeapsFollow'
  <2>1. Fits(t) \in BOOLEAN /\ pc[t] \in AtTable
    BY <1>5 DEF Insert, Fits, AtTable
  <2> QED
    BY <1>3, <1>5, <2>1 DEF Insert
<1>6. ASSUME NEW t \in Thread, Expire(t) \/ NotFound(t) PROVE HeapsFollow'
  BY <1>1, <1>6 DEF Expire, NotFound, HeapsFollow
<1>7. ASSUME NEW t \in Thread, NEW h \in {"gfx", "system"}, pc[t] = "alloc", Serve(t, h),
             h = IF gfx[t] THEN "gfx" ELSE "system", UNCHANGED local
      PROVE  HeapsFollow'
  <2>1. \A u \in Thread : pc'[u] # "alloc"
    BY <1>1, <1>7 DEF Serve
  <2>2. CASE req[t].cpu
    BY <1>7, <2>1, <2>2 DEF Serve, HeapsFollow
  <2>3. CASE ~req[t].cpu
    <3>1. req[t].layer \in Layer /\ req[t].layer # NoLayer
      BY <1>1, <2>3
    <3>2. gfx[t] \in served[req[t].layer].picks
      BY <1>7, <2>3 DEF HeapsFollow
    <3>3. ASSUME NEW l \in Layer
          PROVE  /\ served'[l].picks = served[l].picks
                 /\ served'[l].heaps = IF l = req[t].layer THEN served[l].heaps \union {h}
                                       ELSE served[l].heaps
      BY <1>1, <1>7, <2>3, <3>1 DEF Serve
    <3>4. h = "gfx" => TRUE \in served[req[t].layer].picks
      BY <1>1, <1>7, <3>2, Zenon
    <3>5. h = "system" => FALSE \in served[req[t].layer].picks
      BY <1>1, <1>7, <3>2, Zenon
    <3>6. ASSUME NEW l \in Layer
          PROVE  /\ "gfx" \in served'[l].heaps => TRUE \in served'[l].picks
                 /\ "system" \in served'[l].heaps => FALSE \in served'[l].picks
      <4>1. /\ "gfx" \in served[l].heaps => TRUE \in served[l].picks
            /\ "system" \in served[l].heaps => FALSE \in served[l].picks
        BY DEF HeapsFollow
      <4>2. CASE l = req[t].layer
        <5>1. served'[l].picks = served[l].picks /\ served'[l].heaps = served[l].heaps \union {h}
          BY <3>3, <4>2
        <5>2. "gfx" \in served'[l].heaps => TRUE \in served'[l].picks
          BY <3>4, <4>1, <4>2, <5>1
        <5>3. "system" \in served'[l].heaps => FALSE \in served'[l].picks
          BY <3>5, <4>1, <4>2, <5>1
        <5> QED
          BY <5>2, <5>3
      <4>3. CASE l # req[t].layer
        <5>1. served'[l].picks = served[l].picks /\ served'[l].heaps = served[l].heaps
          BY <3>3, <4>3
        <5> QED
          BY <4>1, <5>1, Zenon
      <4> QED
        BY <4>2, <4>3
    <3> QED
      BY <2>1, <3>6 DEF HeapsFollow
  <2> QED
    BY <2>2, <2>3
<1>8. ASSUME NEW t \in Thread, AllocGfx(t) PROVE HeapsFollow'
  BY <1>7, <1>8 DEF AllocGfx
<1>9. ASSUME NEW t \in Thread, AllocSystem(t) PROVE HeapsFollow'
  <2>1. ~gfx[t]
    BY <1>9, TakerFits DEF AllocSystem
  <2> QED
    BY <1>7, <1>9, <2>1 DEF AllocSystem
<1>10. ASSUME NEW t \in Thread, AllocFails(t) PROVE HeapsFollow'
  BY <1>1, <1>10 DEF AllocFails, HeapsFollow
<1>11. CASE Restart
  BY <1>11 DEF Restart, HeapsFollow
<1>12. CASE BufferFreed \/ OthersAlloc \/ OthersFree \/ Tick \/ UNCHANGED vars
  BY <1>12 DEF BufferFreed, OthersAlloc, OthersFree, Tick, vars, HeapsFollow
<1> QED
  BY <1>2, <1>4, <1>5, <1>6, <1>8, <1>9, <1>10, <1>11, <1>12 DEF Next, Serves

\* What aml_gralloc_layer_info is there for: the three buffers of a layer come
\* from one heap, also when the system heap fails, as long as one thread serves,
\* neither a restart nor a silence cuts the layer in the middle of a set, heap-gfx
\* gives what it has and nobody else takes from it.
THEOREM OneHeap ==
  ASSUME Single, LayersOfOneSize, ~OtherUsers,
         "info" \notin Faults, "gfx" \notin Faults
  PROVE  Spec => []ThreeFromOneHeap
<1>1. TypeInv /\ Turns /\ HeapsFollow => ThreeFromOneHeap
  <2> SUFFICES ASSUME TypeInv, Turns, HeapsFollow, NEW l \in Layer, ~served[l].cut
               PROVE  Cardinality(served[l].heaps) <= 1
    BY DEF ThreeFromOneHeap
  <2>1. PICK b \in BOOLEAN : served[l].picks \subseteq {b}
    BY DEF Turns, TurnOf
  <2>2. served[l].heaps \subseteq {"gfx", "system"}
    BY DEF TypeInv, TypeOK, History
  <2>3. served[l].heaps \subseteq {IF b THEN "gfx" ELSE "system"}
    BY <2>1, <2>2 DEF HeapsFollow
  <2> DEFINE h == IF b THEN "gfx" ELSE "system"
  <2> HIDE DEF h
  <2>4. IsFiniteSet({h}) /\ Cardinality({h}) = 1
    BY FS_Singleton
  <2> QED
    BY <2>3, <2>4, FS_Subset DEF h
<1>2. /\ Single /\ LayersOfOneSize /\ ~OtherUsers
      /\ "info" \notin Faults /\ "gfx" \notin Faults
  OBVIOUS
<1> QED
  BY TypeInit, TypeStep, AgesInit, AgesStep, TurnsInit, TurnsStep, PromiseInit, PromiseStep,
     HeapsInit, HeapsStep, <1>1, <1>2, PTL DEF Spec

=============================================================================
