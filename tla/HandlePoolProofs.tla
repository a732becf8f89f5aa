-------------------------- MODULE HandlePoolProofs --------------------------
(***************************************************************************)
(* Proofs about HandlePool for any threads, instances and addresses, and   *)
(* whether or not handles are freed through other instances.               *)
(*                                                                         *)
(* The argument is ownership: a handle belongs to a client or to the one   *)
(* call that makes or unmakes it, so no other call changes it, and what    *)
(* the handle has at each point of that call is known.                     *)
(***************************************************************************)
EXTENDS HandlePool, TLAPS

-----------------------------------------------------------------------------
(* The inductive invariant                                                 *)

\* Where a thread owns the handle it works on.
Own == {"dup", "attr", "add", "remove", "unmap", "close", "delete"}

Ownership ==
    /\ \A t \in Thread : pc[t] \in Own => hdl[t] \in live /\ hdl[t] \notin held
    /\ \A t, u \in Thread :
          pc[t] \in Own /\ pc[u] \in Own /\ hdl[t] = hdl[u] => t = u
    /\ \A a \in live : a \in held \/ At(a, Own)
    /\ held \subseteq live

Bare(a) == a \notin attr /\ a \notin base

\* What a handle has at each point of the call that owns it.
Stages ==
    \A t \in Thread :
        LET a == hdl[t]
        IN  /\ pc[t] \in {"dup", "attr", "close", "delete"} => Bare(a)
            /\ pc[t] \in {"attr", "add", "remove", "unmap"} => Cast(a)
            /\ pc[t] \in {"add", "remove", "unmap"} => a \in attr
            /\ pc[t] = "add" => a \notin base
            /\ pc[t] \in {"dup", "attr", "add"} => by[a] = inst[t]
            /\ pc[t] \in Own \ {"delete"} => open[a] = numFds[a]
            /\ pc[t] = "delete" => open[a] = 0
            /\ pc[t] = "remove" =>
                  IF by[a] = inst[t] THEN a \in pool[inst[t]] ELSE a \in orphans[by[a]]

HeldWhole ==
    \A a \in held :
        /\ Cast(a) /\ a \in attr /\ open[a] = numFds[a]
        /\ a \in pool[by[a]] /\ a \notin orphans[by[a]]

FreeBare == \A a \in Address \ live : Bare(a) /\ open[a] = 0

PoolOwned ==
    \A i \in Instance : \A a \in pool[i] \ orphans[i] :
        by[a] = i /\ (a \in held \/ At(a, {"remove"}))

IInv == TypeOK /\ Ownership /\ Stages /\ HeldWhole /\ FreeBare /\ PoolOwned

LEMMA InitIInv == Init => IInv
<1> SUFFICES ASSUME Init PROVE IInv
  OBVIOUS
<1> USE DEF Init
<1>1. TypeOK
  BY DEF TypeOK, Label, PRIVATE_HANDLE_NUM_FDS
<1>2. Ownership /\ Stages
  BY DEF Ownership, Stages, Own
<1>3. HeldWhole /\ FreeBare /\ PoolOwned
  BY DEF HeldWhole, FreeBare, PoolOwned, Bare
<1> QED
  BY <1>1, <1>2, <1>3 DEF IInv

-----------------------------------------------------------------------------
(* One lemma per action                                                    *)

\* The address was free, so nothing else speaks of it.
LEMMA ImportBufferStep ==
  ASSUME NEW t \in Thread, NEW i \in Instance, NEW a \in Address, IInv, ImportBuffer(t, i, a)
  PROVE  IInv'
<1> USE DEF IInv, ImportBuffer, Goto, mapped, dump
<1>1. TypeOK'
  BY DEF TypeOK, Label, PRIVATE_HANDLE_NUM_FDS
<1>2. Ownership'
  BY DEF TypeOK, Ownership, FreeBare, At, Own, Cast
<1>3. Stages'
  BY DEF TypeOK, Ownership, Stages, FreeBare, Own, Bare, Cast
<1>4. HeldWhole'
  BY DEF HeldWhole, FreeBare, Cast, PRIVATE_HANDLE_NUM_FDS
<1>5. FreeBare'
  BY DEF FreeBare, Bare
<1>6. PoolOwned'
  BY DEF Stages, HeldWhole, FreeBare, PoolOwned, At, Bare
<1> QED
  BY <1>1, <1>2, <1>3, <1>4, <1>5, <1>6

\* The handle passes from its client to this call.
LEMMA FreeBufferStep ==
  ASSUME NEW t \in Thread, NEW i \in Instance, NEW a \in Address, IInv, FreeBuffer(t, i, a)
  PROVE  IInv'
<1> USE DEF IInv, FreeBuffer, Goto, memory, mapped, dump, Cast
<1>1. TypeOK'
  BY DEF TypeOK, Label
<1>2. Ownership'
  BY DEF TypeOK, Ownership, At, Own
<1>3. Stages'
  BY DEF TypeOK, Stages, HeldWhole, Bare
<1>4. HeldWhole'
  BY DEF HeldWhole
<1>5. FreeBare'
  BY DEF FreeBare, Bare
<1>6. PoolOwned'
  BY DEF TypeOK, PoolOwned, At
<1> QED
  BY <1>1, <1>2, <1>3, <1>4, <1>5, <1>6

LEMMA DupStep ==
  ASSUME NEW t \in Thread, IInv, Dup(t)
  PROVE  IInv'
<1> USE DEF IInv, Dup, mapped, call, dump, history, PRIVATE_HANDLE_NUM_FDS
<1>1. TypeOK'
  BY DEF TypeOK, Stages, Own
<1>2. Ownership'
  BY DEF Ownership, At
<1>3. Stages'
  BY DEF TypeOK, Ownership, Stages, Own, Bare, Cast
<1>4. HeldWhole'
  BY DEF HeldWhole, Cast
<1>5. FreeBare'
  BY DEF Ownership, FreeBare, Own, Bare
<1>6. PoolOwned'
  BY DEF PoolOwned, At
<1> QED
  BY <1>1, <1>2, <1>3, <1>4, <1>5, <1>6

LEMMA DupFailsStep ==
  ASSUME NEW t \in Thread, IInv, DupFails(t)
  PROVE  IInv'
  BY DEF IInv, DupFails, Goto, memory, mapped, call, dump, history, PRIVATE_HANDLE_NUM_FDS,
      TypeOK, Ownership, Stages, HeldWhole, FreeBare, PoolOwned, At, Own, Bare, Label, Cast

LEMMA SetTypeStep ==
  ASSUME NEW t \in Thread, IInv, SetType(t)
  PROVE  IInv'
  BY DEF IInv, SetType, Goto, mapped, call, dump, history, PRIVATE_HANDLE_NUM_FDS, TypeOK,
      Ownership, Stages, HeldWhole, FreeBare, PoolOwned, At, Own, Bare, Label, Cast

LEMMA MapAttrStep ==
  ASSUME NEW t \in Thread, IInv, MapAttr(t)
  PROVE  IInv'
  BY DEF IInv, MapAttr, Goto, memory, call, dump, history, TypeOK, Ownership, Stages,
      HeldWhole, FreeBare, PoolOwned, At, Own, Bare, Label, Cast

LEMMA MapAttrFailsStep ==
  ASSUME NEW t \in Thread, IInv, MapAttrFails(t)
  PROVE  IInv'
  BY DEF IInv, MapAttrFails, Goto, memory, mapped, call, dump, history, TypeOK, Ownership,
      Stages, HeldWhole, FreeBare, PoolOwned, At, Own, Bare, Label, Cast

\* The handle passes to its client; no orphan of its address is left in the pool.
LEMMA AddStep ==
  ASSUME NEW t \in Thread, IInv, Add(t)
  PROVE  IInv'
<1> USE DEF IInv, Add, Goto, memory, mapped, call, dump
<1>1. TypeOK'
  BY DEF TypeOK, Label
<1>2. Ownership'
  BY DEF TypeOK, Ownership, At, Own
<1>3. Stages'
  BY DEF Ownership, Stages, Own, Bare, Cast
<1>4. HeldWhole'
  BY DEF TypeOK, Stages, HeldWhole, Own, Cast
<1>5. FreeBare'
  BY DEF FreeBare, Bare
<1>6. PoolOwned'
  BY DEF Stages, PoolOwned, At
<1> QED
  BY <1>1, <1>2, <1>3, <1>4, <1>5, <1>6

\* Another instance's pool keeps the handle only as an orphan.
LEMMA RemoveStep ==
  ASSUME NEW t \in Thread, IInv, Remove(t)
  PROVE  IInv'
<1> USE DEF IInv, Remove, Goto, memory, mapped, call, dump
<1>1. TypeOK'
  BY DEF TypeOK, Label
<1>2. Ownership'
  BY DEF Ownership, At, Own
<1>3. Stages'
  BY DEF TypeOK, Ownership, Stages, Own, Bare, Cast
<1>4. HeldWhole'
  BY DEF Ownership, HeldWhole, Own, Cast
<1>5. FreeBare'
  BY DEF FreeBare, Bare
<1>6. PoolOwned'
  BY DEF TypeOK, Stages, PoolOwned, At
<1> QED
  BY <1>1, <1>2, <1>3, <1>4, <1>5, <1>6

LEMMA UnmapStep ==
  ASSUME NEW t \in Thread, IInv, Unmap(t)
  PROVE  IInv'
<1> USE DEF IInv, Unmap, Goto, memory, call, dump, history
<1>1. TypeOK'
  BY DEF TypeOK, Label
<1>2. Ownership'
  BY DEF Ownership, At, Own
<1>3. Stages'
  BY DEF TypeOK, Ownership, Stages, Own, Bare, Cast
<1>4. HeldWhole'
  BY DEF Ownership, HeldWhole, Own, Cast
<1>5. FreeBare'
  BY DEF FreeBare, Bare
<1>6. PoolOwned'
  BY DEF PoolOwned, At
<1> QED
  BY <1>1, <1>2, <1>3, <1>4, <1>5, <1>6

\* The handle has as many descriptors open as it counts.
LEMMA CloseStep ==
  ASSUME NEW t \in Thread, IInv, Close(t)
  PROVE  IInv'
<1> USE DEF IInv, Close, Goto, memory, mapped, call, dump, history
<1>1. TypeOK'
  BY DEF TypeOK, Stages, Own, Label, PRIVATE_HANDLE_NUM_FDS
<1>2. Ownership'
  BY DEF Ownership, At, Own
<1>3. Stages'
  BY DEF TypeOK, Ownership, Stages, Own, Bare, Cast
<1>4. HeldWhole'
  BY DEF Stages, HeldWhole, Bare, Cast
<1>5. FreeBare'
  BY DEF Stages, FreeBare, Own, Bare
<1>6. PoolOwned'
  BY DEF PoolOwned, At
<1> QED
  BY <1>1, <1>2, <1>3, <1>4, <1>5, <1>6

\* What is freed has no descriptor and no mapping left.
LEMMA DeleteStep ==
  ASSUME NEW t \in Thread, IInv, Delete(t)
  PROVE  IInv'
<1> USE DEF IInv, Delete, Goto, mapped, call, dump, history
<1>1. TypeOK'
  BY DEF TypeOK, Label
<1>2. Ownership'
  BY DEF TypeOK, Ownership, At, Own
<1>3. Stages'
  BY DEF Stages, Own, Bare, Cast
<1>4. HeldWhole'
  BY DEF HeldWhole, Cast
<1>5. FreeBare'
  BY DEF Stages, FreeBare, Bare
<1>6. PoolOwned'
  BY DEF PoolOwned, At
<1> QED
  BY <1>1, <1>2, <1>3, <1>4, <1>5, <1>6

LEMMA MapBaseStep ==
  ASSUME NEW t \in Thread, NEW a \in Address, IInv, MapBase(t, a)
  PROVE  IInv'
  BY DEF IInv, MapBase, memory, call, dump, history, TypeOK, Ownership, Stages, HeldWhole,
      FreeBare, PoolOwned, At, Own, Bare, Cast

LEMMA VisitStep ==
  ASSUME NEW t \in Thread, NEW a \in Address, IInv, Visit(t, a)
  PROVE  IInv'
  BY DEF IInv, Visit, memory, mapped, call, dump, history, Cast, TypeOK, Ownership, Stages,
      HeldWhole, FreeBare, PoolOwned, At, Bare

LEMMA DumpBuffersStep ==
  ASSUME NEW t \in Thread, NEW i \in Instance, IInv, DumpBuffers(t, i)
  PROVE  IInv'
  BY DEF IInv, DumpBuffers, Goto, memory, mapped, dump, history, TypeOK, Ownership, Stages,
      HeldWhole, FreeBare, PoolOwned, At, Own, Bare, Label, Cast

LEMMA DumpEndStep ==
  ASSUME NEW t \in Thread, IInv, DumpEnd(t)
  PROVE  IInv'
  BY DEF IInv, DumpEnd, Goto, memory, mapped, call, dump, history, TypeOK, Ownership,
      Stages, HeldWhole, FreeBare, PoolOwned, At, Own, Bare, Label, Cast

LEMMA StutterStep ==
  ASSUME IInv, UNCHANGED vars
  PROVE  IInv'
BY DEF IInv, vars, memory, mapped, call, dump, history, TypeOK, Ownership, Stages, HeldWhole,
       FreeBare, PoolOwned, At, Bare, Cast

LEMMA NextIInv == IInv /\ [Next]_vars => IInv'
<1> SUFFICES ASSUME IInv, [Next]_vars PROVE IInv'
  OBVIOUS
<1>1. CASE UNCHANGED vars
  BY <1>1, StutterStep
<1>2. ASSUME NEW t \in Thread, Calls(t) PROVE IInv'
  BY <1>2, ImportBufferStep, FreeBufferStep, DupStep, DupFailsStep, SetTypeStep,
     MapAttrStep, MapAttrFailsStep, AddStep, RemoveStep, UnmapStep, CloseStep, DeleteStep,
     MapBaseStep, VisitStep, DumpBuffersStep, DumpEndStep DEF Calls
<1> QED
  BY <1>1, <1>2 DEF Next

LEMMA IInvAlways == Spec => []IInv
  BY InitIInv, NextIInv, PTL DEF Spec

-----------------------------------------------------------------------------
(* What follows from it                                                    *)

\* Every reachable state is well typed; no handle ever counts more descriptors
\* than it has fields, none is closed twice.
THEOREM TypeCorrect == Spec => []TypeOK
<1>1. IInv => TypeOK
  BY DEF IInv
<1> QED
  BY <1>1, IInvAlways, PTL

\* make_imported_handle, import_buffer and free_buffer, wherever they fail and
\* however they interleave, lose no memory, descriptor or mapping.
THEOREM NothingIsLost == Spec => []NothingLeaks
<1>1. IInv => NothingLeaks
  <2> SUFFICES ASSUME IInv, NEW a \in Address
      PROVE  /\ a \in live <=> a \in held \/ At(a, Own)
             /\ open[a] = IF a \in live /\ ~At(a, {"delete"}) THEN numFds[a] ELSE 0
             /\ a \in attr <=> a \in held \/ At(a, {"add", "remove", "unmap"})
             /\ a \in base => a \in held \/ At(a, {"remove", "unmap"})
    BY DEF NothingLeaks, Own
  <2> USE DEF IInv
  <2>1. a \in live <=> a \in held \/ At(a, Own)
    BY DEF Ownership, At
  <2>2. a \notin live => Bare(a) /\ open[a] = 0
    BY DEF FreeBare
  <2>3. open[a] = IF a \in live /\ ~At(a, {"delete"}) THEN numFds[a] ELSE 0
    BY <2>1, <2>2 DEF Stages, HeldWhole, Ownership, At, Own
  <2>4. a \in attr <=> a \in held \/ At(a, {"add", "remove", "unmap"})
    BY <2>1, <2>2 DEF Stages, HeldWhole, Bare, At, Own
  <2>5. a \in base => a \in held \/ At(a, {"remove", "unmap"})
    BY <2>1, <2>2 DEF Stages, Bare, At, Own
  <2> QED
    BY <2>1, <2>3, <2>4, <2>5
<1> QED
  BY <1>1, IInvAlways, PTL

LEMMA PoolFromIInv == IInv => PoolMatchesHeld
<1> SUFFICES ASSUME IInv, NEW i \in Instance, NEW a \in pool[i] \ orphans[i]
    PROVE  a \in live /\ Cast(a) /\ a \in attr
  BY DEF IInv, PoolMatchesHeld, HeldWhole, PoolOwned
<1>1. CASE a \in held
  BY <1>1 DEF IInv, Ownership, HeldWhole
<1>2. CASE At(a, {"remove"})
  BY <1>2 DEF IInv, Ownership, Stages, At, Own
<1> QED
  BY <1>1, <1>2 DEF IInv, PoolOwned

\* The pool of an instance is the handles it imported that clients own, each one
\* whole, but for those freed through another instance.
THEOREM PoolIsRight == Spec => []PoolMatchesHeld
  BY PoolFromIInv, IInvAlways, PTL

\* add finds its handle in the pool, and remove misses it, only after a free
\* through another instance, as the warnings of import_buffer and free_buffer say.
THEOREM WarningsTellMixing == Spec => WarningsAreRight
<1> DEFINE Step == \A t \in Thread :
       LET i == inst[t]
           a == hdl[t]
       IN  /\ pc[t] = "add" /\ pc'[t] = "idle" /\ a \in pool[i] => a \in orphans[i]
           /\ pc[t] = "remove" /\ pc'[t] = "unmap" /\ a \notin pool[i] => by[a] # i
<1>1. IInv => Step
  <2> SUFFICES ASSUME IInv, NEW t \in Thread
      PROVE  /\ pc[t] = "add" => hdl[t] \notin pool[inst[t]] \ orphans[inst[t]]
             /\ pc[t] = "remove" /\ by[hdl[t]] = inst[t] => hdl[t] \in pool[inst[t]]
    BY DEF IInv, TypeOK
  <2>1. pc[t] = "add" => hdl[t] \notin held /\ ~At(hdl[t], {"remove"})
    BY DEF IInv, Ownership, At, Own
  <2>2. inst[t] \in Instance
    BY DEF IInv, TypeOK
  <2> QED
    BY <2>1, <2>2 DEF IInv, PoolOwned, Stages
<1>2. IInv => [Step]_vars
  BY <1>1
<1>3. Spec => [][Step]_vars
  BY <1>2, IInvAlways, PTL
<1> QED
  BY <1>3 DEF WarningsAreRight

-----------------------------------------------------------------------------
(* Dumps                                                                   *)

\* Nobody else changes the pool while it is dumped, and what a dump has yet to
\* visit or has visited is that pool.
DumpFrozen ==
    \A t \in Thread : pc[t] = "dump" =>
        /\ todo[t] \intersect dumped[t] = {}
        /\ pool[inst[t]] \ orphans[inst[t]] \subseteq todo[t] \union dumped[t]
        /\ todo[t] \union dumped[t] \subseteq pool[inst[t]]

LEMMA DumpStep == IInv /\ DumpFrozen /\ [Next]_vars => DumpFrozen'
<1> SUFFICES ASSUME IInv, DumpFrozen, [Next]_vars PROVE DumpFrozen'
  OBVIOUS
<1> USE DEF DumpFrozen, IInv, TypeOK, call, dump, history
<1>1. CASE UNCHANGED vars
  BY <1>1 DEF vars
<1>2. ASSUME NEW t \in Thread, NEW i \in Instance, NEW a \in Address,
             ImportBuffer(t, i, a) \/ FreeBuffer(t, i, a)
      PROVE  DumpFrozen'
  BY <1>2 DEF ImportBuffer, FreeBuffer, Goto
<1>3. ASSUME NEW t \in Thread,
             Dup(t) \/ DupFails(t) \/ SetType(t) \/ MapAttr(t) \/ MapAttrFails(t)
      PROVE  DumpFrozen'
  BY <1>3 DEF Dup, DupFails, SetType, MapAttr, MapAttrFails, Goto
<1>4. ASSUME NEW t \in Thread, Add(t) \/ Remove(t) PROVE DumpFrozen'
  BY <1>4 DEF Add, Remove, Goto, Locked
<1>5. ASSUME NEW t \in Thread, Unmap(t) \/ Close(t) \/ Delete(t) PROVE DumpFrozen'
  BY <1>5 DEF Unmap, Close, Delete, Goto
<1>6. ASSUME NEW t \in Thread, NEW a \in Address, MapBase(t, a) PROVE DumpFrozen'
  BY <1>6 DEF MapBase
<1>7. ASSUME NEW t \in Thread, NEW a \in Address, Visit(t, a) PROVE DumpFrozen'
  <2>1. a \in pool[inst[t]] \ orphans[inst[t]] => a \in live /\ Cast(a)
    BY PoolFromIInv DEF PoolMatchesHeld
  <2>2. DumpFrozen /\ UNCHANGED <<pool, pc, inst, orphans>>
    BY <1>7 DEF Visit
  <2>3. ASSUME NEW u \in Thread, u # t, pc[u] = "dump"
        PROVE  todo'[u] = todo[u] /\ dumped'[u] = dumped[u]
    BY <1>7, <2>3 DEF Visit
  <2>4. /\ todo'[t] = todo[t] \ {a} /\ a \in todo[t]
        /\ dumped'[t] \in {dumped[t], dumped[t] \union {a}}
        /\ a \in pool[inst[t]] \ orphans[inst[t]] => a \in dumped'[t]
    BY <1>7, <2>1 DEF Visit
  <2> QED
    BY <2>2, <2>3, <2>4
<1>8. ASSUME NEW t \in Thread, NEW i \in Instance, DumpBuffers(t, i) PROVE DumpFrozen'
  BY <1>8 DEF DumpBuffers, Goto
<1>9. ASSUME NEW t \in Thread, DumpEnd(t) PROVE DumpFrozen'
  BY <1>9 DEF DumpEnd, Goto
<1> QED
  BY <1>1, <1>2, <1>3, <1>4, <1>5, <1>6, <1>7, <1>8, <1>9 DEF Next, Calls

\* A dump covers what its instance has registered, each handle once, and a handle
\* in it keeps its attributes mapped until the dump is over unless it is freed
\* through another instance (dump_buffers under the mutex of for_each).
THEOREM DumpsAreComplete == Spec => []DumpIsComplete
<1>1. Init => DumpFrozen
  BY DEF Init, DumpFrozen
<1>2. Spec => []DumpFrozen
  BY <1>1, DumpStep, IInvAlways, PTL DEF Spec
<1>3. IInv /\ DumpFrozen => DumpIsComplete
  <2> SUFFICES ASSUME IInv, DumpFrozen, NEW t \in Thread, pc[t] = "dump"
      PROVE  (todo[t] \union dumped[t]) \ orphans[inst[t]] \subseteq attr
    BY DEF DumpFrozen, DumpIsComplete
  <2>1. inst[t] \in Instance /\ todo[t] \union dumped[t] \subseteq pool[inst[t]]
    BY DEF IInv, TypeOK, DumpFrozen
  <2> QED
    BY <2>1, PoolFromIInv DEF PoolMatchesHeld
<1> QED
  BY <1>2, <1>3, IInvAlways, PTL
=============================================================================
