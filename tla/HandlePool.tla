----------------------------- MODULE HandlePool -----------------------------
(***************************************************************************)
(* Importing, freeing and dumping handles in one process: import_buffer,   *)
(* make_imported_handle, free_buffer and dump_buffers of the mapper, over  *)
(* the pool of registered handles.                                         *)
(*                                                                         *)
(* A process may load the mapper more than once.  Each instance has a pool *)
(* of its own, and a client may free through another instance than the one *)
(* it imported with.  Memory that was freed is used for later handles.     *)
(***************************************************************************)
EXTENDS Integers

CONSTANTS
    Thread,     \* threads that call the mapper
    Instance,   \* mapper instances in the process
    Address,    \* where a handle may be allocated
    Foreign     \* whether handles are also freed through other instances

ASSUME HandlePoolAssumption == Foreign \in BOOLEAN

PRIVATE_HANDLE_NUM_FDS == 3

VARIABLES
    live,       \* addresses that are allocated
    numFds,     \* of the handle at an address
    imported,   \* addresses where the type says imported
    attr, base, \* handles whose attributes, whose pixels are mapped
    open,       \* descriptors open[a] that were duplicated for a handle and not closed
    pool,       \* pool[i]: bufPool of an instance
    pc,         \* where each thread is
    inst,       \* the instance it calls
    hdl,        \* the handle it imports or frees
    todo,       \* handles its dump has yet to visit
    dumped,     \* handles in the result of its dump
    held,       \* history: handles that clients own
    by,         \* history: the instance that imported them
    orphans     \* history: handles in pool[i] that were freed through another instance

memory  == <<live, numFds, imported>>
mapped  == <<attr, base>>
call    == <<inst, hdl>>
dump    == <<todo, dumped>>
history == <<held, by, orphans>>
vars    == <<memory, mapped, open, pool, pc, call, dump, history>>

Goto(t, l) == pc' = [pc EXCEPT ![t] = l]

\* for_each holds the pool's mutex throughout; add and remove are atomic in it.
Locked(i) == \E t \in Thread : pc[t] = "dump" /\ inst[t] = i

\* What handle_cast<imported_handle> tests.
Cast(a) == numFds[a] = PRIVATE_HANDLE_NUM_FDS /\ a \in imported

Init ==
    /\ live = {} /\ imported = {} /\ attr = {} /\ base = {} /\ held = {}
    /\ numFds = [a \in Address |-> 0]
    /\ open = [a \in Address |-> 0]
    /\ pool = [i \in Instance |-> {}]
    /\ orphans = [i \in Instance |-> {}]
    /\ by \in [Address -> Instance]
    /\ pc = [t \in Thread |-> "idle"]
    /\ inst \in [Thread -> Instance]
    /\ hdl \in [Thread -> Address]
    /\ todo = [t \in Thread |-> {}]
    /\ dumped = [t \in Thread |-> {}]

-----------------------------------------------------------------------------
(* import_buffer                                                           *)

\* native_handle_create, and the counts before the first dup.
ImportBuffer(t, i, a) ==
    /\ pc[t] = "idle"
    /\ a \notin live
    /\ live' = live \union {a}
    /\ imported' = imported \ {a}
    /\ numFds' = [numFds EXCEPT ![a] = 0]
    /\ by' = [by EXCEPT ![a] = i]
    /\ inst' = [inst EXCEPT ![t] = i]
    /\ hdl' = [hdl EXCEPT ![t] = a]
    /\ Goto(t, "dup")
    /\ UNCHANGED <<mapped, open, pool, dump, held, orphans>>

Dup(t) ==
    LET a == hdl[t]
    IN  /\ pc[t] = "dup"
        /\ numFds[a] < PRIVATE_HANDLE_NUM_FDS
        /\ open' = [open EXCEPT ![a] = @ + 1]
        /\ numFds' = [numFds EXCEPT ![a] = @ + 1]
        /\ UNCHANGED <<live, imported, mapped, pool, pc, call, dump, history>>

\* Mutant: the handle is deleted and its descriptors stay open.
DupFailsKeepsOpen(t) ==
    /\ pc[t] = "dup"
    /\ numFds[hdl[t]] < PRIVATE_HANDLE_NUM_FDS
    /\ Goto(t, "delete")
    /\ UNCHANGED <<memory, mapped, open, pool, call, dump, history>>

\* The handle goes out of scope, and its deleter closes what numFds counts.
DupFails(t) ==
    /\ pc[t] = "dup"
    /\ numFds[hdl[t]] < PRIVATE_HANDLE_NUM_FDS
    /\ Goto(t, "close")
    /\ UNCHANGED <<memory, mapped, open, pool, call, dump, history>>

\* The integers are copied, then the type is overwritten.
SetType(t) ==
    /\ pc[t] = "dup"
    /\ numFds[hdl[t]] = PRIVATE_HANDLE_NUM_FDS
    /\ imported' = imported \union {hdl[t]}
    /\ Goto(t, "attr")
    /\ UNCHANGED <<live, numFds, mapped, open, pool, call, dump, history>>

MapAttr(t) ==
    /\ pc[t] = "attr"
    /\ attr' = attr \union {hdl[t]}
    /\ Goto(t, "add")
    /\ UNCHANGED <<memory, base, open, pool, call, dump, history>>

\* Mutant: the result is compared with null instead of MAP_FAILED.
MapAttrFailsUnseen(t) ==
    /\ pc[t] = "attr"
    /\ Goto(t, "add")
    /\ UNCHANGED <<memory, mapped, open, pool, call, dump, history>>

MapAttrFails(t) ==
    /\ pc[t] = "attr"
    /\ Goto(t, "close")
    /\ UNCHANGED <<memory, mapped, open, pool, call, dump, history>>

\* A handle that is in the pool already is only logged.
Add(t) ==
    LET i == inst[t]
        a == hdl[t]
    IN  /\ pc[t] = "add"
        /\ ~Locked(i)
        /\ pool' = [pool EXCEPT ![i] = @ \union {a}]
        /\ held' = held \union {a}
        /\ orphans' = [orphans EXCEPT ![i] = @ \ {a}]
        /\ Goto(t, "idle")
        /\ UNCHANGED <<memory, mapped, open, call, dump, by>>

-----------------------------------------------------------------------------
(* free_buffer, called once for a handle and not during a lock of it       *)

FreeBuffer(t, i, a) ==
    /\ pc[t] = "idle"
    /\ a \in held /\ Cast(a)
    /\ Foreign \/ i = by[a]
    /\ held' = held \ {a}
    /\ orphans' = IF i = by[a] THEN orphans
                  ELSE [orphans EXCEPT ![by[a]] = @ \union {a}]
    /\ inst' = [inst EXCEPT ![t] = i]
    /\ hdl' = [hdl EXCEPT ![t] = a]
    /\ Goto(t, "remove")
    /\ UNCHANGED <<memory, mapped, open, pool, dump, by>>

\* Mutant: the handle stays in the pool.
RemoveNothing(t) ==
    /\ pc[t] = "remove"
    /\ ~Locked(inst[t])
    /\ Goto(t, "unmap")
    /\ UNCHANGED <<memory, mapped, open, pool, call, dump, history>>

\* Mutant: the pool is changed without its mutex.
RemoveUnlocked(t) ==
    LET i == inst[t]
        a == hdl[t]
    IN  /\ pc[t] = "remove"
        /\ pool' = [pool EXCEPT ![i] = @ \ {a}]
        /\ orphans' = [orphans EXCEPT ![i] = @ \ {a}]
        /\ Goto(t, "unmap")
        /\ UNCHANGED <<memory, mapped, open, call, dump, held, by>>

\* A handle that is not in the pool is only logged.
Remove(t) ==
    LET i == inst[t]
        a == hdl[t]
    IN  /\ pc[t] = "remove"
        /\ ~Locked(i)
        /\ pool' = [pool EXCEPT ![i] = @ \ {a}]
        /\ orphans' = [orphans EXCEPT ![i] = @ \ {a}]
        /\ Goto(t, "unmap")
        /\ UNCHANGED <<memory, mapped, open, call, dump, held, by>>

\* mali_unmap_buffer and munmap; the type stays imported.
Unmap(t) ==
    /\ pc[t] = "unmap"
    /\ base' = base \ {hdl[t]}
    /\ attr' = attr \ {hdl[t]}
    /\ Goto(t, "close")
    /\ UNCHANGED <<memory, open, pool, call, dump, history>>

\* Mutant: all descriptors a whole handle has are closed.
CloseAll(t) ==
    LET a == hdl[t]
    IN  /\ pc[t] = "close"
        /\ open' = [open EXCEPT ![a] = @ - PRIVATE_HANDLE_NUM_FDS]
        /\ Goto(t, "delete")
        /\ UNCHANGED <<memory, mapped, pool, call, dump, history>>

\* native_handle_deleter, of both calls.
Close(t) ==
    LET a == hdl[t]
    IN  /\ pc[t] = "close"
        /\ open' = [open EXCEPT ![a] = @ - numFds[a]]
        /\ Goto(t, "delete")
        /\ UNCHANGED <<memory, mapped, pool, call, dump, history>>

Delete(t) ==
    /\ pc[t] = "delete"
    /\ live' = live \ {hdl[t]}
    /\ Goto(t, "idle")
    /\ UNCHANGED <<numFds, imported, mapped, open, pool, call, dump, history>>

\* The first lock of a buffer maps its pixels (CpuAccess has the rest).
MapBase(t, a) ==
    /\ pc[t] = "idle"
    /\ a \in held \ base
    /\ base' = base \union {a}
    /\ UNCHANGED <<memory, attr, open, pool, pc, call, dump, history>>

-----------------------------------------------------------------------------
(* dump_buffers                                                            *)

DumpBuffers(t, i) ==
    /\ pc[t] = "idle"
    /\ ~Locked(i)
    /\ inst' = [inst EXCEPT ![t] = i]
    /\ todo' = [todo EXCEPT ![t] = pool[i]]
    /\ dumped' = [dumped EXCEPT ![t] = {}]
    /\ Goto(t, "dump")
    /\ UNCHANGED <<memory, mapped, open, pool, hdl, history>>

\* Memory that was freed may or may not still look like a handle.
Visit(t, a) ==
    /\ pc[t] = "dump"
    /\ a \in todo[t]
    /\ todo' = [todo EXCEPT ![t] = @ \ {a}]
    /\ \/ /\ Cast(a) \/ a \notin live
          /\ dumped' = [dumped EXCEPT ![t] = @ \union {a}]
       \/ /\ ~Cast(a) \/ a \notin live
          /\ UNCHANGED dumped
    /\ UNCHANGED <<memory, mapped, open, pool, pc, call, history>>

DumpEnd(t) ==
    /\ pc[t] = "dump"
    /\ todo[t] = {}
    /\ Goto(t, "idle")
    /\ UNCHANGED <<memory, mapped, open, pool, call, dump, history>>

-----------------------------------------------------------------------------
Calls(t) ==
    \/ \E i \in Instance, a \in Address : ImportBuffer(t, i, a) \/ FreeBuffer(t, i, a)
    \/ Dup(t) \/ DupFails(t) \/ SetType(t) \/ MapAttr(t) \/ MapAttrFails(t) \/ Add(t)
    \/ Remove(t) \/ Unmap(t) \/ Close(t) \/ Delete(t)
    \/ \E a \in Address : MapBase(t, a) \/ Visit(t, a)
    \/ \E i \in Instance : DumpBuffers(t, i)
    \/ DumpEnd(t)

Next == \E t \in Thread : Calls(t)

Spec == Init /\ [][Next]_vars

-----------------------------------------------------------------------------
(* Properties                                                              *)

Label == {"idle", "dup", "attr", "add", "remove", "unmap", "close", "delete", "dump"}

TypeOK ==
    /\ live \subseteq Address /\ imported \subseteq Address
    /\ attr \subseteq Address /\ base \subseteq Address /\ held \subseteq Address
    /\ numFds \in [Address -> 0..PRIVATE_HANDLE_NUM_FDS]
    /\ open \in [Address -> 0..PRIVATE_HANDLE_NUM_FDS]
    /\ pool \in [Instance -> SUBSET Address]
    /\ orphans \in [Instance -> SUBSET Address]
    /\ by \in [Address -> Instance]
    /\ pc \in [Thread -> Label]
    /\ inst \in [Thread -> Instance]
    /\ hdl \in [Thread -> Address]
    /\ todo \in [Thread -> SUBSET Address]
    /\ dumped \in [Thread -> SUBSET Address]

At(a, labels) == \E t \in Thread : hdl[t] = a /\ pc[t] \in labels

\* However imports fail and frees interleave, memory, descriptors and mappings
\* belong to a handle that a client owns or that a call is making or unmaking:
\* nothing is lost, and no descriptor is closed twice.
NothingLeaks ==
    \A a \in Address :
        /\ a \in live <=>
              a \in held \/ At(a, {"dup", "attr", "add", "remove", "unmap", "close", "delete"})
        /\ open[a] = IF a \in live /\ ~At(a, {"delete"}) THEN numFds[a] ELSE 0
        /\ a \in attr <=> a \in held \/ At(a, {"add", "remove", "unmap"})
        /\ a \in base => a \in held \/ At(a, {"remove", "unmap"})

\* A pool holds the handles its instance imported that clients own, each whole,
\* and none whose free has passed remove, but for those freed elsewhere.
PoolMatchesHeld ==
    /\ \A a \in held : a \in pool[by[a]] /\ a \notin orphans[by[a]]
    /\ \A i \in Instance : \A a \in pool[i] \ orphans[i] :
          /\ by[a] = i /\ a \in live /\ Cast(a) /\ a \in attr
          /\ a \in held \/ At(a, {"remove"})

\* What the two warnings say: a handle is found in the pool when it is added, or
\* missing from it when it is removed, only if instances have been mixed.
WarningsAreRight ==
    [][\A t \in Thread :
          LET i == inst[t]
              a == hdl[t]
          IN  /\ pc[t] = "add" /\ pc'[t] = "idle" /\ a \in pool[i] => a \in orphans[i]
              /\ pc[t] = "remove" /\ pc'[t] = "unmap" /\ a \notin pool[i] => by[a] # i]_vars

\* A dump reports every handle its instance has registered, once, and until it
\* ends each of them can be used unless it was freed through another instance.
DumpIsComplete ==
    \A t \in Thread : pc[t] = "dump" =>
        LET i == inst[t]
        IN  /\ todo[t] \intersect dumped[t] = {}
            /\ pool[i] \ orphans[i] \subseteq todo[t] \union dumped[t]
            /\ todo[t] \union dumped[t] \subseteq pool[i]
            /\ (todo[t] \union dumped[t]) \ orphans[i] \subseteq attr
=============================================================================
