------------------------------ MODULE LockApi ------------------------------
(***************************************************************************)
(* What the mapper promises about the CPU locks of one imported buffer,    *)
(* with every call taken as one atomic step: who holds a lock, how many    *)
(* locks there are, and which mapping the holders were given.  CpuAccess   *)
(* describes how src/src/core/buffer_access.cpp and                        *)
(* src/src/idl_common/mapper/mapper_common.cpp do it and implements this.  *)
(***************************************************************************)
EXTENDS Integers

CONSTANTS
    Session,   \* lock/unlock sessions: one lock call and the unlock that ends it
    Addr,      \* addresses the kernel may return from mmap
    Null       \* nullptr

VARIABLES
    holders,   \* the sessions whose lock is counted and not yet given back
    count,     \* the number of locks the buffer says it has
    mapping,   \* the one CPU mapping of the buffer, or Null
    view       \* view[s]: the address session s was given

apiVars == <<holders, count, mapping, view>>

ApiInit ==
    /\ holders = {}
    /\ count = 0
    /\ mapping = Null
    /\ view = [s \in Session |-> Null]

\* The buffer is mapped by the first lock that needs it, and only then.
MapBuffer ==
    /\ mapping = Null
    /\ mapping' \in Addr
    /\ UNCHANGED <<holders, count, view>>

\* A session learns the address of the mapping (Null when there is none).
Learn(s) ==
    /\ s \notin holders
    /\ view' = [view EXCEPT ![s] = mapping]
    /\ UNCHANGED <<holders, count, mapping>>

Forget(s) ==
    /\ s \notin holders
    /\ view' = [view EXCEPT ![s] = Null]
    /\ UNCHANGED <<holders, count, mapping>>

Acquire(s) ==
    /\ s \notin holders
    /\ holders' = holders \union {s}
    /\ count' = count + 1
    /\ UNCHANGED <<mapping, view>>

\* A release always finds a lock to give back; the address may go with it.
Release(s) ==
    /\ s \in holders
    /\ count > 0
    /\ holders' = holders \ {s}
    /\ count' = count - 1
    /\ view' \in {view, [view EXCEPT ![s] = Null]}
    /\ UNCHANGED mapping

\* Freeing the handle ends every session, its lock count and its mapping.
Drop ==
    /\ holders' = {}
    /\ count' = 0
    /\ mapping' = Null
    /\ view' = [s \in Session |-> Null]

ApiNext ==
    \/ MapBuffer
    \/ Drop
    \/ \E s \in Session : Learn(s) \/ Forget(s) \/ Acquire(s) \/ Release(s)

ApiSpec == ApiInit /\ [][ApiNext]_apiVars
=============================================================================
