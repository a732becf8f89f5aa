------------------------------ MODULE Metadata ------------------------------
(***************************************************************************)
(* get, set and dump of the mapper on one buffer that several clients      *)
(* import, in one process or several.  No lock protects the page: a set    *)
(* stores its words, and a get loads them, one at a time.                  *)
(*                                                                         *)
(* A client is a thread that holds the raw handle and may import it.  A    *)
(* set of an Amlogic item accepts the raw handle too, and then uses any    *)
(* handle of the same buffer that the pool of the process holds, which its *)
(* owner may free at any time.                                             *)
(***************************************************************************)
EXTENDS SharedMetadata

CONSTANTS
    Client,     \* threads that use the buffer
    Process,    \* Process[c]: where a client runs
    StableC,    \* the processes that load the stable-C mapper, others the HIDL one
    Room,       \* sizes of the memory that stable-C callers pass
    Reader      \* clients that import the buffer once and only read, as a compositor does

ASSUME MetadataAssumption == Room \subseteq Nat /\ Reader \subseteq Client

Unlimited == 8192       \* the HIDL encoders size their output themselves
DumpRoom  == 512        \* max_required_size

VARIABLES
    item,       \* the item that behaviour is about
    page,       \* its words in the shared page
    handle,     \* handle[c]: state of the handle that a client imported
    pool,       \* clients whose handles are registered
    pc,         \* where each client is in its call
    op,         \* "set", "get" or "dump"
    data,       \* what it sets
    via,        \* the owner of the handle it uses
    todo,       \* what it has yet to store or to load
    got,        \* the words it loaded
    ans,        \* its answer: an error, and the bytes of a get: their form and the value in them
    holds,      \* history: values that the item may hold, one unless sets overlapped
    raced,      \* history: a set overlapped the call
    seen,       \* history: values that a OneWord item may have held during the read
    late        \* history: the handle it uses was unregistered after it was found

call    == <<op, data, via>>
work    == <<todo, got, ans>>
history == <<holds, raced, seen, late>>
vars    == <<item, page, handle, pool, pc, call, work, history>>

Put(f, c, x) == [f EXCEPT ![c] = x]

\* No word of a page was read.
Blank == [state |-> 1, word |-> [i \in DOMAIN page.word |-> 0]]

Busy(c)    == pc[c] \in {"fallback", "check", "store", "state", "load", "done"}
Setting(c) == Busy(c) /\ op[c] = "set"

NoAnswer     == [err |-> "", as |-> "", v |-> None]
Error(e)     == [err |-> e, as |-> "", v |-> None]
Bytes(as, v) == [err |-> "NONE", as |-> as, v |-> v]

Init ==
    /\ item \in Settable \union OfTheHandle
    /\ page \in InitialPages(item)
    /\ holds = {Shown(item, page)}
    /\ handle = [c \in Client |-> IF c \in Reader THEN "mapped" ELSE "none"]
    /\ pool = Reader
    /\ pc = [c \in Client |-> "idle"]
    /\ op = [c \in Client |-> "get"]
    /\ data = [c \in Client |-> None]
    /\ via = [c \in Client |-> c]
    /\ todo = [c \in Client |-> {}]
    /\ got = [c \in Client |-> Blank]
    /\ ans = [c \in Client |-> NoAnswer]
    /\ raced = [c \in Client |-> FALSE]
    /\ seen = [c \in Client |-> {}]
    /\ late = [c \in Client |-> FALSE]

-----------------------------------------------------------------------------
(* import_buffer, and free_buffer in its steps                             *)

Import(c) ==
    /\ pc[c] = "idle"
    /\ handle[c] = "none"
    /\ handle' = Put(handle, c, "mapped")
    /\ pool' = pool \union {c}
    /\ UNCHANGED <<item, page, pc, call, work, history>>

\* Mutant: the handle stays registered when its client frees it.
UnregisterNothing(c) ==
    /\ pc[c] = "idle"
    /\ handle[c] = "mapped"
    /\ pc' = Put(pc, c, "unmap")
    /\ UNCHANGED <<item, page, handle, pool, call, work, history>>

Unregister(c) ==
    /\ pc[c] = "idle"
    /\ handle[c] = "mapped"
    /\ pool' = pool \ {c}
    /\ late' = [d \in Client |-> late[d] \/ (Setting(d) /\ via[d] = c)]
    /\ pc' = Put(pc, c, "unmap")
    /\ UNCHANGED <<item, page, handle, call, work, holds, raced, seen>>

Unmap(c) ==
    /\ pc[c] = "unmap"
    /\ handle' = Put(handle, c, "unmapped")
    /\ pc' = Put(pc, c, "clear")
    /\ UNCHANGED <<item, page, pool, call, work, history>>

\* attr_base = MAP_FAILED
Clear(c) ==
    /\ pc[c] = "clear"
    /\ handle' = Put(handle, c, "cleared")
    /\ pc' = Put(pc, c, "delete")
    /\ UNCHANGED <<item, page, pool, call, work, history>>

Delete(c) ==
    /\ pc[c] = "delete"
    /\ handle' = Put(handle, c, "none")
    /\ pc' = Put(pc, c, "idle")
    /\ UNCHANGED <<item, page, pool, call, work, history>>

-----------------------------------------------------------------------------
(* The encoders                                                            *)

\* A caller of the stable-C mapper passes memory of some size; a dump brings its own.
Rooms(c, o) ==
    IF Process[c] \notin StableC THEN {Unlimited}
    ELSE IF o = "dump" THEN {DumpRoom}
    ELSE Room

\* An Amlogic item is a bare int32.  Others carry a header; a stable-C dump passes all of its 512
\* bytes on, zeros after the value, and nothing but zeros for an absent one.
Form(c, o) ==
    IF item = "AM_OMX_FLAG" THEN "raw"
    ELSE IF o = "dump" /\ Process[c] \in StableC THEN "padded"
    ELSE "headed"

\* What does not fit is left out of a dump, and a get answers with the size it needs.
Encoded(c, o, v, room) ==
    IF Size(item, v) <= room THEN Bytes(Form(c, o), v)
    ELSE IF o = "dump" THEN Error("left out")
    ELSE Error("NO_RESOURCES")

-----------------------------------------------------------------------------
(* The calls                                                               *)

\* A call of c begins: it races with the sets under way, and a set with every call under way.
Begin(c, o, v, next) ==
    /\ pc[c] = "idle"
    /\ pc' = Put(pc, c, next)
    /\ op' = Put(op, c, o)
    /\ data' = Put(data, c, v)
    /\ raced' = [d \in Client |->
                    IF d = c THEN \E u \in Client \ {c} : Setting(u)
                    ELSE raced[d] \/ (Busy(d) /\ o = "set")]
    /\ seen' = Put(seen, c, IF item \in OneWord /\ o # "set" THEN holds ELSE {})
    /\ UNCHANGED <<item, page, handle, pool, via, todo, got, holds, late>>

\* The caller takes the answer.
Return(c) ==
    /\ pc[c] = "done"
    /\ pc' = Put(pc, c, "idle")
    /\ op' = Put(op, c, "get")
    /\ via' = Put(via, c, c)
    /\ todo' = Put(todo, c, {})
    /\ got' = Put(got, c, Blank)
    /\ ans' = Put(ans, c, NoAnswer)
    /\ raced' = Put(raced, c, FALSE)
    /\ seen' = Put(seen, c, {})
    /\ late' = Put(late, c, FALSE)
    /\ UNCHANGED <<item, page, handle, pool, data, holds>>

\* get and dump of the raw handle, whose clients are served what cannot change.
ReadRaw(c, o) ==
    /\ Begin(c, o, None, "done")
    /\ IF item \in OfTheHandle
       THEN \E room \in Rooms(c, o) : ans' = Put(ans, c, Encoded(c, o, Shown(item, page), room))
       ELSE ans' = Put(ans, c, Error(IF o = "dump" THEN "not listed" ELSE "BAD_BUFFER"))

\* A dump lists standard items only.
Read(c, o) ==
    /\ handle[c] = "mapped"
    /\ IF o = "dump" /\ item = "AM_OMX_FLAG"
       THEN Begin(c, o, None, "done") /\ ans' = Put(ans, c, Error("not listed"))
       ELSE Begin(c, o, None, "state") /\ UNCHANGED ans

-----------------------------------------------------------------------------
(* get_metadata                                                            *)

Answer(c, v) ==
    /\ \E room \in Rooms(c, op[c]) : ans' = Put(ans, c, Encoded(c, op[c], v, room))
    /\ pc' = Put(pc, c, "done")

\* The state of an optional or the size of a vector; a vacant item has no words to load.
LoadState(c) ==
    /\ pc[c] = "state"
    /\ IF page.state = 0
       THEN /\ Answer(c, Default(item))
            /\ UNCHANGED todo
       ELSE /\ todo' = Put(todo, c, DOMAIN page.word)
            /\ pc' = Put(pc, c, "load")
            /\ UNCHANGED ans
    /\ UNCHANGED <<item, page, handle, pool, call, got, history>>

Load(c) ==
    /\ pc[c] = "load"
    /\ \E i \in todo[c] :
        LET read == Stored(got[c], Store(i, page.word[i]))
        IN  /\ got' = Put(got, c, read)
            /\ todo' = Put(todo, c, todo[c] \ {i})
            /\ IF todo[c] = {i} THEN Answer(c, Shown(item, read)) ELSE UNCHANGED <<pc, ans>>
    /\ UNCHANGED <<item, page, handle, pool, call, history>>

-----------------------------------------------------------------------------
(* set, and set_metadata                                                   *)

\* Bytes that do not decode fail like a value that is refused, in every front-end.
SetImported(c, v) ==
    /\ handle[c] = "mapped"
    /\ Begin(c, "set", v, "check")
    /\ UNCHANGED ans

\* Only the Amlogic items take a raw handle.
SetRaw(c, v) ==
    IF item = "AM_OMX_FLAG"
    THEN Begin(c, "set", v, "fallback") /\ UNCHANGED ans
    ELSE Begin(c, "set", None, "done") /\ ans' = Put(ans, c, Error("BAD_BUFFER"))

\* The set ends with error e: a success is what the item holds, unless another set overlapped it.
EndSet(c, e) ==
    /\ pc' = Put(pc, c, "done")
    /\ ans' = Put(ans, c, Error(e))
    /\ data' = Put(data, c, None)
    /\ holds' = IF e = "NONE" /\ ~raced[c] THEN {data[c]} ELSE holds

\* aml_get: any handle of the process with the same inode; the pool's order is arbitrary.
Fallback(c) ==
    LET same == {d \in pool : Process[d] = Process[c]}
    IN  /\ pc[c] = "fallback"
        /\ IF same = {}
           THEN EndSet(c, "BAD_BUFFER") /\ UNCHANGED via
           ELSE /\ \E d \in same : via' = Put(via, c, d)
                /\ pc' = Put(pc, c, "check")
                /\ UNCHANGED <<data, ans, holds>>
        /\ UNCHANGED <<item, page, handle, pool, op, todo, got, raced, seen, late>>

\* Why set_metadata stores nothing; "" when it stores.
Verdict(c) ==
    IF item = "AM_OMX_FLAG" /\ handle[via[c]] = "cleared" THEN "BAD_BUFFER"
    ELSE IF item = "WIDTH" THEN "BAD_VALUE"
    ELSE IF item = "PLANE_LAYOUTS" \/ data[c] = Undecodable THEN "UNSUPPORTED"
    ELSE IF item = "DATASPACE" /\ page.word = data[c].w THEN "NONE"
    ELSE IF Accepted(item, data[c]) THEN "" ELSE "UNSUPPORTED"

Check(c) ==
    /\ pc[c] = "check"
    /\ handle[via[c]] # "none"
    /\ IF Verdict(c) = ""
       THEN /\ todo' = Put(todo, c, Stores(item, data[c]))
            /\ pc' = Put(pc, c, "store")
            /\ holds' = holds \union {data[c]}
            /\ seen' = [d \in Client |-> IF seen[d] = {} THEN {} ELSE seen[d] \union {data[c]}]
            /\ UNCHANGED <<data, ans>>
       ELSE EndSet(c, Verdict(c)) /\ UNCHANGED <<todo, seen>>
    /\ UNCHANGED <<item, page, handle, pool, op, via, got, raced, late>>

\* One word reaches the page.
StoreWord(c) ==
    /\ pc[c] = "store"
    /\ handle[via[c]] = "mapped"
    /\ \E s \in todo[c] :
        /\ page' = Stored(page, s)
        /\ todo' = Put(todo, c, todo[c] \ {s})
        /\ IF todo[c] = {s} THEN EndSet(c, "NONE") ELSE UNCHANGED <<pc, data, ans, holds>>
    /\ UNCHANGED <<item, handle, pool, op, via, got, raced, seen, late>>

\* The owner of the handle was faster: the call reads a deleted handle, or writes to memory
\* that is unmapped.  What happens then is undefined; here the call ends.
UseFreed(c) ==
    /\ \/ pc[c] = "check" /\ handle[via[c]] = "none"
       \/ pc[c] = "store" /\ handle[via[c]] # "mapped"
    /\ EndSet(c, "freed")
    /\ UNCHANGED <<item, page, handle, pool, op, via, todo, got, raced, seen, late>>

-----------------------------------------------------------------------------
\* What a client may set, of each item: values that are stored, refused and undecodable.
Values ==
    CASE item \in {"DATASPACE", "BLEND_MODE", "AM_OMX_FLAG"} -> {Some(<<x>>) : x \in 0 .. 2}
      [] item = "CHROMA_SITING" ->
            {Some(<<n, x>>) : n \in {"standard", "other"}, x \in {1, COSITED_BOTH}}
      [] item = "CROP"          -> 
            {Some(<<l, l + Width>>) : l \in {0, AllocWidth - Width, AllocWidth}} \union {Some(<<0, AllocWidth>>)}
      [] item = "CTA861_3"      -> {None, Some(<<1, 1>>), Some(<<2, 2>>)}
      [] item = "SMPTE2094_40"  ->
            {None, Some(<<>>), Some(<<1>>)} \union {Some([i \in 1 .. n |-> 2]) : n \in {Capacity, Capacity + 1}}
      [] item \in OfTheHandle   -> {Some(<<Width + 1>>)}

Next ==
    \/ \E c \in Client \ Reader :
        \/ Import(c) \/ Unregister(c) \/ Unmap(c) \/ Clear(c) \/ Delete(c)
        \/ \E o \in {"get", "dump"} : ReadRaw(c, o) \/ Read(c, o)
        \/ \E v \in Values \union {Undecodable} : SetImported(c, v) \/ SetRaw(c, v)
        \/ Fallback(c) \/ Check(c) \/ StoreWord(c) \/ UseFreed(c)
    \/ \E c \in Reader : Read(c, "get")
    \/ \E c \in Client :
        \/ LoadState(c) \/ Load(c)
        \/ Return(c)

Spec == Init /\ [][Next]_vars

-----------------------------------------------------------------------------
Answered(c) == pc[c] = "done" /\ op[c] \in {"get", "dump"}

\* Although nothing locks the page, a get of a one-word item that races with sets answers with
\* a value that it held before or that one of those sets is storing: never with a default or
\* with leftovers, whichever words of the item it finds half done.
OneWordItemsAreRegisters ==
    \A c \in Client :
        Answered(c) /\ item \in OneWord /\ ans[c].err = "NONE" =>
            \E v \in seen[c] : Matches(item, ans[c].v, v)

\* A get or a dump that no set overlaps answers with the value of the latest successful set,
\* whoever set it, through whichever handle and process: a set that failed left nothing behind.
\* The bytes decode to it, but for an Amlogic item, which comes without the header that a decoder
\* wants, and for an absent item in a stable-C dump, which comes as zeros.  It answers otherwise
\* only when the caller's memory is too small, and for raw handles.
UnracedReadsRoundTrip ==
    \A c \in Client, v \in holds :
        Answered(c) /\ ~raced[c] /\ holds = {v} =>
            CASE ans[c].err = "NONE" ->
                    /\ Matches(item, ans[c].v, v)
                    /\ \/ Decoded(ans[c]) = ans[c].v
                       \/ item = "AM_OMX_FLAG"
                       \/ op[c] = "dump" /\ Process[c] \in StableC /\ ~v.some
              [] ans[c].err \in {"NO_RESOURCES", "left out"} ->
                    \E room \in Rooms(c, op[c]) : room < Size(item, v)
              [] ans[c].err \in {"BAD_BUFFER", "not listed"} -> item \in Settable

\* A crop, even one that a racing set tore, never reaches outside the allocated plane, which is
\* what a client that samples the buffer relies on.
CropsStayInside ==
    \A c \in Client :
        Answered(c) /\ item = "CROP" /\ ans[c].err = "NONE" =>
            ans[c].v.w[1] >= 0 /\ ans[c].v.w[2] <= AllocWidth

\* A set touches a freed handle only when it came with a raw handle, found the handle of another
\* client in the pool, and that client freed it between the lookup and the use: never through
\* its own handle, nor through one that was being freed when it looked.
FreedUnderASetOnly ==
    \A c \in Client : ans[c].err = "freed" => via[c] # c /\ late[c]
=============================================================================
