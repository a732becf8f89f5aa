--------------------------- MODULE MetadataProofs ----------------------------
(***************************************************************************)
(* Proofs about Metadata for any number of clients, of processes and of    *)
(* sizes of memory: which sets may touch a handle that its owner frees,    *)
(* what reads that race with sets may show, and what quiet ones must.      *)
(***************************************************************************)
EXTENDS Metadata, TLAPS

-----------------------------------------------------------------------------
(* The inductive invariant                                                 *)

Stages == {"idle", "unmap", "clear", "delete", "fallback", "check", "store", "state", "load", "done"}

\* What the proof needs of the variables' types.
CallTypes ==
    /\ pc \in [Client -> Stages]
    /\ op \in [Client -> {"set", "get", "dump"}]
    /\ handle \in [Client -> {"none", "mapped", "unmapped", "cleared"}]
    /\ via \in [Client -> Client]
    /\ late \in [Client -> BOOLEAN]
    /\ DOMAIN ans = Client
    /\ pool \subseteq Client

\* A registered handle is whole: its owner is not freeing it.
Registered ==
    \A c \in pool : handle[c] = "mapped" /\ pc[c] \notin {"unmap", "clear", "delete"}

\* A set that stores through its own handle has one; one that found another client's is told,
\* by late, when that handle leaves the pool.
Uses(c) ==
    /\ pc[c] \in {"fallback", "check", "store"} => op[c] = "set"
    /\ pc[c] \notin {"check", "store", "done"} => via[c] = c
    /\ pc[c] \in {"check", "store"} =>
          IF via[c] = c THEN handle[c] = "mapped" ELSE late[c] \/ via[c] \in pool

\* Only a call that is over has the answer of a freed handle.
Freed(c) == ans[c].err = "freed" => pc[c] = "done" /\ via[c] # c /\ late[c]

FreeInv == CallTypes /\ Registered /\ \A c \in Client : Uses(c) /\ Freed(c)

LEMMA InitFreeInv == Init => FreeInv
<1> SUFFICES ASSUME Init PROVE FreeInv
    OBVIOUS
<1> USE MetadataAssumption
<1>1. CallTypes
    BY DEF Init, CallTypes, Stages
<1>2. Registered
    BY DEF Init, Registered
<1>3. ASSUME NEW c \in Client PROVE Uses(c) /\ Freed(c)
    BY <1>3 DEF Init, Uses, Freed, NoAnswer
<1> QED
    BY <1>1, <1>2, <1>3 DEF FreeInv

-----------------------------------------------------------------------------
(* One lemma per step                                                      *)

LEMMA ImportFrees ==
    ASSUME NEW c \in Client, FreeInv, Import(c)
    PROVE  FreeInv'
BY DEF Import, FreeInv, CallTypes, Registered, Uses, Freed, Put, call, work, history

LEMMA UnregisterFrees ==
    ASSUME NEW c \in Client, FreeInv, Unregister(c)
    PROVE  FreeInv'
<1> USE DEF Unregister, Put, call, work
<1>1. CallTypes' /\ Registered'
    BY DEF FreeInv, CallTypes, Registered, Stages
<1>2. ASSUME NEW d \in Client PROVE Uses(d)'
    BY DEF FreeInv, CallTypes, Uses, Setting, Busy
<1>3. ASSUME NEW d \in Client PROVE Freed(d)'
    BY DEF FreeInv, CallTypes, Freed
<1> QED
    BY <1>1, <1>2, <1>3 DEF FreeInv

\* A client in its own free is in no set, and its handle is in no pool.
LEMMA UnmapFrees ==
    ASSUME NEW c \in Client, FreeInv, Unmap(c) \/ Clear(c) \/ Delete(c)
    PROVE  FreeInv'
BY DEF Unmap, Clear, Delete, FreeInv, CallTypes, Registered, Uses, Freed, Put, call, work, history, Stages

\* A call that begins has made nothing stale: its own handle, if it uses one, is whole.
LEMMA BeginFrees ==
    ASSUME NEW c \in Client, NEW o \in {"set", "get", "dump"}, NEW v,
           NEW next \in {"fallback", "check", "state", "done"},
           FreeInv, Begin(c, o, v, next), DOMAIN ans' = Client,
           \A d \in Client : ans'[d].err = "freed" => ans'[d] = ans[d],
           next \in {"fallback", "check"} => o = "set",
           next = "check" => handle[c] = "mapped"
    PROVE  FreeInv'
<1> USE DEF Begin, Put
<1>1. CallTypes' /\ Registered'
    BY DEF FreeInv, CallTypes, Registered, Stages
<1>2. ASSUME NEW d \in Client PROVE Uses(d)'
    BY DEF FreeInv, CallTypes, Uses
<1>3. ASSUME NEW d \in Client PROVE Freed(d)'
    BY DEF FreeInv, CallTypes, Freed
<1> QED
    BY <1>1, <1>2, <1>3 DEF FreeInv

LEMMA ReadFrees ==
    ASSUME NEW c \in Client, NEW o \in {"get", "dump"}, FreeInv, ReadRaw(c, o) \/ Read(c, o)
    PROVE  FreeInv'
<1>1. DOMAIN ans = Client
    BY DEF FreeInv, CallTypes
<1>2. CASE ReadRaw(c, o)
    <2>1. Begin(c, o, None, "done")
        BY <1>2 DEF ReadRaw
    <2>2. \A d \in Client : ans'[d].err = "freed" => ans'[d] = ans[d]
        <3>1. /\ \A v, room : Encoded(c, o, v, room).err # "freed"
              /\ \A e : Error(e).err = e
            BY DEF Encoded, Bytes, Error
        <3>2. PICK a : /\ ans' = Put(ans, c, a)
                       /\ \/ \E room : a = Encoded(c, o, Shown(item, page), room)
                          \/ a = Error("not listed") \/ a = Error("BAD_BUFFER")
            BY <1>2 DEF ReadRaw
        <3>3. a.err # "freed"
            BY <3>1, <3>2
        <3>4. \A d \in Client : ans'[d] = IF d = c THEN a ELSE ans[d]
            BY <1>1, <3>2 DEF Put
        <3> QED
            BY <3>3, <3>4
    <2>3. DOMAIN ans' = Client
        BY <1>1, <1>2 DEF ReadRaw, Put
    <2> QED
        BY <2>1, <2>2, <2>3, BeginFrees
<1>3. CASE Read(c, o)
    <2>1. \/ Begin(c, o, None, "done") /\ ans' = Put(ans, c, Error("not listed"))
          \/ Begin(c, o, None, "state") /\ UNCHANGED ans
        BY <1>3 DEF Read
    <2>2. \A d \in Client : ans'[d].err = "freed" => ans'[d] = ans[d]
        <3>1. Error("not listed").err # "freed"
            BY DEF Error
        <3>2. \A d \in Client : ans'[d] = ans[d] \/ ans'[d] = Error("not listed")
            BY <1>1, <2>1 DEF Put
        <3> QED
            BY <3>1, <3>2
    <2>3. DOMAIN ans' = Client
        BY <1>1, <2>1 DEF Put
    <2> QED
        BY <2>1, <2>2, <2>3, BeginFrees
<1> QED
    BY <1>2, <1>3

LEMMA ErrorErr == \A e : Error(e).err = e
BY DEF Error

LEMMA SetFrees ==
    ASSUME NEW c \in Client, NEW v, FreeInv, SetImported(c, v) \/ SetRaw(c, v)
    PROVE  FreeInv'
<1>1. DOMAIN ans = Client
    BY DEF FreeInv, CallTypes
<1>2. CASE SetImported(c, v)
    BY <1>1, <1>2, BeginFrees DEF SetImported
<1>3. CASE SetRaw(c, v)
    <2>1. \/ Begin(c, "set", v, "fallback") /\ UNCHANGED ans
          \/ Begin(c, "set", None, "done") /\ ans' = Put(ans, c, Error("BAD_BUFFER"))
        BY <1>3 DEF SetRaw
    <2>2. \A d \in Client : ans'[d].err = "freed" => ans'[d] = ans[d]
        BY <1>1, <2>1, ErrorErr DEF Put
    <2>3. DOMAIN ans' = Client
        BY <1>1, <2>1 DEF Put
    <2> QED
        BY <2>1, <2>2, <2>3, BeginFrees
<1> QED
    BY <1>2, <1>3

\* Loading words says nothing about handles.
LEMMA LoadFrees ==
    ASSUME NEW c \in Client, FreeInv, LoadState(c) \/ Load(c)
    PROVE  FreeInv'
<1> USE DEF Put
<1>1. /\ UNCHANGED <<op, handle, via, late, pool>>
      /\ pc[c] \in {"state", "load"}
      /\ \/ pc' = pc /\ ans' = ans
         \/ pc' = [pc EXCEPT ![c] = "load"] /\ ans' = ans
         \/ /\ pc' = [pc EXCEPT ![c] = "done"]
            /\ \E v, room : ans' = [ans EXCEPT ![c] = Encoded(c, op[c], v, room)]
    BY DEF LoadState, Load, Answer, call, history
<1>2. CallTypes' /\ Registered'
    BY <1>1 DEF FreeInv, CallTypes, Registered, Stages
<1>3. \A v, room : Encoded(c, op[c], v, room).err # "freed"
    BY DEF Encoded, Bytes, Error
<1>4. ASSUME NEW d \in Client PROVE Uses(d)' /\ Freed(d)'
    BY <1>1, <1>3 DEF FreeInv, CallTypes, Uses, Freed
<1> QED
    BY <1>2, <1>4 DEF FreeInv

LEMMA ReturnFrees ==
    ASSUME NEW c \in Client, FreeInv, Return(c)
    PROVE  FreeInv'
BY DEF Return, FreeInv, CallTypes, Registered, Uses, Freed, Put, NoAnswer, Stages

LEMMA FallbackFrees ==
    ASSUME NEW c \in Client, FreeInv, Fallback(c)
    PROVE  FreeInv'
<1> USE DEF Put
<1>1. /\ UNCHANGED <<op, handle, late, pool>> /\ pc[c] = "fallback"
      /\ \/ /\ pc' = [pc EXCEPT ![c] = "done"] /\ via' = via
            /\ ans' = [ans EXCEPT ![c] = Error("BAD_BUFFER")]
         \/ /\ pc' = [pc EXCEPT ![c] = "check"] /\ ans' = ans
            /\ \E d \in pool : via' = [via EXCEPT ![c] = d]
    BY DEF Fallback, EndSet
<1>2. CallTypes' /\ Registered'
    BY <1>1 DEF FreeInv, CallTypes, Registered, Stages
<1>3. ASSUME NEW d \in Client PROVE Uses(d)' /\ Freed(d)'
    BY <1>1, ErrorErr DEF FreeInv, CallTypes, Registered, Uses, Freed
<1> QED
    BY <1>2, <1>3 DEF FreeInv

LEMMA VerdictIsNotFreed == \A c : Verdict(c) # "freed"
BY DEF Verdict

LEMMA StoreFrees ==
    ASSUME NEW c \in Client, FreeInv, Check(c) \/ StoreWord(c)
    PROVE  FreeInv'
<1> USE DEF Put
<1>1. /\ UNCHANGED <<op, via, handle, late, pool>> /\ pc[c] \in {"check", "store"}
      /\ \/ pc' = pc /\ ans' = ans
         \/ pc' = [pc EXCEPT ![c] = "store"] /\ ans' = ans
         \/ /\ pc' = [pc EXCEPT ![c] = "done"]
            /\ \E e : e # "freed" /\ ans' = [ans EXCEPT ![c] = Error(e)]
    <2>1. CASE Check(c)
        BY <2>1, VerdictIsNotFreed DEF Check, EndSet
    <2>2. CASE StoreWord(c)
        BY <2>2 DEF StoreWord, EndSet
    <2> QED
        BY <2>1, <2>2
<1>2. CallTypes' /\ Registered'
    BY <1>1 DEF FreeInv, CallTypes, Registered, Stages
<1>3. ASSUME NEW d \in Client PROVE Uses(d)' /\ Freed(d)'
    BY <1>1, ErrorErr DEF FreeInv, CallTypes, Uses, Freed
<1> QED
    BY <1>2, <1>3 DEF FreeInv

\* A freed handle is not the caller's own, and not one that is still registered.
LEMMA UseFreedFrees ==
    ASSUME NEW c \in Client, FreeInv, UseFreed(c)
    PROVE  FreeInv'
<1> USE DEF Put
<1>1. /\ UNCHANGED <<op, via, handle, late, pool>> /\ pc[c] \in {"check", "store"}
      /\ pc' = [pc EXCEPT ![c] = "done"] /\ ans' = [ans EXCEPT ![c] = Error("freed")]
      /\ handle[via[c]] # "mapped"
    BY DEF UseFreed, EndSet
<1>2. via[c] # c /\ late[c]
    BY <1>1 DEF FreeInv, CallTypes, Registered, Uses
<1>3. CallTypes' /\ Registered'
    BY <1>1 DEF FreeInv, CallTypes, Registered, Stages
<1>4. ASSUME NEW d \in Client PROVE Uses(d)' /\ Freed(d)'
    BY <1>1, <1>2 DEF FreeInv, CallTypes, Uses, Freed, Error
<1> QED
    BY <1>3, <1>4 DEF FreeInv

LEMMA NextFreeInv == FreeInv /\ [Next]_vars => FreeInv'
<1> SUFFICES ASSUME FreeInv, [Next]_vars PROVE FreeInv'
    OBVIOUS
<1>1. ASSUME NEW c \in Client \ Reader, NEW o \in {"get", "dump"}, ReadRaw(c, o) \/ Read(c, o)
      PROVE  FreeInv'
    BY <1>1, ReadFrees
<1>2. ASSUME NEW c \in Client, Read(c, "get") PROVE FreeInv'
    BY <1>2, ReadFrees
<1>3. ASSUME NEW c \in Client, NEW v, SetImported(c, v) \/ SetRaw(c, v) PROVE FreeInv'
    BY <1>3, SetFrees
<1>4. CASE UNCHANGED vars
    BY <1>4 DEF vars, call, work, history, FreeInv, CallTypes, Registered, Uses, Freed
<1> QED
    BY <1>1, <1>2, <1>3, <1>4, MetadataAssumption, ImportFrees, UnregisterFrees, UnmapFrees,
       LoadFrees, ReturnFrees, FallbackFrees, StoreFrees, UseFreedFrees DEF Next

-----------------------------------------------------------------------------
(* Items of one word: their values, and pages that hold one                *)

IsOneWord(v) == v = Some(IF item = "CHROMA_SITING" THEN <<v.w[1], v.w[2]>> ELSE <<v.w[1]>>)
WordOf(v)    == IF item = "CHROMA_SITING" THEN v.w[2] ELSE v.w[1]

LEMMA TupleOfOne == \A x : [i \in {1} |-> x] = <<x>>
OBVIOUS

LEMMA OneWordValues == item \in OneWord => \A v \in Values : IsOneWord(v)
BY DEF OneWord, OfTheHandle, Values, IsOneWord, Some

\* A store to a page of one word changes its state or the word.
LEMMA StoredOne ==
    ASSUME NEW p, NEW x, NEW y, p.word = <<y>>
    PROVE  /\ Stored(p, Store(0, 1)) = [state |-> 1, word |-> <<y>>]
           /\ Stored(p, Store(1, x)) = [state |-> p.state, word |-> <<x>>]
<1>1. [<<y>> EXCEPT ![1] = x] = <<x>>
    OBVIOUS
<1> QED
    BY <1>1 DEF Stored, Store

\* What a read that loaded the word x shows is the value whose word is x.
LEMMA ShownOne ==
    ASSUME item \in OneWord, NEW v, IsOneWord(v)
    PROVE  Matches(item, Shown(item, Occupied(WordOf(v))), v)
BY DEF IsOneWord, WordOf, Shown, Matches, Occupied, Some, OneWord, NameOf

LEMMA StoresOne ==
    ASSUME item \in OneWord, NEW v, IsOneWord(v)
    PROVE  /\ Stores(item, v) \subseteq {Store(0, 1), Store(1, WordOf(v))}
           /\ Store(1, WordOf(v)) \in Stores(item, v)
           /\ item # "AM_OMX_FLAG" => Store(0, 1) \in Stores(item, v)
BY DEF IsOneWord, WordOf, Stores, StoreWords, Store, Some, OneWord

-----------------------------------------------------------------------------
(* The inductive invariant of one-word items                               *)

DataTypes ==
    /\ item \in Settable \union OfTheHandle
    /\ DOMAIN data = Client /\ DOMAIN todo = Client /\ DOMAIN got = Client /\ DOMAIN seen = Client
    /\ raced \in [Client -> BOOLEAN]

\* Of two sets that are under way each knows that it is not alone.
Overlap ==
    \A c, d \in Client : c # d /\ Setting(c) /\ Setting(d) => raced[c]

\* The word in the page is that of a value the item may hold, also while the state is not stored.
RegPage ==
    /\ page = [state |-> page.state, word |-> <<page.word[1]>>]
    /\ page.state \in {0, 1}
    /\ page.state = 0 => item = "BLEND_MODE" /\ Some(<<INVALID>>) \in holds
    /\ \E v \in holds : WordOf(v) = page.word[1]
    /\ \A v \in holds : IsOneWord(v)

RegSet(c) ==
    /\ pc[c] \in {"fallback", "check"} => data[c] = Undecodable \/ IsOneWord(data[c])
    /\ pc[c] = "store" =>
          /\ IsOneWord(data[c]) /\ data[c] \in holds
          /\ todo[c] \subseteq {Store(0, 1), Store(1, WordOf(data[c]))}
          /\ Store(0, 1) \notin todo[c] => page.state = 1
          /\ ~raced[c] /\ Store(1, WordOf(data[c])) \notin todo[c] => page.word[1] = WordOf(data[c])

\* A read has seen every value that the page may show it.
RegGet(c) ==
    /\ \A v \in seen[c] : IsOneWord(v)
    /\ pc[c] # "done" => got[c] = Occupied(0)
    /\ pc[c] \in {"state", "load"} => op[c] \in {"get", "dump"} /\ holds \subseteq seen[c]
    /\ pc[c] = "load" => todo[c] = {1}
    /\ Answered(c) /\ ans[c].err = "NONE" => \E v \in seen[c] : Matches(item, ans[c].v, v)

RegInv ==
    item \in OneWord => Overlap /\ RegPage /\ \A c \in Client : RegSet(c) /\ RegGet(c)

Inv == FreeInv /\ DataTypes /\ RegInv

LEMMA InitRegInv == Init => Inv
<1> SUFFICES ASSUME Init PROVE Inv
    OBVIOUS
<1>1. DataTypes
    BY DEF Init, DataTypes
<1>2. ASSUME item \in OneWord PROVE Overlap /\ RegPage /\ \A c \in Client : RegSet(c) /\ RegGet(c)
    <2>1. \/ \E x : page = Occupied(x) /\ item \in {"DATASPACE", "CHROMA_SITING", "AM_OMX_FLAG"}
          \/ page = Vacant(1) /\ item = "BLEND_MODE"
        BY <1>2 DEF Init, InitialPages, OneWord, OfTheHandle
    <2>2. page = [state |-> page.state, word |-> <<page.word[1]>>] /\ page.state \in {0, 1}
        BY <2>1, TupleOfOne DEF Occupied, Vacant
    <2>3. \A v \in holds : IsOneWord(v) /\ WordOf(v) = page.word[1]
        BY <2>1 DEF Init, Shown, Default, IsOneWord, WordOf, Occupied, Vacant, Some, INVALID
    <2>4. page.state = 0 => item = "BLEND_MODE" /\ Some(<<INVALID>>) \in holds
        BY <2>1 DEF Init, Shown, Default, Occupied, Vacant
    <2>5. RegPage
        BY <2>2, <2>3, <2>4 DEF Init, RegPage
    <2>6. Overlap
        BY DEF Init, Overlap, Setting, Busy
    <2>7. Blank = Occupied(0)
        BY <2>2, TupleOfOne DEF Blank, Occupied
    <2>8. ASSUME NEW c \in Client PROVE RegSet(c) /\ RegGet(c)
        BY <2>7 DEF Init, RegSet, RegGet, Answered
    <2> QED
        BY <2>5, <2>6, <2>8
<1> QED
    BY <1>1, <1>2, InitFreeInv DEF Inv, RegInv

\* Imports and frees change no item.
LEMMA HandleStepsReg ==
    ASSUME NEW c \in Client, Inv, Import(c) \/ Unregister(c) \/ Unmap(c) \/ Clear(c) \/ Delete(c)
    PROVE  DataTypes' /\ RegInv'
<1>1. /\ UNCHANGED <<item, page, holds, seen, raced, data, op, todo, got, ans>>
      /\ \/ pc' = pc
         \/ \E l \in {"idle", "unmap", "clear", "delete"} : pc' = [pc EXCEPT ![c] = l]
    BY DEF Import, Unregister, Unmap, Clear, Delete, Put, call, work, history
<1>2. pc[c] \notin {"fallback", "check", "store", "state", "load", "done"}
    BY DEF Import, Unregister, Unmap, Clear, Delete
<1>3. DataTypes'
    BY <1>1 DEF Inv, DataTypes
<1>4. ASSUME item \in OneWord, NEW d \in Client PROVE RegSet(d)' /\ RegGet(d)'
    <2>1. RegSet(d) /\ RegGet(d)
        BY <1>4 DEF Inv, RegInv
    <2>2. \/ pc'[d] = pc[d]
          \/ pc'[d] \in {"idle", "unmap", "clear", "delete"} /\ pc[d] # "done"
        BY <1>1, <1>2 DEF Inv, FreeInv, CallTypes
    <2>3. IsOneWord(data[d])' <=> IsOneWord(data[d])
        BY <1>1 DEF IsOneWord
    <2>4. RegSet(d)'
        BY <1>1, <2>1, <2>2, <2>3 DEF RegSet, WordOf
    <2> QED
        BY <1>1, <2>1, <2>2, <2>4 DEF RegGet, Answered, IsOneWord
<1>5. ASSUME item \in OneWord PROVE (Overlap /\ RegPage)'
    <2>1. Overlap /\ RegPage
        BY <1>5 DEF Inv, RegInv
    <2>2. Overlap'
        BY <1>1, <2>1 DEF Overlap, Setting, Busy, Inv, FreeInv, CallTypes
    <2> QED
        BY <1>1, <2>1, <2>2 DEF RegPage, WordOf, IsOneWord
<1> QED
    BY <1>1, <1>3, <1>4, <1>5 DEF RegInv

\* A call begins with what the item may hold now.
LEMMA BeginReg ==
    ASSUME NEW c \in Client, NEW o \in {"set", "get", "dump"}, NEW v \in Values \union {Undecodable, None},
           NEW next \in {"fallback", "check", "state", "done"},
           Inv, Begin(c, o, v, next), DOMAIN ans' = Client,
           next = "done" => ans'[c].err # "NONE",
           \A d \in Client \ {c} : ans'[d] = ans[d],
           next \in {"fallback", "check"} => o = "set" /\ v \in Values \union {Undecodable},
           next = "state" => o # "set"
    PROVE  DataTypes' /\ RegInv'
<1> USE DEF Begin, Put
<1>1. DataTypes'
    BY DEF Inv, DataTypes
<1>2. ASSUME item \in OneWord, NEW d \in Client PROVE RegSet(d)' /\ RegGet(d)'
    <2>2. CASE d # c
        <3>1. /\ pc'[d] = pc[d] /\ op'[d] = op[d] /\ data'[d] = data[d] /\ todo'[d] = todo[d]
              /\ got'[d] = got[d] /\ ans'[d] = ans[d] /\ seen'[d] = seen[d]
              /\ raced[d] => raced'[d]
              /\ page' = page /\ item' = item /\ holds' = holds
            BY <2>2 DEF Inv, FreeInv, CallTypes, DataTypes
        <3>2. RegSet(d) /\ RegGet(d)
            BY <1>2 DEF Inv, RegInv
        <3>3. RegSet(d)'
            BY <3>1, <3>2 DEF RegSet, IsOneWord, WordOf
        <3>4. RegGet(d)'
            BY <3>1, <3>2 DEF RegGet, IsOneWord, Answered
        <3> QED
            BY <3>3, <3>4
    <2>3. CASE d = c
        <3>1. /\ pc'[d] = next /\ op'[d] = o /\ data'[d] = v /\ got'[d] = got[d]
              /\ seen'[d] = IF o # "set" THEN holds ELSE {}
              /\ page' = page /\ item' = item /\ holds' = holds /\ pc[d] = "idle"
            BY <1>2, <2>3 DEF Inv, FreeInv, CallTypes, DataTypes
        <3>2. RegSet(d)'
            BY <1>2, <2>3, <3>1, OneWordValues DEF RegSet, IsOneWord
        <3>3. RegGet(d)'
            BY <1>2, <2>3, <3>1 DEF Inv, RegInv, RegPage, RegGet, IsOneWord, Answered
        <3> QED
            BY <3>2, <3>3
    <2> QED
        BY <2>2, <2>3
<1>3. ASSUME item \in OneWord PROVE (Overlap /\ RegPage)'
    <2>1. Overlap /\ RegPage
        BY <1>3 DEF Inv, RegInv
    <2>2. \A d \in Client \ {c} : /\ Setting(d)' <=> Setting(d)
                                 /\ raced'[d] = (raced[d] \/ (Busy(d) /\ o = "set"))
        BY DEF Setting, Busy, Inv, FreeInv, CallTypes
    <2>3. Setting(c)' => o = "set"
        BY DEF Setting, Inv, FreeInv, CallTypes
    <2>4. raced'[c] = \E u \in Client \ {c} : Setting(u)
        OBVIOUS
    <2>5. Overlap'
        BY <2>1, <2>2, <2>3, <2>4 DEF Overlap, Setting
    <2> QED
        BY <2>1, <2>5 DEF RegPage, WordOf, IsOneWord
<1> QED
    BY <1>1, <1>2, <1>3 DEF RegInv

LEMMA ReadReg ==
    ASSUME NEW c \in Client, NEW o \in {"get", "dump"}, Inv, ReadRaw(c, o) \/ Read(c, o)
    PROVE  DataTypes' /\ RegInv'
<1>1. DOMAIN ans = Client
    BY DEF Inv, FreeInv, CallTypes
<1>2. CASE item \notin OneWord
    <2>1. \E next : Begin(c, o, None, next)
        BY DEF ReadRaw, Read
    <2> QED
        BY <1>2, <2>1 DEF Begin, Put, Inv, DataTypes, RegInv
<1>3. CASE item \in OneWord
    <2>1. \/ Begin(c, o, None, "state") /\ UNCHANGED ans
          \/ /\ Begin(c, o, None, "done")
             /\ ans' = Put(ans, c, Error("not listed")) \/ ans' = Put(ans, c, Error("BAD_BUFFER"))
        BY <1>3 DEF ReadRaw, Read, OneWord, OfTheHandle
    <2>2. CASE Begin(c, o, None, "state") /\ UNCHANGED ans
        BY <1>1, <2>2, BeginReg
    <2>3. CASE /\ Begin(c, o, None, "done")
               /\ ans' = Put(ans, c, Error("not listed")) \/ ans' = Put(ans, c, Error("BAD_BUFFER"))
        <3>1. ans'[c].err # "NONE" /\ (\A d \in Client \ {c} : ans'[d] = ans[d]) /\ DOMAIN ans' = Client
            BY <1>1, <2>3, ErrorErr DEF Put
        <3> QED
            BY <2>3, <3>1, BeginReg
    <2> QED
        BY <2>1, <2>2, <2>3
<1> QED
    BY <1>2, <1>3

LEMMA SetReg ==
    ASSUME NEW c \in Client, NEW v \in Values \union {Undecodable}, Inv, SetImported(c, v) \/ SetRaw(c, v)
    PROVE  DataTypes' /\ RegInv'
<1>1. DOMAIN ans = Client
    BY DEF Inv, FreeInv, CallTypes
<1>2. \/ Begin(c, "set", v, "check") /\ UNCHANGED ans
      \/ Begin(c, "set", v, "fallback") /\ UNCHANGED ans
      \/ Begin(c, "set", None, "done") /\ ans' = Put(ans, c, Error("BAD_BUFFER"))
    BY DEF SetImported, SetRaw
<1>3. CASE Begin(c, "set", None, "done") /\ ans' = Put(ans, c, Error("BAD_BUFFER"))
    <2>1. ans'[c].err # "NONE" /\ (\A d \in Client \ {c} : ans'[d] = ans[d]) /\ DOMAIN ans' = Client
        BY <1>1, <1>3, ErrorErr DEF Put
    <2> QED
        BY <1>3, <2>1, BeginReg
<1>4. CASE Begin(c, "set", v, "check") /\ UNCHANGED ans
    BY <1>1, <1>4, BeginReg
<1>5. CASE Begin(c, "set", v, "fallback") /\ UNCHANGED ans
    BY <1>1, <1>5, BeginReg
<1> QED
    BY <1>2, <1>3, <1>4, <1>5

\* The answer of a read is encoded from a value, or is an error.
LEMMA EncodedReg ==
    ASSUME NEW c, NEW o, NEW v, NEW room, Encoded(c, o, v, room).err = "NONE"
    PROVE  Encoded(c, o, v, room).v = v
BY DEF Encoded, Bytes, Error

LEMMA LoadStateReg ==
    ASSUME NEW c \in Client, Inv, LoadState(c)
    PROVE  DataTypes' /\ RegInv'
<1> USE DEF Put
<1>1. /\ UNCHANGED <<item, page, holds, seen, raced, data, op, got>> /\ pc[c] = "state"
      /\ \/ /\ page.state = 0 /\ todo' = todo /\ pc' = [pc EXCEPT ![c] = "done"]
            /\ \E room : ans' = [ans EXCEPT ![c] = Encoded(c, op[c], Default(item), room)]
         \/ /\ page.state # 0 /\ todo' = [todo EXCEPT ![c] = DOMAIN page.word]
            /\ pc' = [pc EXCEPT ![c] = "load"] /\ ans' = ans
    BY DEF LoadState, Answer, call, history
<1>2. DataTypes'
    BY <1>1 DEF Inv, DataTypes
<1>3. ASSUME item \in OneWord PROVE Overlap' /\ RegPage'
    <2>1. Overlap /\ RegPage
        BY <1>3 DEF Inv, RegInv
    <2>2. Overlap'
        BY <1>1, <2>1 DEF Overlap, Setting, Busy, Inv, FreeInv, CallTypes
    <2> QED
        BY <1>1, <2>1, <2>2 DEF RegPage, WordOf, IsOneWord
<1>4. ASSUME item \in OneWord, NEW d \in Client PROVE RegSet(d)' /\ RegGet(d)'
    <2>1. RegSet(d) /\ RegGet(d) /\ RegPage
        BY <1>4 DEF Inv, RegInv
    <2>2. CASE d # c
        <3>1. pc'[d] = pc[d] /\ todo'[d] = todo[d] /\ ans'[d] = ans[d]
            BY <1>1, <2>2 DEF Inv, FreeInv, CallTypes, DataTypes
        <3> QED
            BY <1>1, <2>1, <3>1 DEF RegSet, RegGet, IsOneWord, WordOf, Answered
    <2>3. CASE d = c
        <3>1. RegSet(d)'
            BY <1>1, <2>3 DEF RegSet, Inv, FreeInv, CallTypes
        <3>2. CASE page.state = 0
            <4>1. Matches(item, Default(item), Some(<<INVALID>>)) /\ Some(<<INVALID>>) \in seen[c]
                BY <1>1, <2>1, <2>3, <3>2 DEF RegPage, RegGet, Default, Matches
            <4>2. PICK room : ans' = [ans EXCEPT ![c] = Encoded(c, op[c], Default(item), room)]
                BY <1>1, <3>2
            <4>3. ans'[c] = Encoded(c, op[c], Default(item), room) /\ pc'[c] = "done"
                BY <1>1, <3>2, <4>2 DEF Inv, FreeInv, CallTypes
            <4>4. ans'[c].err = "NONE" => ans'[c].v = Default(item)
                BY <4>3, EncodedReg
            <4> QED
                BY <1>1, <2>1, <2>3, <3>1, <4>1, <4>3, <4>4 DEF RegGet, IsOneWord, Answered
        <3>3. CASE page.state # 0
            <4>1. pc'[c] = "load" /\ todo'[c] = {1} /\ ans' = ans
                BY <1>1, <2>1, <3>3 DEF RegPage, Inv, FreeInv, CallTypes, DataTypes
            <4> QED
                BY <1>1, <2>1, <2>3, <3>1, <4>1 DEF RegGet, IsOneWord, Answered
        <3> QED
            BY <3>2, <3>3
    <2> QED
        BY <2>2, <2>3
<1> QED
    BY <1>1, <1>2, <1>3, <1>4 DEF RegInv

LEMMA LoadReg ==
    ASSUME NEW c \in Client, Inv, Load(c)
    PROVE  DataTypes' /\ RegInv'
<1> USE DEF Put
<1>1. PICK i \in todo[c] :
         LET read == Stored(got[c], Store(i, page.word[i]))
         IN  /\ got' = [got EXCEPT ![c] = read] /\ todo' = [todo EXCEPT ![c] = todo[c] \ {i}]
             /\ IF todo[c] = {i}
                THEN /\ \E room : ans' = [ans EXCEPT ![c] = Encoded(c, op[c], Shown(item, read), room)]
                     /\ pc' = [pc EXCEPT ![c] = "done"]
                ELSE pc' = pc /\ ans' = ans
    BY DEF Load, Answer
<1>2. UNCHANGED <<item, page, holds, seen, raced, data, op>> /\ pc[c] = "load"
    BY DEF Load, call, history
<1>3. DataTypes'
    BY <1>1, <1>2 DEF Inv, DataTypes
<1>4. ASSUME item \in OneWord PROVE RegInv'
    <2>1. /\ Overlap /\ RegPage /\ \A d \in Client : RegSet(d) /\ RegGet(d)
          /\ todo[c] = {1} /\ i = 1 /\ got[c] = Occupied(0)
        BY <1>1, <1>2, <1>4 DEF Inv, RegInv, RegGet
    <2>2. Stored(got[c], Store(1, page.word[1])) = Occupied(page.word[1])
        <3>1. got[c].word = <<0>> /\ got[c].state = 1
            BY <2>1 DEF Occupied
        <3> QED
            BY <3>1, StoredOne DEF Occupied
    <2>3. PICK v \in holds : WordOf(v) = page.word[1] /\ IsOneWord(v)
        BY <2>1 DEF RegPage
    <2>4. PICK room : ans' = [ans EXCEPT ![c] = Encoded(c, op[c], Shown(item, Occupied(WordOf(v))), room)]
        BY <1>1, <2>1, <2>2, <2>3
    <2>5. /\ ans'[c] = Encoded(c, op[c], Shown(item, Occupied(WordOf(v))), room)
          /\ pc' = [pc EXCEPT ![c] = "done"] /\ pc'[c] = "done"
        BY <1>1, <2>1, <2>4 DEF Inv, FreeInv, CallTypes
    <2>6. ans'[c].err = "NONE" => Matches(item, ans'[c].v, v)
        BY <1>4, <2>3, <2>5, EncodedReg, ShownOne
    <2>7. (Overlap /\ RegPage)'
        <3>1. Overlap'
            BY <1>2, <2>1, <2>5 DEF Overlap, Setting, Busy, Inv, FreeInv, CallTypes
        <3> QED
            BY <1>2, <2>1, <3>1 DEF RegPage, WordOf, IsOneWord
    <2>8. ASSUME NEW d \in Client, d # c PROVE RegSet(d)' /\ RegGet(d)'
        <3>1. pc'[d] = pc[d] /\ todo'[d] = todo[d] /\ ans'[d] = ans[d] /\ got'[d] = got[d]
            BY <1>1, <2>4, <2>5, <2>8 DEF Inv, FreeInv, CallTypes, DataTypes
        <3> QED
            BY <1>2, <2>1, <3>1 DEF RegSet, RegGet, IsOneWord, WordOf, Answered
    <2>9. RegSet(c)' /\ RegGet(c)'
        <3>1. v \in seen'[c]
            BY <1>2, <2>1, <2>3 DEF RegGet
        <3>2. Matches(item', ans'[c].v, v) \/ ans'[c].err # "NONE"
            BY <1>2, <2>6
        <3> QED
            BY <1>2, <2>1, <2>5, <3>1, <3>2 DEF RegSet, RegGet, IsOneWord, Answered
    <2> QED
        BY <2>7, <2>8, <2>9 DEF RegInv
<1> QED
    BY <1>2, <1>3, <1>4 DEF RegInv

LEMMA ReturnReg ==
    ASSUME NEW c \in Client, Inv, Return(c)
    PROVE  DataTypes' /\ RegInv'
<1> USE DEF Return, Put
<1>1. DataTypes'
    BY DEF Inv, DataTypes
<1>2. ASSUME item \in OneWord PROVE RegInv'
    <2>1. Overlap /\ RegPage /\ \A d \in Client : RegSet(d) /\ RegGet(d)
        BY <1>2 DEF Inv, RegInv
    <2>2. Blank = Occupied(0)
        BY <2>1, TupleOfOne DEF Blank, Occupied, RegPage
    <2>3. pc'[c] = "idle" /\ got'[c] = Occupied(0) /\ seen'[c] = {} /\ op'[c] = "get"
        BY <2>2 DEF Inv, FreeInv, CallTypes, DataTypes
    <2>4. ASSUME NEW d \in Client, d # c
          PROVE /\ pc'[d] = pc[d] /\ todo'[d] = todo[d] /\ ans'[d] = ans[d] /\ got'[d] = got[d]
                /\ raced'[d] = raced[d] /\ op'[d] = op[d] /\ seen'[d] = seen[d]
        BY <2>4 DEF Inv, FreeInv, CallTypes, DataTypes
    <2>5. ASSUME NEW d \in Client PROVE RegSet(d)' /\ RegGet(d)'
        <3>1. CASE d # c
            <4>0. UNCHANGED <<item, page, data, holds>>
                OBVIOUS
            <4> HIDE DEF Return
            <4>1. RegSet(d)'
                BY <2>1, <2>4, <3>1, <4>0 DEF RegSet, IsOneWord, WordOf
            <4>2. RegGet(d)'
                BY <2>1, <2>4, <3>1, <4>0 DEF RegGet, IsOneWord, Answered
            <4> QED
                BY <4>1, <4>2
        <3>2. CASE d = c
            BY <2>3, <3>2 DEF RegSet, RegGet, IsOneWord, Answered
        <3> QED
            BY <3>1, <3>2
    <2>6. Overlap'
        BY <2>1, <2>3, <2>4 DEF Overlap, Setting, Busy
    <2>7. RegPage'
        BY <2>1 DEF RegPage, WordOf, IsOneWord
    <2> QED
        BY <2>5, <2>6, <2>7 DEF RegInv
<1> QED
    BY <1>1, <1>2 DEF RegInv

\* A set ends, and stored nothing in this step: its value is all that the item may hold only if
\* the page already shows it and nobody else sets the item.
LEMMA EndSetReg ==
    ASSUME NEW c \in Client, NEW e, Inv, EndSet(c, e), pc[c] \in {"fallback", "check", "store"},
           UNCHANGED <<item, page, op, todo, got, raced, seen>>,
           e = "NONE" => item = "DATASPACE" /\ IsOneWord(data[c]) /\ page.word = data[c].w
    PROVE  DataTypes' /\ RegInv'
<1> USE DEF EndSet, Put
<1>1. DataTypes'
    BY DEF Inv, DataTypes
<1>2. ASSUME item \in OneWord PROVE RegInv'
    <2>1. Overlap /\ RegPage /\ \A d \in Client : RegSet(d) /\ RegGet(d)
        BY <1>2 DEF Inv, RegInv
    <2>2. op[c] = "set" /\ Setting(c)
        BY DEF Inv, FreeInv, Uses, Setting, Busy
    <2>3. pc'[c] = "done" /\ op'[c] = "set"
        BY <2>2 DEF Inv, FreeInv, CallTypes
    <2>4. ASSUME NEW d \in Client, d # c
          PROVE pc'[d] = pc[d] /\ data'[d] = data[d] /\ ans'[d] = ans[d]
        BY <2>4 DEF Inv, FreeInv, CallTypes, DataTypes
    <2>5. holds' # holds => /\ holds' = {data[c]} /\ ~raced[c] /\ page.state = 1
                            /\ IsOneWord(data[c]) /\ WordOf(data[c]) = page.word[1]
        BY <2>1 DEF RegPage, WordOf
    <2>6. RegPage'
        BY <2>1, <2>5 DEF RegPage, IsOneWord, WordOf
    <2>7. Overlap'
        BY <2>1, <2>2, <2>3, <2>4 DEF Overlap, Setting, Busy
    <2>8. ASSUME NEW d \in Client, d # c PROVE RegSet(d)' /\ RegGet(d)'
        <3>1. ASSUME pc[d] = "store" PROVE holds' = holds
            <4>1. Setting(d)
                BY <3>1 DEF Inv, FreeInv, Uses, Setting, Busy
            <4>2. raced[c]
                BY <2>1, <2>2, <2>8, <4>1 DEF Overlap
            <4> QED
                BY <2>5, <4>2
        <3>2. RegSet(d)'
            BY <2>1, <2>4, <2>8, <3>1 DEF RegSet, IsOneWord, WordOf
        <3>3. ASSUME pc[d] \in {"state", "load"} PROVE holds' \subseteq seen[d]
            <4>1. /\ holds \subseteq seen[d]
                  /\ \A v \in holds : IsOneWord(v)
                BY <2>1, <3>3 DEF RegGet, RegPage
            <4>2. holds' # holds => data[c] \in holds
                <5>1. ASSUME NEW v \in holds, IsOneWord(v), IsOneWord(data[c]), item = "DATASPACE",
                             WordOf(v) = WordOf(data[c])
                      PROVE v = data[c]
                    BY <5>1 DEF IsOneWord, WordOf
                <5> QED
                    BY <2>1, <2>5, <4>1, <5>1 DEF RegPage
            <4> QED
                BY <2>5, <4>1, <4>2
        <3>4. RegGet(d)'
            BY <2>1, <2>4, <2>8, <3>3 DEF RegGet, IsOneWord, Answered
        <3> QED
            BY <3>2, <3>4
    <2>9. RegSet(c)' /\ RegGet(c)'
        BY <2>1, <2>3 DEF RegSet, RegGet, IsOneWord, Answered
    <2> QED
        BY <2>6, <2>7, <2>8, <2>9 DEF RegInv
<1> QED
    BY <1>1, <1>2 DEF RegInv

LEMMA FallbackReg ==
    ASSUME NEW c \in Client, Inv, Fallback(c)
    PROVE  DataTypes' /\ RegInv'
<1>1. CASE EndSet(c, "BAD_BUFFER")
    BY <1>1, EndSetReg DEF Fallback
<1>2. CASE pc' = [pc EXCEPT ![c] = "check"] /\ UNCHANGED <<data, ans, holds>>
    <2>1. UNCHANGED <<item, page, op, todo, got, raced, seen>> /\ pc[c] = "fallback"
        BY DEF Fallback
    <2>2. DataTypes'
        BY <1>2, <2>1 DEF Inv, DataTypes
    <2>3. ASSUME item \in OneWord PROVE RegInv'
        <3>1. Overlap /\ RegPage /\ \A d \in Client : RegSet(d) /\ RegGet(d)
            BY <2>3 DEF Inv, RegInv
        <3>2. Overlap'
            BY <1>2, <2>1, <3>1 DEF Overlap, Setting, Busy, Inv, FreeInv, CallTypes
        <3>3. RegPage'
            BY <1>2, <2>1, <3>1 DEF RegPage, WordOf, IsOneWord
        <3>4. ASSUME NEW d \in Client PROVE RegSet(d)' /\ RegGet(d)'
            <4>1. pc'[d] = IF d = c THEN "check" ELSE pc[d]
                BY <1>2 DEF Inv, FreeInv, CallTypes
            <4>2. RegSet(d)'
                BY <1>2, <2>1, <3>1, <4>1 DEF RegSet, IsOneWord, WordOf
            <4>3. RegGet(d)'
                BY <1>2, <2>1, <3>1, <4>1 DEF RegGet, IsOneWord, Answered
            <4> QED
                BY <4>2, <4>3
        <3> QED
            BY <3>2, <3>3, <3>4 DEF RegInv
    <2> QED
        BY <2>1, <2>2, <2>3 DEF RegInv
<1> QED
    BY <1>1, <1>2 DEF Fallback, Put

\* The value is decoded and accepted: from now on a read may find it.
LEMMA CheckReg ==
    ASSUME NEW c \in Client, Inv, Check(c)
    PROVE  DataTypes' /\ RegInv'
<1> USE DEF Put
<1>1. UNCHANGED <<item, page, op, got, raced>> /\ pc[c] = "check"
    BY DEF Check
<1>2. CASE Verdict(c) # ""
    <2>1. EndSet(c, Verdict(c)) /\ UNCHANGED <<todo, seen>>
        BY <1>2 DEF Check
    <2>2. CASE item \in OneWord
        <3>1. RegSet(c)
            BY <2>2 DEF Inv, RegInv
        <3>2. Verdict(c) = "NONE" => item = "DATASPACE" /\ data[c] # Undecodable /\ page.word = data[c].w
            BY DEF Verdict
        <3> QED
            BY <1>1, <2>1, <3>1, <3>2, EndSetReg DEF RegSet
    <2>3. CASE item \notin OneWord
        BY <1>1, <2>1, <2>3 DEF EndSet, Inv, DataTypes, RegInv
    <2> QED
        BY <2>2, <2>3
<1>3. CASE Verdict(c) = ""
    <2>1. /\ todo' = [todo EXCEPT ![c] = Stores(item, data[c])]
          /\ pc' = [pc EXCEPT ![c] = "store"]
          /\ holds' = holds \union {data[c]}
          /\ seen' = [d \in Client |-> IF seen[d] = {} THEN {} ELSE seen[d] \union {data[c]}]
          /\ UNCHANGED <<data, ans>>
        BY <1>3 DEF Check
    <2>2. DataTypes'
        BY <1>1, <2>1 DEF Inv, DataTypes
    <2>3. ASSUME item \in OneWord PROVE RegInv'
        <3>1. Overlap /\ RegPage /\ \A d \in Client : RegSet(d) /\ RegGet(d)
            BY <2>3 DEF Inv, RegInv
        <3>2. data[c] # Undecodable
            BY <1>3, <2>3 DEF Verdict, OneWord
        <3>3. IsOneWord(data[c])
            BY <1>1, <3>1, <3>2 DEF RegSet
        <3>4. \A d \in Client : pc'[d] = IF d = c THEN "store" ELSE pc[d]
            BY <2>1 DEF Inv, FreeInv, CallTypes
        <3>5. Overlap'
            BY <1>1, <3>1, <3>4 DEF Overlap, Setting, Busy
        <3>6. RegPage'
            BY <1>1, <2>1, <3>1, <3>3 DEF RegPage, WordOf, IsOneWord
        <3>7. ASSUME NEW d \in Client PROVE RegGet(d)'
            <4>1. pc[d] \in {"state", "load"} => seen[d] # {} /\ pc[d] = pc'[d]
                BY <1>1, <3>1, <3>4 DEF RegGet, RegPage
            <4>2. seen[d] \subseteq seen'[d] /\ seen'[d] \subseteq seen[d] \union {data[c]}
                BY <2>1
            <4>3. todo'[d] = IF d = c THEN Stores(item, data[c]) ELSE todo[d]
                BY <2>1 DEF Inv, DataTypes
            <4>4. pc[d] \in {"state", "load"} => holds' \subseteq seen'[d]
                BY <2>1, <3>1, <4>1 DEF RegGet
            <4>5. \A v \in seen'[d] : IsOneWord(v)
                BY <3>1, <3>3, <4>2 DEF RegGet
            <4>6. Answered(d)' => Answered(d) /\ d # c
                BY <1>1, <3>4 DEF Answered
            <4>7. Answered(d)' /\ ans'[d].err = "NONE" => \E v \in seen'[d] : Matches(item', ans'[d].v, v)
                BY <1>1, <2>1, <3>1, <4>2, <4>6 DEF RegGet
            <4>8. pc'[d] # "done" => got'[d] = Occupied(0)
                BY <1>1, <3>1, <3>4 DEF RegGet
            <4>9. /\ pc'[d] \in {"state", "load"} => op'[d] \in {"get", "dump"} /\ holds' \subseteq seen'[d]
                  /\ pc'[d] = "load" => todo'[d] = {1}
                BY <1>1, <3>1, <3>4, <4>3, <4>4 DEF RegGet
            <4> QED
                BY <1>1, <4>5, <4>7, <4>8, <4>9 DEF RegGet, IsOneWord
        <3>8. ASSUME NEW d \in Client, d # c PROVE RegSet(d)'
            <4>1. todo'[d] = todo[d] /\ pc'[d] = pc[d]
                BY <2>1, <3>4, <3>8 DEF Inv, DataTypes
            <4> QED
                BY <1>1, <2>1, <3>1, <4>1 DEF RegSet, IsOneWord, WordOf
        <3>9. RegSet(c)'
            <4>1. todo'[c] = Stores(item, data[c])
                BY <2>1 DEF Inv, DataTypes
            <4>2. item = "AM_OMX_FLAG" => page.state = 1
                BY <3>1 DEF RegPage
            <4> QED
                BY <1>1, <2>1, <2>3, <3>3, <3>4, <4>1, <4>2, StoresOne DEF RegSet, IsOneWord, WordOf
        <3> QED
            BY <3>5, <3>6, <3>7, <3>8, <3>9 DEF RegInv
    <2> QED
        BY <1>1, <2>2, <2>3 DEF RegInv
<1> QED
    BY <1>2, <1>3

LEMMA UseFreedReg ==
    ASSUME NEW c \in Client, Inv, UseFreed(c)
    PROVE  DataTypes' /\ RegInv'
BY EndSetReg DEF UseFreed

LEMMA StoreWordReg ==
    ASSUME NEW c \in Client, Inv, StoreWord(c)
    PROVE  DataTypes' /\ RegInv'
<1> USE DEF Put
<1>1. UNCHANGED <<item, op, got, raced, seen>> /\ pc[c] = "store"
    BY DEF StoreWord
<1>2. PICK s \in todo[c] :
         /\ page' = Stored(page, s) /\ todo' = [todo EXCEPT ![c] = todo[c] \ {s}]
         /\ IF todo[c] = {s}
            THEN /\ pc' = [pc EXCEPT ![c] = "done"] /\ ans' = [ans EXCEPT ![c] = Error("NONE")]
                 /\ data' = [data EXCEPT ![c] = None]
                 /\ holds' = IF ~raced[c] THEN {data[c]} ELSE holds
            ELSE UNCHANGED <<pc, data, ans, holds>>
    BY DEF StoreWord, EndSet
<1>3. DataTypes'
    BY <1>1, <1>2 DEF Inv, DataTypes
<1>4. ASSUME item \in OneWord PROVE RegInv'
    <2> DEFINE W == WordOf(data[c])
    <2>1. Overlap /\ RegPage /\ \A d \in Client : RegSet(d) /\ RegGet(d)
        BY <1>4 DEF Inv, RegInv
    <2>2. /\ IsOneWord(data[c]) /\ data[c] \in holds
          /\ todo[c] \subseteq {Store(0, 1), Store(1, W)}
          /\ Store(0, 1) \notin todo[c] => page.state = 1
          /\ ~raced[c] /\ Store(1, W) \notin todo[c] => page.word[1] = W
        BY <1>1, <2>1 DEF RegSet
    <2>3. op[c] = "set" /\ Setting(c)
        BY <1>1 DEF Inv, FreeInv, Uses, Setting, Busy
    <2>4. \/ s = Store(0, 1) /\ page' = [state |-> 1, word |-> <<page.word[1]>>]
          \/ s = Store(1, W) /\ page' = [state |-> page.state, word |-> <<W>>]
        <3>1. page.word = <<page.word[1]>>
            BY <2>1 DEF RegPage
        <3> QED
            BY <1>2, <2>2, <3>1, StoredOne
    <2>5. /\ page' = [state |-> page'.state, word |-> <<page'.word[1]>>] /\ page'.state \in {0, 1}
          /\ page.state = 1 => page'.state = 1
          /\ s = Store(0, 1) => page'.state = 1 /\ page'.word[1] = page.word[1]
          /\ s = Store(1, W) => page'.state = page.state /\ page'.word[1] = W
        <3>1. page.state \in {0, 1}
            BY <2>1 DEF RegPage
        <3>2. Store(0, 1) # Store(1, W)
            BY DEF Store
        <3> HIDE DEF W
        <3>3. CASE s = Store(0, 1)
            BY <2>4, <3>1, <3>2, <3>3
        <3>4. CASE s = Store(1, W)
            BY <2>4, <3>1, <3>2, <3>4
        <3> QED
            BY <2>4, <3>3, <3>4
    <2>6. holds' # holds => /\ holds' = {data[c]} /\ ~raced[c]
                            /\ page'.state = 1 /\ page'.word[1] = W
        <3>1. Store(0, 1) # Store(1, W)
            BY DEF Store
        <3> HIDE DEF W
        <3> QED
            BY <1>2, <2>2, <2>4, <2>5, <3>1
    <2>7. holds' \subseteq holds
        BY <2>2, <2>6
    <2>8. item' = item /\ \A v : (IsOneWord(v)' <=> IsOneWord(v)) /\ WordOf(v)' = WordOf(v)
        BY <1>1 DEF IsOneWord, WordOf
    <2> HIDE DEF W
    <2>9. RegPage'
        <3>1. \E v \in holds' : WordOf(v) = page'.word[1]
            <4>1. CASE holds' # holds
                BY <2>6, <4>1 DEF W
            <4>2. CASE holds' = holds
                BY <2>1, <2>2, <2>4, <2>5, <4>2 DEF W, RegPage
            <4> QED
                BY <4>1, <4>2
        <3>2. page'.state = 0 => item = "BLEND_MODE" /\ Some(<<INVALID>>) \in holds'
            BY <2>1, <2>5, <2>6 DEF RegPage
        <3> QED
            BY <2>1, <2>5, <2>7, <2>8, <3>1, <3>2 DEF RegPage, WordOf, IsOneWord
    <2>10. ASSUME NEW d \in Client, d # c
           PROVE pc'[d] = pc[d] /\ data'[d] = data[d] /\ ans'[d] = ans[d] /\ todo'[d] = todo[d]
        BY <1>2, <2>10 DEF Inv, FreeInv, CallTypes, DataTypes
    <2>11. /\ todo'[c] = todo[c] \ {s}
           /\ \/ pc'[c] = "done"
              \/ pc'[c] = "store" /\ data'[c] = data[c] /\ holds' = holds
           /\ op'[c] = "set"
        BY <1>1, <1>2, <2>3 DEF Inv, FreeInv, CallTypes, DataTypes
    <2>12. Overlap'
        BY <1>1, <2>1, <2>3, <2>10 DEF Overlap, Setting, Busy
    <2>13. ASSUME NEW d \in Client PROVE RegSet(d)'
        <3>1. CASE d # c
            <4>1. pc[d] = "store" => raced[c] /\ raced[d]
                BY <2>1, <2>3, <3>1 DEF Overlap, Setting, Busy, Inv, FreeInv, Uses
            <4>2. pc[d] = "store" => holds' = holds
                BY <2>6, <4>1
            <4> QED
                BY <1>1, <2>1, <2>5, <2>8, <2>10, <3>1, <4>1, <4>2 DEF RegSet
        <3>2. CASE d = c
            BY <1>1, <2>2, <2>4, <2>5, <2>8, <2>11, <3>2 DEF RegSet, W
        <3> QED
            BY <3>1, <3>2
    <2>14. ASSUME NEW d \in Client PROVE RegGet(d)'
        <3>1. CASE d # c
            BY <1>1, <2>1, <2>7, <2>8, <2>10, <3>1 DEF RegGet, Answered
        <3>2. CASE d = c
            BY <1>1, <2>1, <2>8, <2>11, <3>2 DEF RegGet, Answered
        <3> QED
            BY <3>1, <3>2
    <2> QED
        BY <2>9, <2>12, <2>13, <2>14 DEF RegInv
<1> QED
    BY <1>1, <1>3, <1>4 DEF RegInv

LEMMA NextRegInv == Inv /\ [Next]_vars => Inv'
<1> SUFFICES ASSUME Inv, [Next]_vars PROVE Inv'
    OBVIOUS
<1>1. FreeInv'
    BY NextFreeInv DEF Inv
<1>2. ASSUME NEW c \in Client \ Reader, NEW o \in {"get", "dump"}, ReadRaw(c, o) \/ Read(c, o)
      PROVE  DataTypes' /\ RegInv'
    BY <1>2, ReadReg
<1>3. ASSUME NEW c \in Client, Read(c, "get") PROVE DataTypes' /\ RegInv'
    BY <1>3, ReadReg
<1>4. ASSUME NEW c \in Client, NEW v \in Values \union {Undecodable}, SetImported(c, v) \/ SetRaw(c, v)
      PROVE  DataTypes' /\ RegInv'
    BY <1>4, SetReg
<1>5. ASSUME UNCHANGED vars PROVE DataTypes' /\ RegInv'
    <2>1. DataTypes'
        BY <1>5 DEF vars, call, work, history, Inv, DataTypes
    <2>2. UNCHANGED <<item, page, holds, seen, raced, data, op, todo, got, ans, pc>>
        BY <1>5 DEF vars, call, work, history
    <2>3. ASSUME item \in OneWord, NEW c \in Client PROVE RegSet(c)' /\ RegGet(c)'
        <3>1. RegSet(c) /\ RegGet(c)
            BY <2>3 DEF Inv, RegInv
        <3>2. RegSet(c)'
            BY <2>2, <3>1 DEF RegSet, IsOneWord, WordOf
        <3>3. RegGet(c)'
            BY <2>2, <3>1 DEF RegGet, IsOneWord, Answered
        <3> QED
            BY <3>2, <3>3
    <2>4. ASSUME item \in OneWord PROVE (Overlap /\ RegPage)'
        BY <2>2, <2>4 DEF Inv, RegInv, Overlap, RegPage, Setting, Busy, IsOneWord, WordOf
    <2>5. RegInv'
        BY <2>2, <2>3, <2>4 DEF RegInv
    <2> QED
        BY <2>1, <2>5
<1>6. ASSUME NEW c \in Client, Import(c) \/ Unregister(c) \/ Unmap(c) \/ Clear(c) \/ Delete(c)
      PROVE  DataTypes' /\ RegInv'
    BY <1>6, HandleStepsReg
<1>7. ASSUME NEW c \in Client,
             Fallback(c) \/ Check(c) \/ StoreWord(c) \/ UseFreed(c) \/ LoadState(c) \/ Load(c) \/ Return(c)
      PROVE  DataTypes' /\ RegInv'
    BY <1>7, LoadStateReg, LoadReg, ReturnReg, FallbackReg, CheckReg, StoreWordReg, UseFreedReg
<1>8. DataTypes' /\ RegInv'
    BY <1>2, <1>3, <1>4, <1>5, <1>6, <1>7, MetadataAssumption DEF Next
<1> QED
    BY <1>1, <1>8 DEF Inv

-----------------------------------------------------------------------------
(* Crops: every word of the page, and of what was read of it, is inside    *)
(* the plane on its side, whichever sets the words are from                *)

Pair(w)   == w = <<w[1], w[2]>>
Inside(w) == Pair(w) /\ w[1] >= 0 /\ w[2] <= AllocWidth

\* A store of a crop that was accepted.
GoodStore(s) ==
    \/ s = Store(0, 1)
    \/ \E x : s = Store(1, x) /\ x >= 0
    \/ \E x : s = Store(2, x) /\ x <= AllocWidth

CropCall(c) ==
    /\ pc[c] \in {"fallback", "check"} => data[c] = Undecodable \/ data[c] = Some(<<data[c].w[1], data[c].w[2]>>)
    /\ pc[c] = "store" => \A s \in todo[c] : GoodStore(s)
    /\ pc[c] = "load" => todo[c] \subseteq {1, 2}
    /\ pc[c] # "done" => Inside(got[c].word)
    /\ Answered(c) /\ ans[c].err = "NONE" => Inside(ans[c].v.w)

CropInv == item = "CROP" => Inside(page.word) /\ \A c \in Client : CropCall(c)

LEMMA ZeroPair == [i \in {1, 2} |-> 0] = <<0, 0>> /\ Inside(<<0, 0>>)
<1>1. [i \in {1, 2} |-> 0] = <<0, 0>>
    OBVIOUS
<1>2. Inside(<<0, 0>>)
    BY SharedMetadataAssumption DEF Inside, Pair
<1> QED
    BY <1>1, <1>2

LEMMA BlankInside == Pair(page.word) => Inside(Blank.word)
<1> SUFFICES ASSUME Pair(page.word) PROVE Inside(Blank.word)
    OBVIOUS
<1>1. DOMAIN page.word = {1, 2}
    <2>1. DOMAIN <<page.word[1], page.word[2]>> = {1, 2}
        OBVIOUS
    <2> QED
        BY <2>1 DEF Pair
<1> QED
    BY <1>1, ZeroPair DEF Blank

LEMMA StoredInside ==
    ASSUME NEW p, NEW s, Inside(p.word), GoodStore(s)
    PROVE  Inside(Stored(p, s).word)
<1>1. CASE s = Store(0, 1)
    BY <1>1 DEF Stored, Store
<1>2. ASSUME NEW x, s = Store(1, x), x >= 0 PROVE Inside(Stored(p, s).word)
    <2>1. Stored(p, s).word = [p.word EXCEPT ![1] = x]
        BY <1>2 DEF Stored, Store
    <2>2. [<<p.word[1], p.word[2]>> EXCEPT ![1] = x] = <<x, p.word[2]>>
        OBVIOUS
    <2> QED
        BY <1>2, <2>1, <2>2 DEF Inside, Pair
<1>3. ASSUME NEW x, s = Store(2, x), x <= AllocWidth PROVE Inside(Stored(p, s).word)
    <2>1. Stored(p, s).word = [p.word EXCEPT ![2] = x]
        BY <1>3 DEF Stored, Store
    <2>2. [<<p.word[1], p.word[2]>> EXCEPT ![2] = x] = <<p.word[1], x>>
        OBVIOUS
    <2> QED
        BY <1>3, <2>1, <2>2 DEF Inside, Pair
<1> QED
    BY <1>1, <1>2, <1>3 DEF GoodStore

LEMMA InitCropInv == Init => CropInv
<1> SUFFICES ASSUME Init, item = "CROP" PROVE Inside(page.word) /\ \A c \in Client : CropCall(c)
    BY DEF CropInv
<1>1. page.word = <<0, 0>>
    <2>1. page = Vacant(2)
        BY DEF Init, InitialPages, OfTheHandle
    <2>2. 1 .. 2 = {1, 2}
        OBVIOUS
    <2> QED
        BY <2>1, <2>2, ZeroPair DEF Vacant
<1>2. Inside(page.word) /\ Inside(Blank.word)
    BY <1>1, ZeroPair, BlankInside DEF Inside
<1> QED
    BY <1>2 DEF Init, CropCall, Answered

\* A step of c that leaves what the calls of others work on alone.
LEMMA StepOfOne ==
    ASSUME NEW c \in Client, CropInv, item' = item,
           item = "CROP" => Inside(page'.word) /\ CropCall(c)',
           \A d \in Client \ {c} : /\ pc'[d] = pc[d] /\ op'[d] = op[d] /\ data'[d] = data[d]
                                   /\ todo'[d] = todo[d] /\ got'[d] = got[d] /\ ans'[d] = ans[d]
    PROVE  CropInv'
<1>1. ASSUME item = "CROP", NEW d \in Client \ {c} PROVE CropCall(d)'
    <2>1. CropCall(d)
        BY <1>1 DEF CropInv
    <2> QED
        BY <2>1 DEF CropCall, Answered
<1> QED
    BY <1>1 DEF CropInv

LEMMA HandleStepsCrop ==
    ASSUME NEW c \in Client, Inv, CropInv, Import(c) \/ Unregister(c) \/ Unmap(c) \/ Clear(c) \/ Delete(c)
    PROVE  CropInv'
<1>1. /\ UNCHANGED <<item, page, data, op, todo, got, ans>>
      /\ \/ pc' = pc
         \/ \E l \in {"idle", "unmap", "clear", "delete"} : pc' = [pc EXCEPT ![c] = l]
      /\ pc[c] # "done"
    BY DEF Import, Unregister, Unmap, Clear, Delete, Put, call, work, history
<1>2. /\ \A d \in Client \ {c} : pc'[d] = pc[d]
      /\ pc'[c] = pc[c] \/ pc'[c] \in {"idle", "unmap", "clear", "delete"}
    BY <1>1 DEF Inv, FreeInv, CallTypes
<1>3. ASSUME item = "CROP" PROVE CropCall(c)'
    <2>1. CropCall(c)
        BY <1>3 DEF CropInv
    <2> QED
        BY <1>1, <1>2, <2>1 DEF CropCall, Answered
<1> QED
    BY <1>1, <1>2, <1>3, StepOfOne DEF CropInv

LEMMA CropValues == item = "CROP" => \A v \in Values : v = Some(<<v.w[1], v.w[2]>>)
BY DEF OfTheHandle, Values, Some

LEMMA BeginCrop ==
    ASSUME NEW c \in Client, NEW o, NEW v, NEW next \in {"fallback", "check", "state", "done"},
           Inv, CropInv, Begin(c, o, v, next), \A d \in Client \ {c} : ans'[d] = ans[d],
           next = "done" => ans'[c].err # "NONE",
           next \in {"fallback", "check"} => v \in Values \union {Undecodable}
    PROVE  CropInv'
<1> USE DEF Begin, Put
<1>1. /\ pc'[c] = next /\ data'[c] = v /\ got' = got /\ pc[c] = "idle" /\ page' = page /\ item' = item
      /\ \A d \in Client \ {c} : pc'[d] = pc[d] /\ op'[d] = op[d] /\ data'[d] = data[d] /\ todo'[d] = todo[d]
    BY DEF Inv, FreeInv, CallTypes, DataTypes
<1> HIDE DEF Begin, Put
<1>2. ASSUME item = "CROP" PROVE CropCall(c)'
    <2>1. CropCall(c)
        BY <1>2 DEF CropInv
    <2> QED
        BY <1>1, <1>2, <2>1, CropValues DEF CropCall, Answered
<1> QED
    BY <1>1, <1>2, StepOfOne DEF CropInv

LEMMA CallsCrop ==
    ASSUME NEW c \in Client, Inv, CropInv,
           \/ \E o \in {"get", "dump"} : ReadRaw(c, o) \/ Read(c, o)
           \/ \E v \in Values \union {Undecodable} : SetImported(c, v) \/ SetRaw(c, v)
    PROVE  CropInv'
<1>1. DOMAIN ans = Client
    BY DEF Inv, FreeInv, CallTypes
<1>2. ASSUME item # "CROP" PROVE CropInv'
    <2>1. item' = item
        BY DEF ReadRaw, Read, SetImported, SetRaw, Begin
    <2> QED
        BY <1>2, <2>1 DEF CropInv
<1>3. ASSUME item = "CROP"
      PROVE  \/ \E o : Begin(c, o, None, "state") /\ UNCHANGED ans
             \/ \E v \in Values \union {Undecodable}, next \in {"check", "fallback"} :
                   Begin(c, "set", v, next) /\ UNCHANGED ans
             \/ \E o, e : Begin(c, o, None, "done") /\ ans' = Put(ans, c, Error(e)) /\ e # "NONE"
    <2>1. \A o \in {"get", "dump"} : ReadRaw(c, o) =>
             \E e : Begin(c, o, None, "done") /\ ans' = Put(ans, c, Error(e)) /\ e # "NONE"
        BY <1>3 DEF ReadRaw, OfTheHandle
    <2>2. \A o \in {"get", "dump"} : Read(c, o) => Begin(c, o, None, "state") /\ UNCHANGED ans
        BY <1>3 DEF Read
    <2>3. \A v : SetImported(c, v) => Begin(c, "set", v, "check") /\ UNCHANGED ans
        BY DEF SetImported
    <2>4. \A v : SetRaw(c, v) => Begin(c, "set", None, "done") /\ ans' = Put(ans, c, Error("BAD_BUFFER"))
        BY <1>3 DEF SetRaw
    <2> QED
        BY <2>1, <2>2, <2>3, <2>4
<1>4. ASSUME NEW o, Begin(c, o, None, "state") /\ UNCHANGED ans PROVE CropInv'
    BY <1>4, BeginCrop
<1>5. ASSUME NEW v \in Values \union {Undecodable}, NEW next \in {"check", "fallback"},
             Begin(c, "set", v, next) /\ UNCHANGED ans
      PROVE  CropInv'
    BY <1>5, BeginCrop
<1>6. ASSUME NEW o, NEW e, Begin(c, o, None, "done") /\ ans' = Put(ans, c, Error(e)) /\ e # "NONE"
      PROVE  CropInv'
    <2>1. ans'[c].err # "NONE" /\ \A d \in Client \ {c} : ans'[d] = ans[d]
        BY <1>1, <1>6, ErrorErr DEF Put
    <2> QED
        BY <1>6, <2>1, BeginCrop
<1> QED
    BY <1>2, <1>3, <1>4, <1>5, <1>6

\* What a read shows of words that are inside is inside, and so is the default.
LEMMA ShownInside ==
    ASSUME item = "CROP", NEW p, Inside(p.word)
    PROVE  Inside(Shown(item, p).w) /\ Inside(Default(item).w)
<1>1. Default(item) = Some(<<0, Width>>)
    BY DEF Default
<1>2. Inside(<<0, Width>>)
    BY SharedMetadataAssumption DEF Inside, Pair
<1> QED
    BY <1>1, <1>2 DEF Shown, Some

LEMMA LoadCrop ==
    ASSUME NEW c \in Client, Inv, CropInv, LoadState(c) \/ Load(c)
    PROVE  CropInv'
<1> USE DEF Put
<1>1. /\ UNCHANGED <<item, page, op, data>> /\ pc[c] \in {"state", "load"}
      /\ \A d \in Client \ {c} : /\ pc'[d] = pc[d] /\ todo'[d] = todo[d]
                                 /\ got'[d] = got[d] /\ ans'[d] = ans[d]
    BY DEF LoadState, Load, Answer, call, Inv, FreeInv, CallTypes, DataTypes
<1>2. ASSUME item = "CROP", LoadState(c) PROVE CropCall(c)'
    <2>1. CropCall(c) /\ Inside(page.word)
        BY <1>2 DEF CropInv
    <2>2. CASE page.state = 0
        <3>1. PICK room : ans' = [ans EXCEPT ![c] = Encoded(c, op[c], Default(item), room)]
            BY <1>2, <2>2 DEF LoadState, Answer
        <3>2. /\ ans'[c] = Encoded(c, op[c], Default(item), room) /\ pc'[c] = "done"
              /\ Inside(Default(item).w)
            BY <1>2, <2>1, <2>2, <3>1, ShownInside DEF LoadState, Answer, Inv, FreeInv, CallTypes
        <3> QED
            BY <2>1, <3>2, EncodedReg DEF CropCall
    <2>3. CASE page.state # 0
        <3>1. DOMAIN page.word = {1, 2}
            <4>1. DOMAIN <<page.word[1], page.word[2]>> = {1, 2}
                OBVIOUS
            <4> QED
                BY <2>1, <4>1 DEF Inside, Pair
        <3>2. pc'[c] = "load" /\ todo'[c] = {1, 2} /\ got' = got
            BY <1>2, <2>3, <3>1 DEF LoadState, Inv, FreeInv, CallTypes, DataTypes
        <3> QED
            BY <1>1, <2>1, <3>2 DEF CropCall, Answered
    <2> QED
        BY <2>2, <2>3
<1>3. ASSUME item = "CROP", Load(c) PROVE CropCall(c)'
    <2>1. PICK i \in todo[c] :
             LET read == Stored(got[c], Store(i, page.word[i]))
             IN  /\ got' = [got EXCEPT ![c] = read] /\ todo' = [todo EXCEPT ![c] = todo[c] \ {i}]
                 /\ IF todo[c] = {i}
                    THEN /\ \E room : ans' = [ans EXCEPT ![c] = Encoded(c, op[c], Shown(item, read), room)]
                         /\ pc' = [pc EXCEPT ![c] = "done"]
                    ELSE pc' = pc /\ ans' = ans
        BY <1>3 DEF Load, Answer
    <2>2. pc[c] = "load" /\ CropCall(c) /\ Inside(page.word) /\ i \in {1, 2} /\ Inside(got[c].word)
        BY <1>3, <2>1 DEF Load, CropInv, CropCall
    <2> DEFINE read == Stored(got[c], Store(i, page.word[i]))
    <2>3. Inside(read.word)
        <3>1. GoodStore(Store(i, page.word[i]))
            BY <2>2 DEF GoodStore, Inside
        <3> QED
            BY <2>2, <3>1, StoredInside
    <2>4. got'[c] = read /\ todo'[c] = todo[c] \ {i}
        BY <2>1 DEF Inv, DataTypes
    <2>5. got' = [got EXCEPT ![c] = read]
        BY <2>1
    <2>6. \/ pc' = pc /\ ans' = ans
          \/ /\ pc'[c] = "done"
             /\ \E room : ans'[c] = Encoded(c, op[c], Shown(item, read), room)
        BY <2>1 DEF Inv, FreeInv, CallTypes
    <2> HIDE DEF read
    <2>7. CASE pc' = pc /\ ans' = ans
        BY <1>1, <2>2, <2>3, <2>4, <2>7 DEF CropCall, Answered
    <2>8. ASSUME pc'[c] = "done", NEW room, ans'[c] = Encoded(c, op[c], Shown(item, read), room)
          PROVE  CropCall(c)'
        <3>1. Inside(Shown(item, read).w)
            BY <1>3, <2>3, ShownInside
        <3> QED
            BY <2>8, <3>1, EncodedReg DEF CropCall
    <2> QED
        BY <2>6, <2>7, <2>8
<1> QED
    BY <1>1, <1>2, <1>3, StepOfOne DEF CropInv

LEMMA ReturnCrop ==
    ASSUME NEW c \in Client, Inv, CropInv, Return(c)
    PROVE  CropInv'
<1>1. /\ UNCHANGED <<item, page, data>> /\ pc'[c] = "idle" /\ got'[c] = Blank /\ op'[c] = "get"
      /\ \A d \in Client \ {c} : /\ pc'[d] = pc[d] /\ op'[d] = op[d] /\ todo'[d] = todo[d]
                                 /\ got'[d] = got[d] /\ ans'[d] = ans[d]
    BY DEF Return, Put, Inv, FreeInv, CallTypes, DataTypes
<1>2. ASSUME item = "CROP" PROVE Inside(page.word) /\ CropCall(c)'
    <2>1. Inside(page.word) /\ Inside(Blank.word)
        BY <1>2, BlankInside DEF CropInv, Inside
    <2> QED
        BY <1>1, <2>1 DEF CropCall, Answered
<1> QED
    BY <1>1, <1>2, StepOfOne

\* The step that ends a set is a step to an answer that is no value.
LEMMA EndSetCrop ==
    ASSUME NEW c \in Client, NEW e, Inv, CropInv, EndSet(c, e),
           pc[c] \in {"fallback", "check", "store"}, UNCHANGED <<item, op, got>>,
           item = "CROP" => Inside(page'.word), \A d \in Client \ {c} : todo'[d] = todo[d]
    PROVE  CropInv'
<1>1. /\ pc'[c] = "done" /\ op'[c] = "set"
      /\ \A d \in Client \ {c} : pc'[d] = pc[d] /\ data'[d] = data[d] /\ ans'[d] = ans[d]
    BY DEF EndSet, Put, Inv, FreeInv, CallTypes, DataTypes, Uses
<1>2. CropCall(c)'
    BY <1>1 DEF CropCall, Answered
<1> QED
    BY <1>1, <1>2, StepOfOne

LEMMA FallbackCrop ==
    ASSUME NEW c \in Client, Inv, CropInv, Fallback(c)
    PROVE  CropInv'
<1>1. UNCHANGED <<item, page, op, todo, got>> /\ pc[c] = "fallback"
    BY DEF Fallback
<1>2. CASE EndSet(c, "BAD_BUFFER")
    BY <1>1, <1>2, EndSetCrop DEF CropInv
<1>3. CASE pc' = [pc EXCEPT ![c] = "check"] /\ UNCHANGED <<data, ans>>
    <2>1. pc'[c] = "check" /\ \A d \in Client \ {c} : pc'[d] = pc[d]
        BY <1>3 DEF Inv, FreeInv, CallTypes
    <2>2. ASSUME item = "CROP" PROVE CropCall(c)'
        <3>1. CropCall(c)
            BY <2>2 DEF CropInv
        <3> QED
            BY <1>1, <1>3, <2>1, <3>1 DEF CropCall, Answered
    <2> QED
        BY <1>1, <1>3, <2>1, <2>2, StepOfOne DEF CropInv
<1> QED
    BY <1>2, <1>3 DEF Fallback, Put

LEMMA CheckCrop ==
    ASSUME NEW c \in Client, Inv, CropInv, Check(c)
    PROVE  CropInv'
<1>1. UNCHANGED <<item, page, op, got>> /\ pc[c] = "check"
    BY DEF Check
<1>2. CASE Verdict(c) # ""
    BY <1>1, <1>2, EndSetCrop DEF Check, CropInv
<1>3. CASE Verdict(c) = ""
    <2>1. /\ todo' = [todo EXCEPT ![c] = Stores(item, data[c])]
          /\ pc' = [pc EXCEPT ![c] = "store"] /\ UNCHANGED <<data, ans>>
        BY <1>3 DEF Check, Put
    <2>2. /\ pc'[c] = "store" /\ todo'[c] = Stores(item, data[c])
          /\ \A d \in Client \ {c} : pc'[d] = pc[d] /\ todo'[d] = todo[d]
        BY <2>1 DEF Inv, FreeInv, CallTypes, DataTypes
    <2>3. ASSUME item = "CROP" PROVE CropCall(c)'
        <3>1. CropCall(c)
            BY <2>3 DEF CropInv
        <3>2. data[c] # Undecodable /\ ValidCrop(data[c].w)
            BY <1>3, <2>3 DEF Verdict, Accepted
        <3>3. PICK x, y : data[c] = Some(<<x, y>>)
            BY <1>1, <3>1, <3>2 DEF CropCall
        <3>4. x >= 0 /\ y <= AllocWidth
            BY <3>2, <3>3 DEF ValidCrop, Some
        <3>5. Stores(item, data[c]) = {Store(0, 1)} \union StoreWords(<<x, y>>)
            BY <2>3, <3>3 DEF Stores, Some
        <3>6. StoreWords(<<x, y>>) = {Store(1, x), Store(2, y)}
            BY DEF StoreWords
        <3>7. \A s \in todo'[c] : GoodStore(s)
            BY <2>2, <3>4, <3>5, <3>6 DEF GoodStore
        <3> QED
            BY <1>1, <2>1, <2>2, <3>1, <3>7 DEF CropCall, Answered
    <2> QED
        BY <1>1, <2>1, <2>2, <2>3, StepOfOne DEF CropInv
<1> QED
    BY <1>2, <1>3

LEMMA StoreWordCrop ==
    ASSUME NEW c \in Client, Inv, CropInv, StoreWord(c)
    PROVE  CropInv'
<1>1. PICK s \in todo[c] :
         /\ page' = Stored(page, s) /\ todo' = [todo EXCEPT ![c] = todo[c] \ {s}]
         /\ IF todo[c] = {s} THEN EndSet(c, "NONE") ELSE UNCHANGED <<pc, data, ans, holds>>
    BY DEF StoreWord, Put
<1>2. UNCHANGED <<item, op, got>> /\ pc[c] = "store"
    BY DEF StoreWord
<1>3. item = "CROP" => Inside(page'.word)
    BY <1>1, <1>2, StoredInside DEF CropInv, CropCall
<1>4. todo'[c] = todo[c] \ {s} /\ \A d \in Client \ {c} : todo'[d] = todo[d]
    BY <1>1 DEF Inv, DataTypes
<1>5. CASE EndSet(c, "NONE")
    BY <1>2, <1>3, <1>4, <1>5, EndSetCrop
<1>6. CASE UNCHANGED <<pc, data, ans>>
    <2>1. ASSUME item = "CROP" PROVE CropCall(c)'
        <3>1. CropCall(c)
            BY <2>1 DEF CropInv
        <3> QED
            BY <1>2, <1>4, <1>6, <3>1 DEF CropCall, Answered
    <2> QED
        BY <1>2, <1>3, <1>4, <1>6, <2>1, StepOfOne
<1> QED
    BY <1>1, <1>5, <1>6

LEMMA UseFreedCrop ==
    ASSUME NEW c \in Client, Inv, CropInv, UseFreed(c)
    PROVE  CropInv'
BY EndSetCrop DEF UseFreed, CropInv

LEMMA NextCropInv == Inv /\ CropInv /\ [Next]_vars => CropInv'
<1> SUFFICES ASSUME Inv, CropInv, [Next]_vars PROVE CropInv'
    OBVIOUS
<1>1. ASSUME NEW c \in Client,
             \/ \E o \in {"get", "dump"} : ReadRaw(c, o) \/ Read(c, o)
             \/ \E v \in Values \union {Undecodable} : SetImported(c, v) \/ SetRaw(c, v)
      PROVE  CropInv'
    BY <1>1, CallsCrop
<1>2. ASSUME NEW c \in Client, Import(c) \/ Unregister(c) \/ Unmap(c) \/ Clear(c) \/ Delete(c)
      PROVE  CropInv'
    BY <1>2, HandleStepsCrop
<1>3. ASSUME NEW c \in Client,
             Fallback(c) \/ Check(c) \/ StoreWord(c) \/ UseFreed(c) \/ LoadState(c) \/ Load(c) \/ Return(c)
      PROVE  CropInv'
    BY <1>3, LoadCrop, ReturnCrop, FallbackCrop, CheckCrop, StoreWordCrop, UseFreedCrop
<1>4. ASSUME UNCHANGED vars PROVE CropInv'
    <2>1. UNCHANGED <<item, page, data, op, todo, got, ans, pc>>
        BY <1>4 DEF vars, call, work, history
    <2> QED
        BY <2>1 DEF CropInv, CropCall, Answered
<1> QED
    BY <1>1, <1>2, <1>3, <1>4, MetadataAssumption DEF Next

-----------------------------------------------------------------------------
(* All items: their words, the values they keep, and pages that hold one   *)

Words ==
    IF item \in {"CROP", "CTA861_3"} THEN 1 .. 2
    ELSE IF item = "SMPTE2094_40" THEN 1 .. Capacity
    ELSE 1 .. 1

\* A value that the item may hold: of the item's shape, none only where that can be stored.
Kept(v) ==
    IF ~v.some THEN v = None /\ item \in {"CTA861_3", "SMPTE2094_40"}
    ELSE /\ item \in OneWord \union OfTheHandle => IsOneWord(v)
         /\ item \in {"CROP", "CTA861_3"} => v = Some(<<v.w[1], v.w[2]>>)
         /\ item = "SMPTE2094_40" => v = Some(v.w) /\ Len(v.w) \in 1 .. Capacity /\ DOMAIN v.w = 1 .. Len(v.w)

HasWords(w) == w = [i \in Words |-> w[i]]

AlwaysOccupied == {"DATASPACE", "CHROMA_SITING", "AM_OMX_FLAG"} \union OfTheHandle

\* The store s is in the page p.
In(p, s) == IF s.at = 0 THEN p.state = s.to ELSE p.word[s.at] = s.to

\* A read of the page p that nothing disturbs answers with v.
Shows(p, v) ==
    LET read == Shown(item, p)
    IN  Matches(item, read, v) /\ read.some = v.some

LEMMA WordsAre ==
    /\ item \in OneWord \union OfTheHandle => Words = {1}
    /\ item \in {"CROP", "CTA861_3"} => Words = {1, 2}
    /\ item = "SMPTE2094_40" => Words = 1 .. Capacity
<1>1. 1 .. 1 = {1} /\ 1 .. 2 = {1, 2}
    OBVIOUS
<1> QED
    BY <1>1 DEF Words, OneWord, OfTheHandle

LEMMA TupleOfTwo == \A x, y : [i \in {1, 2} |-> IF i = 1 THEN x ELSE y] = <<x, y>>
OBVIOUS

\* Words of the right number are a tuple.
LEMMA WordsTuple ==
    ASSUME NEW w, HasWords(w)
    PROVE  /\ item \in OneWord \union OfTheHandle => w = <<w[1]>>
           /\ item \in {"CROP", "CTA861_3"} => w = <<w[1], w[2]>>
<1>1. ASSUME item \in OneWord \union OfTheHandle PROVE w = <<w[1]>>
    <2>1. w = [i \in {1} |-> w[i]]
        BY <1>1, WordsAre DEF HasWords
    <2>2. w = [i \in {1} |-> w[1]]
        BY <2>1
    <2> QED
        BY <2>2, TupleOfOne
<1>2. ASSUME item \in {"CROP", "CTA861_3"} PROVE w = <<w[1], w[2]>>
    <2>1. w = [i \in {1, 2} |-> w[i]]
        BY <1>2, WordsAre DEF HasWords
    <2>2. w = [i \in {1, 2} |-> IF i = 1 THEN w[1] ELSE w[2]]
        BY <2>1
    <2> QED
        BY <2>2, TupleOfTwo
<1> QED
    BY <1>1, <1>2

LEMMA StoreWordsOfOne == \A x : StoreWords(<<x>>) = {Store(1, x)}
BY DEF StoreWords

LEMMA StoreWordsOfTwo == \A x, y : StoreWords(<<x, y>>) = {Store(1, x), Store(2, y)}
BY DEF StoreWords

LEMMA EmptyStores == Len(<<>>) = 0 /\ StoreWords(<<>>) = {}
BY DEF StoreWords

\* What a set stores, item by item.
LEMMA StoresAre ==
    ASSUME item \in Settable, NEW v, Kept(v)
    PROVE  /\ item \in {"DATASPACE", "BLEND_MODE"} => Stores(item, v) = {Store(0, 1), Store(1, v.w[1])}
           /\ item = "CHROMA_SITING" => Stores(item, v) = {Store(0, 1), Store(1, v.w[2])}
           /\ item = "AM_OMX_FLAG" => Stores(item, v) = {Store(1, v.w[1])}
           /\ item \in {"CROP", "CTA861_3"} /\ v.some
                => Stores(item, v) = {Store(0, 1), Store(1, v.w[1]), Store(2, v.w[2])}
           /\ item = "CTA861_3" /\ ~v.some => Stores(item, v) = {Store(0, 0)}
           /\ item = "SMPTE2094_40" => Stores(item, v) = {Store(0, Len(v.w))} \union StoreWords(v.w)
<1>1. ASSUME item \in {"DATASPACE", "BLEND_MODE", "AM_OMX_FLAG"}
      PROVE  v.some /\ v.w = <<v.w[1]>> /\ StoreWords(v.w) = {Store(1, v.w[1])}
    <2>1. v = Some(<<v.w[1]>>)
        BY <1>1 DEF Kept, OneWord, IsOneWord
    <2>2. v.some /\ v.w = <<v.w[1]>>
        BY <2>1 DEF Some
    <2> QED
        BY <2>2, StoreWordsOfOne
<1>2. ASSUME item \in {"CROP", "CTA861_3"}, v.some
      PROVE  StoreWords(v.w) = {Store(1, v.w[1]), Store(2, v.w[2])}
    <2>1. v = Some(<<v.w[1], v.w[2]>>)
        BY <1>2 DEF Kept
    <2>2. v.w = <<v.w[1], v.w[2]>>
        BY <2>1 DEF Some
    <2> QED
        BY <2>2, StoreWordsOfTwo
<1>3. item \in {"DATASPACE", "BLEND_MODE"} => Stores(item, v) = {Store(0, 1), Store(1, v.w[1])}
    BY <1>1 DEF Stores
<1>4. item = "CHROMA_SITING" => Stores(item, v) = {Store(0, 1), Store(1, v.w[2])}
    <2>1. item = "CHROMA_SITING" => v.some
        BY DEF Kept
    <2> QED
        BY <2>1 DEF Stores
<1>5. item = "AM_OMX_FLAG" => Stores(item, v) = {Store(1, v.w[1])}
    BY <1>1 DEF Stores
<1>6. item \in {"CROP", "CTA861_3"} /\ v.some
                => Stores(item, v) = {Store(0, 1), Store(1, v.w[1]), Store(2, v.w[2])}
    BY <1>2 DEF Stores
<1>7. item = "CTA861_3" /\ ~v.some => Stores(item, v) = {Store(0, 0)}
    BY DEF Stores
<1>8. item = "SMPTE2094_40" => Stores(item, v) = {Store(0, Len(v.w))} \union StoreWords(v.w)
    <2>1. ~v.some => v.w = <<>>
        BY DEF Kept, None
    <2>2. ~v.some => {Store(0, Len(v.w))} \union StoreWords(v.w) = {Store(0, 0)}
        BY <2>1, EmptyStores
    <2> QED
        BY <2>2 DEF Stores
<1> QED
    BY <1>3, <1>4, <1>5, <1>6, <1>7, <1>8

\* The stores of a set go to places of the item, each to its own.
LEMMA StoresApart ==
    ASSUME item \in Settable, NEW v, Kept(v), NEW s \in Stores(item, v)
    PROVE  /\ s.at = 0 \/ s.at \in Words
           /\ item \in AlwaysOccupied /\ s.at = 0 => s.to = 1
           /\ \A t \in Stores(item, v) : t.at = s.at => t = s
<1>1. CASE item \in OneWord
    <2>1. \E x : Stores(item, v) \subseteq {Store(0, 1), Store(1, x)}
        BY <1>1, StoresAre DEF OneWord
    <2> QED
        BY <1>1, <2>1, WordsAre DEF Store
<1>2. CASE item \in {"CROP", "CTA861_3"}
    <2>1. \E x, y : Stores(item, v) \subseteq {Store(0, 1), Store(1, x), Store(2, y)} \/ Stores(item, v) = {Store(0, 0)}
        BY <1>2, StoresAre DEF Kept
    <2> QED
        BY <1>2, <2>1, WordsAre DEF Store, AlwaysOccupied, OfTheHandle
<1>3. CASE item = "SMPTE2094_40"
    <2>1. Stores(item, v) = {Store(0, Len(v.w))} \union {Store(i, v.w[i]) : i \in DOMAIN v.w}
        BY <1>3, StoresAre DEF StoreWords
    <2>2. DOMAIN v.w \subseteq 1 .. Capacity /\ 0 \notin DOMAIN v.w
        <3>1. CASE v.some
            <4>1. DOMAIN v.w = 1 .. Len(v.w) /\ Len(v.w) \in 1 .. Capacity
                BY <1>3, <3>1 DEF Kept
            <4> QED
                BY <4>1, SharedMetadataAssumption DEF SharedMetadataAssumption
        <3>2. CASE ~v.some
            <4>1. v.w = <<>>
                BY <3>2 DEF Kept, None
            <4>2. DOMAIN v.w = {}
                BY <4>1
            <4> QED
                BY <4>2
        <3> QED
            BY <3>1, <3>2
    <2>3. ASSUME NEW t \in Stores(item, v)
          PROVE  \/ t = Store(0, Len(v.w)) /\ t.at = 0
                 \/ t.at \in DOMAIN v.w /\ t.at # 0 /\ t = Store(t.at, v.w[t.at])
        BY <2>1, <2>2 DEF Store
    <2>4. item \notin AlwaysOccupied
        BY <1>3 DEF AlwaysOccupied, OfTheHandle
    <2> QED
        BY <1>3, <2>2, <2>3, <2>4, WordsAre
<1> QED
    BY <1>1, <1>2, <1>3 DEF Settable

\* A store is in the page after it, and takes no other away.
LEMMA StoredStays ==
    ASSUME item \in Settable, NEW v, Kept(v), NEW s \in Stores(item, v), NEW p, HasWords(p.word)
    PROVE  /\ In(Stored(p, s), s)
           /\ \A t \in Stores(item, v) : In(p, t) => In(Stored(p, s), t)
           /\ HasWords(Stored(p, s).word)
           /\ item \in AlwaysOccupied /\ p.state = 1 => Stored(p, s).state = 1
<1>1. CASE s.at = 0
    <2>1. Stored(p, s) = [state |-> s.to, word |-> p.word]
        BY <1>1 DEF Stored
    <2> QED
        BY <1>1, <2>1, StoresApart DEF In
<1>2. CASE s.at # 0
    <2>1. Stored(p, s) = [state |-> p.state, word |-> [p.word EXCEPT ![s.at] = s.to]]
        BY <1>2 DEF Stored
    <2>2. s.at \in Words
        BY <1>2, StoresApart
    <2>3. Stored(p, s).word = [i \in Words |-> IF i = s.at THEN s.to ELSE p.word[i]]
        BY <2>1, <2>2 DEF HasWords
    <2>4. HasWords(Stored(p, s).word)
        BY <2>3 DEF HasWords
    <2>5. Stored(p, s).state = p.state
        BY <2>1
    <2>6. ASSUME NEW t \in Stores(item, v), In(p, t) PROVE In(Stored(p, s), t)
        <3>1. t.at = s.at => t = s
            BY StoresApart
        <3>2. t.at = 0 \/ t.at \in Words
            BY <2>6, StoresApart
        <3> QED
            BY <2>2, <2>3, <2>5, <2>6, <3>1, <3>2 DEF In
    <2>7. In(Stored(p, s), s)
        BY <1>2, <2>2, <2>3 DEF In
    <2> QED
        BY <2>4, <2>5, <2>6, <2>7
<1> QED
    BY <1>1, <1>2

LEMMA InAre ==
    /\ \A p, x : In(p, Store(0, x)) <=> p.state = x
    /\ \A p, i, x : i # 0 => (In(p, Store(i, x)) <=> p.word[i] = x)
BY DEF In, Store

\* A page with all the stores of a value shows it.
LEMMA StoresShow ==
    ASSUME item \in Settable, NEW v, Kept(v), NEW p, HasWords(p.word),
           item \in AlwaysOccupied => p.state = 1,
           \A s \in Stores(item, v) : In(p, s)
    PROVE  Shows(p, v)
<1>1. CASE item \in {"DATASPACE", "BLEND_MODE", "AM_OMX_FLAG"}
    <2>1. v = Some(<<v.w[1]>>)
        BY <1>1 DEF Kept, OneWord, IsOneWord
    <2>2. p.state = 1 /\ p.word[1] = v.w[1]
        <3>1. Store(1, v.w[1]) \in Stores(item, v)
            BY <1>1, StoresAre
        <3>2. item = "AM_OMX_FLAG" \/ Store(0, 1) \in Stores(item, v)
            BY <1>1, StoresAre
        <3> QED
            BY <3>1, <3>2, InAre DEF AlwaysOccupied
    <2>3. p.word = <<p.word[1]>>
        BY <1>1, WordsTuple DEF OneWord
    <2>4. Shown(item, p) = v
        BY <1>1, <2>1, <2>2, <2>3 DEF Shown
    <2> QED
        BY <1>1, <2>4 DEF Shows, Matches
<1>2. CASE item = "CHROMA_SITING"
    <2>1. v.some = TRUE
        <3>1. v = Some(<<v.w[1], v.w[2]>>)
            BY <1>2 DEF Kept, OneWord, IsOneWord
        <3> QED
            BY <3>1 DEF Some
    <2>2. p.state = 1 /\ p.word[1] = v.w[2]
        <3>1. Store(0, 1) \in Stores(item, v) /\ Store(1, v.w[2]) \in Stores(item, v)
            BY <1>2, StoresAre
        <3> QED
            BY <3>1, InAre
    <2>3. Shown(item, p) = Some(<<NameOf(v.w[2]), v.w[2]>>)
        BY <1>2, <2>2 DEF Shown
    <2>4. Shown(item, p).w = <<NameOf(v.w[2]), v.w[2]>> /\ Shown(item, p).some = TRUE
        BY <2>3 DEF Some
    <2> QED
        BY <1>2, <2>1, <2>4 DEF Shows, Matches
<1>3. CASE item \in {"CROP", "CTA861_3"} /\ v.some
    <2>1. v = Some(<<v.w[1], v.w[2]>>)
        BY <1>3 DEF Kept
    <2>2. p.state = 1 /\ p.word[1] = v.w[1] /\ p.word[2] = v.w[2]
        <3>1. {Store(0, 1), Store(1, v.w[1]), Store(2, v.w[2])} \subseteq Stores(item, v)
            BY <1>3, StoresAre
        <3> QED
            BY <3>1, InAre
    <2>3. p.word = <<p.word[1], p.word[2]>>
        BY <1>3, WordsTuple
    <2>4. Shown(item, p) = v
        BY <1>3, <2>1, <2>2, <2>3 DEF Shown
    <2> QED
        BY <1>3, <2>4 DEF Shows, Matches
<1>4. CASE item \in {"CTA861_3", "SMPTE2094_40"} /\ ~v.some
    <2>1. v = None
        BY <1>4 DEF Kept
    <2>2. p.state = 0
        <3>1. v.w = <<>>
            BY <2>1 DEF None
        <3>2. Store(0, 0) \in Stores(item, v)
            BY <1>4, <3>1, StoresAre, EmptyStores
        <3> QED
            BY <3>2 DEF In, Store
    <2>3. Shown(item, p) = None
        BY <1>4, <2>2 DEF Shown, Default
    <2> QED
        BY <1>4, <2>1, <2>3 DEF Shows, Matches
<1>5. CASE item = "SMPTE2094_40" /\ v.some
    <2>1. v = Some(v.w) /\ Len(v.w) \in 1 .. Capacity /\ DOMAIN v.w = 1 .. Len(v.w)
        BY <1>5 DEF Kept
    <2>2. p.state = Len(v.w) /\ \A i \in DOMAIN v.w : p.word[i] = v.w[i]
        <3>1. Store(0, Len(v.w)) \in Stores(item, v)
            BY <1>5, StoresAre
        <3>2. \A i \in DOMAIN v.w : Store(i, v.w[i]) \in Stores(item, v) /\ i # 0
            BY <1>5, <2>1, StoresAre DEF StoreWords
        <3> QED
            BY <3>1, <3>2 DEF In, Store
    <2>3. Shown(item, p) = Some(p.word)
        BY <1>5, <2>1, <2>2, SharedMetadataAssumption DEF Shown, SharedMetadataAssumption
    <2>4. Shown(item, p).w = p.word /\ Shown(item, p).some = TRUE /\ v.some = TRUE
        BY <2>1, <2>3 DEF Some
    <2> QED
        BY <1>5, <2>2, <2>4 DEF Shows, Matches
<1> QED
    BY <1>1, <1>2, <1>3, <1>4, <1>5 DEF Settable, OneWord, Kept

-----------------------------------------------------------------------------
(* The inductive invariant of reads that nothing overlaps                  *)

\* A call knows of every set that is under way beside it.
Overlaps ==
    \A c, d \in Client : c # d /\ Busy(c) /\ Setting(d) => raced[c]

Storing(c) == pc[c] = "store"
Pending(s) == In(page, s) \/ \E c \in Client : Storing(c) /\ s \in todo[c]

\* When the item may hold v only, the page shows v, or all that makes it show v is there
\* or on its way.  An Amlogic item is one word, which may also never come.
PageHolds(v) ==
    \/ Shows(page, v) /\ (item = "AM_OMX_FLAG" \/ ~\E c \in Client : Storing(c))
    \/ /\ item \in Settable \ {"AM_OMX_FLAG"}
       /\ \E c \in Client : Storing(c)
       /\ \A s \in Stores(item, v) : Pending(s)

PageInv ==
    /\ HasWords(page.word)
    /\ item \in AlwaysOccupied => page.state = 1
    /\ holds # {}
    /\ \A v \in holds : Kept(v) /\ (holds = {v} => PageHolds(v))

TripSet(c) ==
    /\ pc[c] \in {"fallback", "check"} => data[c] \in Values \union {Undecodable}
    /\ pc[c] = "fallback" \/ (pc[c] \in {"check", "store"} /\ via[c] # c) => item = "AM_OMX_FLAG"
    /\ pc[c] = "store" =>
          /\ item \in Settable /\ Kept(data[c]) /\ data[c] \in holds
          /\ todo[c] \subseteq Stores(item, data[c])
          /\ ~raced[c] => \A s \in Stores(item, data[c]) : s \in todo[c] \/ In(page, s)

\* The bytes that c was answered with decode, or are of the two kinds that do not.
Legible(c, v) ==
    \/ Decoded(ans[c]) = ans[c].v
    \/ item = "AM_OMX_FLAG"
    \/ op[c] = "dump" /\ Process[c] \in StableC /\ ~v.some

IsAnswer(c) ==
    /\ ans[c].err \in {"NONE", "NO_RESOURCES", "left out", "BAD_BUFFER", "not listed"}
    /\ ans[c].err \in {"BAD_BUFFER", "not listed"} => item \in Settable
    /\ \A v \in holds : holds = {v} =>
          /\ ans[c].err = "NONE" => Matches(item, ans[c].v, v) /\ Legible(c, v)
          /\ ans[c].err \in {"NO_RESOURCES", "left out"} => \E room \in Rooms(c, op[c]) : room < Size(item, v)

NothingRead == [state |-> 1, word |-> [i \in Words |-> 0]]

\* What a read that nothing overlaps has loaded is in the page.
TripGet(c) ==
    /\ pc[c] \in {"state", "load"} => op[c] \in {"get", "dump"}
    /\ pc[c] \notin {"load", "done"} => got[c] = NothingRead
    /\ pc[c] = "load" =>
          /\ HasWords(got[c].word) /\ got[c].state = 1
          /\ todo[c] \subseteq Words
          /\ ~raced[c] => page.state # 0 /\ \A i \in Words \ todo[c] : got[c].word[i] = page.word[i]
    /\ Answered(c) /\ ~raced[c] => IsAnswer(c)

TripInv == Overlaps /\ PageInv /\ \A c \in Client : TripSet(c) /\ TripGet(c)

LEMMA BlankIs == PageInv => Blank = NothingRead
<1> SUFFICES ASSUME HasWords(page.word) PROVE Blank = NothingRead
    BY DEF PageInv
<1>1. DOMAIN page.word = Words
    BY DEF HasWords
<1> QED
    BY <1>1 DEF Blank, NothingRead

\* What a page shows that was read at once is what it shows.
LEMMA ShowsItself ==
    ASSUME NEW p, Kept(Shown(item, p)), item \in Settable \union OfTheHandle
    PROVE  Shows(p, Shown(item, p))
<1> DEFINE v == Shown(item, p)
<1>1. CASE item = "CHROMA_SITING"
    <2>1. v = Some(<<v.w[1], v.w[2]>>)
        <3>1. v.some
            BY <1>1 DEF Kept
        <3> QED
            BY <1>1, <3>1 DEF Kept, OneWord, IsOneWord
    <2>2. v = Default(item) \/ v = Some(<<NameOf(p.word[1]), p.word[1]>>)
        BY <1>1 DEF Shown
    <2>3. Default(item) = None
        BY <1>1 DEF Default
    <2>4. v.some
        BY <1>1 DEF Kept
    <2>5. v = Some(<<NameOf(p.word[1]), p.word[1]>>)
        BY <2>2, <2>3, <2>4 DEF None
    <2>6. v.w[2] = p.word[1] /\ v.w = <<NameOf(p.word[1]), p.word[1]>>
        BY <2>5 DEF Some
    <2> QED
        BY <1>1, <2>6 DEF Shows, Matches
<1>2. CASE item = "SMPTE2094_40" /\ v.some
    BY <1>2 DEF Shows, Matches
<1>3. CASE item # "CHROMA_SITING" /\ ~(item = "SMPTE2094_40" /\ v.some)
    BY <1>3 DEF Shows, Matches
<1> QED
    BY <1>1, <1>2, <1>3

LEMMA InitTrip == Init => TripInv
<1> SUFFICES ASSUME Init PROVE TripInv
    OBVIOUS
<1>1. item \in Settable \union OfTheHandle /\ page \in InitialPages(item) /\ holds = {Shown(item, page)}
    BY DEF Init
<1>2. HasWords(page.word) /\ (item \in AlwaysOccupied => page.state = 1) /\ Kept(Shown(item, page))
    <2>1. CASE item \in AlwaysOccupied
        <3>1. PICK x : page = [state |-> 1, word |-> <<x>>]
            BY <1>1, <2>1 DEF InitialPages, AlwaysOccupied, OfTheHandle, Occupied
        <3>2. HasWords(page.word)
            <4>1. page.word = [i \in {1} |-> x]
                BY <3>1, TupleOfOne
            <4>2. Words = {1}
                BY <2>1, WordsAre DEF AlwaysOccupied, OneWord
            <4> QED
                BY <4>1, <4>2 DEF HasWords
        <3>3. Kept(Shown(item, page))
            <4>1. CASE item = "CHROMA_SITING"
                <5>1. Shown(item, page) = Some(<<NameOf(x), x>>)
                    BY <3>1, <4>1 DEF Shown
                <5> QED
                    BY <4>1, <5>1 DEF Kept, IsOneWord, Some
            <4>2. CASE item # "CHROMA_SITING"
                <5>1. Shown(item, page) = Some(<<x>>)
                    BY <3>1, <4>2 DEF Shown
                <5> QED
                    BY <2>1, <4>2, <5>1 DEF Kept, IsOneWord, Some, AlwaysOccupied, OfTheHandle
            <4> QED
                BY <4>1, <4>2
        <3> QED
            BY <3>1, <3>2, <3>3
    <2>2. CASE item \notin AlwaysOccupied
        <3>1. PICK n : page = [state |-> 0, word |-> [i \in 1 .. n |-> 0]] /\ Words = 1 .. n
            BY <1>1, <2>2 DEF InitialPages, AlwaysOccupied, Vacant, Words, Settable, OneWord
        <3>2. HasWords(page.word)
            BY <3>1 DEF HasWords
        <3>3. Shown(item, page) = Default(item)
            BY <3>1 DEF Shown
        <3>4. CASE item = "BLEND_MODE"
            <4>1. Shown(item, page) = Some(<<0>>)
                BY <3>3, <3>4 DEF Default, INVALID
            <4> QED
                BY <2>2, <3>2, <3>4, <4>1 DEF Kept, IsOneWord, Some
        <3>5. CASE item = "CROP"
            <4>1. Shown(item, page) = Some(<<0, Width>>)
                BY <3>3, <3>5 DEF Default
            <4> QED
                BY <2>2, <3>2, <3>5, <4>1 DEF Kept, Some, OneWord, OfTheHandle
        <3>6. CASE item \in {"CTA861_3", "SMPTE2094_40"}
            <4>1. Shown(item, page) = None
                BY <3>3, <3>6 DEF Default
            <4> QED
                BY <2>2, <3>2, <3>6, <4>1 DEF Kept, None
        <3> QED
            BY <1>1, <2>2, <3>4, <3>5, <3>6 DEF AlwaysOccupied, Settable, OneWord
    <2> QED
        BY <2>1, <2>2
<1>3. Shows(page, Shown(item, page))
    BY <1>1, <1>2, ShowsItself
<1>4. \A c \in Client : ~Storing(c)
    BY DEF Init, Storing
<1>5. PageInv
    BY <1>1, <1>2, <1>3, <1>4 DEF PageInv, PageHolds
<1>6. Overlaps
    BY DEF Init, Overlaps, Busy
<1>7. ASSUME NEW c \in Client PROVE TripSet(c) /\ TripGet(c)
    <2>1. pc[c] = "idle" /\ got[c] = Blank
        BY DEF Init
    <2> QED
        BY <1>5, <2>1, BlankIs DEF TripSet, TripGet, Answered
<1> QED
    BY <1>5, <1>6, <1>7 DEF TripInv

\* A step of c that leaves what the reads and sets of others work on alone: the page is as it
\* was, or c is in a set and every call beside it knows.
LEMMA OthersTrip ==
    ASSUME NEW c \in Client, Inv, TripInv, item' = item,
           \A d \in Client \ {c} : /\ pc'[d] = pc[d] /\ op'[d] = op[d] /\ data'[d] = data[d]
                                   /\ via'[d] = via[d] /\ todo'[d] = todo[d]
                                   /\ got'[d] = got[d] /\ ans'[d] = ans[d]
                                   /\ ~raced'[d] => ~raced[d],
           \/ UNCHANGED <<page, holds>>
           \/ Setting(c) /\ (holds \subseteq holds' \/ ~raced[c])
    PROVE  \A d \in Client \ {c} : TripSet(d)' /\ TripGet(d)'
<1> SUFFICES ASSUME NEW d \in Client \ {c} PROVE TripSet(d)' /\ TripGet(d)'
    OBVIOUS
<1>1. TripSet(d) /\ TripGet(d) /\ Overlaps
    BY DEF TripInv
<1>2. Values' = Values /\ Words' = Words /\ NothingRead' = NothingRead
    BY DEF Values, Words, NothingRead
<1>3. Kept(data[d])' <=> Kept(data[d])
    BY DEF Kept, IsOneWord
<1>4. CASE UNCHANGED <<page, holds>>
    <2>1. TripSet(d)'
        <3>1. \A s : In(page, s)' <=> In(page, s)
            BY <1>4 DEF In
        <3> QED
            BY <1>1, <1>2, <1>3, <1>4, <3>1 DEF TripSet
    <2>2. TripGet(d)'
        <3>1. Rooms(d, op[d])' = Rooms(d, op[d])
            BY DEF Rooms
        <3>2. IsAnswer(d) => IsAnswer(d)'
            BY <1>4, <3>1 DEF IsAnswer, Legible
        <3>3. Answered(d)' => Answered(d)
            BY DEF Answered
        <3>4. HasWords(got[d].word)' <=> HasWords(got[d].word)
            BY <1>2 DEF HasWords
        <3> QED
            BY <1>1, <1>2, <1>4, <3>2, <3>3, <3>4 DEF TripGet
    <2> QED
        BY <2>1, <2>2
<1>5. CASE Setting(c) /\ (holds \subseteq holds' \/ ~raced[c])
    <2>1. Busy(d) => raced[d]
        BY <1>1, <1>5 DEF Overlaps
    <2>2. pc[d] \in {"store", "load", "done"} => raced[d]
        BY <2>1 DEF Busy
    <2>3. raced'[d] <=> raced[d] \/ raced'[d]
        OBVIOUS
    <2>4. pc[d] = "store" => raced[c]
        <3>1. pc[d] = "store" => Setting(d)
            BY DEF Setting, Busy, Inv, FreeInv, Uses
        <3> QED
            BY <1>1, <1>5, <3>1 DEF Overlaps, Setting
    <2>5. TripSet(d)'
        BY <1>1, <1>2, <1>3, <1>5, <2>2, <2>4 DEF TripSet
    <2>6. TripGet(d)'
        <3>1. HasWords(got[d].word)' <=> HasWords(got[d].word)
            BY <1>2 DEF HasWords
        <3>2. Answered(d)' => raced'[d]
            BY <2>2 DEF Answered
        <3> QED
            BY <1>1, <1>2, <2>2, <3>1, <3>2 DEF TripGet
    <2> QED
        BY <2>5, <2>6
<1> QED
    BY <1>4, <1>5

LEMMA TripOfOne ==
    ASSUME NEW c \in Client, Overlaps', PageInv', TripSet(c)', TripGet(c)',
           \A d \in Client \ {c} : TripSet(d)' /\ TripGet(d)'
    PROVE  TripInv'
BY DEF TripInv

\* A call that goes on or returns overlaps with no other than before.
LEMMA OverlapsStay ==
    ASSUME NEW c \in Client, Overlaps,
           \A d \in Client \ {c} : pc'[d] = pc[d] /\ op'[d] = op[d] /\ raced'[d] = raced[d],
           Busy(c)' => Busy(c) /\ op'[c] = op[c] /\ raced'[c] = raced[c]
    PROVE  Overlaps'
<1>1. ASSUME NEW d \in Client PROVE Busy(d)' => Busy(d) /\ raced'[d] = raced[d]
    BY DEF Busy
<1>2. ASSUME NEW d \in Client PROVE Setting(d)' => Setting(d)
    BY DEF Setting, Busy
<1> QED
    BY <1>1, <1>2 DEF Overlaps

LEMMA OverlapsBegin ==
    ASSUME NEW c \in Client, NEW o, NEW v, NEW next, Inv, Overlaps, Begin(c, o, v, next)
    PROVE  Overlaps'
<1>1. /\ \A d \in Client \ {c} : pc'[d] = pc[d] /\ op'[d] = op[d]
      /\ op'[c] = o
      /\ \A d \in Client : raced'[d] = IF d = c THEN \E u \in Client \ {c} : Setting(u)
                                       ELSE raced[d] \/ (Busy(d) /\ o = "set")
    BY DEF Begin, Put, Inv, FreeInv, CallTypes
<1> SUFFICES ASSUME NEW d \in Client, NEW e \in Client, d # e, Busy(d)', Setting(e)'
             PROVE  raced'[d]
    BY DEF Overlaps
<1>2. CASE d = c
    <2>1. Setting(e)
        BY <1>1, <1>2 DEF Setting, Busy
    <2> QED
        BY <1>1, <1>2, <2>1
<1>3. CASE d # c /\ e = c
    BY <1>1, <1>3 DEF Setting, Busy
<1>4. CASE d # c /\ e # c
    <2>1. Busy(d) /\ Setting(e)
        BY <1>1, <1>4 DEF Setting, Busy
    <2> QED
        BY <1>1, <1>4, <2>1 DEF Overlaps
<1> QED
    BY <1>2, <1>3, <1>4

\* The page after a step that stores nothing and starts and ends no storing.
LEMMA PageStays ==
    ASSUME PageInv, UNCHANGED <<item, page, holds>>,
           \A d \in Client : Storing(d)' <=> Storing(d),
           \A d \in Client : Storing(d) => todo'[d] = todo[d]
    PROVE  PageInv'
<1>1. Words' = Words
    BY DEF Words
<1>2. HasWords(page.word)' <=> HasWords(page.word)
    BY <1>1 DEF HasWords
<1>3. ASSUME NEW v PROVE (Kept(v)' <=> Kept(v)) /\ (Shows(page, v)' <=> Shows(page, v))
    BY DEF Kept, IsOneWord, Shows
<1>4. ASSUME NEW s PROVE Pending(s)' <=> Pending(s)
    <2>1. In(page, s)' <=> In(page, s)
        BY DEF In
    <2> QED
        BY <2>1 DEF Pending
<1>5. ASSUME NEW v PROVE PageHolds(v)' <=> PageHolds(v)
    BY <1>3, <1>4 DEF PageHolds
<1> QED
    BY <1>2, <1>3, <1>5 DEF PageInv

\* The fields of c that a step of c leaves alone.
LEMMA HandleStepsTrip ==
    ASSUME NEW c \in Client, Inv, TripInv, Import(c) \/ Unregister(c) \/ Unmap(c) \/ Clear(c) \/ Delete(c)
    PROVE  TripInv'
<1>1. /\ UNCHANGED <<item, page, op, data, via, todo, got, ans, holds, raced>>
      /\ pc[c] \in {"idle", "unmap", "clear", "delete"}
      /\ \/ pc' = pc
         \/ \E l \in {"idle", "unmap", "clear", "delete"} : pc' = [pc EXCEPT ![c] = l]
    BY DEF Import, Unregister, Unmap, Clear, Delete, Put, call, work, history
<1>2. /\ \A d \in Client \ {c} : pc'[d] = pc[d]
      /\ pc'[c] \in {"idle", "unmap", "clear", "delete"}
    BY <1>1 DEF Inv, FreeInv, CallTypes
<1>3. Overlaps'
    <2>1. ~Busy(c)'
        BY <1>2 DEF Busy
    <2> QED
        BY <1>1, <1>2, <2>1, OverlapsStay DEF TripInv
<1>4. PageInv'
    <2>1. \A d \in Client : Storing(d)' <=> Storing(d)
        BY <1>1, <1>2 DEF Storing
    <2> QED
        BY <1>1, <2>1, PageStays DEF TripInv
<1>5. TripSet(c)'
    BY <1>2 DEF TripSet
<1>6. TripGet(c)'
    <2>1. NothingRead' = NothingRead
        BY <1>1 DEF NothingRead, Words
    <2>2. TripGet(c)
        BY DEF TripInv
    <2> QED
        BY <1>1, <1>2, <2>1, <2>2 DEF TripGet, Answered
<1>7. \A d \in Client \ {c} : TripSet(d)' /\ TripGet(d)'
    BY <1>1, <1>2, OthersTrip
<1> QED
    BY <1>3, <1>4, <1>5, <1>6, <1>7, TripOfOne

\* A read that nothing overlaps meets no set under way, so the page shows what the item may hold.
LEMMA QuietPage ==
    ASSUME Inv, TripInv, \A d \in Client : ~Storing(d), NEW v, holds = {v}
    PROVE  Shows(page, v)
BY DEF TripInv, PageInv, PageHolds

LEMMA BeginTrip ==
    ASSUME NEW c \in Client, NEW o \in {"set", "get", "dump"}, NEW v,
           NEW next \in {"fallback", "check", "state", "done"},
           Inv, TripInv, Begin(c, o, v, next), \A d \in Client \ {c} : ans'[d] = ans[d],
           next \in {"fallback", "check"} => v \in Values \union {Undecodable},
           next = "fallback" => item = "AM_OMX_FLAG",
           next = "state" => o \in {"get", "dump"},
           next = "done" /\ o # "set" /\ (\A d \in Client : ~Storing(d)) => IsAnswer(c)'
    PROVE  TripInv'
<1>1. /\ UNCHANGED <<item, page, via, todo, got, holds>> /\ pc[c] = "idle"
      /\ pc'[c] = next /\ data'[c] = v /\ op'[c] = o
      /\ \A d \in Client \ {c} : pc'[d] = pc[d] /\ op'[d] = op[d] /\ data'[d] = data[d]
      /\ \A d \in Client : raced'[d] = IF d = c THEN \E u \in Client \ {c} : Setting(u)
                                       ELSE raced[d] \/ (Busy(d) /\ o = "set")
    BY DEF Begin, Put, Inv, FreeInv, CallTypes, DataTypes
<1>2. Overlaps'
    BY OverlapsBegin DEF TripInv
<1>3. PageInv'
    <2>1. \A d \in Client : Storing(d)' <=> Storing(d)
        BY <1>1 DEF Storing
    <2> QED
        BY <1>1, <2>1, PageStays DEF TripInv
<1>4. TripSet(c)'
    <2>1. Values' = Values
        BY <1>1 DEF Values
    <2>2. via[c] = c
        BY <1>1 DEF Inv, FreeInv, Uses
    <2> QED
        BY <1>1, <2>1, <2>2 DEF TripSet
<1>5. TripGet(c)'
    <2>1. NothingRead' = NothingRead
        BY <1>1 DEF NothingRead, Words
    <2>2. TripGet(c)
        BY DEF TripInv
    <2>3. ASSUME ~raced'[c], NEW d \in Client PROVE ~Storing(d)
        <3>1. d # c => ~Setting(d)
            BY <1>1, <2>3
        <3> QED
            BY <1>1, <3>1 DEF Storing, Setting, Busy, Inv, FreeInv, Uses
    <2>4. Answered(c)' => next = "done" /\ o # "set"
        BY <1>1 DEF Answered
    <2> QED
        BY <1>1, <2>1, <2>2, <2>3, <2>4 DEF TripGet
<1>6. \A d \in Client \ {c} : TripSet(d)' /\ TripGet(d)'
    BY <1>1, OthersTrip
<1> QED
    BY <1>2, <1>3, <1>4, <1>5, <1>6, TripOfOne

LEMMA RoomsAndSizes ==
    ASSUME NEW c \in Client, NEW o
    PROVE  Rooms(c, o) \subseteq Nat /\ \A v : Size(item, v) \in Nat
BY MetadataAssumption DEF MetadataAssumption, Rooms, Size, Unlimited, DumpRoom

\* The encoding of what the page shows.
LEMMA EncodedTrip ==
    ASSUME NEW c \in Client, NEW o, NEW room \in Rooms(c, o), NEW read,
           ans'[c] = Encoded(c, o, read, room), op'[c] = o, UNCHANGED <<item, holds>>,
           \A v : holds = {v} => Matches(item, read, v) /\ read.some = v.some
    PROVE  IsAnswer(c)'
<1>1. room \in Nat /\ Size(item, read) \in Nat
    BY RoomsAndSizes
<1>2. \A v : holds = {v} => Size(item, v) = Size(item, read)
    BY DEF Size, Matches
<1>3. Rooms(c, op[c])' = Rooms(c, o)
    BY DEF Rooms
<1>4. CASE Size(item, read) <= room
    <2>1. ans'[c] = Bytes(Form(c, o), read)
        BY <1>4 DEF Encoded
    <2>2. ans'[c].err = "NONE" /\ ans'[c].v = read /\ ans'[c].as = Form(c, o)
        BY <2>1 DEF Bytes
    <2>3. ASSUME NEW v, holds = {v} PROVE Legible(c, v)'
        <3>1. read.some = v.some
            BY <2>3
        <3> QED
            BY <2>2, <3>1 DEF Legible, Decoded, Form
    <2> QED
        BY <2>2, <2>3 DEF IsAnswer
<1>5. CASE ~(Size(item, read) <= room)
    <2>1. ans'[c].err \in {"NO_RESOURCES", "left out"}
        BY <1>5, ErrorErr DEF Encoded
    <2>2. room < Size(item, read)
        BY <1>1, <1>5
    <2> QED
        BY <1>2, <1>3, <2>1, <2>2 DEF IsAnswer
<1> QED
    BY <1>4, <1>5

\* The answer to a call that reads nothing from the page.
LEMMA CallsTrip ==
    ASSUME NEW c \in Client, Inv, TripInv,
           \/ \E o \in {"get", "dump"} : ReadRaw(c, o) \/ Read(c, o)
           \/ \E v \in Values \union {Undecodable} : SetImported(c, v) \/ SetRaw(c, v)
    PROVE  TripInv'
<1>1. DOMAIN ans = Client /\ item \in Settable \union OfTheHandle
    BY DEF Inv, FreeInv, CallTypes, DataTypes
<1>2. ASSUME NEW o \in {"get", "dump"}, ReadRaw(c, o) PROVE TripInv'
    <2>1. /\ Begin(c, o, None, "done") /\ UNCHANGED <<item, page, holds>>
          /\ \A d \in Client \ {c} : ans'[d] = ans[d]
          /\ IF item \in OfTheHandle
             THEN \E room \in Rooms(c, o) : ans'[c] = Encoded(c, o, Shown(item, page), room)
             ELSE ans'[c] = Error(IF o = "dump" THEN "not listed" ELSE "BAD_BUFFER")
          /\ op'[c] = o
        BY <1>1, <1>2 DEF ReadRaw, Begin, Put, Inv, FreeInv, CallTypes
    <2>2. ASSUME \A d \in Client : ~Storing(d) PROVE IsAnswer(c)'
        <3>1. CASE item \in OfTheHandle
            <4>1. PICK room \in Rooms(c, o) : ans'[c] = Encoded(c, o, Shown(item, page), room)
                BY <2>1, <3>1
            <4>2. \A v : holds = {v} =>
                     Matches(item, Shown(item, page), v) /\ Shown(item, page).some = v.some
                BY <2>2, QuietPage DEF Shows
            <4> QED
                BY <2>1, <4>1, <4>2, EncodedTrip
        <3>2. CASE item \notin OfTheHandle
            <4>1. ans'[c].err \in {"BAD_BUFFER", "not listed"} /\ item' \in Settable
                BY <1>1, <2>1, <3>2, ErrorErr
            <4> QED
                BY <4>1 DEF IsAnswer
        <3> QED
            BY <3>1, <3>2
    <2> QED
        BY <2>1, <2>2, BeginTrip
<1>3. ASSUME NEW o \in {"get", "dump"}, Read(c, o) PROVE TripInv'
    <2>1. CASE Begin(c, o, None, "state") /\ UNCHANGED ans
        BY <2>1, BeginTrip
    <2>2. CASE /\ item = "AM_OMX_FLAG"
               /\ Begin(c, o, None, "done") /\ ans' = Put(ans, c, Error("not listed"))
        <3>1. ans'[c].err = "not listed" /\ \A d \in Client \ {c} : ans'[d] = ans[d]
            BY <1>1, <2>2, ErrorErr DEF Put
        <3>2. item' = item
            BY <2>2 DEF Begin
        <3>3. IsAnswer(c)'
            BY <2>2, <3>1, <3>2 DEF IsAnswer, Settable, OneWord
        <3> QED
            BY <2>2, <3>1, <3>3, BeginTrip
    <2> QED
        BY <1>3, <2>1, <2>2 DEF Read
<1>4. ASSUME NEW v \in Values \union {Undecodable}, SetImported(c, v) PROVE TripInv'
    BY <1>4, BeginTrip DEF SetImported
<1>5. ASSUME NEW v \in Values \union {Undecodable}, SetRaw(c, v) PROVE TripInv'
    <2>1. CASE item = "AM_OMX_FLAG" /\ Begin(c, "set", v, "fallback") /\ UNCHANGED ans
        BY <2>1, BeginTrip
    <2>2. CASE Begin(c, "set", None, "done") /\ ans' = Put(ans, c, Error("BAD_BUFFER"))
        <3>1. \A d \in Client \ {c} : ans'[d] = ans[d]
            BY <1>1, <2>2 DEF Put
        <3> QED
            BY <2>2, <3>1, BeginTrip
    <2> QED
        BY <1>5, <2>1, <2>2 DEF SetRaw
<1> QED
    BY <1>2, <1>3, <1>4, <1>5

\* A read that nothing overlaps meets no store.
LEMMA QuietRead ==
    ASSUME NEW c \in Client, Inv, TripInv, pc[c] \in {"state", "load"}, ~raced[c]
    PROVE  \A v : holds = {v} => Shows(page, v)
<1>1. ASSUME NEW d \in Client PROVE ~Storing(d)
    <2>1. Storing(d) => Setting(d) /\ d # c
        BY DEF Storing, Setting, Busy, Inv, FreeInv, Uses
    <2> QED
        BY <2>1 DEF TripInv, Overlaps, Busy
<1> QED
    BY <1>1, QuietPage

\* What the steps of a read leave alone.
LEMMA ReadsAlone ==
    ASSUME NEW c \in Client, Inv, TripInv, pc[c] \in {"state", "load"},
           UNCHANGED <<item, page, op, data, via, holds, raced>>,
           \A d \in Client \ {c} : pc'[d] = pc[d] /\ todo'[d] = todo[d] /\ got'[d] = got[d] /\ ans'[d] = ans[d],
           pc'[c] \in {"load", "done"}, TripGet(c)'
    PROVE  TripInv'
<1>1. Overlaps'
    BY OverlapsStay DEF TripInv, Busy
<1>2. PageInv'
    <2>1. \A d \in Client : (Storing(d)' <=> Storing(d)) /\ (Storing(d) => d # c)
        BY DEF Storing
    <2> QED
        BY <2>1, PageStays DEF TripInv
<1>3. TripSet(c)'
    BY DEF TripSet
<1>4. \A d \in Client \ {c} : TripSet(d)' /\ TripGet(d)'
    BY OthersTrip
<1> QED
    BY <1>1, <1>2, <1>3, <1>4, TripOfOne

LEMMA LoadStateTrip ==
    ASSUME NEW c \in Client, Inv, TripInv, LoadState(c)
    PROVE  TripInv'
<1>1. /\ UNCHANGED <<item, page, op, data, via, got, holds, raced>> /\ pc[c] = "state"
      /\ \A d \in Client \ {c} : /\ pc'[d] = pc[d] /\ todo'[d] = todo[d]
                                 /\ got'[d] = got[d] /\ ans'[d] = ans[d]
    BY DEF LoadState, Answer, Put, call, history, Inv, FreeInv, CallTypes, DataTypes
<1>2. CASE page.state = 0
    <2>1. PICK room \in Rooms(c, op[c]) : ans' = [ans EXCEPT ![c] = Encoded(c, op[c], Default(item), room)]
        BY <1>2 DEF LoadState, Answer, Put
    <2>2. pc'[c] = "done" /\ ans'[c] = Encoded(c, op[c], Default(item), room)
        BY <1>2, <2>1 DEF LoadState, Answer, Put, Inv, FreeInv, CallTypes
    <2>3. ~raced[c] => IsAnswer(c)'
        <3>1. Shown(item, page) = Default(item)
            BY <1>2 DEF Shown
        <3>2. ~raced[c] => \A v : holds = {v} => Shows(page, v)
            BY <1>1, QuietRead
        <3>3. ~raced[c] =>
                 \A v : holds = {v} => Matches(item, Default(item), v) /\ Default(item).some = v.some
            BY <3>1, <3>2 DEF Shows
        <3> QED
            BY <1>1, <2>2, <3>3, EncodedTrip
    <2>4. TripGet(c)'
        BY <1>1, <2>2, <2>3 DEF TripGet
    <2> QED
        BY <1>1, <2>2, <2>4, ReadsAlone
<1>3. CASE page.state # 0
    <2>1. pc'[c] = "load" /\ todo'[c] = DOMAIN page.word
        BY <1>3 DEF LoadState, Put, Inv, FreeInv, CallTypes, DataTypes
    <2>2. DOMAIN page.word = Words /\ got[c] = NothingRead
        BY <1>1 DEF TripInv, PageInv, HasWords, TripGet
    <2>3. Words' = Words
        BY <1>1 DEF Words
    <2>4. got'[c].word = [i \in Words |-> got'[c].word[i]] /\ got'[c].state = 1
        BY <1>1, <2>2 DEF NothingRead
    <2>5. op[c] \in {"get", "dump"}
        BY <1>1 DEF TripInv, TripGet
    <2>6. TripGet(c)'
        BY <1>1, <1>3, <2>1, <2>2, <2>3, <2>4, <2>5 DEF TripGet, HasWords, Answered
    <2> QED
        BY <1>1, <2>1, <2>6, ReadsAlone
<1> QED
    BY <1>2, <1>3

LEMMA LoadTrip ==
    ASSUME NEW c \in Client, Inv, TripInv, Load(c)
    PROVE  TripInv'
<1>1. /\ UNCHANGED <<item, page, op, data, via, holds, raced>> /\ pc[c] = "load"
      /\ \A d \in Client \ {c} : /\ pc'[d] = pc[d] /\ todo'[d] = todo[d]
                                 /\ got'[d] = got[d] /\ ans'[d] = ans[d]
    BY DEF Load, Answer, Put, call, history, Inv, FreeInv, CallTypes, DataTypes
<1>2. PICK i \in todo[c] :
         LET read == Stored(got[c], Store(i, page.word[i]))
         IN  /\ got' = [got EXCEPT ![c] = read] /\ todo' = [todo EXCEPT ![c] = todo[c] \ {i}]
             /\ IF todo[c] = {i}
                THEN /\ \E room \in Rooms(c, op[c]) : ans' = [ans EXCEPT ![c] = Encoded(c, op[c], Shown(item, read), room)]
                     /\ pc' = [pc EXCEPT ![c] = "done"]
                ELSE pc' = pc /\ ans' = ans
    BY DEF Load, Answer, Put
<1> DEFINE read == Stored(got[c], Store(i, page.word[i]))
<1>3. /\ got'[c] = read /\ todo'[c] = todo[c] \ {i}
      /\ \/ todo[c] # {i} /\ pc'[c] = "load" /\ ans' = ans
         \/ /\ todo[c] = {i} /\ pc'[c] = "done"
            /\ \E room \in Rooms(c, op[c]) : ans'[c] = Encoded(c, op[c], Shown(item, read), room)
    BY <1>1, <1>2 DEF Inv, FreeInv, CallTypes, DataTypes
<1>4. /\ HasWords(got[c].word) /\ got[c].state = 1 /\ todo[c] \subseteq Words /\ op[c] \in {"get", "dump"}
      /\ ~raced[c] => page.state # 0 /\ \A j \in Words \ todo[c] : got[c].word[j] = page.word[j]
      /\ HasWords(page.word)
    BY <1>1 DEF TripInv, PageInv, TripGet
<1>5. i \in Words /\ i # 0
    BY <1>4, SharedMetadataAssumption DEF SharedMetadataAssumption, Words
<1>6. read.state = 1 /\ read.word = [j \in Words |-> IF j = i THEN page.word[i] ELSE got[c].word[j]]
    <2>1. read = [state |-> got[c].state, word |-> [got[c].word EXCEPT ![i] = page.word[i]]]
        BY <1>5 DEF Stored, Store
    <2>2. [got[c].word EXCEPT ![i] = page.word[i]]
             = [j \in Words |-> IF j = i THEN page.word[i] ELSE got[c].word[j]]
        BY <1>4, <1>5 DEF HasWords
    <2> QED
        BY <1>4, <2>1, <2>2
<1>7. HasWords(read.word)
    BY <1>6 DEF HasWords
<1> HIDE DEF read
<1>8. CASE pc'[c] = "load"
    <2>1. Words' = Words
        BY <1>1 DEF Words
    <2>2. HasWords(got[c].word)'
        BY <1>3, <1>7, <2>1 DEF HasWords
    <2>3. ~raced'[c] => page'.state # 0 /\ \A j \in Words' \ todo'[c] : got'[c].word[j] = page'.word[j]
        BY <1>1, <1>3, <1>4, <1>6, <2>1
    <2>4. TripGet(c)'
        BY <1>1, <1>3, <1>4, <1>6, <1>8, <2>1, <2>2, <2>3 DEF TripGet, Answered
    <2> QED
        BY <1>1, <1>8, <2>4, ReadsAlone
<1>9. CASE pc'[c] = "done"
    <2>1. PICK room \in Rooms(c, op[c]) : todo[c] = {i} /\ ans'[c] = Encoded(c, op[c], Shown(item, read), room)
        BY <1>3, <1>9
    <2>2. ASSUME ~raced[c] PROVE IsAnswer(c)'
        <3>1. \A j \in Words : read.word[j] = page.word[j]
            BY <1>4, <1>6, <2>1, <2>2
        <3>2. read.word = page.word
            BY <1>4, <1>7, <3>1 DEF HasWords
        <3>3. Shown(item, read) = Shown(item, page)
            BY <1>4, <1>6, <2>2, <3>2 DEF Shown
        <3>4. \A v : holds = {v} => Shows(page, v)
            BY <1>1, <2>2, QuietRead
        <3>5. \A v : holds = {v} => Matches(item, Shown(item, read), v) /\ Shown(item, read).some = v.some
            BY <3>3, <3>4 DEF Shows
        <3> QED
            BY <1>1, <2>1, <3>5, EncodedTrip
    <2>3. TripGet(c)'
        BY <1>1, <1>9, <2>2 DEF TripGet
    <2> QED
        BY <1>1, <1>9, <2>3, ReadsAlone
<1> QED
    BY <1>3, <1>8, <1>9

LEMMA ReturnTrip ==
    ASSUME NEW c \in Client, Inv, TripInv, Return(c)
    PROVE  TripInv'
<1>1. /\ UNCHANGED <<item, page, holds, data>> /\ pc[c] = "done" /\ pc'[c] = "idle" /\ got'[c] = Blank
      /\ \A d \in Client \ {c} : /\ pc'[d] = pc[d] /\ op'[d] = op[d] /\ via'[d] = via[d]
                                 /\ todo'[d] = todo[d] /\ got'[d] = got[d] /\ ans'[d] = ans[d]
                                 /\ raced'[d] = raced[d]
    BY DEF Return, Put, Inv, FreeInv, CallTypes, DataTypes
<1>2. Overlaps'
    BY <1>1, OverlapsStay DEF TripInv, Busy
<1>3. PageInv'
    <2>1. \A d \in Client : (Storing(d)' <=> Storing(d)) /\ (Storing(d) => d # c)
        BY <1>1 DEF Storing
    <2> QED
        BY <1>1, <2>1, PageStays DEF TripInv
<1>4. TripSet(c)'
    BY <1>1 DEF TripSet
<1>5. TripGet(c)'
    <2>1. got'[c] = NothingRead /\ NothingRead' = NothingRead
        BY <1>1, BlankIs DEF TripInv, NothingRead, Words
    <2> QED
        BY <1>1, <2>1 DEF TripGet, Answered
<1>6. \A d \in Client \ {c} : TripSet(d)' /\ TripGet(d)'
    BY <1>1, OthersTrip
<1> QED
    BY <1>2, <1>3, <1>4, <1>5, <1>6, TripOfOne

\* A step of a set that leaves the page good.
LEMMA SetStepTrip ==
    ASSUME NEW c \in Client, Inv, TripInv, pc[c] \in {"fallback", "check", "store"},
           UNCHANGED <<item, op, got, raced>>,
           \A d \in Client \ {c} : /\ pc'[d] = pc[d] /\ data'[d] = data[d] /\ via'[d] = via[d]
                                   /\ todo'[d] = todo[d] /\ ans'[d] = ans[d],
           holds \subseteq holds' \/ ~raced[c],
           pc'[c] \in {"check", "store", "done"}, PageInv', TripSet(c)'
    PROVE  TripInv'
<1>1. op[c] = "set" /\ Setting(c)
    BY DEF Setting, Busy, Inv, FreeInv, Uses
<1>2. Overlaps'
    BY <1>1, OverlapsStay DEF TripInv, Setting
<1>3. TripGet(c)'
    <2>1. NothingRead' = NothingRead
        BY DEF NothingRead, Words
    <2> QED
        BY <1>1, <2>1 DEF TripInv, TripGet, Answered
<1>4. \A d \in Client \ {c} : TripSet(d)' /\ TripGet(d)'
    BY <1>1, OthersTrip
<1> QED
    BY <1>2, <1>3, <1>4, TripOfOne

LEMMA EndSetTrip ==
    ASSUME NEW c \in Client, NEW e, Inv, TripInv, EndSet(c, e),
           pc[c] \in {"fallback", "check", "store"}, UNCHANGED <<item, op, via, got, raced>>,
           \A d \in Client \ {c} : todo'[d] = todo[d],
           PageInv'
    PROVE  TripInv'
<1>1. /\ pc'[c] = "done"
      /\ \A d \in Client \ {c} : pc'[d] = pc[d] /\ data'[d] = data[d] /\ ans'[d] = ans[d]
      /\ holds \subseteq holds' \/ ~raced[c]
    BY DEF EndSet, Put, Inv, FreeInv, CallTypes, DataTypes
<1>2. TripSet(c)'
    BY <1>1 DEF TripSet
<1> QED
    BY <1>1, <1>2, SetStepTrip

\* The page when a set ends that stored nothing and changes nothing.
LEMMA PageAtError ==
    ASSUME NEW c \in Client, NEW e, Inv, TripInv, EndSet(c, e), e # "NONE" \/ raced[c],
           pc[c] \in {"fallback", "check"}, UNCHANGED <<item, page, todo>>
    PROVE  PageInv'
<1>1. /\ pc'[c] = "done" /\ holds' = holds
      /\ \A d \in Client \ {c} : pc'[d] = pc[d]
    BY DEF EndSet, Put, Inv, FreeInv, CallTypes
<1>2. \A d \in Client : Storing(d)' <=> Storing(d)
    BY <1>1 DEF Storing
<1> QED
    BY <1>1, <1>2, PageStays DEF TripInv

LEMMA FallbackTrip ==
    ASSUME NEW c \in Client, Inv, TripInv, Fallback(c)
    PROVE  TripInv'
<1>1. UNCHANGED <<item, page, op, todo, got, raced>> /\ pc[c] = "fallback"
    BY DEF Fallback
<1>2. CASE EndSet(c, "BAD_BUFFER") /\ UNCHANGED via
    BY <1>1, <1>2, PageAtError, EndSetTrip
<1>3. CASE /\ \E d \in pool : via' = [via EXCEPT ![c] = d]
           /\ pc' = [pc EXCEPT ![c] = "check"] /\ UNCHANGED <<data, ans, holds>>
    <2>1. /\ pc'[c] = "check"
          /\ \A d \in Client \ {c} : pc'[d] = pc[d] /\ via'[d] = via[d]
        BY <1>3 DEF Inv, FreeInv, CallTypes
    <2>2. PageInv'
        <3>1. \A d \in Client : Storing(d)' <=> Storing(d)
            BY <1>1, <2>1 DEF Storing
        <3> QED
            BY <1>1, <1>3, <3>1, PageStays DEF TripInv
    <2>3. TripSet(c)'
        <3>1. Values' = Values
            BY <1>1 DEF Values
        <3> QED
            BY <1>1, <1>3, <2>1, <3>1 DEF TripInv, TripSet
    <2> QED
        BY <1>1, <1>3, <2>1, <2>2, <2>3, SetStepTrip
<1> QED
    BY <1>2, <1>3 DEF Fallback, Put

\* The values that set_metadata stores.
LEMMA AcceptedKept ==
    ASSUME item \in Settable, NEW v \in Values, Accepted(item, v)
    PROVE  Kept(v)
<1>1. CASE item \in OneWord
    <2>1. IsOneWord(v)
        BY <1>1, OneWordValues
    <2> QED
        BY <1>1, <2>1 DEF Kept, IsOneWord, Some, OneWord
<1>2. CASE item = "CROP"
    <2>1. v = Some(<<v.w[1], v.w[2]>>)
        BY <1>2, CropValues
    <2> QED
        BY <1>2, <2>1 DEF Kept, Some, OneWord, OfTheHandle
<1>3. CASE item = "CTA861_3"
    <2>1. v \in {None, Some(<<1, 1>>), Some(<<2, 2>>)}
        BY <1>3 DEF Values, OfTheHandle
    <2> QED
        BY <1>3, <2>1 DEF Kept, Some, None, OneWord, OfTheHandle
<1>4. CASE item = "SMPTE2094_40"
    <2>1. \/ v = None \/ v = Some(<<>>) \/ v = Some(<<1>>)
          \/ \E n \in {Capacity, Capacity + 1} : v = Some([i \in 1 .. n |-> 2])
        BY <1>4 DEF Values, OfTheHandle
    <2>2. CASE v = None
        BY <1>4, <2>2 DEF Kept, None, OneWord, OfTheHandle
    <2>3. CASE v.some
        <3>1. Len(v.w) > 0 /\ Len(v.w) <= Capacity
            BY <1>4, <2>3 DEF Accepted, ValidSize
        <3>2. v = Some(v.w)
            BY <2>1, <2>3 DEF Some, None
        <3>3. CASE v.w = <<>>
            BY <3>1, <3>3
        <3>4. CASE v.w = <<1>>
            <4>1. Len(v.w) = 1 /\ DOMAIN v.w = 1 .. Len(v.w)
                BY <3>4
            <4> QED
                BY <1>4, <3>1, <3>2, <4>1, SharedMetadataAssumption
                   DEF Kept, Some, SharedMetadataAssumption, OneWord, OfTheHandle
        <3>5. ASSUME NEW n \in {Capacity, Capacity + 1}, v.w = [i \in 1 .. n |-> 2] PROVE Kept(v)
            <4>1. n \in Nat
                BY SharedMetadataAssumption DEF SharedMetadataAssumption
            <4>2. Len(v.w) = n /\ DOMAIN v.w = 1 .. n
                BY <3>5, <4>1
            <4> QED
                BY <1>4, <2>3, <3>1, <3>2, <4>1, <4>2, SharedMetadataAssumption
                   DEF Kept, SharedMetadataAssumption, OneWord, OfTheHandle
        <3>6. \/ v.w = <<>> \/ v.w = <<1>>
              \/ \E n \in {Capacity, Capacity + 1} : v.w = [i \in 1 .. n |-> 2]
            <4>1. ASSUME NEW x, v = Some(x) PROVE v.w = x
                BY <4>1 DEF Some
            <4>2. v # None
                BY <2>3 DEF None
            <4> QED
                BY <2>1, <4>1, <4>2
        <3> QED
            BY <3>3, <3>4, <3>5, <3>6
    <2> QED
        BY <2>1, <2>2, <2>3 DEF Some
<1> QED
    BY <1>1, <1>2, <1>3, <1>4 DEF Settable

\* A set that knows of no other is the only one to store.
LEMMA SetAlone ==
    ASSUME NEW c \in Client, Inv, TripInv, pc[c] \in {"check", "store"}, ~raced[c]
    PROVE  \A d \in Client \ {c} : ~Storing(d)
<1> SUFFICES ASSUME NEW d \in Client \ {c}, Storing(d) PROVE FALSE
    OBVIOUS
<1>1. Setting(d)
    BY DEF Storing, Setting, Busy, Inv, FreeInv, Uses
<1>2. Busy(c)
    BY DEF Busy
<1> QED
    BY <1>1, <1>2 DEF TripInv, Overlaps

LEMMA CheckTrip ==
    ASSUME NEW c \in Client, Inv, TripInv, Check(c)
    PROVE  TripInv'
<1>1. UNCHANGED <<item, page, op, via, got, raced>> /\ pc[c] = "check"
    BY DEF Check
<1>2. TripSet(c) /\ PageInv /\ item \in Settable \union OfTheHandle
    BY DEF TripInv, Inv, DataTypes
<1>3. CASE Verdict(c) = ""
    <2>1. /\ todo' = [todo EXCEPT ![c] = Stores(item, data[c])] /\ pc' = [pc EXCEPT ![c] = "store"]
          /\ holds' = holds \union {data[c]} /\ UNCHANGED <<data, ans>>
        BY <1>3 DEF Check, Put
    <2>2. /\ todo'[c] = Stores(item, data[c]) /\ pc'[c] = "store"
          /\ \A d \in Client \ {c} : pc'[d] = pc[d] /\ todo'[d] = todo[d]
        BY <2>1 DEF Inv, FreeInv, CallTypes, DataTypes
    <2>3. /\ item \in Settable /\ data[c] # Undecodable /\ Accepted(item, data[c])
        BY <1>2, <1>3 DEF Verdict, OfTheHandle
    <2>4. Kept(data[c])
        BY <1>1, <1>2, <2>3, AcceptedKept DEF TripSet
    <2>5. ASSUME NEW v PROVE Kept(v)' <=> Kept(v)
        BY <1>1 DEF Kept, IsOneWord
    <2>6. PageInv'
        <3>1. HasWords(page.word)'
            BY <1>1, <1>2 DEF PageInv, HasWords, Words
        <3>2. ASSUME NEW v \in holds', holds' = {v} PROVE PageHolds(v)'
            <4>1. v = data[c] /\ holds = {v}
                BY <1>2, <2>1, <3>2 DEF PageInv
            <4>2. CASE item = "AM_OMX_FLAG"
                <5>1. Shows(page, v)
                    BY <1>2, <4>1, <4>2 DEF PageInv, PageHolds
                <5>2. Shows(page, v)'
                    BY <1>1, <5>1 DEF Shows
                <5> QED
                    BY <1>1, <4>2, <5>2 DEF PageHolds
            <4>3. CASE item # "AM_OMX_FLAG"
                <5>1. Storing(c)'
                    BY <2>2 DEF Storing
                <5>2. \A s \in Stores(item', v) : Pending(s)'
                    BY <1>1, <2>2, <4>1, <5>1 DEF Pending
                <5> QED
                    BY <1>1, <2>3, <4>3, <5>1, <5>2 DEF PageHolds
            <4> QED
                BY <4>2, <4>3
        <3> QED
            BY <1>1, <1>2, <2>1, <2>4, <2>5, <3>1, <3>2 DEF PageInv
    <2>7. TripSet(c)'
        BY <1>1, <1>2, <2>1, <2>2, <2>3, <2>4, <2>5 DEF TripSet
    <2> QED
        BY <1>1, <2>1, <2>2, <2>6, <2>7, SetStepTrip
<1>4. CASE Verdict(c) # ""
    <2>1. EndSet(c, Verdict(c)) /\ UNCHANGED todo
        BY <1>4 DEF Check
    <2>2. CASE Verdict(c) # "NONE" \/ raced[c]
        BY <1>1, <2>1, <2>2, PageAtError, EndSetTrip
    <2>3. CASE Verdict(c) = "NONE" /\ ~raced[c]
        <3>1. /\ holds' = {data[c]} /\ pc'[c] = "done"
              /\ \A d \in Client \ {c} : pc'[d] = pc[d]
            BY <2>1, <2>3 DEF EndSet, Put, Inv, FreeInv, CallTypes
        <3>2. item = "DATASPACE" /\ data[c] # Undecodable /\ page.word = data[c].w
            BY <2>3 DEF Verdict
        <3>3. IsOneWord(data[c])
            BY <1>1, <1>2, <3>2, OneWordValues DEF TripSet, OneWord
        <3>4. data[c] = Some(<<data[c].w[1]>>)
            BY <3>2, <3>3 DEF IsOneWord
        <3>5. Kept(data[c])
            BY <3>2, <3>3, <3>4 DEF Kept, Some, OneWord
        <3>6. Shows(page, data[c])
            <4>1. page.state = 1
                BY <1>2, <3>2 DEF PageInv, AlwaysOccupied
            <4>2. data[c] = Some(page.word)
                <5>1. data[c].w = <<data[c].w[1]>>
                    BY <3>4 DEF Some
                <5> QED
                    BY <3>2, <3>4, <5>1
            <4>3. Shown(item, page) = data[c]
                BY <3>2, <4>1, <4>2 DEF Shown
            <4> QED
                BY <3>2, <4>3 DEF Shows, Matches
        <3>7. \A d \in Client : ~Storing(d)'
            <4>1. \A d \in Client \ {c} : ~Storing(d)
                BY <1>1, <2>3, SetAlone
            <4> QED
                BY <3>1, <4>1 DEF Storing
        <3>8. PageInv'
            <4>1. HasWords(page.word)'
                BY <1>1, <1>2 DEF PageInv, HasWords, Words
            <4>2. \A v : Kept(v) => Kept(v)'
                BY <1>1 DEF Kept, IsOneWord
            <4>3. \A v : Shows(page, v) => Shows(page, v)'
                BY <1>1 DEF Shows
            <4> QED
                BY <1>1, <1>2, <3>1, <3>5, <3>6, <3>7, <4>1, <4>2, <4>3 DEF PageInv, PageHolds
        <3> QED
            BY <1>1, <2>1, <3>8, EndSetTrip
    <2> QED
        BY <2>2, <2>3
<1> QED
    BY <1>3, <1>4

\* The page after a store, of a value that the item may then hold alone.
LEMMA StoreWordPage ==
    ASSUME NEW c \in Client, Inv, TripInv, pc[c] = "store", NEW s \in todo[c],
           page' = Stored(page, s), UNCHANGED <<item, raced>>, todo'[c] = todo[c] \ {s},
           \A d \in Client \ {c} : pc'[d] = pc[d] /\ todo'[d] = todo[d],
           \/ pc'[c] = "store" /\ holds' = holds
           \/ pc'[c] = "done" /\ todo[c] = {s} /\ holds' = IF raced[c] THEN holds ELSE {data[c]}
    PROVE  PageInv' /\ \A t \in Stores(item, data[c]) : In(page, t) \/ t = s => In(page', t)
<1>0. PICK w : w = data[c]
    OBVIOUS
<1>1. /\ item \in Settable /\ Kept(w) /\ w \in holds /\ todo[c] \subseteq Stores(item, w)
      /\ ~raced[c] => \A t \in Stores(item, w) : t \in todo[c] \/ In(page, t)
    BY <1>0 DEF TripInv, TripSet
<1>2. PageInv
    BY DEF TripInv
<1>3. /\ \A t \in Stores(item, w) : In(page, t) \/ t = s => In(page', t)
      /\ HasWords(page'.word) /\ (item \in AlwaysOccupied => page'.state = 1)
    BY <1>1, <1>2, StoredStays DEF PageInv
<1>4. ASSUME NEW v \in holds' PROVE Kept(v)'
    <2>1. Kept(v)
        BY <1>0, <1>1, <1>2 DEF PageInv
    <2> QED
        BY <2>1 DEF Kept, IsOneWord
<1>5. ASSUME NEW v, holds' = {v} PROVE v = w
    BY <1>0, <1>1, <1>5
<1>6. ASSUME \A t \in Stores(item, w) : In(page', t) PROVE Shows(page, w)'
    <2>1. Shows(page', w)
        BY <1>1, <1>3, <1>6, StoresShow
    <2> QED
        BY <2>1 DEF Shows
<1>7. ASSUME item = "AM_OMX_FLAG" PROVE Shows(page, w)'
    <2>1. Stores(item, w) = {s}
        BY <1>1, <1>7, StoresAre
    <2> QED
        BY <1>3, <1>6, <2>1
<1>8. ASSUME item # "AM_OMX_FLAG", holds' = {w}, NEW t \in Stores(item, w) PROVE Pending(t)'
    <2>1. CASE In(page', t)
        <3>1. In(page, t)'
            BY <2>1 DEF In
        <3> QED
            BY <3>1 DEF Pending
    <2>2. CASE ~In(page', t)
        <3>1. ~In(page, t) /\ t # s
            BY <1>3, <2>2
        <3>2. CASE holds = {w}
            <4>1. PageHolds(w) /\ Storing(c)
                BY <1>2, <3>2 DEF PageInv, Storing
            <4>2. PICK d \in Client : Storing(d) /\ t \in todo[d]
                BY <1>8, <3>1, <4>1 DEF PageHolds, Pending
            <4>3. pc'[d] = "store" /\ t \in todo'[d]
                BY <3>1, <4>2 DEF Storing
            <4> QED
                BY <4>3 DEF Pending, Storing
        <3>3. CASE holds # {w}
            BY <1>0, <1>1, <1>8, <3>1, <3>3
        <3> QED
            BY <3>2, <3>3
    <2> QED
        BY <2>1, <2>2
<1>9. ASSUME holds' = {w} PROVE PageHolds(w)'
    <2>1. CASE item = "AM_OMX_FLAG"
        BY <1>7, <2>1 DEF PageHolds
    <2>2. CASE item # "AM_OMX_FLAG" /\ \E d \in Client : Storing(d)'
        <3>1. \A t \in Stores(item', w) : Pending(t)'
            BY <1>8, <1>9, <2>2
        <3> QED
            BY <1>1, <2>2, <3>1 DEF PageHolds
    <2>3. CASE item # "AM_OMX_FLAG" /\ ~\E d \in Client : Storing(d)'
        <3>1. \A t \in Stores(item, w) : Pending(t)'
            BY <1>8, <1>9, <2>3
        <3>2. \A t \in Stores(item, w) : In(page', t)
            BY <2>3, <3>1 DEF Pending, In
        <3>3. Shows(page, w)'
            BY <1>6, <3>2
        <3> QED
            BY <2>3, <3>3 DEF PageHolds
    <2> QED
        BY <2>1, <2>2, <2>3
<1>10. PageInv'
    <2>1. HasWords(page.word)'
        BY <1>3 DEF HasWords, Words
    <2>2. holds' # {}
        BY <1>2 DEF PageInv
    <2>3. item' \in AlwaysOccupied => page'.state = 1
        BY <1>3
    <2>4. ASSUME NEW v \in holds' PROVE Kept(v)' /\ (holds' = {v} => PageHolds(v)')
        BY <1>4, <1>5, <1>9
    <2> QED
        BY <2>1, <2>2, <2>3, <2>4 DEF PageInv
<1> QED
    BY <1>0, <1>3, <1>10

LEMMA StoreWordTrip ==
    ASSUME NEW c \in Client, Inv, TripInv, StoreWord(c)
    PROVE  TripInv'
<1>1. UNCHANGED <<item, op, via, got, raced>> /\ pc[c] = "store"
    BY DEF StoreWord
<1>2. PICK s \in todo[c] :
         /\ page' = Stored(page, s) /\ todo' = [todo EXCEPT ![c] = todo[c] \ {s}]
         /\ IF todo[c] = {s} THEN EndSet(c, "NONE") ELSE UNCHANGED <<pc, data, ans, holds>>
    BY DEF StoreWord, Put
<1>3. todo'[c] = todo[c] \ {s} /\ \A d \in Client \ {c} : todo'[d] = todo[d]
    BY <1>2 DEF Inv, DataTypes
<1>4. CASE todo[c] = {s} /\ EndSet(c, "NONE")
    <2>1. /\ pc'[c] = "done" /\ \A d \in Client \ {c} : pc'[d] = pc[d]
          /\ holds' = IF raced[c] THEN holds ELSE {data[c]}
        BY <1>4 DEF EndSet, Put, Inv, FreeInv, CallTypes
    <2>2. PageInv'
        BY <1>1, <1>2, <1>3, <1>4, <2>1, StoreWordPage
    <2> QED
        BY <1>1, <1>3, <1>4, <2>2, EndSetTrip
<1>5. CASE UNCHANGED <<pc, data, ans, holds>>
    <2>1. PageInv' /\ \A t \in Stores(item, data[c]) : In(page, t) \/ t = s => In(page', t)
        BY <1>1, <1>2, <1>3, <1>5, StoreWordPage
    <2>2. TripSet(c)'
        <3>1. Kept(data[c])' <=> Kept(data[c])
            BY <1>1, <1>5 DEF Kept, IsOneWord
        <3>2. \A t : In(page, t)' <=> In(page', t)
            BY DEF In
        <3>3. TripSet(c)
            BY DEF TripInv
        <3>4. /\ item' \in Settable /\ data'[c] \in holds' /\ Kept(data[c])'
              /\ todo'[c] \subseteq Stores(item', data'[c])
              /\ pc'[c] \in {"check", "store"} /\ via'[c] # c => item' = "AM_OMX_FLAG"
            BY <1>1, <1>3, <1>5, <3>1, <3>3 DEF TripSet
        <3>5. ~raced'[c] => \A t \in Stores(item', data'[c]) : t \in todo'[c] \/ In(page, t)'
            BY <1>1, <1>3, <1>5, <2>1, <3>2, <3>3 DEF TripSet
        <3> QED
            BY <1>1, <1>5, <3>4, <3>5 DEF TripSet
    <2> QED
        BY <1>1, <1>3, <1>5, <2>1, <2>2, SetStepTrip
<1> QED
    BY <1>2, <1>4, <1>5

LEMMA UseFreedTrip ==
    ASSUME NEW c \in Client, Inv, TripInv, UseFreed(c)
    PROVE  TripInv'
<1>1. UNCHANGED <<item, page, op, via, todo, got, raced>> /\ EndSet(c, "freed")
    BY DEF UseFreed
<1>2. CASE pc[c] = "check"
    BY <1>1, <1>2, PageAtError, EndSetTrip
<1>3. CASE pc[c] = "store" /\ handle[via[c]] # "mapped"
    <2>1. item = "AM_OMX_FLAG"
        BY <1>3 DEF Inv, FreeInv, Uses, TripInv, TripSet
    <2>2. holds' = holds
        BY <1>1 DEF EndSet
    <2>3. PageInv'
        <3>1. PageInv
            BY DEF TripInv
        <3>2. \A v : (Kept(v) => Kept(v)') /\ (Shows(page, v) => Shows(page, v)')
            BY <1>1 DEF Kept, IsOneWord, Shows
        <3>3. HasWords(page.word)'
            BY <1>1, <3>1 DEF PageInv, HasWords, Words
        <3>4. \A v \in holds : holds = {v} => Shows(page, v)
            BY <2>1, <3>1 DEF PageInv, PageHolds
        <3> QED
            BY <1>1, <2>1, <2>2, <3>1, <3>2, <3>3, <3>4 DEF PageInv, PageHolds
    <2> QED
        BY <1>1, <1>3, <2>3, EndSetTrip
<1> QED
    BY <1>2, <1>3 DEF UseFreed

LEMMA NextTrip == Inv /\ TripInv /\ [Next]_vars => TripInv'
<1> SUFFICES ASSUME Inv, TripInv, [Next]_vars PROVE TripInv'
    OBVIOUS
<1>1. ASSUME NEW c \in Client,
             \/ \E o \in {"get", "dump"} : ReadRaw(c, o) \/ Read(c, o)
             \/ \E v \in Values \union {Undecodable} : SetImported(c, v) \/ SetRaw(c, v)
      PROVE  TripInv'
    BY <1>1, CallsTrip
<1>2. ASSUME NEW c \in Client, Import(c) \/ Unregister(c) \/ Unmap(c) \/ Clear(c) \/ Delete(c)
      PROVE  TripInv'
    BY <1>2, HandleStepsTrip
<1>3. ASSUME NEW c \in Client,
             Fallback(c) \/ Check(c) \/ StoreWord(c) \/ UseFreed(c) \/ LoadState(c) \/ Load(c) \/ Return(c)
      PROVE  TripInv'
    BY <1>3, LoadStateTrip, LoadTrip, ReturnTrip, FallbackTrip, CheckTrip, StoreWordTrip, UseFreedTrip
<1>4. ASSUME UNCHANGED vars PROVE TripInv'
    <2>1. UNCHANGED <<item, page, data, op, via, todo, got, ans, pc, holds, raced>>
        BY <1>4 DEF vars, call, work, history
    <2>2. PageInv'
        BY <2>1, PageStays DEF TripInv, Storing
    <2>3. Overlaps'
        BY <2>1 DEF TripInv, Overlaps, Busy, Setting
    <2>4. ASSUME NEW c \in Client PROVE TripSet(c)' /\ TripGet(c)'
        <3>1. Values' = Values /\ Words' = Words /\ NothingRead' = NothingRead /\ Rooms(c, op[c])' = Rooms(c, op[c])
            BY <2>1 DEF Values, Words, NothingRead, Rooms
        <3>2. Kept(data[c])' <=> Kept(data[c])
            BY <2>1 DEF Kept, IsOneWord
        <3>3. \A s : In(page, s)' <=> In(page, s)
            BY <2>1 DEF In
        <3>4. TripSet(c)'
            BY <2>1, <3>1, <3>2, <3>3 DEF TripInv, TripSet
        <3>5. (HasWords(got[c].word)' <=> HasWords(got[c].word)) /\ (IsAnswer(c)' <=> IsAnswer(c))
            BY <2>1, <3>1 DEF HasWords, IsAnswer, Legible
        <3>6. TripGet(c)'
            BY <2>1, <3>1, <3>5 DEF TripInv, TripGet, Answered
        <3> QED
            BY <3>4, <3>6
    <2> QED
        BY <2>2, <2>3, <2>4 DEF TripInv
<1> QED
    BY <1>1, <1>2, <1>3, <1>4, MetadataAssumption DEF Next

-----------------------------------------------------------------------------
(* Theorems                                                                *)

\* aml_get and set_metadata, for any clients in any processes: a set touches a freed handle only
\* if it came with a raw one and the owner freed the handle after the lookup in the pool.
THEOREM OwnHandlesAreSafe == Spec => []FreedUnderASetOnly
<1>1. FreeInv => FreedUnderASetOnly
    BY DEF FreeInv, Freed, FreedUnderASetOnly
<1> QED
    BY <1>1, InitFreeInv, NextFreeInv, PTL DEF Spec

\* get and dump against racing sets, without a lock, for any number of clients: an item of one
\* word never reads as anything but a value it held or that one of the sets is storing.
THEOREM OneWordRegisters == Spec => []OneWordItemsAreRegisters
<1>1. Inv => OneWordItemsAreRegisters
    BY DEF Inv, RegInv, RegGet, OneWordItemsAreRegisters
<1> QED
    BY <1>1, InitRegInv, NextRegInv, PTL DEF Spec

\* set_crop_rect and get of the crop, for any number of clients and any plane: a crop that racing
\* sets tore still lies inside the allocated plane.
THEOREM TornCropsStayInside == Spec => []CropsStayInside
<1>1. CropInv => CropsStayInside
    BY DEF CropInv, CropCall, Inside, CropsStayInside
<1> QED
    BY <1>1, InitRegInv, NextRegInv, InitCropInv, NextCropInv, PTL DEF Spec

\* get, set and dump, for any clients in any processes, any plane and any vector: a call that no
\* set overlaps answers with what the latest successful set gave, although a set stores its words
\* one at a time, in any order, and a read loads them the same way.
THEOREM ReadsRoundTrip == Spec => []UnracedReadsRoundTrip
<1>1. TripInv => UnracedReadsRoundTrip
    <2> SUFFICES ASSUME TripInv, NEW c \in Client, NEW v \in holds, Answered(c), ~raced[c], holds = {v}
                 PROVE  CASE ans[c].err = "NONE" -> Matches(item, ans[c].v, v) /\ Legible(c, v)
                          [] ans[c].err \in {"NO_RESOURCES", "left out"} ->
                                \E room \in Rooms(c, op[c]) : room < Size(item, v)
                          [] ans[c].err \in {"BAD_BUFFER", "not listed"} -> item \in Settable
        BY DEF UnracedReadsRoundTrip, Legible
    <2>1. IsAnswer(c)
        BY DEF TripInv, TripGet
    <2>2. CASE ans[c].err = "NONE"
        BY <2>1, <2>2 DEF IsAnswer
    <2>3. CASE ans[c].err \in {"NO_RESOURCES", "left out"}
        BY <2>1, <2>3 DEF IsAnswer
    <2>4. CASE ans[c].err \in {"BAD_BUFFER", "not listed"}
        BY <2>1, <2>4 DEF IsAnswer
    <2> QED
        BY <2>1, <2>2, <2>3, <2>4 DEF IsAnswer
<1> QED
    BY <1>1, InitRegInv, NextRegInv, InitTrip, NextTrip, PTL DEF Spec
=============================================================================
