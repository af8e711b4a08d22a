---------------------------- MODULE KcacheProofs ----------------------------
(***************************************************************************)
(* Proofs about the slab allocator for every number and size of caches,    *)
(* every word and int size and every content of the red zone.              *)
(***************************************************************************)
EXTENDS Kcache, FiniteSetTheorems, FunctionTheorems, TLAPS

Running == {"choose", "slab", "map", "carve", "take"}

\* A buffer that was handed out has its mask set, in the bitmap or in the
\* word behind it, so that no later search finds it free.
Marked ==
  \A b \in Buffer :
    handed[b] # 0 => Mask(b[2] % WordBits) \subseteq bitmap[<<b[1], b[2] \div WordBits>>]

\* While a call runs it holds the lock of its cache, and no other.
Locking ==
  /\ pc = "idle" => \A c \in Cache : lock[c] = 0
  /\ pc \in Running => \A c \in Cache : lock[c] = (IF op # "grow" /\ c = cache THEN 1 ELSE 0)

\* A slab is only carved where there is room for it.
Room == pc \in {"map", "carve"} => nslab[cache] < MaxSlabs

IInv == TypeOK /\ Marked /\ BufferOnce /\ Locking /\ Room

\* The place of a buffer in the bitmap.
LEMMA Place ==
  ASSUME NEW p \in 0 .. MaxBuffers
  PROVE  p \div WordBits \in 0 .. MaxBuffers /\ p % WordBits \in Bit
<1>1. WordBits \in Nat /\ WordBits > 0 /\ MaxBuffers \in Nat BY KcacheAssumption
<1>2. p \in Nat /\ p <= MaxBuffers BY <1>1
<1>3. p % WordBits \in 0 .. WordBits - 1 BY <1>1, <1>2
<1>4. p \div WordBits \in Nat /\ p \div WordBits <= p BY <1>1, <1>2
<1> QED BY <1>1, <1>2, <1>3, <1>4 DEF Bit

\* A mask has a bit, and its bits are bits of a word.
LEMMA MaskIn == ASSUME NEW b \in Bit PROVE Mask(b) \subseteq Bit /\ Mask(b) # {}
<1>1. /\ WordBits \in Nat /\ IntBits \in Nat /\ IntBits > 0 /\ IntBits <= WordBits
      /\ b \in Nat
  BY KcacheAssumption DEF Bit
<1> DEFINE k == b % IntBits
<1>2. k \in 0 .. IntBits - 1 BY <1>1
<1> HIDE DEF k
<1>3. CASE k = IntBits - 1
  <2>1. k \in k .. (WordBits - 1) /\ k .. (WordBits - 1) \subseteq 0 .. (WordBits - 1)
    BY <1>1, <1>2
  <2> QED BY <1>3, <2>1 DEF Mask, Bit, k
<1>4. CASE k # IntBits - 1
  <2>1. k \in 0 .. (WordBits - 1) BY <1>1, <1>2
  <2> QED BY <1>4, <2>1 DEF Mask, Bit, k
<1> QED BY <1>3, <1>4

\* Initially nothing is handed out.
LEMMA InitInv == Init => IInv
<1> SUFFICES ASSUME Init PROVE IInv OBVIOUS
<1>1. TypeOK
  <2>1. MaxSlabs \in Nat /\ MaxSlabs > 0 BY KcacheAssumption
  <2>2. nslab \in [Cache -> 0 .. MaxSlabs] BY <2>1 DEF Init
  <2>3. bitmap \in [Word -> SUBSET Bit]
    BY KcacheAssumption DEF Init, NewWord, Bit
  <2>4. <<Internal, 1>> \in Slab BY <2>1, KcacheAssumption DEF Slab
  <2> QED BY <2>2, <2>3, <2>4, KcacheAssumption DEF Init, TypeOK
<1>2. Marked /\ BufferOnce BY DEF Init, Marked, BufferOnce
<1>3. Locking /\ Room BY DEF Init, Locking, Room, Running
<1> QED BY <1>1, <1>2, <1>3 DEF IInv

\* A buffer whose mask is clear was never handed out.
LEMMA FreeUnused ==
  ASSUME Marked, NEW s \in Slab, NEW p \in FreeBuffers(s)
  PROVE  handed[<<s, p>>] = 0
<1>1. s[1] \in Cache BY DEF Slab
<1>2. p \in 0 .. MaxBuffers BY <1>1, KcacheAssumption DEF FreeBuffers
<1>3. p % WordBits \in Bit /\ <<s, p>> \in Buffer BY <1>2, Place DEF Buffer
<1>4. Mask(p % WordBits) # {} BY <1>3, MaskIn
<1>5. Mask(p % WordBits) \cap bitmap[<<s, p \div WordBits>>] = {} BY DEF FreeBuffers
<1>6. <<s, p>>[1] = s /\ <<s, p>>[2] = p OBVIOUS
<1> QED BY <1>3, <1>4, <1>5, <1>6 DEF Marked

\* Marking a free buffer keeps every buffer at one owner.
LEMMA HandOutInv ==
  ASSUME TypeOK, Marked, BufferOnce, NEW s \in Slab, NEW p \in FreeBuffers(s),
         HandOut(s, p)
  PROVE  /\ Marked' /\ BufferOnce'
         /\ refs' \in [Slab -> Nat] /\ bitmap' \in [Word -> SUBSET Bit]
         /\ handed' \in [Buffer -> Nat]
<1>1. s[1] \in Cache BY DEF Slab
<1>2. p \in 0 .. MaxBuffers /\ BufferCount[s[1]] \in Nat
  BY <1>1, KcacheAssumption DEF FreeBuffers
<1> DEFINE i == p \div WordBits
           m == Mask(p % WordBits)
<1>3. i \in 0 .. MaxBuffers /\ p % WordBits \in Bit BY <1>2, Place
<1>4. m \subseteq Bit /\ m # {} BY <1>3, MaskIn
<1>5. m \cap bitmap[<<s, i>>] = {} BY DEF FreeBuffers
<1>6. <<s, i>> \in Word /\ <<s, p>> \in Buffer BY <1>2, <1>3 DEF Word, Buffer
<1>7. /\ bitmap' = [bitmap EXCEPT ![<<s, i>>] = @ \cup m]
      /\ refs' = [refs EXCEPT ![s] = @ + 1]
      /\ handed' = [handed EXCEPT ![<<s, p>>] = @ + 1]
  BY DEF HandOut
<1>8. handed[<<s, p>>] = 0 BY FreeUnused
<1> HIDE DEF i, m
<1>9. \A w \in Word : bitmap[w] \subseteq bitmap'[w]
  BY <1>6, <1>7 DEF TypeOK
<1>10. \A b \in Buffer : b = <<s, p>> \/ handed'[b] = handed[b]
  BY <1>6, <1>7 DEF TypeOK
<1>11. m \subseteq bitmap'[<<s, i>>] BY <1>6, <1>7 DEF TypeOK
<1>12. Marked'
  <2> SUFFICES ASSUME NEW b \in Buffer, handed'[b] # 0
               PROVE  Mask(b[2] % WordBits) \subseteq bitmap'[<<b[1], b[2] \div WordBits>>]
    BY DEF Marked
  <2>1. CASE b = <<s, p>>
    <3>1. b[1] = s /\ b[2] = p BY <2>1
    <3> QED BY <3>1, <1>11 DEF i, m
  <2>2. CASE b # <<s, p>>
    <3>1. handed[b] # 0 BY <2>2, <1>10
    <3>2. b[1] \in Slab /\ b[2] \in 0 .. MaxBuffers BY DEF Buffer
    <3>3. <<b[1], b[2] \div WordBits>> \in Word BY <3>2, Place DEF Word
    <3> QED BY <3>1, <3>3, <1>9 DEF Marked
  <2> QED BY <2>1, <2>2
<1>13. BufferOnce'
  <2>1. handed'[<<s, p>>] = 1 BY <1>6, <1>7, <1>8 DEF TypeOK
  <2> QED BY <2>1, <1>10 DEF BufferOnce
<1>14. /\ refs' \in [Slab -> Nat] /\ handed' \in [Buffer -> Nat]
  BY <1>6, <1>7 DEF TypeOK
<1>15. bitmap' \in [Word -> SUBSET Bit] BY <1>4, <1>6, <1>7 DEF TypeOK
<1> QED BY <1>12, <1>13, <1>14, <1>15

\* A call leaves the slabs alone.
LEMMA CallInv == ASSUME IInv, Caller PROVE IInv'
<1>1. /\ pc = "idle" /\ ret' = "none"
      /\ UNCHANGED <<created, nslab, refs, bitmap, handed, slab>>
  BY DEF Caller, CallAlloc, CallCreate, CallGrow, Call
<1>2. /\ op' \in {"alloc", "create", "grow"} /\ cache' \in Cache /\ new' \in Cache
      /\ pc' \in {"choose", "slab"}
      /\ \A c \in Cache : lock'[c] = (IF op' # "grow" /\ c = cache' THEN 1 ELSE 0)
      /\ lock' \in [Cache -> {0, 1}]
  <2>0. lock \in [Cache -> {0, 1}] /\ created \subseteq Cache /\ \A c \in Cache : lock[c] = 0
    BY <1>1 DEF IInv, TypeOK, Locking
  <2>1. CASE CallAlloc
    <3> PICK c \in created \ {Internal} :
          Call("alloc", c, c) /\ TakeLock(c) /\ pc' = "choose"
      BY <2>1 DEF CallAlloc
    <3> QED BY <2>0 DEF Call, TakeLock
  <2>2. CASE CallCreate
    <3> PICK c \in Cache \ created :
          Call("create", Internal, c) /\ TakeLock(Internal) /\ pc' = "choose"
      BY <2>2 DEF CallCreate
    <3> QED BY <2>0, KcacheAssumption DEF Call, TakeLock
  <2>3. CASE CallGrow
    <3> PICK c \in created \ {Marker} :
          Call("grow", c, c) /\ UNCHANGED lock /\ pc' = "slab"
      BY <2>3 DEF CallGrow
    <3> QED BY <2>0 DEF Call
  <2> QED BY <2>1, <2>2, <2>3 DEF Caller
<1>3. TypeOK' BY <1>1, <1>2 DEF IInv, TypeOK
<1>4. Marked' /\ BufferOnce' BY <1>1 DEF IInv, Marked, BufferOnce
<1>5. Locking' /\ Room' BY <1>2 DEF Locking, Room, Running
<1> QED BY <1>3, <1>4, <1>5 DEF IInv

\* What the end of a call does to locks and types.
LEMMA FinishInv ==
  ASSUME IInv, pc \in Running, NEW r \in {"buffer", "full", "oom", "grown"}, Finish(r)
  PROVE  /\ created' \subseteq Cache /\ lock' \in [Cache -> {0, 1}]
         /\ pc' = "idle" /\ ret' = r /\ UNCHANGED <<op, new, cache, slab>>
         /\ Locking' /\ Room'
<1>1. /\ pc' = "idle" /\ ret' = r /\ UNCHANGED <<op, new, cache, slab>>
      /\ lock' = IF op = "grow" THEN lock ELSE [lock EXCEPT ![cache] = 0]
  BY DEF Finish
<1>2. created' \subseteq Cache BY DEF Finish, IInv, TypeOK
<1>3. lock' \in [Cache -> {0, 1}] /\ \A c \in Cache : lock'[c] = 0
  BY <1>1 DEF IInv, TypeOK, Locking
<1> QED BY <1>1, <1>2, <1>3 DEF Locking, Room, Running

\* A stop, or a step on to the mapping of a slab.
LEMMA StopInv ==
  ASSUME IInv, pc \in Running, NEW why \in {"map", "hung", "fault", "panic"}, Stop(why),
         why = "map" => nslab[cache] < MaxSlabs
  PROVE  IInv'
<1>1. /\ pc' = why
      /\ UNCHANGED <<created, nslab, refs, bitmap, handed, lock, op, new, cache, slab, ret>>
  BY DEF Stop
<1>2. TypeOK' BY <1>1 DEF IInv, TypeOK
<1>3. Marked' /\ BufferOnce' BY <1>1 DEF IInv, Marked, BufferOnce
<1>4. Locking' /\ Room' BY <1>1 DEF IInv, Locking, Room, Running
<1> QED BY <1>2, <1>3, <1>4 DEF IInv

\* newSlab() gives up.
LEMMA NoSlabInv == ASSUME IInv, pc \in Running, NoSlab PROVE IInv'
<1>1. CASE Stop("panic") BY <1>1, StopInv
<1>2. CASE Finish("oom") /\ UNCHANGED <<nslab, refs, bitmap, handed>>
  <2>1. /\ created' \subseteq Cache /\ lock' \in [Cache -> {0, 1}]
        /\ pc' = "idle" /\ ret' = "oom" /\ UNCHANGED <<op, new, cache, slab>>
        /\ Locking' /\ Room'
    BY <1>2, FinishInv
  <2>2. TypeOK' BY <1>2, <2>1 DEF IInv, TypeOK
  <2>3. Marked' /\ BufferOnce' BY <1>2 DEF IInv, Marked, BufferOnce
  <2> QED BY <2>1, <2>2, <2>3 DEF IInv
<1> QED BY <1>1, <1>2 DEF NoSlab

\* The nested allocation of a marker keeps the invariant, and so do its
\* failures.
LEMMA MapInv == ASSUME IInv, MapSlab PROVE IInv'
<1>0. pc \in Running BY DEF MapSlab, Running
<1>1. CASE Stop("hung") BY <1>0, <1>1, StopInv
<1>2. CASE \E i \in OpenSlabs(Marker) :
             FreeBuffers(<<Marker, i>>) = {} /\ (Stop("fault") \/ NoSlab)
  BY <1>0, <1>2, StopInv, NoSlabInv
<1>3. CASE \E i \in OpenSlabs(Marker) : \E p \in FreeBuffers(<<Marker, i>>) :
             /\ HandOut(<<Marker, i>>, p)
             /\ pc' = "carve"
             /\ UNCHANGED <<created, nslab, lock, op, new, cache, slab, ret>>
  <2> PICK i \in OpenSlabs(Marker) : \E p \in FreeBuffers(<<Marker, i>>) :
             /\ HandOut(<<Marker, i>>, p)
             /\ pc' = "carve"
             /\ UNCHANGED <<created, nslab, lock, op, new, cache, slab, ret>>
    BY <1>3
  <2> PICK p \in FreeBuffers(<<Marker, i>>) :
             /\ HandOut(<<Marker, i>>, p)
             /\ pc' = "carve"
             /\ UNCHANGED <<created, nslab, lock, op, new, cache, slab, ret>>
    OBVIOUS
  <2>1. nslab[Marker] \in 0 .. MaxSlabs /\ MaxSlabs \in Nat
    BY KcacheAssumption DEF IInv, TypeOK
  <2>2. i \in 1 .. MaxSlabs BY <2>1 DEF OpenSlabs
  <2>3. <<Marker, i>> \in Slab BY <2>2, KcacheAssumption DEF Slab
  <2>4. /\ Marked' /\ BufferOnce'
        /\ refs' \in [Slab -> Nat] /\ bitmap' \in [Word -> SUBSET Bit]
        /\ handed' \in [Buffer -> Nat]
    BY <2>3, HandOutInv DEF IInv
  <2>5. TypeOK' BY <2>4 DEF IInv, TypeOK
  <2>6. pc = "map" BY DEF MapSlab
  <2>7. Locking' /\ Room' BY <2>6 DEF IInv, Locking, Room, Running
  <2> QED BY <2>4, <2>5, <2>7 DEF IInv
<1> QED BY <1>1, <1>2, <1>3 DEF MapSlab

\* allocateBuffer() keeps the invariant.
LEMMA AllocateInv == ASSUME IInv, AllocateBuffer PROVE IInv'
<1>0. pc \in Running /\ slab \in Slab /\ UNCHANGED nslab
  BY DEF AllocateBuffer, Running, IInv, TypeOK
<1>1. CASE \E p \in FreeBuffers(slab) : HandOut(slab, p) /\ Finish("buffer")
  <2> PICK p \in FreeBuffers(slab) : HandOut(slab, p) /\ Finish("buffer") BY <1>1
  <2>1. /\ created' \subseteq Cache /\ lock' \in [Cache -> {0, 1}]
        /\ pc' = "idle" /\ ret' = "buffer" /\ UNCHANGED <<op, new, cache, slab>>
        /\ Locking' /\ Room'
    BY <1>0, FinishInv
  <2>2. /\ Marked' /\ BufferOnce'
        /\ refs' \in [Slab -> Nat] /\ bitmap' \in [Word -> SUBSET Bit]
        /\ handed' \in [Buffer -> Nat]
    BY <1>0, HandOutInv DEF IInv
  <2>3. TypeOK' BY <1>0, <2>1, <2>2 DEF IInv, TypeOK
  <2> QED BY <2>1, <2>2, <2>3 DEF IInv
<1>2. CASE Finish("full") /\ UNCHANGED <<refs, bitmap, handed>>
  <2>1. /\ created' \subseteq Cache /\ lock' \in [Cache -> {0, 1}]
        /\ pc' = "idle" /\ ret' = "full" /\ UNCHANGED <<op, new, cache, slab>>
        /\ Locking' /\ Room'
    BY <1>0, <1>2, FinishInv
  <2>2. TypeOK' BY <1>0, <1>2, <2>1 DEF IInv, TypeOK
  <2>3. Marked' /\ BufferOnce' BY <1>2 DEF IInv, Marked, BufferOnce
  <2> QED BY <2>1, <2>2, <2>3 DEF IInv
<1> QED BY <1>1, <1>2 DEF AllocateBuffer

\* The other steps of a call touch no bitmap.
LEMMA StepInv == ASSUME IInv, Choose \/ NewSlab \/ CarveSlab PROVE IInv'
<1>0. /\ nslab \in [Cache -> 0 .. MaxSlabs] /\ cache \in Cache /\ MaxSlabs \in Nat
      /\ nslab[cache] \in 0 .. MaxSlabs
  BY KcacheAssumption DEF IInv, TypeOK
<1>1. CASE Choose
  <2>1. /\ pc = "choose" /\ pc' \in {"take", "slab"}
        /\ UNCHANGED <<created, nslab, refs, bitmap, handed, lock, op, new, cache, ret>>
    BY <1>1 DEF Choose
  <2>2. slab' \in Slab
    <3>1. CASE UNCHANGED slab BY <3>1 DEF IInv, TypeOK
    <3>2. CASE \E i \in OpenSlabs(cache) : slab' = <<cache, i>>
      <4> PICK i \in OpenSlabs(cache) : slab' = <<cache, i>> BY <3>2
      <4>1. i \in 1 .. MaxSlabs BY <1>0 DEF OpenSlabs
      <4> QED BY <4>1, <1>0 DEF Slab
    <3> QED BY <1>1, <3>1, <3>2 DEF Choose
  <2>3. TypeOK' BY <2>1, <2>2 DEF IInv, TypeOK
  <2>4. Marked' /\ BufferOnce' BY <2>1 DEF IInv, Marked, BufferOnce
  <2>5. Locking' /\ Room' BY <2>1 DEF IInv, Locking, Room, Running
  <2> QED BY <2>3, <2>4, <2>5 DEF IInv
<1>2. CASE NewSlab
  <2>0. pc \in Running BY <1>2 DEF NewSlab, Running
  <2> QED BY <1>2, <2>0, StopInv, NoSlabInv DEF NewSlab
<1>3. CASE CarveSlab
  <2>1. /\ pc = "carve" /\ nslab' = [nslab EXCEPT ![cache] = @ + 1]
        /\ UNCHANGED <<refs, bitmap, handed>>
    BY <1>3 DEF CarveSlab
  <2>2. nslab[cache] + 1 \in 1 .. MaxSlabs BY <1>0, <2>1 DEF IInv, Room
  <2>3. nslab' \in [Cache -> 0 .. MaxSlabs] BY <1>0, <2>1, <2>2
  <2>4. Marked' /\ BufferOnce' BY <2>1 DEF IInv, Marked, BufferOnce
  <2>5. CASE Finish("grown")
    <3>0. pc \in Running BY <2>1 DEF Running
    <3>1. /\ created' \subseteq Cache /\ lock' \in [Cache -> {0, 1}]
          /\ pc' = "idle" /\ ret' = "grown" /\ UNCHANGED <<op, new, cache, slab>>
          /\ Locking' /\ Room'
      BY <2>5, <3>0, FinishInv
    <3>2. TypeOK' BY <2>1, <2>3, <3>1 DEF IInv, TypeOK
    <3> QED BY <2>4, <3>1, <3>2 DEF IInv
  <2>6. CASE /\ slab' = <<cache, nslab[cache] + 1>> /\ pc' = "take"
             /\ UNCHANGED <<created, lock, op, new, cache, ret>>
    <3>1. slab' \in Slab BY <2>2, <2>6, <1>0 DEF Slab
    <3>2. TypeOK' BY <2>1, <2>3, <2>6, <3>1 DEF IInv, TypeOK
    <3>3. Locking' /\ Room' BY <2>1, <2>6 DEF IInv, Locking, Room, Running
    <3> QED BY <2>4, <3>2, <3>3 DEF IInv
  <2> QED BY <1>3, <2>5, <2>6 DEF CarveSlab
<1> QED BY <1>1, <1>2, <1>3

\* The invariant holds in every reachable state.
LEMMA Invariance == Spec => []IInv
<1>1. IInv /\ [Next]_vars => IInv'
  <2> SUFFICES ASSUME IInv, [Next]_vars PROVE IInv' OBVIOUS
  <2>1. CASE UNCHANGED vars
    BY <2>1 DEF vars, IInv, TypeOK, Marked, BufferOnce, Locking, Room, Running
  <2> QED BY <2>1, CallInv, StepInv, MapInv, AllocateInv DEF Next, Allocator
<1> QED BY InitInv, <1>1, PTL DEF Spec

\* kcache.c keeps its fields in their types: no slab list outgrows the
\* memory there is, no mask sets a bit outside its word.
THEOREM TypeCorrect == Spec => []TypeOK
BY Invariance, PTL DEF IInv

\* Although the masks of allocateBuffer() are ints and the last word may lie
\* behind the bitmap, no buffer is ever handed out twice: its mask, whatever
\* bits it has, stays set where the next search looks for it.
THEOREM NoBufferTwice == Spec => []BufferOnce
<1>1. IInv => BufferOnce BY DEF IInv
<1> QED BY Invariance, <1>1, PTL

\* kcacheAlloc() and kcacheCreate() free the lock on every path that
\* returns, a failed newSlab() included.
THEOREM LocksGivenBack == Spec => []LocksFree
<1>1. IInv => LocksFree BY DEF IInv, Locking, LocksFree
<1> QED BY Invariance, <1>1, PTL

-----------------------------------------------------------------------------
(* What a full slab has served, and what lies behind the bitmaps *)

\* The buffers of a slab that were handed out.
Given(s) == {p \in 0 .. MaxBuffers : handed[<<s, p>>] # 0}

\* Every bit of a word inside the bitmap comes from a buffer of that word.
Origin ==
  \A s \in Slab, i \in 0 .. MaxBuffers : i < Words(s[1]) =>
    \A x \in bitmap[<<s, i>>] :
      \E p \in Given(s) : p \div WordBits = i /\ x \in Mask(p % WordBits)

\* A slab's references count its buffers; one that is not yet carved has none.
Counted ==
  /\ \A s \in Slab : refs[s] = Cardinality(Given(s))
  /\ \A c \in Cache : \A i \in 1 .. MaxSlabs : i > nslab[c] => refs[<<c, i>>] = 0

\* A search starts in a slab of the cache that is not counted full; a call
\* that runs has no result yet.
Searching ==
  /\ pc = "take" => /\ slab[1] = cache /\ slab[2] <= nslab[cache]
                    /\ refs[slab] < BufferCount[cache]
  /\ pc \in Running => ret = "none"

FullInv == IInv /\ Origin /\ Counted /\ Searching /\ RedzoneKept /\ FullServed

LEMMA Sizes ==
  /\ WordBits \in Nat /\ WordBits > 0 /\ IntBits \in Nat /\ IntBits > 0 /\ IntBits <= WordBits
  /\ MaxBuffers \in Nat /\ \A c \in Cache : BufferCount[c] \in 1 .. MaxBuffers
BY KcacheAssumption

LEMMA GivenFinite == ASSUME NEW s PROVE IsFiniteSet(Given(s)) /\ Cardinality(Given(s)) \in Nat
<1>1. IsFiniteSet(0 .. MaxBuffers) BY Sizes, FS_Interval
<1>2. IsFiniteSet(Given(s)) BY <1>1, FS_Subset DEF Given
<1> QED BY <1>2, FS_CardinalityType

LEMMA SmallMod == ASSUME NEW a \in Nat, NEW b \in Nat, a < b PROVE a % b = a
OBVIOUS

\* Two masks that share a bit are those of the same bit of an int.
LEMMA MaskSame ==
  ASSUME NEW a \in Bit, NEW b \in Bit, NEW x, x \in Mask(a), x \in Mask(b)
  PROVE  a % IntBits = b % IntBits
<1>1. a \in Nat /\ b \in Nat BY Sizes DEF Bit
<1>2. a % IntBits \in 0 .. IntBits - 1 /\ b % IntBits \in 0 .. IntBits - 1 BY <1>1, Sizes
<1> DEFINE i == a % IntBits  j == b % IntBits
<1>3. x \in (IF i = IntBits - 1 THEN i .. (WordBits - 1) ELSE {i}) BY DEF Mask
<1>4. x \in (IF j = IntBits - 1 THEN j .. (WordBits - 1) ELSE {j}) BY DEF Mask
<1> HIDE DEF i, j
<1>5. i = j BY <1>2, <1>3, <1>4, Sizes DEF i, j
<1> QED BY <1>5 DEF i, j

\* A search that finds nothing has met, for the first j bits of each of the
\* first n words, a buffer that was handed out: another one for each.
LEMMA Served ==
  ASSUME TypeOK, Origin, NEW s \in Slab, FreeBuffers(s) = {}, refs[s] # BufferCount[s[1]],
         NEW n \in Nat, NEW j \in 0 .. IntBits,
         \A w \in 0 .. n - 1, k \in 0 .. j - 1 :
           w * WordBits + k < BufferCount[s[1]] /\ w < Words(s[1])
  PROVE  Cardinality(Given(s)) >= n * j
<1> DEFINE D == (0 .. n - 1) \X (0 .. j - 1)
           Met(w, k, q) == q \div WordBits = w /\ (q % WordBits) % IntBits = k
           f == [d \in D |-> CHOOSE q \in Given(s) : Met(d[1], d[2], q)]
<1>1. ASSUME NEW w \in 0 .. n - 1, NEW k \in 0 .. j - 1 PROVE \E q \in Given(s) : Met(w, k, q)
  <2> DEFINE p == w * WordBits + k
  <2>1. w \in Nat /\ k \in Nat /\ k < IntBits /\ k \in 0 .. WordBits - 1 BY Sizes
  <2>2. p \div WordBits = w /\ p % WordBits = k BY <2>1, Sizes
  <2>3. w * WordBits \in Nat BY <2>1, Sizes
  <2>4. s[1] \in Cache /\ BufferCount[s[1]] \in Nat
    <3>1. s[1] \in Cache BY DEF Slab
    <3> QED BY <3>1, Sizes
  <2>5. p \in 0 .. BufferCount[s[1]] - 1 BY <2>1, <2>3, <2>4
  <2>6. p \in 0 .. MaxBuffers BY <2>4, <2>5, Sizes
  <2> HIDE DEF p
  <2>7. w \in 0 .. MaxBuffers /\ k \in Bit BY <2>2, <2>6, Place
  <2>8. Mask(k) \cap bitmap[<<s, w>>] # {} BY <2>2, <2>5 DEF FreeBuffers
  <2>9. PICK x \in Mask(k) : x \in bitmap[<<s, w>>] BY <2>8
  <2>10. PICK q \in Given(s) : q \div WordBits = w /\ x \in Mask(q % WordBits)
    BY <2>7, <2>9 DEF Origin
  <2>11. q % WordBits \in Bit BY <2>10, Place DEF Given
  <2>12. (q % WordBits) % IntBits = k % IntBits BY <2>7, <2>9, <2>10, <2>11, MaskSame
  <2>13. k % IntBits = k
    <3>1. k \in 0 .. IntBits - 1 BY <2>1, Sizes
    <3>2. k \in Nat /\ IntBits \in Nat /\ k < IntBits BY <3>1, Sizes
    <3> QED BY <3>2, SmallMod
  <2> QED BY <2>10, <2>12, <2>13
<1>2. \A d \in D : f[d] \in Given(s) /\ Met(d[1], d[2], f[d])
  <2> TAKE d \in D
  <2>1. \E q \in Given(s) : Met(d[1], d[2], q) BY <1>1
  <2>2. f[d] = CHOOSE q \in Given(s) : Met(d[1], d[2], q) OBVIOUS
  <2> HIDE DEF f, Met
  <2> QED BY <2>1, <2>2
<1>3. f \in [D -> Given(s)] BY <1>2
<1>4. ASSUME NEW c \in D, NEW d \in D, f[c] = f[d] PROVE c = d
  <2>1. c[1] = d[1] /\ c[2] = d[2] BY <1>2, <1>4
  <2> QED BY <2>1
<1> HIDE DEF f, Met
<1>5. f \in Injection(D, Given(s)) BY <1>3, <1>4, Fun_IsInj
<1>6. IsFiniteSet(Given(s)) BY GivenFinite
<1> DEFINE G == Given(s)
<1> HIDE DEF D, G
<1>7. Cardinality(D) <= Cardinality(Given(s)) BY <1>5, <1>6, FS_Injection
<1>8. ASSUME NEW i \in Nat PROVE IsFiniteSet(0 .. i - 1) /\ Cardinality(0 .. i - 1) = i
  <2>1. 0 \in Int /\ i - 1 \in Int OBVIOUS
  <2>2. /\ IsFiniteSet(0 .. i - 1)
        /\ Cardinality(0 .. i - 1) = IF 0 > i - 1 THEN 0 ELSE (i - 1) - 0 + 1
    BY <2>1, FS_Interval
  <2> QED BY <2>2
<1>9. Cardinality(D) = n * j
  <2> DEFINE P == 0 .. n - 1  Q == 0 .. j - 1
  <2>1. IsFiniteSet(P) /\ Cardinality(P) = n /\ IsFiniteSet(Q) /\ Cardinality(Q) = j
    BY <1>8, Sizes
  <2>2. D = P \X Q BY DEF D
  <2> HIDE DEF P, Q
  <2>3. Cardinality(P \X Q) = Cardinality(P) * Cardinality(Q) BY <2>1, FS_Product
  <2> QED BY <2>1, <2>2, <2>3
<1>10. n * j \in Nat BY Sizes
<1> QED BY <1>7, <1>9, <1>10, GivenFinite

\* So kcacheAlloc() refuses no slab too early.
LEMMA FullOnlyServed ==
  ASSUME FullInv, pc = "take", FreeBuffers(slab) = {}
  PROVE  /\ BufferCount[cache] > IntBits
         /\ refs[slab] >= (BufferCount[slab[1]] \div WordBits) * IntBits
<1> DEFINE B == BufferCount[cache]
<1>1. slab \in Slab /\ cache \in Cache /\ TypeOK /\ Origin BY DEF FullInv, IInv, TypeOK
<1>2. slab[1] = cache /\ refs[slab] < B /\ refs[slab] = Cardinality(Given(slab))
  BY <1>1 DEF FullInv, Searching, Counted
<1>3. B \in 1 .. MaxBuffers /\ refs[slab] \in Nat BY <1>1, <1>2, Sizes, GivenFinite
<1>4. Words(cache) = IF B < WordBits THEN 1 ELSE B \div WordBits BY DEF Words
<1>5. BufferCount[slab[1]] = B /\ refs[slab] # BufferCount[slab[1]] BY <1>2, <1>3, Sizes
<1> HIDE DEF B
<1>6. B > IntBits
  <2> SUFFICES ASSUME ~ (B > IntBits) PROVE FALSE OBVIOUS
  <2>1. B \in 0 .. IntBits BY <1>3, Sizes
  <2>2. Words(cache) > 0 BY <1>3, <1>4, <2>1, Sizes
  <2>3. \A w \in 0 .. 1 - 1, k \in 0 .. B - 1 : w * WordBits + k < B /\ w < Words(cache)
    <3> TAKE w \in 0 .. 1 - 1, k \in 0 .. B - 1
    <3>1. w = 0 OBVIOUS
    <3>2. 0 * WordBits = 0 BY Sizes
    <3> QED BY <2>2, <3>1, <3>2, <1>3
  <2>4. Cardinality(Given(slab)) >= 1 * B BY <1>1, <1>2, <1>5, <2>1, <2>3, Served
  <2> QED BY <1>2, <1>3, <2>4, Sizes
<1>7. refs[slab] >= (B \div WordBits) * IntBits
  <2> DEFINE n == B \div WordBits
  <2>1. n \in Nat /\ IntBits \in 0 .. IntBits BY <1>3, Sizes
  <2>2. ASSUME NEW w \in 0 .. n - 1, NEW k \in 0 .. IntBits - 1
        PROVE  w * WordBits + k < B /\ w < Words(cache)
    <3>1. w \in Nat /\ w < B \div WordBits /\ k \in 0 .. WordBits - 1 /\ B \in Nat
      BY <1>3, <2>1, <2>2, Sizes
    <3>2. w * WordBits + k < B BY <3>1, Sizes
    <3>3. ~ (B < WordBits)
      <4> SUFFICES ASSUME B < WordBits PROVE FALSE OBVIOUS
      <4>1. B \div WordBits = 0 BY <1>3, Sizes
      <4> QED BY <3>1, <4>1
    <3> QED BY <1>4, <3>1, <3>2, <3>3
  <2> HIDE DEF n
  <2>3. Cardinality(Given(slab)) >= n * IntBits BY <1>1, <1>2, <1>5, <2>1, <2>2, Served
  <2> QED BY <1>2, <2>3 DEF n
<1> QED BY <1>2, <1>6, <1>7 DEF B

\* A buffer is marked in a word of the bitmap, unless its slab ends inside a
\* word.
LEMMA MarkInside ==
  ASSUME NEW c \in Cache, NEW p \in 0 .. BufferCount[c] - 1,
         BufferCount[c] % WordBits = 0 \/ BufferCount[c] < WordBits
  PROVE  p \div WordBits < Words(c)
<1> DEFINE B == BufferCount[c]
<1>1. B \in Nat /\ B > 0 BY Sizes
<1>2. p \in 0 .. B - 1 OBVIOUS
<1>3. Words(c) = IF B < WordBits THEN 1 ELSE B \div WordBits BY DEF Words
<1>4. B % WordBits = 0 \/ B < WordBits OBVIOUS
<1> HIDE DEF B
<1>5. CASE B < WordBits
  <2>1. p \in 0 .. WordBits - 1 BY <1>1, <1>2, <1>5, Sizes
  <2>2. p \div WordBits = 0 BY <2>1, Sizes
  <2> QED BY <1>3, <1>5, <2>2
<1>6. CASE ~ (B < WordBits)
  <2>1. p \div WordBits < B \div WordBits BY <1>1, <1>2, <1>4, <1>6, Sizes
  <2> QED BY <1>3, <1>6, <2>1
<1> QED BY <1>5, <1>6

\* A buffer more is counted, its bits have an owner, and none is behind a
\* bitmap of whole words.
LEMMA HandOutFull ==
  ASSUME IInv, Origin, Counted, RedzoneKept, NEW s \in Slab, NEW p \in FreeBuffers(s),
         HandOut(s, p), s[2] <= nslab[s[1]], UNCHANGED nslab
  PROVE  Origin' /\ Counted' /\ RedzoneKept'
<1> DEFINE i == p \div WordBits
           m == Mask(p % WordBits)
<1>1. s[1] \in Cache /\ s[2] \in 1 .. MaxSlabs BY DEF Slab
<1>2. p \in 0 .. BufferCount[s[1]] - 1 /\ p \in 0 .. MaxBuffers
  BY <1>1, Sizes DEF FreeBuffers
<1>3. <<s, i>> \in Word /\ <<s, p>> \in Buffer BY <1>2, Place DEF Word, Buffer
<1>4. handed[<<s, p>>] = 0 BY FreeUnused DEF IInv
<1>5. /\ bitmap' = [bitmap EXCEPT ![<<s, i>>] = @ \cup m]
      /\ refs' = [refs EXCEPT ![s] = @ + 1]
      /\ handed' = [handed EXCEPT ![<<s, p>>] = @ + 1]
      /\ TypeOK
  BY DEF HandOut, IInv
<1> HIDE DEF i, m
<1>6. \A b \in Buffer : handed'[b] = IF b = <<s, p>> THEN 1 ELSE handed[b]
  BY <1>3, <1>4, <1>5 DEF TypeOK
<1>7. \A t \in Slab, q \in 0 .. MaxBuffers : <<t, q>> \in Buffer /\ <<t, q>> \in Word
  BY DEF Buffer, Word
<1>8. Given(s)' = Given(s) \cup {p}
  BY <1>2, <1>6, <1>7 DEF Given
<1>9. \A t \in Slab : t # s => Given(t)' = Given(t)
  BY <1>6, <1>7 DEF Given
<1>10. \A t \in Slab, j \in 0 .. MaxBuffers :
         bitmap'[<<t, j>>] = IF t = s /\ j = i THEN bitmap[<<t, j>>] \cup m ELSE bitmap[<<t, j>>]
  BY <1>3, <1>5, <1>7 DEF TypeOK
<1>11. Origin'
  <2> SUFFICES ASSUME NEW t \in Slab, NEW j \in 0 .. MaxBuffers, j < Words(t[1]),
                      NEW x \in bitmap'[<<t, j>>]
               PROVE  \E q \in Given(t)' : q \div WordBits = j /\ x \in Mask(q % WordBits)
    BY DEF Origin
  <2>1. Given(t) \subseteq Given(t)' BY <1>8, <1>9
  <2>2. CASE x \in bitmap[<<t, j>>]
    <3>1. \E q \in Given(t) : q \div WordBits = j /\ x \in Mask(q % WordBits)
      BY <2>2 DEF Origin
    <3> QED BY <2>1, <3>1
  <2>3. CASE x \notin bitmap[<<t, j>>]
    <3>1. t = s /\ j = i /\ x \in m BY <1>10, <2>3
    <3> QED BY <1>8, <3>1 DEF i, m
  <2> QED BY <2>2, <2>3
<1>12. Counted'
  <2>1. IsFiniteSet(Given(s)) /\ Cardinality(Given(s)) \in Nat BY GivenFinite
  <2>2. p \notin Given(s) BY <1>4 DEF Given
  <2> DEFINE G == Given(s)  H == Given(s)'
  <2>3. Cardinality(H) = Cardinality(G) + 1
    <3>1. H = G \cup {p} /\ IsFiniteSet(G) /\ p \notin G BY <1>8, <2>1, <2>2
    <3> HIDE DEF G, H
    <3> QED BY <3>1, FS_AddElement
  <2>4. \A t \in Slab : refs'[t] = IF t = s THEN refs[t] + 1 ELSE refs[t]
    BY <1>5 DEF TypeOK
  <2>5. refs[s] = Cardinality(G) BY DEF Counted
  <2>6. \A t \in Slab : refs'[t] = Cardinality(Given(t)')
    <3> TAKE t \in Slab
    <3>1. CASE t = s BY <2>3, <2>4, <2>5, <3>1
    <3>2. CASE t # s BY <1>9, <2>4, <3>2 DEF Counted
    <3> QED BY <3>1, <3>2
  <2>7. ASSUME NEW c \in Cache, NEW j \in 1 .. MaxSlabs, j > nslab'[c] PROVE refs'[<<c, j>>] = 0
    <3>1. <<c, j>> \in Slab BY DEF Slab
    <3>2. nslab[c] \in Nat /\ MaxSlabs \in Nat BY KcacheAssumption DEF IInv, TypeOK
    <3>3. <<c, j>> # s
      <4> SUFFICES ASSUME <<c, j>> = s PROVE FALSE OBVIOUS
      <4>1. s[1] = c /\ s[2] = j OBVIOUS
      <4> QED BY <2>7, <3>2, <4>1
    <3> QED BY <2>4, <2>7, <3>1, <3>3 DEF Counted
  <2> QED BY <2>6, <2>7 DEF Counted
<1>13. RedzoneKept'
  <2> SUFFICES ASSUME NEW w \in Word,
                      BufferCount[w[1][1]] % WordBits = 0 \/ BufferCount[w[1][1]] < WordBits,
                      w[2] >= Words(w[1][1])
               PROVE  bitmap'[w] = Redzone
    BY DEF RedzoneKept
  <2>1. w = <<w[1], w[2]>> /\ w[1] \in Slab /\ w[2] \in 0 .. MaxBuffers BY DEF Word
  <2>2. w # <<s, i>>
    <3> SUFFICES ASSUME w = <<s, i>> PROVE FALSE OBVIOUS
    <3>1. w[1] = s /\ w[2] = i OBVIOUS
    <3>2. i < Words(s[1]) BY <1>1, <1>2, <3>1, MarkInside DEF i
    <3>3. i \in Nat BY <1>2, Place, Sizes DEF i
    <3>4. Words(s[1]) \in Nat BY <1>1, Sizes DEF Words
    <3> QED BY <3>1, <3>2, <3>3, <3>4
  <2>3. bitmap'[w] = bitmap[w] BY <1>3, <1>5, <2>2 DEF TypeOK
  <2> QED BY <2>3 DEF RedzoneKept
<1> QED BY <1>11, <1>12, <1>13

\* A step that hands out nothing and carves nothing.
LEMMA IdleFull ==
  ASSUME Origin, Counted, RedzoneKept, UNCHANGED <<nslab, refs, bitmap, handed>>
  PROVE  Origin' /\ Counted' /\ RedzoneKept'
<1>1. \A s : Given(s)' = Given(s) BY DEF Given
<1> QED BY <1>1 DEF Origin, Counted, RedzoneKept

LEMMA InitFull == Init => FullInv
<1> SUFFICES ASSUME Init PROVE FullInv OBVIOUS
<1>1. IInv BY InitInv
<1>2. \A s \in Slab, i \in 0 .. MaxBuffers :
        /\ handed[<<s, i>>] = 0 /\ bitmap[<<s, i>>] = NewWord(s[1], i)
  BY DEF Init, Word, Buffer
<1>3. Origin
  <2> SUFFICES ASSUME NEW s \in Slab, NEW i \in 0 .. MaxBuffers, i < Words(s[1])
               PROVE  bitmap[<<s, i>>] = {}
    BY DEF Origin
  <2> QED BY <1>2 DEF NewWord
<1>4. Counted
  <2>1. \A s \in Slab : refs[s] = 0 BY DEF Init
  <2>2. \A s \in Slab : Given(s) = {} BY <1>2 DEF Given
  <2>3. \A s \in Slab : Cardinality(Given(s)) = 0 BY <2>2, FS_EmptySet
  <2>4. \A c \in Cache, i \in 1 .. MaxSlabs : <<c, i>> \in Slab BY DEF Slab
  <2> QED BY <2>1, <2>3, <2>4 DEF Counted
<1>5. Searching /\ FullServed BY DEF Init, Searching, FullServed, Running
<1>6. RedzoneKept
  <2> SUFFICES ASSUME NEW w \in Word, w[2] >= Words(w[1][1]) PROVE bitmap[w] = Redzone
    BY DEF RedzoneKept
  <2>1. w[1][1] \in Cache /\ w[2] \in Int BY Sizes DEF Word, Slab
  <2>2. Words(w[1][1]) \in Int BY <2>1, Sizes DEF Words
  <2>3. bitmap[w] = NewWord(w[1][1], w[2]) BY DEF Init
  <2> QED BY <2>1, <2>2, <2>3 DEF NewWord
<1> QED BY <1>1, <1>3, <1>4, <1>5, <1>6 DEF FullInv

\* A step of the allocator that ends the call without a buffer, or stops.
LEMMA EndsFull ==
  ASSUME FullInv, pc \in Running, IInv', NEW r \in {"oom", "map", "hung", "fault", "panic"},
         UNCHANGED <<nslab, refs, bitmap, handed>>,
         \/ r = "oom" /\ Finish(r)
         \/ r # "oom" /\ Stop(r)
  PROVE  FullInv'
<1>1. Origin' /\ Counted' /\ RedzoneKept' BY IdleFull DEF FullInv
<1>2. ret = "none" BY DEF FullInv, Searching
<1>3. Searching' /\ FullServed' BY <1>2 DEF Finish, Stop, Searching, FullServed, Running
<1> QED BY <1>1, <1>3 DEF FullInv

LEMMA NoSlabFull == ASSUME FullInv, pc \in Running, IInv', NoSlab PROVE FullInv'
BY EndsFull DEF NoSlab, Stop

\* Every step keeps the count.
LEMMA NextFull == ASSUME FullInv, Next PROVE FullInv'
<1>0. IInv /\ IInv'
  BY CallInv, StepInv, MapInv, AllocateInv DEF FullInv, Next, Allocator
<1>1. CASE Caller
  <2>1. /\ ret' = "none" /\ pc' \in {"choose", "slab"}
        /\ UNCHANGED <<nslab, refs, bitmap, handed>>
    BY <1>1 DEF Caller, CallAlloc, CallCreate, CallGrow, Call
  <2>2. Origin' /\ Counted' /\ RedzoneKept' BY <2>1, IdleFull DEF FullInv
  <2>3. Searching' /\ FullServed' BY <2>1 DEF Searching, FullServed, Running
  <2> QED BY <1>0, <2>2, <2>3 DEF FullInv
<1>2. CASE Choose
  <2>1. /\ pc = "choose" /\ pc' \in {"take", "slab"} /\ ret' = ret
        /\ UNCHANGED <<nslab, refs, bitmap, handed, cache>>
    BY <1>2 DEF Choose
  <2>2. Origin' /\ Counted' /\ RedzoneKept' BY <2>1, IdleFull DEF FullInv
  <2>3. ret = "none" BY <2>1 DEF FullInv, Searching, Running
  <2>4. ASSUME pc' = "take"
        PROVE  (slab[1] = cache /\ slab[2] <= nslab[cache] /\ refs[slab] < BufferCount[cache])'
    <3>1. PICK i \in OpenSlabs(cache) : slab' = <<cache, i>> BY <1>2, <2>4 DEF Choose
    <3>2. cache \in Cache /\ nslab[cache] \in 0 .. MaxSlabs /\ MaxSlabs \in Nat
      BY <1>0, KcacheAssumption DEF IInv, TypeOK
    <3>3. i \in 1 .. nslab[cache] /\ BufferCount[cache] > refs[<<cache, i>>]
      BY <3>1 DEF OpenSlabs
    <3>4. <<cache, i>> \in Slab BY <3>2, <3>3 DEF Slab
    <3>5. refs[<<cache, i>>] \in Nat /\ BufferCount[cache] \in Nat
      BY <1>0, <3>2, <3>4, Sizes DEF IInv, TypeOK
    <3>6. slab'[1] = cache /\ slab'[2] = i BY <3>1
    <3>7. i <= nslab[cache] /\ refs[<<cache, i>>] < BufferCount[cache] BY <3>2, <3>3, <3>5
    <3> QED BY <2>1, <3>1, <3>6, <3>7
  <2>5. Searching' /\ FullServed' BY <2>1, <2>3, <2>4 DEF Searching, FullServed, Running
  <2> QED BY <1>0, <2>2, <2>5 DEF FullInv
<1>3. CASE NewSlab
  <2>1. pc \in Running BY <1>3 DEF NewSlab, Running
  <2>2. CASE NoSlab BY <1>0, <2>1, <2>2, NoSlabFull
  <2>3. CASE Stop("map") BY <1>0, <2>1, <2>3, EndsFull DEF Stop
  <2> QED BY <1>3, <2>2, <2>3 DEF NewSlab
<1>4. CASE MapSlab
  <2>1. pc \in Running /\ pc = "map" BY <1>4 DEF MapSlab, Running
  <2>2. CASE NoSlab BY <1>0, <2>1, <2>2, NoSlabFull
  <2>3. CASE Stop("hung") \/ Stop("fault") BY <1>0, <2>1, <2>3, EndsFull DEF Stop
  <2>4. CASE \E i \in OpenSlabs(Marker) : \E p \in FreeBuffers(<<Marker, i>>) :
               /\ HandOut(<<Marker, i>>, p)
               /\ pc' = "carve"
               /\ UNCHANGED <<created, nslab, lock, op, new, cache, slab, ret>>
    <3>0. PICK i \in OpenSlabs(Marker) : \E p \in FreeBuffers(<<Marker, i>>) :
               /\ HandOut(<<Marker, i>>, p)
               /\ pc' = "carve"
               /\ UNCHANGED <<created, nslab, lock, op, new, cache, slab, ret>>
      BY <2>4
    <3>1. PICK p \in FreeBuffers(<<Marker, i>>) :
               /\ HandOut(<<Marker, i>>, p)
               /\ pc' = "carve"
               /\ UNCHANGED <<created, nslab, lock, op, new, cache, slab, ret>>
      BY <3>0
    <3>2. /\ nslab[Marker] \in 0 .. MaxSlabs /\ MaxSlabs \in Nat /\ Marker \in Cache
      BY <1>0, KcacheAssumption DEF IInv, TypeOK
    <3>3. i \in 1 .. nslab[Marker] BY DEF OpenSlabs
    <3> DEFINE s == <<Marker, i>>
    <3>4. s \in Slab /\ s[1] = Marker /\ s[2] = i BY <3>2, <3>3 DEF Slab
    <3>5. p \in FreeBuffers(s) /\ HandOut(s, p) /\ UNCHANGED nslab BY <3>1
    <3>6. s[2] <= nslab[s[1]] BY <3>2, <3>3, <3>4
    <3> HIDE DEF s
    <3>7. Origin' /\ Counted' /\ RedzoneKept'
      BY <1>0, <3>4, <3>5, <3>6, HandOutFull DEF FullInv
    <3>8. ret' = "none" BY <2>1, <3>1 DEF FullInv, Searching
    <3>9. Searching' /\ FullServed' BY <3>1, <3>8 DEF Searching, FullServed, Running
    <3> QED BY <1>0, <3>7, <3>9 DEF FullInv
  <2> QED BY <1>4, <2>2, <2>3, <2>4 DEF MapSlab
<1>5. CASE CarveSlab
  <2>1. /\ pc = "carve" /\ nslab' = [nslab EXCEPT ![cache] = @ + 1]
        /\ UNCHANGED <<refs, bitmap, handed>>
    BY <1>5 DEF CarveSlab
  <2>2. /\ nslab \in [Cache -> 0 .. MaxSlabs] /\ cache \in Cache /\ MaxSlabs \in Nat
        /\ nslab[cache] < MaxSlabs /\ BufferCount[cache] \in Nat \ {0}
    BY <1>0, <2>1, Sizes, KcacheAssumption DEF IInv, TypeOK, Room
  <2>3. Origin' /\ RedzoneKept'
    <3>1. \A s : Given(s)' = Given(s) BY <2>1 DEF Given
    <3> QED BY <2>1, <3>1 DEF FullInv, Origin, RedzoneKept
  <2>4. Counted'
    <3>1. \A s : Given(s)' = Given(s) BY <2>1 DEF Given
    <3>2. \A c \in Cache : nslab[c] \in Nat /\ nslab'[c] \in Nat /\ nslab'[c] >= nslab[c]
      BY <2>1, <2>2
    <3>3. \A c \in Cache, i \in 1 .. MaxSlabs : i > nslab'[c] => i > nslab[c] BY <2>2, <3>2
    <3> QED BY <2>1, <3>1, <3>3 DEF FullInv, Counted
  <2>5. ret = "none" BY <2>1 DEF FullInv, Searching, Running
  <2>6. CASE Finish("grown")
    BY <1>0, <2>3, <2>4, <2>6 DEF FullInv, Finish, Searching, FullServed, Running
  <2>7. CASE /\ slab' = <<cache, nslab[cache] + 1>> /\ pc' = "take"
             /\ UNCHANGED <<created, lock, op, new, cache, ret>>
    <3>1. slab'[1] = cache' /\ slab'[2] = nslab[cache] + 1 BY <2>7
    <3>2. nslab'[cache'] = nslab[cache] + 1 BY <2>1, <2>2, <2>7
    <3>3. nslab[cache] + 1 \in 1 .. MaxSlabs BY <2>2
    <3>4. refs[<<cache, nslab[cache] + 1>>] = 0 BY <2>2, <3>3 DEF FullInv, Counted
    <3>5. refs'[slab'] < BufferCount[cache'] BY <2>1, <2>2, <2>7, <3>4
    <3>6. slab'[2] <= nslab'[cache'] BY <2>2, <3>1, <3>2, <3>3
    <3>7. Searching' BY <2>5, <2>7, <3>1, <3>5, <3>6 DEF Searching
    <3>8. FullServed' BY <2>5, <2>7 DEF FullServed
    <3> QED BY <1>0, <2>3, <2>4, <3>7, <3>8 DEF FullInv
  <2> QED BY <1>5, <2>6, <2>7 DEF CarveSlab
<1>6. CASE AllocateBuffer
  <2>1. /\ pc = "take" /\ UNCHANGED nslab /\ slab \in Slab
        /\ slab[1] = cache /\ slab[2] <= nslab[cache]
    BY <1>0, <1>6 DEF AllocateBuffer, FullInv, Searching, IInv, TypeOK
  <2>2. CASE \E p \in FreeBuffers(slab) : HandOut(slab, p) /\ Finish("buffer")
    <3>1. PICK p \in FreeBuffers(slab) : HandOut(slab, p) /\ Finish("buffer") BY <2>2
    <3>2. Origin' /\ Counted' /\ RedzoneKept'
      BY <1>0, <2>1, <3>1, HandOutFull DEF FullInv
    <3> QED BY <1>0, <3>1, <3>2 DEF FullInv, Finish, Searching, FullServed, Running
  <2>3. CASE FreeBuffers(slab) = {} /\ Finish("full") /\ UNCHANGED <<refs, bitmap, handed>>
    <3>1. Origin' /\ Counted' /\ RedzoneKept' BY <2>1, <2>3, IdleFull DEF FullInv
    <3>2. /\ BufferCount[cache] > IntBits
          /\ refs[slab] >= (BufferCount[slab[1]] \div WordBits) * IntBits
      BY <2>1, <2>3, FullOnlyServed
    <3>3. UNCHANGED <<cache, slab, refs>> /\ pc' = "idle" BY <2>3 DEF Finish
    <3>4. FullServed' BY <3>2, <3>3 DEF FullServed
    <3> QED BY <1>0, <3>1, <3>3, <3>4 DEF FullInv, Searching, Running
  <2> QED BY <1>6, <2>2, <2>3 DEF AllocateBuffer
<1> QED BY <1>1, <1>2, <1>3, <1>4, <1>5, <1>6 DEF Next, Allocator

LEMMA FullInvariance == Spec => []FullInv
<1>1. FullInv /\ [Next]_vars => FullInv'
  <2> SUFFICES ASSUME FullInv, [Next]_vars PROVE FullInv' OBVIOUS
  <2>1. CASE UNCHANGED vars
    <3>1. IInv' BY <2>1 DEF FullInv, vars, IInv, TypeOK, Marked, BufferOnce, Locking, Room, Running
    <3>2. Origin' /\ Counted' /\ RedzoneKept' BY <2>1, IdleFull DEF FullInv, vars
    <3> QED BY <2>1, <3>1, <3>2 DEF FullInv, vars, Searching, FullServed, Running
  <2> QED BY <2>1, NextFull
<1> QED BY InitFull, <1>1, PTL DEF Spec

\* For every size of words, ints and slabs: kcacheAlloc() refuses a slab that
\* still has buffers only when there are more of them than bits in an int,
\* and only after every whole word has served IntBits of them
\* (kcache.c, allocateBuffer).
THEOREM FullOnlyWhenServed == Spec => []FullServed
<1>1. FullInv => FullServed BY DEF FullInv
<1> QED BY FullInvariance, <1>1, PTL

\* A bitmap of whole words, or of a single one, never reaches the red zone
\* behind it.
THEOREM RedzoneUntouched == Spec => []RedzoneKept
<1>1. FullInv => RedzoneKept BY DEF FullInv
<1> QED BY FullInvariance, <1>1, PTL
=============================================================================
