------------------------------- MODULE Kcache -------------------------------
(***************************************************************************)
(* The slab allocator, Kernel/Memory/kcache.c.  A cache hands out buffers  *)
(* of one size from slabs; a slab's bitmap says which of its buffers are   *)
(* in use.  Cache descriptors are buffers of the internal cache.  A new    *)
(* slab is mapped by vmallocPhys(), which takes a vMarker from the marker  *)
(* cache: the allocator calls itself.                                      *)
(*                                                                         *)
(* The bitmap's words have WordBits bits, but the masks are ints: 0x1 << b *)
(* takes b modulo IntBits, and the int's sign bit is extended.  kcacheFree *)
(* and kcacheReap are empty in the source, so a buffer is never returned.  *)
(***************************************************************************)
EXTENDS Integers

CONSTANTS
  Cache,        \* the caches
  Internal,     \* internalkcacheCache
  Marker,       \* markerCache, with one slab carved at boot
  BufferCount,  \* buffers in a slab of each cache
  WordBits,     \* bits of a bitmap word
  IntBits,      \* bits of an int
  Redzone,      \* the bits of the heap's red zone behind a bitmap
  MaxSlabs,     \* bound: slabs of a cache
  MaxBuffers    \* bound: buffers of a slab

ASSUME KcacheAssumption ==
  /\ Internal \in Cache /\ Marker \in Cache /\ Internal # Marker
  /\ MaxBuffers \in Nat /\ BufferCount \in [Cache -> 1 .. MaxBuffers]
  /\ WordBits \in Nat \ {0} /\ IntBits \in 1 .. WordBits
  /\ Redzone \subseteq 0 .. WordBits - 1
  /\ MaxSlabs \in Nat \ {0}

Bit == 0 .. WordBits - 1
Slab == Cache \X (1 .. MaxSlabs)
Word == Slab \X (0 .. MaxBuffers)
Buffer == Slab \X (0 .. MaxBuffers)

VARIABLES
  created,  \* the caches that exist
  nslab,    \* slabs of each cache; the list starts with the newest
  refs,     \* slab->references
  bitmap,   \* slab->bitmap, by slab and word
  handed,   \* how often each buffer was handed out
  lock,     \* cache->lock
  pc,       \* where the running call is
  op,       \* the running call
  new,      \* the cache that kcacheCreate() makes
  cache,    \* the cache it works on
  slab,     \* the slab it has chosen
  ret       \* how the last call ended

vars == <<created, nslab, refs, bitmap, handed, lock, pc, op, new, cache, slab, ret>>

\* carveSlab(): the words that the bitmap has room for.
Words(c) == IF BufferCount[c] < WordBits THEN 1 ELSE BufferCount[c] \div WordBits

\* The word that allocateBuffer() finds at index i of a new bitmap: behind
\* the bitmap it is the red zone of its heap block.
NewWord(c, i) == IF i < Words(c) THEN {} ELSE Redzone

\* Mutant: the sign extended from every bit.
MaskWide(b) == (b % IntBits) .. (WordBits - 1)

\* The bits of 0x1 << b, converted to uint64_t.
Mask(b) ==
  LET k == b % IntBits
  IN  IF k = IntBits - 1 THEN k .. (WordBits - 1) ELSE {k}

Init ==
  /\ created = {Internal, Marker}
  /\ nslab = [c \in Cache |-> IF c = Marker THEN 1 ELSE 0]
  /\ refs = [s \in Slab |-> 0]
  /\ bitmap = [w \in Word |-> NewWord(w[1][1], w[2])]
  /\ handed = [b \in Buffer |-> 0]
  /\ lock = [c \in Cache |-> 0]
  /\ pc = "idle" /\ op = "none" /\ new = Internal
  /\ cache = Internal /\ slab = <<Internal, 1>> /\ ret = "none"

-----------------------------------------------------------------------------
(* The callers.  There is one core, no interrupt handler uses a cache, and  *)
(* a call runs to its end before the next one starts.                       *)

Call(fn, c, n) ==
  /\ pc = "idle"
  /\ op' = fn /\ cache' = c /\ new' = n /\ ret' = "none"
  /\ UNCHANGED <<created, nslab, refs, bitmap, handed, slab>>

\* GET_LOCK
TakeLock(c) == lock[c] = 0 /\ lock' = [lock EXCEPT ![c] = 1]

CallAlloc == \E c \in created \ {Internal} :
  Call("alloc", c, c) /\ TakeLock(c) /\ pc' = "choose"

\* kcacheCreate() takes the descriptor from the internal cache.
CallCreate == \E c \in Cache \ created :
  Call("create", Internal, c) /\ TakeLock(Internal) /\ pc' = "choose"

\* kcacheGrow() does not take the lock.
CallGrow == \E c \in created \ {Marker} :
  Call("grow", c, c) /\ UNCHANGED lock /\ pc' = "slab"

-----------------------------------------------------------------------------
(* The allocator *)

\* FREE_LOCK and return.
Finish(r) ==
  /\ pc' = "idle" /\ ret' = r
  /\ created' = IF op = "create" /\ r = "buffer" THEN created \cup {new} ELSE created
  /\ lock' = IF op = "grow" THEN lock ELSE [lock EXCEPT ![cache] = 0]
  /\ UNCHANGED <<op, new, cache, slab>>

\* The kernel stops: a failed KASSERT, a fault, or a spin on a held lock.
Stop(why) ==
  /\ pc' = why
  /\ UNCHANGED <<created, nslab, refs, bitmap, handed, lock, op, new, cache, slab, ret>>

\* The slabs that kcacheAlloc() believes to have a free buffer.
OpenSlabs(c) == {i \in 1 .. nslab[c] : BufferCount[c] > refs[<<c, i>>]}

\* The first of them in the list, whose head is the newest.
Choose ==
  /\ pc = "choose"
  /\ \/ \E i \in OpenSlabs(cache) :
          /\ \A j \in OpenSlabs(cache) : j <= i
          /\ slab' = <<cache, i>> /\ pc' = "take"
     \/ OpenSlabs(cache) = {} /\ pc' = "slab" /\ UNCHANGED slab
  /\ UNCHANGED <<created, nslab, refs, bitmap, handed, lock, op, new, cache, ret>>

\* newSlab() returns NULL: kcacheAlloc() returns NULL, kcacheGrow()'s KASSERT
\* stops the kernel.
NoSlab ==
  \/ op # "grow" /\ Finish("oom") /\ UNCHANGED <<nslab, refs, bitmap, handed>>
  \/ op = "grow" /\ Stop("panic")

\* newSlab(): allocPhys() finds memory or not.
NewSlab ==
  /\ pc = "slab"
  /\ \/ nslab[cache] < MaxSlabs /\ Stop("map")
     \/ NoSlab

\* Mutant: the loop runs one buffer too far.
FreeBuffersPast(s) ==
  {p \in 0 .. BufferCount[s[1]] :
     /\ refs[s] # BufferCount[s[1]]
     /\ Mask(p % WordBits) \cap bitmap[<<s, p \div WordBits>>] = {}}

\* The buffers of a slab, if not all are in use, whose mask is clear.
FreeBuffers(s) ==
  {p \in 0 .. BufferCount[s[1]] - 1 :
     /\ refs[s] # BufferCount[s[1]]
     /\ Mask(p % WordBits) \cap bitmap[<<s, p \div WordBits>>] = {}}

\* Mutant: the buffer's bits are not set.
HandOutUnmarked(s, p) ==
  /\ refs' = [refs EXCEPT ![s] = @ + 1]
  /\ handed' = [handed EXCEPT ![<<s, p>>] = @ + 1]
  /\ UNCHANGED bitmap

\* allocateBuffer()'s end: mark the buffer and count it.
HandOut(s, p) ==
  /\ bitmap' = [bitmap EXCEPT ![<<s, p \div WordBits>>] = @ \cup Mask(p % WordBits)]
  /\ refs' = [refs EXCEPT ![s] = @ + 1]
  /\ handed' = [handed EXCEPT ![<<s, p>>] = @ + 1]

\* The loop stops at the first free buffer.
FirstFree(s, p) == p \in FreeBuffers(s) /\ \A q \in FreeBuffers(s) : p <= q

\* vmallocPhys() -> allocMarker() -> kcacheAlloc(markerCache).  With the
\* marker cache's own lock held, or with all its slabs in use, when it would
\* need a slab and therefore a marker, the call spins on the lock.
Reentered == cache = Marker \/ OpenSlabs(Marker) = {}

\* Without a free bit kcacheAlloc() returns NULL, and allocMarker() writes
\* through it: a fault, or, where page 0 is mapped, a NULL marker that makes
\* vmallocPhys() and newSlab() return NULL.
MapSlab ==
  /\ pc = "map"
  /\ \/ Reentered /\ Stop("hung")
     \/ /\ ~Reentered
        /\ \E i \in OpenSlabs(Marker) :
             /\ \A j \in OpenSlabs(Marker) : j <= i
             /\ \/ \E p \in FreeBuffers(<<Marker, i>>) :
                     /\ FirstFree(<<Marker, i>>, p)
                     /\ HandOut(<<Marker, i>>, p)
                     /\ pc' = "carve"
                     /\ UNCHANGED <<created, nslab, lock, op, new, cache, slab, ret>>
                \/ FreeBuffers(<<Marker, i>>) = {} /\ (Stop("fault") \/ NoSlab)

\* carveSlab(), and the new slab becomes the head of the list.
CarveSlab ==
  /\ pc = "carve"
  /\ nslab' = [nslab EXCEPT ![cache] = @ + 1]
  /\ \/ /\ op = "grow" /\ Finish("grown")
     \/ /\ op # "grow" /\ slab' = <<cache, nslab[cache] + 1>> /\ pc' = "take"
        /\ UNCHANGED <<created, lock, op, new, cache, ret>>
  /\ UNCHANGED <<refs, bitmap, handed>>

\* Mutant: with no free bit the call tries again.
AllocateBufferRetry ==
  /\ pc = "take"
  /\ \/ /\ \E p \in FreeBuffers(slab) : FirstFree(slab, p) /\ HandOut(slab, p)
        /\ Finish("buffer")
     \/ /\ FreeBuffers(slab) = {} /\ pc' = "choose"
        /\ UNCHANGED <<created, refs, bitmap, handed, lock, op, new, cache, slab, ret>>
  /\ UNCHANGED nslab

\* allocateBuffer(): the first free buffer, or NULL if the bitmap shows none.
AllocateBuffer ==
  /\ pc = "take"
  /\ \/ /\ \E p \in FreeBuffers(slab) : FirstFree(slab, p) /\ HandOut(slab, p)
        /\ Finish("buffer")
     \/ /\ FreeBuffers(slab) = {}
        /\ Finish("full") /\ UNCHANGED <<refs, bitmap, handed>>
  /\ UNCHANGED nslab

Caller == CallAlloc \/ CallCreate \/ CallGrow
Allocator == Choose \/ NewSlab \/ MapSlab \/ CarveSlab \/ AllocateBuffer
Next == Caller \/ Allocator

Spec == Init /\ [][Next]_vars

\* A call that has the processor runs.
FairSpec == Spec /\ WF_vars(Allocator)

-----------------------------------------------------------------------------
(* Properties *)

\* Types.
TypeOK ==
  /\ created \subseteq Cache
  /\ nslab \in [Cache -> 0 .. MaxSlabs]
  /\ refs \in [Slab -> Nat]
  /\ bitmap \in [Word -> SUBSET Bit]
  /\ handed \in [Buffer -> Nat]
  /\ lock \in [Cache -> {0, 1}]
  /\ pc \in {"idle", "choose", "slab", "map", "carve", "take",
             "hung", "fault", "panic"}
  /\ op \in {"none", "alloc", "create", "grow"}
  /\ new \in Cache /\ cache \in Cache /\ slab \in Slab
  /\ ret \in {"none", "buffer", "full", "oom", "grown"}

\* No buffer is handed out twice, whatever the masks do to the bitmap
\* (allocateBuffer).
BufferOnce == \A b \in Buffer : handed[b] <= 1

\* A slab is refused as full only when it has more buffers than an int has
\* bits, and when each whole word of its bitmap has served the IntBits buffers
\* that its masks can tell apart.
FullServed ==
  ret = "full" =>
    /\ BufferCount[cache] > IntBits
    /\ refs[slab] >= (BufferCount[slab[1]] \div WordBits) * IntBits

\* Bitmaps of whole words, or of a single one, stay inside their heap block.
RedzoneKept ==
  \A w \in Word :
    LET c == w[1][1] IN
    (BufferCount[c] % WordBits = 0 \/ BufferCount[c] < WordBits) /\ w[2] >= Words(c)
       => bitmap[w] = Redzone

\* The allocator never waits for a lock that its own call holds: the marker
\* cache never needs a slab.
NeverHung == pc # "hung"

\* Between calls every cache's lock is free.
LocksFree == pc = "idle" => \A c \in Cache : lock[c] = 0

\* kcacheAlloc() returns NULL only when there is no memory for a slab.
AllocServed == ret # "full"

\* A call ends, with every lock given back, or the kernel stops.
CallEnds == (pc # "idle") ~> ((pc = "idle" /\ LocksFree) \/ pc \in {"hung", "fault", "panic"})
=============================================================================
