------------------------------- MODULE Kmalloc -------------------------------
(***************************************************************************)
(* The kernel heap, Kernel/Memory/kmalloc.c: a doubly linked chain of      *)
(* block headers laid over the heap, first-fit allocation that splits the  *)
(* free tail of a block, and a free that gives a block's memory back to    *)
(* its predecessor.                                                        *)
(*                                                                         *)
(* A header is described by its address.  Only headers whose magic is      *)
(* valid carry information: the code checks the magic before it reads a    *)
(* header, so a header whose magic was cleared is NoHdr.                   *)
(***************************************************************************)
EXTENDS Integers

CONSTANTS
  DataSz,       \* KHEAP_BLOCK_DATA_SZ, bytes of a header
  RdzSz,        \* sizeof(uint64_t), bytes of a red zone
  PageSz,       \* PAGE_SZ
  ExtraPages,   \* the pages extendHeap() adds to what is asked for
  HeapBase,     \* &__heapStart
  HeapSize,     \* &__heapEnd - &__heapStart
  VmBase,       \* first virtual address vmalloc() hands out
  Sizes,        \* bound: the sizes the callers ask for
  Calls,        \* the entry points the callers use
  SameSize,     \* may a caller krealloc() a block to the size it has?
  BorderEarly,  \* may a caller give up a chunk's first block while later
                \* blocks of the chunk are in use?
  MemcpyOK      \* does memcpy() take its arguments in the prototype's order?
                \* (misc.asm:10-24, the one the kernel links, does not)

Entry == {"kmalloc", "kmallocAligned", "kfree", "krealloc"}

ASSUME HeapAssumption ==
  /\ DataSz \in Nat \ {0} /\ RdzSz \in Nat \ {0} /\ PageSz \in Nat \ {0}
  /\ ExtraPages \in Nat \ {0}
  /\ VmBase \in Nat \ {0} /\ HeapBase \in Nat /\ VmBase < HeapBase
  /\ HeapSize \in Nat /\ HeapSize >= DataSz + RdzSz
  /\ Sizes \subseteq Nat
  /\ Calls \subseteq Entry
  /\ SameSize \in BOOLEAN /\ BorderEarly \in BOOLEAN /\ MemcpyOK \in BOOLEAN

NULL == 0
HeapEnd == HeapBase + HeapSize

\* Virtual addresses: vmalloc()'s markers start at VmBase, far below the
\* heap the linker script sets aside.
Addr == VmBase .. HeapEnd

VARIABLES
  hdr,   \* the heap's headers: address -> kheapBlock
  brk,   \* end of the last virtual range vmalloc() handed out
  lock,  \* kmallocLock
  pc,    \* where the running call is
  op,    \* the running call: entry point, size, block of the pointer
  cur    \* kmallocInt()'s local variable block

vars == <<hdr, brk, lock, pc, op, cur>>

\* kheapBlock, one field for all headers: the addresses whose magic is
\* valid, those whose chunkBorder is set, and those whose red zone holds its
\* magic where checkRedzone() looks for it; the other fields by address.
Header == [magic: SUBSET Addr, chunkBorder: SUBSET Addr, rdz: SUBSET Addr,
           allocated: [Addr -> Nat], free: [Addr -> Nat],
           prev: [Addr -> Addr \cup {NULL}], next: [Addr -> Addr \cup {NULL}]]

\* A store through a pointer that the code has tested for NULL.
Put(f, p, v) == [a \in Addr |-> IF a = p THEN v ELSE f[a]]

-----------------------------------------------------------------------------
(* The macros of kmalloc.h *)

MaxAllocPtr(h, b) == b + h.allocated[b] + DataSz
MaxTotalPtr(h, b) == b + h.free[b] + RdzSz + h.allocated[b] + DataSz
NewUnalignedBlock(h, b) == MaxAllocPtr(h, b) + RdzSz
AlignmentOffset(h, b) == PageSz - (NewUnalignedBlock(h, b) % PageSz)
FreeData(base, max, sz) == (max - base) - (DataSz + RdzSz + sz)
DataPtr(b) == b + DataSz

-----------------------------------------------------------------------------
(* What the parts of kmallocInt(), kfreeInt() and krealloc() do to the     *)
(* headers.                                                                *)

\* sz, its red zone and its header.
Csz(sz) == sz + RdzSz + DataSz

\* A new block n of sz bytes behind b, up to the end of b's free tail.
\* bnext and bfree are what b's fields become.
SplitAt(h, b, n, sz, border, bnext, bfree) ==
  [magic       |-> h.magic \cup {n},
   chunkBorder |-> IF border THEN h.chunkBorder \cup {n}
                             ELSE h.chunkBorder \ {n},
   rdz         |-> h.rdz \cup {n},
   allocated   |-> Put(h.allocated, n, sz),
   free        |-> Put(Put(h.free, n, FreeData(n, MaxTotalPtr(h, b), sz)),
                       b, bfree),
   prev        |-> Put(Put(h.prev, n, b), h.next[b], n),
   next        |-> Put(Put(h.next, n, h.next[b]), b, bnext)]

\* Mutant: the split block keeps its free tail.
SplitKeepsFree(h, b, sz) ==
  LET n == NewUnalignedBlock(h, b)
  IN  SplitAt(h, b, n, sz, FALSE, n, h.free[b])

\* The unaligned split.
Split(h, b, sz) ==
  LET n == NewUnalignedBlock(h, b)
  IN  SplitAt(h, b, n, sz, FALSE, n, 0)

\* Mutant: the split block keeps its whole free tail.
SplitAlignedKeepsFree(h, b, sz, border) ==
  LET n == NewUnalignedBlock(h, b) + AlignmentOffset(h, b) - DataSz
  IN  SplitAt(h, b, n, sz, border, h.next[b], h.free[b])

\* The aligned split: b->next is left alone, and the new header's
\* chunkBorder keeps what the memory held.
SplitAligned(h, b, sz, border) ==
  LET n == NewUnalignedBlock(h, b) + AlignmentOffset(h, b) - DataSz
  IN  SplitAt(h, b, n, sz, border, h.next[b], FreeData(b, n, h.allocated[b]))

\* extendHeap(): the bytes it asks vmalloc() for.
ExtendBytes(csz) == ((csz \div PageSz) + ExtraPages) * PageSz

\* A new chunk at n, linked behind b, the last block of the chain.
Extend(h, b, n, sz) ==
  [magic       |-> h.magic \cup {n},
   chunkBorder |-> h.chunkBorder \cup {n},
   rdz         |-> h.rdz \cup {n},
   allocated   |-> Put(h.allocated, n, sz),
   free        |-> Put(h.free, n,
                       ExtendBytes(Csz(sz)) - (DataSz + RdzSz) - sz),
   prev        |-> Put(h.prev, n, b),
   next        |-> Put(Put(h.next, n, NULL), b, n)]

\* Mutant: the red zone of the freed block is not given back.
FreeLosesRdz(h, b) ==
  LET p == h.prev[b]
      x == h.next[b]
      back == DataSz + h.allocated[b] + h.free[b]
  IN  [magic       |-> h.magic \ {b},
       chunkBorder |-> h.chunkBorder \ {b},
       rdz         |-> h.rdz \ {b},
       allocated   |-> Put(h.allocated, b, 0),
       free        |-> Put(IF b \in h.chunkBorder THEN h.free
                           ELSE Put(h.free, p, h.free[p] + back), b, 0),
       prev        |-> Put(Put(h.prev, x, p), b, NULL),
       next        |-> Put(Put(h.next, p, x), b, NULL)]

\* Mutant: the memory is added to what the predecessor has allocated.
FreeGrowsPrev(h, b) ==
  LET p == h.prev[b]
      x == h.next[b]
      back == DataSz + h.allocated[b] + h.free[b] + RdzSz
  IN  [magic       |-> h.magic \ {b},
       chunkBorder |-> h.chunkBorder \ {b},
       rdz         |-> h.rdz \ {b},
       allocated   |-> Put(IF b \in h.chunkBorder THEN h.allocated
                           ELSE Put(h.allocated, p, h.allocated[p] + back), b, 0),
       free        |-> Put(h.free, b, 0),
       prev        |-> Put(Put(h.prev, x, p), b, NULL),
       next        |-> Put(Put(h.next, p, x), b, NULL)]

\* kfreeInt(): a block that is not the first of its chunk is added to its
\* predecessor; shrinkHeap() of one that is calls vmFree(), which does
\* nothing.  A header without magic is never read: its fields are cleared.
Free(h, b) ==
  LET p == h.prev[b]
      x == h.next[b]
      back == DataSz + h.allocated[b] + h.free[b] + RdzSz
  IN  [magic       |-> h.magic \ {b},
       chunkBorder |-> h.chunkBorder \ {b},
       rdz         |-> h.rdz \ {b},
       allocated   |-> Put(h.allocated, b, 0),
       free        |-> Put(IF b \in h.chunkBorder THEN h.free
                           ELSE Put(h.free, p, h.free[p] + back), b, 0),
       prev        |-> Put(Put(h.prev, x, p), b, NULL),
       next        |-> Put(Put(h.next, p, x), b, NULL)]

\* Mutant: "Move redzone" left out.
ResizeNoRdz(h, b, sz) ==
  [h EXCEPT !.allocated = Put(h.allocated, b, sz),
            !.free = Put(h.free, b, (h.allocated[b] + h.free[b]) - sz),
            !.rdz = h.rdz \ {b}]

\* krealloc() within the block, with "Move redzone".
Resize(h, b, sz) ==
  [h EXCEPT !.allocated = Put(h.allocated, b, sz),
            !.free = Put(h.free, b, (h.allocated[b] + h.free[b]) - sz),
            !.rdz = h.rdz \cup {b}]

-----------------------------------------------------------------------------
(* initKmalloc(): one block of no bytes that owns the whole heap. *)

InitHdr ==
  [magic |-> {HeapBase}, chunkBorder |-> {}, rdz |-> {HeapBase},
   allocated |-> [a \in Addr |-> 0],
   free |-> [a \in Addr |-> IF a = HeapBase
                            THEN FreeData(HeapBase, HeapEnd, 0) ELSE 0],
   prev |-> [a \in Addr |-> NULL], next |-> [a \in Addr |-> NULL]]

NoCall == [fn |-> "none", sz |-> 0, ptr |-> NULL]

Init ==
  /\ hdr = InitHdr
  /\ brk = VmBase
  /\ lock = 0
  /\ pc = "idle"
  /\ op = NoCall
  /\ cur = NULL

-----------------------------------------------------------------------------
(* The callers.  A block is in use from the kmalloc() that returned it to  *)
(* the kfree() or krealloc() that gives it up.                             *)

Held == hdr.magic \ {HeapBase}

\* Giving up b leaves no block behind it in b's chunk.
LastOfChunk(h, b) ==
  h.next[b] # NULL => h.next[b] \in h.chunkBorder

MayGiveUp(b) == b \in hdr.chunkBorder /\ ~BorderEarly => LastOfChunk(hdr, b)

Request(r) ==
  /\ pc = "idle" /\ r.fn \in Calls
  /\ pc' = "spin" /\ op' = r
  /\ UNCHANGED <<hdr, brk, lock, cur>>

CallKmalloc == \E fn \in {"kmalloc", "kmallocAligned"}, sz \in Sizes :
  Request([fn |-> fn, sz |-> sz, ptr |-> NULL])

CallKfree == \E b \in Held :
  MayGiveUp(b) /\ Request([fn |-> "kfree", sz |-> 0, ptr |-> b])

CallKrealloc == \E b \in Held, sz \in Sizes :
  /\ sz = hdr.allocated[b] => SameSize
  /\ hdr.allocated[b] + hdr.free[b] < sz => MayGiveUp(b)
  /\ Request([fn |-> "krealloc", sz |-> sz, ptr |-> b])

-----------------------------------------------------------------------------
(* The heap.  GET_LOCK is the first statement of every entry point. *)

GetLock ==
  /\ pc = "spin" /\ lock = 0
  /\ lock' = 1
  /\ \/ /\ op.fn \in {"kmalloc", "kmallocAligned"}
        /\ pc' = "walk" /\ cur' = HeapBase
     \/ /\ op.fn \in {"kfree", "krealloc"}
        /\ pc' = op.fn /\ UNCHANGED cur
  /\ UNCHANGED <<hdr, brk, op>>

\* FREE_LOCK and return.  What kmalloc() returns is the data of the block
\* that the step adds to the chain.
Return == pc' = "idle" /\ lock' = 0 /\ op' = NoCall /\ cur' = NULL

\* The kernel stops with the lock held: a failed KASSERT, or a page fault.
Stop(why) == pc' = why /\ UNCHANGED <<hdr, brk, lock, op, cur>>

\* kmallocInt() of size 0.
ReturnNull ==
  /\ pc = "walk" /\ op.sz = 0
  /\ Return /\ UNCHANGED <<hdr, brk>>

Align == op.fn = "kmallocAligned"

\* The loop's test of the block it is at.
Loops(b) == Align /\ AlignmentOffset(hdr, b) < DataSz

\* Enough room in the free tail.
Fits(b) == hdr.free[b] >= Csz(op.sz) + (IF Align THEN AlignmentOffset(hdr, b)
                                                  ELSE 0)

\* What follows kmallocInt()'s return with the headers h: the wrapper
\* returns; krealloc() copies the data and frees the old block.
Deliver(h) ==
  \/ /\ op.fn # "krealloc"
     /\ hdr' = h /\ Return
  \/ /\ op.fn = "krealloc" /\ MemcpyOK
     /\ hdr' = Free(h, op.ptr) /\ Return
  \/ /\ op.fn = "krealloc" /\ ~MemcpyOK
     /\ hdr' = h /\ pc' = "fault" /\ UNCHANGED <<lock, op, cur>>

\* Mutant: the loop goes back to the block it came from.
WalkStays ==
  /\ ~Loops(cur) /\ ~Fits(cur) /\ hdr.next[cur] # NULL
  /\ cur' = HeapBase
  /\ UNCHANGED <<hdr, brk, lock, pc, op>>

\* The loop's body at a block with a good header.
WalkOn ==
  /\ ~Loops(cur) /\ ~Fits(cur) /\ hdr.next[cur] # NULL
  /\ cur' = hdr.next[cur]
  /\ UNCHANGED <<hdr, brk, lock, pc, op>>

\* "continue" with the block unchanged: the loop never ends.
WalkLoops ==
  /\ Loops(cur)
  /\ Stop("hung")

SplitBlock ==
  /\ ~Loops(cur) /\ Fits(cur)
  /\ \/ /\ ~Align
        /\ Deliver(Split(hdr, cur, op.sz))
     \/ /\ Align
        /\ \E border \in BOOLEAN :
             Deliver(SplitAligned(hdr, cur, op.sz, border))
  /\ UNCHANGED brk

\* Bound: the virtual range below the heap is the memory there is.
ExtendHeap ==
  /\ ~Loops(cur) /\ ~Fits(cur) /\ hdr.next[cur] = NULL
  /\ brk + ExtendBytes(Csz(op.sz)) <= HeapBase
  /\ brk' = brk + ExtendBytes(Csz(op.sz))
  /\ Deliver(Extend(hdr, cur, brk, op.sz))

\* extendHeap()'s KASSERT when vmalloc() has no more memory.
OutOfMemory ==
  /\ ~Loops(cur) /\ ~Fits(cur) /\ hdr.next[cur] = NULL
  /\ brk + ExtendBytes(Csz(op.sz)) > HeapBase
  /\ Stop("oom")

\* checkMagic() at every block, checkRedzone() at the one the loop ends at.
Corrupt(b) == b \notin hdr.magic \/ b \notin hdr.rdz
LoopEnds(b) == ~Loops(b) /\ (Fits(b) \/ hdr.next[b] = NULL)

KmallocInt ==
  /\ pc = "walk" /\ op.sz # 0
  /\ IF cur \notin hdr.magic \/ (LoopEnds(cur) /\ cur \notin hdr.rdz)
     THEN Stop("panic")
     ELSE WalkOn \/ WalkLoops \/ SplitBlock \/ ExtendHeap \/ OutOfMemory

Kfree ==
  /\ pc = "kfree"
  /\ IF Corrupt(op.ptr) THEN Stop("panic")
     ELSE /\ hdr' = Free(hdr, op.ptr)
          /\ Return /\ UNCHANGED brk

\* krealloc() to the size the block has returns with the lock held.
ReallocSame ==
  /\ hdr.allocated[op.ptr] = op.sz
  /\ pc' = "idle" /\ op' = NoCall
  /\ UNCHANGED <<hdr, brk, lock, cur>>

ReallocInPlace ==
  /\ hdr.allocated[op.ptr] # op.sz
  /\ hdr.allocated[op.ptr] + hdr.free[op.ptr] >= op.sz
  /\ hdr' = Resize(hdr, op.ptr, op.sz)
  /\ Return /\ UNCHANGED brk

ReallocMove ==
  /\ hdr.allocated[op.ptr] + hdr.free[op.ptr] < op.sz
  /\ pc' = "walk" /\ cur' = HeapBase
  /\ UNCHANGED <<hdr, brk, lock, op>>

Krealloc ==
  /\ pc = "krealloc"
  /\ IF Corrupt(op.ptr) THEN Stop("panic")
     ELSE ReallocSame \/ ReallocInPlace \/ ReallocMove

Caller == CallKmalloc \/ CallKfree \/ CallKrealloc
Heap == GetLock \/ ReturnNull \/ KmallocInt \/ Kfree \/ Krealloc
Next == Caller \/ Heap

Spec == Init /\ [][Next]_vars

\* A call that has the processor runs: only the spin on the lock waits.
FairSpec == Spec /\ WF_vars(Heap)

-----------------------------------------------------------------------------
(* Properties *)

\* Every variable has the type the C declarations give it, and a stopped
\* kernel is one of the four ways this code can stop.
TypeOK ==
  /\ hdr \in Header
  /\ brk \in VmBase .. HeapBase
  /\ lock \in {0, 1}
  /\ pc \in {"idle", "spin", "walk", "kfree", "krealloc",
             "hung", "oom", "panic", "fault"}
  /\ op \in [fn: Entry \cup {"none"}, sz: Nat, ptr: Addr \cup {NULL}]
  /\ cur \in Addr \cup {NULL}

\* The bytes from a block's header to the end of its free tail belong to no
\* other block: no split, free, resize or extension of kmalloc.c makes two
\* blocks share memory.
Disjoint(h) == \A b, c \in h.magic : b < c => MaxTotalPtr(h, b) <= c
BlocksDisjoint == Disjoint(hdr)

\* A block reaches no further than the memory the heap was given: the
\* linker's heap, or the ranges vmalloc() returned to extendHeap().
InMemory(h, top) ==
  \A b \in h.magic :
    MaxTotalPtr(h, b) <= IF b >= HeapBase THEN HeapEnd ELSE top
BlocksInMemory == InMemory(hdr, brk)

\* The chain kmallocInt() walks is doubly linked: a block's neighbours are
\* good headers that point back at it, as kfreeInt() relies on.
Linked(h) ==
  /\ HeapBase \in h.magic /\ h.prev[HeapBase] = NULL
  /\ \A b \in h.magic :
       /\ h.next[b] # NULL => /\ h.next[b] \in h.magic
                              /\ h.prev[h.next[b]] = b
       /\ b # HeapBase => /\ h.prev[b] \in h.magic
                          /\ h.next[h.prev[b]] = b
ChainLinked == Linked(hdr)

\* A block that is not the first of its chunk starts where its predecessor
\* ends ("Add memory back to previous block"), and the last block of the
\* initial heap ends where that heap ends: freed memory is never lost.
Tiled(h) ==
  \A b \in h.magic :
    /\ b # HeapBase /\ b \notin h.chunkBorder => MaxTotalPtr(h, h.prev[b]) = b
    /\ b >= HeapBase /\ LastOfChunk(h, b) => MaxTotalPtr(h, b) = HeapEnd
HeapTiled == Tiled(hdr)

\* checkMagic() and checkRedzone() never stop the kernel while its callers
\* stay inside their blocks.
NoPanic == pc # "panic"

\* kmallocLock is held exactly while a call is in the heap: the callers
\* find it free.
LockBalanced == lock = 1 <=> pc \notin {"idle", "spin"}

\* kmallocAligned() returns a page-aligned pointer ("Align block to page
\* boundary"), unless it had to extend the heap, where the code ignores the
\* alignment.
AlignedStep ==
  Align /\ UNCHANGED brk =>
    \A b \in hdr'.magic \ hdr.magic : DataPtr(b) % PageSz = 0
AlignedResult == [][AlignedStep]_vars

\* No call changes the header fields that describe another caller's data:
\* a block in use keeps its size and its place until its owner gives it up.
OtherBlocksKept ==
  \A b \in hdr.magic : b # op.ptr => /\ b \in hdr'.magic
                                     /\ hdr'.allocated[b] = hdr.allocated[b]
OthersUntouched == [][OtherBlocksKept]_vars

\* A call that finds the lock free ends, whatever chain the aligned splits
\* have left: it returns or reports that there is no memory, but for two
\* calls that stop inside, a krealloc() that moves its block (the linked
\* memcpy(), misc.asm:10-24) and a kmallocAligned() at a block whose end is
\* too near a page boundary (kmalloc.c:157).
CallEnds ==
  (pc = "spin" /\ lock = 0) ~>
    \/ pc \in {"idle", "oom"}
    \/ pc = "fault" /\ op.fn = "krealloc"
    \/ pc = "hung" /\ Align
=============================================================================
