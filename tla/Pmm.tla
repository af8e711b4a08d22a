--------------------------------- MODULE Pmm ---------------------------------
(***************************************************************************)
(* Physical memory, Kernel/Memory/pmm.c: a table of regions, one for each  *)
(* free entry of the boot memory map, and per region and order a bitmap of *)
(* blocks.  initPMM() builds the table while the allocator is already in   *)
(* use; allocPhys() chooses a region and an order, setBit() and freeBit()  *)
(* mark a block, its children and its parents.                             *)
(*                                                                         *)
(* Addresses and sizes are page numbers.  A mark is an int shifted left:   *)
(* its count wraps at IntBits and its top bit is sign-extended.            *)
(***************************************************************************)
EXTENDS Integers, Sequences, FiniteSets

CONSTANTS
  WordBits,   \* 64: the bits of a word of a bitmap
  IntBits,    \* 32: the bits of an int
  MaxOrder,   \* MAXORDER
  BlockPg,    \* ORDER_MIN_BLOCK_SIZE, in pages
  End1MB,     \* the first page that is not MEMORY_TYPE_1MB
  EndLow,     \* the first page that is not MEMORY_TYPE_LOW
  Map,        \* the FREE entries of the memory map
  Reserved,   \* the entries of the allocation map
  Sizes,      \* bound: what the callers ask for, in pages
  Types,      \* bound: the types they ask for
  Refills,    \* bound: what a heap that grows while a region is made asks for
  Behind,     \* bound: what the heap holds behind a bitmap, as sets of bits
  FreeOrders, \* bound: the orders of the blocks that callers give back
  Short       \* bound: by how much the length they give misses the block's

Entry == [phys : Nat, pages : Nat]

ASSUME PmmAssumption ==
  /\ IntBits \in Nat \ {0} /\ WordBits \in Nat /\ IntBits < WordBits
  /\ MaxOrder \in Nat \ {0} /\ BlockPg \in Nat \ {0}
  /\ End1MB \in Nat /\ EndLow \in Nat
  /\ Map \in Seq(Entry) /\ Reserved \subseteq Entry
  /\ Sizes \subseteq Nat \ {0} /\ Types \subseteq 0 .. 3
  /\ Refills \subseteq Nat \ {0} /\ FreeOrders \subseteq Nat
  /\ Behind \subseteq SUBSET (0 .. WordBits - 1) /\ Short \subseteq 0 .. BlockPg - 1

AnyType == 0
Type1MB == 1
TypeLow == 2
TypeHgh == 3

Idx == DOMAIN Map
Order == 0 .. MaxOrder - 1
RegionCount == Cardinality({k \in Idx : Map[k].pages >= BlockPg})
Region == 0 .. Len(Map)

VARIABLES
  rtype, base, limit, ordern,  \* the fields of region[]
  entryn, used,                \* of its order[], by <<region, order>>
  have,                        \* the <<region, order>> whose entry is not NULL
  bits,                        \* the set bits, as <<region, order, bit>>
  pc,                          \* where the boot is
  at, cur, ord, blc,           \* createRegion()'s rn, entry, order and blc
  first, rn,                   \* the entry that was parsed first; initPMM()'s rn
  live,                        \* the blocks handed out, as <<page, order, holder>>
  lock, fptr, fleft            \* buddyLock; freeNPhys()'s ptr and bytes

table == <<rtype, base, limit, ordern>>
orders == <<entryn, used, have, bits>>
boot == <<at, cur, ord, blc, first, rn>>
free == <<fptr, fleft>>
vars == <<table, orders, pc, boot, live, lock, free>>

SetRegionType(e) ==
  IF e.phys < End1MB THEN Type1MB ELSE IF e.phys < EndLow THEN TypeLow ELSE TypeHgh

Init ==
  /\ rtype = [r \in Region |-> AnyType]
  /\ base = [r \in Region |-> 0] /\ limit = [r \in Region |-> 0]
  /\ ordern = [r \in Region |-> 0]
  /\ entryn = [x \in Region \X Order |-> 0] /\ used = [x \in Region \X Order |-> 0]
  /\ have = {} /\ bits = {}
  /\ pc = "boot1" /\ at = 0 /\ cur = 0 /\ ord = 0 /\ blc = 0 /\ first = 0 /\ rn = 0
  /\ live = {} /\ lock = FALSE /\ fptr = 0 /\ fleft = 0

-----------------------------------------------------------------------------
(* Bitmaps *)

\* The bits of a word that 1<<bit stands for.
Mask(bit) ==
  IF bit % IntBits = IntBits - 1 THEN IntBits - 1 .. WordBits - 1 ELSE {bit % IntBits}

Half(bit) == bit - (bit % 2)
Up(idx, bit) == ((idx * WordBits) + bit) \div 2

\* Where setBit() marks the parents: bit and idx are both divided by the
\* word for the first one; a bit is a byte.
Parents(o, idx, bit, n) ==
  LET q == (Up(idx, Half(bit)) % (4 * WordBits)) \div WordBits
      p[k \in Order] ==
        IF k <= o + 1 THEN <<q, q>>
        ELSE LET t == Up(p[k - 1][1], p[k - 1][2]) % (4 * WordBits)
             IN  <<t \div WordBits, t % WordBits>>
  IN  {<<k, p[k][1], p[k][2]>> : k \in o + 1 .. n - 1}

\* Where it marks the children: in every order below, in the word that holds
\* the child, at the bit with that word's number.
Children(o, bit) ==
  LET q == Half(bit * 2^o) \div WordBits
      c[k \in Order] ==
        IF k = 0 THEN <<q, q>>
        ELSE LET t == Up(c[k - 1][1], c[k - 1][2])
             IN  <<t \div WordBits, t % WordBits>>
  IN  IF o = 0 THEN {} ELSE {<<0, q, q>>} \cup {<<k, c[k][1], c[k][1]>> : k \in 1 .. o - 1}

\* Mutant: a block does not mark itself.
MarksNone(o, idx, bit, n) == Children(o, bit) \cup Parents(o, idx, bit, n)

\* All marks of setBit(), as <<order, word, bit>>; n is the region's ordern.
Marks(o, idx, bit, n) ==
  {<<o, idx, bit>>} \cup Children(o, bit) \cup Parents(o, idx, bit, n)

\* What these marks set in region r.
Bits(r, marks) ==
  UNION {{<<r, m[1], (m[2] * WordBits) + b>> : b \in Mask(m[3])} : m \in marks}

\* Mutant: the order's own count is not increased.
UsedByNone(o, k, n) == IF k < o THEN 2 ELSE IF o < k /\ k < n THEN 1 ELSE 0

\* By how much setBit() of order o increases the count of order k.
UsedBy(o, k, n) == IF k < o THEN 2 ELSE IF k = o \/ k < n THEN 1 ELSE 0

\* The bits that are set in a word of a bitmap.
Word(r, o, w) == {b \in 0 .. WordBits - 1 : <<r, o, (w * WordBits) + b>> \in bits}

-----------------------------------------------------------------------------
(* initPMM() and createRegion() *)

\* createRegion() up to its loop, for region[r] and entry k; the table is
\* only so long.
StartRegion(r, k) ==
  /\ rtype' = [rtype EXCEPT ![r] = SetRegionType(Map[k])]
  /\ base' = [base EXCEPT ![r] = Map[k].phys]
  /\ limit' = [limit EXCEPT ![r] = Map[k].phys + Map[k].pages]
  /\ at' = r /\ cur' = k /\ ord' = 0
  /\ blc' = Half(Map[k].pages \div BlockPg)
  /\ pc' = IF r < RegionCount THEN "size" ELSE "wild"

\* The region made first: the first one above 1 MB.  frn was increased before.
BootFirst ==
  /\ pc = "boot1"
  /\ IF \A k \in Idx : SetRegionType(Map[k]) = Type1MB
     THEN pc' = "boot" /\ UNCHANGED <<table, at, cur, ord, blc, first>>
     ELSE \E k \in Idx :
            /\ SetRegionType(Map[k]) # Type1MB
            /\ \A j \in 1 .. k - 1 : SetRegionType(Map[j]) = Type1MB
            /\ StartRegion(k, k) /\ first' = k
  /\ UNCHANGED <<ordern, orders, rn, live, lock, free>>

\* Mutant: the index is not advanced.
BootNextSame ==
  /\ pc = "boot"
  /\ \/ \E k \in Idx \ {first} :
          /\ Cardinality({j \in Idx \ {first} : j < k}) = rn
          /\ StartRegion(0, k) /\ rn' = rn + 1
     \/ /\ rn = Cardinality(Idx \ {first})
        /\ pc' = "run" /\ UNCHANGED <<table, at, cur, ord, blc, rn>>
  /\ UNCHANGED <<ordern, orders, first, live, lock, free>>

\* The other entries, in their order.
BootNext ==
  /\ pc = "boot"
  /\ \/ \E k \in Idx \ {first} :
          /\ Cardinality({j \in Idx \ {first} : j < k}) = rn
          /\ StartRegion(rn, k) /\ rn' = rn + 1
     \/ /\ rn = Cardinality(Idx \ {first})
        /\ pc' = "run" /\ UNCHANGED <<table, at, cur, ord, blc, rn>>
  /\ UNCHANGED <<ordern, orders, first, live, lock, free>>

\* The bits of the last word of a bitmap for n blocks that kmalloc() was not
\* asked for: the words are counted down, but for the first.
Unallocated(r, o, n, junk) ==
  {<<r, o, ((n \div WordBits) * WordBits) + b>> : b \in IF n > WordBits /\ n % WordBits # 0 THEN junk ELSE {}}

\* One order of the new region: its counts, and then its bitmap.
SizeOrder ==
  /\ pc = "size" /\ blc > 0 /\ ord < MaxOrder
  /\ entryn' = [entryn EXCEPT ![<<at, ord>>] = blc]
  /\ used' = [used EXCEPT ![<<at, ord>>] = 0]
  /\ pc' = "kmalloc"
  /\ UNCHANGED <<table, have, bits, boot, live, lock, free>>

MapOrder ==
  /\ pc = "kmalloc"
  /\ have' = have \cup {<<at, ord>>}
  /\ \E junk \in Behind :
       bits' = {x \in bits : <<x[1], x[2]>> # <<at, ord>>} \cup Unallocated(at, ord, blc, junk)
  /\ blc' = blc \div 2 /\ ord' = ord + 1
  /\ pc' = "size"
  /\ UNCHANGED <<table, entryn, used, at, cur, first, rn, live, lock, free>>

\* allocPhysAddress(): the first region that strictly contains the address.
Owner(addr, r) ==
  /\ r \in 0 .. RegionCount - 1 /\ base[r] < addr /\ addr < limit[r]
  /\ \A j \in 0 .. r - 1 : ~ (base[j] < addr /\ addr < limit[j])

\* The order 0 blocks of region r that it marks for an entry of the
\* allocation map: as many as the entry has blocks' worth of pages.
ReservedBlocks(r, e) ==
  {((e.phys - base[r]) \div BlockPg) + j :
     j \in 0 .. ((e.pages + BlockPg - 1) \div BlockPg) - 1}

\* The entries of the allocation map that lie in the new region's entry and
\* in region r by the search above.
Claims(r) ==
  {e \in Reserved :
     /\ Map[cur].phys <= e.phys
     /\ e.phys + e.pages <= Map[cur].phys + Map[cur].pages
     /\ Owner(e.phys, r)}

\* Mutant: the claims of the allocation map are forgotten.
FinishUnclaimed ==
  /\ pc = "size" /\ (blc = 0 \/ ord = MaxOrder)
  /\ ordern' = [ordern EXCEPT ![at] = ord]
  /\ pc' = "boot"
  /\ UNCHANGED <<rtype, base, limit, orders, boot, live, lock, free>>

\* The end of createRegion(): ordern, and the blocks that are in use.
FinishRegion ==
  /\ pc = "size" /\ (blc = 0 \/ ord = MaxOrder)
  /\ ordern' = [ordern EXCEPT ![at] = ord]
  /\ bits' = bits \cup
       UNION {UNION {UNION {Bits(r, Marks(0, b \div WordBits, b % WordBits, ordern'[r])) :
                       b \in ReservedBlocks(r, e)} : e \in Claims(r)} : r \in Region}
  /\ used' = [x \in Region \X Order |->
       used[x] + UsedBy(0, x[2], ordern'[x[1]])
                 * Cardinality({c \in Claims(x[1]) \X (0 .. limit[x[1]]) :
                                  c[2] \in ReservedBlocks(x[1], c[1])})]
  /\ pc' = "boot"
  /\ UNCHANGED <<rtype, base, limit, entryn, have, boot, live, lock, free>>

-----------------------------------------------------------------------------
(* allocPhys() *)

\* The size, in blocks, that the loop compares when it tries order o: it is
\* shifted by the order, not by one.
Tried[o \in 0 .. MaxOrder] == IF o = 0 THEN 1 ELSE Tried[o - 1] * 2^(o - 1)

\* The order for a request of that many pages.
OrderFor(pages, o) ==
  /\ o \in Order /\ Tried[o] * BlockPg >= pages
  /\ \A k \in 0 .. o - 1 : Tried[k] * BlockPg < pages

\* The regions that can serve the request.
Eligible(ty, strict, o) ==
  {r \in 0 .. RegionCount - 1 :
     /\ <<r, o>> \in have
     /\ rtype[r] = Type1MB => ty = Type1MB
     /\ strict \/ ty = Type1MB => rtype[r] = ty}

\* The last of them; the search stops at region 3 when it has one and region
\* 3 is not of the type.
BestRegion(ty, strict, o, r) ==
  LET e == Eligible(ty, strict, o)
      seen == IF 3 \in e /\ rtype[3] # ty /\ \E k \in e : k < 3
              THEN {k \in e : k < 3} ELSE e
  IN  r \in seen /\ \A k \in seen : k <= r

FullWord(r, o, w) == Word(r, o, w) = 0 .. WordBits - 1

\* The word that allocRegion() looks in.
FirstWord(r, o, w) ==
  /\ w \in 0 .. (entryn[<<r, o>>] - 1) \div WordBits /\ ~ FullWord(r, o, w)
  /\ \A k \in 0 .. w - 1 : FullWord(r, o, k)

\* The first bit of it that tests free, or the first past the blocks.
FirstBit(r, o, w, bit) ==
  LET top == IF entryn[<<r, o>>] - (w * WordBits) < WordBits
             THEN entryn[<<r, o>>] - (w * WordBits) ELSE WordBits
      clear(b) == Mask(b) \cap Word(r, o, w) = {}
  IN  /\ bit \in 0 .. top /\ \A b \in 0 .. bit - 1 : ~ clear(b)
      /\ bit = top \/ clear(bit)

\* allocRegion() finds no word, or believes that all blocks are in use.
NoBlock(r, o) ==
  used[<<r, o>>] >= entryn[<<r, o>>] \/ ~ \E w \in 0 .. entryn[<<r, o>>] : FirstWord(r, o, w)

\* A block as it is handed out; the second holder of a block is told apart.
Handed(page, o) == <<page, o, IF <<page, o, 1>> \in live THEN 2 ELSE 1>>

\* allocRegion(): mark the block and hand out its address, which is computed
\* from the bit alone.
AllocRegion(r, o) ==
  \E w \in 0 .. entryn[<<r, o>>], bit \in 0 .. WordBits :
    /\ FirstWord(r, o, w) /\ FirstBit(r, o, w, bit)
    /\ bits' = bits \cup Bits(r, Marks(o, w, bit, ordern[r]))
    /\ used' = [x \in Region \X Order |->
         IF x[1] = r THEN used[x] + UsedBy(o, x[2], ordern[r]) ELSE used[x]]
    /\ live' = live \cup {Handed(base[r] + (bit * 2^o * BlockPg), o)}

\* What is asked of allocPhys(): by initSLAB() and initVmalloc() between the
\* first region and the others, later by everybody, and by a heap that has
\* to grow while a region is made.
Wanted ==
  IF pc = "kmalloc" THEN Refills
  ELSE IF (pc = "boot" /\ rn = 0) \/ (pc = "run" /\ fleft = 0) THEN Sizes ELSE {}

AllocPhys ==
  /\ ~ lock
  /\ \E pages \in Wanted, ty \in Types, strict \in BOOLEAN, o \in Order :
       /\ strict => ty # AnyType
       /\ OrderFor(pages, o)
       /\ \/ \E r \in Region :
               /\ BestRegion(ty, strict, o, r) /\ ~ NoBlock(r, o)
               /\ AllocRegion(r, o)
               /\ UNCHANGED pc
          \/ /\ Eligible(ty, strict, o) = {}
             /\ pc' = "panic" /\ UNCHANGED <<bits, used, live>>
  /\ UNCHANGED <<table, entryn, have, boot, lock, free>>

-----------------------------------------------------------------------------
(* freePhys() and freeNPhys() *)

\* freeNPhys() of a block that was handed out, with a length in pages.
FreeNPhys ==
  /\ pc = "run" /\ fleft = 0
  /\ \E x \in live, short \in Short :
       /\ x[2] \in FreeOrders
       /\ live' = live \ {x} /\ fptr' = x[1] /\ fleft' = (2^x[2] * BlockPg) - short
  /\ UNCHANGED <<table, orders, pc, boot, lock>>

\* What is left after a block.  The length is unsigned: one that is not a
\* multiple of a block's goes past zero, and the loop does not end.
Endless == -1
Left(n) == IF n = BlockPg THEN 0 ELSE IF n > BlockPg THEN n - BlockPg ELSE Endless

\* The region that freePhys() finds.
Holder(p, r) ==
  /\ r \in 0 .. RegionCount - 1 /\ base[r] <= p /\ p <= limit[r]
  /\ \A j \in 0 .. r - 1 : ~ (base[j] <= p /\ p <= limit[j])

\* Bits q of region r's order k, as <<word, bit>>.
At(r, k, q) == {<<r, k, (q[1] * WordBits) + m>> : m \in Mask(q[2])}

\* freeBit(), where it climbs: the parents' word and bit, and the orders that
\* it gets to, while the bit behind the last one is clear.  A right block
\* looks at itself.
Climb(b) ==
  LET W == WordBits
      p[k \in Order] ==
        IF k = 0 THEN <<(b \div W) % (4 * W), b % (4 * W)>>
        ELSE LET t == Up(p[k - 1][1], p[k - 1][2]) % (4 * W) IN <<t \div W, t % W>>
  IN  p
Climbed(r, b) ==
  LET own == At(r, 0, <<b \div WordBits, b>>)
      buddy == At(r, 0, <<b \div WordBits, IF b % 2 = 1 THEN b ELSE b + 1>>)
      p == Climb(b)
      goes[k \in Order] ==
        IF k = 0 THEN buddy \cap (bits \ own) = {}
        ELSE goes[k - 1] /\ At(r, k, <<p[k][1], p[k][2] + 1>>) \cap (bits \ At(r, k, p[k])) = {}
  IN  {k \in Order \ {0} : goes[k - 1]}

\* What it clears: the block's own bit of order 0, and its parents'.
FreedUp(r, b) == UNION {At(r, k, Climb(b)[k]) : k \in Climbed(r, b)}
Freed(r, b) == At(r, 0, <<b \div WordBits, b>>) \cup FreedUp(r, b)

\* It climbs to MAXORDER, and above the region's orders the bitmap is NULL.
Null(r, b) == \E k \in Climbed(r, b) : <<r, k>> \notin have

\* One freePhys() of freeNPhys()'s loop.  An address in no region leaves the
\* lock taken; NULL is a page fault, or a word of page 0.
FreePhys ==
  LET H == {r \in Region : Holder(fptr, r)}
      b(r) == (fptr - base[r]) \div BlockPg
  IN  /\ pc = "run" /\ fleft # 0 /\ ~ lock
      /\ bits' = bits \ UNION {Freed(r, b(r)) : r \in H}
      /\ pc' \in {"run"} \cup {x \in {"fault"} : \E r \in H : Null(r, b(r))}
      /\ lock' = (H = {} \/ pc' = "fault")
      /\ fptr' = fptr + BlockPg /\ fleft' = Left(fleft)
      /\ UNCHANGED <<table, entryn, used, have, boot, live>>

Next ==
  \/ BootFirst \/ BootNext \/ SizeOrder \/ MapOrder \/ FinishRegion
  \/ AllocPhys \/ FreeNPhys \/ FreePhys

Spec == Init /\ [][Next]_vars

-----------------------------------------------------------------------------
(* Properties *)

\* Types.
TypeOK ==
  /\ rtype \in [Region -> 0 .. 3] /\ base \in [Region -> Nat] /\ limit \in [Region -> Nat]
  /\ ordern \in [Region -> 0 .. MaxOrder]
  /\ entryn \in [Region \X Order -> Nat] /\ used \in [Region \X Order -> Nat]
  /\ have \subseteq Region \X Order
  /\ bits \subseteq Region \X Order \X Nat
  /\ pc \in {"boot1", "boot", "size", "kmalloc", "run", "panic", "wild", "fault"}
  /\ at \in Region /\ cur \in 0 .. Len(Map) /\ ord \in 0 .. MaxOrder
  /\ blc \in Nat /\ first \in 0 .. Len(Map) /\ rn \in 0 .. Len(Map)
  /\ live \subseteq Nat \X Order \X {1, 2}
  /\ lock \in BOOLEAN /\ fptr \in Nat /\ fleft \in Int

Pages(x) == x[1] .. x[1] + (2^x[2] * BlockPg) - 1

\* allocPhys() never hands out a page that somebody else has: two blocks are
\* disjoint.
BlocksDisjoint == \A x, y \in live : x # y => Pages(x) \cap Pages(y) = {}

\* The blocks of order 0 in the range of region r.  As long as the count of
\* its order 0 is no more than the bits of an int, the first word of its
\* bitmap has been enough.
Units(r) == {x \in live : x[2] = 0 /\ base[r] <= x[1] /\ x[1] < limit[r]}
FirstWordServes(r) == r \in 0 .. RegionCount - 1 /\ used[<<r, 0>>] <= IntBits

\* Until then no block of order 0 is handed out twice, whatever is asked for
\* and given back in between (allocRegion, setBit, freeBit).
UnitsDisjoint ==
  \A r \in Region : FirstWordServes(r) =>
    \A x, y \in Units(r) : x # y => Pages(x) \cap Pages(y) = {}

\* Until then none of them has a page of a block that allocPhysAddress()
\* counted for memory that was in use at boot, also when the heap grew while
\* the region was made.  (It counts none for memory at the region's base.)
ReservedKept ==
  \A r \in Region : FirstWordServes(r) =>
    \A x \in Units(r), e \in Reserved :
      base[r] < e.phys /\ e.phys + e.pages <= limit[r] =>
        (x[1] - base[r]) \div BlockPg \notin ReservedBlocks(r, e)

\* An order left over from a region that the boot has overwritten: it has
\* more blocks than the region now there, or still its old bitmap.
Leftover(o) ==
  \E r \in Region : /\ <<r, o>> \in have
                    /\ \/ entryn[<<r, o>>] * 2^o * BlockPg > limit[r] - base[r]
                       \/ pc = "kmalloc" /\ r = at /\ o = ord

\* Every block that is handed out lies in an entry of the map, but for those
\* of such an order (allocRegion).
InMemory ==
  [][\A x \in live' \ live :
       \/ \E k \in Idx : Pages(x) \subseteq Map[k].phys .. Map[k].phys + Map[k].pages - 1
       \/ Leftover(x[2])]_vars

\* When initPMM() has returned, every entry has its region, but for the one
\* that was parsed first: it only has when just one entry follows it.
RegionsKept ==
  pc = "run" => \A k \in Idx : k # first \/ k = Len(Map) - 1 =>
    \E r \in 0 .. RegionCount - 1 :
      base[r] = Map[k].phys /\ limit[r] = Map[k].phys + Map[k].pages

-----------------------------------------------------------------------------
(* The maps and requests that the theorems of PmmProofs are about *)

\* Entries of two blocks or more, with a page between any two (freePhys()
\* counts the page behind a region as its own); a growing heap that asks for
\* more than a block, as both refills of the kernel do; and callers that give
\* back single blocks, in their whole length.
UnitUse ==
  /\ IsFiniteSet(Reserved)
  /\ \A k \in Idx : Map[k].pages \div BlockPg >= 2
  /\ \A k, h \in Idx : k # h =>
       \/ Map[k].phys + Map[k].pages < Map[h].phys
       \/ Map[h].phys + Map[h].pages < Map[k].phys
  /\ \A n \in Refills : n > BlockPg
  /\ FreeOrders \subseteq {0} /\ Short \subseteq {0}
=============================================================================
