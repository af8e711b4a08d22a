---------------------------- MODULE KmallocProofs ----------------------------
(***************************************************************************)
(* Proofs about the kernel heap for every header, red zone, page and heap  *)
(* size: what each part of kmalloc.c does to the headers keeps the heap    *)
(* well formed, so a heap whose callers follow CarefulCallers never hands  *)
(* out overlapping memory and never panics.                                *)
(***************************************************************************)
EXTENDS Kmalloc, TLAPS

\* The callers the proofs are about: none uses the aligned split, and none
\* gives up a chunk's first block before the chunk's other blocks.
CarefulCallers == "kmallocAligned" \notin Calls /\ ~BorderEarly

\* The order of the chain: the linker's heap first, then the chunks.
Before(b, c) == IF b >= HeapBase THEN c < HeapBase \/ b < c
                                 ELSE c < HeapBase /\ b < c

Sorted(h) == \A b \in h.magic : h.next[b] # NULL => Before(b, h.next[b])

\* A well-formed heap: headers h over the linker's heap and the ranges
\* below top.
HeapInv(h, top) ==
  /\ h \in Header
  /\ h.magic \subseteq h.rdz
  /\ Linked(h) /\ HeapBase \notin h.chunkBorder
  /\ Sorted(h)
  /\ Disjoint(h)
  /\ InMemory(h, top)
  /\ Tiled(h)

\* extendHeap() asks for more than the request and its overhead: rounding
\* down to pages is made up for by the extra pages.
LEMMA RoundUp ==
  ASSUME NEW c \in Nat, NEW p \in Nat \ {0}, NEW e \in Nat \ {0}
  PROVE  /\ ((c \div p) + e) * p \in Nat
         /\ c < ((c \div p) + e) * p
<1> DEFINE q == c \div p
<1>1. q \in Nat /\ c % p \in 0 .. (p - 1) /\ c = p * q + (c % p)
  OBVIOUS
<1> HIDE DEF q
<1>2. (q + e) * p = p * q + e * p
  BY <1>1
<1>3. e * p >= p /\ e * p \in Nat /\ p * q \in Nat
  BY <1>1
<1>. QED
  BY <1>1, <1>2, <1>3 DEF q

\* What extendHeap() asks vmalloc() for exceeds the block it is for.
LEMMA ExtendRoom ==
  ASSUME NEW sz \in Nat
  PROVE  ExtendBytes(Csz(sz)) \in Nat /\ Csz(sz) < ExtendBytes(Csz(sz))
<1> DEFINE c == Csz(sz)
<1>1. c \in Nat /\ PageSz \in Nat \ {0} /\ ExtraPages \in Nat \ {0}
  BY HeapAssumption DEF Csz
<1> HIDE DEF c
<1>2. ((c \div PageSz) + ExtraPages) * PageSz \in Nat /\ c < ((c \div PageSz) + ExtraPages) * PageSz
  BY <1>1, RoundUp, Zenon
<1>3. ExtendBytes(c) = ((c \div PageSz) + ExtraPages) * PageSz
  BY Zenon DEF ExtendBytes
<1>. QED
  BY <1>2, <1>3, Zenon DEF c

\* What the invariant says of one block, in arithmetic.
LEMMA BlockFacts ==
  ASSUME NEW h, NEW top \in VmBase .. HeapBase, HeapInv(h, top),
         NEW b \in h.magic
  PROVE  /\ b \in Nat /\ b \in Addr /\ b # NULL
         /\ h.allocated[b] \in Nat /\ h.free[b] \in Nat
         /\ h.prev[b] \in Addr \cup {NULL} /\ h.next[b] \in Addr \cup {NULL}
         /\ MaxTotalPtr(h, b) \in Nat
         /\ MaxTotalPtr(h, b) <= HeapEnd
         /\ MaxTotalPtr(h, b) > b
         /\ b < HeapBase => MaxTotalPtr(h, b) <= top
<1>1. /\ b \in Nat /\ b \in Addr /\ b # NULL
      /\ h.allocated[b] \in Nat /\ h.free[b] \in Nat
      /\ h.prev[b] \in Addr \cup {NULL} /\ h.next[b] \in Addr \cup {NULL}
  <2>1. h.magic \subseteq Addr
    BY DEF HeapInv, Header
  <2>2. \A a \in Addr : a \in Nat /\ a # NULL
    BY HeapAssumption DEF Addr, NULL, HeapEnd
  <2>. QED
    BY <2>1, <2>2 DEF HeapInv, Header
<1>2. MaxTotalPtr(h, b) <= IF b >= HeapBase THEN HeapEnd ELSE top
  BY DEF HeapInv, InMemory
<1>3. MaxTotalPtr(h, b) \in Nat /\ MaxTotalPtr(h, b) > b
  BY <1>1, HeapAssumption DEF MaxTotalPtr
<1>. QED
  BY <1>1, <1>2, <1>3, HeapAssumption DEF HeapEnd

\* The unaligned split of a block whose free tail holds the request leaves
\* a well-formed heap.
LEMMA SplitInv ==
  ASSUME NEW h, NEW top \in VmBase .. HeapBase, HeapInv(h, top),
         NEW b \in h.magic, NEW sz \in Nat, h.free[b] >= Csz(sz)
  PROVE  /\ HeapInv(Split(h, b, sz), top)
         /\ NewUnalignedBlock(h, b) \in Addr \ h.magic
<1> DEFINE n == NewUnalignedBlock(h, b)
           x == h.next[b]
           g == Split(h, b, sz)
           F == FreeData(n, MaxTotalPtr(h, b), sz)
<1>1. /\ n \in Nat /\ b < n /\ n < MaxTotalPtr(h, b) /\ n \in Addr
      /\ n # NULL /\ n # HeapBase
      /\ n < HeapBase <=> b < HeapBase
      /\ F \in Nat
      /\ n + F + RdzSz + sz + DataSz = MaxTotalPtr(h, b)
      /\ b + 0 + RdzSz + h.allocated[b] + DataSz = n
  BY BlockFacts, HeapAssumption
     DEF NewUnalignedBlock, MaxAllocPtr, MaxTotalPtr, Csz, Addr, NULL, HeapEnd,
         FreeData
<1>2. n \notin h.magic
  BY <1>1, BlockFacts DEF HeapInv, Disjoint
<1>3. h \in Header /\ b \in Addr /\ x \in Addr \cup {NULL}
  BY BlockFacts DEF HeapInv
<1>4. /\ x # NULL => x \in h.magic /\ h.prev[x] = b
      /\ x # n /\ x # b /\ b # n /\ x # HeapBase
  BY <1>1, <1>2, <1>3, BlockFacts, HeapAssumption
     DEF HeapInv, Linked, Sorted, Before
<1> HIDE DEF n, F
<1>5. /\ g.magic = h.magic \cup {n}
      /\ g.chunkBorder = h.chunkBorder \ {n}
      /\ g.rdz = h.rdz \cup {n}
      /\ g.allocated = Put(h.allocated, n, sz)
      /\ g.free = Put(Put(h.free, n, F), b, 0)
      /\ g.prev = Put(Put(h.prev, n, b), x, n)
      /\ g.next = Put(Put(h.next, n, x), b, n)
  BY DEF Split, SplitAt, n, F
<1>6. g \in Header
  BY <1>1, <1>3 DEF Split, SplitAt, Put, Header, n, F
<1> HIDE DEF g
<1>7. /\ \A a \in h.magic \ {b} : MaxTotalPtr(g, a) = MaxTotalPtr(h, a)
      /\ MaxTotalPtr(g, b) = n
      /\ MaxTotalPtr(g, n) = MaxTotalPtr(h, b)
  BY <1>1, <1>2, <1>3, <1>4, <1>5, BlockFacts DEF MaxTotalPtr, Put
<1>8. /\ g.next[b] = n /\ g.next[n] = x /\ g.prev[n] = b
      /\ x # NULL => g.prev[x] = n
      /\ \A a \in h.magic \ {b} : g.next[a] = h.next[a]
      /\ \A a \in h.magic \ {x} : g.prev[a] = h.prev[a]
  BY <1>1, <1>2, <1>3, <1>4, <1>5, BlockFacts DEF Put
<1>9. Linked(g)
  <2>1. HeapBase \in g.magic /\ g.prev[HeapBase] = NULL
    BY <1>1, <1>4, <1>5, <1>8 DEF Linked, HeapInv
  <2>2. ASSUME NEW c \in g.magic, g.next[c] # NULL
        PROVE  g.next[c] \in g.magic /\ g.prev[g.next[c]] = c
    <3>1. CASE c = b
      BY <3>1, <1>5, <1>8
    <3>2. CASE c = n
      BY <3>2, <2>2, <1>4, <1>5, <1>8
    <3>3. CASE c \in h.magic \ {b}
      BY <3>3, <2>2, <1>5, <1>8 DEF Linked, HeapInv
    <3>. QED
      BY <3>1, <3>2, <3>3, <1>5
  <2>3. ASSUME NEW c \in g.magic, c # HeapBase
        PROVE  g.prev[c] \in g.magic /\ g.next[g.prev[c]] = c
    <3>1. CASE c = n
      BY <3>1, <1>5, <1>8
    <3>2. CASE c = x /\ x # NULL
      BY <3>2, <1>5, <1>8
    <3>3. CASE c \in h.magic \ {x}
      BY <3>3, <2>3, <1>5, <1>8 DEF Linked, HeapInv
    <3>. QED
      BY <3>1, <3>2, <3>3, <1>5, BlockFacts
  <2>. QED
    BY <2>1, <2>2, <2>3 DEF Linked
<1>10. Disjoint(g)
  BY <1>1, <1>2, <1>5, <1>7, BlockFacts DEF Disjoint, HeapInv
<1>11. InMemory(g, top)
  BY <1>1, <1>2, <1>5, <1>7, BlockFacts, HeapAssumption
     DEF InMemory, HeapInv, HeapEnd
<1>12. Sorted(g)
  BY <1>1, <1>2, <1>4, <1>5, <1>8, BlockFacts, HeapAssumption
     DEF Sorted, Before, HeapInv, Disjoint
<1>13. Tiled(g)
  BY <1>1, <1>2, <1>4, <1>5, <1>7, <1>8, BlockFacts, HeapAssumption
     DEF Tiled, LastOfChunk, HeapInv, Linked
<1>. QED
  BY <1>1, <1>2, <1>5, <1>6, <1>9, <1>10, <1>11, <1>12, <1>13
     DEF HeapInv, g, n

\* A chunk behind the last block of the chain, at the first address above
\* everything vmalloc() gave out, leaves a well-formed heap.
LEMMA ExtendInv ==
  ASSUME NEW h, NEW top \in VmBase .. HeapBase, HeapInv(h, top),
         NEW b \in h.magic, h.next[b] = NULL, NEW sz \in Nat,
         top + ExtendBytes(Csz(sz)) <= HeapBase
  PROVE  /\ HeapInv(Extend(h, b, top, sz), top + ExtendBytes(Csz(sz)))
         /\ top + ExtendBytes(Csz(sz)) \in VmBase .. HeapBase
         /\ top \in Addr \ h.magic
<1> DEFINE g == Extend(h, b, top, sz)
           E == ExtendBytes(Csz(sz))
           F == E - (DataSz + RdzSz) - sz
<1>1. E \in Nat /\ Csz(sz) < E
  BY ExtendRoom, Zenon
<1> HIDE DEF E
<1>2. /\ F \in Nat /\ top + F + RdzSz + sz + DataSz = top + E
      /\ top \in Nat /\ top < HeapBase /\ top # NULL /\ top \in Addr
      /\ top + E \in VmBase .. HeapBase
  <2>1. top + E <= HeapBase
    BY DEF E
  <2>. QED
    BY <1>1, <2>1, HeapAssumption DEF Csz, Addr, NULL, HeapEnd
<1>3. top \notin h.magic
  BY <1>2, BlockFacts
<1>4. h \in Header /\ b \in Addr /\ b # top
  BY <1>3, BlockFacts DEF HeapInv
<1> HIDE DEF F
<1>5. /\ g.magic = h.magic \cup {top}
      /\ g.chunkBorder = h.chunkBorder \cup {top}
      /\ g.rdz = h.rdz \cup {top}
      /\ g.allocated = Put(h.allocated, top, sz)
      /\ g.free = Put(h.free, top, F)
      /\ g.prev = Put(h.prev, top, b)
      /\ g.next = Put(Put(h.next, top, NULL), b, top)
  BY DEF Extend, E, F
<1>6. g \in Header
  <2>1. g = [magic |-> g.magic, chunkBorder |-> g.chunkBorder, rdz |-> g.rdz,
             allocated |-> g.allocated, free |-> g.free,
             prev |-> g.prev, next |-> g.next]
    BY DEF Extend
  <2>2. /\ g.allocated \in [Addr -> Nat] /\ g.free \in [Addr -> Nat]
        /\ g.prev \in [Addr -> Addr \cup {NULL}]
        /\ g.next \in [Addr -> Addr \cup {NULL}]
    BY <1>2, <1>4, <1>5 DEF Header, Put
  <2>3. /\ g.magic \subseteq Addr /\ g.chunkBorder \subseteq Addr
        /\ g.rdz \subseteq Addr
    BY <1>2, <1>4, <1>5 DEF Header
  <2> HIDE DEF g
  <2>. QED
    BY <2>1, <2>2, <2>3 DEF Header
<1> HIDE DEF g
<1>7. /\ \A a \in h.magic : MaxTotalPtr(g, a) = MaxTotalPtr(h, a)
      /\ MaxTotalPtr(g, top) = top + E
  BY <1>2, <1>3, <1>4, <1>5, BlockFacts DEF MaxTotalPtr, Put
<1>8. /\ g.next[b] = top /\ g.next[top] = NULL /\ g.prev[top] = b
      /\ \A a \in h.magic \ {b} : g.next[a] = h.next[a]
      /\ \A a \in h.magic : g.prev[a] = h.prev[a]
  BY <1>2, <1>3, <1>4, <1>5, BlockFacts DEF Put
<1>9. Linked(g)
  <2>1. HeapBase \in g.magic /\ g.prev[HeapBase] = NULL
    BY <1>5, <1>8 DEF Linked, HeapInv
  <2>2. ASSUME NEW c \in g.magic, g.next[c] # NULL
        PROVE  g.next[c] \in g.magic /\ g.prev[g.next[c]] = c
    BY <2>2, <1>5, <1>8 DEF Linked, HeapInv
  <2>3. ASSUME NEW c \in g.magic, c # HeapBase
        PROVE  g.prev[c] \in g.magic /\ g.next[g.prev[c]] = c
    <3>1. CASE c = top
      BY <3>1, <1>5, <1>8
    <3>2. CASE c \in h.magic
      BY <3>2, <2>3, <1>5, <1>8, BlockFacts DEF Linked, HeapInv
    <3>. QED
      BY <3>1, <3>2, <1>5
  <2>. QED
    BY <2>1, <2>2, <2>3 DEF Linked
<1>10. Disjoint(g)
  <2>1. \A a \in h.magic : a < top => MaxTotalPtr(h, a) <= top
    BY <1>2, BlockFacts, HeapAssumption
  <2>2. \A a \in h.magic : top < a => top + E <= a
    BY <1>1, <1>2, BlockFacts, HeapAssumption
  <2>. QED
    BY <1>2, <1>3, <1>5, <1>7, <2>1, <2>2, BlockFacts DEF Disjoint, HeapInv
<1>11. InMemory(g, top + E)
  BY <1>1, <1>2, <1>5, <1>7, BlockFacts, HeapAssumption
     DEF InMemory, HeapInv, HeapEnd
<1>12. Sorted(g)
  BY <1>2, <1>3, <1>5, <1>8, BlockFacts, HeapAssumption
     DEF Sorted, Before, HeapInv
<1>13. Tiled(g)
  BY <1>2, <1>3, <1>5, <1>7, <1>8, BlockFacts, HeapAssumption
     DEF Tiled, LastOfChunk, HeapInv, Linked
<1>14. HeapBase \notin g.chunkBorder
  BY <1>2, <1>5 DEF HeapInv
<1>. QED
  BY <1>2, <1>3, <1>5, <1>6, <1>9, <1>10, <1>11, <1>12, <1>13, <1>14
     DEF HeapInv, g, E

\* kfreeInt() of a block that is not the first of its chunk, or is the only
\* one of its chunk, leaves a well-formed heap.
LEMMA FreeInv ==
  ASSUME NEW h, NEW top \in VmBase .. HeapBase, HeapInv(h, top),
         NEW b \in h.magic, b # HeapBase,
         b \in h.chunkBorder => LastOfChunk(h, b)
  PROVE  HeapInv(Free(h, b), top)
<1> DEFINE g == Free(h, b)
           p == h.prev[b]
           x == h.next[b]
           back == DataSz + h.allocated[b] + h.free[b] + RdzSz
<1>1. /\ p \in h.magic /\ p # b /\ h.next[p] = b /\ p \in Addr
      /\ Before(p, b)
  BY BlockFacts, HeapAssumption DEF HeapInv, Linked, Sorted, Before
<1>2. /\ x # NULL => x \in h.magic /\ h.prev[x] = b /\ Before(b, x)
      /\ x # b /\ x # p /\ x # HeapBase
  BY <1>1, BlockFacts, HeapAssumption DEF HeapInv, Linked, Sorted, Before
<1>3. h \in Header /\ b \in Addr /\ x \in Addr \cup {NULL}
  BY BlockFacts DEF HeapInv
<1>4. back \in Nat /\ MaxTotalPtr(h, b) = b + back
  BY BlockFacts, HeapAssumption DEF MaxTotalPtr
<1> HIDE DEF back
<1>5. /\ g.magic = h.magic \ {b}
      /\ g.chunkBorder = h.chunkBorder \ {b}
      /\ g.rdz = h.rdz \ {b}
      /\ g.allocated = Put(h.allocated, b, 0)
      /\ g.free = Put(IF b \in h.chunkBorder THEN h.free
                      ELSE Put(h.free, p, h.free[p] + back), b, 0)
      /\ g.prev = Put(Put(h.prev, x, p), b, NULL)
      /\ g.next = Put(Put(h.next, p, x), b, NULL)
  BY DEF Free, back
<1>6. g \in Header
  <2>1. g = [magic |-> g.magic, chunkBorder |-> g.chunkBorder, rdz |-> g.rdz,
             allocated |-> g.allocated, free |-> g.free,
             prev |-> g.prev, next |-> g.next]
    BY DEF Free
  <2>2. /\ g.allocated \in [Addr -> Nat]
        /\ g.prev \in [Addr -> Addr \cup {NULL}]
        /\ g.next \in [Addr -> Addr \cup {NULL}]
    BY <1>1, <1>3, <1>5 DEF Header, Put
  <2>3. g.free \in [Addr -> Nat]
    BY <1>1, <1>3, <1>4, <1>5, BlockFacts DEF Header, Put
  <2>4. /\ g.magic \subseteq Addr /\ g.chunkBorder \subseteq Addr
        /\ g.rdz \subseteq Addr
    BY <1>3, <1>5 DEF Header
  <2> HIDE DEF g
  <2>. QED
    BY <2>1, <2>2, <2>3, <2>4 DEF Header
<1> HIDE DEF g
<1>7. /\ \A a \in g.magic \ {p} : MaxTotalPtr(g, a) = MaxTotalPtr(h, a)
      /\ b \in h.chunkBorder => MaxTotalPtr(g, p) = MaxTotalPtr(h, p)
      /\ b \notin h.chunkBorder => /\ MaxTotalPtr(h, p) = b
                                  /\ MaxTotalPtr(g, p) = MaxTotalPtr(h, b)
  <2>1. /\ \A a \in g.magic : g.allocated[a] = h.allocated[a]
        /\ \A a \in g.magic \ {p} : g.free[a] = h.free[a]
        /\ g.free[p] = IF b \in h.chunkBorder THEN h.free[p]
                                              ELSE h.free[p] + back
    BY <1>1, <1>3, <1>5, BlockFacts DEF Put
  <2>2. b \notin h.chunkBorder => MaxTotalPtr(h, p) = b
    BY DEF HeapInv, Tiled
  <2>3. p \in g.magic
    BY <1>1, <1>5
  <2>. QED
    BY <1>1, <1>4, <1>5, <2>1, <2>2, <2>3, BlockFacts, HeapAssumption DEF MaxTotalPtr
<1>8. /\ g.next[p] = x
      /\ x # NULL => g.prev[x] = p
      /\ \A a \in g.magic \ {p} : g.next[a] = h.next[a]
      /\ \A a \in g.magic \ {x} : g.prev[a] = h.prev[a]
  BY <1>1, <1>2, <1>3, <1>5, BlockFacts DEF Put
<1>9. Linked(g)
  <2>1. HeapBase \in g.magic /\ g.prev[HeapBase] = NULL
    BY <1>2, <1>5, <1>8 DEF Linked, HeapInv
  <2>2. ASSUME NEW c \in g.magic, g.next[c] # NULL
        PROVE  g.next[c] \in g.magic /\ g.prev[g.next[c]] = c
    <3>1. CASE c = p
      BY <3>1, <2>2, <1>2, <1>5, <1>8
    <3>2. CASE c # p
      <4>1. g.next[c] = h.next[c] /\ h.next[c] # NULL
        BY <3>2, <2>2, <1>8
      <4>2. h.next[c] \in h.magic /\ h.prev[h.next[c]] = c /\ h.next[c] # b
            /\ h.next[c] # x
        BY <3>2, <4>1, <1>1, <1>2, <1>5 DEF Linked, HeapInv
      <4>. QED
        BY <4>1, <4>2, <1>5, <1>8
    <3>. QED
      BY <3>1, <3>2
  <2>3. ASSUME NEW c \in g.magic, c # HeapBase
        PROVE  g.prev[c] \in g.magic /\ g.next[g.prev[c]] = c
    <3>1. CASE c = x
      <4>1. x # NULL
        BY <3>1, <1>5, BlockFacts
      <4>. QED
        BY <3>1, <4>1, <1>1, <1>5, <1>8
    <3>2. CASE c # x
      <4>1. g.prev[c] = h.prev[c] /\ h.prev[c] \in h.magic /\ h.next[h.prev[c]] = c
        BY <3>2, <2>3, <1>5, <1>8 DEF Linked, HeapInv
      <4>2. h.prev[c] # b /\ h.prev[c] # p
        BY <4>1, <3>2, <1>1, <1>5
      <4>. QED
        BY <4>1, <4>2, <1>5, <1>8
    <3>. QED
      BY <3>1, <3>2
  <2>. QED
    BY <2>1, <2>2, <2>3 DEF Linked
<1>10. Disjoint(g)
  <2>1. \A a \in h.magic : a < p => MaxTotalPtr(h, a) <= p
    BY <1>1 DEF Disjoint, HeapInv
  <2>2. \A a \in h.magic \ {b} : p < a => MaxTotalPtr(g, p) <= a
    BY <1>1, <1>7, BlockFacts DEF Disjoint, HeapInv
  <2>. QED
    BY <1>1, <1>5, <1>7, <2>1, <2>2, BlockFacts DEF Disjoint, HeapInv
<1>11. InMemory(g, top)
  <2>1. b \notin h.chunkBorder => (p < HeapBase <=> b < HeapBase)
    BY <1>1, <1>7, BlockFacts, HeapAssumption DEF Before
  <2>. QED
    BY <1>1, <1>5, <1>7, <2>1, BlockFacts, HeapAssumption
       DEF InMemory, HeapInv, HeapEnd
<1>12. Sorted(g)
  <2>1. x # NULL => Before(p, x)
    BY <1>1, <1>2, BlockFacts, HeapAssumption DEF Before
  <2>. QED
    BY <1>1, <1>5, <1>8, <2>1 DEF Sorted, HeapInv
<1>13. Tiled(g)
  <2>1. ASSUME NEW c \in g.magic, c # HeapBase, c \notin g.chunkBorder
        PROVE  MaxTotalPtr(g, g.prev[c]) = c
    <3>1. CASE c = x
      BY <3>1, <2>1, <1>2, <1>5, <1>7, <1>8, BlockFacts
         DEF LastOfChunk, Tiled, HeapInv
    <3>2. CASE c # x
      <4>1. g.prev[c] = h.prev[c] /\ h.prev[c] # p /\ h.prev[c] \in g.magic
        BY <3>2, <2>1, <1>1, <1>5, <1>8 DEF Linked, HeapInv
      <4>. QED
        BY <4>1, <2>1, <1>5, <1>7 DEF Tiled, HeapInv
    <3>. QED
      BY <3>1, <3>2
  <2>2. ASSUME NEW c \in g.magic, c >= HeapBase, LastOfChunk(g, c)
        PROVE  MaxTotalPtr(g, c) = HeapEnd
    <3>1. CASE c = p
      BY <3>1, <2>2, <1>1, <1>2, <1>5, <1>7, <1>8, BlockFacts, HeapAssumption
         DEF LastOfChunk, Tiled, HeapInv
    <3>2. CASE c # p
      BY <3>2, <2>2, <1>5, <1>7, <1>8 DEF LastOfChunk, Tiled, HeapInv
    <3>. QED
      BY <3>1, <3>2
  <2>. QED
    BY <2>1, <2>2 DEF Tiled
<1>. QED
  BY <1>5, <1>6, <1>9, <1>10, <1>11, <1>12, <1>13 DEF HeapInv, g

\* krealloc() within a block only moves the border between its data and its
\* free tail.
LEMMA ResizeInv ==
  ASSUME NEW h, NEW top \in VmBase .. HeapBase, HeapInv(h, top),
         NEW b \in h.magic, NEW sz \in Nat, h.allocated[b] + h.free[b] >= sz
  PROVE  HeapInv(Resize(h, b, sz), top)
<1> DEFINE g == Resize(h, b, sz)
           F == (h.allocated[b] + h.free[b]) - sz
<1>1. h \in Header /\ b \in Addr /\ F \in Nat
  BY BlockFacts DEF HeapInv
<1> HIDE DEF F
<1>2. /\ g.magic = h.magic /\ g.chunkBorder = h.chunkBorder
      /\ g.rdz = h.rdz \cup {b}
      /\ g.allocated = Put(h.allocated, b, sz)
      /\ g.free = Put(h.free, b, F)
      /\ g.prev = h.prev /\ g.next = h.next
  BY <1>1 DEF Resize, Header, F
<1>3. g \in Header
  BY <1>1 DEF Resize, Put, Header, F
<1> HIDE DEF g
<1>4. \A a \in h.magic : MaxTotalPtr(g, a) = MaxTotalPtr(h, a)
  BY <1>1, <1>2, BlockFacts, HeapAssumption DEF MaxTotalPtr, Put, F
<1>5. Linked(g) /\ Sorted(g)
  BY <1>2 DEF HeapInv, Linked, Sorted
<1>6. Disjoint(g) /\ InMemory(g, top)
  BY <1>2, <1>4 DEF HeapInv, Disjoint, InMemory
<1>7. Tiled(g)
  BY <1>2, <1>4 DEF HeapInv, Tiled, LastOfChunk, Linked
<1>. QED
  BY <1>2, <1>3, <1>5, <1>6, <1>7 DEF HeapInv, g

\* An allocation from another block does not stop a block from being given
\* up: krealloc() frees the old block after kmallocInt().
LEMMA SplitKeeps ==
  ASSUME NEW h, NEW top \in VmBase .. HeapBase, HeapInv(h, top),
         NEW b \in h.magic, NEW sz \in Nat, h.free[b] >= Csz(sz),
         NEW a \in h.magic, a # b, a \in h.chunkBorder => LastOfChunk(h, a)
  PROVE  /\ a \in Split(h, b, sz).magic
         /\ a \in Split(h, b, sz).chunkBorder
              => LastOfChunk(Split(h, b, sz), a)
<1> DEFINE n == NewUnalignedBlock(h, b)
<1>1. n \in Addr \ h.magic
  BY SplitInv
<1>2. h.next[a] # NULL => h.next[a] \in h.magic
  BY DEF HeapInv, Linked
<1>3. a \in Addr
  BY BlockFacts
<1> HIDE DEF n
<1>4. /\ Split(h, b, sz).magic = h.magic \cup {n}
      /\ Split(h, b, sz).chunkBorder = h.chunkBorder \ {n}
      /\ Split(h, b, sz).next[a] = h.next[a]
  BY <1>1, <1>3 DEF Split, SplitAt, Put, n
<1>. QED
  BY <1>1, <1>2, <1>4 DEF LastOfChunk

\* The same of an extension, also when the block is the last of the chain.
LEMMA ExtendKeeps ==
  ASSUME NEW h, NEW top \in VmBase .. HeapBase, HeapInv(h, top),
         NEW b \in h.magic, h.next[b] = NULL, NEW sz \in Nat,
         top + ExtendBytes(Csz(sz)) <= HeapBase,
         NEW a \in h.magic, a \in h.chunkBorder => LastOfChunk(h, a)
  PROVE  /\ a \in Extend(h, b, top, sz).magic
         /\ a \in Extend(h, b, top, sz).chunkBorder
              => LastOfChunk(Extend(h, b, top, sz), a)
<1>1. top \in Addr \ h.magic
  BY ExtendInv
<1>2. a \in Addr
  BY BlockFacts
<1>3. /\ Extend(h, b, top, sz).magic = h.magic \cup {top}
      /\ Extend(h, b, top, sz).chunkBorder = h.chunkBorder \cup {top}
      /\ Extend(h, b, top, sz).next[a] = IF a = b THEN top ELSE h.next[a]
  BY <1>1, <1>2 DEF Extend, Put
<1>. QED
  BY <1>1, <1>3 DEF LastOfChunk

-----------------------------------------------------------------------------
\* The block a call works on is in use, and may be given up.
PtrOK ==
  pc \in {"spin", "walk", "kfree", "krealloc"} =>
    /\ op.fn \in Calls
    /\ op.fn \in {"kfree", "krealloc"} =>
         /\ op.ptr \in hdr.magic /\ op.ptr # HeapBase
         /\ op.fn = "kfree" => MayGiveUp(op.ptr)
         /\ op.fn = "krealloc"
              /\ hdr.allocated[op.ptr] + hdr.free[op.ptr] < op.sz
              => MayGiveUp(op.ptr)

\* The program counter and the rest of the call agree.
CallOK ==
  /\ pc = "walk" => /\ cur \in hdr.magic
                    /\ op.fn \in {"kmalloc", "kmallocAligned", "krealloc"}
                    /\ op.fn = "krealloc" =>
                         hdr.allocated[op.ptr] + hdr.free[op.ptr] < op.sz
  /\ pc = "kfree" => op.fn = "kfree"
  /\ pc = "krealloc" => op.fn = "krealloc"
  /\ pc # "panic"

IInv == TypeOK /\ HeapInv(hdr, brk) /\ PtrOK /\ CallOK

\* initKmalloc() leaves a well-formed heap.
LEMMA InitInv == Init => IInv
<1> SUFFICES ASSUME Init PROVE IInv
  OBVIOUS
<1> USE DEF Init
<1>1. HeapBase \in Addr /\ NULL \notin Addr /\ FreeData(HeapBase, HeapEnd, 0) \in Nat
      /\ HeapBase \in Nat
  BY HeapAssumption DEF Addr, HeapEnd, FreeData, NULL
<1>2. hdr \in Header
  BY <1>1 DEF InitHdr, Header
<1>3. TypeOK
  BY <1>2, HeapAssumption DEF TypeOK, NoCall, Entry
<1>4. MaxTotalPtr(hdr, HeapBase) = HeapEnd
  BY <1>1, HeapAssumption DEF InitHdr, MaxTotalPtr, FreeData, HeapEnd
<1>5. /\ hdr.magic = {HeapBase} /\ hdr.rdz = {HeapBase} /\ hdr.chunkBorder = {}
      /\ hdr.prev[HeapBase] = NULL /\ hdr.next[HeapBase] = NULL
  BY <1>1 DEF InitHdr
<1>6. HeapInv(hdr, brk)
  BY <1>1, <1>2, <1>4, <1>5, HeapAssumption
     DEF HeapInv, Linked, Sorted, Disjoint, InMemory, Tiled, HeapEnd
<1>. QED
  BY <1>3, <1>6 DEF IInv, PtrOK, CallOK

\* A caller's request changes nothing but the call.
LEMMA CallerInv == CarefulCallers /\ IInv /\ Caller => IInv'
<1> SUFFICES ASSUME CarefulCallers, IInv, Caller PROVE IInv'
  OBVIOUS
<1>1. ASSUME NEW r, r \in [fn: Entry, sz: Nat, ptr: Addr \cup {NULL}],
             Request(r),
             r.fn \in {"kfree", "krealloc"} =>
               /\ r.ptr \in hdr.magic /\ r.ptr # HeapBase
               /\ r.fn = "kfree" => MayGiveUp(r.ptr)
               /\ r.fn = "krealloc"
                    /\ hdr.allocated[r.ptr] + hdr.free[r.ptr] < r.sz
                    => MayGiveUp(r.ptr)
      PROVE  IInv'
  <2>1. TypeOK'
    BY <1>1 DEF IInv, TypeOK, Request
  <2>2. HeapInv(hdr, brk)'
    BY <1>1 DEF IInv, Request
  <2>3. PtrOK'
    BY <1>1 DEF PtrOK, Request, MayGiveUp
  <2>4. CallOK'
    BY <1>1 DEF CallOK, Request
  <2>. QED
    BY <2>1, <2>2, <2>3, <2>4 DEF IInv
<1>2. CASE CallKmalloc
  <2>1. PICK fn \in {"kmalloc", "kmallocAligned"}, sz \in Sizes :
          Request([fn |-> fn, sz |-> sz, ptr |-> NULL])
    BY <1>2 DEF CallKmalloc
  <2>. QED
    BY <1>1, <2>1, HeapAssumption DEF Entry
<1>3. CASE CallKfree
  <2>1. PICK b \in Held :
          MayGiveUp(b) /\ Request([fn |-> "kfree", sz |-> 0, ptr |-> b])
    BY <1>3 DEF CallKfree
  <2>. QED
    BY <1>1, <2>1, BlockFacts DEF Entry, Held, IInv, TypeOK
<1>4. CASE CallKrealloc
  <2>1. PICK b \in Held, sz \in Sizes :
          /\ hdr.allocated[b] + hdr.free[b] < sz => MayGiveUp(b)
          /\ Request([fn |-> "krealloc", sz |-> sz, ptr |-> b])
    BY <1>4 DEF CallKrealloc
  <2>. QED
    BY <1>1, <2>1, BlockFacts, HeapAssumption DEF Entry, Held, IInv, TypeOK
<1>. QED
  BY <1>2, <1>3, <1>4 DEF Caller

\* What follows an allocation that left a well-formed heap g in which the
\* old block may be given up.
LEMMA DeliverInv ==
  ASSUME IInv, pc = "walk", NEW g, brk' \in VmBase .. HeapBase,
         HeapInv(g, brk'), Deliver(g),
         op.fn = "krealloc" =>
           /\ op.ptr \in g.magic
           /\ op.ptr \in g.chunkBorder => LastOfChunk(g, op.ptr)
  PROVE  IInv'
<1>1. op.fn = "krealloc" => op.ptr # HeapBase
  BY DEF IInv, PtrOK
<1>2. HeapInv(hdr', brk')
  BY <1>1, FreeInv DEF Deliver
<1>3. TypeOK'
  BY <1>2 DEF Deliver, Return, IInv, TypeOK, HeapInv, NoCall
<1>4. PtrOK' /\ CallOK'
  BY DEF Deliver, Return, PtrOK, CallOK
<1>. QED
  BY <1>2, <1>3, <1>4 DEF IInv

\* A step of the heap keeps the invariant.
LEMMA HeapStepInv == CarefulCallers /\ IInv /\ Heap => IInv'
<1> SUFFICES ASSUME CarefulCallers, IInv, Heap PROVE IInv'
  OBVIOUS
<1>0. /\ HeapInv(hdr, brk) /\ brk \in VmBase .. HeapBase /\ op.sz \in Nat
      /\ HeapBase \in hdr.magic
      /\ pc = "walk" => cur \in hdr.magic /\ ~Align
  BY DEF IInv, TypeOK, HeapInv, Linked, PtrOK, CallOK, Align, CarefulCallers
<1>1. CASE GetLock
  <2>1. TypeOK'
    BY <1>1, <1>0, BlockFacts DEF GetLock, IInv, TypeOK
  <2>2. HeapInv(hdr, brk)'
    BY <1>1, <1>0 DEF GetLock
  <2>3. PtrOK'
    BY <1>1 DEF GetLock, IInv, PtrOK, MayGiveUp
  <2>4. CallOK'
    BY <1>1, <1>0 DEF GetLock, CallOK
  <2>. QED
    BY <2>1, <2>2, <2>3, <2>4 DEF IInv
<1>2. CASE ReturnNull
  BY <1>2 DEF ReturnNull, Return, IInv, TypeOK, PtrOK, CallOK, NoCall
<1>3. CASE KmallocInt
  <2>1. /\ pc = "walk" /\ cur \in hdr.magic /\ cur \in hdr.rdz /\ ~Align
        /\ ~Loops(cur)
    BY <1>0, <1>3 DEF KmallocInt, HeapInv, Loops
  <2>2. op.fn = "krealloc" =>
          /\ op.ptr \in hdr.magic
          /\ op.ptr \in hdr.chunkBorder => LastOfChunk(hdr, op.ptr)
          /\ hdr.allocated[op.ptr] + hdr.free[op.ptr] < op.sz
    BY <2>1 DEF IInv, PtrOK, CallOK, MayGiveUp, CarefulCallers
  <2>3. WalkOn \/ SplitBlock \/ ExtendHeap \/ OutOfMemory
    BY <1>3, <2>1 DEF KmallocInt, WalkLoops
  <2>4. CASE WalkOn
    <3>1. cur' \in hdr.magic
      BY <2>4, <2>1, <1>0 DEF WalkOn, HeapInv, Linked
    <3>2. TypeOK'
      BY <2>4, <3>1, <1>0, BlockFacts DEF WalkOn, IInv, TypeOK
    <3>3. HeapInv(hdr, brk)' /\ PtrOK' /\ CallOK'
      BY <2>4, <3>1, <1>0 DEF WalkOn, IInv, PtrOK, CallOK, MayGiveUp
    <3>. QED
      BY <3>2, <3>3 DEF IInv
  <2>5. CASE SplitBlock
    <3>1. /\ hdr.free[cur] >= Csz(op.sz) /\ brk' = brk
          /\ Deliver(Split(hdr, cur, op.sz))
      <4>1. hdr.free[cur] >= Csz(op.sz) + 0
        BY <2>5, <2>1 DEF SplitBlock, Fits
      <4>. QED
        BY <4>1, <2>5, <2>1, <1>0, HeapAssumption DEF SplitBlock, Csz
    <3>2. HeapInv(Split(hdr, cur, op.sz), brk')
      BY <3>1, <2>1, <1>0, SplitInv
    <3>3. op.fn = "krealloc" => op.ptr # cur
      BY <3>1, <2>2, <2>1, <1>0, BlockFacts, HeapAssumption DEF Csz
    <3>4. op.fn = "krealloc" =>
            /\ op.ptr \in Split(hdr, cur, op.sz).magic
            /\ op.ptr \in Split(hdr, cur, op.sz).chunkBorder
                 => LastOfChunk(Split(hdr, cur, op.sz), op.ptr)
      BY <3>1, <3>3, <2>1, <2>2, <1>0, SplitKeeps
    <3>. QED
      BY <3>1, <3>2, <3>4, <2>1, <1>0, DeliverInv
  <2>6. CASE ExtendHeap
    <3>1. /\ hdr.next[cur] = NULL
          /\ brk + ExtendBytes(Csz(op.sz)) <= HeapBase
          /\ brk' = brk + ExtendBytes(Csz(op.sz))
          /\ Deliver(Extend(hdr, cur, brk, op.sz))
      BY <2>6 DEF ExtendHeap
    <3>2. /\ HeapInv(Extend(hdr, cur, brk, op.sz), brk')
          /\ brk' \in VmBase .. HeapBase
      BY <3>1, <2>1, <1>0, ExtendInv
    <3>3. op.fn = "krealloc" =>
            /\ op.ptr \in Extend(hdr, cur, brk, op.sz).magic
            /\ op.ptr \in Extend(hdr, cur, brk, op.sz).chunkBorder
                 => LastOfChunk(Extend(hdr, cur, brk, op.sz), op.ptr)
      BY <3>1, <2>1, <2>2, <1>0, ExtendKeeps
    <3>. QED
      BY <3>1, <3>2, <3>3, <2>1, DeliverInv
  <2>7. CASE OutOfMemory
    BY <2>7, <1>0 DEF OutOfMemory, Stop, IInv, TypeOK, PtrOK, CallOK
  <2>. QED
    BY <2>3, <2>4, <2>5, <2>6, <2>7
<1>4. CASE Kfree
  <2>1. /\ op.fn = "kfree" /\ op.ptr \in hdr.magic /\ op.ptr # HeapBase
        /\ op.ptr \in hdr.chunkBorder => LastOfChunk(hdr, op.ptr)
        /\ op.ptr \in hdr.rdz
    BY <1>4 DEF Kfree, IInv, PtrOK, CallOK, MayGiveUp, CarefulCallers, HeapInv
  <2>2. hdr' = Free(hdr, op.ptr) /\ Return /\ brk' = brk
    BY <1>4, <2>1 DEF Kfree, Corrupt
  <2>3. HeapInv(hdr', brk')
    BY <2>1, <2>2, <1>0, FreeInv
  <2>. QED
    BY <2>2, <2>3 DEF Return, IInv, TypeOK, HeapInv, PtrOK, CallOK, NoCall
<1>5. CASE Krealloc
  <2>1. /\ op.fn = "krealloc" /\ op.ptr \in hdr.magic /\ op.ptr \in hdr.rdz
    BY <1>5 DEF Krealloc, IInv, PtrOK, CallOK, HeapInv
  <2>2. ReallocSame \/ ReallocInPlace \/ ReallocMove
    BY <1>5, <2>1 DEF Krealloc, Corrupt
  <2>3. CASE ReallocSame
    BY <2>3, <1>0 DEF ReallocSame, IInv, TypeOK, PtrOK, CallOK, NoCall
  <2>4. CASE ReallocInPlace
    <3>1. HeapInv(hdr', brk')
      BY <2>1, <2>4, <1>0, ResizeInv DEF ReallocInPlace
    <3>. QED
      BY <3>1, <2>4 DEF ReallocInPlace, Return, IInv, TypeOK, HeapInv, PtrOK,
                        CallOK, NoCall
  <2>5. CASE ReallocMove
    <3>1. TypeOK' /\ HeapInv(hdr, brk)'
      BY <2>5, <1>0, BlockFacts DEF ReallocMove, IInv, TypeOK
    <3>2. PtrOK' /\ CallOK'
      BY <2>5, <2>1, <1>0, <1>5
         DEF ReallocMove, Krealloc, IInv, PtrOK, CallOK, MayGiveUp
    <3>. QED
      BY <3>1, <3>2 DEF IInv
  <2>. QED
    BY <2>2, <2>3, <2>4, <2>5
<1>. QED
  BY <1>1, <1>2, <1>3, <1>4, <1>5 DEF Heap

\* The inductive invariant holds of every heap with careful callers.
LEMMA Invariance ==
  ASSUME CarefulCallers
  PROVE  Spec => []IInv
<1>1. IInv /\ [Next]_vars => IInv'
  <2>1. IInv /\ UNCHANGED vars => IInv'
    BY DEF vars, IInv, TypeOK, PtrOK, CallOK, MayGiveUp
  <2>. QED
    BY <2>1, CallerInv, HeapStepInv DEF Next
<1>. QED
  BY <1>1, InitInv, PTL DEF Spec

\* Type correctness of the kernel heap.
THEOREM TypeCorrect == ASSUME CarefulCallers PROVE Spec => []TypeOK
BY Invariance, PTL DEF IInv

\* kmalloc() never hands out memory that belongs to another block, and no
\* block reaches beyond the memory the heap was given, whatever the sizes
\* and the order of the calls of kmalloc(), kfree() and krealloc().
THEOREM MemorySafe ==
  ASSUME CarefulCallers
  PROVE  Spec => [](BlocksDisjoint /\ BlocksInMemory)
<1>1. IInv => BlocksDisjoint /\ BlocksInMemory
  BY DEF IInv, HeapInv, BlocksDisjoint, BlocksInMemory
<1>. QED
  BY <1>1, Invariance, PTL

\* The chain stays doubly linked and freed memory is never lost.
THEOREM NothingLost ==
  ASSUME CarefulCallers
  PROVE  Spec => [](ChainLinked /\ HeapTiled)
<1>1. IInv => ChainLinked /\ HeapTiled
  BY DEF IInv, HeapInv, ChainLinked, HeapTiled
<1>. QED
  BY <1>1, Invariance, PTL

\* The heap's own checks never stop the kernel.
THEOREM ChecksPass == ASSUME CarefulCallers PROVE Spec => []NoPanic
<1>1. IInv => NoPanic
  BY DEF IInv, CallOK, NoPanic
<1>. QED
  BY <1>1, Invariance, PTL

\* An allocation, a free and a resize keep the size of every other block.
LEMMA HeadersKept ==
  ASSUME NEW h, NEW top \in VmBase .. HeapBase, HeapInv(h, top),
         NEW b \in h.magic, NEW sz \in Nat, NEW c \in h.magic
  PROVE  /\ h.free[b] >= Csz(sz) =>
              c \in Split(h, b, sz).magic /\ Split(h, b, sz).allocated[c] = h.allocated[c]
         /\ h.next[b] = NULL /\ top + ExtendBytes(Csz(sz)) <= HeapBase =>
              /\ c \in Extend(h, b, top, sz).magic
              /\ Extend(h, b, top, sz).allocated[c] = h.allocated[c]
         /\ c # b => c \in Resize(h, b, sz).magic /\ Resize(h, b, sz).allocated[c] = h.allocated[c]
<1>1. c \in Addr /\ h \in Header
  BY BlockFacts DEF HeapInv
<1>2. h.free[b] >= Csz(sz) => NewUnalignedBlock(h, b) # c
  BY SplitInv
<1>3. h.next[b] = NULL /\ top + ExtendBytes(Csz(sz)) <= HeapBase => top # c
  BY ExtendInv
<1>4. /\ Split(h, b, sz).magic = h.magic \cup {NewUnalignedBlock(h, b)}
      /\ Split(h, b, sz).allocated = Put(h.allocated, NewUnalignedBlock(h, b), sz)
  BY DEF Split, SplitAt
<1>5. /\ Extend(h, b, top, sz).magic = h.magic \cup {top}
      /\ Extend(h, b, top, sz).allocated = Put(h.allocated, top, sz)
  BY DEF Extend
<1>6. /\ Resize(h, b, sz).magic = h.magic
      /\ Resize(h, b, sz).allocated = Put(h.allocated, b, sz)
  BY <1>1 DEF Resize, Header
<1>. QED
  BY <1>1, <1>2, <1>3, <1>4, <1>5, <1>6 DEF Put

\* kfree() changes no size and no presence but that of the freed block.
LEMMA FreeKeeps ==
  ASSUME NEW h, NEW b, NEW c \in h.magic, c # b, c \in Addr
  PROVE  c \in Free(h, b).magic /\ Free(h, b).allocated[c] = h.allocated[c]
BY DEF Free, Put

\* No call moves, resizes or frees a block but the one it was given: what
\* the other callers hold is untouched.
THEOREM OthersKept ==
  ASSUME CarefulCallers
  PROVE  Spec => OthersUntouched
<1>1. IInv /\ [Next]_vars => [OtherBlocksKept]_vars
  <2> SUFFICES ASSUME IInv, Next, NEW b \in hdr.magic, b # op.ptr
               PROVE  b \in hdr'.magic /\ hdr'.allocated[b] = hdr.allocated[b]
    BY DEF OtherBlocksKept
  <2>0. /\ HeapInv(hdr, brk) /\ brk \in VmBase .. HeapBase /\ op.sz \in Nat
        /\ b \in Addr
        /\ pc = "walk" => cur \in hdr.magic /\ ~Align
    BY BlockFacts DEF IInv, TypeOK, PtrOK, CallOK, Align, CarefulCallers
  <2>1. CASE UNCHANGED hdr
    BY <2>1
  <2>2. CASE KmallocInt /\ hdr' # hdr
    <3>1. \/ hdr.free[cur] >= Csz(op.sz) /\ Deliver(Split(hdr, cur, op.sz))
          \/ /\ hdr.next[cur] = NULL
             /\ brk + ExtendBytes(Csz(op.sz)) <= HeapBase
             /\ Deliver(Extend(hdr, cur, brk, op.sz))
      <4>1. SplitBlock \/ ExtendHeap
        BY <2>2 DEF KmallocInt, Stop, WalkOn, WalkLoops, OutOfMemory
      <4>2. CASE SplitBlock
        <5>1. hdr.free[cur] >= Csz(op.sz) + 0
          BY <4>2, <2>2, <2>0 DEF SplitBlock, Fits, KmallocInt
        <5>. QED
          BY <5>1, <4>2, <2>2, <2>0, HeapAssumption DEF SplitBlock, KmallocInt, Csz
      <4>3. CASE ExtendHeap
        BY <4>3 DEF ExtendHeap
      <4>. QED
        BY <4>1, <4>2, <4>3
    <3>2. \A g : b \in g.magic /\ g.allocated[b] = hdr.allocated[b] /\ Deliver(g)
                => b \in hdr'.magic /\ hdr'.allocated[b] = hdr.allocated[b]
      BY <2>0, FreeKeeps DEF Deliver
    <3>3. pc = "walk"
      BY <2>2 DEF KmallocInt
    <3>. QED
      BY <3>1, <3>2, <3>3, <2>0, HeadersKept
  <2>3. CASE Kfree /\ hdr' # hdr
    BY <2>3, <2>0, FreeKeeps DEF Kfree, Stop
  <2>4. CASE Krealloc /\ hdr' # hdr
    <3>1. hdr' = Resize(hdr, op.ptr, op.sz)
      BY <2>4 DEF Krealloc, Stop, ReallocSame, ReallocInPlace, ReallocMove
    <3>2. op.ptr \in hdr.magic
      BY <2>4 DEF Krealloc, IInv, PtrOK, CallOK
    <3>. QED
      BY <3>1, <3>2, <2>0, HeadersKept
  <2>5. CASE Caller \/ GetLock \/ ReturnNull
    BY <2>5, <2>1 DEF Caller, CallKmalloc, CallKfree, CallKrealloc, Request,
                      GetLock, ReturnNull
  <2>. QED
    BY <2>1, <2>2, <2>3, <2>4, <2>5 DEF Next, Heap
<1>. QED
  BY <1>1, Invariance, PTL DEF Spec, OthersUntouched

\* A krealloc() under way changes its block's size.
SizeChanges ==
  pc \in {"spin", "krealloc"} /\ op.fn = "krealloc"
    => op.sz # hdr.allocated[op.ptr]

\* With callers that never krealloc() a block to the size it has, every
\* call that returns gives kmallocLock back.
THEOREM LockGivenBack ==
  ASSUME CarefulCallers, ~SameSize
  PROVE  Spec => []LockBalanced
<1> DEFINE LInv == LockBalanced /\ SizeChanges
<1>1. Init => LInv
  BY DEF Init, LockBalanced, SizeChanges
<1>2. IInv /\ LInv /\ [Next]_vars => LInv'
  <2> SUFFICES ASSUME IInv, LInv, [Next]_vars PROVE LInv'
    OBVIOUS
  <2> USE DEF LockBalanced, SizeChanges
  <2>1. CASE UNCHANGED vars
    BY <2>1 DEF vars
  <2>2. CASE CallKmalloc
    BY <2>2 DEF CallKmalloc, Request
  <2>3. CASE CallKfree
    BY <2>3 DEF CallKfree, Request
  <2>4. CASE CallKrealloc
    BY <2>4 DEF CallKrealloc, Request
  <2>5. CASE GetLock
    BY <2>5 DEF GetLock
  <2>6. CASE ReturnNull
    BY <2>6 DEF ReturnNull, Return
  <2>7. CASE KmallocInt
    BY <2>7 DEF KmallocInt, WalkOn, WalkLoops, SplitBlock, ExtendHeap,
                OutOfMemory, Stop, Deliver, Return
  <2>8. CASE Kfree
    BY <2>8 DEF Kfree, Stop, Return
  <2>9. CASE Krealloc
    BY <2>9 DEF Krealloc, Stop, Return, ReallocSame, ReallocInPlace,
                ReallocMove, IInv, CallOK
  <2>. QED
    BY <2>1, <2>2, <2>3, <2>4, <2>5, <2>6, <2>7, <2>8, <2>9
       DEF Next, Caller, Heap
<1>. QED
  BY <1>1, <1>2, Invariance, PTL DEF Spec
\* The order of the chain has no cycles.
LEMMA BeforeOrder ==
  ASSUME NEW a \in Nat, NEW b \in Nat, NEW c \in Nat, Before(a, b)
  PROVE  ~Before(b, a) /\ (Before(b, c) => Before(a, c))
BY HeapAssumption DEF Before

\* The search of kmallocInt() passes from each block to one further along
\* the heap, so it meets no block twice, and no call stops in its loop
\* (kmalloc.c:151-166).  CallEnds rests on the same order.
THEOREM WalkNeverRepeats ==
  ASSUME CarefulCallers
  PROVE  Spec => /\ [][pc = "walk" /\ pc' = "walk" => Before(cur, cur')]_vars
                 /\ [](pc # "hung")
<1> DEFINE A == pc = "walk" /\ pc' = "walk" => Before(cur, cur')
<1>1. IInv /\ Next /\ pc = "walk" => A /\ pc' # "hung"
  <2> SUFFICES ASSUME IInv, Next, pc = "walk" PROVE A /\ pc' # "hung"
    OBVIOUS
  <2>0. /\ HeapInv(hdr, brk) /\ cur \in hdr.magic /\ ~Align
    BY DEF IInv, PtrOK, CallOK, Align, CarefulCallers
  <2>1. ReturnNull \/ KmallocInt
    BY DEF Next, Caller, CallKmalloc, CallKfree, CallKrealloc, Request, Heap,
           GetLock, Kfree, Krealloc
  <2>2. CASE ReturnNull
    BY <2>2 DEF ReturnNull, Return
  <2>3. CASE KmallocInt
    <3>1. CASE WalkOn
      <4>1. cur' = hdr.next[cur] /\ hdr.next[cur] # NULL /\ pc' = pc
        BY <3>1 DEF WalkOn
      <4>. QED
        BY <4>1, <2>0 DEF HeapInv, Sorted
    <3>2. CASE SplitBlock \/ ExtendHeap
      BY <3>2 DEF SplitBlock, ExtendHeap, Deliver, Return
    <3>3. CASE OutOfMemory \/ Stop("panic")
      BY <3>3 DEF OutOfMemory, Stop
    <3>4. ~WalkLoops
      BY <2>0 DEF WalkLoops, Loops
    <3>. QED
      BY <2>3, <3>1, <3>2, <3>3, <3>4 DEF KmallocInt
  <2>. QED
    BY <2>1, <2>2, <2>3
<1>2. IInv /\ Next /\ pc # "walk" /\ pc # "hung" => A /\ pc' # "hung"
  <2> SUFFICES ASSUME IInv, Next, pc # "walk", pc # "hung" PROVE pc' # "hung"
    OBVIOUS
  <2>1. Caller \/ GetLock \/ Kfree \/ Krealloc
    BY DEF Next, Heap, ReturnNull, KmallocInt
  <2>2. CASE Caller
    BY <2>2 DEF Caller, CallKmalloc, CallKfree, CallKrealloc, Request
  <2>3. CASE GetLock
    BY <2>3 DEF GetLock
  <2>4. CASE Kfree
    BY <2>4 DEF Kfree, Stop, Return
  <2>5. CASE Krealloc
    BY <2>5 DEF Krealloc, Stop, ReallocSame, ReallocInPlace, ReallocMove, Return
  <2>. QED
    BY <2>1, <2>2, <2>3, <2>4, <2>5
<1>3. IInv /\ pc # "hung" /\ [Next]_vars => (pc # "hung")' /\ [A]_vars
  BY <1>1, <1>2 DEF vars
<1>4. Init => pc # "hung"
  BY DEF Init
<1>. QED
  BY <1>3, <1>4, Invariance, PTL DEF Spec

-----------------------------------------------------------------------------
(* The heap while the kernel starts: the aligned split leaves b->next       *)
(* alone and takes the new header's chunkBorder from memory, so the chain  *)
(* is no longer linked and the argument above does not apply.  What is     *)
(* left needs no chain: the blocks lie apart, each inside the memory the   *)
(* heap was given, as long as no block is given back.                      *)

\* The callers that give no block back: no kfree(), and a krealloc() that
\* has to move its block stops in memcpy().
BootCallers == "kfree" \notin Calls /\ ("krealloc" \in Calls => ~MemcpyOK)

\* The headers h lie apart, in the linker's heap and the ranges below top.
Apart(h, top) == h \in Header /\ Disjoint(h) /\ InMemory(h, top)

BootInv ==
  /\ TypeOK /\ Apart(hdr, brk)
  /\ pc \in {"spin", "walk", "kfree", "krealloc"} => op.fn \in Calls
  /\ pc = "kfree" => op.fn = "kfree"

\* What Apart says of one block, in arithmetic.
LEMMA ApartFacts ==
  ASSUME NEW h, NEW top \in VmBase .. HeapBase, Apart(h, top),
         NEW b \in h.magic
  PROVE  /\ b \in Nat /\ b \in Addr /\ b # NULL
         /\ h.allocated[b] \in Nat /\ h.free[b] \in Nat
         /\ h.next[b] \in Addr \cup {NULL}
         /\ MaxTotalPtr(h, b) \in Nat
         /\ MaxTotalPtr(h, b) <= HeapEnd
         /\ MaxTotalPtr(h, b) > b
         /\ b < HeapBase => MaxTotalPtr(h, b) <= top
<1>1. /\ b \in Nat /\ b \in Addr /\ b # NULL
      /\ h.allocated[b] \in Nat /\ h.free[b] \in Nat
      /\ h.next[b] \in Addr \cup {NULL}
  <2>1. h.magic \subseteq Addr
    BY DEF Apart, Header
  <2>2. \A a \in Addr : a \in Nat /\ a # NULL
    BY HeapAssumption DEF Addr, NULL, HeapEnd
  <2>. QED
    BY <2>1, <2>2 DEF Apart, Header
<1>2. MaxTotalPtr(h, b) <= IF b >= HeapBase THEN HeapEnd ELSE top
  BY DEF Apart, InMemory
<1>3. MaxTotalPtr(h, b) \in Nat /\ MaxTotalPtr(h, b) > b
  BY <1>1, HeapAssumption DEF MaxTotalPtr
<1>. QED
  BY <1>1, <1>2, <1>3, HeapAssumption DEF HeapEnd

\* A split at n, inside b's free tail and with room for the request, that
\* cuts b's free tail off at n keeps the blocks apart, whatever it does to
\* the chain.
LEMMA SplitAtApart ==
  ASSUME NEW h, NEW top \in VmBase .. HeapBase, Apart(h, top),
         NEW b \in h.magic, NEW sz \in Nat, NEW n \in Nat, NEW bfree \in Nat,
         NEW border \in BOOLEAN, NEW bnext \in Addr \cup {NULL},
         n = NewUnalignedBlock(h, b) + bfree,
         n + Csz(sz) <= MaxTotalPtr(h, b)
  PROVE  /\ Apart(SplitAt(h, b, n, sz, border, bnext, bfree), top)
         /\ SplitAt(h, b, n, sz, border, bnext, bfree).magic = h.magic \cup {n}
<1> DEFINE g == SplitAt(h, b, n, sz, border, bnext, bfree)
           F == FreeData(n, MaxTotalPtr(h, b), sz)
<1>1. /\ b < n /\ n < MaxTotalPtr(h, b) /\ n \in Addr
      /\ n < HeapBase <=> b < HeapBase
      /\ F \in Nat
      /\ n + F + RdzSz + sz + DataSz = MaxTotalPtr(h, b)
      /\ b + bfree + RdzSz + h.allocated[b] + DataSz = n
  BY ApartFacts, HeapAssumption
     DEF NewUnalignedBlock, MaxAllocPtr, MaxTotalPtr, Csz, Addr, HeapEnd, FreeData
<1>2. n \notin h.magic
  BY <1>1, ApartFacts DEF Apart, Disjoint
<1>3. h \in Header /\ b \in Addr /\ h.next[b] \in Addr \cup {NULL}
  BY ApartFacts DEF Apart
<1> HIDE DEF F
<1>4. /\ g.magic = h.magic \cup {n}
      /\ g.allocated = Put(h.allocated, n, sz)
      /\ g.free = Put(Put(h.free, n, F), b, bfree)
  BY DEF SplitAt, F
<1>5. g \in Header
  <2>1. /\ Put(h.allocated, n, sz) \in [Addr -> Nat]
        /\ Put(Put(h.free, n, F), b, bfree) \in [Addr -> Nat]
        /\ Put(Put(h.prev, n, b), h.next[b], n) \in [Addr -> Addr \cup {NULL}]
        /\ Put(Put(h.next, n, h.next[b]), b, bnext) \in [Addr -> Addr \cup {NULL}]
    BY <1>1, <1>3 DEF Put, Header
  <2>2. /\ h.magic \cup {n} \subseteq Addr /\ h.rdz \cup {n} \subseteq Addr
        /\ (IF border THEN h.chunkBorder \cup {n} ELSE h.chunkBorder \ {n})
             \subseteq Addr
    BY <1>1, <1>3 DEF Header
  <2>. QED
    BY <2>1, <2>2 DEF SplitAt, Header, F
<1> HIDE DEF g
<1>6. /\ \A a \in h.magic \ {b} : MaxTotalPtr(g, a) = MaxTotalPtr(h, a)
      /\ MaxTotalPtr(g, b) = n
      /\ MaxTotalPtr(g, n) = MaxTotalPtr(h, b)
  BY <1>1, <1>2, <1>3, <1>4, ApartFacts DEF MaxTotalPtr, Put
<1>7. Disjoint(g)
  BY <1>1, <1>2, <1>4, <1>6, ApartFacts DEF Disjoint, Apart
<1>8. InMemory(g, top)
  BY <1>1, <1>2, <1>4, <1>6, ApartFacts, HeapAssumption
     DEF InMemory, Apart, HeapEnd
<1>. QED
  BY <1>4, <1>5, <1>7, <1>8 DEF Apart, g

\* The distance to the next page boundary, and where it leads.
LEMMA PageBoundary ==
  ASSUME NEW a \in Nat, NEW p \in Nat \ {0}
  PROVE  /\ p - (a % p) \in 1 .. p
         /\ (a + (p - (a % p))) % p = 0
<1> DEFINE q == a \div p
           r == a % p
           t == p * (q + 1)
<1>1. q \in Nat /\ r \in 0 .. (p - 1) /\ a = p * q + r
  OBVIOUS
<1> HIDE DEF q, r
<1>2. p * (q + 1) = p * q + p /\ p * q \in Nat
  BY <1>1
<1>3. a + (p - r) = t /\ t \in Nat
  BY <1>1, <1>2
<1>4. t % p = 0
  <2> HIDE DEF t
  <2>1. t = p * (t \div p) + (t % p) /\ t % p \in 0 .. (p - 1) /\ t \div p \in Nat
    BY <1>3
  <2> DEFINE d == t \div p
             s == t % p
  <2> HIDE DEF d, s
  <2>2. p * (q + 1) = p * d + s /\ s \in 0 .. (p - 1) /\ d \in Nat
    BY <2>1 DEF d, s, t
  <2>3. p * (q + 1 - d) = s
    BY <2>2, <1>1
  <2>4. q + 1 - d = 0
    <3> DEFINE e == q + 1 - d
    <3>1. e \in Int /\ p * e = s
      BY <2>2, <2>3, <1>1
    <3> HIDE DEF e
    <3>2. e >= 1 => p * e >= p
      BY <3>1
    <3>3. e <= -1 => p * e <= -p
      BY <3>1
    <3>. QED
      BY <3>1, <3>2, <3>3, <2>2 DEF e
  <2>. QED
    BY <2>3, <2>4, <2>2 DEF s
<1>. QED
  BY <1>1, <1>3, <1>4 DEF r

\* The aligned split keeps the blocks apart, and puts the data of the block
\* it adds on a page boundary.
LEMMA SplitAlignedApart ==
  ASSUME NEW h, NEW top \in VmBase .. HeapBase, Apart(h, top),
         NEW b \in h.magic, NEW sz \in Nat, NEW border \in BOOLEAN,
         AlignmentOffset(h, b) >= DataSz,
         h.free[b] >= Csz(sz) + AlignmentOffset(h, b)
  PROVE  /\ Apart(SplitAligned(h, b, sz, border), top)
         /\ \A c \in SplitAligned(h, b, sz, border).magic \ h.magic :
              DataPtr(c) % PageSz = 0
<1> DEFINE N == NewUnalignedBlock(h, b)
           off == AlignmentOffset(h, b)
           n == N + off - DataSz
           f == FreeData(b, n, h.allocated[b])
<1>1. N \in Nat /\ N = b + h.allocated[b] + DataSz + RdzSz
  BY ApartFacts, HeapAssumption DEF NewUnalignedBlock, MaxAllocPtr
<1>2. off = PageSz - (N % PageSz)
  BY DEF AlignmentOffset
<1>3. off \in 1 .. PageSz /\ (N + off) % PageSz = 0
  BY <1>1, <1>2, PageBoundary, HeapAssumption
<1>4. off >= DataSz /\ h.free[b] >= Csz(sz) + off
  OBVIOUS
<1>5. SplitAligned(h, b, sz, border) = SplitAt(h, b, n, sz, border, h.next[b], f)
  BY DEF SplitAligned
<1> HIDE DEF N, off
<1>6. /\ n \in Nat /\ f \in Nat /\ n = N + f
      /\ n + Csz(sz) <= MaxTotalPtr(h, b)
      /\ n + DataSz = N + off
  BY <1>1, <1>3, <1>4, ApartFacts, HeapAssumption DEF Csz, MaxTotalPtr, FreeData
<1>7. h.next[b] \in Addr \cup {NULL}
  BY ApartFacts
<1> HIDE DEF n, f
<1>8. /\ Apart(SplitAt(h, b, n, sz, border, h.next[b], f), top)
      /\ SplitAt(h, b, n, sz, border, h.next[b], f).magic = h.magic \cup {n}
  BY <1>6, <1>7, SplitAtApart DEF N
<1>. QED
  BY <1>3, <1>5, <1>6, <1>8 DEF DataPtr

\* The unaligned split keeps the blocks apart.
LEMMA SplitApart ==
  ASSUME NEW h, NEW top \in VmBase .. HeapBase, Apart(h, top),
         NEW b \in h.magic, NEW sz \in Nat, h.free[b] >= Csz(sz)
  PROVE  Apart(Split(h, b, sz), top)
<1> DEFINE n == NewUnalignedBlock(h, b)
<1>1. /\ n \in Nat /\ n = n + 0 /\ n + Csz(sz) <= MaxTotalPtr(h, b)
      /\ n \in Addr
  BY ApartFacts, HeapAssumption
     DEF NewUnalignedBlock, MaxAllocPtr, MaxTotalPtr, Csz, Addr, HeapEnd
<1>2. Split(h, b, sz) = SplitAt(h, b, n, sz, FALSE, n, 0)
  BY DEF Split
<1> HIDE DEF n
<1>3. n = NewUnalignedBlock(h, b) + 0 /\ n \in Addr \cup {NULL}
  BY <1>1 DEF n
<1>4. Apart(SplitAt(h, b, n, sz, FALSE, n, 0), top)
  BY <1>1, <1>3, SplitAtApart
<1>. QED
  BY <1>2, <1>4

\* A new chunk above everything vmalloc() gave out keeps the blocks apart.
LEMMA ExtendApart ==
  ASSUME NEW h, NEW top \in VmBase .. HeapBase, Apart(h, top),
         NEW b \in h.magic, NEW sz \in Nat,
         top + ExtendBytes(Csz(sz)) <= HeapBase
  PROVE  /\ Apart(Extend(h, b, top, sz), top + ExtendBytes(Csz(sz)))
         /\ top + ExtendBytes(Csz(sz)) \in VmBase .. HeapBase
         /\ top + ExtendBytes(Csz(sz)) # top
<1> DEFINE g == Extend(h, b, top, sz)
           E == ExtendBytes(Csz(sz))
           F == E - (DataSz + RdzSz) - sz
<1>1. E \in Nat /\ Csz(sz) < E
  BY ExtendRoom, Zenon
<1> HIDE DEF E
<1>2. /\ F \in Nat /\ top + F + RdzSz + sz + DataSz = top + E
      /\ top \in Nat /\ top < HeapBase /\ top \in Addr
      /\ top + E \in VmBase .. HeapBase /\ top + E # top
  <2>1. top + E <= HeapBase
    BY DEF E
  <2>. QED
    BY <1>1, <2>1, HeapAssumption DEF Csz, Addr, HeapEnd
<1>3. top \notin h.magic
  BY <1>2, ApartFacts
<1>4. h \in Header /\ b \in Addr
  BY ApartFacts DEF Apart
<1> HIDE DEF F
<1>5. /\ g.magic = h.magic \cup {top}
      /\ g.allocated = Put(h.allocated, top, sz)
      /\ g.free = Put(h.free, top, F)
  BY DEF Extend, E, F
<1>6. g \in Header
  <2>1. /\ Put(h.allocated, top, sz) \in [Addr -> Nat]
        /\ Put(h.free, top, F) \in [Addr -> Nat]
        /\ Put(h.prev, top, b) \in [Addr -> Addr \cup {NULL}]
        /\ Put(Put(h.next, top, NULL), b, top) \in [Addr -> Addr \cup {NULL}]
    BY <1>2, <1>4 DEF Header, Put
  <2>2. /\ h.magic \cup {top} \subseteq Addr /\ h.rdz \cup {top} \subseteq Addr
        /\ h.chunkBorder \cup {top} \subseteq Addr
    BY <1>2, <1>4 DEF Header
  <2>. QED
    BY <2>1, <2>2 DEF Extend, Header, E, F
<1> HIDE DEF g
<1>7. /\ \A a \in h.magic : MaxTotalPtr(g, a) = MaxTotalPtr(h, a)
      /\ MaxTotalPtr(g, top) = top + E
  BY <1>2, <1>3, <1>4, <1>5, ApartFacts DEF MaxTotalPtr, Put
<1>8. Disjoint(g)
  <2>1. \A a \in h.magic : a < top => MaxTotalPtr(h, a) <= top
    BY <1>2, ApartFacts, HeapAssumption
  <2>2. \A a \in h.magic : top < a => top + E <= a
    BY <1>1, <1>2, ApartFacts, HeapAssumption
  <2>. QED
    BY <1>2, <1>3, <1>5, <1>7, <2>1, <2>2, ApartFacts DEF Disjoint, Apart
<1>9. InMemory(g, top + E)
  BY <1>1, <1>2, <1>5, <1>7, ApartFacts, HeapAssumption
     DEF InMemory, Apart, HeapEnd
<1>. QED
  BY <1>2, <1>6, <1>8, <1>9 DEF Apart, g, E

\* krealloc() within a block keeps the blocks apart.
LEMMA ResizeApart ==
  ASSUME NEW h, NEW top \in VmBase .. HeapBase, Apart(h, top),
         NEW b \in h.magic, NEW sz \in Nat, h.allocated[b] + h.free[b] >= sz
  PROVE  Apart(Resize(h, b, sz), top) /\ Resize(h, b, sz).magic = h.magic
<1> DEFINE g == Resize(h, b, sz)
           F == (h.allocated[b] + h.free[b]) - sz
<1>1. h \in Header /\ b \in Addr /\ F \in Nat
  BY ApartFacts DEF Apart
<1> HIDE DEF F
<1>2. /\ g.magic = h.magic
      /\ g.allocated = Put(h.allocated, b, sz)
      /\ g.free = Put(h.free, b, F)
  BY <1>1 DEF Resize, Header, F
<1>3. g \in Header
  BY <1>1 DEF Resize, Put, Header, F
<1> HIDE DEF g
<1>4. \A a \in h.magic : MaxTotalPtr(g, a) = MaxTotalPtr(h, a)
  BY <1>1, <1>2, ApartFacts, HeapAssumption DEF MaxTotalPtr, Put, F
<1>. QED
  BY <1>2, <1>3, <1>4 DEF Apart, Disjoint, InMemory, g

\* A step of the heap while the kernel starts: the blocks stay apart, and
\* an aligned allocation that extends nothing adds an aligned block.
LEMMA BootStep ==
  ASSUME BootCallers, BootInv, Next
  PROVE  BootInv' /\ AlignedStep
<1>0. /\ Apart(hdr, brk) /\ brk \in VmBase .. HeapBase /\ op.sz \in Nat
      /\ HeapBase \in Addr /\ op.ptr \in Addr \cup {NULL}
      /\ hdr \in Header
  BY HeapAssumption DEF BootInv, TypeOK, Addr, HeapEnd
<1>1. ASSUME NEW r, r \in [fn: Entry, sz: Nat, ptr: Addr \cup {NULL}],
             Request(r)
      PROVE  BootInv' /\ AlignedStep
  BY <1>1 DEF BootInv, TypeOK, Request, AlignedStep
<1>2. CASE Caller
  <2>1. CASE CallKmalloc
    BY <1>1, <2>1, HeapAssumption DEF CallKmalloc, Entry
  <2>2. CASE CallKfree
    BY <1>1, <2>2, <1>0 DEF CallKfree, Entry, Held, Header
  <2>3. CASE CallKrealloc
    BY <1>1, <2>3, <1>0, HeapAssumption DEF CallKrealloc, Entry, Held, Header
  <2>. QED
    BY <1>2, <2>1, <2>2, <2>3 DEF Caller
<1>3. CASE GetLock
  <2>1. BootInv'
    BY <1>3, <1>0 DEF GetLock, BootInv, TypeOK
  <2>. QED
    BY <2>1, <1>3 DEF GetLock, AlignedStep
<1>4. CASE ReturnNull
  BY <1>4 DEF ReturnNull, Return, BootInv, TypeOK, NoCall, AlignedStep
<1>5. ASSUME NEW why \in {"hung", "oom", "panic"}, Stop(why)
      PROVE  BootInv' /\ AlignedStep
  BY <1>5 DEF Stop, BootInv, TypeOK, AlignedStep
<1>6. CASE KmallocInt
  <2>1. pc = "walk" /\ op.fn \in Calls
    BY <1>6 DEF KmallocInt, BootInv
  <2>2. ASSUME NEW g, Deliver(g), Apart(g, brk'), brk' \in VmBase .. HeapBase,
               Align /\ UNCHANGED brk =>
                 \A b \in g.magic \ hdr.magic : DataPtr(b) % PageSz = 0
        PROVE  BootInv' /\ AlignedStep
    <3>1. hdr' = g
      BY <2>1, <2>2 DEF Deliver, BootCallers
    <3>2. TypeOK'
      BY <2>2, <3>1 DEF Deliver, Return, BootInv, TypeOK, Apart, NoCall
    <3>3. pc' \in {"idle", "fault"}
      BY <2>2 DEF Deliver, Return
    <3>. QED
      BY <2>2, <3>1, <3>2, <3>3 DEF BootInv, AlignedStep
  <2>3. CASE cur \notin hdr.magic \/ (LoopEnds(cur) /\ cur \notin hdr.rdz)
    BY <1>5, <1>6, <2>3 DEF KmallocInt
  <2>4. CASE cur \in hdr.magic /\ WalkOn
    <3>1. cur' \in Addr \cup {NULL}
      BY <2>4, <1>0, ApartFacts DEF WalkOn
    <3>. QED
      BY <2>4, <3>1 DEF WalkOn, BootInv, TypeOK, AlignedStep
  <2>5. CASE WalkLoops
    BY <1>5, <2>5 DEF WalkLoops
  <2>6. CASE cur \in hdr.magic /\ SplitBlock
    <3>1. brk' = brk
      BY <2>6 DEF SplitBlock
    <3>2. CASE ~Align
      <4>1. Deliver(Split(hdr, cur, op.sz)) /\ hdr.free[cur] >= Csz(op.sz) + 0
        BY <2>6, <3>2 DEF SplitBlock, Fits
      <4>2. hdr.free[cur] >= Csz(op.sz)
        BY <4>1, <1>0, HeapAssumption DEF Csz
      <4>3. Apart(Split(hdr, cur, op.sz), brk')
        BY <4>2, <3>1, <2>6, <1>0, SplitApart
      <4>. QED
        BY <2>2, <3>1, <3>2, <4>1, <4>3, <1>0
    <3>3. CASE Align
      <4>1. PICK border \in BOOLEAN : Deliver(SplitAligned(hdr, cur, op.sz, border))
        BY <2>6, <3>3 DEF SplitBlock
      <4>2. hdr.free[cur] >= Csz(op.sz) + AlignmentOffset(hdr, cur)
        BY <2>6, <3>3 DEF SplitBlock, Fits
      <4>3. AlignmentOffset(hdr, cur) >= DataSz
        <5>1. ~(AlignmentOffset(hdr, cur) < DataSz)
          BY <2>6, <3>3 DEF SplitBlock, Loops
        <5>2. NewUnalignedBlock(hdr, cur) \in Nat
          BY <2>6, <1>0, ApartFacts, HeapAssumption
             DEF NewUnalignedBlock, MaxAllocPtr
        <5>3. AlignmentOffset(hdr, cur) \in 1 .. PageSz
          BY <5>2, PageBoundary, HeapAssumption DEF AlignmentOffset
        <5>. QED
          BY <5>1, <5>3, HeapAssumption
      <4>4. /\ Apart(SplitAligned(hdr, cur, op.sz, border), brk)
            /\ \A c \in SplitAligned(hdr, cur, op.sz, border).magic \ hdr.magic :
                 DataPtr(c) % PageSz = 0
        BY <4>2, <4>3, <2>6, <1>0, SplitAlignedApart
      <4>. QED
        BY <2>2, <3>1, <4>1, <4>4, <1>0
    <3>. QED
      BY <3>2, <3>3
  <2>7. CASE cur \in hdr.magic /\ ExtendHeap
    <3>1. /\ brk + ExtendBytes(Csz(op.sz)) <= HeapBase
          /\ brk' = brk + ExtendBytes(Csz(op.sz))
          /\ Deliver(Extend(hdr, cur, brk, op.sz))
      BY <2>7 DEF ExtendHeap
    <3>2. /\ Apart(Extend(hdr, cur, brk, op.sz), brk')
          /\ brk' \in VmBase .. HeapBase /\ brk' # brk
      BY <3>1, <2>7, <1>0, ExtendApart
    <3>. QED
      BY <2>2, <3>1, <3>2
  <2>8. CASE OutOfMemory
    BY <1>5, <2>8 DEF OutOfMemory
  <2>. QED
    BY <1>6, <2>3, <2>4, <2>5, <2>6, <2>7, <2>8 DEF KmallocInt
<1>7. CASE Kfree
  BY <1>7 DEF Kfree, BootInv, BootCallers
<1>8. CASE Krealloc
  <2>1. CASE Corrupt(op.ptr)
    BY <1>5, <1>8, <2>1 DEF Krealloc
  <2>2. CASE ReallocSame
    BY <2>2 DEF ReallocSame, BootInv, TypeOK, NoCall, AlignedStep
  <2>3. CASE ~Corrupt(op.ptr) /\ ReallocInPlace
    <3>1. op.ptr \in hdr.magic
      BY <2>3 DEF Corrupt
    <3>2. /\ hdr.allocated[op.ptr] + hdr.free[op.ptr] >= op.sz
          /\ hdr' = Resize(hdr, op.ptr, op.sz) /\ Return /\ brk' = brk
      BY <2>3 DEF ReallocInPlace
    <3>3. Apart(hdr', brk') /\ hdr'.magic = hdr.magic
      BY <3>1, <3>2, <1>0, ResizeApart
    <3>4. TypeOK'
      BY <3>2, <3>3 DEF Return, BootInv, TypeOK, Apart, NoCall
    <3>. QED
      BY <3>2, <3>3, <3>4 DEF Return, BootInv, AlignedStep
  <2>4. CASE ReallocMove
    BY <2>4, <1>0, <1>8 DEF ReallocMove, Krealloc, BootInv, TypeOK, AlignedStep
  <2>. QED
    BY <1>8, <2>1, <2>2, <2>3, <2>4 DEF Krealloc
<1>. QED
  BY <1>2, <1>3, <1>4, <1>6, <1>7, <1>8 DEF Next, Heap

\* The inductive invariant of the heap while the kernel starts.
LEMMA BootInvariance == ASSUME BootCallers PROVE Spec => []BootInv
<1>1. Init => BootInv
  BY InitInv DEF IInv, HeapInv, BootInv, Apart, Init
<1>2. BootInv /\ [Next]_vars => BootInv'
  BY BootStep DEF vars, BootInv, TypeOK
<1>. QED
  BY <1>1, <1>2, PTL DEF Spec

\* While no block is given back, kmalloc() and kmallocAligned() never hand
\* out memory that belongs to another block or lies outside the heap, even
\* though the aligned split drops blocks from the chain.
THEOREM BootMemorySafe ==
  ASSUME BootCallers
  PROVE  Spec => [](TypeOK /\ BlocksDisjoint /\ BlocksInMemory)
<1>1. BootInv => TypeOK /\ BlocksDisjoint /\ BlocksInMemory
  BY DEF BootInv, Apart, BlocksDisjoint, BlocksInMemory
<1>. QED
  BY <1>1, BootInvariance, PTL

\* Every block kmallocAligned() splits off has its data on a page boundary,
\* for every page, header and red zone size.
THEOREM BlocksAligned == ASSUME BootCallers PROVE Spec => AlignedResult
<1>1. BootInv /\ [Next]_vars => [AlignedStep]_vars
  BY BootStep
<1>. QED
  BY <1>1, BootInvariance, PTL DEF Spec, AlignedResult
=============================================================================
