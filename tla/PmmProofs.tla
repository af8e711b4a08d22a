------------------------------ MODULE PmmProofs ------------------------------
(***************************************************************************)
(* Theorems about physical memory (Pmm): what becomes of the entries of    *)
(* the map, and of blocks of order 0 among requests of every size.         *)
(***************************************************************************)
EXTENDS Pmm, FiniteSetTheorems, WellFoundedInduction, TLAPS

-----------------------------------------------------------------------------
(* The invariant *)

\* Region r is the one of entry k; an entry whose region was begun.
Of(r, k) == base[r] = Map[k].phys /\ limit[r] = Map[k].phys + Map[k].pages
Before(k) == Cardinality({j \in Idx \ {first} : j < k})
Started(k) == k = first \/ Before(k) < rn
Begun == blc > 0 /\ ord < MaxOrder
Making == pc \in {"size", "kmalloc", "wild"} \/ (pc = "panic" /\ Begun)

\* The blocks of an entry, and those that an int can mark.
Blocks(k) == Half(Map[k].pages \div BlockPg)
Block(k) == 0 .. Blocks(k) - 1
Usable(k) == {b \in 0 .. IntBits - 1 : b < Blocks(k)}

\* The blocks of an entry that are in use at boot.
InUse(k) ==
  {e \in Reserved : Map[k].phys < e.phys /\ e.phys + e.pages <= Map[k].phys + Map[k].pages}
UseBlocks(k, e) ==
  {((e.phys - Map[k].phys) \div BlockPg) + j : j \in 0 .. ((e.pages + BlockPg - 1) \div BlockPg) - 1}
Held(k) == UNION {UseBlocks(k, e) : e \in InUse(k)}

\* The first word of a region's order 0, and the ints that do not test free.
Set0(r) == {b \in 0 .. WordBits - 1 : <<r, 0, b>> \in bits}
Ints(S) == {b \in 0 .. IntBits - 1 : Mask(b) \cap S # {}}
Whole(S) == \A b \in 0 .. IntBits - 1 : Mask(b) \cap S # {} => Mask(b) \subseteq S
Taken(r) == Ints(Set0(r))

TypeInv ==
  /\ base \in [Region -> Nat] /\ limit \in [Region -> Nat]
  /\ ordern \in [Region -> Int]
  /\ entryn \in [Region \X Order -> Nat] /\ used \in [Region \X Order -> Nat]
  /\ have \subseteq Region \X Order
  /\ pc \in {"boot1", "boot", "size", "kmalloc", "run", "panic", "wild", "fault"}
  /\ at \in Region /\ ord \in 0 .. MaxOrder /\ blc \in Nat /\ first \in 0 .. Len(Map) /\ rn \in Nat
  /\ fptr \in Nat /\ fleft \in Int

\* A region is one of an entry that was begun, each entry's only one.
RegionInv ==
  /\ \A r \in Region : limit[r] # 0 => \E k \in Idx : Of(r, k) /\ Started(k)
  /\ \A r \in Region : <<r, 0>> \in have => limit[r] # 0
  /\ \A r, s \in Region : limit[r] # 0 /\ base[r] = base[s] /\ limit[r] = limit[s] => r = s
  /\ pc = "boot1" => first = 0 /\ rn = 0 /\ live = {} /\ fleft = 0 /\ blc = 0 /\ have = {}
                   /\ \A r \in Region : limit[r] = 0

\* The count of a region's order 0 is no smaller than the ints that its first
\* word marks, and their bits are set together.
Counted(r, k) ==
  /\ entryn[<<r, 0>>] = Blocks(k)
  /\ Whole(Set0(r))
  /\ Cardinality(Taken(r) \cap Usable(k)) <= used[<<r, 0>>]

\* The region that is being made.
MakingInv ==
  /\ Making => cur \in Idx /\ Of(at, cur) /\ Started(cur)
  /\ pc \in {"size", "kmalloc"} =>
       /\ at < RegionCount
       /\ ord = 0 => blc = Blocks(cur)
       /\ ord > 0 => <<at, 0>> \in have /\ Counted(at, cur)
  /\ pc = "kmalloc" => Begun /\ (ord = 0 => entryn[<<at, 0>>] = Blocks(cur))
  /\ pc \in {"boot", "run"} => ~ Begun

\* The others: the blocks in use are set, while the first word serves.
Serves(r) == used[<<r, 0>>] <= IntBits
Complete(r, k) == Counted(r, k) /\ (Serves(r) => Held(k) \cap Usable(k) \subseteq Taken(r))
CompleteInv == \A r \in Region, k \in Idx : Of(r, k) /\ ~ (Making /\ r = at) => Complete(r, k)

\* Block b of entry k may be with a caller.
Given(p, k, b) ==
  /\ p = Map[k].phys + (b * BlockPg) /\ b \in Block(k)
  /\ Started(k) /\ ~ (Making /\ k = cur)

\* Unit x is block b of entry k; while the first word of the entry's region
\* serves, the block is marked, was not in use at boot and has one holder.
IsBlock(x, k, b) ==
  /\ Given(x[1], k, b)
  /\ \A r \in Region : Of(r, k) /\ Serves(r) =>
       b \in Taken(r) /\ b \in Usable(k) \ Held(k) /\ x = <<x[1], 0, 1>>

\* The same of a block that is about to be freed: nobody has it any more.
IsFreed(p, k, b) ==
  /\ Given(p, k, b)
  /\ \A r \in Region : Of(r, k) /\ Serves(r) =>
       b \in Usable(k) \ Held(k) /\ \A x \in live : x[2] = 0 => x[1] # p

LiveInv ==
  /\ \A x \in live : x[2] = 0 => \E k \in Idx, b \in Nat : IsBlock(x, k, b)
  /\ fleft # 0 => pc = "run" /\ fleft = BlockPg /\ \E k \in Idx, b \in Nat : IsFreed(fptr, k, b)

PmmInv == TypeInv /\ RegionInv /\ MakingInv /\ CompleteInv /\ LiveInv

-----------------------------------------------------------------------------
(* Numbers and masks *)

LEMMA Bounds ==
  /\ IntBits \in Nat /\ IntBits > 0 /\ WordBits \in Nat /\ IntBits < WordBits
  /\ MaxOrder \in Nat /\ MaxOrder > 0 /\ BlockPg \in Nat /\ BlockPg > 0
  /\ Len(Map) \in Nat /\ Idx = 1 .. Len(Map) /\ 0 \in Order
  /\ \A k \in Idx : Map[k].phys \in Nat /\ Map[k].pages \in Nat
<1>1. Map \in Seq(Entry) /\ IntBits \in Nat \ {0} /\ WordBits \in Nat /\ IntBits < WordBits
      /\ MaxOrder \in Nat \ {0} /\ BlockPg \in Nat \ {0}
  BY PmmAssumption
<1>2. Len(Map) \in Nat /\ Idx = 1 .. Len(Map) BY <1>1 DEF Idx
<1>3. \A k \in Idx : Map[k] \in Entry BY <1>1, <1>2
<1>4. \A k \in Idx : Map[k].phys \in Nat /\ Map[k].pages \in Nat BY <1>3 DEF Entry
<1>5. 0 \in Order BY <1>1 DEF Order
<1> QED BY <1>1, <1>2, <1>4, <1>5

LEMMA IdxFinite == IsFiniteSet(Idx) /\ Cardinality(Idx) = Len(Map)
<1>1. Len(Map) \in Nat /\ Idx = 1 .. Len(Map) /\ 1 \in Int BY Bounds
<1>2. IsFiniteSet(1 .. Len(Map)) /\ Cardinality(1 .. Len(Map)) = IF 1 > Len(Map) THEN 0 ELSE Len(Map) - 1 + 1
  BY <1>1, FS_Interval, SMTT(30)
<1> QED BY <1>1, <1>2

LEMMA DivFacts ==
  ASSUME NEW a \in Nat
  PROVE  a \div BlockPg \in Nat /\ (a \div BlockPg) * BlockPg <= a /\ a < ((a \div BlockPg) + 1) * BlockPg
<1> DEFINE q == a \div BlockPg
<1>1. q \in Nat /\ a = (BlockPg * q) + (a % BlockPg) /\ a % BlockPg \in 0 .. BlockPg - 1 BY Bounds
<1> HIDE DEF q
<1>2. q * BlockPg <= a /\ a < (q + 1) * BlockPg BY <1>1, Bounds
<1> QED BY <1>1, <1>2 DEF q

LEMMA DivExact == ASSUME NEW b \in Nat PROVE (b * BlockPg) \div BlockPg = b
<1> DEFINE a == b * BlockPg  q == a \div BlockPg
<1>1. a \in Nat BY Bounds
<1>2. q \in Nat /\ q * BlockPg <= a /\ a < (q + 1) * BlockPg BY <1>1, DivFacts
<1> HIDE DEF q
<1>3. ~ (q + 1 <= b)
  <2> SUFFICES ASSUME q + 1 <= b PROVE FALSE OBVIOUS
  <2>1. (q + 1) * BlockPg <= b * BlockPg BY <1>2, Bounds
  <2> QED BY <1>1, <1>2, <2>1, Bounds
<1>4. ~ (b + 1 <= q)
  <2> SUFFICES ASSUME b + 1 <= q PROVE FALSE OBVIOUS
  <2>1. (b + 1) * BlockPg <= q * BlockPg BY <1>2, Bounds
  <2>2. (b + 1) * BlockPg = a + BlockPg BY Bounds
  <2> QED BY <1>1, <1>2, <2>1, <2>2, Bounds
<1>5. q = b BY <1>2, <1>3, <1>4
<1> QED BY <1>5 DEF q

\* An entry has blocks, all of them in it.
LEMMA BlocksIn ==
  ASSUME UnitUse, NEW k \in Idx
  PROVE  Blocks(k) \in Nat /\ Blocks(k) >= 2 /\ Blocks(k) * BlockPg <= Map[k].pages
<1> DEFINE q == Map[k].pages \div BlockPg
<1>1. q >= 2 /\ Map[k].pages \in Nat BY Bounds DEF UnitUse
<1>2. q * BlockPg <= Map[k].pages /\ q \in Nat BY <1>1, DivFacts
<1> HIDE DEF q
<1>3. q - (q % 2) \in 2 .. q BY <1>1, <1>2
<1> DEFINE h == q - (q % 2)
<1>4. h \in 2 .. q BY <1>3
<1>5. Blocks(k) = h BY DEF Blocks, Half, q
<1> HIDE DEF h
<1>6. h * BlockPg <= q * BlockPg BY <1>2, <1>4, Bounds
<1>7. h * BlockPg \in Nat /\ q * BlockPg \in Nat BY <1>2, <1>4, Bounds
<1>8. h \in Nat /\ h >= 2 BY <1>2, <1>4
<1>9. h * BlockPg <= Map[k].pages
  <2> DEFINE g == Map[k].pages  x == h * BlockPg  y == q * BlockPg
  <2>1. g \in Nat /\ x \in Nat /\ y \in Nat /\ x <= y /\ y <= g BY <1>1, <1>2, <1>6, <1>7
  <2> HIDE DEF g, x, y
  <2>2. x <= g BY <2>1
  <2> QED BY <2>2 DEF g, x
<1> QED BY <1>5, <1>8, <1>9

LEMMA BlockIn ==
  ASSUME UnitUse, NEW k \in Idx, NEW b \in Block(k)
  PROVE  /\ b \in Nat /\ b < Blocks(k) /\ b * BlockPg \in Nat
         /\ (b * BlockPg) + BlockPg <= Map[k].pages
<1>2. Blocks(k) \in Nat /\ Blocks(k) * BlockPg <= Map[k].pages /\ Map[k].pages \in Nat BY BlocksIn, Bounds
<1>1. b \in Nat /\ b < Blocks(k) BY <1>2 DEF Block
<1> DEFINE n == Blocks(k)  g == Map[k].pages
<1> HIDE DEF n, g
<1>3. n \in Nat /\ b + 1 <= n /\ n * BlockPg <= g /\ g \in Nat BY <1>1, <1>2 DEF n, g
<1>4. (b + 1) * BlockPg <= n * BlockPg BY <1>1, <1>3, Bounds
<1>5. (b + 1) * BlockPg = (b * BlockPg) + BlockPg /\ b * BlockPg \in Nat /\ n * BlockPg \in Nat
  BY <1>1, <1>3, Bounds
<1>6. (b * BlockPg) + BlockPg <= g BY <1>3, <1>4, <1>5, Bounds
<1> QED BY <1>1, <1>5, <1>6 DEF g

\* A page is in one entry only, or at its end.
LEMMA OneEntry ==
  ASSUME UnitUse, NEW k \in Idx, NEW h \in Idx, NEW p \in Nat,
         Map[k].phys <= p, p <= Map[k].phys + Map[k].pages,
         Map[h].phys <= p, p <= Map[h].phys + Map[h].pages
  PROVE  k = h
<1> DEFINE a == Map[k].phys  m == Map[k].pages  c == Map[h].phys  n == Map[h].pages
<1>1. a \in Nat /\ m \in Nat /\ c \in Nat /\ n \in Nat BY Bounds
<1>2. k # h => a + m < c \/ c + n < a BY DEF UnitUse
<1>3. a <= p /\ p <= a + m /\ c <= p /\ p <= c + n OBVIOUS
<1> HIDE DEF a, m, c, n
<1> QED BY <1>1, <1>2, <1>3

LEMMA OneOf == ASSUME UnitUse, NEW r, NEW k \in Idx, NEW h \in Idx, Of(r, k), Of(r, h) PROVE k = h
<1> DEFINE p == Map[k].phys
<1>1. p = Map[h].phys BY DEF Of
<1>2. p \in Nat /\ Map[k].pages \in Nat /\ Map[h].pages \in Nat BY Bounds
<1>3. p <= p + Map[k].pages /\ p <= p + Map[h].pages /\ p <= p BY <1>2
<1> QED BY <1>1, <1>2, <1>3, OneEntry

\* The block at an address.
LEMMA OneBlockAt ==
  ASSUME UnitUse, NEW k \in Idx, NEW h \in Idx, NEW b \in Block(k), NEW c \in Block(h),
         Map[k].phys + (b * BlockPg) = Map[h].phys + (c * BlockPg)
  PROVE  k = h /\ b = c
<1> DEFINE p == Map[k].phys + (b * BlockPg)
<1>1. b \in Nat /\ b * BlockPg \in Nat /\ (b * BlockPg) + BlockPg <= Map[k].pages BY BlockIn
<1>2. c \in Nat /\ c * BlockPg \in Nat /\ (c * BlockPg) + BlockPg <= Map[h].pages BY BlockIn
<1>3. p \in Nat /\ Map[k].phys <= p /\ p <= Map[k].phys + Map[k].pages BY <1>1, Bounds, SMTT(30)
<1>4. p = Map[h].phys + (c * BlockPg) OBVIOUS
<1> HIDE DEF p
<1>5. Map[h].phys <= p /\ p <= Map[h].phys + Map[h].pages BY <1>2, <1>4, Bounds, SMTT(30)
<1>6. k = h BY <1>3, <1>5, OneEntry
<1>7. b * BlockPg = c * BlockPg
  <2> DEFINE x == b * BlockPg  y == c * BlockPg  a == Map[k].phys
  <2>1. x \in Nat /\ y \in Nat /\ a \in Nat /\ a + x = a + y BY <1>1, <1>2, <1>6, Bounds
  <2> HIDE DEF x, y, a
  <2>2. x = y BY <2>1
  <2> QED BY <2>2 DEF x, y
<1>8. b = c BY <1>1, <1>2, <1>7, DivExact
<1> QED BY <1>6, <1>8

LEMMA MaskIs ==
  /\ \A c \in Int : c % IntBits \in 0 .. IntBits - 1 /\ Mask(c) = Mask(c % IntBits)
  /\ \A b \in 0 .. IntBits - 1 : /\ b \in Mask(b) /\ Mask(b) \subseteq 0 .. WordBits - 1
                               /\ b % IntBits = b
  /\ \A b, c \in 0 .. IntBits - 1 : b # c => Mask(b) \cap Mask(c) = {}
  /\ \A x \in 0 .. WordBits - 1 : \E b \in 0 .. IntBits - 1 : x \in Mask(b)
<1>1. \A b \in 0 .. IntBits - 1 : b % IntBits = b BY Bounds
<1>2. \A b \in 0 .. IntBits - 1 : Mask(b) = IF b = IntBits - 1 THEN b .. WordBits - 1 ELSE {b}
  BY <1>1 DEF Mask
<1>3. \A c \in Int : c % IntBits \in 0 .. IntBits - 1 BY Bounds
<1>4. \A c \in Int : Mask(c) = Mask(c % IntBits)
  <2> TAKE c \in Int
  <2> DEFINE b == c % IntBits
  <2>1. b \in 0 .. IntBits - 1 BY <1>3
  <2>2. b % IntBits = b BY <1>1, <2>1
  <2>3. Mask(c) = IF b = IntBits - 1 THEN IntBits - 1 .. WordBits - 1 ELSE {b} BY DEF Mask
  <2> HIDE DEF b
  <2>4. Mask(b) = IF b = IntBits - 1 THEN IntBits - 1 .. WordBits - 1 ELSE {b} BY <2>2 DEF Mask
  <2> QED BY <2>3, <2>4 DEF b
<1>5. \A b \in 0 .. IntBits - 1 : b \in Mask(b) /\ Mask(b) \subseteq 0 .. WordBits - 1 BY <1>2, Bounds
<1>6. \A b, c \in 0 .. IntBits - 1 : b # c => Mask(b) \cap Mask(c) = {} BY <1>2, Bounds
<1>7. ASSUME NEW x \in 0 .. WordBits - 1 PROVE \E b \in 0 .. IntBits - 1 : x \in Mask(b)
  <2>1. CASE x < IntBits BY <1>5, <2>1, Bounds
  <2>2. CASE ~ (x < IntBits)
    <3>1. IntBits - 1 \in 0 .. IntBits - 1 /\ x \in IntBits - 1 .. WordBits - 1 BY <2>2, Bounds
    <3> QED BY <1>2, <3>1
  <2> QED BY <2>1, <2>2
<1> QED BY <1>1, <1>3, <1>4, <1>5, <1>6, <1>7

LEMMA FiniteInts == IsFiniteSet(0 .. IntBits - 1)
<1>1. 0 \in Int /\ IntBits - 1 \in Int BY Bounds
<1> QED BY <1>1, FS_Interval

\* Marks are set and cleared by whole ints.
LEMMA IntsAdd ==
  ASSUME NEW S, Whole(S), NEW H \in SUBSET Nat, NEW T, T = S \cup UNION {Mask(c) : c \in H}
  PROVE  Whole(T) /\ Ints(T) = Ints(S) \cup {c % IntBits : c \in H}
<1>1. ASSUME NEW b \in 0 .. IntBits - 1 PROVE Mask(b) \cap T # {} <=> b \in Ints(S) \/ \E c \in H : c % IntBits = b
  <2>1. ASSUME NEW c \in H, c % IntBits = b PROVE Mask(b) \subseteq T BY <2>1, MaskIs
  <2>2. ASSUME NEW c \in H, Mask(b) \cap Mask(c) # {} PROVE c % IntBits = b
    <3>1. c % IntBits \in 0 .. IntBits - 1 /\ Mask(c) = Mask(c % IntBits) BY MaskIs
    <3> QED BY <2>2, <3>1, MaskIs
  <2>3. b \in Mask(b) BY MaskIs
  <2> QED BY <2>1, <2>2, <2>3 DEF Ints
<1>2. ASSUME NEW b \in 0 .. IntBits - 1, Mask(b) \cap T # {} PROVE Mask(b) \subseteq T
  <2>1. CASE b \in Ints(S) BY <2>1 DEF Ints, Whole
  <2>2. CASE \E c \in H : c % IntBits = b BY <2>2, MaskIs
  <2> QED BY <1>1, <1>2, <2>1, <2>2
<1>3. \A c \in H : c % IntBits \in 0 .. IntBits - 1 BY MaskIs
<1>4. Ints(T) = Ints(S) \cup {c % IntBits : c \in H} BY <1>1, <1>3 DEF Ints
<1> QED BY <1>2, <1>4 DEF Whole

LEMMA IntsDrop ==
  ASSUME NEW S, Whole(S), NEW c \in Nat, NEW T, T = S \ Mask(c)
  PROVE  Whole(T) /\ Ints(T) = Ints(S) \ {c % IntBits}
<1> DEFINE d == c % IntBits
<1>1. d \in 0 .. IntBits - 1 /\ Mask(c) = Mask(d) BY MaskIs
<1> HIDE DEF d
<1>2. ASSUME NEW b \in 0 .. IntBits - 1, b # d PROVE Mask(b) \cap T = Mask(b) \cap S
  <2>1. Mask(b) \cap Mask(d) = {} BY <1>1, <1>2, MaskIs
  <2> QED BY <1>1, <2>1
<1>3. Mask(d) \cap T = {} BY <1>1
<1>4. Ints(T) = Ints(S) \ {d} BY <1>1, <1>2, <1>3 DEF Ints
<1>5. ASSUME NEW b \in 0 .. IntBits - 1, Mask(b) \cap T # {} PROVE Mask(b) \subseteq T
  <2>1. b # d BY <1>3, <1>5
  <2>2. Mask(b) \cap T = Mask(b) \cap S BY <1>2, <2>1
  <2>3. Mask(b) \subseteq S BY <1>5, <2>2 DEF Whole
  <2> QED BY <2>2, <2>3
<1> QED BY <1>4, <1>5 DEF d, Whole

\* What marks set in order 0 when just one of them is of that order.
LEMMA OneMark ==
  ASSUME NEW r, NEW i, NEW b, NEW M, <<0, i, b>> \in M, \A c \in M : c[1] = 0 => c = <<0, i, b>>
  PROVE  /\ At(r, 0, <<i, b>>) \subseteq Bits(r, M)
         /\ \A y \in Bits(r, M) : y[1] = r /\ (y[2] = 0 => y \in At(r, 0, <<i, b>>))
<1> DEFINE o == <<0, i, b>>
<1>3. o \in M /\ (\A c \in M : c[1] = 0 => c = o) /\ o[1] = 0 /\ o[2] = i /\ o[3] = b OBVIOUS
<1> HIDE DEF o
<1>4. \A y \in Bits(r, M) : \E c \in M : \E m \in Mask(c[3]) : y = <<r, c[1], (c[2] * WordBits) + m>> BY DEF Bits
<1>5. \A c \in M : \A m \in Mask(c[3]) : <<r, c[1], (c[2] * WordBits) + m>> \in Bits(r, M) BY DEF Bits
<1>6. At(r, 0, <<i, b>>) = {<<r, 0, (i * WordBits) + m>> : m \in Mask(b)} BY DEF At
<1>7. At(r, 0, <<i, b>>) \subseteq Bits(r, M) BY <1>3, <1>5, <1>6
<1>8. ASSUME NEW y \in Bits(r, M) PROVE y[1] = r /\ (y[2] = 0 => y \in At(r, 0, <<i, b>>))
  <2>1. PICK c \in M : \E m \in Mask(c[3]) : y = <<r, c[1], (c[2] * WordBits) + m>> BY <1>4
  <2>2. y[1] = r /\ y[2] = c[1] BY <2>1
  <2>3. y[2] = 0 => c = o BY <1>3, <2>2
  <2> QED BY <1>3, <1>6, <2>1, <2>2, <2>3
<1> QED BY <1>7, <1>8

\* What a block of order 0 sets and clears in its own order.
LEMMA MarksZero ==
  ASSUME NEW r, NEW i \in Int, NEW b \in Int, NEW n \in Int
  PROVE  /\ At(r, 0, <<i, b>>) \subseteq Bits(r, Marks(0, i, b, n))
         /\ \A y \in Bits(r, Marks(0, i, b, n)) : y[1] = r /\ (y[2] = 0 => y \in At(r, 0, <<i, b>>))
<1>1. \A c \in Children(0, b) : FALSE BY DEF Children
<1>2. \A c \in Parents(0, i, b, n) : c[1] # 0
  <2> TAKE c \in Parents(0, i, b, n)
  <2>1. c[1] \in 1 .. n - 1 BY DEF Parents
  <2> QED BY <2>1
<1> DEFINE M == Marks(0, i, b, n)  o == <<0, i, b>>
<1>3. o \in M /\ \A c \in M : c[1] = 0 => c = o BY <1>1, <1>2 DEF Marks
<1> HIDE DEF M
<1>4. At(r, 0, <<i, b>>) \subseteq Bits(r, M) /\ \A y \in Bits(r, M) : y[1] = r /\ (y[2] = 0 => y \in At(r, 0, <<i, b>>))
  BY <1>3, OneMark
<1> QED BY <1>4 DEF M

\* What a larger block sets in order 0: bit q of word q, for some q.
OnlyMark(r, q, X) ==
  At(r, 0, <<q, q>>) \subseteq X /\ \A y \in X : y[1] = r /\ (y[2] = 0 => y \in At(r, 0, <<q, q>>))
LEMMA MarksAbove ==
  ASSUME NEW r, NEW o \in Order, o # 0, NEW i \in Int, NEW b \in Int, NEW n \in Int
  PROVE  \E q \in Int : OnlyMark(r, q, Bits(r, Marks(o, i, b, n)))
<1> DEFINE q == Half(b * 2^o) \div WordBits  M == Marks(o, i, b, n)
<1>1. o \in Nat /\ o > 0 BY Bounds DEF Order
<1>2. q \in Int
  <2> DEFINE t == b * 2^o
  <2>1. t \in Int BY <1>1
  <2> HIDE DEF t
  <2>2. Half(t) \in Int BY <2>1 DEF Half
  <2>3. Half(t) \div WordBits \in Int BY <2>2, Bounds
  <2> QED BY <2>3 DEF t
<1>3. \A c \in Parents(o, i, b, n) : c[1] # 0
  <2> TAKE c \in Parents(o, i, b, n)
  <2>1. c[1] \in o + 1 .. n - 1 BY DEF Parents
  <2> QED BY <1>1, <2>1
<1>4. <<0, q, q>> \in Children(o, b) /\ \A c \in Children(o, b) : c[1] = 0 => c = <<0, q, q>>
  <2>1. <<0, q, q>> \in Children(o, b) BY <1>1 DEF Children
  <2>2. \A c \in Children(o, b) : c = <<0, q, q>> \/ c[1] \in 1 .. o - 1 BY <1>1, SMTT(30) DEF Children
  <2> HIDE DEF q
  <2> QED BY <1>1, <2>1, <2>2
<1> HIDE DEF q
<1>5. <<0, q, q>> \in M /\ \A c \in M : c[1] = 0 => c = <<0, q, q>> BY <1>1, <1>3, <1>4 DEF Marks
<1> HIDE DEF M
<1>6. At(r, 0, <<q, q>>) \subseteq Bits(r, M) /\ \A y \in Bits(r, M) : y[1] = r /\ (y[2] = 0 => y \in At(r, 0, <<q, q>>))
  BY <1>5, OneMark
<1> QED BY <1>2, <1>6 DEF M, OnlyMark

LEMMA FreedZero ==
  ASSUME NEW r, NEW b
  PROVE  /\ At(r, 0, <<b \div WordBits, b>>) \subseteq Freed(r, b)
         /\ \A y \in Freed(r, b) : y[1] = r /\ (y[2] = 0 => y \in At(r, 0, <<b \div WordBits, b>>))
<1>0. Climbed(r, b) \subseteq Order \ {0} BY DEF Climbed
<1>1. \A y \in FreedUp(r, b) : \E k \in Order \ {0} : \E q : y \in At(r, k, q) BY <1>0 DEF FreedUp
<1>2. \A k, q : \A y \in At(r, k, q) : y[1] = r /\ y[2] = k BY DEF At
<1> QED BY <1>1, <1>2 DEF Freed

\* The first word of a region holds the mask of a mark of that word, and
\* nothing of a mark of another.
LEMMA AtZero ==
  ASSUME NEW r, NEW s, NEW i \in Int, NEW b \in Int, NEW x \in 0 .. WordBits - 1
  PROVE  <<s, 0, x>> \in At(r, 0, <<i, b>>) <=> s = r /\ i = 0 /\ x \in Mask(b)
<1>1. Mask(b) \subseteq 0 .. WordBits - 1 BY MaskIs
<1>2. ASSUME NEW m \in Mask(b), x = (i * WordBits) + m PROVE i = 0 /\ x = m
  <2>1. m \in Nat /\ m < WordBits /\ x < WordBits /\ x \in Nat BY <1>1, Bounds
  <2>2. (i >= 1 => i * WordBits >= WordBits) /\ (i <= -1 => i * WordBits <= 0 - WordBits) /\ i * WordBits \in Int
    BY Bounds
  <2>3. ~ (i >= 1) /\ ~ (i <= -1)
    <3> DEFINE z == i * WordBits
    <3>1. /\ x = z + m /\ z \in Int /\ WordBits \in Nat
          /\ (i >= 1 => z >= WordBits) /\ (i <= -1 => z <= 0 - WordBits)
      BY <1>2, <2>2, Bounds
    <3> HIDE DEF z
    <3> QED BY <2>1, <3>1
  <2>4. i = 0 BY <2>3
  <2>5. x = m BY <1>2, <2>1, <2>4, Bounds
  <2> QED BY <2>4, <2>5
<1>3. \A m \in Mask(b) : i = 0 => (i * WordBits) + m = m BY <1>1, Bounds
<1>4. <<s, 0, x>> \in At(r, 0, <<i, b>>) <=> s = r /\ \E m \in Mask(b) : x = (i * WordBits) + m BY DEF At
<1> QED BY <1>2, <1>3, <1>4

-----------------------------------------------------------------------------
(* allocPhys() *)

\* The sizes that allocPhys()'s loop tries begin with one block.
IsTried(f, n) == f = [o \in 0 .. n |-> IF o = 0 THEN 1 ELSE f[o - 1] * 2^(o - 1)]
LEMMA TriedZero == Tried[0] = 1
<1> DEFINE B == {n \in Nat : ~ \E f : IsTried(f, n)}
<1>1. B = {}
  <2> SUFFICES ASSUME B # {} PROVE FALSE OBVIOUS
  <2> DEFINE R == OpToRel(<, Nat)
  <2>1. IsWellFoundedOn(R, Nat) BY NatLessThanWellFounded
  <2>2. \A x, y \in Nat : <<x, y>> \in R <=> x < y BY DEF OpToRel
  <2> HIDE DEF R
  <2>3. B \in SUBSET Nat OBVIOUS
  <2> HIDE DEF B
  <2>4. PICK n \in B : \A y \in B : ~ (<<y, n>> \in R) BY <2>1, <2>3, WFMin
  <2>5. n \in Nat /\ \A y \in B : ~ (y < n) BY <2>2, <2>3, <2>4
  <2>6. ~ \E f : IsTried(f, n) BY <2>4 DEF B
  <2>7. CASE n = 0
    <3> DEFINE f == [o \in 0 .. 0 |-> 1]
    <3>1. f = [o \in 0 .. 0 |-> IF o = 0 THEN 1 ELSE f[o - 1] * 2^(o - 1)] OBVIOUS
    <3> HIDE DEF f
    <3>2. IsTried(f, n) BY <2>7, <3>1 DEF IsTried
    <3> QED BY <2>6, <3>2
  <2>8. CASE n # 0
    <3>1. n - 1 \in Nat /\ n - 1 < n BY <2>5, <2>8
    <3>2. n - 1 \notin B BY <2>5, <3>1
    <3>3. PICK f : IsTried(f, n - 1) BY <3>1, <3>2 DEF B
    <3> DEFINE v == f[n - 1] * 2^(n - 1)  g == [o \in 0 .. n |-> IF o = n THEN v ELSE f[o]]
    <3>4. ASSUME NEW o \in 0 .. n PROVE g[o] = IF o = 0 THEN 1 ELSE g[o - 1] * 2^(o - 1)
      <4>1. CASE o = n
        <5>1. g[o] = v /\ o - 1 \in 0 .. n /\ o - 1 # n BY <2>5, <2>8, <4>1
        <5>2. g[o - 1] = f[n - 1] BY <4>1, <5>1
        <5> QED BY <2>8, <4>1, <5>1, <5>2
      <4>2. CASE o # n
        <5>1. o \in 0 .. n - 1 /\ g[o] = f[o] BY <2>5, <3>4, <4>2
        <5>2. f[o] = IF o = 0 THEN 1 ELSE f[o - 1] * 2^(o - 1) BY <3>3, <5>1 DEF IsTried
        <5>3. o # 0 => o - 1 \in 0 .. n /\ o - 1 # n BY <2>5, <5>1
        <5>4. o # 0 => g[o - 1] = f[o - 1] BY <5>3
        <5> QED BY <5>1, <5>2, <5>4
      <4> QED BY <4>1, <4>2
    <3>5. g = [o \in 0 .. n |-> g[o]] OBVIOUS
    <3> HIDE DEF g
    <3>6. IsTried(g, n) BY <3>4, <3>5 DEF IsTried
    <3> QED BY <2>6, <3>6
  <2> QED BY <2>7, <2>8
<1>2. \E f : IsTried(f, MaxOrder) BY <1>1, Bounds
<1>3. \E f : f = [o \in 0 .. MaxOrder |-> IF o = 0 THEN 1 ELSE f[o - 1] * 2^(o - 1)] BY <1>2 DEF IsTried
<1>4. Tried = [o \in 0 .. MaxOrder |-> IF o = 0 THEN 1 ELSE Tried[o - 1] * 2^(o - 1)] BY <1>3 DEF Tried
<1>5. 0 \in 0 .. MaxOrder BY Bounds
<1> QED BY <1>4, <1>5

LEMMA OneOrder ==
  ASSUME UnitUse, NEW pages \in Refills, NEW o \in Order, OrderFor(pages, o) PROVE o # 0
<1>1. pages \in Nat /\ pages > BlockPg BY PmmAssumption DEF UnitUse
<1>2. Tried[0] * BlockPg = BlockPg BY TriedZero, Bounds
<1>3. Tried[o] * BlockPg >= pages BY DEF OrderFor
<1> QED BY <1>1, <1>2, <1>3, Bounds

LEMMA SmallDiv == ASSUME NEW b \in Nat, b < WordBits PROVE b \div WordBits = 0 /\ b % WordBits = b
BY Bounds

\* A region that is not full in either count has a block that tests free.
LEMMA SomeClear ==
  ASSUME UnitUse, TypeInv, NEW r \in Region, NEW k \in Idx, Counted(r, k),
         used[<<r, 0>>] < entryn[<<r, 0>>], Set0(r) # 0 .. WordBits - 1
  PROVE  \E c \in Usable(k) : c \notin Taken(r)
<1> SUFFICES ASSUME Usable(k) \subseteq Taken(r) PROVE FALSE OBVIOUS
<1> DEFINE n == Blocks(k)  U == Usable(k)
<1>1. n \in Nat /\ n >= 2 /\ entryn[<<r, 0>>] = n BY BlocksIn DEF Counted
<1>2. used[<<r, 0>>] \in Nat BY Bounds DEF TypeInv
<1>3. U = {b \in 0 .. IntBits - 1 : b < n} BY DEF Usable
<1>4. Cardinality(U) <= used[<<r, 0>>]
  <2>1. Taken(r) \cap U = U OBVIOUS
  <2> QED BY <2>1 DEF Counted
<1> HIDE DEF n, U
<1>5. CASE n < IntBits
  <2>1. U = 0 .. n - 1 BY <1>1, <1>3, <1>5, Bounds
  <2>2. 0 \in Int /\ n - 1 \in Int BY <1>1
  <2>3. Cardinality(0 .. n - 1) = n BY <1>1, <2>2, FS_Interval
  <2> QED BY <1>1, <1>2, <1>4, <2>1, <2>3
<1>6. CASE ~ (n < IntBits)
  <2>1. U = 0 .. IntBits - 1 BY <1>1, <1>3, <1>6, Bounds
  <2>2. \A b \in 0 .. IntBits - 1 : Mask(b) \subseteq Set0(r) BY <2>1 DEF U, Taken, Ints, Counted, Whole
  <2>3. 0 .. WordBits - 1 \subseteq Set0(r) BY <2>2, MaskIs
  <2>4. Set0(r) \subseteq 0 .. WordBits - 1 BY DEF Set0
  <2> QED BY <2>3, <2>4
<1> QED BY <1>5, <1>6

LEMMA WordIs == ASSUME NEW r PROVE Word(r, 0, 0) = Set0(r)
<1>1. \A b \in 0 .. WordBits - 1 : (0 * WordBits) + b = b BY Bounds
<1> QED BY <1>1 DEF Word, Set0

\* allocRegion() takes such a block, which is of the region, and marks it; or
\* the first word is full, and the count is that of its ints at least.
LEMMA AllocIs ==
  ASSUME UnitUse, TypeInv, NEW r \in Region, NEW k \in Idx, Counted(r, k), ~ NoBlock(r, 0), AllocRegion(r, 0)
  PROVE  \E b \in Block(k) :
           /\ live' = live \cup {Handed(base[r] + (b * BlockPg), 0)}
           /\ used' = [x \in Region \X Order |->
                IF x[1] = r THEN used[x] + UsedBy(0, x[2], ordern[r]) ELSE used[x]]
           /\ \/ /\ b \in Usable(k) /\ b \notin Taken(r)
                 /\ \A s \in Region : Set0(s)' = IF s = r THEN Set0(s) \cup Mask(b) ELSE Set0(s)
              \/ /\ used[<<r, 0>>] >= IntBits
                 /\ \A s \in Region : Set0(s)' = Set0(s)
<1> DEFINE n == entryn[<<r, 0>>]
<1>1. PICK w \in 0 .. n, b \in 0 .. WordBits :
        /\ FirstWord(r, 0, w) /\ FirstBit(r, 0, w, b)
        /\ bits' = bits \cup Bits(r, Marks(0, w, b, ordern[r]))
        /\ used' = [x \in Region \X Order |->
             IF x[1] = r THEN used[x] + UsedBy(0, x[2], ordern[r]) ELSE used[x]]
        /\ live' = live \cup {Handed(base[r] + (b * 2^0 * BlockPg), 0)}
  BY DEF AllocRegion
<1>2. n = Blocks(k) /\ n \in Nat /\ n >= 2 BY BlocksIn DEF Counted
<1> HIDE DEF n
<1>3. w \in Nat /\ b \in Nat /\ b <= WordBits BY <1>1, <1>2, Bounds
<1>4. b * 2^0 * BlockPg = b * BlockPg BY <1>3, Bounds
<1>5. live' = live \cup {Handed(base[r] + (b * BlockPg), 0)} BY <1>1, <1>4
<1>6. used[<<r, 0>>] < n /\ used[<<r, 0>>] \in Nat
  <2>1. used[<<r, 0>>] \in Nat /\ n \in Nat BY <1>2, Bounds DEF TypeInv
  <2>2. ~ (used[<<r, 0>>] >= n) BY DEF NoBlock, n
  <2> QED BY <2>1, <2>2
<1>7. ASSUME NEW s \in Region
      PROVE  Set0(s)' = IF s = r /\ w = 0 THEN Set0(s) \cup (Mask(b) \cap 0 .. WordBits - 1) ELSE Set0(s)
  <2> DEFINE X == Bits(r, Marks(0, w, b, ordern[r]))  A == At(r, 0, <<w, b>>)
  <2>1. w \in Int /\ b \in Int /\ ordern[r] \in Int BY <1>3 DEF TypeInv
  <2>2. A \subseteq X /\ \A y \in X : y[2] = 0 => y \in A BY <2>1, MarksZero
  <2>3. \A x \in 0 .. WordBits - 1 : <<s, 0, x>> \in A <=> s = r /\ w = 0 /\ x \in Mask(b) BY <2>1, AtZero
  <2> HIDE DEF X, A
  <2>4. \A x : <<s, 0, x>>[2] = 0 OBVIOUS
  <2>5. bits' = bits \cup X BY <1>1 DEF X
  <2>6. \A x \in 0 .. WordBits - 1 :
          <<s, 0, x>> \in bits' <=> <<s, 0, x>> \in bits \/ (s = r /\ w = 0 /\ x \in Mask(b))
    BY <2>2, <2>3, <2>4, <2>5
  <2> QED BY <2>6 DEF Set0
<1>8. CASE w = 0
  <2>1. Set0(r) # 0 .. WordBits - 1 BY <1>1, <1>8, WordIs DEF FirstWord, FullWord
  <2>2. PICK c \in Usable(k) : c \notin Taken(r) BY <1>6, <2>1, SomeClear DEF n
  <2>3. c \in 0 .. IntBits - 1 /\ c < n /\ Mask(c) \cap Set0(r) = {} BY <1>2, <2>2 DEF Usable, Taken, Ints
  <2>4. /\ b \in 0 .. (IF n - (0 * WordBits) < WordBits THEN n - (0 * WordBits) ELSE WordBits)
        /\ \A a \in 0 .. b - 1 : Mask(a) \cap Set0(r) # {}
        /\ \/ b = (IF n - (0 * WordBits) < WordBits THEN n - (0 * WordBits) ELSE WordBits)
           \/ Mask(b) \cap Set0(r) = {}
    <3>1. FirstBit(r, 0, 0, b) BY <1>1, <1>8
    <3> QED BY <3>1, WordIs DEF FirstBit, n
  <2>5. (IF n - (0 * WordBits) < WordBits THEN n - (0 * WordBits) ELSE WordBits) = IF n < WordBits THEN n ELSE WordBits
    BY <1>2, Bounds
  <2>6. b <= c
    <3>1. c \in Nat BY <2>3, Bounds
    <3>2. b > c => c \in 0 .. b - 1 BY <1>3, <3>1
    <3> QED BY <1>3, <2>3, <2>4, <3>1, <3>2
  <2>7. b \in 0 .. IntBits - 1 /\ b < n /\ Mask(b) \cap Set0(r) = {}
    <3>1. b < n /\ b < WordBits /\ b \in 0 .. IntBits - 1 BY <1>2, <1>3, <2>3, <2>6, Bounds
    <3>2. b # IF n < WordBits THEN n ELSE WordBits BY <3>1
    <3> QED BY <2>4, <2>5, <3>1, <3>2
  <2>8. b \in Usable(k) /\ b \notin Taken(r) /\ b \in Block(k) BY <1>2, <2>7 DEF Usable, Block, Taken, Ints
  <2>9. Mask(b) \cap 0 .. WordBits - 1 = Mask(b) BY <2>7, MaskIs
  <2>10. \A s \in Region : Set0(s)' = IF s = r THEN Set0(s) \cup Mask(b) ELSE Set0(s) BY <1>7, <1>8, <2>9
  <2> QED BY <1>1, <1>5, <2>8, <2>10
<1>9. CASE w # 0
  <2>1. w >= 1 /\ w \in 0 .. (n - 1) \div WordBits BY <1>1, <1>3, <1>9 DEF FirstWord, n
  <2>2. n > WordBits
    <3> SUFFICES ASSUME ~ (n > WordBits) PROVE FALSE OBVIOUS
    <3>1. n - 1 \in Nat /\ n - 1 < WordBits BY <1>2, Bounds
    <3>2. (n - 1) \div WordBits = 0 BY <3>1, SmallDiv
    <3> QED BY <2>1, <3>2
  <2>3. b \in Block(k) BY <1>2, <1>3, <2>2, Bounds DEF Block
  <2>4. Set0(r) = 0 .. WordBits - 1
    <3>1. 0 \in 0 .. w - 1 BY <1>3, <2>1
    <3>2. FullWord(r, 0, 0) BY <1>1, <3>1 DEF FirstWord
    <3> QED BY <3>2, WordIs DEF FullWord
  <2>5. Taken(r) = 0 .. IntBits - 1
    <3>1. \A c \in 0 .. IntBits - 1 : Mask(c) \cap Set0(r) # {} BY <2>4, MaskIs
    <3> QED BY <3>1 DEF Taken, Ints
  <2>6. Usable(k) = 0 .. IntBits - 1 BY <1>2, <2>2, Bounds DEF Usable
  <2>7. Cardinality(0 .. IntBits - 1) = IntBits
    <3>1. 0 \in Int /\ IntBits - 1 \in Int /\ 0 <= IntBits - 1 BY Bounds
    <3>2. Cardinality(0 .. IntBits - 1) = IF 0 > IntBits - 1 THEN 0 ELSE (IntBits - 1) - 0 + 1 BY <3>1, FS_Interval
    <3> QED BY <3>1, <3>2, Bounds
  <2>8. used[<<r, 0>>] >= IntBits
    <3>1. Taken(r) \cap Usable(k) = 0 .. IntBits - 1 BY <2>5, <2>6
    <3>2. Cardinality(Taken(r) \cap Usable(k)) <= used[<<r, 0>>] BY DEF Counted
    <3> QED BY <1>6, <2>7, <3>1, <3>2, Bounds
  <2>9. \A s \in Region : Set0(s)' = Set0(s) BY <1>7, <1>9
  <2> QED BY <1>1, <1>5, <2>3, <2>8, <2>9
<1> QED BY <1>8, <1>9

\* A larger block marks the first int of order 0 at most, and counts two.
LEMMA AllocAbove ==
  ASSUME TypeInv, NEW r \in Region, NEW o \in Order, o # 0, AllocRegion(r, o)
  PROVE  /\ \A s \in Region : Set0(s)' = Set0(s) \/ (s = r /\ Set0(s)' = Set0(s) \cup Mask(0))
         /\ used' = [x \in Region \X Order |->
              IF x[1] = r THEN used[x] + UsedBy(o, x[2], ordern[r]) ELSE used[x]]
         /\ \A x \in live' : x \in live \/ x[2] # 0
         /\ live \subseteq live'
<1>1. PICK w \in 0 .. entryn[<<r, o>>], b \in 0 .. WordBits :
        /\ bits' = bits \cup Bits(r, Marks(o, w, b, ordern[r]))
        /\ used' = [x \in Region \X Order |->
             IF x[1] = r THEN used[x] + UsedBy(o, x[2], ordern[r]) ELSE used[x]]
        /\ live' = live \cup {Handed(base[r] + (b * 2^o * BlockPg), o)}
  BY DEF AllocRegion
<1>2. \A x \in live' : x \in live \/ x[2] # 0
  <2>1. \A p : Handed(p, o)[2] = o BY DEF Handed
  <2> QED BY <1>1, <2>1
<1>3. w \in Int /\ b \in Int /\ ordern[r] \in Int BY Bounds DEF TypeInv
<1> DEFINE X == Bits(r, Marks(o, w, b, ordern[r]))
<1>7. PICK q \in Int : OnlyMark(r, q, X)
  <2> DEFINE n == ordern[r]
  <2>1. n \in Int /\ X = Bits(r, Marks(o, w, b, n)) BY <1>3
  <2> HIDE DEF n, X
  <2> QED BY <1>3, <2>1, MarksAbove
<1>4. /\ At(r, 0, <<q, q>>) \subseteq X
      /\ \A y \in X : y[1] = r /\ (y[2] = 0 => y \in At(r, 0, <<q, q>>))
  BY <1>7 DEF OnlyMark
<1> HIDE DEF X
<1>5. ASSUME NEW s \in Region PROVE Set0(s)' = Set0(s) \/ (s = r /\ Set0(s)' = Set0(s) \cup Mask(0))
  <2>1. \A x \in 0 .. WordBits - 1 : <<s, 0, x>> \in At(r, 0, <<q, q>>) <=> s = r /\ q = 0 /\ x \in Mask(q)
    BY AtZero
  <2>2. \A x : <<s, 0, x>>[2] = 0 OBVIOUS
  <2>3. bits' = bits \cup X BY <1>1 DEF X
  <2>4. \A x \in 0 .. WordBits - 1 :
          <<s, 0, x>> \in bits' <=> <<s, 0, x>> \in bits \/ (s = r /\ q = 0 /\ x \in Mask(q))
    BY <1>4, <2>1, <2>2, <2>3
  <2>5. CASE s = r /\ q = 0
    <3>1. Mask(0) \subseteq 0 .. WordBits - 1 BY MaskIs, Bounds
    <3>2. Set0(s)' = Set0(s) \cup Mask(0) BY <2>4, <2>5, <3>1 DEF Set0
    <3> QED BY <2>5, <3>2
  <2>6. CASE ~ (s = r /\ q = 0) BY <2>4, <2>6 DEF Set0
  <2> QED BY <2>5, <2>6
<1>6. live \subseteq live' BY <1>1
<1> QED BY <1>1, <1>2, <1>5, <1>6

-----------------------------------------------------------------------------
(* freePhys() *)

\* freePhys() clears the block's int in the entry's region.
LEMMA FreeIs ==
  ASSUME UnitUse, TypeInv, RegionInv, FreePhys, NEW k \in Idx, NEW b \in Block(k), fptr = Map[k].phys + (b * BlockPg),
         NEW s \in Region, NEW h \in Idx, Of(s, h)
  PROVE  Set0(s)' = Set0(s) \/ (h = k /\ Set0(s)' = Set0(s) \ Mask(b))
<1> DEFINE H == {r \in Region : Holder(fptr, r)}  c(r) == (fptr - base[r]) \div BlockPg
<1>1. bits' = bits \ UNION {Freed(r, c(r)) : r \in H} BY DEF FreePhys
<1>2. \A r \in H : c(r) \in Nat
  <2> TAKE r \in H
  <2>1. base[r] \in Nat /\ fptr \in Nat /\ base[r] <= fptr BY DEF TypeInv, Holder
  <2>2. fptr - base[r] \in Nat BY <2>1
  <2> QED BY <2>2, DivFacts
<1>3. \A x \in 0 .. WordBits - 1 : <<s, 0, x>> \in bits' <=>
        <<s, 0, x>> \in bits /\ ~ (s \in H /\ c(s) \div WordBits = 0 /\ x \in Mask(c(s)))
  <2> HIDE DEF H, c
  <2> TAKE x \in 0 .. WordBits - 1
  <2> DEFINE A(r) == At(r, 0, <<c(r) \div WordBits, c(r)>>)
  <2>1. \A r \in H : A(r) \subseteq Freed(r, c(r)) /\ \A y \in Freed(r, c(r)) : y[1] = r /\ (y[2] = 0 => y \in A(r))
    BY FreedZero
  <2>2. \A r \in H : c(r) \div WordBits \in Int /\ c(r) \in Int
    <3>1. WordBits \in Nat /\ WordBits > 0 BY Bounds
    <3>2. \A a \in Nat : a \div WordBits \in Int /\ a \in Int BY <3>1
    <3> QED BY <1>2, <3>2
  <2>3. s \in H => (<<s, 0, x>> \in A(s) <=> c(s) \div WordBits = 0 /\ x \in Mask(c(s))) BY <2>2, AtZero
  <2> HIDE DEF A
  <2>4. <<s, 0, x>>[1] = s /\ <<s, 0, x>>[2] = 0 OBVIOUS
  <2>5. \A r \in H : <<s, 0, x>> \in Freed(r, c(r)) => r = s /\ <<s, 0, x>> \in A(s) BY <2>1, <2>4
  <2>6. s \in H /\ <<s, 0, x>> \in A(s) => <<s, 0, x>> \in Freed(s, c(s)) BY <2>1
  <2> QED BY <1>1, <2>3, <2>5, <2>6
<1>4. CASE s \notin H \/ c(s) \div WordBits # 0 BY <1>3, <1>4 DEF Set0
<1>5. CASE s \in H /\ c(s) \div WordBits = 0
  <2>1. b \in Nat /\ b * BlockPg \in Nat /\ (b * BlockPg) + BlockPg <= Map[k].pages BY BlockIn
  <2>2. Map[h].phys <= fptr /\ fptr <= Map[h].phys + Map[h].pages BY <1>5 DEF Holder, Of
  <2>3. fptr \in Nat /\ Map[k].phys <= fptr /\ fptr <= Map[k].phys + Map[k].pages BY <2>1, Bounds
  <2>4. h = k BY <2>2, <2>3, OneEntry
  <2>5. fptr - base[s] = b * BlockPg
    <3> DEFINE x == b * BlockPg  a == Map[k].phys
    <3>1. x \in Nat /\ a \in Nat /\ fptr = a + x /\ base[s] = a BY <2>1, <2>4, Bounds DEF Of
    <3> HIDE DEF x, a
    <3>2. fptr - base[s] = x BY <3>1
    <3> QED BY <3>2 DEF x
  <2>6. c(s) = b BY <2>1, <2>5, DivExact
  <2> HIDE DEF c
  <2>10. \A x \in 0 .. WordBits - 1 : <<s, 0, x>> \in bits' <=> <<s, 0, x>> \in bits /\ x \notin Mask(b)
    BY <1>3, <1>5, <2>6
  <2>11. Set0(s)' = Set0(s) \ Mask(b) BY <2>10 DEF Set0
  <2> QED BY <2>4, <2>11
<1> QED BY <1>4, <1>5

-----------------------------------------------------------------------------
(* The end of createRegion() *)

\* Only the region that is being made owns what is in use in its entry.
LEMMA ClaimsAre ==
  ASSUME UnitUse, TypeInv, RegionInv, MakingInv, pc = "size", NEW r \in Region, NEW e \in Claims(r)
  PROVE  r = at /\ e \in InUse(cur)
<1>1. cur \in Idx /\ Of(at, cur) BY DEF MakingInv, Making
<1>2. e \in Reserved /\ e.phys \in Nat /\ e.pages \in Nat BY PmmAssumption DEF Claims, Entry
<1>3. /\ Map[cur].phys <= e.phys /\ e.phys + e.pages <= Map[cur].phys + Map[cur].pages
      /\ base[r] < e.phys /\ e.phys < limit[r]
  BY DEF Claims, Owner
<1>4. base[r] \in Nat /\ limit[r] \in Nat BY DEF TypeInv
<1>5. limit[r] # 0 BY <1>2, <1>3, <1>4
<1>6. PICK h \in Idx : Of(r, h) BY <1>5 DEF RegionInv
<1> DEFINE a == e.phys  y == e.pages  p == Map[cur].phys  g == Map[cur].pages
<1>7. a \in Nat /\ y \in Nat /\ p \in Nat /\ g \in Nat /\ p <= a /\ a + y <= p + g BY <1>1, <1>2, <1>3, Bounds
<1>8. Map[h].phys <= a /\ a <= Map[h].phys + Map[h].pages BY <1>2, <1>3, <1>4, <1>6 DEF Of
<1> HIDE DEF a, y, p, g
<1>9. a <= p + g BY <1>7
<1>10. h = cur BY <1>1, <1>7, <1>8, <1>9, OneEntry DEF p, g
<1>11. r = at BY <1>1, <1>5, <1>6, <1>10 DEF Of, RegionInv, TypeInv
<1>12. Map[cur].phys < e.phys BY <1>3, <1>6, <1>10 DEF Of
<1> QED BY <1>2, <1>3, <1>11, <1>12 DEF InUse

\* Everything in use in the entry is claimed, block by block.
LEMMA UseNumbers ==
  ASSUME UnitUse, NEW k \in Idx, NEW e \in InUse(k), NEW b \in UseBlocks(k, e)
  PROVE  /\ e.phys \in Nat /\ e.pages \in Nat /\ e.pages > 0 /\ e.phys < Map[k].phys + Map[k].pages
         /\ b \in Nat /\ b <= Map[k].phys + Map[k].pages
<1> DEFINE a == e.phys  y == e.pages  p == Map[k].phys  g == Map[k].pages  B == BlockPg
           x == a - p  q == (y + B - 1) \div B  d == x \div B
<1>1. e \in Reserved /\ a \in Nat /\ y \in Nat /\ p \in Nat /\ g \in Nat /\ B \in Nat /\ B > 0
  BY PmmAssumption, Bounds DEF InUse, Entry
<1>2. p < a /\ a + y <= p + g BY DEF InUse
<1>3. PICK j \in 0 .. q - 1 : b = d + j BY DEF UseBlocks
<1>4. x \in Nat /\ y + B - 1 \in Nat BY <1>1, <1>2
<1>5. d \in Nat /\ d * B <= x BY <1>4, DivFacts
<1>6. q \in Nat /\ q * B <= y + B - 1 BY <1>4, DivFacts
<1>7. x + y <= g BY <1>1, <1>2
<1> HIDE DEF a, y, p, g, B, d, q, x
<1>8. d <= x
  <2>1. d <= d * B /\ d * B \in Nat BY <1>1, <1>5
  <2> QED BY <1>4, <1>5, <2>1
<1>9. q <= y
  <2>1. SUFFICES ASSUME y + 1 <= q PROVE FALSE BY <1>1, <1>6
  <2>2. (y + 1) * B <= q * B BY <1>1, <1>6, <2>1
  <2>3. (y + 1) * B = (y * B) + B /\ y <= y * B BY <1>1
  <2>4. q * B \in Nat /\ y * B \in Nat BY <1>1, <1>6
  <2> QED BY <1>1, <1>6, <2>2, <2>3, <2>4
<1>10. y > 0 /\ b \in Nat /\ b <= p + g BY <1>1, <1>3, <1>4, <1>5, <1>6, <1>7, <1>8, <1>9
<1>11. a < p + g BY <1>1, <1>2, <1>10
<1> QED BY <1>1, <1>10, <1>11 DEF a, y, p, g

LEMMA UseClaimed ==
  ASSUME UnitUse, TypeInv, RegionInv, MakingInv, pc = "size", NEW e \in InUse(cur), UseBlocks(cur, e) # {}
  PROVE  e \in Claims(at)
<1>1. cur \in Idx /\ Of(at, cur) /\ at < RegionCount BY DEF MakingInv, Making
<1>2. PICK b \in UseBlocks(cur, e) : TRUE OBVIOUS
<1>3. e.phys \in Nat /\ e.phys < Map[cur].phys + Map[cur].pages BY <1>1, <1>2, UseNumbers
<1>4. e \in Reserved /\ Map[cur].phys < e.phys /\ e.phys + e.pages <= Map[cur].phys + Map[cur].pages BY DEF InUse
<1>5. base[at] < e.phys /\ e.phys < limit[at] BY <1>1, <1>3, <1>4 DEF Of
<1>6. at \in 0 .. RegionCount - 1
  <2>1. at \in Nat BY Bounds DEF TypeInv, Region
  <2>2. RegionCount \in Nat
    <3>1. IsFiniteSet(Idx) BY IdxFinite
    <3>2. IsFiniteSet({k \in Idx : Map[k].pages >= BlockPg}) BY <3>1, FS_Subset
    <3> QED BY <3>2, FS_CardinalityType DEF RegionCount
  <2> QED BY <1>1, <2>1, <2>2
<1>7. ASSUME NEW j \in 0 .. at - 1, base[j] < e.phys, e.phys < limit[j] PROVE FALSE
  <2>1. j \in Region /\ j # at BY Bounds DEF TypeInv, Region
  <2>2. base[j] \in Nat /\ limit[j] \in Nat /\ limit[j] # 0 BY <1>3, <1>7, <2>1 DEF TypeInv
  <2>3. PICK h \in Idx : Of(j, h) BY <2>1, <2>2 DEF RegionInv
  <2>4. Map[h].phys <= e.phys /\ e.phys <= Map[h].phys + Map[h].pages BY <1>3, <1>7, <2>2, <2>3 DEF Of
  <2>5. Map[cur].phys <= e.phys /\ e.phys <= Map[cur].phys + Map[cur].pages BY <1>1, <1>3, <1>4, Bounds
  <2>6. h = cur BY <1>1, <1>3, <2>4, <2>5, OneEntry
  <2> QED BY <1>1, <2>1, <2>2, <2>3, <2>6 DEF Of, RegionInv, TypeInv
<1>8. Owner(e.phys, at) BY <1>5, <1>6, <1>7 DEF Owner
<1>9. Map[cur].phys <= e.phys BY <1>1, <1>3, <1>4, Bounds
<1> QED BY <1>4, <1>8, <1>9 DEF Claims

\* The region is complete: what was in use is marked, and counted.
LEMMA FinishIs ==
  ASSUME UnitUse, TypeInv, RegionInv, MakingInv, FinishRegion
  PROVE  /\ cur \in Idx /\ Of(at, cur) /\ ord > 0
         /\ \A s \in Region \ {at} : Set0(s)' = Set0(s) /\ used'[<<s, 0>>] = used[<<s, 0>>]
         /\ Set0(at)' = Set0(at) \cup UNION {Mask(b) : b \in {c \in Held(cur) : c < WordBits}}
         /\ Held(cur) \subseteq Nat
         /\ used' \in [Region \X Order -> Nat]
         /\ \E n \in Nat : /\ Cardinality({b % IntBits : b \in {c \in Held(cur) : c < WordBits}}) <= n
                         /\ used'[<<at, 0>>] = used[<<at, 0>>] + n
<1>1. cur \in Idx /\ Of(at, cur) /\ pc = "size" BY DEF MakingInv, Making, FinishRegion
<1>2. ord > 0
  <2>1. ord \in Nat /\ (ord = 0 => blc = Blocks(cur)) BY <1>1, Bounds DEF MakingInv, TypeInv
  <2>2. Blocks(cur) # 0 BY <1>1, BlocksIn
  <2>3. blc = 0 \/ ord = MaxOrder BY DEF FinishRegion
  <2> QED BY <2>1, <2>2, <2>3, Bounds
<1>3. \A r \in Region : \A e \in Claims(r) : r = at /\ e \in InUse(cur) BY <1>1, ClaimsAre
<1>4. \A e \in Reserved : ReservedBlocks(at, e) = UseBlocks(cur, e) BY <1>1 DEF ReservedBlocks, UseBlocks, Of
<1>5. \A e \in InUse(cur) : UseBlocks(cur, e) # {} => e \in Claims(at) BY <1>1, UseClaimed
<1>6. at \in Region BY DEF TypeInv
<1>7. Held(cur) \subseteq Nat
  <2>1. \A e \in InUse(cur) : UseBlocks(cur, e) \subseteq Nat BY <1>1, UseNumbers
  <2> QED BY <2>1 DEF Held
<1> DEFINE X(r, b) == Bits(r, Marks(0, b \div WordBits, b % WordBits, ordern'[r]))
           Z == UNION {UNION {UNION {X(r, b) : b \in ReservedBlocks(r, e)} : e \in Claims(r)} : r \in Region}
           A(b) == At(at, 0, <<b \div WordBits, b % WordBits>>)
<1>8. bits' = bits \cup Z BY DEF FinishRegion
<1>9. ordern' \in [Region -> Int]
  <2>1. ordern' = [ordern EXCEPT ![at] = ord] BY DEF FinishRegion
  <2> QED BY <2>1 DEF TypeInv
<1>10. \A e \in Claims(at) : e \in Reserved /\ e \in InUse(cur) /\ ReservedBlocks(at, e) = UseBlocks(cur, e)
  BY <1>3, <1>4, <1>6 DEF InUse
<1>11. \A y \in Z : \E b \in Held(cur) : y \in X(at, b)
  <2> HIDE DEF X
  <2> TAKE y \in Z
  <2>1. PICK r \in Region : \E e \in Claims(r) : \E b \in ReservedBlocks(r, e) : y \in X(r, b) OBVIOUS
  <2>2. PICK e \in Claims(r) : \E b \in ReservedBlocks(r, e) : y \in X(r, b) BY <2>1
  <2>3. PICK b \in ReservedBlocks(r, e) : y \in X(r, b) BY <2>2
  <2>4. r = at BY <1>3
  <2>5. b \in Held(cur) BY <1>10, <2>3, <2>4 DEF Held
  <2> QED BY <2>3, <2>4, <2>5
<1>12. \A b \in Held(cur) : \E e \in Claims(at) : b \in ReservedBlocks(at, e)
  <2> TAKE b \in Held(cur)
  <2>1. PICK e \in InUse(cur) : b \in UseBlocks(cur, e) BY DEF Held
  <2>2. e \in Claims(at) BY <1>5, <2>1
  <2> QED BY <1>10, <2>1, <2>2
<1>13. \A b \in Held(cur) : X(at, b) \subseteq Z
  <2> HIDE DEF X
  <2> QED BY <1>6, <1>12
<1>14. \A b \in Nat : b \div WordBits \in Nat /\ b % WordBits \in Nat
                       /\ (b \div WordBits = 0 => b < WordBits /\ b % WordBits = b)
  <2>1. WordBits \in Nat /\ WordBits > 0 BY Bounds
  <2>2. \A b \in Nat : b \div WordBits \in Nat /\ b % WordBits \in 0 .. WordBits - 1
                       /\ b = (WordBits * (b \div WordBits)) + (b % WordBits) BY <2>1
  <2> QED BY <2>1, <2>2
<1>15. ASSUME NEW b \in Held(cur)
       PROVE  A(b) \subseteq X(at, b) /\ \A y \in X(at, b) : y[2] = 0 => y \in A(b)
  <2>1. b \div WordBits \in Int /\ b % WordBits \in Int /\ ordern'[at] \in Int
    <3>1. b \div WordBits \in Nat /\ b % WordBits \in Nat BY <1>7, <1>14
    <3> QED BY <1>6, <1>9, <3>1
  <2> QED BY <2>1, MarksZero
<1>16. ASSUME NEW b \in Held(cur), NEW s, NEW x \in 0 .. WordBits - 1
       PROVE  <<s, 0, x>> \in A(b) <=> s = at /\ b < WordBits /\ x \in Mask(b)
  <2>1. b \in Nat /\ b \div WordBits \in Nat /\ b % WordBits \in Nat BY <1>7, <1>14
  <2>2. <<s, 0, x>> \in A(b) <=> s = at /\ b \div WordBits = 0 /\ x \in Mask(b % WordBits)
    <3> DEFINE i == b \div WordBits  c == b % WordBits
    <3>1. i \in Int /\ c \in Int /\ A(b) = At(at, 0, <<i, c>>) BY <2>1
    <3> HIDE DEF i, c, A
    <3>2. <<s, 0, x>> \in At(at, 0, <<i, c>>) <=> s = at /\ i = 0 /\ x \in Mask(c)
      BY <3>1, <1>16, AtZero, ZenonT(30)
    <3>3. <<s, 0, x>> \in A(b) <=> s = at /\ i = 0 /\ x \in Mask(c) BY <3>1, <3>2
    <3> QED BY <3>3 DEF i, c
  <2>3. b < WordBits => b \div WordBits = 0 /\ b % WordBits = b BY <2>1, SmallDiv
  <2> QED BY <1>14, <2>1, <2>2, <2>3
<1> HIDE DEF X, Z, A
<1>17. ASSUME NEW s, NEW x \in 0 .. WordBits - 1
       PROVE  <<s, 0, x>> \in bits' <=>
                <<s, 0, x>> \in bits \/ (s = at /\ \E b \in Held(cur) : b < WordBits /\ x \in Mask(b))
  <2> DEFINE y == <<s, 0, x>>
  <2>1. y[2] = 0 OBVIOUS
  <2>2. \A b \in Held(cur) : y \in A(b) <=> s = at /\ b < WordBits /\ x \in Mask(b) BY <1>16
  <2> HIDE DEF y
  <2>3. y \in Z <=> \E b \in Held(cur) : y \in A(b) BY <1>11, <1>13, <1>15, <2>1
  <2>4. y \in bits' <=> y \in bits \/ (s = at /\ \E b \in Held(cur) : b < WordBits /\ x \in Mask(b))
    BY <1>8, <2>2, <2>3
  <2> QED BY <2>4 DEF y
<1>18. \A s \in Region \ {at} : Set0(s)' = Set0(s) BY <1>17 DEF Set0
<1>19. Set0(at)' = Set0(at) \cup UNION {Mask(b) : b \in {c \in Held(cur) : c < WordBits}}
  <2>2. \A x \in 0 .. WordBits - 1 : <<at, 0, x>> \in bits' <=>
          <<at, 0, x>> \in bits \/ \E b \in Held(cur) : b < WordBits /\ x \in Mask(b)
    BY <1>17
  <2>3. \A b \in Nat : Mask(b) \subseteq 0 .. WordBits - 1 BY MaskIs
  <2>4. at' = at BY DEF FinishRegion, boot
  <2> QED BY <1>7, <2>2, <2>3, <2>4 DEF Set0
<1> DEFINE K(r) == {c \in Claims(r) \X (0 .. limit[r]) : c[2] \in ReservedBlocks(r, c[1])}
<1>20. used' = [x \in Region \X Order |-> used[x] + UsedBy(0, x[2], ordern'[x[1]]) * Cardinality(K(x[1]))]
  BY DEF FinishRegion
<1>21. \A r \in Region : IsFiniteSet(K(r)) /\ Cardinality(K(r)) \in Nat
  <2> TAKE r \in Region
  <2>1. IsFiniteSet(Claims(r))
    <3>1. Claims(r) \subseteq Reserved BY DEF Claims
    <3> QED BY <3>1, FS_Subset DEF UnitUse
  <2>2. limit[r] \in Nat BY DEF TypeInv
  <2>3. IsFiniteSet(0 .. limit[r]) BY <2>2, FS_Interval
  <2>4. IsFiniteSet(Claims(r) \X (0 .. limit[r])) BY <2>1, <2>3, FS_Product
  <2>5. IsFiniteSet(K(r)) BY <2>4, FS_Subset
  <2> QED BY <2>5, FS_CardinalityType
<1>22. \A s \in Region \ {at} : Cardinality(K(s)) = 0
  <2> TAKE s \in Region \ {at}
  <2>1. Claims(s) = {} BY <1>3
  <2>2. K(s) = {} BY <2>1
  <2> QED BY <2>2, FS_EmptySet
<1>23. \A o \in Order, m \in Int : UsedBy(0, o, m) \in Nat BY DEF UsedBy
<1>24. \A m \in Int : UsedBy(0, 0, m) = 1 BY DEF UsedBy
<1>25. LET T == {b % IntBits : b \in {c \in Held(cur) : c < WordBits}}
       IN  Cardinality(T) <= Cardinality(K(at))
  <2> DEFINE T == {b % IntBits : b \in {c \in Held(cur) : c < WordBits}}
             f == [c \in K(at) |-> c[2] % IntBits]
             R == {f[c] : c \in K(at)}
  <2>1. \A b \in Held(cur) : \E c \in K(at) : c[2] = b
    <3> TAKE b \in Held(cur)
    <3>1. PICK e \in Claims(at) : b \in ReservedBlocks(at, e) BY <1>12
    <3>2. e \in InUse(cur) /\ b \in UseBlocks(cur, e) BY <1>10, <3>1
    <3>3. b \in Nat /\ b <= limit[at] BY <1>1, <3>2, UseNumbers DEF Of
    <3>4. limit[at] \in Nat BY <1>6 DEF TypeInv
    <3>5. b \in 0 .. limit[at] BY <3>3, <3>4
    <3>6. <<e, b>> \in K(at) BY <3>1, <3>5
    <3> QED BY <3>6
  <2>2. IsFiniteSet(K(at)) BY <1>6, <1>21
  <2> HIDE DEF K
  <2>3. T \subseteq R BY <2>1
  <2>4. f \in [K(at) -> R] OBVIOUS
  <2>5. IsFiniteSet(R) /\ Cardinality(R) <= Cardinality(K(at))
    <3>1. f \in Surjection(K(at), R) BY <2>4 DEF Surjection
    <3> HIDE DEF R, f
    <3> QED BY <2>2, <3>1, FS_Surjection
  <2> HIDE DEF R, f, T
  <2>6. Cardinality(T) <= Cardinality(R) /\ IsFiniteSet(T) BY <2>3, <2>5, FS_Subset
  <2>7. Cardinality(T) \in Nat /\ Cardinality(R) \in Nat /\ Cardinality(K(at)) \in Nat
    BY <2>2, <2>5, <2>6, FS_CardinalityType
  <2>8. Cardinality(T) <= Cardinality(K(at)) BY <2>5, <2>6, <2>7
  <2> QED BY <2>8 DEF T
<1> HIDE DEF K
<1>26. used' \in [Region \X Order -> Nat]
  <2>1. ASSUME NEW x \in Region \X Order
        PROVE  used[x] + UsedBy(0, x[2], ordern'[x[1]]) * Cardinality(K(x[1])) \in Nat
    <3>1. x[1] \in Region /\ x[2] \in Order /\ used[x] \in Nat BY DEF TypeInv
    <3>2. UsedBy(0, x[2], ordern'[x[1]]) \in Nat /\ Cardinality(K(x[1])) \in Nat BY <1>9, <1>21, <1>23, <3>1
    <3> QED BY <3>1, <3>2
  <2> QED BY <1>20, <2>1
<1>27. \A s \in Region \ {at} : used'[<<s, 0>>] = used[<<s, 0>>]
  <2> TAKE s \in Region \ {at}
  <2>1. <<s, 0>> \in Region \X Order BY Bounds
  <2>2. used'[<<s, 0>>] = used[<<s, 0>>] + UsedBy(0, 0, ordern'[s]) * Cardinality(K(s)) BY <1>20, <2>1
  <2>3. used[<<s, 0>>] \in Nat BY <2>1 DEF TypeInv
  <2>4. UsedBy(0, 0, ordern'[s]) = 1 BY <1>9, <1>24
  <2> QED BY <1>22, <2>2, <2>3, <2>4
<1>28. used'[<<at, 0>>] = used[<<at, 0>>] + Cardinality(K(at)) /\ Cardinality(K(at)) \in Nat
  <2>1. <<at, 0>> \in Region \X Order BY <1>6, Bounds
  <2>2. used'[<<at, 0>>] = used[<<at, 0>>] + UsedBy(0, 0, ordern'[at]) * Cardinality(K(at)) BY <1>20, <2>1
  <2>3. used[<<at, 0>>] \in Nat BY <2>1 DEF TypeInv
  <2>4. UsedBy(0, 0, ordern'[at]) = 1 BY <1>6, <1>9, <1>24
  <2>5. Cardinality(K(at)) \in Nat BY <1>6, <1>21
  <2> QED BY <2>2, <2>3, <2>4, <2>5
<1> QED BY <1>1, <1>2, <1>7, <1>18, <1>19, <1>25, <1>26, <1>27, <1>28

-----------------------------------------------------------------------------
(* Every step keeps the invariant *)

\* An entry's region ends behind page 0.
LEMMA OfLimit == ASSUME UnitUse, NEW k \in Idx PROVE Map[k].phys + Map[k].pages \in Nat \ {0}
<1> DEFINE a == Map[k].phys  g == Map[k].pages  q == g \div BlockPg
<1>1. a \in Nat /\ g \in Nat BY Bounds
<1>2. q \in Nat /\ q >= 2 BY <1>1, DivFacts DEF UnitUse
<1>3. q * BlockPg <= g BY <1>1, DivFacts
<1> HIDE DEF a, g, q
<1>4. q * BlockPg > 0 BY <1>2, Bounds
<1>5. g > 0
  <2> DEFINE z == q * BlockPg
  <2>1. z \in Int /\ z > 0 /\ z <= g BY <1>2, <1>3, <1>4, Bounds
  <2> HIDE DEF z
  <2> QED BY <1>1, <2>1
<1>6. a + g \in Nat \ {0} BY <1>1, <1>5
<1> QED BY <1>6 DEF a, g

LEMMA BeforeIn == ASSUME NEW k \in Idx PROVE Before(k) \in Nat /\ Before(k) <= Len(Map)
<1> DEFINE S == {j \in Idx \ {first} : j < k}
<1>1. IsFiniteSet(Idx) /\ Cardinality(Idx) = Len(Map) BY IdxFinite
<1>2. S \subseteq Idx OBVIOUS
<1> HIDE DEF S
<1>3. IsFiniteSet(S) /\ Cardinality(S) <= Cardinality(Idx) BY <1>1, <1>2, FS_Subset
<1>4. Cardinality(S) \in Nat BY <1>3, FS_CardinalityType
<1> QED BY <1>1, <1>3, <1>4 DEF Before, S

\* What a region without a change keeps.
LEMMA CompleteSame ==
  ASSUME NEW r, NEW k, Complete(r, k), Set0(r)' = Set0(r),
         entryn'[<<r, 0>>] = entryn[<<r, 0>>], used'[<<r, 0>>] = used[<<r, 0>>]
  PROVE  Complete(r, k)'
BY DEF Complete, Counted, Serves, Taken

\* Marks that are counted.
LEMMA CountedAdd ==
  ASSUME NEW r, NEW k \in Idx, Counted(r, k), NEW H \in SUBSET Nat, NEW n \in Nat,
         Set0(r)' = Set0(r) \cup UNION {Mask(c) : c \in H}, entryn'[<<r, 0>>] = entryn[<<r, 0>>],
         Cardinality({c % IntBits : c \in H}) <= n,
         used[<<r, 0>>] \in Nat, used'[<<r, 0>>] = used[<<r, 0>>] + n
  PROVE  Counted(r, k)' /\ Taken(r)' = Taken(r) \cup {c % IntBits : c \in H}
<1> DEFINE S == Set0(r)  V == Set0(r)'  T == {c % IntBits : c \in H}  U == Usable(k)
<1>1. Whole(S) /\ Cardinality(Taken(r) \cap U) <= used[<<r, 0>>] /\ entryn[<<r, 0>>] = Blocks(k) BY DEF Counted
<1>2. Taken(r) = Ints(S) /\ Taken(r)' = Ints(V) BY DEF Taken
<1>3. Whole(V) /\ Ints(V) = Ints(S) \cup T
  <2>1. V = S \cup UNION {Mask(c) : c \in H} OBVIOUS
  <2> HIDE DEF S, V
  <2> QED BY <1>1, <2>1, IntsAdd
<1>4. T \subseteq 0 .. IntBits - 1 BY MaskIs
<1>5. U \subseteq 0 .. IntBits - 1 BY DEF Usable
<1> DEFINE A == Taken(r) \cap U  B == (Taken(r) \cup T) \cap U
<1>6. A \subseteq 0 .. IntBits - 1 /\ B \subseteq A \cup T BY <1>5
<1>7. Cardinality(T) <= n OBVIOUS
<1> HIDE DEF A, T
<1>8. IsFiniteSet(A) /\ IsFiniteSet(T) BY <1>4, <1>6, FiniteInts, FS_Subset
<1>9. IsFiniteSet(A \cup T) /\ Cardinality(A \cup T) = Cardinality(A) + Cardinality(T) - Cardinality(A \cap T)
  BY <1>8, FS_Union
<1>10. IsFiniteSet(A \cap T)
  <2>1. A \cap T \subseteq A OBVIOUS
  <2> QED BY <1>8, <2>1, FS_Subset
<1>11. IsFiniteSet(B) /\ Cardinality(B) <= Cardinality(A \cup T)
  <2> HIDE DEF B
  <2> QED BY <1>6, <1>9, FS_Subset
<1>12. Cardinality(B) <= used'[<<r, 0>>]
  <2> DEFINE a == Cardinality(A)  t == Cardinality(T)  i == Cardinality(A \cap T)  b == Cardinality(B)
             w == Cardinality(A \cup T)  u == used[<<r, 0>>]
  <2>1. a \in Nat /\ t \in Nat /\ i \in Nat /\ b \in Nat /\ w \in Nat BY <1>8, <1>9, <1>10, <1>11, FS_CardinalityType
  <2>2. w = a + t - i /\ b <= w /\ t <= n /\ a <= u /\ u \in Nat BY <1>1, <1>7, <1>9, <1>11 DEF A
  <2> HIDE DEF a, t, i, b, w, u
  <2>3. b <= u + n BY <2>1, <2>2
  <2> QED BY <2>3 DEF b, u
<1>13. Taken(r)' = Taken(r) \cup T BY <1>2, <1>3
<1> HIDE DEF U
<1>14. Cardinality(Taken(r)' \cap U) <= used'[<<r, 0>>] BY <1>12, <1>13
<1>15. entryn'[<<r, 0>>] = Blocks(k) BY <1>1
<1> QED BY <1>3, <1>13, <1>14, <1>15 DEF Counted, T, U, Usable, Blocks

LEMMA CompleteAdd ==
  ASSUME NEW r, NEW k \in Idx, Complete(r, k), NEW H \in SUBSET Nat, NEW n \in Nat,
         Set0(r)' = Set0(r) \cup UNION {Mask(c) : c \in H}, entryn'[<<r, 0>>] = entryn[<<r, 0>>],
         Cardinality({c % IntBits : c \in H}) <= n,
         used[<<r, 0>>] \in Nat, used'[<<r, 0>>] = used[<<r, 0>>] + n
  PROVE  Complete(r, k)'
<1>1. Counted(r, k)' /\ Taken(r) \subseteq Taken(r)'
  <2>1. Counted(r, k) BY DEF Complete
  <2>2. Counted(r, k)' /\ Taken(r)' = Taken(r) \cup {c % IntBits : c \in H} BY <2>1, CountedAdd
  <2> QED BY <2>2
<1>2. Serves(r)' => Serves(r) BY Bounds DEF Serves
<1>3. Serves(r)' => Held(k) \cap Usable(k) \subseteq Taken(r)' BY <1>1, <1>2 DEF Complete
<1> QED BY <1>1, <1>3 DEF Complete, Usable, Held, Blocks, InUse, UseBlocks

\* A unit stays one when its region has no fewer marks and no smaller count.
LEMMA BlockKept ==
  ASSUME NEW x, NEW h \in Idx, NEW b \in Nat, IsBlock(x, h, b), Given(x[1], h, b)',
         \A s \in Region : Of(s, h)' => Of(s, h) /\ (Serves(s)' => Serves(s)) /\ Taken(s) \subseteq Taken(s)'
  PROVE  IsBlock(x, h, b)'
<1>1. \A s \in Region : Of(s, h)' /\ Serves(s)' =>
        b \in Taken(s)' /\ b \in Usable(h) \ Held(h) /\ x = <<x[1], 0, 1>>
  BY DEF IsBlock
<1> QED BY <1>1 DEF IsBlock, Usable, Held, Blocks, InUse, UseBlocks

LEMMA LiveSame ==
  ASSUME LiveInv, pc' = pc \/ fleft = 0, live' = live, fptr' = fptr, fleft' = fleft, used' = used, cur' = cur,
         \A r, k : Of(r, k)' <=> Of(r, k), \A k : Started(k)' <=> Started(k), Making' <=> Making,
         \A r : Taken(r)' = Taken(r)
  PROVE  LiveInv'
<1>1. \A p, k, b : Given(p, k, b) => Given(p, k, b)' BY DEF Given, Block, Blocks
<1>2. \A r : Serves(r)' <=> Serves(r) BY DEF Serves
<1>3. ASSUME NEW x \in live, x[2] = 0 PROVE \E h \in Idx, b \in Nat : IsBlock(x, h, b)'
  <2>1. PICK h \in Idx, b \in Nat : IsBlock(x, h, b) BY <1>3 DEF LiveInv
  <2>2. Given(x[1], h, b)' BY <1>1, <2>1 DEF IsBlock
  <2>3. IsBlock(x, h, b)' BY <1>2, <2>1, <2>2, BlockKept
  <2> QED BY <2>3
<1>4. ASSUME fleft # 0 PROVE pc = "run" /\ fleft = BlockPg /\ \E k \in Idx, b \in Nat : IsFreed(fptr, k, b)'
  <2>1. PICK k \in Idx, b \in Nat : IsFreed(fptr, k, b) BY <1>4 DEF LiveInv
  <2>2. Given(fptr, k, b)' BY <1>1, <2>1 DEF IsFreed, Given
  <2>3. IsFreed(fptr, k, b)' BY <1>2, <2>1, <2>2 DEF IsFreed, Usable, Held, Blocks, InUse, UseBlocks
  <2> QED BY <1>4, <2>3 DEF LiveInv
<1> QED BY <1>3, <1>4 DEF LiveInv

\* What is behind a bitmap is not of its first word.
LEMMA NotFirst ==
  ASSUME NEW r, NEW o, NEW n \in Nat, NEW junk \in Behind, NEW s, NEW x \in 0 .. WordBits - 1
  PROVE  <<s, 0, x>> \notin Unallocated(r, o, n, junk)
<1> SUFFICES ASSUME <<s, 0, x>> \in Unallocated(r, o, n, junk) PROVE FALSE OBVIOUS
<1> DEFINE q == n \div WordBits
<1>1. n > WordBits /\ \E b \in junk : x = (q * WordBits) + b BY DEF Unallocated
<1>2. PICK b \in junk : x = (q * WordBits) + b BY <1>1
<1>3. b \in Nat BY PmmAssumption
<1>4. WordBits \in Nat /\ WordBits > 0 BY Bounds
<1>5. q \in Nat /\ n = (WordBits * q) + (n % WordBits) /\ n % WordBits \in 0 .. WordBits - 1 BY <1>4
<1> HIDE DEF q
<1>6. q # 0 BY <1>1, <1>4, <1>5
<1>7. q * WordBits >= WordBits /\ q * WordBits \in Nat BY <1>4, <1>5, <1>6
<1> DEFINE z == q * WordBits
<1>8. z >= WordBits /\ z \in Nat /\ x = z + b BY <1>2, <1>7
<1> HIDE DEF z
<1> QED BY <1>3, <1>4, <1>8

LEMMA InitInv == ASSUME UnitUse, Init PROVE PmmInv
<1>1. TypeInv BY Bounds DEF Init, TypeInv, Region
<1>2. \A r \in Region : limit[r] = 0 BY DEF Init
<1>3. RegionInv BY <1>2 DEF Init, RegionInv
<1>4. MakingInv BY DEF Init, MakingInv, Making
<1>5. CompleteInv BY <1>2, OfLimit DEF CompleteInv, Of
<1>6. LiveInv BY DEF Init, LiveInv
<1> QED BY <1>1, <1>3, <1>4, <1>5, <1>6 DEF PmmInv

\* A new region: its entry had none, so nothing that is in use is of it.
LEMMA StartInv ==
  ASSUME UnitUse, PmmInv, pc \in {"boot1", "boot"}, NEW r \in Region, NEW k \in Idx, StartRegion(r, k), ~ Started(k),
         Started(k)', \A h \in Idx : Started(h) => Started(h)', first' \in 0 .. Len(Map), rn' \in Nat,
         UNCHANGED <<ordern, orders, live, lock, free>>
  PROVE  PmmInv'
<1> USE DEF PmmInv
<1>1. /\ base' = [base EXCEPT ![r] = Map[k].phys] /\ limit' = [limit EXCEPT ![r] = Map[k].phys + Map[k].pages]
      /\ at' = r /\ cur' = k /\ ord' = 0 /\ blc' = Blocks(k)
      /\ pc' = IF r < RegionCount THEN "size" ELSE "wild"
  BY DEF StartRegion, Blocks
<1>2. /\ entryn' = entryn /\ used' = used /\ have' = have /\ bits' = bits /\ live' = live
      /\ fptr' = fptr /\ fleft' = fleft /\ ordern' = ordern
  BY DEF orders, free
<1>3. Map[k].phys \in Nat /\ Map[k].phys + Map[k].pages \in Nat \ {0} BY OfLimit, Bounds
<1>4. /\ base'[r] = Map[k].phys /\ limit'[r] = Map[k].phys + Map[k].pages
      /\ \A s \in Region \ {r} : base'[s] = base[s] /\ limit'[s] = limit[s]
  BY <1>1 DEF TypeInv
<1>5. TypeInv'
  <2>1. Blocks(k) \in Nat BY BlocksIn, Bounds
  <2>2. 0 \in 0 .. MaxOrder BY Bounds
  <2> QED BY <1>1, <1>2, <1>3, <2>1, <2>2 DEF TypeInv
<1>6. Of(r, k)' BY <1>4 DEF Of
<1>7. \A s \in Region \ {r} : \A h \in Idx : Of(s, h)' <=> Of(s, h) BY <1>4 DEF Of
<1>8. \A s \in Region : ~ Of(s, k)
  <2> SUFFICES ASSUME NEW s \in Region, Of(s, k) PROVE FALSE OBVIOUS
  <2>1. limit[s] # 0 BY <1>3 DEF Of
  <2>2. PICK h \in Idx : Of(s, h) /\ Started(h) BY <2>1 DEF RegionInv
  <2>3. h = k BY <2>2, OneOf
  <2> QED BY <2>2, <2>3
<1>9. \A h \in Idx : Of(r, h)' => h = k
  <2> TAKE h \in Idx
  <2> HAVE Of(r, h)'
  <2> DEFINE p == Map[k].phys
  <2>1. p = Map[h].phys BY <1>4 DEF Of
  <2>2. p \in Nat /\ Map[k].pages \in Nat /\ Map[h].pages \in Nat BY Bounds
  <2>3. p <= p + Map[k].pages /\ p <= p + Map[h].pages /\ p <= p BY <2>2, SMTT(30)
  <2> QED BY <2>1, <2>2, <2>3, OneEntry
<1>10. RegionInv'
  <2>1. \A s \in Region : limit'[s] # 0 => \E h \in Idx : Of(s, h)' /\ Started(h)'
    BY <1>4, <1>6, <1>7 DEF RegionInv
  <2>2. \A s \in Region : <<s, 0>> \in have' => limit'[s] # 0 BY <1>2, <1>3, <1>4 DEF RegionInv
  <2>3. \A s \in Region \ {r} : ~ (base'[s] = base'[r] /\ limit'[s] = limit'[r]) BY <1>4, <1>8 DEF Of
  <2>4. \A s, q \in Region : limit'[s] # 0 /\ base'[s] = base'[q] /\ limit'[s] = limit'[q] => s = q
    <3> TAKE s, q \in Region
    <3>1. CASE s = r BY <2>3, <3>1
    <3>2. CASE q = r BY <2>3, <3>2
    <3>3. CASE s # r /\ q # r BY <1>4, <3>3 DEF RegionInv
    <3> QED BY <3>1, <3>2, <3>3
  <2>5. pc' # "boot1" BY <1>1
  <2> QED BY <2>1, <2>2, <2>4, <2>5 DEF RegionInv
<1>11. MakingInv'
  <2>1. pc' \in {"size", "wild"} /\ (pc' = "size" => r < RegionCount) BY <1>1
  <2>2. (cur \in Idx /\ Of(at, cur) /\ Started(cur))' BY <1>1, <1>4 DEF Of, Started, Before
  <2> QED BY <1>1, <2>1, <2>2 DEF MakingInv
<1>12. \A s \in Region : Set0(s)' = Set0(s) BY <1>2 DEF Set0
<1>13. CompleteInv'
  <2> SUFFICES ASSUME NEW s \in Region, NEW h \in Idx, Of(s, h)', ~ (Making /\ s = at)' PROVE Complete(s, h)'
    BY DEF CompleteInv
  <2>1. s # r BY <1>1 DEF Making
  <2>2. ~ Making BY DEF Making
  <2>3. Complete(s, h) BY <1>7, <2>1, <2>2 DEF CompleteInv
  <2> QED BY <1>2, <1>12, <2>3, CompleteSame
<1>14. LiveInv'
  <2>1. fleft = 0 BY DEF LiveInv, RegionInv
  <2>2. ASSUME NEW x \in live, x[2] = 0 PROVE \E h \in Idx, b \in Nat : IsBlock(x, h, b)'
    <3>1. PICK h \in Idx, b \in Nat : IsBlock(x, h, b) BY <2>2 DEF LiveInv
    <3>2. Given(x[1], h, b) /\ h # k BY <3>1 DEF IsBlock, Given
    <3>3. Given(x[1], h, b)' BY <1>1, <3>2 DEF Given, Block, Blocks
    <3>4. \A s \in Region : Of(s, h)' => Of(s, h) /\ (Serves(s)' => Serves(s)) /\ Taken(s) \subseteq Taken(s)'
      BY <1>2, <1>7, <1>9, <1>12, <3>2 DEF Taken, Serves
    <3>5. IsBlock(x, h, b)' BY <3>1, <3>3, <3>4, BlockKept
    <3> QED BY <3>5
  <2> QED BY <1>2, <2>1, <2>2 DEF LiveInv
<1> QED BY <1>5, <1>10, <1>11, <1>13, <1>14

LEMMA BootFirstInv == ASSUME UnitUse, PmmInv, BootFirst PROVE PmmInv'
<1> USE DEF PmmInv
<1>1. /\ first = 0 /\ rn = 0 /\ pc = "boot1" /\ UNCHANGED <<ordern, orders, rn, live, lock, free>>
  BY DEF BootFirst, RegionInv
<1>2. CASE pc' = "boot" /\ UNCHANGED <<table, at, cur, ord, blc, first>>
  <2>1. /\ rtype' = rtype /\ base' = base /\ limit' = limit /\ at' = at /\ cur' = cur /\ ord' = ord /\ blc' = blc
        /\ first' = first /\ entryn' = entryn /\ used' = used /\ have' = have /\ bits' = bits /\ live' = live
        /\ fptr' = fptr /\ fleft' = fleft /\ ordern' = ordern /\ rn' = rn
    BY <1>1, <1>2 DEF table, orders, free
  <2>2. live = {} /\ fleft = 0 /\ have = {} /\ blc = 0 /\ \A r \in Region : limit[r] = 0 BY <1>1 DEF RegionInv
  <2>3. TypeInv' BY <1>2, <2>1 DEF TypeInv
  <2>4. RegionInv' BY <1>2, <2>1, <2>2 DEF RegionInv
  <2>5. MakingInv' BY <1>2, <2>1, <2>2 DEF MakingInv, Making, Begun
  <2>6. CompleteInv' BY <2>1, <2>2, OfLimit DEF CompleteInv, Of
  <2>7. LiveInv' BY <2>1, <2>2 DEF LiveInv
  <2> QED BY <2>3, <2>4, <2>5, <2>6, <2>7
<1>3. CASE \E k \in Idx : StartRegion(k, k) /\ first' = k
  <2>1. PICK k \in Idx : StartRegion(k, k) /\ first' = k BY <1>3
  <2>2. k \in Region /\ k # 0 /\ first' \in 0 .. Len(Map) BY <2>1, Bounds DEF Region
  <2>3. \A h \in Idx : ~ Started(h)
    <3> TAKE h \in Idx
    <3>1. h # 0 /\ Before(h) \in Nat BY Bounds, BeforeIn
    <3> QED BY <1>1, <3>1 DEF Started
  <2>4. Started(k)' BY <2>1 DEF Started
  <2>5. rn' \in Nat BY <1>1
  <2> QED BY <1>1, <2>1, <2>2, <2>3, <2>4, <2>5, StartInv
<1> QED BY <1>2, <1>3 DEF BootFirst

LEMMA BootNextInv == ASSUME UnitUse, PmmInv, BootNext PROVE PmmInv'
<1> USE DEF PmmInv
<1>1. pc = "boot" /\ UNCHANGED <<ordern, orders, first, live, lock, free>> BY DEF BootNext
<1>2. CASE pc' = "run" /\ UNCHANGED <<table, at, cur, ord, blc, rn>>
  <2>1. /\ rtype' = rtype /\ base' = base /\ limit' = limit /\ at' = at /\ cur' = cur /\ ord' = ord /\ blc' = blc
        /\ first' = first /\ entryn' = entryn /\ used' = used /\ have' = have /\ bits' = bits /\ live' = live
        /\ fptr' = fptr /\ fleft' = fleft /\ ordern' = ordern /\ rn' = rn
    BY <1>1, <1>2 DEF table, orders, free
  <2>2. TypeInv' BY <1>2, <2>1 DEF TypeInv
  <2>3. (\A r, k : Of(r, k)' <=> Of(r, k)) /\ (\A k : Started(k)' <=> Started(k)) /\ ~ Making /\ ~ Making'
    BY <1>1, <1>2, <2>1 DEF Of, Started, Before, Making
  <2>4. \A r : Set0(r)' = Set0(r) /\ Taken(r)' = Taken(r) BY <2>1 DEF Set0, Taken
  <2>5. RegionInv' BY <1>2, <2>1, <2>3 DEF RegionInv
  <2>6. MakingInv' BY <1>1, <1>2, <2>1 DEF MakingInv, Making, Begun
  <2>7. CompleteInv' BY <2>1, <2>3, <2>4, CompleteSame DEF CompleteInv
  <2>9. fleft = 0 BY <1>1 DEF LiveInv
  <2>8. LiveInv' BY <2>1, <2>3, <2>4, <2>9, LiveSame
  <2> QED BY <2>2, <2>5, <2>6, <2>7, <2>8
<1>3. CASE \E k \in Idx \ {first} : Before(k) = rn /\ StartRegion(rn, k) /\ rn' = rn + 1
  <2>1. PICK k \in Idx \ {first} : Before(k) = rn /\ StartRegion(rn, k) /\ rn' = rn + 1 BY <1>3
  <2>2. rn \in Nat /\ rn <= Len(Map) /\ rn \in Region BY <2>1, BeforeIn, Bounds DEF Region
  <2>3. first' = first /\ \A h \in Idx : Before(h)' = Before(h) /\ Before(h) \in Nat BY <1>1, BeforeIn DEF Before
  <2>4. ~ Started(k) BY <2>1, <2>2 DEF Started
  <2>5. Started(k)' BY <2>1, <2>2, <2>3 DEF Started
  <2>6. \A h \in Idx : Started(h) => Started(h)' BY <2>1, <2>2, <2>3 DEF Started
  <2>7. first' \in 0 .. Len(Map) /\ rn' \in Nat BY <2>1, <2>2, <2>3 DEF TypeInv
  <2>8. PICK r \in Region : r = rn BY <2>2
  <2>9. StartRegion(r, k) BY <2>1, <2>8
  <2> QED BY <1>1, <2>1, <2>4, <2>5, <2>6, <2>7, <2>9, StartInv
<1> QED BY <1>2, <1>3 DEF BootNext, Before

\* A step of createRegion()'s loop changes nothing outside the new region.
LEMMA LoopInv ==
  ASSUME UnitUse, PmmInv, pc \in {"size", "kmalloc"}, pc' \in {"size", "kmalloc"},
         UNCHANGED <<base, limit, at, cur, first, rn, live, fleft, fptr>>,
         TypeInv', MakingInv', \A r \in Region : <<r, 0>> \in have' => <<r, 0>> \in have \/ r = at,
         \A r \in Region \ {at} : /\ Set0(r)' = Set0(r)
                                  /\ entryn'[<<r, 0>>] = entryn[<<r, 0>>] /\ used'[<<r, 0>>] = used[<<r, 0>>]
  PROVE  PmmInv'
<1> USE DEF PmmInv
<1>1. (\A r, k : Of(r, k)' <=> Of(r, k)) /\ (\A k : Started(k)' <=> Started(k)) /\ Making /\ Making'
  BY DEF Of, Started, Before, Making
<1>2. cur \in Idx /\ Of(at, cur) /\ at \in Region BY <1>1 DEF MakingInv, TypeInv
<1>3. limit[at] # 0 BY <1>2, OfLimit DEF Of
<1>4. RegionInv' BY <1>1, <1>3 DEF RegionInv
<1>5. CompleteInv'
  <2> SUFFICES ASSUME NEW r \in Region, NEW k \in Idx, Of(r, k), r # at PROVE Complete(r, k)' BY <1>1 DEF CompleteInv
  <2>1. Complete(r, k) BY <1>1 DEF CompleteInv
  <2> QED BY <2>1, CompleteSame
<1>6. LiveInv'
  <2>1. fleft' = 0 BY DEF LiveInv
  <2>2. ASSUME NEW x \in live, x[2] = 0 PROVE \E h \in Idx, b \in Nat : IsBlock(x, h, b)'
    <3>1. PICK h \in Idx, b \in Nat : IsBlock(x, h, b) BY <2>2 DEF LiveInv
    <3>2. Given(x[1], h, b) /\ h # cur BY <1>1, <3>1 DEF IsBlock, Given
    <3>3. Given(x[1], h, b)' BY <1>1, <3>2 DEF Given, Block, Blocks
    <3>4. ASSUME NEW s \in Region, Of(s, h)'
          PROVE  Of(s, h) /\ (Serves(s)' => Serves(s)) /\ Taken(s) \subseteq Taken(s)'
      <4>1. Of(s, h) /\ s # at BY <1>1, <1>2, <3>2, <3>4, OneOf
      <4> QED BY <4>1 DEF Taken, Serves
    <3>5. IsBlock(x, h, b)' BY <3>1, <3>3, <3>4, BlockKept
    <3> QED BY <3>5
  <2> QED BY <2>1, <2>2 DEF LiveInv
<1> QED BY <1>4, <1>5, <1>6

LEMMA SizeOrderInv == ASSUME UnitUse, PmmInv, SizeOrder PROVE PmmInv'
<1> USE DEF PmmInv
<1>1. /\ pc = "size" /\ pc' = "kmalloc" /\ ord < MaxOrder /\ blc > 0
      /\ entryn' = [entryn EXCEPT ![<<at, ord>>] = blc] /\ used' = [used EXCEPT ![<<at, ord>>] = 0]
      /\ base' = base /\ limit' = limit /\ ordern' = ordern /\ have' = have /\ bits' = bits
      /\ at' = at /\ cur' = cur /\ ord' = ord /\ blc' = blc /\ first' = first /\ rn' = rn
      /\ live' = live /\ fptr' = fptr /\ fleft' = fleft
  BY DEF SizeOrder, table, boot, free
<1>2. <<at, ord>> \in Region \X Order /\ blc \in Nat /\ ord \in Nat BY <1>1, Bounds DEF TypeInv, Order
<1>3. TypeInv'
  <2>1. entryn' \in [Region \X Order -> Nat] /\ used' \in [Region \X Order -> Nat] BY <1>1, <1>2 DEF TypeInv
  <2> QED BY <1>1, <2>1 DEF TypeInv
<1>4. \A x \in Region \X Order : x # <<at, ord>> => entryn'[x] = entryn[x] /\ used'[x] = used[x] BY <1>1 DEF TypeInv
<1>5. entryn'[<<at, ord>>] = blc /\ used'[<<at, ord>>] = 0 BY <1>1, <1>2 DEF TypeInv
<1>6. \A r \in Region \ {at} : /\ Set0(r)' = Set0(r)
                               /\ entryn'[<<r, 0>>] = entryn[<<r, 0>>] /\ used'[<<r, 0>>] = used[<<r, 0>>]
  <2> TAKE r \in Region \ {at}
  <2>1. <<r, 0>> \in Region \X Order /\ <<r, 0>> # <<at, ord>> BY Bounds
  <2> QED BY <1>1, <1>4, <2>1 DEF Set0
<1>7. at \in Region /\ Set0(at)' = Set0(at) BY <1>1 DEF Set0, TypeInv
<1>8. cur \in Idx /\ Of(at, cur) /\ Started(cur) /\ at < RegionCount BY <1>1 DEF MakingInv, Making
<1>9. (cur \in Idx /\ Of(at, cur) /\ Started(cur) /\ at < RegionCount)' BY <1>1, <1>8 DEF Of, Started, Before
<1>10. ord = 0 => entryn'[<<at, 0>>] = Blocks(cur) /\ blc = Blocks(cur)
  BY <1>1, <1>5 DEF MakingInv
<1>11. ord > 0 => <<at, 0>> \in have' /\ Counted(at, cur)'
  <2> SUFFICES ASSUME ord > 0 PROVE <<at, 0>> \in have' /\ Counted(at, cur)' OBVIOUS
  <2>1. <<at, 0>> \in Region \X Order /\ <<at, 0>> # <<at, ord>> BY <1>2, <1>7, Bounds
  <2>2. <<at, 0>> \in have /\ Counted(at, cur) BY <1>1 DEF MakingInv
  <2>3. entryn'[<<at, 0>>] = entryn[<<at, 0>>] /\ used'[<<at, 0>>] = used[<<at, 0>>] BY <1>4, <2>1
  <2> QED BY <1>1, <1>7, <2>2, <2>3 DEF Counted, Taken, Blocks, Usable
<1>12. MakingInv' BY <1>1, <1>9, <1>10, <1>11 DEF MakingInv, Making, Blocks, Begun
<1> QED BY <1>1, <1>3, <1>6, <1>12, LoopInv

LEMMA MapOrderInv == ASSUME UnitUse, PmmInv, MapOrder PROVE PmmInv'
<1> USE DEF PmmInv
<1>1. /\ pc = "kmalloc" /\ pc' = "size" /\ have' = have \cup {<<at, ord>>}
      /\ blc' = blc \div 2 /\ ord' = ord + 1
      /\ base' = base /\ limit' = limit /\ ordern' = ordern /\ entryn' = entryn /\ used' = used
      /\ at' = at /\ cur' = cur /\ first' = first /\ rn' = rn
      /\ live' = live /\ fptr' = fptr /\ fleft' = fleft
  BY DEF MapOrder, table, free
<1>2. ord < MaxOrder /\ ord \in Nat /\ at \in Region /\ blc \in Nat BY <1>1, Bounds DEF MakingInv, Begun, TypeInv
<1>3. TypeInv'
  <2>1. <<at, ord>> \in Region \X Order BY <1>2, Bounds DEF Order
  <2>2. blc \div 2 \in Nat /\ ord + 1 \in 0 .. MaxOrder BY <1>2, Bounds
  <2> QED BY <1>1, <2>1, <2>2 DEF TypeInv
<1>4. \A r : \A x \in 0 .. WordBits - 1 : <<r, 0, x>> \in bits' <=> <<r, 0, x>> \in bits /\ ~ (r = at /\ ord = 0)
  <2>1. PICK junk \in Behind :
          bits' = {x \in bits : <<x[1], x[2]>> # <<at, ord>>} \cup Unallocated(at, ord, blc, junk)
    BY DEF MapOrder
  <2>2. \A r : \A x \in 0 .. WordBits - 1 : <<r, 0, x>> \notin Unallocated(at, ord, blc, junk) BY <1>2, NotFirst
  <2> QED BY <2>1, <2>2
<1>5. \A r \in Region \ {at} : Set0(r)' = Set0(r) BY <1>4 DEF Set0
<1>6. Set0(at)' = IF ord = 0 THEN {} ELSE Set0(at) BY <1>1, <1>4 DEF Set0
<1>7. cur \in Idx /\ Of(at, cur) /\ Started(cur) /\ at < RegionCount BY <1>1 DEF MakingInv, Making
<1>8. (cur \in Idx /\ Of(at, cur) /\ Started(cur) /\ at < RegionCount)' BY <1>1, <1>7 DEF Of, Started, Before
<1>9. <<at, 0>> \in have' /\ Counted(at, cur)'
  <2>1. CASE ord = 0
    <3>1. entryn[<<at, 0>>] = Blocks(cur) /\ <<at, 0>> \in have' BY <1>1, <2>1 DEF MakingInv
    <3>2. Set0(at)' = {} /\ Taken(at)' = {} /\ Whole({}) BY <1>6, <2>1 DEF Taken, Ints, Whole
    <3>3. used[<<at, 0>>] \in Nat BY <1>2, Bounds DEF TypeInv
    <3>4. Cardinality({} \cap Usable(cur)) <= used[<<at, 0>>]
      <4>1. {} \cap Usable(cur) = {} OBVIOUS
      <4>2. Cardinality({}) = 0 BY FS_EmptySet
      <4> QED BY <3>3, <4>1, <4>2
    <3> QED BY <1>1, <3>1, <3>2, <3>4 DEF Counted, Blocks, Usable
  <2>2. CASE ord # 0
    <3>1. ord > 0 BY <1>2, <2>2
    <3>2. <<at, 0>> \in have /\ Counted(at, cur) BY <1>1, <3>1 DEF MakingInv
    <3>3. Set0(at)' = Set0(at) BY <1>6, <2>2
    <3> QED BY <1>1, <3>2, <3>3 DEF Counted, Taken, Blocks, Usable
  <2> QED BY <2>1, <2>2
<1>10. ord' # 0 BY <1>1, <1>2
<1>11. MakingInv' BY <1>1, <1>8, <1>9, <1>10 DEF MakingInv, Making
<1>12. \A r \in Region : <<r, 0>> \in have' => <<r, 0>> \in have \/ r = at BY <1>1
<1> QED BY <1>1, <1>3, <1>5, <1>11, <1>12, LoopInv

\* The region is complete, and nothing of it was handed out before.
LEMMA FinishRegionInv == ASSUME UnitUse, PmmInv, FinishRegion PROVE PmmInv'
<1> USE DEF PmmInv
<1>1. /\ pc = "size" /\ pc' = "boot" /\ base' = base /\ limit' = limit /\ entryn' = entryn /\ have' = have
      /\ at' = at /\ cur' = cur /\ ord' = ord /\ blc' = blc /\ first' = first /\ rn' = rn
      /\ live' = live /\ fptr' = fptr /\ fleft' = fleft /\ ordern' = [ordern EXCEPT ![at] = ord]
      /\ (blc = 0 \/ ord = MaxOrder)
  BY DEF FinishRegion, boot, free
<1> DEFINE H == {c \in Held(cur) : c < WordBits}  T == {b % IntBits : b \in H}
<1>2. /\ cur \in Idx /\ Of(at, cur) /\ ord > 0
      /\ \A s \in Region \ {at} : Set0(s)' = Set0(s) /\ used'[<<s, 0>>] = used[<<s, 0>>]
      /\ Set0(at)' = Set0(at) \cup UNION {Mask(b) : b \in H} /\ H \subseteq Nat
      /\ used' \in [Region \X Order -> Nat]
      /\ \E n \in Nat : Cardinality(T) <= n /\ used'[<<at, 0>>] = used[<<at, 0>>] + n
  BY FinishIs
<1>3. TypeInv'
  <2>1. ord \in Int BY Bounds DEF TypeInv
  <2>2. ordern' \in [Region -> Int] BY <1>1, <2>1 DEF TypeInv
  <2> QED BY <1>1, <1>2, <2>2 DEF TypeInv
<1>4. (\A r, k : Of(r, k)' <=> Of(r, k)) /\ (\A k : Started(k)' <=> Started(k)) /\ Making /\ ~ Making'
  BY <1>1 DEF Of, Started, Before, Making
<1>5. RegionInv' BY <1>1, <1>4 DEF RegionInv
<1>6. MakingInv'
  <2>1. ~ Begun' BY <1>1, Bounds DEF Begun, TypeInv
  <2> QED BY <1>1, <2>1 DEF MakingInv, Making
<1>7. CompleteInv'
  <2> SUFFICES ASSUME NEW r \in Region, NEW k \in Idx, Of(r, k) PROVE Complete(r, k)' BY <1>4 DEF CompleteInv
  <2>1. CASE r # at
    <3>1. Complete(r, k) BY <1>4, <2>1 DEF CompleteInv
    <3> QED BY <1>1, <1>2, <2>1, <3>1, CompleteSame
  <2>2. CASE r = at
    <3>1. k = cur BY <1>2, <2>2, OneOf
    <3>2. Set0(r)' = Set0(r) \cup UNION {Mask(b) : b \in H} BY <1>1, <1>2, <2>2 DEF Set0
    <3>3. Counted(r, k) BY <1>1, <1>2, <2>2, <3>1 DEF MakingInv
    <3>4. H \in SUBSET Nat /\ used[<<r, 0>>] \in Nat BY <1>2, Bounds DEF TypeInv
    <3>5. PICK n \in Nat : Cardinality(T) <= n /\ used'[<<r, 0>>] = used[<<r, 0>>] + n BY <1>2, <2>2
    <3>6. entryn'[<<r, 0>>] = entryn[<<r, 0>>] BY <1>1
    <3>7. Counted(r, k)' /\ Taken(r)' = Taken(r) \cup T
      <4> HIDE DEF H
      <4> QED BY <3>2, <3>3, <3>4, <3>5, <3>6, CountedAdd
    <3>8. Held(k) \cap Usable(k) \subseteq T
      <4> SUFFICES ASSUME NEW b \in Held(k), b \in Usable(k) PROVE b \in T OBVIOUS
      <4>1. b \in 0 .. IntBits - 1 BY DEF Usable
      <4>2. b < WordBits /\ b % IntBits = b BY <4>1, MaskIs, Bounds
      <4> QED BY <3>1, <4>2
    <3> HIDE DEF T
    <3>9. Held(k) \cap Usable(k) \subseteq Taken(r)' BY <3>7, <3>8
    <3> QED BY <3>7, <3>9 DEF Complete, Usable, Held, Blocks, InUse, UseBlocks
  <2> QED BY <2>1, <2>2
<1>8. LiveInv'
  <2>1. fleft' = 0 BY <1>1 DEF LiveInv
  <2>2. ASSUME NEW x \in live, x[2] = 0 PROVE \E h \in Idx, b \in Nat : IsBlock(x, h, b)'
    <3>1. PICK h \in Idx, b \in Nat : IsBlock(x, h, b) BY <2>2 DEF LiveInv
    <3>2. Given(x[1], h, b) /\ h # cur BY <1>4, <3>1 DEF IsBlock, Given
    <3>3. Given(x[1], h, b)' BY <1>4, <3>2 DEF Given, Block, Blocks
    <3>4. ASSUME NEW s \in Region, Of(s, h)'
          PROVE  Of(s, h) /\ (Serves(s)' => Serves(s)) /\ Taken(s) \subseteq Taken(s)'
      <4>1. Of(s, h) /\ s # at BY <1>2, <1>4, <3>2, <3>4, OneOf
      <4> QED BY <1>2, <4>1 DEF Taken, Serves
    <3>5. IsBlock(x, h, b)' BY <3>1, <3>3, <3>4, BlockKept
    <3> QED BY <3>5
  <2> QED BY <1>1, <2>1, <2>2 DEF LiveInv
<1> QED BY <1>3, <1>5, <1>6, <1>7, <1>8

\* What an allocation does to the first word of order 0, and to its count.
Marked(s) ==
  \E H \in SUBSET Nat, n \in Nat :
    /\ Set0(s)' = Set0(s) \cup UNION {Mask(c) : c \in H} /\ Cardinality({c % IntBits : c \in H}) <= n
    /\ used'[<<s, 0>>] = used[<<s, 0>>] + n

LEMMA MarkNone ==
  ASSUME NEW s, NEW n \in Nat, Set0(s)' = Set0(s), used'[<<s, 0>>] = used[<<s, 0>>] + n PROVE Marked(s)
<1>1. {} \in SUBSET Nat /\ Set0(s)' = Set0(s) \cup UNION {Mask(c) : c \in {}} OBVIOUS
<1>2. {c % IntBits : c \in {}} = {} OBVIOUS
<1>3. Cardinality({c % IntBits : c \in {}}) <= n BY <1>2, FS_EmptySet
<1> QED BY <1>1, <1>3 DEF Marked

LEMMA MarkOne ==
  ASSUME NEW s, NEW n \in Nat, n >= 1, NEW b \in Nat, Set0(s)' = Set0(s) \cup Mask(b),
         used'[<<s, 0>>] = used[<<s, 0>>] + n
  PROVE  Marked(s)
<1>1. {b} \in SUBSET Nat /\ Set0(s)' = Set0(s) \cup UNION {Mask(c) : c \in {b}} OBVIOUS
<1>2. {c % IntBits : c \in {b}} = {b % IntBits} OBVIOUS
<1>3. Cardinality({c % IntBits : c \in {b}}) <= n BY <1>2, FS_Singleton
<1> QED BY <1>1, <1>3 DEF Marked

LEMMA AllocEffect ==
  ASSUME UnitUse, TypeInv, NEW o \in Order, NEW r \in Region, ~ NoBlock(r, o), AllocRegion(r, o),
         o = 0 => \E k \in Idx : Counted(r, k)
  PROVE  used' \in [Region \X Order -> Nat] /\ \A s \in Region : Marked(s)
<1>1. used' = [x \in Region \X Order |-> IF x[1] = r THEN used[x] + UsedBy(o, x[2], ordern[r]) ELSE used[x]]
  BY DEF AllocRegion
<1>2. \A k \in Order : UsedBy(o, k, ordern[r]) \in Nat BY DEF UsedBy
<1>3. used' \in [Region \X Order -> Nat] BY <1>1, <1>2 DEF TypeInv
<1> DEFINE n == IF o = 0 THEN 1 ELSE 2
<1>4. n \in Nat /\ n >= 1 OBVIOUS
<1>5. UsedBy(o, 0, ordern[r]) = n BY Bounds DEF UsedBy, Order
<1> HIDE DEF n
<1>6. ASSUME NEW s \in Region PROVE used'[<<s, 0>>] = used[<<s, 0>>] + IF s = r THEN n ELSE 0
  <2>1. <<s, 0>> \in Region \X Order BY Bounds
  <2>2. used[<<s, 0>>] \in Nat BY <2>1 DEF TypeInv
  <2> QED BY <1>1, <1>4, <1>5, <2>1, <2>2
<1>7. ASSUME NEW s \in Region PROVE Marked(s)
  <2>1. Set0(s)' = Set0(s) \/ (s = r /\ \E b \in Nat : Set0(s)' = Set0(s) \cup Mask(b))
    <3>1. CASE o = 0
      <4>1. PICK k \in Idx : Counted(r, k) BY <3>1
      <4>2. PICK b \in Block(k) :
              \/ \A q \in Region : Set0(q)' = IF q = r THEN Set0(q) \cup Mask(b) ELSE Set0(q)
              \/ \A q \in Region : Set0(q)' = Set0(q)
        BY <3>1, <4>1, AllocIs
      <4>3. b \in Nat BY BlockIn
      <4> QED BY <4>2, <4>3
    <3>2. CASE o # 0 BY <3>2, AllocAbove
    <3> QED BY <3>1, <3>2
  <2>2. CASE s # r
    <3>1. Set0(s)' = Set0(s) /\ used'[<<s, 0>>] = used[<<s, 0>>] + 0 BY <1>6, <2>1, <2>2
    <3> QED BY <3>1, MarkNone
  <2>3. CASE s = r
    <3>1. used'[<<s, 0>>] = used[<<s, 0>>] + n BY <1>6, <2>3
    <3>2. CASE Set0(s)' = Set0(s) BY <1>4, <3>1, <3>2, MarkNone
    <3>3. CASE \E b \in Nat : Set0(s)' = Set0(s) \cup Mask(b) BY <1>4, <3>1, <3>3, MarkOne
    <3> QED BY <2>1, <3>2, <3>3
  <2> QED BY <2>2, <2>3
<1> QED BY <1>3, <1>7

LEMMA AllocMaking ==
  ASSUME MakingInv, pc \in {"run", "boot", "kmalloc"}, pc' \in {pc, "panic"}, Making' <=> Making,
         \A r, k : Of(r, k)' <=> Of(r, k), \A k : Started(k)' <=> Started(k),
         entryn' = entryn, have' = have, at' = at, cur' = cur, ord' = ord, blc' = blc,
         pc = "kmalloc" /\ ord > 0 => Counted(at, cur)'
  PROVE  MakingInv'
<1>1. Begun' <=> Begun BY DEF Begun
<1>2. Making => Of(at, cur)' /\ Started(cur)'
  <2> SUFFICES ASSUME Making PROVE Of(at, cur)' /\ Started(cur)' OBVIOUS
  <2>1. Of(at, cur) /\ Started(cur) BY DEF MakingInv
  <2>2. PICK r, k : r = at /\ k = cur OBVIOUS
  <2>3. Of(r, k)' /\ Started(k)' BY <2>1, <2>2
  <2> QED BY <2>2, <2>3 DEF Of, Started, Before
<1>3. Making => cur' \in Idx BY DEF MakingInv
<1>4. Blocks(cur)' = Blocks(cur) BY DEF Blocks
<1> QED BY <1>1, <1>2, <1>3, <1>4 DEF MakingInv

\* The block that is handed out was nobody's and not in use at boot.
LEMMA AllocPhysInv == ASSUME UnitUse, PmmInv, AllocPhys PROVE PmmInv'
<1> USE DEF PmmInv
<1>1. /\ base' = base /\ limit' = limit /\ ordern' = ordern /\ entryn' = entryn /\ have' = have
      /\ at' = at /\ cur' = cur /\ ord' = ord /\ blc' = blc /\ first' = first /\ rn' = rn
      /\ fptr' = fptr /\ fleft' = fleft
  BY DEF AllocPhys, table, boot, free
<1>2. pc \in {"run", "boot", "kmalloc"} /\ fleft = 0 BY DEF AllocPhys, Wanted, LiveInv
<1>3. pc' \in {pc, "panic"} BY DEF AllocPhys
<1>4. (\A r, k : Of(r, k)' <=> Of(r, k)) /\ (\A k : Started(k)' <=> Started(k))
  BY <1>1 DEF Of, Started, Before
<1>5. (Making' <=> Making) /\ (Making <=> pc = "kmalloc")
  <2>1. Begun' <=> Begun BY <1>1 DEF Begun
  <2> QED BY <1>2, <1>3, <2>1 DEF Making, MakingInv
<1>6. \A p, k, b : Given(p, k, b) => Given(p, k, b)' BY <1>1, <1>4, <1>5 DEF Given, Block, Blocks
<1>7. RegionInv' BY <1>1, <1>2, <1>3, <1>4 DEF RegionInv
<1>8. CASE bits' = bits /\ used' = used /\ live' = live
  <2>1. TypeInv' BY <1>1, <1>3, <1>8 DEF TypeInv
  <2>2. \A r : Set0(r)' = Set0(r) /\ Taken(r)' = Taken(r) BY <1>8 DEF Set0, Taken
  <2>3. CompleteInv' BY <1>1, <1>4, <1>5, <1>8, <2>2, CompleteSame DEF CompleteInv
  <2>4. LiveInv' BY <1>1, <1>2, <1>4, <1>5, <1>8, <2>2, LiveSame
  <2>5. pc = "kmalloc" /\ ord > 0 => Counted(at, cur)'
    <3>1. pc = "kmalloc" /\ ord > 0 => Counted(at, cur) BY DEF MakingInv
    <3>2. Set0(at)' = Set0(at) BY <1>1, <1>8 DEF Set0
    <3> QED BY <1>1, <1>8, <3>1, <3>2 DEF Counted, Taken, Usable, Blocks
  <2>6. MakingInv' BY <1>1, <1>2, <1>3, <1>4, <1>5, <2>5, AllocMaking
  <2> QED BY <1>7, <2>1, <2>3, <2>4, <2>6
<1>9. CASE \E o \in Order, r \in Region :
             <<r, o>> \in have /\ ~ NoBlock(r, o) /\ AllocRegion(r, o) /\ (pc = "kmalloc" => o # 0)
  <2>1. PICK o \in Order, r \in Region :
          <<r, o>> \in have /\ ~ NoBlock(r, o) /\ AllocRegion(r, o) /\ (pc = "kmalloc" => o # 0)
    BY <1>9
  <2>2. ASSUME o = 0 PROVE \E k \in Idx : Of(r, k) /\ Started(k) /\ Complete(r, k)
    <3>1. PICK k \in Idx : Of(r, k) /\ Started(k) BY <2>1, <2>2 DEF RegionInv
    <3> QED BY <1>5, <2>1, <2>2, <3>1 DEF CompleteInv
  <2>3. o = 0 => \E k \in Idx : Counted(r, k) BY <2>2 DEF Complete
  <2>4. used' \in [Region \X Order -> Nat] /\ \A s \in Region : Marked(s) BY <2>1, <2>3, AllocEffect
  <2>5. TypeInv' BY <1>1, <1>3, <2>4 DEF TypeInv
  <2>6. \A s \in Region : used[<<s, 0>>] \in Nat /\ entryn'[<<s, 0>>] = entryn[<<s, 0>>] BY <1>1, Bounds DEF TypeInv
  <2>7. CompleteInv'
    <3> SUFFICES ASSUME NEW s \in Region, NEW h \in Idx, Of(s, h), ~ (Making /\ s = at) PROVE Complete(s, h)'
      BY <1>1, <1>4, <1>5 DEF CompleteInv
    <3>1. Complete(s, h) BY DEF CompleteInv
    <3>2. PICK H \in SUBSET Nat, n \in Nat :
            /\ Set0(s)' = Set0(s) \cup UNION {Mask(c) : c \in H} /\ Cardinality({c % IntBits : c \in H}) <= n
            /\ used'[<<s, 0>>] = used[<<s, 0>>] + n
      BY <2>4 DEF Marked
    <3> QED BY <2>6, <3>1, <3>2, CompleteAdd
  <2>8. ASSUME NEW s \in Region, NEW h \in Idx, Counted(s, h)
        PROVE  Counted(s, h)' /\ Taken(s) \subseteq Taken(s)' /\ (Serves(s)' => Serves(s))
    <3>2. PICK H \in SUBSET Nat, n \in Nat :
            /\ Set0(s)' = Set0(s) \cup UNION {Mask(c) : c \in H} /\ Cardinality({c % IntBits : c \in H}) <= n
            /\ used'[<<s, 0>>] = used[<<s, 0>>] + n
      BY <2>4 DEF Marked
    <3>3. Counted(s, h)' /\ Taken(s)' = Taken(s) \cup {c % IntBits : c \in H} BY <2>6, <2>8, <3>2, CountedAdd
    <3>4. Serves(s)' => Serves(s) BY <2>6, <3>2, Bounds DEF Serves
    <3> QED BY <3>3, <3>4
  <2>9. pc = "kmalloc" /\ ord > 0 => Counted(at, cur)'
    <3> SUFFICES ASSUME pc = "kmalloc", ord > 0 PROVE Counted(at, cur)' OBVIOUS
    <3>1. Counted(at, cur) /\ at \in Region /\ cur \in Idx BY DEF MakingInv, Making, TypeInv
    <3>2. PICK s \in Region, h \in Idx : s = at /\ h = cur BY <3>1
    <3>3. Counted(s, h)' BY <2>8, <3>1, <3>2
    <3> QED BY <1>1, <3>2, <3>3 DEF Counted, Taken, Set0, Usable, Blocks
  <2>10. MakingInv' BY <1>1, <1>2, <1>3, <1>4, <1>5, <2>9, AllocMaking
  <2>11. ASSUME NEW x \in live, x[2] = 0 PROVE \E h \in Idx, b \in Nat : IsBlock(x, h, b)'
    <3>1. PICK h \in Idx, b \in Nat : IsBlock(x, h, b) BY <2>11 DEF LiveInv
    <3>2. Given(x[1], h, b) /\ Given(x[1], h, b)' BY <1>6, <3>1 DEF IsBlock
    <3>3. ASSUME NEW s \in Region, Of(s, h)'
          PROVE  Of(s, h) /\ (Serves(s)' => Serves(s)) /\ Taken(s) \subseteq Taken(s)'
      <4>1. Of(s, h) BY <1>4, <3>3
      <4>2. ~ (Making /\ s = at)
        <5> SUFFICES ASSUME Making, s = at PROVE FALSE OBVIOUS
        <5>1. cur \in Idx /\ Of(at, cur) BY DEF MakingInv
        <5>2. h = cur BY <4>1, <5>1, OneOf
        <5> QED BY <3>2, <5>2 DEF Given
      <4>3. Counted(s, h) BY <4>1, <4>2 DEF CompleteInv, Complete
      <4> QED BY <2>8, <4>1, <4>3
    <3>4. IsBlock(x, h, b)' BY <3>1, <3>2, <3>3, BlockKept
    <3> QED BY <3>4
  <2>12. LiveInv'
    <3>1. CASE o # 0
      <4>1. \A x \in live' : x \in live \/ x[2] # 0 BY <2>1, <3>1, AllocAbove
      <4>2. \A x \in live' : x[2] = 0 => \E h \in Idx, b \in Nat : IsBlock(x, h, b)' BY <2>11, <4>1
      <4> QED BY <1>1, <1>2, <4>2 DEF LiveInv
    <3>2. CASE o = 0
      <4>1. PICK k \in Idx : Of(r, k) /\ Started(k) /\ Complete(r, k) BY <2>2, <3>2
      <4>2. Counted(r, k) /\ ~ Making BY <1>5, <2>1, <3>2, <4>1 DEF Complete
      <4>3. PICK b \in Block(k) :
              /\ live' = live \cup {Handed(base[r] + (b * BlockPg), 0)}
              /\ used' = [x \in Region \X Order |->
                   IF x[1] = r THEN used[x] + UsedBy(0, x[2], ordern[r]) ELSE used[x]]
              /\ \/ /\ b \in Usable(k) /\ b \notin Taken(r)
                    /\ \A s \in Region : Set0(s)' = IF s = r THEN Set0(s) \cup Mask(b) ELSE Set0(s)
                 \/ /\ used[<<r, 0>>] >= IntBits
                    /\ \A s \in Region : Set0(s)' = Set0(s)
        BY <2>1, <3>2, <4>2, AllocIs
      <4> DEFINE p == Map[k].phys + (b * BlockPg)
      <4>4. b \in Nat /\ base[r] = Map[k].phys BY <4>1, BlockIn DEF Of
      <4>5. Given(p, k, b)' BY <1>6, <4>1, <4>2 DEF Given
      <4>6. \A s \in Region : Of(s, k)' => s = r
        <5> TAKE s \in Region
        <5> HAVE Of(s, k)'
        <5>1. limit[s] # 0 /\ base[s] = base[r] /\ limit[s] = limit[r] BY <1>4, <4>1, OfLimit DEF Of
        <5> QED BY <5>1 DEF RegionInv
      <4>7. used'[<<r, 0>>] = used[<<r, 0>>] + 1 /\ used[<<r, 0>>] \in Nat
        <5>1. <<r, 0>> \in Region \X Order BY Bounds
        <5>2. UsedBy(0, 0, ordern[r]) = 1 BY DEF UsedBy
        <5> QED BY <4>3, <5>1, <5>2 DEF TypeInv
      <4>12. \A q : Handed(q, 0)[1] = q /\ Handed(q, 0)[2] = 0 BY DEF Handed
      <4>13. live' = live \cup {Handed(p, 0)} BY <4>3, <4>4
      <4>8. PICK x : x = Handed(p, 0) /\ x[1] = p /\ x[2] = 0 /\ live' = live \cup {x} BY <4>12, <4>13
      <4> HIDE DEF p
      <4>9. ASSUME Serves(r)' PROVE b \in Taken(r)' /\ b \in Usable(k) \ Held(k) /\ x = <<p, 0, 1>>
        <5>1. used[<<r, 0>>] < IntBits /\ Serves(r) BY <4>7, <4>9, Bounds DEF Serves
        <5>2. b \in Usable(k) /\ b \notin Taken(r) /\ Set0(r)' = Set0(r) \cup Mask(b) BY <4>3, <4>7, <5>1, Bounds
        <5>3. b \in 0 .. IntBits - 1 /\ b \in Mask(b) BY <5>2, MaskIs DEF Usable
        <5>4. b \in Taken(r)' BY <5>2, <5>3 DEF Taken, Ints
        <5>5. b \notin Held(k) BY <4>1, <5>1, <5>2 DEF Complete
        <5>6. <<p, 0, 1>> \notin live
          <6> SUFFICES ASSUME <<p, 0, 1>> \in live PROVE FALSE OBVIOUS
          <6>1. \A y \in live : y[2] = 0 => \E h \in Idx, c \in Nat : IsBlock(y, h, c) BY DEF LiveInv
          <6>2. <<p, 0, 1>>[1] = p /\ <<p, 0, 1>>[2] = 0 OBVIOUS
          <6>3. PICK h \in Idx, c \in Nat : IsBlock(<<p, 0, 1>>, h, c) BY <6>1, <6>2
          <6>4. c \in Block(h) /\ p = Map[h].phys + (c * BlockPg) BY <6>2, <6>3 DEF IsBlock, Given
          <6>5. h = k /\ c = b BY <6>4, OneBlockAt DEF p
          <6> QED BY <4>1, <5>1, <5>2, <6>3, <6>5 DEF IsBlock
        <5>7. x = <<p, 0, 1>> BY <4>8, <5>6 DEF Handed
        <5> QED BY <5>2, <5>4, <5>5, <5>7
      <4>10. IsBlock(x, k, b)'
        <5>1. \A s \in Region : Of(s, k)' /\ Serves(s)' =>
                b \in Taken(s)' /\ b \in Usable(k) \ Held(k) /\ x = <<x[1], 0, 1>>
          BY <4>6, <4>8, <4>9
        <5>2. Given(x[1], k, b)' BY <4>5, <4>8
        <5> QED BY <5>1, <5>2 DEF IsBlock, Usable, Held, Blocks, InUse, UseBlocks
      <4>11. \A y \in live' : y[2] = 0 => \E h \in Idx, c \in Nat : IsBlock(y, h, c)' BY <2>11, <4>4, <4>8, <4>10
      <4> QED BY <1>1, <1>2, <4>11 DEF LiveInv
    <3> QED BY <3>1, <3>2
  <2> QED BY <1>7, <2>5, <2>7, <2>10, <2>12
<1> QED
  <2>1. PICK pages \in Wanted, ty \in Types, strict \in BOOLEAN, o \in Order :
          /\ OrderFor(pages, o)
          /\ \/ \E r \in Region : BestRegion(ty, strict, o, r) /\ ~ NoBlock(r, o) /\ AllocRegion(r, o)
             \/ UNCHANGED <<bits, used, live>>
    BY DEF AllocPhys
  <2>2. pc = "kmalloc" => o # 0
    <3> SUFFICES ASSUME pc = "kmalloc" PROVE o # 0 OBVIOUS
    <3>1. pages \in Refills BY <2>1 DEF Wanted
    <3> QED BY <2>1, <3>1, OneOrder
  <2>3. \A r \in Region : BestRegion(ty, strict, o, r) => <<r, o>> \in have BY DEF BestRegion, Eligible
  <2> QED BY <1>8, <1>9, <2>1, <2>2, <2>3

LEMMA FreeNPhysInv == ASSUME UnitUse, PmmInv, FreeNPhys PROVE PmmInv'
<1> USE DEF PmmInv
<1>1. PICK x \in live, short \in Short :
        x[2] \in FreeOrders /\ live' = live \ {x} /\ fptr' = x[1] /\ fleft' = (2^x[2] * BlockPg) - short
  BY DEF FreeNPhys
<1>2. /\ pc = "run" /\ pc' = pc /\ base' = base /\ limit' = limit /\ ordern' = ordern /\ entryn' = entryn
      /\ have' = have /\ used' = used /\ bits' = bits
      /\ at' = at /\ cur' = cur /\ ord' = ord /\ blc' = blc /\ first' = first /\ rn' = rn
  BY DEF FreeNPhys, table, orders, boot
<1>3. (\A r, k : Of(r, k)' <=> Of(r, k)) /\ (\A k : Started(k)' <=> Started(k)) /\ ~ Making /\ ~ Making'
  BY <1>2 DEF Of, Started, Before, Making
<1>4. \A p, k, b : Given(p, k, b) => Given(p, k, b)' BY <1>2, <1>3 DEF Given, Block, Blocks
<1>5. \A r : Set0(r)' = Set0(r) /\ Taken(r)' = Taken(r) /\ (Serves(r)' <=> Serves(r)) BY <1>2 DEF Set0, Taken, Serves
<1>6. x[2] = 0 /\ short = 0 BY <1>1 DEF UnitUse
<1>7. PICK k \in Idx, b \in Nat : IsBlock(x, k, b) BY <1>6 DEF LiveInv
<1>8. fleft' = BlockPg
  <2>1. 2^0 = 1 OBVIOUS
  <2>2. 2^x[2] = 1 BY <1>6, <2>1
  <2> QED BY <1>1, <1>6, <2>2, Bounds
<1>9. x[1] \in Nat /\ x[1] = Map[k].phys + (b * BlockPg) /\ b \in Block(k)
  <2>1. x[1] = Map[k].phys + (b * BlockPg) /\ b \in Block(k) BY <1>7 DEF IsBlock, Given
  <2>2. b * BlockPg \in Nat /\ Map[k].phys \in Nat BY Bounds
  <2> QED BY <2>1, <2>2
<1>10. TypeInv'
  <2>1. fptr' \in Nat /\ fleft' \in Int BY <1>1, <1>8, <1>9, Bounds
  <2> QED BY <1>2, <2>1 DEF TypeInv
<1>11. RegionInv' BY <1>2, <1>3 DEF RegionInv
<1>12. MakingInv' BY <1>2 DEF MakingInv, Making, Begun
<1>13. CompleteInv' BY <1>2, <1>3, <1>5, CompleteSame DEF CompleteInv
<1>14. ASSUME NEW y \in live', y[2] = 0 PROVE \E h \in Idx, c \in Nat : IsBlock(y, h, c)'
  <2>1. PICK h \in Idx, c \in Nat : IsBlock(y, h, c) BY <1>1, <1>14 DEF LiveInv
  <2>2. Given(y[1], h, c)' BY <1>4, <2>1 DEF IsBlock
  <2>3. IsBlock(y, h, c)' BY <1>3, <1>5, <2>1, <2>2, BlockKept
  <2> QED BY <2>3
<1>15. IsFreed(x[1], k, b)'
  <2>1. Given(x[1], k, b)' BY <1>4, <1>7 DEF IsBlock
  <2>2. ASSUME NEW r \in Region, Of(r, k), Serves(r), NEW y \in live', y[2] = 0, y[1] = x[1] PROVE FALSE
    <3>1. y \in live /\ y # x BY <1>1
    <3>2. PICK h \in Idx, c \in Nat : IsBlock(y, h, c) BY <2>2, <3>1 DEF LiveInv
    <3>3. c \in Block(h) /\ x[1] = Map[h].phys + (c * BlockPg) BY <2>2, <3>2 DEF IsBlock, Given
    <3>4. h = k BY <1>9, <3>3, OneBlockAt
    <3>5. y = <<y[1], 0, 1>> /\ x = <<x[1], 0, 1>> BY <1>7, <2>2, <3>2, <3>4 DEF IsBlock
    <3> QED BY <2>2, <3>1, <3>5
  <2>3. \A r \in Region : Of(r, k)' /\ Serves(r)' =>
          b \in Usable(k) \ Held(k) /\ \A y \in live' : y[2] = 0 => y[1] # x[1]
    BY <1>3, <1>5, <1>7, <2>2 DEF IsBlock
  <2> QED BY <2>1, <2>3 DEF IsFreed, Usable, Held, Blocks, InUse, UseBlocks
<1>16. LiveInv'
  <2>1. IsFreed(fptr, k, b)' BY <1>1, <1>15 DEF IsFreed, Given
  <2> QED BY <1>2, <1>8, <1>14, <2>1 DEF LiveInv
<1> QED BY <1>10, <1>11, <1>12, <1>13, <1>16

\* The block is cleared in its own region only; no other block is.
LEMMA FreePhysInv == ASSUME UnitUse, PmmInv, FreePhys PROVE PmmInv'
<1> USE DEF PmmInv
<1>1. /\ pc = "run" /\ fleft # 0 /\ fptr' = fptr + BlockPg /\ fleft' = Left(fleft)
      /\ pc' \in {"run", "fault"} /\ base' = base /\ limit' = limit /\ ordern' = ordern /\ entryn' = entryn
      /\ have' = have /\ used' = used /\ live' = live
      /\ at' = at /\ cur' = cur /\ ord' = ord /\ blc' = blc /\ first' = first /\ rn' = rn
  BY DEF FreePhys, table, boot
<1>2. fleft = BlockPg BY <1>1 DEF LiveInv
<1>3. PICK k \in Idx, b \in Nat : IsFreed(fptr, k, b) BY <1>1 DEF LiveInv
<1>4. fptr = Map[k].phys + (b * BlockPg) /\ b \in Block(k) BY <1>3 DEF IsFreed, Given
<1>5. (\A r, h : Of(r, h)' <=> Of(r, h)) /\ (\A h : Started(h)' <=> Started(h)) /\ ~ Making /\ ~ Making'
  BY <1>1 DEF Of, Started, Before, Making
<1>6. \A p, h, c : Given(p, h, c) => Given(p, h, c)' BY <1>1, <1>5 DEF Given, Block, Blocks
<1>7. \A s : Serves(s)' <=> Serves(s) BY <1>1 DEF Serves
<1>8. fleft' = 0 BY <1>1, <1>2, Bounds DEF Left
<1>9. TypeInv'
  <2>1. fptr' \in Nat /\ fleft' \in Int BY <1>1, <1>8, Bounds DEF TypeInv
  <2> QED BY <1>1, <2>1 DEF TypeInv
<1>10. RegionInv' BY <1>1, <1>5 DEF RegionInv
<1>11. MakingInv' BY <1>1 DEF MakingInv, Making, Begun
<1>12. ASSUME NEW s \in Region, NEW h \in Idx, Of(s, h)
       PROVE  \/ Set0(s)' = Set0(s)
              \/ h = k /\ Whole(Set0(s)') /\ Taken(s)' = Taken(s) \ {b % IntBits}
  <2>1. Set0(s)' = Set0(s) \/ (h = k /\ Set0(s)' = Set0(s) \ Mask(b)) BY <1>4, <1>12, FreeIs
  <2>2. CASE h = k /\ Set0(s)' = Set0(s) \ Mask(b)
    <3> DEFINE S == Set0(s)  V == Set0(s)'
    <3>1. Whole(S) BY <1>5, <1>12 DEF CompleteInv, Complete, Counted
    <3>2. V = S \ Mask(b) BY <2>2
    <3>3. Taken(s) = Ints(S) /\ Taken(s)' = Ints(V) BY DEF Taken
    <3> HIDE DEF S, V
    <3>4. Whole(V) /\ Ints(V) = Ints(S) \ {b % IntBits} BY <3>1, <3>2, IntsDrop
    <3> QED BY <2>2, <3>3, <3>4 DEF V
  <2> QED BY <2>1, <2>2
<1>13. CompleteInv'
  <2> SUFFICES ASSUME NEW s \in Region, NEW h \in Idx, Of(s, h) PROVE Complete(s, h)' BY <1>5 DEF CompleteInv
  <2>1. Complete(s, h) BY <1>5 DEF CompleteInv
  <2>2. CASE Set0(s)' = Set0(s) BY <1>1, <2>1, <2>2, CompleteSame
  <2>3. CASE h = k /\ Whole(Set0(s)') /\ Taken(s)' = Taken(s) \ {b % IntBits}
    <3> DEFINE U == Usable(h)  S == Taken(s) \cap U  V == (Taken(s) \ {b % IntBits}) \cap U
    <3>1. V \subseteq S /\ S \subseteq U OBVIOUS
    <3>2. Cardinality(S) <= used[<<s, 0>>] /\ (Serves(s) => Held(h) \cap U \subseteq Taken(s))
      BY <2>1 DEF Complete, Counted
    <3>3. IsFiniteSet(U)
      <4>1. IsFiniteSet(0 .. IntBits - 1) BY FiniteInts
      <4>2. U \subseteq 0 .. IntBits - 1 BY DEF Usable
      <4> QED BY <4>1, <4>2, FS_Subset
    <3>4. used[<<s, 0>>] \in Nat BY Bounds DEF TypeInv
    <3>5. Taken(s)' \cap U = V BY <2>3
    <3>6. Serves(s) => Held(h) \cap U \subseteq Taken(s)'
      <4> SUFFICES ASSUME Serves(s) PROVE Held(h) \cap U \subseteq Taken(s)' OBVIOUS
      <4>1. b \in Usable(k) \ Held(k) BY <1>3, <2>3 DEF IsFreed
      <4>2. b % IntBits = b BY <4>1, MaskIs DEF Usable
      <4> QED BY <2>3, <3>2, <4>1, <4>2
    <3> HIDE DEF S, V, U
    <3>7. IsFiniteSet(S) BY <3>1, <3>3, FS_Subset
    <3>8. IsFiniteSet(V) /\ Cardinality(V) <= Cardinality(S) BY <3>1, <3>7, FS_Subset
    <3>9. Cardinality(V) \in Nat /\ Cardinality(S) \in Nat BY <3>7, <3>8, FS_CardinalityType
    <3>10. Cardinality(V) <= used[<<s, 0>>] BY <3>2, <3>4, <3>8, <3>9
    <3>11. entryn[<<s, 0>>] = Blocks(h) BY <2>1 DEF Complete, Counted
    <3>12. (Serves(s)' => Held(h) \cap U \subseteq Taken(s)') /\ Cardinality(Taken(s)' \cap U) <= used'[<<s, 0>>]
      BY <1>1, <1>7, <3>5, <3>6, <3>10
    <3> QED BY <1>1, <2>3, <3>11, <3>12 DEF U, Complete, Counted, Usable, Held, Blocks, InUse, UseBlocks
  <2> QED BY <1>12, <2>2, <2>3
<1>14. LiveInv'
  <2>1. ASSUME NEW x \in live, x[2] = 0 PROVE \E h \in Idx, c \in Nat : IsBlock(x, h, c)'
    <3>1. PICK h \in Idx, c \in Nat : IsBlock(x, h, c) BY <2>1 DEF LiveInv
    <3>2. Given(x[1], h, c) /\ Given(x[1], h, c)' BY <1>6, <3>1 DEF IsBlock
    <3>3. ASSUME NEW s \in Region, Of(s, h), Serves(s)
          PROVE  c \in Taken(s)' /\ c \in Usable(h) \ Held(h) /\ x = <<x[1], 0, 1>>
      <4>1. c \in Taken(s) /\ c \in Usable(h) \ Held(h) /\ x = <<x[1], 0, 1>> BY <3>1, <3>3 DEF IsBlock
      <4>2. CASE Set0(s)' = Set0(s) BY <4>1, <4>2 DEF Taken
      <4>3. CASE h = k /\ Taken(s)' = Taken(s) \ {b % IntBits}
        <5>1. b \in Usable(k) /\ x[1] # fptr BY <1>3, <2>1, <3>3, <4>3 DEF IsFreed
        <5>2. b % IntBits = b BY <5>1, MaskIs DEF Usable
        <5>3. c # b BY <1>4, <3>2, <4>3, <5>1 DEF Given
        <5> QED BY <4>1, <4>3, <5>2, <5>3
      <4> QED BY <1>12, <3>3, <4>2, <4>3
    <3>4. \A s \in Region : Of(s, h)' /\ Serves(s)' =>
            c \in Taken(s)' /\ c \in Usable(h) \ Held(h) /\ x = <<x[1], 0, 1>>
      BY <1>5, <1>7, <3>3
    <3>5. IsBlock(x, h, c)' BY <3>2, <3>4 DEF IsBlock, Usable, Held, Blocks, InUse, UseBlocks
    <3> QED BY <3>5
  <2> QED BY <1>1, <1>8, <2>1 DEF LiveInv
<1> QED BY <1>9, <1>10, <1>11, <1>13, <1>14

LEMMA StutterInv == ASSUME PmmInv, UNCHANGED vars PROVE PmmInv'
<1>1. /\ rtype' = rtype /\ base' = base /\ limit' = limit /\ ordern' = ordern /\ entryn' = entryn /\ used' = used
      /\ have' = have /\ bits' = bits /\ pc' = pc /\ at' = at /\ cur' = cur /\ ord' = ord /\ blc' = blc
      /\ first' = first /\ rn' = rn /\ live' = live /\ fptr' = fptr /\ fleft' = fleft
  BY DEF vars, table, orders, boot, free
<1>2. (\A r, k : Of(r, k)' <=> Of(r, k)) /\ (\A k : Started(k)' <=> Started(k)) /\ (Making' <=> Making)
  BY <1>1 DEF Of, Started, Before, Making, Begun
<1>3. \A r : Set0(r)' = Set0(r) /\ Taken(r)' = Taken(r) BY <1>1 DEF Set0, Taken
<1>4. TypeInv' BY <1>1 DEF PmmInv, TypeInv
<1>5. RegionInv' BY <1>1, <1>2 DEF PmmInv, RegionInv
<1>6. MakingInv'
  <2>1. Counted(at, cur) => Counted(at, cur)' BY <1>1 DEF Counted, Taken, Set0, Usable, Blocks
  <2>2. (Of(at, cur) => Of(at, cur)') /\ (Started(cur) => Started(cur)') /\ (Begun' <=> Begun)
    BY <1>1 DEF Of, Started, Before, Begun
  <2> QED BY <1>1, <1>2, <2>1, <2>2 DEF PmmInv, MakingInv, Blocks
<1>7. CompleteInv' BY <1>1, <1>2, <1>3, CompleteSame DEF PmmInv, CompleteInv
<1>8. LiveInv' BY <1>1, <1>2, <1>3, LiveSame DEF PmmInv
<1> QED BY <1>4, <1>5, <1>6, <1>7, <1>8 DEF PmmInv

LEMMA NextInv == ASSUME UnitUse, PmmInv, [Next]_vars PROVE PmmInv'
BY BootFirstInv, BootNextInv, SizeOrderInv, MapOrderInv, FinishRegionInv, AllocPhysInv, FreeNPhysInv, FreePhysInv,
   StutterInv DEF Next

-----------------------------------------------------------------------------
(* The theorems *)

\* The invariant of the regions, their bitmaps and the blocks handed out,
\* over initPMM(), createRegion(), allocPhys(), freeNPhys() and freePhys().
THEOREM PmmInvariant == ASSUME UnitUse PROVE Spec => []PmmInv
<1>1. Init => PmmInv BY InitInv
<1>2. PmmInv /\ [Next]_vars => PmmInv' BY NextInv
<1> QED BY <1>1, <1>2, PTL DEF Spec

\* A unit of a region whose first word serves, as a block of its entry.
LEMMA UnitIs ==
  ASSUME UnitUse, PmmInv, NEW r \in Region, FirstWordServes(r), NEW x \in Units(r)
  PROVE  \E k \in Idx, b \in Nat :
           /\ Of(r, k) /\ b \notin Held(k) /\ b * BlockPg \in Nat
           /\ x = <<Map[k].phys + (b * BlockPg), 0, 1>>
           /\ Pages(x) = Map[k].phys + (b * BlockPg) .. Map[k].phys + (b * BlockPg) + BlockPg - 1
<1>1. x \in live /\ x[2] = 0 /\ base[r] <= x[1] /\ x[1] < limit[r] BY DEF Units
<1>2. PICK k \in Idx, b \in Nat : IsBlock(x, k, b) BY <1>1 DEF PmmInv, LiveInv
<1>3. x[1] = Map[k].phys + (b * BlockPg) /\ b \in Block(k) BY <1>2 DEF IsBlock, Given
<1>4. b * BlockPg \in Nat /\ (b * BlockPg) + BlockPg <= Map[k].pages BY <1>3, BlockIn
<1>5. x[1] \in Nat /\ Map[k].phys <= x[1] /\ x[1] <= Map[k].phys + Map[k].pages
  <2> DEFINE a == Map[k].phys  g == Map[k].pages  u == b * BlockPg
  <2>1. a \in Nat /\ g \in Nat /\ u \in Nat /\ BlockPg \in Nat /\ x[1] = a + u /\ u + BlockPg <= g BY <1>3, <1>4, Bounds
  <2> HIDE DEF a, g, u
  <2>2. x[1] \in Nat /\ a <= x[1] /\ x[1] <= a + g BY <2>1
  <2> QED BY <2>2 DEF a, g
<1>6. base[r] \in Nat /\ limit[r] \in Nat BY DEF PmmInv, TypeInv
<1>7. limit[r] # 0 BY <1>1, <1>5, <1>6
<1>8. PICK h \in Idx : Of(r, h) BY <1>7 DEF PmmInv, RegionInv
<1>9. Map[h].phys <= x[1] /\ x[1] <= Map[h].phys + Map[h].pages BY <1>1, <1>5, <1>6, <1>8 DEF Of
<1>10. h = k BY <1>5, <1>9, OneEntry
<1>11. b \notin Held(k) /\ x = <<x[1], 0, 1>> BY <1>2, <1>8, <1>10 DEF IsBlock, FirstWordServes, Serves
<1>12. 2^0 * BlockPg = BlockPg
  <2>1. 2^0 = 1 OBVIOUS
  <2> QED BY <2>1, Bounds
<1>13. Pages(x) = x[1] .. x[1] + BlockPg - 1 BY <1>1, <1>12 DEF Pages
<1> QED BY <1>3, <1>4, <1>8, <1>10, <1>11, <1>13

\* Single blocks of allocPhys() are never handed out twice while the first
\* word of their region's bitmap serves, whatever else is asked for.
THEOREM UnitsApart == ASSUME UnitUse PROVE Spec => []UnitsDisjoint
<1>1. ASSUME PmmInv PROVE UnitsDisjoint
  <2> SUFFICES ASSUME NEW r \in Region, FirstWordServes(r), NEW x \in Units(r), NEW y \in Units(r), x # y,
                      NEW p \in Pages(x), p \in Pages(y)
               PROVE  FALSE
    BY DEF UnitsDisjoint
  <2>1. PICK k \in Idx, b \in Nat :
           /\ Of(r, k) /\ b * BlockPg \in Nat /\ x = <<Map[k].phys + (b * BlockPg), 0, 1>>
           /\ Pages(x) = Map[k].phys + (b * BlockPg) .. Map[k].phys + (b * BlockPg) + BlockPg - 1
    BY <1>1, UnitIs
  <2>2. PICK h \in Idx, c \in Nat :
           /\ Of(r, h) /\ c * BlockPg \in Nat /\ y = <<Map[h].phys + (c * BlockPg), 0, 1>>
           /\ Pages(y) = Map[h].phys + (c * BlockPg) .. Map[h].phys + (c * BlockPg) + BlockPg - 1
    BY <1>1, UnitIs
  <2>4. k = h BY <2>1, <2>2, OneOf
  <2> DEFINE u == b * BlockPg  v == c * BlockPg  a == Map[k].phys  B == BlockPg
  <2>3. /\ u \in Nat /\ v \in Nat /\ a \in Nat /\ B \in Nat /\ B > 0
        /\ p \in a + u .. a + u + B - 1 /\ p \in a + v .. a + v + B - 1
    BY <2>1, <2>2, <2>4, Bounds
  <2>5. b # c BY <2>1, <2>2, <2>4
  <2>6. u + B <= v \/ v + B <= u
    <3>1. (b + 1) * BlockPg = u + B /\ (c + 1) * BlockPg = v + B
      <4>1. BlockPg \in Nat BY Bounds
      <4>2. (b + 1) * BlockPg = (b * BlockPg) + BlockPg BY <4>1
      <4>3. (c + 1) * BlockPg = (c * BlockPg) + BlockPg BY <4>1
      <4> QED BY <4>2, <4>3
    <3>2. b + 1 <= c => (b + 1) * BlockPg <= c * BlockPg BY <2>1, <2>2, Bounds
    <3>3. c + 1 <= b => (c + 1) * BlockPg <= b * BlockPg BY <2>1, <2>2, Bounds
    <3>4. b + 1 <= c \/ c + 1 <= b BY <2>1, <2>2, <2>5
    <3> QED BY <3>1, <3>2, <3>3, <3>4
  <2> HIDE DEF u, v, a, B
  <2> QED BY <2>3, <2>6
<1> QED BY <1>1, PmmInvariant, PTL

\* Till then no single block is one that allocPhysAddress() counted for
\* memory that was in use when the kernel started.
THEOREM UseKept == ASSUME UnitUse PROVE Spec => []ReservedKept
<1>1. ASSUME PmmInv PROVE ReservedKept
  <2> SUFFICES ASSUME NEW r \in Region, FirstWordServes(r), NEW x \in Units(r), NEW e \in Reserved,
                      base[r] < e.phys, e.phys + e.pages <= limit[r]
               PROVE  (x[1] - base[r]) \div BlockPg \notin ReservedBlocks(r, e)
    BY DEF ReservedKept
  <2>1. PICK k \in Idx, b \in Nat :
           Of(r, k) /\ b \notin Held(k) /\ b * BlockPg \in Nat /\ x = <<Map[k].phys + (b * BlockPg), 0, 1>>
    BY <1>1, UnitIs
  <2>2. e \in InUse(k) BY <2>1 DEF Of, InUse
  <2>3. ReservedBlocks(r, e) = UseBlocks(k, e) BY <2>1 DEF ReservedBlocks, UseBlocks, Of
  <2>4. b \notin UseBlocks(k, e) BY <2>1, <2>2 DEF Held
  <2>5. x[1] - base[r] = b * BlockPg
    <3> DEFINE u == b * BlockPg  a == Map[k].phys
    <3>1. u \in Nat /\ a \in Nat /\ x[1] = a + u /\ base[r] = a BY <2>1, Bounds DEF Of
    <3> HIDE DEF u, a
    <3>2. x[1] - base[r] = u BY <3>1
    <3> QED BY <3>2 DEF u
  <2>6. (x[1] - base[r]) \div BlockPg = b BY <2>1, <2>5, DivExact
  <2> QED BY <2>3, <2>4, <2>6
<1> QED BY <1>1, PmmInvariant, PTL

-----------------------------------------------------------------------------
(* Every entry but the first keeps its region *)

\* Each entry whose region was begun still has it, at the number of entries
\* before it; the first one has it, at its own number, when that is above all
\* the others'.
KeptInv ==
  /\ base \in [Region -> Nat] /\ limit \in [Region -> Nat] /\ rn \in Nat /\ first \in 0 .. Len(Map)
  /\ pc = "boot1" => first = 0 /\ rn = 0
  /\ pc # "wild" => rn <= RegionCount /\ (first # 0 => first < RegionCount)
  /\ first # 0 /\ first = Len(Map) - 1 => Of(first, first)
  /\ \A k \in Idx \ {first} : Before(k) < rn => Of(Before(k), k)
  /\ pc = "run" => rn = Cardinality(Idx \ {first})

LEMMA CountNat == RegionCount \in Nat
<1>1. IsFiniteSet(Idx) BY IdxFinite
<1>2. IsFiniteSet({k \in Idx : Map[k].pages >= BlockPg}) BY <1>1, FS_Subset
<1> QED BY <1>2, FS_CardinalityType DEF RegionCount

\* The regions other than the first one's are numbered below the last entry.
LEMMA BeforeBelow ==
  ASSUME KeptInv, NEW k \in Idx \ {first}
  PROVE  /\ Before(k) \in Nat /\ Before(k) < Cardinality(Idx \ {first}) /\ Before(k) < Len(Map)
         /\ first # 0 => Before(k) < Len(Map) - 1
<1> DEFINE S == Idx \ {first}  V == {j \in S : j < k}
<1>1. IsFiniteSet(Idx) /\ Cardinality(Idx) = Len(Map) /\ Len(Map) \in Nat BY IdxFinite, Bounds
<1>2. IsFiniteSet(S) /\ Cardinality(S) = IF first \in Idx THEN Len(Map) - 1 ELSE Len(Map)
  BY <1>1, FS_RemoveElement
<1>3. k \in S /\ k \notin V /\ V \subseteq S BY Bounds
<1>4. Before(k) = Cardinality(V) BY DEF Before
<1>5. first # 0 => first \in Idx BY Bounds DEF KeptInv
<1> HIDE DEF S, V
<1>6. IsFiniteSet(V) /\ Cardinality(V) <= Cardinality(S) /\ (Cardinality(V) = Cardinality(S) => V = S)
  BY <1>2, <1>3, FS_Subset
<1>7. Cardinality(V) \in Nat /\ Cardinality(S) \in Nat BY <1>2, <1>6, FS_CardinalityType
<1>8. Cardinality(V) < Cardinality(S) BY <1>3, <1>6, <1>7
<1> QED BY <1>1, <1>2, <1>4, <1>5, <1>7, <1>8 DEF S

\* What createRegion() writes.
LEMMA StartIs ==
  ASSUME NEW r \in Region, NEW k \in Idx, StartRegion(r, k), base \in [Region -> Nat], limit \in [Region -> Nat]
  PROVE  /\ base' \in [Region -> Nat] /\ limit' \in [Region -> Nat] /\ Of(r, k)'
         /\ \A s \in Region \ {r} : base'[s] = base[s] /\ limit'[s] = limit[s]
         /\ pc' \in {"size", "wild"} /\ (pc' # "wild" => r < RegionCount)
<1>1. /\ base' = [base EXCEPT ![r] = Map[k].phys] /\ limit' = [limit EXCEPT ![r] = Map[k].phys + Map[k].pages]
      /\ pc' = IF r < RegionCount THEN "size" ELSE "wild"
  BY DEF StartRegion
<1>2. Map[k].phys \in Nat /\ Map[k].phys + Map[k].pages \in Nat BY Bounds
<1>3. base' \in [Region -> Nat] /\ limit' \in [Region -> Nat] BY <1>1, <1>2
<1>4. base'[r] = Map[k].phys /\ limit'[r] = Map[k].phys + Map[k].pages BY <1>1
<1>5. \A s \in Region \ {r} : base'[s] = base[s] /\ limit'[s] = limit[s] BY <1>1
<1> QED BY <1>1, <1>3, <1>4, <1>5 DEF Of

LEMMA KeptStep == ASSUME KeptInv, [Next]_vars PROVE KeptInv'
<1>0. RegionCount \in Nat BY CountNat
<1>1. CASE BootFirst
  <2>1. pc = "boot1" /\ first = 0 /\ rn = 0 /\ rn' = rn BY <1>1 DEF BootFirst, KeptInv
  <2>2. CASE pc' = "boot" /\ UNCHANGED <<table, first>>
    <3>1. base' = base /\ limit' = limit /\ first' = first BY <2>2 DEF table
    <3> QED BY <2>1, <2>2, <3>1 DEF KeptInv, Before, Of
  <2>3. CASE \E k \in Idx : StartRegion(k, k) /\ first' = k
    <3>1. PICK k \in Idx : StartRegion(k, k) /\ first' = k BY <2>3
    <3>2. k \in Region /\ k # 0 /\ k \in 0 .. Len(Map) BY Bounds DEF Region
    <3>3. /\ base' \in [Region -> Nat] /\ limit' \in [Region -> Nat] /\ Of(k, k)'
          /\ pc' \in {"size", "wild"} /\ (pc' # "wild" => k < RegionCount)
      BY <3>1, <3>2, StartIs DEF KeptInv
    <3>5. \A h \in Idx : Before(h)' \in Nat
      <4> TAKE h \in Idx
      <4> DEFINE S == {j \in Idx \ {k} : j < h}
      <4>1. IsFiniteSet(Idx) BY IdxFinite
      <4>2. IsFiniteSet(S) BY <4>1, FS_Subset
      <4>3. Cardinality(S) \in Nat BY <4>2, FS_CardinalityType
      <4>4. Before(h)' = Cardinality(S) BY <3>1 DEF Before
      <4> QED BY <4>3, <4>4
    <3>6. \A h \in Idx : ~ (Before(h) < rn)' BY <2>1, <3>5
    <3>7. Of(first, first)' BY <3>1, <3>3 DEF Of
    <3>8. pc' # "wild" => rn' <= RegionCount /\ (first' # 0 => first' < RegionCount) BY <1>0, <2>1, <3>1, <3>3
    <3>9. (\A h \in Idx \ {first} : Before(h) < rn => Of(Before(h), h))' BY <3>6
    <3> QED BY <2>1, <3>1, <3>2, <3>3, <3>7, <3>8, <3>9 DEF KeptInv
  <2> QED BY <1>1, <2>2, <2>3 DEF BootFirst
<1>2. CASE BootNext
  <2>1. pc = "boot" /\ first' = first BY <1>2 DEF BootNext
  <2>2. \A k : Before(k)' = Before(k) BY <2>1 DEF Before
  <2>3. CASE rn = Cardinality(Idx \ {first}) /\ pc' = "run" /\ UNCHANGED <<table, rn>>
    <3>1. base' = base /\ limit' = limit BY <2>3 DEF table
    <3> QED BY <2>1, <2>2, <2>3, <3>1 DEF KeptInv, Of
  <2>4. CASE \E k \in Idx \ {first} : Before(k) = rn /\ StartRegion(rn, k) /\ rn' = rn + 1
    <3>1. PICK k \in Idx \ {first} : Before(k) = rn /\ StartRegion(rn, k) /\ rn' = rn + 1 BY <2>4
    <3>2. rn \in Nat /\ rn < Len(Map) /\ (first # 0 => rn < Len(Map) - 1) BY <3>1, BeforeBelow
    <3>3. rn \in Region BY <3>2, Bounds DEF Region
    <3>4. PICK r \in Region : r = rn BY <3>3
    <3>5. /\ base' \in [Region -> Nat] /\ limit' \in [Region -> Nat] /\ Of(r, k)'
          /\ \A s \in Region \ {r} : base'[s] = base[s] /\ limit'[s] = limit[s]
          /\ pc' \in {"size", "wild"} /\ (pc' # "wild" => r < RegionCount)
      BY <3>1, <3>4, StartIs DEF KeptInv
    <3>6. first # 0 /\ first = Len(Map) - 1 => Of(first, first)'
      <4> SUFFICES ASSUME first # 0, first = Len(Map) - 1 PROVE Of(first, first)' OBVIOUS
      <4>1. first \in Region \ {r} BY <3>2, <3>4, Bounds DEF KeptInv, Region
      <4> QED BY <2>1, <3>5, <4>1 DEF KeptInv, Of
    <3>7. ASSUME NEW h \in Idx \ {first}, Before(h) < rn + 1 PROVE Of(Before(h), h)'
      <4>1. Before(h) \in Nat /\ Before(h) < Len(Map) BY BeforeBelow
      <4>2. Before(h) \in Region BY <4>1, Bounds DEF Region
      <4>3. CASE Before(h) < rn
        <5>1. Before(h) # rn BY <3>2, <4>1, <4>3
        <5>2. Before(h) \in Region \ {r} /\ Of(Before(h), h) BY <3>4, <4>2, <4>3, <5>1 DEF KeptInv
        <5> QED BY <2>2, <3>5, <5>2 DEF Of
      <4>4. CASE ~ (Before(h) < rn)
        <5>1. Before(h) = rn BY <3>2, <3>7, <4>1, <4>4
        <5>2. h = k
          <6>1. SUFFICES ASSUME h # k PROVE FALSE OBVIOUS
          <6>2. IsFiniteSet(Idx) BY IdxFinite
          <6> DEFINE S == {j \in Idx \ {first} : j < h}  V == {j \in Idx \ {first} : j < k}
          <6>3. h \in Nat /\ k \in Nat BY Bounds
          <6>4. h < k \/ k < h BY <6>1, <6>3
          <6>5. h < k => S \subseteq V /\ h \in V /\ h \notin S BY <6>3, Bounds
          <6>6. k < h => V \subseteq S /\ k \in S /\ k \notin V BY <6>3, Bounds
          <6>7. S \subseteq Idx /\ V \subseteq Idx OBVIOUS
          <6>8. Cardinality(S) = Cardinality(V) BY <3>1, <5>1 DEF Before
          <6> HIDE DEF S, V
          <6>9. IsFiniteSet(S) /\ IsFiniteSet(V) BY <6>2, <6>7, FS_Subset
          <6>10. h < k => S = V BY <6>5, <6>8, <6>9, FS_Subset
          <6>11. k < h => S = V BY <6>6, <6>8, <6>9, FS_Subset
          <6> QED BY <6>4, <6>5, <6>6, <6>10, <6>11
        <5> QED BY <2>2, <3>4, <3>5, <5>1, <5>2 DEF Of
      <4> QED BY <4>3, <4>4
    <3>8. rn' \in Nat /\ first' \in 0 .. Len(Map) BY <2>1, <3>1, <3>2 DEF KeptInv
    <3>9. pc' # "wild" => rn' <= RegionCount /\ (first' # 0 => first' < RegionCount)
      BY <1>0, <2>1, <3>1, <3>2, <3>4, <3>5 DEF KeptInv
    <3>10. (\A h \in Idx \ {first} : Before(h) < rn => Of(Before(h), h))' BY <2>1, <2>2, <3>1, <3>7
    <3>11. (first # 0 /\ first = Len(Map) - 1 => Of(first, first))' BY <2>1, <3>6
    <3> QED BY <3>5, <3>8, <3>9, <3>10, <3>11 DEF KeptInv
  <2> QED BY <1>2, <2>3, <2>4 DEF BootNext, Before
<1>3. CASE SizeOrder \/ MapOrder \/ FinishRegion \/ AllocPhys \/ FreeNPhys \/ FreePhys \/ UNCHANGED vars
  <2>1. base' = base /\ limit' = limit /\ first' = first /\ rn' = rn
    BY <1>3 DEF SizeOrder, MapOrder, FinishRegion, AllocPhys, FreeNPhys, FreePhys, vars, table, boot
  <2>2. pc' = pc \/ (pc' \in {"kmalloc", "size", "boot", "panic", "fault"} /\ pc # "wild")
    BY <1>3 DEF SizeOrder, MapOrder, FinishRegion, AllocPhys, Wanted, FreeNPhys, FreePhys, vars
  <2>3. (\A k : Before(k)' = Before(k)) /\ Of(first, first)' = Of(first, first) /\ \A k : Of(Before(k), k)' = Of(Before(k), k)
    BY <2>1 DEF Before, Of
  <2> QED BY <2>1, <2>2, <2>3 DEF KeptInv
<1> QED BY <1>1, <1>2, <1>3 DEF Next

\* initPMM() leaves every entry of every map its region, but for the one that
\* was parsed first; that one keeps it when one entry follows.
THEOREM EntriesKept == Spec => []RegionsKept
<1>1. Init => KeptInv
  <2> SUFFICES ASSUME Init PROVE KeptInv OBVIOUS
  <2>1. /\ base \in [Region -> Nat] /\ limit \in [Region -> Nat] /\ rn = 0 /\ first = 0 /\ pc = "boot1"
        /\ 0 \in 0 .. Len(Map)
    BY Bounds DEF Init
  <2>2. \A k \in Idx : ~ (Before(k) < rn) BY <2>1, BeforeIn
  <2> QED BY <2>1, <2>2, CountNat DEF KeptInv
<1>2. KeptInv /\ [Next]_vars => KeptInv' BY KeptStep
<1>3. ASSUME KeptInv PROVE RegionsKept
  <2> SUFFICES ASSUME pc = "run", NEW k \in Idx, k # first \/ k = Len(Map) - 1
               PROVE  \E r \in 0 .. RegionCount - 1 : Of(r, k)
    BY DEF RegionsKept, Of
  <2>1. RegionCount \in Nat /\ Len(Map) \in Nat BY CountNat, Bounds
  <2>2. CASE k = first
    <3>1. k \in 0 .. RegionCount - 1 /\ Of(k, k) BY <1>3, <2>1, <2>2, Bounds DEF KeptInv
    <3> QED BY <3>1
  <2>3. CASE k # first
    <3>1. Before(k) \in Nat /\ Before(k) < rn BY <1>3, <2>3, BeforeBelow DEF KeptInv
    <3>2. Of(Before(k), k) BY <1>3, <2>3, <3>1 DEF KeptInv
    <3>3. Before(k) \in 0 .. RegionCount - 1 BY <1>3, <2>1, <3>1 DEF KeptInv
    <3> QED BY <3>2, <3>3
  <2> QED BY <2>2, <2>3
<1> QED BY <1>1, <1>2, <1>3, PTL DEF Spec
=============================================================================
