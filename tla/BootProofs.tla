----------------------------- MODULE BootProofs ------------------------------
(***************************************************************************)
(* Proofs about the page tables and the boot loader: for every set of      *)
(* addresses and frames, every kernel file and every memory map.           *)
(***************************************************************************)
EXTENDS Paging, Loader, SequenceTheorems, WellFoundedInduction, TLAPS

USE DEF Memory

-----------------------------------------------------------------------------
(* The way down the tables m for the address v: the table of each level, 0   *)
(* where there is none, and the entry at its end.                            *)

T2(m, v) == m[Root][v[1]].base
T3(m, v) == IF T2(m, v) = 0 THEN 0 ELSE m[T2(m, v)][v[2]].base
T4(m, v) == IF T3(m, v) = 0 THEN 0 ELSE m[T3(m, v)][v[3]].base
Tab(m, v, l) == IF l = 1 THEN Root ELSE IF l = 2 THEN T2(m, v) ELSE IF l = 3 THEN T3(m, v) ELSE T4(m, v)
PteOf(m, v) == IF T4(m, v) = 0 THEN Empty ELSE m[T4(m, v)][v[4]]

LEMMA WalkIs ==
  ASSUME NEW v
  PROVE  /\ Walk(v).pte = PteOf(mem, v) /\ \A l \in 1 .. 4 : Walk(v).tables[l] = Tab(mem, v, l)
         /\ (Walk(v).pte)' = PteOf(mem', v) /\ \A l \in 1 .. 4 : (Walk(v).tables)'[l] = Tab(mem', v, l)
<1>1. Walk(v) = [tables |-> <<Root, T2(mem, v), T3(mem, v), T4(mem, v)>>, pte |-> PteOf(mem, v)]
  BY DEF Walk, EntryOf, T2, T3, T4, PteOf
<1>2. Walk(v)' = [tables |-> <<Root, T2(mem', v), T3(mem', v), T4(mem', v)>>, pte |-> PteOf(mem', v)]
  BY DEF Walk, EntryOf, T2, T3, T4, PteOf, Empty
<1>3. ASSUME NEW a, NEW b, NEW c, NEW l \in 1 .. 4
      PROVE  <<Root, a, b, c>>[l] = IF l = 1 THEN Root ELSE IF l = 2 THEN a ELSE IF l = 3 THEN b ELSE c
  <2>1. l = 1 \/ l = 2 \/ l = 3 \/ l = 4 OBVIOUS
  <2> QED BY <2>1
<1> QED BY <1>1, <1>2, <1>3 DEF Tab

\* Each table is the base of an entry of the one above.
LEMMA TabStep ==
  ASSUME NEW m, NEW v, NEW l \in 1 .. 3
  PROVE  Tab(m, v, l + 1) = IF Tab(m, v, l) = 0 THEN 0 ELSE m[Tab(m, v, l)][v[l]].base
<1>1. Root # 0 BY PagingAssumption
<1>2. CASE l = 1 BY <1>1, <1>2 DEF Tab, T2
<1>3. CASE l = 2 BY <1>3 DEF Tab, T3
<1>4. CASE l = 3 BY <1>4 DEF Tab, T4
<1> QED BY <1>2, <1>3, <1>4

LEMMA TabEnds ==
  ASSUME NEW m, NEW v
  PROVE  /\ Tab(m, v, 1) = Root
         /\ PteOf(m, v) = IF Tab(m, v, 4) = 0 THEN Empty ELSE m[Tab(m, v, 4)][v[4]]
BY DEF Tab, PteOf

\* Two ways that begin alike pass the same tables.
SameTo(u, v, l) == \A j \in 1 .. l - 1 : u[j] = v[j]

LEMMA TabPrefix ==
  ASSUME NEW m, NEW u, NEW v, NEW l \in 1 .. 4, SameTo(u, v, l) PROVE Tab(m, u, l) = Tab(m, v, l)
<1>1. CASE l = 1 BY <1>1 DEF Tab
<1>2. CASE l = 2
  <2>1. u[1] = v[1] BY <1>2 DEF SameTo
  <2> QED BY <1>2, <2>1 DEF Tab, T2
<1>3. CASE l = 3
  <2>1. u[1] = v[1] /\ u[2] = v[2] BY <1>3 DEF SameTo
  <2> QED BY <1>3, <2>1 DEF Tab, T2, T3
<1>4. CASE l = 4
  <2>1. u[1] = v[1] /\ u[2] = v[2] /\ u[3] = v[3] BY <1>4 DEF SameTo
  <2> QED BY <1>4, <2>1 DEF Tab, T2, T3, T4
<1> QED BY <1>1, <1>2, <1>3, <1>4

\* A way that goes on has come from somewhere.
LEMMA TabUp ==
  ASSUME NEW m, NEW v, Tab(m, v, 4) # 0 PROVE \A l \in 1 .. 4 : Tab(m, v, l) # 0
<1>1. Tab(m, v, 4) = IF Tab(m, v, 3) = 0 THEN 0 ELSE m[Tab(m, v, 3)][v[3]].base
  <2>1. 3 \in 1 .. 3 OBVIOUS
  <2> QED BY <2>1, TabStep
<1>2. Tab(m, v, 3) = IF Tab(m, v, 2) = 0 THEN 0 ELSE m[Tab(m, v, 2)][v[2]].base
  <2>1. 2 \in 1 .. 3 OBVIOUS
  <2> QED BY <2>1, TabStep
<1>3. Tab(m, v, 1) # 0 BY PagingAssumption DEF Tab
<1>4. \A l \in 1 .. 4 : l = 1 \/ l = 2 \/ l = 3 \/ l = 4 OBVIOUS
<1> QED BY <1>1, <1>2, <1>3, <1>4

-----------------------------------------------------------------------------
(* The tables are a tree *)

\* A table is reached at one level and by one way only, and no free one is;
\* an entry that can be written has levels above that can.
Tree(m, fr) ==
  /\ \A v \in Virt, l \in 1 .. 4 : Tab(m, v, l) \in {0} \cup (Tables \ fr)
  /\ \A u, v \in Virt, k, l \in 1 .. 4 :
       Tab(m, u, k) = Tab(m, v, l) /\ Tab(m, u, k) # 0 => k = l /\ SameTo(u, v, l)
  /\ \A v \in Virt : PteOf(m, v).base # 0 /\ PteOf(m, v).w =>
       \A l \in 1 .. 3 : m[Tab(m, v, l)][v[l]].w

PagesInv ==
  /\ mem \in [Memory -> [Index -> PageEntry]] /\ free \subseteq Tables
  /\ Tree(mem, free)
  /\ call # Idle => /\ call.v \in Virt /\ call.phys \in Phys /\ call.w \in BOOLEAN /\ call.c \in Caching
                    /\ call.at \in Seq(Tables) /\ Len(call.at) \in 1 .. 4
                    /\ \A l \in 1 .. Len(call.at) : call.at[l] = Tab(mem, call.v, l)

\* A mapped page's right to write is its entry's.
LEMMA Rights ==
  ASSUME PagesInv, NEW v \in Virt, PteOf(mem, v).base # 0
  PROVE  CanWrite(v) <=> PteOf(mem, v).w
<1>1. Tab(mem, v, 4) # 0 BY TabEnds DEF Empty
<1>2. \A l \in 1 .. 4 : Tab(mem, v, l) # 0 BY <1>1, TabUp
<1>3. PteOf(mem, v) = mem[Tab(mem, v, 4)][v[4]] BY <1>1, TabEnds
<1>4. CanWrite(v) <=> \A l \in 1 .. 4 : mem[Tab(mem, v, l)][v[l]].w
  BY <1>2, WalkIs DEF CanWrite, EntryOf
<1>5. \A l \in 1 .. 4 : l \in 1 .. 3 \/ l = 4 OBVIOUS
<1> QED BY <1>3, <1>4, <1>5 DEF PagesInv, Tree

\* The map that the tables stand for, by the last entries alone.
MapOf(m) ==
  [v \in {u \in Virt : PteOf(m, u).base # 0} |-> [phys |-> PteOf(m, v).base, w |-> PteOf(m, v).w]]

LEMMA Indices == ASSUME NEW v \in Virt PROVE \A l \in 1 .. 4 : v[l] \in Index
BY PagingAssumption

LEMMA PteTyped ==
  ASSUME NEW m \in [Memory -> [Index -> PageEntry]], NEW fr, Tree(m, fr), NEW v \in Virt
  PROVE  PteOf(m, v) \in PageEntry
<1>1. 4 \in 1 .. 4 OBVIOUS
<1>2. Tab(m, v, 4) # 0 => Tab(m, v, 4) \in Tables BY <1>1 DEF Tree
<1>3. v[4] \in Index BY <1>1, Indices
<1>4. Empty \in PageEntry BY DEF Empty, PageEntry
<1> HIDE DEF Empty, PageEntry
<1> QED BY <1>2, <1>3, <1>4, TabEnds

LEMMA PageMapIs == PagesInv => PageMap = MapOf(mem) /\ Mapped = {u \in Virt : PteOf(mem, u).base # 0}
<1> SUFFICES ASSUME PagesInv PROVE PageMap = MapOf(mem) /\ Mapped = {u \in Virt : PteOf(mem, u).base # 0}
  OBVIOUS
<1>1. Mapped = {u \in Virt : PteOf(mem, u).base # 0} BY WalkIs DEF Mapped
<1>2. ASSUME NEW v \in Mapped
      PROVE  [phys |-> Walk(v).pte.base, w |-> CanWrite(v)] = [phys |-> PteOf(mem, v).base, w |-> PteOf(mem, v).w]
  <2>1. v \in Virt /\ PteOf(mem, v).base # 0 BY <1>1
  <2>2. Walk(v).pte.base = PteOf(mem, v).base BY WalkIs
  <2>3. PteOf(mem, v) \in PageEntry BY <2>1, PteTyped DEF PagesInv
  <2>4. PteOf(mem, v).w \in BOOLEAN BY <2>3 DEF PageEntry
  <2>5. CanWrite(v) \in BOOLEAN BY DEF CanWrite
  <2>6. CanWrite(v) = PteOf(mem, v).w BY <2>1, <2>4, <2>5, Rights
  <2> QED BY <2>2, <2>6
<1>3. PageMap = MapOf(mem) BY <1>1, <1>2 DEF PageMap, MapOf
<1> QED BY <1>1, <1>3

LEMMA PageMapNext ==
  PagesInv' => PageMap' = MapOf(mem') /\ Mapped' = {u \in Virt : PteOf(mem', u).base # 0}
<1>1. (PagesInv => PageMap = MapOf(mem) /\ Mapped = {u \in Virt : PteOf(mem, u).base # 0})'
  BY PageMapIs, PTL
<1>2. \A u : PteOf(mem, u)' = PteOf(mem', u) BY DEF PteOf, T4, T3, T2, Empty
<1>3. MapOf(mem)' = MapOf(mem') BY DEF MapOf, PteOf, T4, T3, T2, Empty
<1> QED BY <1>1, <1>2, <1>3

LEMMA PagesNext ==
  ASSUME /\ mem' \in [Memory -> [Index -> PageEntry]] /\ free' \subseteq Tables /\ Tree(mem', free')
         /\ call' # Idle =>
              /\ call'.v \in Virt /\ call'.phys \in Phys /\ call'.w \in BOOLEAN /\ call'.c \in Caching
              /\ call'.at \in Seq(Tables) /\ Len(call'.at) \in 1 .. 4
              /\ \A l \in 1 .. Len(call'.at) : call'.at[l] = Tab(mem', call'.v, l)
  PROVE  PagesInv'
<1>1. Tree(mem, free)' <=> Tree(mem', free')
  BY DEF Tree, Tab, T2, T3, T4, PteOf, SameTo, Empty
<1>2. \A v, l : Tab(mem, v, l)' = Tab(mem', v, l) BY DEF Tab, T2, T3, T4
<1>3. \A l : Tab(mem, call.v, l)' = Tab(mem', call'.v, l) BY DEF Tab, T2, T3, T4
<1> QED BY <1>1, <1>3 DEF PagesInv, PageEntry, Idle

-----------------------------------------------------------------------------
(* A new table *)

\* The tables n2 are m but for one base, in the entry of level k on the way of
\* v, which leads to the new table t.
LinkedTable(m, n2, v, k, t) ==
  /\ n2 \in [Memory -> [Index -> PageEntry]]
  /\ \A c \in Memory, y \in Index :
       IF c = Tab(m, v, k) /\ y = v[k] THEN n2[c][y].base = t /\ n2[c][y].w = m[c][y].w
       ELSE n2[c][y] = m[c][y]

LEMMA EntryChange ==
  ASSUME NEW m \in [Memory -> [Index -> PageEntry]], NEW fr \in SUBSET Tables, Tree(m, fr),
         NEW v \in Virt, NEW k \in 1 .. 3, NEW t \in fr, Tab(m, v, k) # 0
  PROVE  LinkedTable(m, [m EXCEPT ![Tab(m, v, k)][v[k]].base = t], v, k, t)
<1> DEFINE a == Tab(m, v, k)  x == v[k]  e == [m[a][x] EXCEPT !.base = t]
           n2 == [m EXCEPT ![a] = [m[a] EXCEPT ![x] = e]]
<1>1. a \in Tables /\ x \in Index /\ t \in Tables
  <2>1. k \in 1 .. 4 OBVIOUS
  <2> QED BY <2>1, Indices DEF Tree
<1>2. m[a][x] \in PageEntry BY <1>1
<1>3. e \in PageEntry /\ e.base = t /\ e.w = m[a][x].w BY <1>1, <1>2 DEF PageEntry
<1>4. [m EXCEPT ![a][x].base = t] = n2 OBVIOUS
<1> HIDE DEF e, PageEntry, a, x
<1>5. n2 \in [Memory -> [Index -> PageEntry]] BY <1>1, <1>3
<1>6. \A c \in Memory, y \in Index : n2[c][y] = IF c = a /\ y = x THEN e ELSE m[c][y] BY <1>1
<1> HIDE DEF n2
<1>7. LinkedTable(m, n2, v, k, t) BY <1>3, <1>5, <1>6 DEF LinkedTable, a, x
<1> QED BY <1>4, <1>7 DEF a, x

LEMMA TableChange ==
  ASSUME NEW m, NEW fr \in SUBSET Tables, Tree(m, fr),
         NEW v \in Virt, NEW k \in 1 .. 3, NEW t \in fr, \A y \in Index : m[t][y] = Empty,
         Tab(m, v, k) # 0, Tab(m, v, k + 1) = 0, NEW n2, LinkedTable(m, n2, v, k, t)
  PROVE  /\ \A u \in Virt, l \in 1 .. 4 :
              Tab(n2, u, l) = IF l = k + 1 /\ SameTo(u, v, l) THEN t ELSE Tab(m, u, l)
         /\ \A u \in Virt : PteOf(n2, u) = PteOf(m, u)
<1> DEFINE a == Tab(m, v, k)  x == v[k]
<1>1. a \in Tables \ fr /\ x \in Index /\ t # a /\ t \in Tables /\ t # 0
  <2>1. k \in 1 .. 4 OBVIOUS
  <2> QED BY <2>1, Indices, PagingAssumption DEF Tree
<1>6. \A c \in Memory, y \in Index :
        IF c = a /\ y = x THEN n2[c][y].base = t ELSE n2[c][y] = m[c][y]
  BY DEF LinkedTable
<1>7. \A y \in Index : n2[t][y] = Empty BY <1>1, <1>6 
<1>8. \A u \in Virt, l \in 1 .. 4 : Tab(m, u, l) \in {0} \cup (Tables \ fr) BY DEF Tree
<1>9. \A u \in Virt, l \in 1 .. 4 : Tab(m, u, l) = a => l = k /\ SameTo(u, v, k)
  <2>1. k \in 1 .. 4 OBVIOUS
  <2> QED BY <1>1, <2>1, PagingAssumption DEF Tree
<1> DEFINE Q(u, l) == Tab(n2, u, l) = IF l = k + 1 /\ SameTo(u, v, l) THEN t ELSE Tab(m, u, l)
<1>10. ASSUME NEW u \in Virt, NEW l \in 1 .. 3, Q(u, l) PROVE Q(u, l + 1)
  <2>1. l \in 1 .. 4 /\ u[l] \in Index
    <3>1. l \in 1 .. 4 OBVIOUS
    <3> QED BY <3>1, Indices
  <2>2. Tab(n2, u, l + 1) = IF Tab(n2, u, l) = 0 THEN 0 ELSE n2[Tab(n2, u, l)][u[l]].base BY TabStep
  <2>3. Tab(m, u, l + 1) = IF Tab(m, u, l) = 0 THEN 0 ELSE m[Tab(m, u, l)][u[l]].base BY TabStep
  <2>4. CASE l = k + 1 /\ SameTo(u, v, l)
    <3>1. Tab(n2, u, l) = t BY <1>10, <2>4
    <3>2. Tab(n2, u, l + 1) = 0 BY <1>1, <1>7, <2>1, <2>2, <3>1 DEF Empty
    <3>3. Tab(m, u, l) = 0 BY <2>1, <2>4, TabPrefix
    <3>4. Tab(m, u, l + 1) = 0 BY <2>3, <3>3
    <3>5. l + 1 # k + 1 BY <2>4
    <3> QED BY <3>2, <3>4, <3>5
  <2>5. CASE ~ (l = k + 1 /\ SameTo(u, v, l))
    <3>1. Tab(n2, u, l) = Tab(m, u, l) BY <1>10, <2>5
    <3>2. CASE Tab(m, u, l) = 0
      <4>1. Tab(n2, u, l + 1) = 0 /\ Tab(m, u, l + 1) = 0 BY <2>2, <2>3, <3>1, <3>2
      <4>2. ~ (l + 1 = k + 1 /\ SameTo(u, v, l + 1))
        <5>1. SUFFICES ASSUME l = k, SameTo(u, v, l + 1) PROVE FALSE OBVIOUS
        <5>2. SameTo(u, v, k) BY <5>1 DEF SameTo
        <5>3. Tab(m, u, k) = a BY <2>1, <5>1, <5>2, TabPrefix
        <5> QED BY <3>2, <5>1, <5>3
      <4> QED BY <4>1, <4>2
    <3>3. CASE Tab(m, u, l) # 0
      <4>1. Tab(m, u, l) \in Tables BY <1>8, <2>1, <3>3
      <4>2. Tab(n2, u, l + 1) = IF Tab(m, u, l) = a /\ u[l] = x THEN t ELSE m[Tab(m, u, l)][u[l]].base
        BY <1>6, <2>1, <2>2, <3>1, <3>3, <4>1
      <4>3. CASE Tab(m, u, l) = a /\ u[l] = x
        <5>1. l = k /\ SameTo(u, v, k) BY <1>9, <2>1, <4>3
        <5>2. SameTo(u, v, l + 1)
          <6>1. \A j \in 1 .. l + 1 - 1 : j \in 1 .. k - 1 \/ j = k BY <5>1
          <6> QED BY <4>3, <5>1, <6>1 DEF SameTo
        <5> QED BY <4>2, <4>3, <5>1, <5>2
      <4>4. CASE ~ (Tab(m, u, l) = a /\ u[l] = x)
        <5>1. Tab(n2, u, l + 1) = Tab(m, u, l + 1) BY <2>3, <3>3, <4>2, <4>4
        <5>2. ~ (l + 1 = k + 1 /\ SameTo(u, v, l + 1))
          <6>1. SUFFICES ASSUME l = k, SameTo(u, v, l + 1) PROVE FALSE OBVIOUS
          <6>2. SameTo(u, v, k) /\ u[k] = v[k] BY <6>1 DEF SameTo
          <6>3. Tab(m, u, k) = a BY <2>1, <6>1, <6>2, TabPrefix
          <6> QED BY <4>4, <6>1, <6>2, <6>3
        <5> QED BY <5>1, <5>2
      <4> QED BY <4>3, <4>4
    <3> QED BY <3>2, <3>3
  <2> QED BY <2>4, <2>5
<1>11. ASSUME NEW u \in Virt PROVE Q(u, 1) /\ Q(u, 2) /\ Q(u, 3) /\ Q(u, 4)
  <2>1. Q(u, 1)
    <3>1. 1 # k + 1 OBVIOUS
    <3> QED BY <3>1, TabEnds
  <2> HIDE DEF Q
  <2>2. Q(u, 1 + 1) BY <1>10, <2>1
  <2>3. Q(u, 2) BY <2>2
  <2>4. Q(u, 2 + 1) BY <1>10, <2>3
  <2>5. Q(u, 3) BY <2>4
  <2>6. Q(u, 3 + 1) BY <1>10, <2>5
  <2>7. Q(u, 4) BY <2>6
  <2> QED BY <2>1, <2>3, <2>5, <2>7
<1>12. \A u \in Virt, l \in 1 .. 4 : Q(u, l)
  <2> HIDE DEF Q
  <2> TAKE u \in Virt, l \in 1 .. 4
  <2>1. l = 1 \/ l = 2 \/ l = 3 \/ l = 4 OBVIOUS
  <2> QED BY <1>11, <2>1
<1>13. ASSUME NEW u \in Virt PROVE PteOf(n2, u) = PteOf(m, u)
  <2>1. 4 \in 1 .. 4 /\ u[4] \in Index
    <3>1. 4 \in 1 .. 4 OBVIOUS
    <3> QED BY <3>1, Indices
  <2>2. CASE Tab(n2, u, 4) = Tab(m, u, 4)
    <3>1. Tab(m, u, 4) # 0 => Tab(m, u, 4) \in Tables BY <1>8, <2>1
    <3>2. Tab(m, u, 4) # a
      <4>1. 4 # k OBVIOUS
      <4> QED BY <1>9, <2>1, <4>1
    <3> QED BY <1>6, <2>1, <2>2, <3>1, <3>2, TabEnds
  <2>3. CASE Tab(n2, u, 4) # Tab(m, u, 4)
    <3>1. 4 = k + 1 /\ SameTo(u, v, 4) /\ Tab(n2, u, 4) = t BY <1>12, <2>1, <2>3
    <3>2. PteOf(n2, u) = Empty BY <1>1, <1>7, <2>1, <3>1, TabEnds
    <3>3. Tab(m, u, 4) = Tab(m, v, 4) BY <2>1, <3>1, TabPrefix
    <3>4. PteOf(m, u) = Empty BY <3>1, <3>3, TabEnds
    <3> QED BY <3>2, <3>4
  <2> QED BY <2>2, <2>3
<1> QED BY <1>12, <1>13

\* What a free frame holds makes no difference.
LEMMA FreeChange ==
  ASSUME NEW m, NEW fr \in SUBSET Tables, Tree(m, fr),
         NEW n2, \A c \in Tables \ fr : n2[c] = m[c]
  PROVE  /\ \A u \in Virt, l \in 1 .. 4 : Tab(n2, u, l) = Tab(m, u, l)
         /\ \A u \in Virt : PteOf(n2, u) = PteOf(m, u)
         /\ Tree(n2, fr)
<1>1. \A u \in Virt, l \in 1 .. 4 : Tab(m, u, l) \in {0} \cup (Tables \ fr) BY DEF Tree
<1>2. \A c \in Tables \ fr : n2[c] = m[c] OBVIOUS
<1> DEFINE Q(u, l) == Tab(n2, u, l) = Tab(m, u, l)
<1>3. ASSUME NEW u \in Virt, NEW l \in 1 .. 3, Q(u, l) PROVE Q(u, l + 1)
  <2>1. l \in 1 .. 4 OBVIOUS
  <2>2. Tab(n2, u, l + 1) = IF Tab(n2, u, l) = 0 THEN 0 ELSE n2[Tab(n2, u, l)][u[l]].base BY TabStep
  <2>3. Tab(m, u, l + 1) = IF Tab(m, u, l) = 0 THEN 0 ELSE m[Tab(m, u, l)][u[l]].base BY TabStep
  <2> QED BY <1>1, <1>2, <1>3, <2>1, <2>2, <2>3
<1>4. ASSUME NEW u \in Virt PROVE Q(u, 1) /\ Q(u, 2) /\ Q(u, 3) /\ Q(u, 4)
  <2>1. Q(u, 1) BY TabEnds
  <2> HIDE DEF Q
  <2>2. Q(u, 1 + 1) BY <1>3, <2>1
  <2>3. Q(u, 2) BY <2>2
  <2>4. Q(u, 2 + 1) BY <1>3, <2>3
  <2>5. Q(u, 3) BY <2>4
  <2>6. Q(u, 3 + 1) BY <1>3, <2>5
  <2>7. Q(u, 4) BY <2>6
  <2> QED BY <2>1, <2>3, <2>5, <2>7
<1>5. ASSUME NEW u \in Virt, NEW l \in 1 .. 4 PROVE Q(u, l)
  <2> HIDE DEF Q
  <2>1. l = 1 \/ l = 2 \/ l = 3 \/ l = 4 OBVIOUS
  <2> QED BY <1>4, <2>1
<1>6. ASSUME NEW u \in Virt PROVE PteOf(n2, u) = PteOf(m, u)
  <2>1. 4 \in 1 .. 4 OBVIOUS
  <2> QED BY <1>1, <1>2, <1>5, <2>1, TabEnds
<1>7. ASSUME NEW u \in Virt, PteOf(n2, u).base # 0, PteOf(n2, u).w, NEW l \in 1 .. 3
      PROVE  n2[Tab(n2, u, l)][u[l]].w
  <2>1. PteOf(m, u).base # 0 /\ PteOf(m, u).w BY <1>6, <1>7
  <2>2. Tab(m, u, 4) # 0 BY <2>1, TabEnds DEF Empty
  <2>3. l \in 1 .. 4 /\ Tab(m, u, l) # 0
    <3>1. l \in 1 .. 4 OBVIOUS
    <3> QED BY <2>2, <3>1, TabUp
  <2> QED BY <1>1, <1>2, <1>5, <2>1, <2>3 DEF Tree
<1>8. \A u, w \in Virt, i, l \in 1 .. 4 :
        Tab(n2, u, i) = Tab(n2, w, l) /\ Tab(n2, u, i) # 0 => i = l /\ SameTo(u, w, l)
  BY <1>5 DEF Tree
<1>9. \A u \in Virt, l \in 1 .. 4 : Tab(n2, u, l) \in {0} \cup (Tables \ fr) BY <1>1, <1>5
<1> QED BY <1>5, <1>6, <1>7, <1>8, <1>9 DEF Tree

\* The tree with the new table is a tree.
LEMMA TableTree ==
  ASSUME NEW m, NEW fr \in SUBSET Tables, Tree(m, fr),
         NEW v \in Virt, NEW k \in 1 .. 3, NEW t \in fr, \A y \in Index : m[t][y] = Empty,
         Tab(m, v, k) # 0, Tab(m, v, k + 1) = 0, NEW n2, LinkedTable(m, n2, v, k, t)
  PROVE  Tree(n2, fr \ {t})
<1> DEFINE a == Tab(m, v, k)
<1>0. \A c \in Memory, x \in Index : n2[c][x].w = m[c][x].w /\ (c # a => n2[c][x] = m[c][x])
  BY DEF LinkedTable
<1>1. /\ \A u \in Virt, l \in 1 .. 4 :
           Tab(n2, u, l) = IF l = k + 1 /\ SameTo(u, v, l) THEN t ELSE Tab(m, u, l)
      /\ \A u \in Virt : PteOf(n2, u) = PteOf(m, u)
  BY TableChange
<1>2. \A u \in Virt, l \in 1 .. 4 : Tab(m, u, l) \in {0} \cup (Tables \ fr) BY DEF Tree
<1>3. \A u \in Virt, l \in 1 .. 4 : Tab(n2, u, l) \in {0} \cup (Tables \ (fr \ {t})) BY <1>1, <1>2
<1>4. ASSUME NEW u \in Virt, NEW w \in Virt, NEW i \in 1 .. 4, NEW l \in 1 .. 4,
             Tab(n2, u, i) = Tab(n2, w, l), Tab(n2, u, i) # 0
      PROVE  i = l /\ SameTo(u, w, l)
  <2>1. t \notin {0} \cup (Tables \ fr) BY PagingAssumption
  <2>2. CASE Tab(n2, u, i) = t
    <3>1. i = k + 1 /\ SameTo(u, v, i) BY <1>1, <1>2, <2>1, <2>2
    <3>2. l = k + 1 /\ SameTo(w, v, l) BY <1>1, <1>2, <1>4, <2>1, <2>2
    <3> QED BY <3>1, <3>2 DEF SameTo
  <2>3. CASE Tab(n2, u, i) # t
    <3>1. Tab(n2, u, i) = Tab(m, u, i) /\ Tab(n2, w, l) = Tab(m, w, l) BY <1>1, <1>4, <2>3
    <3> QED BY <1>4, <3>1 DEF Tree
  <2> QED BY <2>2, <2>3
<1>5. a \in Tables \ fr
  <2>1. k \in 1 .. 4 OBVIOUS
  <2> QED BY <1>2, <2>1
<1>7. ASSUME NEW u \in Virt, PteOf(n2, u).base # 0, PteOf(n2, u).w, NEW l \in 1 .. 3
      PROVE  n2[Tab(n2, u, l)][u[l]].w
  <2>1. PteOf(m, u).base # 0 /\ PteOf(m, u).w BY <1>1, <1>7
  <2>2. Tab(m, u, 4) # 0 BY <2>1, TabEnds DEF Empty
  <2>3. l \in 1 .. 4 /\ Tab(m, u, l) # 0
    <3>1. l \in 1 .. 4 OBVIOUS
    <3> QED BY <2>2, <3>1, TabUp
  <2>4. Tab(n2, u, l) = Tab(m, u, l)
    <3>1. ~ (l = k + 1 /\ SameTo(u, v, l))
      <4>1. l = k + 1 /\ SameTo(u, v, l) => Tab(m, u, l) = 0 BY <2>3, TabPrefix
      <4> QED BY <2>3, <4>1
    <3> QED BY <1>1, <2>3, <3>1
  <2>5. Tab(m, u, l) \in Tables /\ u[l] \in Index BY <1>2, <2>3, Indices
  <2> QED BY <1>0, <2>1, <2>4, <2>5 DEF Tree
<1> QED BY <1>3, <1>4, <1>7 DEF Tree

-----------------------------------------------------------------------------
(* The entry is written *)

\* The tables n2 are m but for the last entry of v, which is e, and rights
\* that are added on the way down to it.
Written(m, n2, v, e) ==
  /\ n2 \in [Memory -> [Index -> PageEntry]] /\ e \in PageEntry
  /\ \A c \in Memory, y \in Index :
       IF c = Tab(m, v, 4) /\ y = v[4] THEN n2[c][y] = e
       ELSE /\ n2[c][y].base = m[c][y].base /\ (m[c][y].w => n2[c][y].w)
            /\ (\A l \in 1 .. 3 : c # Tab(m, v, l)) => n2[c][y] = m[c][y]
  /\ e.w => \A l \in 1 .. 3 : n2[Tab(m, v, l)][v[l]].w

LEMMA WriteChange ==
  ASSUME NEW m, NEW fr, Tree(m, fr), NEW v \in Virt, Tab(m, v, 4) # 0,
         NEW n2, NEW e, Written(m, n2, v, e)
  PROVE  /\ \A u \in Virt, l \in 1 .. 4 : Tab(n2, u, l) = Tab(m, u, l)
         /\ \A u \in Virt : PteOf(n2, u) = IF u = v THEN e ELSE PteOf(m, u)
<1> DEFINE a == Tab(m, v, 4)
<1>0. \A l \in 1 .. 3 : l \in 1 .. 4 /\ l # 4 OBVIOUS
<1>1. 4 \in 1 .. 4 OBVIOUS
<1>2. a \in Tables BY <1>1 DEF Tree
<1>3. \A u \in Virt, l \in 1 .. 4 : Tab(m, u, l) \in {0} \cup Tables BY DEF Tree
<1>4. \A u \in Virt, l \in 1 .. 4 : Tab(m, u, l) = a => l = 4 /\ SameTo(u, v, 4) BY <1>1 DEF Tree
<1>5. \A c \in Memory, y \in Index : ~ (c = a /\ y = v[4]) => n2[c][y].base = m[c][y].base
  BY DEF Written
<1> DEFINE Q(u, l) == Tab(n2, u, l) = Tab(m, u, l)
<1>6. ASSUME NEW u \in Virt, NEW l \in 1 .. 3, Q(u, l) PROVE Q(u, l + 1)
  <2>1. u[l] \in Index /\ Tab(m, u, l) # a /\ Tab(m, u, l) \in {0} \cup Tables
    BY <1>0, <1>3, <1>4, Indices
  <2>2. Tab(n2, u, l + 1) = IF Tab(n2, u, l) = 0 THEN 0 ELSE n2[Tab(n2, u, l)][u[l]].base BY TabStep
  <2>3. Tab(m, u, l + 1) = IF Tab(m, u, l) = 0 THEN 0 ELSE m[Tab(m, u, l)][u[l]].base BY TabStep
  <2> QED BY <1>5, <1>6, <2>1, <2>2, <2>3
<1>7. ASSUME NEW u \in Virt PROVE Q(u, 1) /\ Q(u, 2) /\ Q(u, 3) /\ Q(u, 4)
  <2>1. Q(u, 1) BY TabEnds
  <2> HIDE DEF Q
  <2>2. Q(u, 1 + 1) BY <1>6, <2>1
  <2>3. Q(u, 2) BY <2>2
  <2>4. Q(u, 2 + 1) BY <1>6, <2>3
  <2>5. Q(u, 3) BY <2>4
  <2>6. Q(u, 3 + 1) BY <1>6, <2>5
  <2>7. Q(u, 4) BY <2>6
  <2> QED BY <2>1, <2>3, <2>5, <2>7
<1>8. \A u \in Virt, l \in 1 .. 4 : Q(u, l)
  <2> HIDE DEF Q
  <2> TAKE u \in Virt, l \in 1 .. 4
  <2>1. l = 1 \/ l = 2 \/ l = 3 \/ l = 4 OBVIOUS
  <2> QED BY <1>7, <2>1
<1>9. ASSUME NEW u \in Virt PROVE PteOf(n2, u) = IF u = v THEN e ELSE PteOf(m, u)
  <2>1. u[4] \in Index /\ Tab(n2, u, 4) = Tab(m, u, 4) /\ Tab(m, u, 4) \in {0} \cup Tables
    BY <1>1, <1>3, <1>8, Indices
  <2>2. CASE Tab(m, u, 4) = 0
    <3>1. u # v BY <2>2
    <3> QED BY <2>1, <2>2, <3>1, TabEnds
  <2>3. CASE Tab(m, u, 4) # 0
    <3>1. PteOf(n2, u) = n2[Tab(m, u, 4)][u[4]] /\ PteOf(m, u) = m[Tab(m, u, 4)][u[4]]
      BY <2>1, <2>3, TabEnds
    <3>2. CASE u = v BY <1>2, <2>1, <3>1, <3>2 DEF Written
    <3>3. CASE u # v
      <4>1. ~ (Tab(m, u, 4) = a /\ u[4] = v[4])
        <5>1. SUFFICES ASSUME Tab(m, u, 4) = a, u[4] = v[4] PROVE FALSE OBVIOUS
        <5>2. SameTo(u, v, 4) BY <1>1, <1>4, <5>1
        <5>3. u[1] = v[1] /\ u[2] = v[2] /\ u[3] = v[3] BY <5>2 DEF SameTo
        <5>4. u \in [1 .. 4 -> Index] /\ v \in [1 .. 4 -> Index] BY PagingAssumption
        <5>5. \A j \in 1 .. 4 : j = 1 \/ j = 2 \/ j = 3 \/ j = 4 OBVIOUS
        <5>6. \A j \in 1 .. 4 : u[j] = v[j] BY <5>1, <5>3, <5>5
        <5> QED BY <3>3, <5>4, <5>6
      <4>2. \A l \in 1 .. 3 : Tab(m, u, 4) # Tab(m, v, l)
        <5>1. ASSUME NEW l \in 1 .. 3 PROVE Tab(m, u, 4) # Tab(m, v, l)
          <6>1. l \in 1 .. 4 /\ 4 # l BY <1>0
          <6> QED BY <1>1, <2>3, <6>1 DEF Tree
        <5> QED BY <5>1
      <4>3. Tab(m, u, 4) \in Tables BY <2>1, <2>3
      <4>4. n2[Tab(m, u, 4)][u[4]] = m[Tab(m, u, 4)][u[4]] BY <2>1, <4>1, <4>2, <4>3 DEF Written
      <4> QED BY <3>1, <3>3, <4>4
    <3> QED BY <3>2, <3>3
  <2> QED BY <2>2, <2>3
<1> QED BY <1>8, <1>9

LEMMA WriteTree ==
  ASSUME NEW m, NEW fr \in SUBSET Tables, Tree(m, fr), NEW v \in Virt, Tab(m, v, 4) # 0,
         NEW n2, NEW e, Written(m, n2, v, e)
  PROVE  Tree(n2, fr)
<1>0. \A l \in 1 .. 3 : l \in 1 .. 4 /\ l # 4 OBVIOUS
<1>1. /\ \A u \in Virt, l \in 1 .. 4 : Tab(n2, u, l) = Tab(m, u, l)
      /\ \A u \in Virt : PteOf(n2, u) = IF u = v THEN e ELSE PteOf(m, u)
  BY WriteChange
<1>2. \A u \in Virt, l \in 1 .. 4 : Tab(n2, u, l) \in {0} \cup (Tables \ fr) BY <1>1 DEF Tree
<1>3. \A u, w \in Virt, i, l \in 1 .. 4 :
        Tab(n2, u, i) = Tab(n2, w, l) /\ Tab(n2, u, i) # 0 => i = l /\ SameTo(u, w, l)
  BY <1>1 DEF Tree
<1>4. 4 \in 1 .. 4 OBVIOUS
<1>6. ASSUME NEW u \in Virt, PteOf(n2, u).base # 0, PteOf(n2, u).w, NEW l \in 1 .. 3
      PROVE  n2[Tab(n2, u, l)][u[l]].w
  <2>1. l \in 1 .. 4 /\ Tab(n2, u, l) = Tab(m, u, l) BY <1>0, <1>1
  <2>2. CASE u = v
    <3>1. e.w BY <1>1, <1>6, <2>2
    <3> QED BY <2>1, <2>2, <3>1 DEF Written
  <2>3. CASE u # v
    <3>1. PteOf(m, u).base # 0 /\ PteOf(m, u).w BY <1>1, <1>6, <2>3
    <3>2. m[Tab(m, u, l)][u[l]].w BY <3>1 DEF Tree
    <3>3. Tab(m, u, 4) # 0 BY <3>1, TabEnds DEF Empty
    <3>4. Tab(m, u, l) # 0 BY <2>1, <3>3, TabUp
    <3>5. Tab(m, u, l) \in Tables /\ u[l] \in Index BY <2>1, <3>4, Indices DEF Tree
    <3>6. Tab(m, u, l) # Tab(m, v, 4) BY <1>0, <1>4, <3>4 DEF Tree
    <3> QED BY <2>1, <3>2, <3>5, <3>6 DEF Written
  <2> QED BY <2>2, <2>3
<1> QED BY <1>2, <1>3, <1>6 DEF Tree

-----------------------------------------------------------------------------
(* Every step of a call is a step of the map *)

\* Nothing but the call moves.
LEMMA CallMoves ==
  ASSUME PagesInv, UNCHANGED <<mem, free, reply>>,
         call' # Idle =>
           /\ call'.v \in Virt /\ call'.phys \in Phys /\ call'.w \in BOOLEAN /\ call'.c \in Caching
           /\ call'.at \in Seq(Tables) /\ Len(call'.at) \in 1 .. 4
           /\ \A l \in 1 .. Len(call'.at) : call'.at[l] = Tab(mem, call'.v, l)
  PROVE  PagesInv' /\ UNCHANGED <<PageMap, reply>>
<1>1. PagesInv' BY PagesNext DEF PagesInv
<1>2. PageMap' = PageMap BY <1>1, PageMapIs, PageMapNext
<1> QED BY <1>1, <1>2

\* The entry that a running call stands at.
LEMMA HereIs ==
  ASSUME PagesInv, call # Idle, Level < 4
  PROVE  /\ Level \in 1 .. 3 /\ Here.base = Tab(mem, call.v, Level + 1)
         /\ call.at[Level] = Tab(mem, call.v, Level) /\ Tab(mem, call.v, Level) # 0
         /\ Here = mem[Tab(mem, call.v, Level)][call.v[Level]]
<1>1. /\ Level \in 1 .. 3 /\ Level \in 1 .. Len(call.at) /\ call.at \in Seq(Tables)
  <2> DEFINE k == Len(call.at)
  <2>1. call.at \in Seq(Tables) /\ k \in 1 .. 4 BY DEF PagesInv
  <2>2. Level = k BY DEF Level
  <2> HIDE DEF k
  <2>3. k \in 1 .. 3 /\ k \in 1 .. k BY <2>1, <2>2
  <2> QED BY <2>1, <2>2, <2>3 DEF k
<1>2. call.at[Level] = Tab(mem, call.v, Level) BY <1>1 DEF PagesInv
<1>3. call.at[Level] \in Tables BY <1>1, ElementOfSeq
<1>4. Tab(mem, call.v, Level) # 0 BY <1>2, <1>3, PagingAssumption
<1>5. Here = mem[Tab(mem, call.v, Level)][call.v[Level]] BY <1>2 DEF Here, EntryOf
<1>6. Tab(mem, call.v, Level + 1) = Here.base BY <1>1, <1>4, <1>5, TabStep
<1> QED BY <1>1, <1>2, <1>4, <1>5, <1>6

LEMMA DescendStep == ASSUME PagesInv, Descend PROVE PagesInv' /\ UNCHANGED <<PageMap, reply>>
<1> DEFINE k == Level  b == Here.base  s == call.at
<1>1. /\ call # Idle /\ k < 4 /\ b # 0 /\ call' = [call EXCEPT !.at = Append(@, b)]
      /\ UNCHANGED <<mem, free, reply>>
  BY DEF Descend
<1>2. k \in 1 .. 3 /\ b = Tab(mem, call.v, k + 1) BY <1>1, HereIs
<1>3. /\ call.v \in Virt /\ s \in Seq(Tables) /\ k = Len(s)
      /\ \A l \in 1 .. k : s[l] = Tab(mem, call.v, l)
  BY <1>1 DEF PagesInv, Level
<1>4. b \in Tables
  <2>1. k + 1 \in 1 .. 4 BY <1>2
  <2> QED BY <1>1, <1>2, <1>3, <2>1 DEF PagesInv, Tree
<1>5. /\ call'.v = call.v /\ call'.phys = call.phys /\ call'.w = call.w /\ call'.c = call.c
      /\ call'.at = Append(s, b)
  <2>1. call.v \in Virt BY <1>3
  <2> QED BY <1>1
<1> HIDE DEF k, b, s
<1>6. /\ call'.at \in Seq(Tables) /\ Len(call'.at) = k + 1
      /\ \A l \in 1 .. k + 1 : call'.at[l] = IF l = k + 1 THEN b ELSE s[l]
  BY <1>3, <1>4, <1>5, AppendProperties
<1>7. \A l \in 1 .. k + 1 : call'.at[l] = Tab(mem, call'.v, l)
  <2>1. \A l \in 1 .. k + 1 : l = k + 1 \/ l \in 1 .. k BY <1>2
  <2> QED BY <1>2, <1>3, <1>5, <1>6, <2>1
<1>8. Len(call'.at) \in 1 .. 4 BY <1>2, <1>6
<1> QED BY <1>1, <1>5, <1>6, <1>7, <1>8, CallMoves DEF PagesInv

LEMMA MakeStep ==
  ASSUME PagesInv, MakeTable, clean' PROVE PagesInv' /\ UNCHANGED <<PageMap, reply>>
<1> DEFINE k == Level  v == call.v
<1>1. call # Idle /\ k < 4 /\ Here.base = 0 /\ UNCHANGED <<call, reply>> BY DEF MakeTable
<1>2. PICK t \in free : /\ free' = free \ {t} /\ clean' = (clean /\ NewTable(t) = Zeros)
                        /\ mem' = [[mem EXCEPT ![t] = NewTable(t)]
                                     EXCEPT ![call.at[k]][v[k]].base = t]
  BY DEF MakeTable, EntryOf
<1>3. NewTable(t) = Zeros BY <1>2
<1> DEFINE m == [mem EXCEPT ![t] = Zeros]
<1>4. mem' = [m EXCEPT ![call.at[k]][v[k]].base = t] BY <1>2, <1>3
<1>5. /\ k \in 1 .. 3 /\ Tab(mem, v, k + 1) = 0 /\ Tab(mem, v, k) # 0
      /\ call.at[k] = Tab(mem, v, k)
  BY <1>1, HereIs
<1>6. v \in Virt /\ Tree(mem, free) /\ free \in SUBSET Tables /\ mem \in [Memory -> [Index -> PageEntry]]
  BY <1>1 DEF PagesInv
<1>7. m \in [Memory -> [Index -> PageEntry]] /\ \A y \in Index : m[t][y] = Empty
  <2>1. Empty \in PageEntry BY DEF Empty, PageEntry
  <2> HIDE DEF Empty, PageEntry
  <2>2. Zeros \in [Index -> PageEntry] /\ \A y \in Index : Zeros[y] = Empty BY <2>1 DEF Zeros
  <2> QED BY <1>6, <2>2
<1> HIDE DEF k, v
<1>8. m = [mem EXCEPT ![t] = Zeros] OBVIOUS
<1> HIDE DEF m
<1>9. /\ \A u \in Virt, l \in 1 .. 4 : Tab(m, u, l) = Tab(mem, u, l)
      /\ \A u \in Virt : PteOf(m, u) = PteOf(mem, u)
      /\ Tree(m, free)
  <2>1. \A c \in Tables \ free : m[c] = mem[c] BY <1>2, <1>6, <1>8
  <2> QED BY <1>6, <2>1, FreeChange
<1>10. k \in 1 .. 4 /\ k + 1 \in 1 .. 4 BY <1>5
<1>11. Tab(m, v, k + 1) = 0 /\ Tab(m, v, k) # 0 /\ call.at[k] = Tab(m, v, k)
  BY <1>5, <1>6, <1>9, <1>10
<1>12. LinkedTable(m, mem', v, k, t) BY <1>4, <1>5, <1>6, <1>7, <1>9, <1>11, EntryChange
<1>13. Tree(mem', free') BY <1>2, <1>5, <1>6, <1>7, <1>9, <1>11, <1>12, TableTree
<1>14. /\ \A u \in Virt, l \in 1 .. 4 :
            Tab(mem', u, l) = IF l = k + 1 /\ SameTo(u, v, l) THEN t ELSE Tab(m, u, l)
       /\ \A u \in Virt : PteOf(mem', u) = PteOf(m, u)
  BY <1>5, <1>6, <1>7, <1>9, <1>11, <1>12, TableChange
<1>15. \A l \in 1 .. Len(call.at) : call.at[l] = Tab(mem', call.v, l)
  <2>1. Len(call.at) = k BY DEF k, Level
  <2>2. \A l \in 1 .. k : l # k + 1 /\ l \in 1 .. 4 BY <1>5
  <2>3. \A l \in 1 .. k : call.at[l] = Tab(mem, v, l) BY <1>1, <2>1 DEF PagesInv, v
  <2> QED BY <1>6, <1>9, <1>14, <2>1, <2>2, <2>3 DEF v
<1>16. mem' \in [Memory -> [Index -> PageEntry]] BY <1>12 DEF LinkedTable
<1>17. PagesInv' BY <1>1, <1>2, <1>13, <1>15, <1>16, PagesNext DEF PagesInv
<1>18. MapOf(mem') = MapOf(mem) BY <1>9, <1>14 DEF MapOf
<1> QED BY <1>1, <1>17, <1>18, PageMapIs, PageMapNext

\* What WriteEntry does to the tables.
LEMMA WriteIs ==
  ASSUME PagesInv, WriteEntry
  PROVE  /\ call.v \in Virt /\ Tab(mem, call.v, 4) # 0
         /\ Written(mem, mem', call.v, Pte(call.phys, call.w, call.c))
<1> DEFINE v == call.v  e == Pte(call.phys, call.w, call.c)
           up == {<<call.at[l], EntryOf(v, l)>> : l \in 1 .. 3}
           raised(t, x) == [mem[t][x] EXCEPT !.p = TRUE, !.w = @ \/ call.w]
<1>1. /\ call # Idle /\ Len(call.at) = 4
      /\ mem' = [t \in Memory |-> [x \in Index |->
                   IF t = call.at[4] /\ x = EntryOf(v, 4) THEN Pte(call.phys, call.w, call.c)
                   ELSE IF <<t, x>> \in up THEN raised(t, x) ELSE mem[t][x]]]
  BY DEF WriteEntry, Level
<1>2. /\ v \in Virt /\ call.phys \in Phys /\ call.w \in BOOLEAN /\ call.c \in Caching
      /\ call.at \in Seq(Tables) /\ \A l \in 1 .. 4 : call.at[l] = Tab(mem, v, l)
      /\ mem \in [Memory -> [Index -> PageEntry]]
  BY <1>1 DEF PagesInv
<1>3. \A l \in 1 .. 3 : l \in 1 .. 4 /\ l # 4 OBVIOUS
<1>4. \A l \in 1 .. 4 : Tab(mem, v, l) \in Tables /\ v[l] \in Index
  <2>1. \A l \in 1 .. 4 : call.at[l] \in Tables BY <1>1, <1>2, ElementOfSeq
  <2> QED BY <1>2, <2>1, Indices
<1>5. EntryFrame(call.phys, call.c) \in Frames BY <1>2 DEF Frames
<1>6. e \in PageEntry /\ e.w = call.w BY <1>2, <1>5 DEF PageEntry, Pte
<1>7. 4 \in 1 .. 4 OBVIOUS
<1>8. call.at[4] = Tab(mem, v, 4) BY <1>2, <1>7
<1>9. up = {<<Tab(mem, v, l), v[l]>> : l \in 1 .. 3} BY <1>2, <1>3 DEF EntryOf
<1>10. ASSUME NEW t \in Memory, NEW x \in Index
       PROVE  /\ raised(t, x) \in PageEntry /\ raised(t, x).base = mem[t][x].base
              /\ mem[t][x].w => raised(t, x).w
              /\ call.w => raised(t, x).w
  <2>1. mem[t][x] \in PageEntry BY <1>2
  <2>2. mem[t][x].w \in BOOLEAN BY <2>1 DEF PageEntry
  <2>3. (mem[t][x].w \/ call.w) \in BOOLEAN OBVIOUS
  <2>4. raised(t, x).base = mem[t][x].base /\ raised(t, x).w = (mem[t][x].w \/ call.w)
    BY <2>1 DEF PageEntry
  <2>5. raised(t, x) \in PageEntry BY <2>1, <2>3 DEF PageEntry
  <2>6. mem[t][x].w \/ call.w => raised(t, x).w BY <2>4
  <2> QED BY <2>4, <2>5, <2>6
<1> HIDE DEF raised, e, up, PageEntry, v
<1>11. \A t \in Memory, x \in Index :
         mem'[t][x] = IF t = Tab(mem, v, 4) /\ x = v[4] THEN e
                      ELSE IF <<t, x>> \in up THEN raised(t, x) ELSE mem[t][x]
  BY <1>1, <1>8 DEF EntryOf, e
<1>12. mem' \in [Memory -> [Index -> PageEntry]]
  <2>1. DOMAIN mem' = Memory /\ mem' = [t \in Memory |-> mem'[t]] BY <1>1
  <2>2. \A t \in Memory : mem'[t] \in [Index -> PageEntry]
    <3> TAKE t \in Memory
    <3>1. mem'[t] = [x \in Index |-> mem'[t][x]] BY <1>1
    <3>2. ASSUME NEW x \in Index PROVE mem'[t][x] \in PageEntry
      <4>1. raised(t, x) \in PageEntry BY <1>10
      <4>2. mem[t][x] \in PageEntry BY <1>2
      <4>3. mem'[t][x] \in {e, raised(t, x), mem[t][x]} BY <1>11
      <4> QED BY <1>6, <4>1, <4>2, <4>3
    <3> QED BY <3>1, <3>2
  <2> QED BY <2>1, <2>2
<1>13. ASSUME NEW c \in Memory, NEW y \in Index
       PROVE  IF c = Tab(mem, v, 4) /\ y = v[4] THEN mem'[c][y] = e
              ELSE /\ mem'[c][y].base = mem[c][y].base /\ (mem[c][y].w => mem'[c][y].w)
                   /\ (\A l \in 1 .. 3 : c # Tab(mem, v, l)) => mem'[c][y] = mem[c][y]
  <2>1. CASE c = Tab(mem, v, 4) /\ y = v[4] BY <1>11, <2>1
  <2>2. CASE ~ (c = Tab(mem, v, 4) /\ y = v[4]) /\ <<c, y>> \in up
    <3>1. mem'[c][y] = raised(c, y) BY <1>11, <2>2
    <3>2. ~ \A l \in 1 .. 3 : c # Tab(mem, v, l) BY <1>9, <2>2
    <3> QED BY <1>10, <2>2, <3>1, <3>2
  <2>3. CASE ~ (c = Tab(mem, v, 4) /\ y = v[4]) /\ <<c, y>> \notin up
    <3>1. mem'[c][y] = mem[c][y] BY <1>11, <2>3
    <3> QED BY <2>3, <3>1
  <2> QED BY <2>1, <2>2, <2>3
<1>14. ASSUME e.w, NEW l \in 1 .. 3 PROVE mem'[Tab(mem, v, l)][v[l]].w
  <2>1. Tab(mem, v, l) # Tab(mem, v, 4)
    <3>1. l \in 1 .. 4 /\ l # 4 BY <1>3
    <3>2. Tab(mem, v, l) # 0 BY <1>4, <3>1, PagingAssumption
    <3> QED BY <1>2, <1>7, <3>1, <3>2 DEF PagesInv, Tree
  <2>2. <<Tab(mem, v, l), v[l]>> \in up BY <1>9
  <2>3. Tab(mem, v, l) \in Tables /\ v[l] \in Index BY <1>3, <1>4
  <2>4. mem'[Tab(mem, v, l)][v[l]] = raised(Tab(mem, v, l), v[l]) BY <1>11, <2>1, <2>2, <2>3
  <2>5. call.w BY <1>6, <1>14
  <2> QED BY <1>10, <2>3, <2>4, <2>5
<1>15. Written(mem, mem', v, e) BY <1>6, <1>12, <1>13, <1>14 DEF Written
<1>16. Tab(mem, v, 4) # 0 BY <1>4, <1>7, PagingAssumption
<1> QED BY <1>2, <1>15, <1>16 DEF v, e

LEMMA WriteStep ==
  ASSUME PagesInv, WriteEntry PROVE PagesInv' /\ P!DNext
<1> DEFINE v == call.v  e == Pte(call.phys, call.w, call.c)
           d == [phys |-> EntryFrame(call.phys, call.c), w |-> call.w]
<1>1. v \in Virt /\ Tab(mem, v, 4) # 0 /\ Written(mem, mem', v, e) BY WriteIs
<1>2. /\ call # Idle /\ call' = Idle /\ free' = free
      /\ reply' = [key |-> v, found |-> TRUE, data |-> d]
  BY DEF WriteEntry, Reply
<1>3. /\ Tree(mem, free) /\ free \in SUBSET Tables
      /\ call.phys \in Phys /\ call.w \in BOOLEAN /\ call.c \in Caching
  BY <1>2 DEF PagesInv
<1>4. /\ e.base = EntryFrame(call.phys, call.c) /\ e.w = call.w
      /\ d \in [phys : Frames, w : BOOLEAN]
  BY <1>3 DEF Pte, Frames
<1>5. e.base # 0 BY <1>3, <1>4, PagingAssumption DEF EntryFrame
<1>6. d = [phys |-> e.base, w |-> e.w] BY <1>4
<1> HIDE DEF v, e, d
<1>7. Tree(mem', free) BY <1>1, <1>3, WriteTree
<1>8. mem' \in [Memory -> [Index -> PageEntry]] BY <1>1 DEF Written
<1>9. PagesInv' BY <1>2, <1>3, <1>7, <1>8, PagesNext
<1>10. \A u \in Virt : PteOf(mem', u) = IF u = v THEN e ELSE PteOf(mem, u)
  BY <1>1, <1>3, WriteChange
<1>11. Mapped' = Mapped \cup {v} BY <1>1, <1>5, <1>9, <1>10, PageMapIs, PageMapNext
<1>12. PageMap' = [x \in DOMAIN PageMap \cup {v} |-> IF x = v THEN d ELSE PageMap[x]]
  <2>1. PageMap = MapOf(mem) /\ PageMap' = MapOf(mem') BY <1>9, PageMapIs, PageMapNext
  <2>2. DOMAIN PageMap = {u \in Virt : PteOf(mem, u).base # 0} BY <2>1 DEF MapOf
  <2>3. {u \in Virt : PteOf(mem', u).base # 0} = DOMAIN PageMap \cup {v} BY <1>1, <1>5, <1>10, <2>2
  <2>4. ASSUME NEW x \in DOMAIN PageMap \cup {v}
        PROVE  [phys |-> PteOf(mem', x).base, w |-> PteOf(mem', x).w] = IF x = v THEN d ELSE PageMap[x]
    <3>1. CASE x = v BY <1>1, <1>6, <1>10, <3>1
    <3>2. CASE x # v
      <4>1. x \in Virt /\ x \in DOMAIN PageMap BY <2>2, <2>4, <3>2
      <4>2. PageMap[x] = [phys |-> PteOf(mem, x).base, w |-> PteOf(mem, x).w]
        BY <2>1, <2>2, <4>1 DEF MapOf
      <4> QED BY <1>10, <3>2, <4>1, <4>2
    <3> QED BY <3>1, <3>2
  <2> QED BY <2>1, <2>3, <2>4 DEF MapOf
<1>13. P!Put BY <1>1, <1>4, <1>12 DEF P!Put
<1>14. v \in DOMAIN PageMap' /\ PageMap'[v] = d BY <1>12
<1>15. P!Right' BY <1>2, <1>14 DEF P!Right
<1> QED BY <1>9, <1>13, <1>15 DEF P!DNext

LEMMA LookStep == ASSUME PagesInv, NEW v \in Virt, virtToPhysInt(v) PROVE PagesInv' /\ P!DNext
<1> DEFINE e == PteOf(mem, v)
<1>1. UNCHANGED <<mem, free, call>> BY DEF virtToPhysInt
<1>2. reply' = [key |-> v, found |-> e.base # 0, data |-> [phys |-> e.base, w |-> e.w]]
  BY WalkIs DEF virtToPhysInt, Reply
<1>3. PagesInv' BY <1>1, PagesNext DEF PagesInv
<1>4. PageMap' = PageMap BY <1>1, <1>3, PageMapIs, PageMapNext
<1>5. v \in DOMAIN PageMap <=> e.base # 0 BY PageMapIs DEF MapOf
<1>6. e.base # 0 => PageMap[v] = [phys |-> e.base, w |-> e.w] BY PageMapIs DEF MapOf
<1> HIDE DEF e
<1>7. reply'.key = v /\ reply'.found = (e.base # 0) /\ reply'.data = [phys |-> e.base, w |-> e.w]
  BY <1>2
<1>8. reply'.found <=> v \in DOMAIN PageMap'
  <2>1. reply'.found <=> e.base # 0 BY <1>7
  <2> QED BY <1>4, <1>5, <2>1
<1>9. reply'.found => reply'.data = PageMap'[v]
  <2>1. reply'.found => e.base # 0 BY <1>7
  <2> QED BY <1>4, <1>6, <1>7, <2>1
<1>10. P!Right' BY <1>7, <1>8, <1>9 DEF P!Right
<1> QED BY <1>3, <1>4, <1>10 DEF P!DNext

LEMMA PagesStep ==
  ASSUME PagesInv, [PgNext]_pgvars, clean'
  PROVE  PagesInv' /\ (P!DNext \/ UNCHANGED <<PageMap, reply>>)
<1>1. ASSUME NEW v \in Virt, NEW f \in Phys, NEW w \in BOOLEAN, NEW make \in BOOLEAN, NEW c \in Caching,
             mapPage(v, f, w, make, c)
      PROVE  PagesInv' /\ UNCHANGED <<PageMap, reply>>
  <2> DEFINE s == <<Root>>
  <2>1. /\ call' = [v |-> v, at |-> s, phys |-> f, w |-> w, make |-> make, c |-> c]
        /\ UNCHANGED <<mem, free, reply>>
    BY <1>1 DEF mapPage
  <2>2. s \in Seq(Tables) /\ Len(s) = 1 /\ s[1] = Root BY PagingAssumption
  <2>3. Tab(mem, v, 1) = Root BY TabEnds
  <2> HIDE DEF s
  <2>4. call'.v = v /\ call'.at = s /\ call'.phys = f /\ call'.w = w /\ call'.c = c BY <2>1
  <2>5. \A l \in 1 .. Len(call'.at) : call'.at[l] = Tab(mem, call'.v, l)
    <3>1. \A l \in 1 .. Len(s) : l = 1 BY <2>2
    <3> QED BY <2>2, <2>3, <2>4, <3>1
  <2>6. Len(call'.at) \in 1 .. 4 BY <2>2, <2>4
  <2> QED BY <2>1, <2>2, <2>4, <2>5, <2>6, CallMoves
<1>2. CASE GiveUp \/ initPaging \/ UNCHANGED pgvars
  <2>1. UNCHANGED <<mem, free, reply>> /\ (call' = Idle \/ call' = call)
    BY <1>2 DEF GiveUp, initPaging, pgvars
  <2> QED BY <2>1, CallMoves DEF PagesInv
<1> QED BY <1>1, <1>2, DescendStep, MakeStep, WriteStep, LookStep DEF PgNext

\* As long as no table was made of a frame that held something, the page
\* tables are a map from addresses to frames and rights, for every set of
\* addresses, every memory type and any number of calls: mapPage() gives its
\* address the frame that its type makes of the one it was asked for, and the
\* right, and no other address anything, although it shares tables and adds
\* rights to their entries.
THEOREM TablesAreMap == PgSpec => IsPageMap
<1>1. PgInit => PagesInv /\ P!DInit
  <2> SUFFICES ASSUME PgInit PROVE PagesInv /\ P!DInit OBVIOUS
  <2>1. /\ free = Tables \ {Root} /\ call = Idle /\ reply.found = FALSE
    BY DEF PgInit, Reply
  <2>2. Empty \in PageEntry /\ Empty.base = 0 BY DEF Empty, PageEntry
  <2> HIDE DEF Empty, PageEntry
  <2>3. PICK image \in [Memory -> [Index -> PageEntry]] : mem = [image EXCEPT ![Root] = Zeros]
    BY PagingAssumption DEF PgInit
  <2>4. Root \in Tables /\ Root # 0 BY PagingAssumption
  <2>10. \A x \in Index : mem[Root][x] = Empty BY <2>3, <2>4 DEF Zeros
  <2>11. mem \in [Memory -> [Index -> PageEntry]]
    <3>1. Zeros \in [Index -> PageEntry] BY <2>2 DEF Zeros
    <3> QED BY <2>3, <3>1
  <2>5. ASSUME NEW v \in Virt
        PROVE  T2(mem, v) = 0 /\ T3(mem, v) = 0 /\ T4(mem, v) = 0 /\ PteOf(mem, v) = Empty
    <3>1. 1 \in 1 .. 4 OBVIOUS
    <3>2. v[1] \in Index BY <3>1, Indices
    <3>3. T2(mem, v) = 0 BY <2>2, <2>10, <3>2 DEF T2
    <3>4. T3(mem, v) = 0 BY <3>3 DEF T3
    <3>5. T4(mem, v) = 0 BY <3>4 DEF T4
    <3> QED BY <3>3, <3>4, <3>5 DEF PteOf
  <2>6. \A v \in Virt, l \in 1 .. 4 : Tab(mem, v, l) = IF l = 1 THEN Root ELSE 0 BY <2>5 DEF Tab
  <2>7. Tree(mem, free)
    <3>1. \A v \in Virt, l \in 1 .. 4 : Tab(mem, v, l) \in {0} \cup (Tables \ free) BY <2>1, <2>4, <2>6
    <3>2. \A u, v \in Virt, k, l \in 1 .. 4 :
            Tab(mem, u, k) = Tab(mem, v, l) /\ Tab(mem, u, k) # 0 => k = l /\ SameTo(u, v, l)
      <4>1. \A u, v : SameTo(u, v, 1) BY DEF SameTo
      <4> QED BY <2>4, <2>6, <4>1
    <3>4. \A v \in Virt : PteOf(mem, v).base = 0 BY <2>2, <2>5
    <3> QED BY <3>1, <3>2, <3>4 DEF Tree
  <2>8. PagesInv BY <2>1, <2>7, <2>11 DEF PagesInv
  <2>9. PageMap = <<>>
    <3>1. Mapped = {} BY <2>2, <2>5, <2>8, PageMapIs
    <3> QED BY <3>1 DEF PageMap
  <2> QED BY <2>1, <2>8, <2>9 DEF P!DInit
<1>2. [PgNext]_pgvars /\ clean' => clean
  BY DEF PgNext, pgvars, mapPage, Descend, MakeTable, GiveUp, WriteEntry, initPaging, virtToPhysInt
<1>3. (clean => PagesInv) /\ [PgNext]_pgvars =>
        /\ clean' => PagesInv'
        /\ clean' => P!DNext \/ UNCHANGED <<PageMap, reply>>
  BY <1>2, PagesStep
<1> QED BY <1>1, <1>3, PTL DEF PgSpec, IsPageMap

-----------------------------------------------------------------------------
(* The loader's list of blocks *)

Block == [phys : Nat, bytes : Nat, load : Nat]

LoadInv ==
  /\ fw \in Firmware /\ brk \in Nat /\ n \in Nat \ {0} /\ mapMax \in Nat
  /\ allocMap \in Seq(Block) /\ (step = "mem" => Len(allocMap) = 0)

\* What allocMem() does: one more block, behind the others.
LEMMA AllocIs ==
  ASSUME LoadInv, NEW sz \in Nat, NEW align \in BOOLEAN, allocMem(sz, align)
  PROVE  \E e \in Block :
           /\ allocMap' = Append(allocMap, e) /\ brk <= e.phys /\ brk' = e.phys + e.bytes
           /\ e.bytes = (IF align THEN sz + PAGE_SZ ELSE sz) /\ e.load = Load(e.phys, align)
           /\ mapMax' = IF Len(allocMap) + 1 = mapMax THEN mapMax + Grow ELSE mapMax
<1> DEFINE bytes == IF align THEN sz + PAGE_SZ ELSE sz
<1>1. PICK gap \in 0 .. 1 :
        /\ brk' = brk + gap + bytes
        /\ allocMap' = Append(allocMap, [phys |-> brk + gap, bytes |-> bytes, load |-> Load(brk + gap, align)])
        /\ mapMax' = IF Len(allocMap) + 1 = mapMax THEN mapMax + Grow ELSE mapMax
  BY DEF allocMem
<1>2. brk \in Nat /\ PAGE_SZ \in Nat /\ PAGE_SZ > 0 BY LoaderAssumption DEF LoadInv
<1>3. bytes \in Nat BY <1>2
<1> DEFINE a == brk + gap  e == [phys |-> a, bytes |-> bytes, load |-> Load(a, align)]
<1>4. a \in Nat /\ brk <= a BY <1>2
<1> HIDE DEF a, bytes
<1>5. Load(a, align) \in Nat
  <2>1. a \div PAGE_SZ \in Nat BY <1>2, <1>4
  <2>2. (a \div PAGE_SZ + 1) * PAGE_SZ \in Nat BY <1>2, <2>1
  <2> QED BY <1>4, <2>2 DEF Load, Page
<1>6. e \in Block BY <1>3, <1>4, <1>5 DEF Block
<1>7. e.phys = a /\ e.bytes = bytes /\ e.load = Load(a, align) OBVIOUS
<1>8. allocMap' = Append(allocMap, e) /\ brk' = a + bytes BY <1>1 DEF a
<1> HIDE DEF e
<1> QED BY <1>1, <1>4, <1>6, <1>7, <1>8 DEF bytes

\* The steps that take a block: a segment, or a file.
LEMMA FileIs ==
  ASSUME LoadInv, loadFiles
  PROVE  /\ UNCHANGED <<fw, n, map>> /\ step \in {"rd", "sym"} /\ step' # "mem" /\ step' # "elf"
         /\ \/ UNCHANGED <<brk, allocMap, mapMax>>
            \/ \E sz \in Nat, align \in BOOLEAN : allocMem(sz, align)
<1>1. fw.filesz + PAGE_SZ \in Nat BY LoaderAssumption DEF LoadInv
<1> QED BY <1>1 DEF loadFiles, File

LEMMA SegmentIs ==
  ASSUME LoadInv, step = "elf", n <= Len(fw.seg)
  PROVE  /\ n \in 1 .. Len(fw.seg) /\ n \in DOMAIN fw.seg
         /\ fw.seg[n].memsz \in Nat /\ fw.seg[n].page \in Nat
<1> DEFINE S == [page : Nat, memsz : Nat, w : BOOLEAN, x : BOOLEAN]  s == fw.seg
<1>1. s \in Seq(S) /\ n \in Nat \ {0} BY LoaderAssumption DEF LoadInv
<1>2. n <= Len(s) OBVIOUS
<1> HIDE DEF S, s
<1>3. n \in 1 .. Len(s) /\ DOMAIN s = 1 .. Len(s) BY <1>1, <1>2, LenProperties
<1>4. s[n] \in S BY <1>1, <1>3, ElementOfSeq
<1>5. s[n].memsz \in Nat /\ s[n].page \in Nat BY <1>4 DEF S
<1> QED BY <1>3, <1>5 DEF s

\* What each step of the loader does to the list.
LEMMA ListStep ==
  ASSUME LoadInv, [LNext]_lvars
  PROVE  /\ fw' = fw /\ n' \in Nat \ {0} /\ (step' = "mem" => UNCHANGED <<step, allocMap, brk>>)
         /\ \/ UNCHANGED <<brk, allocMap, mapMax>> /\ (step = "mem" => step' = "mem")
            \/ step = "mem" /\ mapMax' = First /\ UNCHANGED <<brk, allocMap>>
            \/ step # "mem" /\ \E sz \in Nat, align \in BOOLEAN : allocMem(sz, align)
<1>0. n \in Nat \ {0} /\ n + 1 \in Nat \ {0} /\ 1 \in Nat \ {0} BY DEF LoadInv
<1>1. CASE initMem BY <1>0, <1>1 DEF initMem
<1>2. CASE loadELF
  <2>1. /\ step = "elf"
        /\ \/ Fail
           \/ /\ n <= Len(fw.seg) /\ allocMem(fw.seg[n].memsz, TRUE)
              /\ n' = n + 1 /\ UNCHANGED <<fw, step>>
           \/ step' = "rd" /\ UNCHANGED <<fw, n, brk, allocMap, mapMax>>
    BY <1>2 DEF loadELF
  <2>2. n <= Len(fw.seg) => fw.seg[n].memsz \in Nat BY <2>1, SegmentIs
  <2> QED BY <1>0, <2>1, <2>2 DEF Fail
<1>3. CASE loadFiles BY <1>0, <1>3, FileIs
<1>4. CASE handOver \/ mergeDesc \/ descsDone \/ mergeKmmapEntry \/ exitBootServices \/ UNCHANGED lvars
  BY <1>0, <1>4 DEF handOver, mergeDesc, descsDone, mergeKmmapEntry, exitBootServices, lvars
<1> QED BY <1>1, <1>2, <1>3, <1>4 DEF LNext

LEMMA LoadStep == ASSUME LoadInv, AllocFits, [LNext]_lvars PROVE LoadInv' /\ AllocFits'
<1>1. /\ fw' = fw /\ n' \in Nat \ {0} /\ (step' = "mem" => UNCHANGED <<step, allocMap, brk>>)
      /\ \/ UNCHANGED <<brk, allocMap, mapMax>> /\ (step = "mem" => step' = "mem")
         \/ step = "mem" /\ mapMax' = First /\ UNCHANGED <<brk, allocMap>>
         \/ step # "mem" /\ \E sz \in Nat, align \in BOOLEAN : allocMem(sz, align)
  BY ListStep
<1>2. First \in Nat /\ First > 0 /\ Grow \in Nat /\ Grow > 0 BY LoaderAssumption
<1>3. CASE UNCHANGED <<brk, allocMap, mapMax>> /\ (step = "mem" => step' = "mem")
  BY <1>1, <1>3 DEF LoadInv, AllocFits, Block
<1>4. CASE step = "mem" /\ mapMax' = First /\ UNCHANGED <<brk, allocMap>>
  BY <1>1, <1>2, <1>4 DEF LoadInv, AllocFits, Block
<1>5. ASSUME step # "mem", NEW sz \in Nat, NEW align \in BOOLEAN, allocMem(sz, align)
      PROVE  LoadInv' /\ AllocFits'
  <2>1. PICK e \in Block :
          /\ allocMap' = Append(allocMap, e) /\ brk' = e.phys + e.bytes
          /\ mapMax' = IF Len(allocMap) + 1 = mapMax THEN mapMax + Grow ELSE mapMax
    BY <1>5, AllocIs
  <2>2. allocMap \in Seq(Block) /\ Len(allocMap) \in Nat /\ mapMax \in Nat /\ Len(allocMap) < mapMax
    BY <1>5 DEF LoadInv, AllocFits
  <2>3. allocMap' \in Seq(Block) /\ Len(allocMap') = Len(allocMap) + 1 BY <2>1, <2>2, AppendProperties
  <2>4. mapMax' \in Nat /\ Len(allocMap') < mapMax' BY <1>2, <2>1, <2>2, <2>3
  <2>5. brk' \in Nat BY <2>1 DEF Block
  <2>6. step' # "mem" BY <1>1, <1>5
  <2> QED BY <1>1, <2>3, <2>4, <2>5, <2>6 DEF LoadInv, AllocFits, Block
<1> QED BY <1>1, <1>3, <1>4, <1>5

LEMMA LoadStart == ASSUME LInit PROVE LoadInv /\ AllocFits
<1>1. fw \in Firmware /\ brk \in Nat BY LoaderAssumption DEF LInit
<1>2. step = "mem" /\ n = 1 /\ allocMap = <<>> /\ mapMax = 0 BY DEF LInit
<1> QED BY <1>1, <1>2 DEF LoadInv, AllocFits

LEMMA Loading == LSpec => [](LoadInv /\ AllocFits)
<1>1. LoadInv /\ AllocFits /\ [LNext]_lvars => (LoadInv /\ AllocFits)' BY LoadStep
<1> QED BY <1>1, LoadStart, PTL DEF LSpec

\* allocMap always has room for the next block, however many segments the
\* kernel has, whatever the list starts with and grows by.
THEOREM ListHasRoom == LSpec => []AllocFits
BY Loading, PTL

-----------------------------------------------------------------------------
(* The kernel's segments *)

SegPages(s) == Page(s.memsz + PAGE_SZ - 1)

\* A kernel whose segments come in the order of their pages, none reaching
\* into the next, and lie where neither the stack nor the loader is.
KernelApart ==
  \A f \in Firmware :
    /\ \A k, h \in DOMAIN f.seg : k < h => f.seg[k].page + SegPages(f.seg[k]) <= f.seg[h].page
    /\ \A k \in DOMAIN f.seg : \A j \in 0 .. SegPages(f.seg[k]) - 1 :
         /\ f.seg[k].page + j # f.stack
         /\ \A d \in DOMAIN f.desc : f.desc[d].type \in {"code", "data"} =>
              f.seg[k].page + j \notin Page(f.desc[d].phys) ..
                Page(f.desc[d].phys) + (IF Page(f.desc[d].bytes) = 0 THEN 1 ELSE Page(f.desc[d].bytes)) - 1

\* The block of segment k, and where its pages lead.
InBlock(b, s) == b.bytes = s.memsz + PAGE_SZ /\ b.load = Load(b.phys, TRUE)
Leading(m, b, s) ==
  \A j \in 0 .. SegPages(s) - 1 :
    s.page + j \in DOMAIN m /\ m[s.page + j] = [frame |-> Page(b.load) + j, w |-> s.w, x |-> s.x]

\* The blocks lie one behind the other.
Behind ==
  \A k \in 1 .. Len(allocMap) :
    /\ allocMap[k].phys + allocMap[k].bytes <= brk
    /\ \A h \in 1 .. Len(allocMap) : h < k => allocMap[h].phys + allocMap[h].bytes <= allocMap[k].phys

\* The first ones are the segments', whose pages lead to them.
Placed ==
  \A k \in 1 .. Len(allocMap) : k \in DOMAIN fw.seg =>
    InBlock(allocMap[k], fw.seg[k]) /\ Leading(map, allocMap[k], fw.seg[k])

SegInv ==
  /\ step = "elf" => Len(allocMap) = n - 1
  /\ step \notin {"mem", "elf", "failure"} => Len(fw.seg) <= Len(allocMap)
  /\ Behind /\ Placed

\* Division by PAGE_SZ.
LEMMA DivFacts ==
  ASSUME NEW a \in Nat
  PROVE  Page(a) \in Nat /\ Page(a) * PAGE_SZ <= a /\ a < (Page(a) + 1) * PAGE_SZ
<1>1. PAGE_SZ \in Nat /\ PAGE_SZ > 0 BY LoaderAssumption
<1> DEFINE q == a \div PAGE_SZ
<1>2. q \in Nat /\ a = (PAGE_SZ * q) + (a % PAGE_SZ) /\ a % PAGE_SZ \in 0 .. PAGE_SZ - 1 BY <1>1
<1> HIDE DEF q
<1>3. q * PAGE_SZ <= a /\ a < (q + 1) * PAGE_SZ BY <1>1, <1>2
<1> QED BY <1>2, <1>3 DEF q, Page

LEMMA DivLeast ==
  ASSUME NEW q \in Nat, NEW a \in Nat, q * PAGE_SZ <= a PROVE q <= Page(a)
<1> DEFINE r == Page(a)  p == PAGE_SZ
<1>1. p \in Nat /\ p > 0 BY LoaderAssumption
<1>2. r \in Nat /\ a < (r + 1) * p BY DivFacts
<1> HIDE DEF r
<1>3. ~ (r + 1 <= q)
  <2> SUFFICES ASSUME r + 1 <= q PROVE FALSE OBVIOUS
  <2>1. (r + 1) * p <= q * p BY <1>1, <1>2
  <2> HIDE DEF p
  <2>2. q * p <= a BY DEF p
  <2>3. (r + 1) * p \in Nat /\ q * p \in Nat BY <1>1, <1>2
  <2> QED BY <1>2, <2>1, <2>2, <2>3
<1> QED BY <1>2, <1>3 DEF r

\* The pages that hold a segment are among those that are mapped for it.
LEMMA PagesEnough ==
  ASSUME NEW s, s.memsz \in Nat PROVE SegPages(s) \in Nat /\ SegPages(s) <= segPages(s) /\ segPages(s) \in Nat \ {0}
<1> DEFINE b == s.memsz  p == PAGE_SZ  q == Page(b)  r == Page(b + p - 1)
<1>1. p \in Nat /\ p > 0 /\ b \in Nat BY LoaderAssumption
<1>2. q \in Nat /\ b < (q + 1) * p BY <1>1, DivFacts
<1>3. b + p - 1 \in Nat BY <1>1
<1>4. r \in Nat /\ r * p <= b + p - 1 BY <1>3, DivFacts
<1> HIDE DEF q, r, b, p
<1>5. r <= q + 1
  <2>1. SUFFICES ASSUME q + 2 <= r PROVE FALSE BY <1>2, <1>4
  <2>2. (q + 2) * p <= r * p BY <1>1, <1>2, <1>4, <2>1
  <2>3. (q + 2) * p = ((q + 1) * p) + p BY <1>1, <1>2
  <2>4. (q + 1) * p \in Nat /\ r * p \in Nat BY <1>1, <1>2, <1>4
  <2> QED BY <1>1, <1>2, <1>4, <2>2, <2>3, <2>4
<1>6. SegPages(s) = r /\ segPages(s) = q + 1 BY DEF SegPages, segPages, Page, q, r, b, p
<1> QED BY <1>2, <1>4, <1>5, <1>6

\* A block with an aligned address holds the segment, and its frames lie
\* before those of a block behind it.
LEMMA BlockHolds ==
  ASSUME NEW b \in Block, NEW s, s.memsz \in Nat, InBlock(b, s)
  PROVE  /\ b.load + s.memsz <= b.phys + b.bytes
         /\ Page(b.load) \in Nat /\ Page(b.load) = Page(b.phys) + 1
<1> DEFINE a == b.phys  p == PAGE_SZ  q == Page(a)
<1>1. p \in Nat /\ p > 0 /\ a \in Nat BY LoaderAssumption DEF Block
<1>2. q \in Nat /\ q * p <= a BY <1>1, DivFacts
<1>3. b.load = (q + 1) * p /\ b.bytes = s.memsz + p BY DEF InBlock, Load
<1> DEFINE l == (q + 1) * p  r == Page(l)
<1>4. l \in Nat BY <1>1, <1>2
<1>5. r \in Nat /\ r * p <= l /\ q + 1 <= r
  <2>1. q + 1 \in Nat /\ (q + 1) * p <= l BY <1>1, <1>2, <1>4
  <2> HIDE DEF l, q
  <2>2. r \in Nat /\ r * p <= l BY <1>4, DivFacts
  <2>3. q + 1 <= r BY <1>4, <2>1, DivLeast
  <2> QED BY <2>2, <2>3
<1>6. Page(b.load) = r BY <1>3
<1> HIDE DEF r, q, a, p
<1>7. r <= q + 1
  <2>1. SUFFICES ASSUME q + 2 <= r PROVE FALSE BY <1>2, <1>5
  <2>2. (q + 2) * p <= r * p BY <1>1, <1>2, <1>5, <2>1
  <2>3. (q + 2) * p = ((q + 1) * p) + p BY <1>1, <1>2
  <2>4. (q + 1) * p \in Nat /\ r * p \in Nat BY <1>1, <1>2, <1>5
  <2> QED BY <1>1, <1>5, <2>2, <2>3, <2>4
<1>8. l = (q * p) + p /\ q * p \in Nat BY <1>1, <1>2
<1>9. b.load = (q * p) + p BY <1>3, <1>8
<1>10. b.load + s.memsz <= a + b.bytes BY <1>1, <1>2, <1>3, <1>8, <1>9
<1> QED BY <1>2, <1>5, <1>6, <1>7, <1>10 DEF a, q

LEMMA FramesApart ==
  ASSUME NEW b \in Block, NEW c \in Block, NEW s, NEW z, s.memsz \in Nat, z.memsz \in Nat,
         InBlock(b, s), InBlock(c, z), b.phys + b.bytes <= c.phys
  PROVE  Page(b.load) + SegPages(s) <= Page(c.load)
<1> DEFINE a == b.phys  y == s.memsz  p == PAGE_SZ  q == Page(a)  r == Page(y + p - 1)
<1>1. p \in Nat /\ p > 0 /\ a \in Nat /\ y \in Nat /\ c.phys \in Nat /\ b.bytes = y + p
  BY LoaderAssumption DEF Block, InBlock
<1>2. Page(b.load) = q + 1 /\ Page(c.load) = Page(c.phys) + 1 BY BlockHolds
<1>3. y + p - 1 \in Nat BY <1>1
<1>4. q \in Nat /\ q * p <= a BY <1>1, DivFacts
<1>5. r \in Nat /\ r * p <= y + p - 1 BY <1>3, DivFacts
<1>6. SegPages(s) = r BY DEF SegPages
<1>7. (q + r) * p <= c.phys
  <2> HIDE DEF q, r, a, y, p
  <2>1. (q + r) * p = (q * p) + (r * p) /\ q * p \in Nat /\ r * p \in Nat BY <1>1, <1>4, <1>5
  <2>2. a + (y + p) <= c.phys BY <1>1 DEF a
  <2> QED BY <1>1, <1>4, <1>5, <2>1, <2>2
<1> HIDE DEF q, r
<1>8. q + r \in Nat BY <1>4, <1>5
<1>9. q + r <= Page(c.phys) BY <1>1, <1>7, <1>8, DivLeast
<1>10. Page(c.phys) \in Nat BY <1>1, DivFacts
<1> QED BY <1>2, <1>4, <1>5, <1>6, <1>9, <1>10

\* A mapping elsewhere leaves a segment's pages alone.
LEMMA LeadingStays ==
  ASSUME NEW b, NEW s, Leading(map, b, s), NEW frame \in Nat, NEW page \in Nat, NEW k \in Nat, NEW w, NEW x,
         \A j \in 0 .. SegPages(s) - 1 : s.page + j \notin page .. page + (IF k = 0 THEN 1 ELSE k) - 1
  PROVE  Leading(mapPages(frame, page, k, w, x), b, s)
<1> DEFINE m == mapPages(frame, page, k, w, x)  r == page .. page + (IF k = 0 THEN 1 ELSE k) - 1
<1>1. DOMAIN m = DOMAIN map \cup r /\ \A q \in DOMAIN map \ r : m[q] = map[q] BY DEF mapPages
<1>2. \A j \in 0 .. SegPages(s) - 1 : s.page + j \notin r OBVIOUS
<1> HIDE DEF m, r
<1>3. Leading(m, b, s) BY <1>1, <1>2 DEF Leading
<1> QED BY <1>3 DEF m

\* One more block.
LEMMA BlockAdded ==
  ASSUME LoadInv, Behind, NEW e \in Block, allocMap' = Append(allocMap, e), brk <= e.phys, brk' = e.phys + e.bytes
  PROVE  /\ Behind' /\ Len(allocMap') = Len(allocMap) + 1 /\ Len(allocMap) \in Nat
         /\ \A k \in 1 .. Len(allocMap) + 1 : allocMap'[k] = IF k = Len(allocMap) + 1 THEN e ELSE allocMap[k]
<1> DEFINE l == Len(allocMap)
<1>1. allocMap \in Seq(Block) /\ l \in Nat /\ brk \in Nat BY DEF LoadInv
<1>2. /\ Len(allocMap') = l + 1
      /\ \A k \in 1 .. l + 1 : allocMap'[k] = IF k = l + 1 THEN e ELSE allocMap[k]
  BY <1>1, AppendProperties
<1>3. e.phys \in Nat /\ e.bytes \in Nat BY DEF Block
<1>4. \A k \in 1 .. l : allocMap[k].phys + allocMap[k].bytes \in Nat
  <2> TAKE k \in 1 .. l
  <2>1. allocMap[k] \in Block BY <1>1, ElementOfSeq
  <2> QED BY <2>1 DEF Block
<1>5. \A k \in 1 .. l : allocMap[k].phys + allocMap[k].bytes <= brk
  BY DEF Behind
<1>6. ASSUME NEW k \in 1 .. l + 1
      PROVE  /\ allocMap'[k].phys + allocMap'[k].bytes <= brk'
             /\ \A h \in 1 .. l + 1 : h < k => allocMap'[h].phys + allocMap'[h].bytes <= allocMap'[k].phys
  <2>1. CASE k = l + 1
    <3>1. allocMap'[k] = e BY <1>2, <2>1
    <3>2. ASSUME NEW h \in 1 .. l + 1, h < k PROVE allocMap'[h].phys + allocMap'[h].bytes <= e.phys
      <4>1. h \in 1 .. l /\ h # l + 1 BY <1>1, <2>1, <3>2
      <4>2. allocMap'[h] = allocMap[h] BY <1>2, <4>1
      <4>3. allocMap[h].phys + allocMap[h].bytes <= brk BY <1>5, <4>1
      <4>4. allocMap[h].phys + allocMap[h].bytes \in Nat BY <1>4, <4>1
      <4> QED BY <1>1, <1>3, <4>2, <4>3, <4>4
    <3>3. e.phys + e.bytes <= brk' BY <1>3
    <3> QED BY <3>1, <3>2, <3>3
  <2>2. CASE k # l + 1
    <3>1. k \in 1 .. l /\ allocMap'[k] = allocMap[k] BY <1>1, <1>2, <2>2
    <3>2. brk <= brk' BY <1>1, <1>3
    <3>3. allocMap[k].phys + allocMap[k].bytes <= brk' BY <1>1, <1>3, <1>4, <1>5, <3>1, <3>2
    <3>4. ASSUME NEW h \in 1 .. l + 1, h < k PROVE allocMap'[h].phys + allocMap'[h].bytes <= allocMap[k].phys
      <4>1. h \in 1 .. l /\ h # l + 1 BY <1>1, <3>1, <3>4
      <4>2. allocMap'[h] = allocMap[h] BY <1>2, <4>1
      <4> QED BY <3>1, <3>4, <4>1, <4>2 DEF Behind
    <3> QED BY <3>1, <3>3, <3>4
  <2> QED BY <2>1, <2>2
<1>7. Behind' BY <1>2, <1>6 DEF Behind
<1> QED BY <1>1, <1>2, <1>7

\* The segments of the kernel.
LEMMA SegTyped ==
  ASSUME LoadInv
  PROVE  /\ DOMAIN fw.seg = 1 .. Len(fw.seg) /\ Len(fw.seg) \in Nat
         /\ \A k \in DOMAIN fw.seg : fw.seg[k].memsz \in Nat /\ fw.seg[k].page \in Nat
<1> DEFINE S == [page : Nat, memsz : Nat, w : BOOLEAN, x : BOOLEAN]  s == fw.seg
<1>1. s \in Seq(S) BY LoaderAssumption DEF LoadInv
<1> HIDE DEF S, s
<1>2. DOMAIN s = 1 .. Len(s) /\ Len(s) \in Nat BY <1>1, LenProperties
<1>3. \A k \in DOMAIN s : s[k] \in S BY <1>1, <1>2, ElementOfSeq
<1>4. \A k \in DOMAIN s : s[k].memsz \in Nat /\ s[k].page \in Nat BY <1>3 DEF S
<1> QED BY <1>2, <1>4 DEF s

\* The next state's Placed, by its parts.
LEMMA PlacedNext ==
  ASSUME UNCHANGED fw,
         \A k \in 1 .. Len(allocMap') : k \in DOMAIN fw.seg =>
           InBlock(allocMap'[k], fw.seg[k]) /\ Leading(map', allocMap'[k], fw.seg[k])
  PROVE  Placed'
<1>1. \A k : InBlock(allocMap[k], fw.seg[k])' = InBlock(allocMap'[k], fw'.seg[k]) BY DEF InBlock, Load, Page
<1>2. \A k : Leading(map, allocMap[k], fw.seg[k])' = Leading(map', allocMap'[k], fw'.seg[k])
  BY DEF Leading, SegPages, Page
<1> QED BY <1>1, <1>2 DEF Placed

LEMMA SegmentStep ==
  ASSUME LoadInv, SegInv, KernelApart, step = "elf", n <= Len(fw.seg), UNCHANGED <<fw, step>>, n' = n + 1,
         allocMem(fw.seg[n].memsz, TRUE),
         map' = mapPages(Page(allocMap'[Len(allocMap')].load), fw.seg[n].page,
                         segPages(fw.seg[n]), fw.seg[n].w, fw.seg[n].x)
  PROVE  SegInv'
<1> DEFINE s == fw.seg[n]
<1>1. n \in 1 .. Len(fw.seg) /\ n \in DOMAIN fw.seg /\ s.memsz \in Nat /\ s.page \in Nat BY SegmentIs
<1>2. PICK e \in Block :
        /\ allocMap' = Append(allocMap, e) /\ brk <= e.phys /\ brk' = e.phys + e.bytes
        /\ e.bytes = s.memsz + PAGE_SZ /\ e.load = Load(e.phys, TRUE)
  BY <1>1, AllocIs
<1>3. /\ Behind' /\ Len(allocMap') = Len(allocMap) + 1 /\ Len(allocMap) \in Nat
      /\ \A k \in 1 .. Len(allocMap) + 1 : allocMap'[k] = IF k = Len(allocMap) + 1 THEN e ELSE allocMap[k]
  BY <1>2, BlockAdded DEF SegInv
<1>4. Len(allocMap) + 1 = n /\ n \in Nat BY <1>1, <1>3 DEF SegInv
<1>5. allocMap'[n] = e /\ \A k \in 1 .. Len(allocMap) : allocMap'[k] = allocMap[k]
  <2>1. n \in 1 .. Len(allocMap) + 1 BY <1>1, <1>4
  <2>2. \A k \in 1 .. Len(allocMap) : k \in 1 .. Len(allocMap) + 1 /\ k # Len(allocMap) + 1 BY <1>3
  <2> QED BY <1>3, <1>4, <2>1, <2>2
<1>6. InBlock(e, s) BY <1>2 DEF InBlock
<1> DEFINE f == Page(e.load)  c == segPages(s)
<1>7. f \in Nat BY <1>1, <1>6, BlockHolds
<1>8. SegPages(s) \in Nat /\ SegPages(s) <= c /\ c \in Nat \ {0} BY <1>1, PagesEnough
<1>9. map' = mapPages(f, s.page, c, s.w, s.x) BY <1>3, <1>4, <1>5
<1> HIDE DEF f, c
<1>10. Leading(map', e, s)
  <2> SUFFICES ASSUME NEW j \in 0 .. SegPages(s) - 1
               PROVE  s.page + j \in DOMAIN map' /\ map'[s.page + j] = [frame |-> f + j, w |-> s.w, x |-> s.x]
    BY DEF Leading, f
  <2> DEFINE pg == s.page  q == pg + j  l == SegPages(s)
  <2>1. q \in s.page .. s.page + c - 1 /\ f + q - s.page = f + j
    <3>1. pg \in Nat /\ l \in Nat /\ l <= c /\ c \in Nat /\ f \in Nat /\ j \in 0 .. l - 1 BY <1>1, <1>7, <1>8
    <3> HIDE DEF pg, l
    <3>2. q \in pg .. pg + c - 1 /\ f + q - pg = f + j BY <3>1
    <3> QED BY <3>2 DEF pg
  <2>2. c # 0 BY <1>8
  <2> HIDE DEF q
  <2>3. q \in DOMAIN map' /\ map'[q] = [frame |-> f + q - s.page, w |-> s.w, x |-> s.x]
    BY <1>9, <2>1, <2>2 DEF mapPages
  <2> QED BY <2>1, <2>3 DEF q, pg
<1>11. ASSUME NEW k \in 1 .. Len(allocMap), k \in DOMAIN fw.seg
       PROVE  InBlock(allocMap[k], fw.seg[k]) /\ Leading(map', allocMap[k], fw.seg[k])
  <2> DEFINE z == fw.seg[k]
  <2>1. InBlock(allocMap[k], z) /\ Leading(map, allocMap[k], z) BY <1>11 DEF SegInv, Placed
  <2>2. k < n BY <1>3, <1>4
  <2>3. z.page + SegPages(z) <= s.page BY <1>1, <1>11, <2>2 DEF KernelApart, LoadInv
  <2>4. z.memsz \in Nat /\ z.page \in Nat BY <1>11, SegTyped
  <2>5. SegPages(z) \in Nat BY <2>4, PagesEnough
  <2> HIDE DEF z, s
  <2>6. \A j \in 0 .. SegPages(z) - 1 : z.page + j \notin s.page .. s.page + (IF c = 0 THEN 1 ELSE c) - 1
    <3> DEFINE a == z.page  l == SegPages(z)  p == s.page
    <3>1. a \in Nat /\ l \in Nat /\ p \in Nat /\ c \in Nat /\ a + l <= p BY <1>1, <1>8, <2>3, <2>4, <2>5
    <3> HIDE DEF a, l, p
    <3>2. \A j \in 0 .. l - 1 : a + j < p BY <3>1
    <3>3. \A j \in 0 .. l - 1 : a + j \notin p .. p + (IF c = 0 THEN 1 ELSE c) - 1 BY <3>1, <3>2
    <3> QED BY <3>3 DEF a, l, p
  <2>7. c \in Nat BY <1>8
  <2>8. Leading(mapPages(f, s.page, c, s.w, s.x), allocMap[k], z)
    BY <1>1, <1>7, <2>1, <2>6, <2>7, LeadingStays
  <2> QED BY <1>9, <2>1, <2>8 DEF z
<1>12. Placed'
  <2>1. ASSUME NEW k \in 1 .. Len(allocMap'), k \in DOMAIN fw.seg
        PROVE  InBlock(allocMap'[k], fw.seg[k]) /\ Leading(map', allocMap'[k], fw.seg[k])
    <3>1. CASE k = n BY <1>5, <1>6, <1>10, <3>1
    <3>2. CASE k # n
      <4>1. k \in 1 .. Len(allocMap) BY <1>3, <1>4, <2>1, <3>2
      <4> QED BY <1>5, <1>11, <2>1, <4>1
    <3> QED BY <3>1, <3>2
  <2> QED BY <2>1, PlacedNext
<1>13. Len(allocMap') = n' - 1 BY <1>3, <1>4
<1> QED BY <1>3, <1>12, <1>13 DEF SegInv

LEMMA FileStep == ASSUME LoadInv, SegInv, loadFiles PROVE SegInv'
<1>1. /\ UNCHANGED <<fw, n, map>> /\ step \in {"rd", "sym"} /\ step' # "mem" /\ step' # "elf"
      /\ \/ UNCHANGED <<brk, allocMap, mapMax>>
         \/ \E sz \in Nat, align \in BOOLEAN : allocMem(sz, align)
  BY FileIs
<1>2. Len(fw.seg) <= Len(allocMap) BY <1>1 DEF SegInv
<1>3. CASE UNCHANGED <<brk, allocMap, mapMax>>
  <2>1. Placed' BY <1>1, <1>3, PlacedNext DEF SegInv, Placed
  <2> QED BY <1>1, <1>2, <1>3, <2>1 DEF SegInv, Behind
<1>4. ASSUME NEW sz \in Nat, NEW align \in BOOLEAN, allocMem(sz, align) PROVE SegInv'
  <2>1. PICK e \in Block : allocMap' = Append(allocMap, e) /\ brk <= e.phys /\ brk' = e.phys + e.bytes
    BY <1>4, AllocIs
  <2>2. /\ Behind' /\ Len(allocMap') = Len(allocMap) + 1 /\ Len(allocMap) \in Nat
        /\ \A k \in 1 .. Len(allocMap) + 1 : allocMap'[k] = IF k = Len(allocMap) + 1 THEN e ELSE allocMap[k]
    BY <2>1, BlockAdded DEF SegInv
  <2>3. DOMAIN fw.seg = 1 .. Len(fw.seg) /\ Len(fw.seg) \in Nat BY SegTyped
  <2>4. ASSUME NEW k \in 1 .. Len(allocMap'), k \in DOMAIN fw.seg
        PROVE  InBlock(allocMap'[k], fw.seg[k]) /\ Leading(map', allocMap'[k], fw.seg[k])
    <3>1. k \in 1 .. Len(allocMap) /\ k # Len(allocMap) + 1 BY <1>2, <2>2, <2>3, <2>4
    <3>2. allocMap'[k] = allocMap[k]
      <4>1. k \in 1 .. Len(allocMap) + 1 BY <2>2, <3>1
      <4> QED BY <2>2, <3>1, <4>1
    <3> QED BY <1>1, <2>4, <3>1, <3>2 DEF SegInv, Placed
  <2>5. Placed' BY <1>1, <2>4, PlacedNext
  <2>6. Len(fw'.seg) <= Len(allocMap') BY <1>1, <1>2, <2>2, <2>3
  <2> QED BY <1>1, <2>2, <2>5, <2>6 DEF SegInv
<1> QED BY <1>1, <1>3, <1>4

\* A mapping that is not a segment's.
LEMMA OtherMapping ==
  ASSUME LoadInv, SegInv, UNCHANGED <<fw, brk, allocMap>>, step \notin {"mem", "elf", "failure"}, step' # "elf",
         \/ UNCHANGED map
         \/ \E frame, page, k \in Nat : \E w, x :
              /\ map' = mapPages(frame, page, k, w, x)
              /\ \A h \in DOMAIN fw.seg : \A j \in 0 .. SegPages(fw.seg[h]) - 1 :
                   fw.seg[h].page + j \notin page .. page + (IF k = 0 THEN 1 ELSE k) - 1
  PROVE  SegInv'
<1>1. ASSUME NEW k \in 1 .. Len(allocMap), k \in DOMAIN fw.seg
      PROVE  InBlock(allocMap[k], fw.seg[k]) /\ Leading(map', allocMap[k], fw.seg[k])
  <2>1. InBlock(allocMap[k], fw.seg[k]) /\ Leading(map, allocMap[k], fw.seg[k]) BY <1>1 DEF SegInv, Placed
  <2>2. ASSUME NEW frame \in Nat, NEW page \in Nat, NEW c \in Nat, NEW w, NEW x,
               map' = mapPages(frame, page, c, w, x),
               \A h \in DOMAIN fw.seg : \A j \in 0 .. SegPages(fw.seg[h]) - 1 :
                 fw.seg[h].page + j \notin page .. page + (IF c = 0 THEN 1 ELSE c) - 1
        PROVE  Leading(map', allocMap[k], fw.seg[k])
    <3> DEFINE z == fw.seg[k]  b == allocMap[k]
    <3>1. \A j \in 0 .. SegPages(z) - 1 : z.page + j \notin page .. page + (IF c = 0 THEN 1 ELSE c) - 1
      BY <1>1, <2>2
    <3>2. Leading(map, b, z) BY <2>1
    <3> HIDE DEF z, b
    <3>3. Leading(mapPages(frame, page, c, w, x), b, z) BY <3>1, <3>2, LeadingStays
    <3> QED BY <2>2, <3>3 DEF z, b
  <2> QED BY <2>1, <2>2
<1>2. Placed' BY <1>1, PlacedNext
<1> QED BY <1>2 DEF SegInv, Behind

\* The mappings after the segments': the stack's, and those of the loader.
LEMMA DescTyped ==
  ASSUME LoadInv
  PROVE  /\ DOMAIN fw.desc = 1 .. Len(fw.desc) /\ Len(fw.desc) \in Nat
         /\ \A d \in DOMAIN fw.desc : fw.desc[d].phys \in Nat /\ fw.desc[d].bytes \in Nat
<1> DEFINE D == [type : STRING \ {"IGNORE"}, phys : Nat, bytes : Nat]  s == fw.desc
<1>1. s \in Seq(D) BY LoaderAssumption DEF LoadInv
<1> HIDE DEF D, s
<1>2. DOMAIN s = 1 .. Len(s) /\ Len(s) \in Nat BY <1>1, LenProperties
<1>3. \A k \in DOMAIN s : s[k] \in D BY <1>1, <1>2, ElementOfSeq
<1>4. \A k \in DOMAIN s : s[k].phys \in Nat /\ s[k].bytes \in Nat BY <1>3 DEF D
<1> QED BY <1>2, <1>4 DEF s

LEMMA StackStep == ASSUME LoadInv, SegInv, KernelApart, handOver PROVE SegInv'
<1>1. fw \in Firmware /\ fw.stack \in Nat BY LoaderAssumption DEF LoadInv
<1>2. map' = mapPages(fw.stack, fw.stack, 1, TRUE, FALSE) BY DEF handOver
<1>3. ASSUME NEW h \in DOMAIN fw.seg, NEW j \in 0 .. SegPages(fw.seg[h]) - 1
      PROVE  fw.seg[h].page + j \notin fw.stack .. fw.stack + (IF 1 = 0 THEN 1 ELSE 1) - 1
  <2>1. fw.seg[h].page + j # fw.stack BY <1>1 DEF KernelApart
  <2>2. fw.stack .. fw.stack + (IF 1 = 0 THEN 1 ELSE 1) - 1 = {fw.stack} BY <1>1
  <2> QED BY <2>1, <2>2
<1>4. 1 \in Nat OBVIOUS
<1>5. \E frame, page, k \in Nat : \E w, x :
        /\ map' = mapPages(frame, page, k, w, x)
        /\ \A h \in DOMAIN fw.seg : \A j \in 0 .. SegPages(fw.seg[h]) - 1 :
             fw.seg[h].page + j \notin page .. page + (IF k = 0 THEN 1 ELSE k) - 1
  BY <1>1, <1>2, <1>3, <1>4, Zenon
<1>6. UNCHANGED <<fw, brk, allocMap>> /\ step = "hand" /\ step' = "desc" BY DEF handOver
<1>7. step \notin {"mem", "elf", "failure"} /\ step' # "elf" BY <1>6
<1> QED BY <1>5, <1>6, <1>7, OtherMapping

LEMMA LoaderStep == ASSUME LoadInv, SegInv, KernelApart, mergeDesc PROVE SegInv'
<1>1. UNCHANGED <<fw, step, brk, allocMap>> /\ step = "desc" /\ map' = mapLoader(fw.desc[n]) /\ n <= Len(fw.desc)
  BY DEF mergeDesc
<1>2. step \notin {"mem", "elf", "failure"} /\ step' # "elf" BY <1>1
<1>3. CASE fw.desc[n].type \notin {"code", "data"}
  <2>1. map' = map BY <1>1, <1>3 DEF mapLoader
  <2> QED BY <1>1, <1>2, <2>1, OtherMapping
<1>4. CASE fw.desc[n].type \in {"code", "data"}
  <2> DEFINE d == fw.desc[n]  a == Page(d.phys)  c == Page(d.bytes)
  <2>1. fw \in Firmware /\ n \in DOMAIN fw.desc BY <1>1, DescTyped DEF LoadInv
  <2>2. d.phys \in Nat /\ d.bytes \in Nat BY <2>1, DescTyped
  <2>3. a \in Nat /\ c \in Nat BY <2>2, DivFacts
  <2>4. map' = mapPages(a, a, c, d.type = "data", d.type = "code") BY <1>1, <1>4 DEF mapLoader
  <2>5. \A h \in DOMAIN fw.seg : \A j \in 0 .. SegPages(fw.seg[h]) - 1 :
          fw.seg[h].page + j \notin a .. a + (IF c = 0 THEN 1 ELSE c) - 1
    BY <1>4, <2>1 DEF KernelApart
  <2> HIDE DEF a, c
  <2>6. \E frame, page, k \in Nat : \E w, x :
          /\ map' = mapPages(frame, page, k, w, x)
          /\ \A h \in DOMAIN fw.seg : \A j \in 0 .. SegPages(fw.seg[h]) - 1 :
               fw.seg[h].page + j \notin page .. page + (IF k = 0 THEN 1 ELSE k) - 1
    BY <2>3, <2>4, <2>5, Zenon
  <2> QED BY <1>1, <1>2, <2>6, OtherMapping
<1> QED BY <1>3, <1>4

LEMMA SegStep == ASSUME LoadInv, SegInv, KernelApart, [LNext]_lvars PROVE SegInv'
<1>1. CASE initMem
  <2>1. Len(allocMap') = 0 /\ n' = 1 /\ step' = "elf" BY <1>1 DEF initMem, LoadInv
  <2>2. 1 .. Len(allocMap') = {} BY <2>1
  <2> QED BY <2>1, <2>2 DEF SegInv, Behind, Placed
<1>2. CASE loadELF
  <2>1. step = "elf" BY <1>2 DEF loadELF
  <2>2. CASE Fail
    <3>1. UNCHANGED <<fw, brk, allocMap, map>> /\ step' = "failure" BY <2>2 DEF Fail
    <3>2. Placed' BY <3>1, PlacedNext DEF SegInv, Placed
    <3> QED BY <3>1, <3>2 DEF SegInv, Behind
  <2>3. CASE /\ n <= Len(fw.seg) /\ allocMem(fw.seg[n].memsz, TRUE)
             /\ map' = mapPages(Page(allocMap'[Len(allocMap')].load), fw.seg[n].page,
                                segPages(fw.seg[n]), fw.seg[n].w, fw.seg[n].x)
             /\ n' = n + 1 /\ UNCHANGED <<fw, step>>
    BY <2>1, <2>3, SegmentStep
  <2>4. CASE n > Len(fw.seg) /\ step' = "rd" /\ UNCHANGED <<fw, brk, allocMap, map>>
    <3>1. Placed' BY <2>4, PlacedNext DEF SegInv, Placed
    <3>2. Len(allocMap) = n - 1 /\ n \in Nat /\ Len(fw.seg) \in Nat BY <2>1, SegTyped DEF SegInv, LoadInv
    <3>3. Len(fw'.seg) <= Len(allocMap') BY <2>4, <3>2
    <3> QED BY <2>4, <3>1, <3>3 DEF SegInv, Behind
  <2> QED BY <1>2, <2>2, <2>3, <2>4 DEF loadELF
<1>3. CASE loadFiles BY <1>3, FileStep
<1>4. CASE handOver BY <1>4, StackStep
<1>5. CASE mergeDesc BY <1>5, LoaderStep
<1>6. CASE descsDone \/ mergeKmmapEntry \/ exitBootServices
  <2>1. UNCHANGED <<fw, brk, allocMap, map>> /\ step \in {"desc", "merge"} /\ step' # "elf"
    BY <1>6 DEF descsDone, mergeKmmapEntry, exitBootServices
  <2>2. step \notin {"mem", "elf", "failure"} BY <2>1
  <2> QED BY <2>1, <2>2, OtherMapping
<1>7. CASE UNCHANGED lvars
  <2>1. UNCHANGED <<fw, step, n, brk, allocMap, map>> BY <1>7 DEF lvars
  <2>2. Placed' BY <2>1, PlacedNext DEF SegInv, Placed
  <2> QED BY <2>1, <2>2 DEF SegInv, Behind
<1> QED BY <1>1, <1>2, <1>3, <1>4, <1>5, <1>6, <1>7 DEF LNext

\* What the invariant says of the blocks and the maps.
LEMMA SegmentsHeld == ASSUME LoadInv, SegInv PROVE SegmentsMapped
<1> SUFFICES ASSUME step = "kernel", NEW k \in DOMAIN fw.seg
             PROVE  /\ SegLoad(k) + fw.seg[k].memsz <= allocMap[k].phys + allocMap[k].bytes
                    /\ \A j \in 0 .. InSeg(k) - 1 :
                         /\ map[fw.seg[k].page + j]
                              = [frame |-> Page(SegLoad(k)) + j, w |-> fw.seg[k].w, x |-> fw.seg[k].x]
                         /\ \A h \in DOMAIN fw.seg \ {k} :
                              Page(SegLoad(k)) + j \notin Page(SegLoad(h)) .. Page(SegLoad(h)) + InSeg(h) - 1
  BY DEF SegmentsMapped
<1>1. Len(fw.seg) <= Len(allocMap) /\ Len(allocMap) \in Nat /\ allocMap \in Seq(Block) BY DEF SegInv, LoadInv
<1>2. ASSUME NEW h \in DOMAIN fw.seg
      PROVE  /\ h \in 1 .. Len(allocMap) /\ allocMap[h] \in Block /\ fw.seg[h].memsz \in Nat
             /\ InBlock(allocMap[h], fw.seg[h]) /\ Leading(map, allocMap[h], fw.seg[h])
             /\ InSeg(h) = SegPages(fw.seg[h]) /\ InSeg(h) \in Nat /\ Page(SegLoad(h)) \in Nat
  <2>1. h \in 1 .. Len(allocMap) /\ fw.seg[h].memsz \in Nat BY <1>1, SegTyped
  <2>2. allocMap[h] \in Block BY <1>1, <2>1, ElementOfSeq
  <2>3. InBlock(allocMap[h], fw.seg[h]) /\ Leading(map, allocMap[h], fw.seg[h]) BY <2>1 DEF SegInv, Placed
  <2>4. InSeg(h) = SegPages(fw.seg[h]) /\ InSeg(h) \in Nat BY <2>1, PagesEnough DEF InSeg, SegPages
  <2>5. Page(SegLoad(h)) \in Nat BY <2>1, <2>2, <2>3, BlockHolds DEF SegLoad
  <2> QED BY <2>1, <2>2, <2>3, <2>4, <2>5
<1>3. SegLoad(k) + fw.seg[k].memsz <= allocMap[k].phys + allocMap[k].bytes BY <1>2, BlockHolds DEF SegLoad
<1>4. ASSUME NEW j \in 0 .. InSeg(k) - 1
      PROVE  map[fw.seg[k].page + j] = [frame |-> Page(SegLoad(k)) + j, w |-> fw.seg[k].w, x |-> fw.seg[k].x]
  BY <1>2 DEF Leading, SegLoad
<1>5. ASSUME NEW h \in DOMAIN fw.seg, NEW g \in DOMAIN fw.seg, h < g
      PROVE  Page(SegLoad(h)) + InSeg(h) <= Page(SegLoad(g))
  <2>1. allocMap[h].phys + allocMap[h].bytes <= allocMap[g].phys BY <1>2, <1>5 DEF SegInv, Behind
  <2> QED BY <1>2, <2>1, FramesApart DEF SegLoad
<1>6. ASSUME NEW j \in 0 .. InSeg(k) - 1, NEW h \in DOMAIN fw.seg \ {k}
      PROVE  Page(SegLoad(k)) + j \notin Page(SegLoad(h)) .. Page(SegLoad(h)) + InSeg(h) - 1
  <2> DEFINE a == Page(SegLoad(k))  b == Page(SegLoad(h))  l == InSeg(k)  i == InSeg(h)
  <2>1. a \in Nat /\ b \in Nat /\ l \in Nat /\ i \in Nat /\ j \in 0 .. l - 1 BY <1>2
  <2>2. k < h \/ h < k BY <1>2, SegTyped
  <2>3. a + l <= b \/ b + i <= a BY <1>5, <2>2
  <2> HIDE DEF a, b, l, i
  <2>4. a + j \notin b .. b + i - 1 BY <2>1, <2>3
  <2> QED BY <2>4 DEF a, b, i
<1> QED BY <1>3, <1>4, <1>6

\* Every kernel whose segments lie apart from one another, from the stack and
\* from the loader starts with its segments mapped where they were loaded, in
\* frames of their own, however many segments and files there are and however
\* the firmware places the blocks: elf.c's page too many is taken back by the
\* segment it belongs to, and the loader's later mappings miss them all.
THEOREM SegmentsInPlace == ASSUME KernelApart PROVE LSpec => []SegmentsMapped
<1>1. LInit => SegInv
  <2> SUFFICES ASSUME LInit PROVE SegInv OBVIOUS
  <2>1. step = "mem" /\ Len(allocMap) = 0 BY DEF LInit
  <2>2. 1 .. Len(allocMap) = {} BY <2>1
  <2> QED BY <2>1, <2>2 DEF SegInv, Behind, Placed
<1>2. LoadInv /\ SegInv /\ [LNext]_lvars => SegInv' BY SegStep
<1>3. LoadInv /\ SegInv => SegmentsMapped BY SegmentsHeld
<1> QED BY <1>1, <1>2, <1>3, Loading, PTL DEF LSpec
-----------------------------------------------------------------------------
(* The kernel's memory map *)

\* No two of the firmware's descriptors begin at one place.
StartsApart ==
  \A f \in Firmware : \A j, k \in DOMAIN f.desc : j # k => f.desc[j].phys # f.desc[k].phys

KEntry == [type : STRING \cup {"FREE", "IGNORE"}, phys : Nat, bytes : Nat]
Ty(s, d) == convertMmapType(s[d].type)

\* When the first l of the descriptors s are in the map m: every entry begins
\* at one of them and has its type, no two entries begin at one place, and
\* every one of the descriptors has an entry of its type at or before it.
StartsOf(m, s, l) ==
  /\ \A k \in 1 .. Len(m) : m[k].type # "IGNORE" =>
       \E d \in 1 .. l : m[k].phys = s[d].phys /\ m[k].type = Ty(s, d)
  /\ \A j, k \in 1 .. Len(m) : j # k /\ m[j].type # "IGNORE" /\ m[k].type # "IGNORE" =>
       m[j].phys # m[k].phys
  /\ \A d \in 1 .. l : \E k \in 1 .. Len(m) : m[k].type = Ty(s, d) /\ m[k].phys <= s[d].phys

StartInv ==
  /\ kmmap \in Seq(KEntry)
  /\ step \in {"mem", "elf", "rd", "sym", "hand"} => kmmap = <<>>
  /\ step = "desc" => n - 1 \in 0 .. Len(fw.desc) /\ StartsOf(kmmap, fw.desc, n - 1)
  /\ step \in {"merge", "kernel"} => StartsOf(kmmap, fw.desc, Len(fw.desc))
  /\ step = "kernel" => kinf.entries = Len(kmmap) - 1
  /\ "entries" \in DOMAIN kinf

\* The fields of a descriptor and of its entry.
LEMMA EntryFields ==
  ASSUME LoadInv
  PROVE  /\ DOMAIN fw.desc = 1 .. Len(fw.desc) /\ Len(fw.desc) \in Nat
         /\ \A d \in 1 .. Len(fw.desc) :
              /\ fw.desc[d].phys \in Nat /\ fw.desc[d].bytes \in Nat
              /\ Entry(fw.desc[d]) \in KEntry /\ Ty(fw.desc, d) # "IGNORE"
              /\ Entry(fw.desc[d]).type = Ty(fw.desc, d) /\ Entry(fw.desc[d]).phys = fw.desc[d].phys
<1> DEFINE D == [type : STRING \ {"IGNORE"}, phys : Nat, bytes : Nat]  s == fw.desc
<1>1. s \in Seq(D) BY LoaderAssumption DEF LoadInv
<1> HIDE DEF D, s
<1>2. DOMAIN s = 1 .. Len(s) /\ Len(s) \in Nat BY <1>1, LenProperties
<1>3. \A d \in 1 .. Len(s) : s[d] \in D BY <1>1, ElementOfSeq
<1>4. ASSUME NEW d \in 1 .. Len(s)
      PROVE  /\ s[d].phys \in Nat /\ s[d].bytes \in Nat
             /\ Entry(s[d]) \in KEntry /\ convertMmapType(s[d].type) # "IGNORE"
             /\ Entry(s[d]).type = convertMmapType(s[d].type) /\ Entry(s[d]).phys = s[d].phys
  <2>1. /\ s[d].type \in STRING /\ s[d].type # "IGNORE" /\ s[d].phys \in Nat /\ s[d].bytes \in Nat
    BY <1>3 DEF D
  <2>2. /\ convertMmapType(s[d].type) \in STRING \cup {"FREE", "IGNORE"}
        /\ convertMmapType(s[d].type) # "IGNORE"
    BY <2>1 DEF convertMmapType
  <2> QED BY <2>1, <2>2 DEF Entry, KEntry
<1> QED BY <1>2, <1>4 DEF s, Ty

\* A descriptor that an entry reaches makes the last entry longer; another
\* one gets an entry.
LEMMA StartDesc == ASSUME StartsApart, LoadInv, StartInv, mergeDesc PROVE StartInv'
<1> DEFINE l == n - 1  d == fw.desc[n]
<1>1. /\ step = "desc" /\ n <= Len(fw.desc) /\ n' = n + 1 /\ step' = "desc" /\ fw' = fw /\ kinf' = kinf
      /\ kmmap' = IF Reaches(d) THEN [kmmap EXCEPT ![Len(kmmap)].bytes = @ + d.bytes]
                  ELSE Append(kmmap, Entry(d))
  BY DEF mergeDesc
<1>2. StartsOf(kmmap, fw.desc, l) /\ n \in Nat \ {0} BY <1>1 DEF StartInv, LoadInv
<1>3. /\ n \in 1 .. Len(fw.desc) /\ Len(fw.desc) \in Nat /\ n = l + 1 /\ l \in Nat
      /\ n' - 1 = n /\ n' - 1 \in 0 .. Len(fw.desc)
  BY <1>1, <1>2, EntryFields
<1>4. /\ d.phys \in Nat /\ d.bytes \in Nat /\ Entry(d) \in KEntry
      /\ Entry(d).type = Ty(fw.desc, n) /\ Entry(d).phys = d.phys /\ Ty(fw.desc, n) # "IGNORE"
  BY <1>3, EntryFields
<1>5. /\ kmmap \in Seq(KEntry) /\ Len(kmmap) \in Nat
      /\ \A k \in 1 .. Len(kmmap) : kmmap[k] \in KEntry
  <2>1. kmmap \in Seq(KEntry) BY DEF StartInv
  <2> QED BY <2>1, LenProperties, ElementOfSeq
<1>6. \A c \in 1 .. l : c \in 1 .. n /\ fw.desc[c].phys # d.phys
  <2>1. \A c \in 1 .. l : c \in 1 .. n /\ c \in 1 .. Len(fw.desc) /\ c # n BY <1>3
  <2> QED BY <1>3, <2>1, EntryFields DEF StartsApart, LoadInv
<1>7. \A c \in 1 .. n : c \in 1 .. l \/ c = n BY <1>3
<1>8. CASE Reaches(d)
  <2> DEFINE L == Len(kmmap)  e == [kmmap[L] EXCEPT !.bytes = @ + d.bytes]
  <2>1. PICK z \in 1 .. L - 1 : kmmap[z].type = Ty(fw.desc, n) /\ kmmap[z].phys <= d.phys
    BY <1>8 DEF Reaches, Ty
  <2>2. L \in 1 .. L /\ z \in 1 .. L /\ L # z BY <1>5
  <2>3. kmmap[L] \in KEntry BY <1>5, <2>2
  <2>4. e \in KEntry /\ e.type = kmmap[L].type /\ e.phys = kmmap[L].phys BY <1>4, <2>3 DEF KEntry
  <2>5. kmmap' = [kmmap EXCEPT ![L] = e] BY <1>1, <1>8
  <2> HIDE DEF L, e, d
  <2>6. kmmap' \in Seq(KEntry) /\ Len(kmmap') = L
        /\ \A k \in 1 .. L : kmmap'[k] = IF k = L THEN e ELSE kmmap[k]
    BY <1>5, <2>2, <2>4, <2>5, ExceptSeq DEF L
  <2>7. \A k \in 1 .. L : kmmap'[k].type = kmmap[k].type /\ kmmap'[k].phys = kmmap[k].phys
    BY <2>4, <2>6
  <2>8. \A k \in 1 .. L : kmmap'[k].type # "IGNORE" =>
          \E c \in 1 .. n : kmmap'[k].phys = fw.desc[c].phys /\ kmmap'[k].type = Ty(fw.desc, c)
    <3> SUFFICES ASSUME NEW k \in 1 .. L, kmmap[k].type # "IGNORE"
                 PROVE  \E c \in 1 .. n : kmmap[k].phys = fw.desc[c].phys /\ kmmap[k].type = Ty(fw.desc, c)
      BY <2>7
    <3>1. PICK c \in 1 .. l : kmmap[k].phys = fw.desc[c].phys /\ kmmap[k].type = Ty(fw.desc, c)
      BY <1>2 DEF StartsOf, L
    <3> QED BY <1>6, <3>1
  <2>9. \A j, k \in 1 .. L :
          j # k /\ kmmap'[j].type # "IGNORE" /\ kmmap'[k].type # "IGNORE" => kmmap'[j].phys # kmmap'[k].phys
    BY <1>2, <2>7 DEF StartsOf, L
  <2>10. \A c \in 1 .. n : \E k \in 1 .. L : kmmap'[k].type = Ty(fw.desc, c) /\ kmmap'[k].phys <= fw.desc[c].phys
    <3>1. \A c \in 1 .. l : \E k \in 1 .. L : kmmap'[k].type = Ty(fw.desc, c) /\ kmmap'[k].phys <= fw.desc[c].phys
      BY <1>2, <2>7 DEF StartsOf, L
    <3>2. kmmap'[z].type = Ty(fw.desc, n) /\ kmmap'[z].phys <= fw.desc[n].phys BY <2>1, <2>2, <2>7 DEF d
    <3> QED BY <1>7, <2>2, <3>1, <3>2
  <2>12. StartsOf(kmmap', fw.desc, n) BY <2>6, <2>8, <2>9, <2>10 DEF StartsOf
  <2>11. StartsOf(kmmap', fw'.desc, n' - 1) BY <1>1, <1>3, <2>12
  <2> QED BY <1>1, <1>3, <2>6, <2>11 DEF StartInv, KEntry
<1>9. CASE ~ Reaches(d)
  <2> DEFINE L == Len(kmmap)
  <2>1. kmmap' = Append(kmmap, Entry(d)) BY <1>1, <1>9
  <2> HIDE DEF d
  <2>2. kmmap' \in Seq(KEntry) /\ Len(kmmap') = L + 1
        /\ \A k \in 1 .. L + 1 : kmmap'[k] = IF k = L + 1 THEN Entry(d) ELSE kmmap[k]
    BY <1>4, <1>5, <2>1, AppendProperties
  <2> HIDE DEF L
  <2>3. L \in Nat /\ \A k \in 1 .. L + 1 : k \in 1 .. L \/ k = L + 1 BY <1>5 DEF L
  <2>4. \A k \in 1 .. L : k \in 1 .. L + 1 /\ kmmap'[k] = kmmap[k] BY <2>2, <2>3
  <2>5. L + 1 \in 1 .. L + 1 /\ kmmap'[L + 1].type = Ty(fw.desc, n) /\ kmmap'[L + 1].phys = d.phys
    BY <1>4, <2>2, <2>3
  <2>6. \A k \in 1 .. L : kmmap[k].type # "IGNORE" =>
          \E c \in 1 .. l : kmmap[k].phys = fw.desc[c].phys /\ kmmap[k].type = Ty(fw.desc, c)
    BY <1>2 DEF StartsOf, L
  <2>7. ASSUME NEW k \in 1 .. L + 1, kmmap'[k].type # "IGNORE"
        PROVE  \E c \in 1 .. n : kmmap'[k].phys = fw.desc[c].phys /\ kmmap'[k].type = Ty(fw.desc, c)
    <3>1. CASE k = L + 1
      <4>1. n \in 1 .. n BY <1>3
      <4> QED BY <2>5, <3>1, <4>1 DEF d
    <3>2. CASE k \in 1 .. L BY <1>6, <2>4, <2>6, <2>7, <3>2
    <3> QED BY <2>3, <3>1, <3>2
  <2>8. \A k \in 1 .. L : kmmap[k].type # "IGNORE" => kmmap[k].phys # d.phys BY <1>6, <2>6
  <2>9. \A j, k \in 1 .. L :
          j # k /\ kmmap[j].type # "IGNORE" /\ kmmap[k].type # "IGNORE" => kmmap[j].phys # kmmap[k].phys
    BY <1>2 DEF StartsOf, L
  <2>10. \A j, k \in 1 .. L + 1 :
          j # k /\ kmmap'[j].type # "IGNORE" /\ kmmap'[k].type # "IGNORE" => kmmap'[j].phys # kmmap'[k].phys
    BY <2>3, <2>4, <2>5, <2>8, <2>9
  <2>11. \A c \in 1 .. l : \E k \in 1 .. L : kmmap[k].type = Ty(fw.desc, c) /\ kmmap[k].phys <= fw.desc[c].phys
    BY <1>2 DEF StartsOf, L
  <2>12. ASSUME NEW c \in 1 .. n
         PROVE  \E k \in 1 .. L + 1 : kmmap'[k].type = Ty(fw.desc, c) /\ kmmap'[k].phys <= fw.desc[c].phys
    <3>1. CASE c = n
      <4>1. kmmap'[L + 1].type = Ty(fw.desc, c) /\ kmmap'[L + 1].phys <= fw.desc[c].phys
        BY <1>4, <2>5, <3>1 DEF d
      <4> QED BY <2>5, <4>1
    <3>2. CASE c \in 1 .. l
      <4>1. PICK k \in 1 .. L : kmmap[k].type = Ty(fw.desc, c) /\ kmmap[k].phys <= fw.desc[c].phys BY <2>11, <3>2
      <4> QED BY <2>4, <4>1
    <3> QED BY <1>7, <3>1, <3>2
  <2>14. StartsOf(kmmap', fw.desc, n) BY <2>2, <2>7, <2>10, <2>12 DEF StartsOf
  <2>13. StartsOf(kmmap', fw'.desc, n' - 1) BY <1>1, <1>3, <2>14
  <2> QED BY <1>1, <1>3, <2>2, <2>13 DEF StartInv, KEntry
<1> QED BY <1>8, <1>9

\* A set of numbers has a least one.
LEMMA LeastNat ==
  ASSUME NEW S \in SUBSET Nat, S # {} PROVE \E x \in S : \A y \in S : x <= y
<1> DEFINE R == OpToRel(<, Nat)
<1>1. IsWellFoundedOn(R, Nat) BY NatLessThanWellFounded
<1>2. \A x, y \in Nat : <<x, y>> \in R <=> x < y BY DEF OpToRel
<1> HIDE DEF R
<1>3. PICK x \in S : \A y \in S : ~ (<<y, x>> \in R) BY <1>1, WFMin
<1>4. \A y \in S : x <= y
  <2> TAKE y \in S
  <2>1. ~ (y < x) BY <1>2, <1>3
  <2> QED BY <2>1
<1> QED BY <1>4

\* A merge gives the lower start to the entry that stays.
LEMMA StartMerge == ASSUME LoadInv, StartInv, mergeKmmapEntry PROVE StartInv'
<1> DEFINE l == Len(fw.desc)  L == Len(kmmap)
<1>1. /\ step = "merge" /\ step' = "merge" /\ n < L /\ fw' = fw /\ kinf' = kinf /\ StartsOf(kmmap, fw.desc, l)
  BY DEF mergeKmmapEntry, StartInv
<1>2. /\ kmmap \in Seq(KEntry) /\ L \in Nat /\ \A k \in 1 .. L : kmmap[k] \in KEntry
      /\ l \in Nat /\ l' = l
  <2>1. kmmap \in Seq(KEntry) BY DEF StartInv
  <2> QED BY <1>1, <2>1, LenProperties, ElementOfSeq, EntryFields
<1>3. n \in 1 .. L BY <1>1, <1>2 DEF LoadInv
<1>4. CASE kmmap' = kmmap
  <2> QED BY <1>1, <1>4 DEF StartInv, KEntry
<1>5. CASE kmmap' # kmmap
  <2> DEFINE z == CHOOSE x \in Neighbours(n) : \A y \in Neighbours(n) : x <= y
             low == IF kmmap[z].phys < kmmap[n].phys THEN kmmap[z].phys ELSE kmmap[n].phys
             e == [kmmap[z] EXCEPT !.bytes = kmmap[n].bytes + Last(kmmap).bytes, !.phys = low]
             f == [kmmap[n] EXCEPT !.type = "IGNORE"]
  <2>1. /\ kmmap[n].type # "IGNORE" /\ Neighbours(n) # {}
        /\ kmmap' = [kmmap EXCEPT ![z].bytes = kmmap[n].bytes + Last(kmmap).bytes,
                                  ![z].phys = low, ![n].type = "IGNORE"]
    BY <1>5 DEF mergeKmmapEntry
  <2>2. Neighbours(n) \subseteq 1 .. L - 1 BY DEF Neighbours
  <2>3. z \in Neighbours(n)
    <3>1. \E x \in Neighbours(n) : \A y \in Neighbours(n) : x <= y
      <4>1. Neighbours(n) \subseteq Nat BY <2>2
      <4> QED BY <2>1, <4>1, LeastNat
    <3> QED BY <3>1
  <2> HIDE DEF z
  <2>4. z \in 1 .. L /\ z # n /\ kmmap[z].type = kmmap[n].type
    <3>1. z \in 1 .. L BY <1>2, <2>2, <2>3
    <3> QED BY <2>3, <3>1 DEF Neighbours
  <2>5. kmmap[z] \in KEntry /\ kmmap[n] \in KEntry /\ Last(kmmap) \in KEntry
    BY <1>2, <1>3, <2>4 DEF Last
  <2>6. /\ e \in KEntry /\ f \in KEntry /\ e.type = kmmap[z].type /\ e.phys = low /\ f.type = "IGNORE"
        /\ low \in Nat /\ low <= kmmap[z].phys /\ low <= kmmap[n].phys
        /\ (low = kmmap[z].phys \/ low = kmmap[n].phys)
    <3>1. /\ kmmap[z].phys \in Nat /\ kmmap[n].phys \in Nat
          /\ kmmap[n].bytes \in Nat /\ Last(kmmap).bytes \in Nat
      BY <2>5 DEF KEntry
    <3>2. /\ low \in Nat /\ low <= kmmap[z].phys /\ low <= kmmap[n].phys
          /\ (low = kmmap[z].phys \/ low = kmmap[n].phys)
      BY <3>1
    <3> DEFINE b == kmmap[n].bytes + Last(kmmap).bytes
    <3>3. b \in Nat BY <3>1
    <3> HIDE DEF low, b
    <3>4. e \in KEntry /\ e.type = kmmap[z].type /\ e.phys = low BY <2>5, <3>2, <3>3 DEF KEntry, b
    <3>5. f \in KEntry /\ f.type = "IGNORE" BY <2>5 DEF KEntry
    <3> QED BY <3>2, <3>4, <3>5
  <2>7. kmmap' = [[kmmap EXCEPT ![z] = e] EXCEPT ![n] = f]
    <3> DEFINE b == kmmap[n].bytes + Last(kmmap).bytes
    <3> HIDE DEF low
    <3>1. kmmap' = [kmmap EXCEPT ![z].bytes = b, ![z].phys = low, ![n].type = "IGNORE"] BY <2>1 DEF z, low
    <3> HIDE DEF b
    <3>2. DOMAIN kmmap = 1 .. L /\ z \in DOMAIN kmmap /\ n \in DOMAIN kmmap
      BY <1>2, <1>3, <2>4, LenProperties
    <3>3. e = [kmmap[z] EXCEPT !.bytes = b, !.phys = low] BY DEF b
    <3>4. [kmmap EXCEPT ![z].bytes = b, ![z].phys = low, ![n].type = "IGNORE"]
            = [[kmmap EXCEPT ![z] = [kmmap[z] EXCEPT !.bytes = b, !.phys = low]]
                 EXCEPT ![n] = [kmmap[n] EXCEPT !.type = "IGNORE"]]
      BY <2>4, <3>2
    <3> QED BY <3>1, <3>3, <3>4
  <2> HIDE DEF z, low, e, f, L, l
  <2>8. kmmap' \in Seq(KEntry) /\ Len(kmmap') = L
        /\ \A k \in 1 .. L : kmmap'[k] = IF k = n THEN f ELSE IF k = z THEN e ELSE kmmap[k]
    <3> DEFINE m == [kmmap EXCEPT ![z] = e]
    <3>1. m \in Seq(KEntry) /\ Len(m) = L /\ \A k \in 1 .. L : m[k] = IF k = z THEN e ELSE kmmap[k]
      BY <1>2, <2>4, <2>6, ExceptSeq DEF L
    <3>2. kmmap' = [m EXCEPT ![n] = f] BY <2>7
    <3> HIDE DEF m
    <3>3. n \in 1 .. Len(m) BY <1>3, <3>1
    <3>4. kmmap' \in Seq(KEntry) /\ Len(kmmap') = L /\ \A k \in 1 .. L : kmmap'[k] = IF k = n THEN f ELSE m[k]
      BY <2>6, <3>1, <3>2, <3>3, ExceptSeq
    <3> QED BY <3>1, <3>4
  <2>9. \A k \in 1 .. L : kmmap'[k].type # "IGNORE" =>
          /\ k # n /\ kmmap'[k].type = kmmap[k].type
          /\ (kmmap'[k].phys = kmmap[k].phys \/ (k = z /\ kmmap'[k].phys = kmmap[n].phys))
    BY <2>6, <2>8
  <2>10. ASSUME NEW k \in 1 .. L, kmmap'[k].type # "IGNORE"
         PROVE  \E d \in 1 .. l : kmmap'[k].phys = fw.desc[d].phys /\ kmmap'[k].type = Ty(fw.desc, d)
    <3>1. \A c \in 1 .. L : kmmap[c].type # "IGNORE" =>
            \E d \in 1 .. l : kmmap[c].phys = fw.desc[d].phys /\ kmmap[c].type = Ty(fw.desc, d)
      BY <1>1 DEF StartsOf, L
    <3>2. CASE kmmap'[k].phys = kmmap[k].phys BY <2>9, <2>10, <3>1, <3>2
    <3>3. CASE k = z /\ kmmap'[k].phys = kmmap[n].phys
      <4>1. PICK d \in 1 .. l : kmmap[n].phys = fw.desc[d].phys /\ kmmap[n].type = Ty(fw.desc, d)
        BY <1>3, <2>1, <3>1
      <4>2. kmmap'[k].type = kmmap[n].type BY <2>4, <2>9, <2>10, <3>3
      <4> QED BY <3>3, <4>1, <4>2
    <3> QED BY <2>9, <2>10, <3>2, <3>3
  <2>11. ASSUME NEW j \in 1 .. L, NEW k \in 1 .. L, j # k,
                kmmap'[j].type # "IGNORE", kmmap'[k].type # "IGNORE"
         PROVE  kmmap'[j].phys # kmmap'[k].phys
    <3>1. \A c, d \in 1 .. L : c # d /\ kmmap[c].type # "IGNORE" /\ kmmap[d].type # "IGNORE" =>
            kmmap[c].phys # kmmap[d].phys
      BY <1>1 DEF StartsOf, L
    <3>2. /\ j # n /\ k # n /\ kmmap[j].type # "IGNORE" /\ kmmap[k].type # "IGNORE"
          /\ (kmmap'[j].phys = kmmap[j].phys \/ (j = z /\ kmmap'[j].phys = kmmap[n].phys))
          /\ (kmmap'[k].phys = kmmap[k].phys \/ (k = z /\ kmmap'[k].phys = kmmap[n].phys))
      BY <2>9, <2>11
    <3>3. kmmap[j].phys # kmmap[k].phys /\ kmmap[j].phys # kmmap[n].phys /\ kmmap[k].phys # kmmap[n].phys
      BY <1>3, <2>1, <2>11, <3>1, <3>2
    <3> QED BY <2>11, <3>2, <3>3
  <2>12. ASSUME NEW d \in 1 .. l
         PROVE  \E k \in 1 .. L : kmmap'[k].type = Ty(fw.desc, d) /\ kmmap'[k].phys <= fw.desc[d].phys
    <3>1. PICK k \in 1 .. L : kmmap[k].type = Ty(fw.desc, d) /\ kmmap[k].phys <= fw.desc[d].phys
      BY <1>1 DEF StartsOf, L
    <3>2. fw.desc[d].phys \in Nat BY EntryFields DEF l
    <3>3. kmmap[k].phys \in Nat /\ kmmap[z].phys \in Nat /\ kmmap[n].phys \in Nat
      BY <1>2, <2>5 DEF KEntry
    <3>4. CASE k = n \/ k = z
      <4>1. kmmap'[z] = e BY <2>4, <2>8
      <4>2. kmmap'[z].type = Ty(fw.desc, d) /\ kmmap'[z].phys <= fw.desc[d].phys
        BY <2>4, <2>6, <3>1, <3>2, <3>3, <3>4, <4>1
      <4> QED BY <2>4, <4>2
    <3>5. CASE k # n /\ k # z
      <4>1. kmmap'[k] = kmmap[k] BY <2>8, <3>5
      <4> QED BY <3>1, <4>1
    <3> QED BY <3>4, <3>5
  <2>13. StartsOf(kmmap', fw'.desc, l) BY <1>1, <2>8, <2>10, <2>11, <2>12 DEF StartsOf
  <2>14. Len(fw'.desc) = l BY <1>1 DEF l
  <2> QED BY <1>1, <2>8, <2>13, <2>14 DEF StartInv, KEntry
<1> QED BY <1>4, <1>5

\* Every step keeps the starts.
LEMMA StartStep == ASSUME StartsApart, LoadInv, StartInv, [LNext]_lvars PROVE StartInv'
<1>1. CASE initMem BY <1>1 DEF initMem, StartInv, KEntry
<1>2. CASE loadELF BY <1>2 DEF loadELF, Fail, StartInv, KEntry
<1>3. CASE loadFiles BY <1>3 DEF loadFiles, File, StartInv, KEntry
<1>4. CASE handOver
  <2>1. /\ kmmap = <<>> /\ kmmap' = kmmap /\ step' = "desc" /\ n' = 1 /\ fw' = fw /\ kinf' = kinf
    BY <1>4 DEF handOver, StartInv
  <2>2. Len(fw.desc) \in Nat BY EntryFields
  <2>3. n' - 1 = 0 /\ n' - 1 \in 0 .. Len(fw'.desc) BY <2>1, <2>2
  <2>4. StartsOf(kmmap', fw'.desc, n' - 1) BY <2>1, <2>3 DEF StartsOf
  <2> QED BY <2>1, <2>3, <2>4 DEF StartInv, KEntry
<1>5. CASE mergeDesc BY <1>5, StartDesc
<1>6. CASE descsDone
  <2>1. /\ step = "desc" /\ n > Len(fw.desc) /\ step' = "merge" /\ UNCHANGED <<fw, kmmap, kinf>>
    BY <1>6 DEF descsDone
  <2>2. Len(fw.desc) \in Nat /\ n \in Nat BY EntryFields DEF LoadInv
  <2>3. n - 1 \in 0 .. Len(fw.desc) /\ StartsOf(kmmap, fw.desc, n - 1) BY <2>1 DEF StartInv
  <2>4. n - 1 = Len(fw.desc) BY <2>1, <2>2, <2>3
  <2> QED BY <2>1, <2>3, <2>4 DEF StartInv, KEntry
<1>7. CASE mergeKmmapEntry BY <1>7, StartMerge
<1>8. CASE exitBootServices
  <2>1. /\ step = "merge" /\ step' \in {"kernel", "refused"} /\ UNCHANGED <<fw, kmmap>>
        /\ kinf' = [kinf EXCEPT !.entries = Len(kmmap) - 1]
    BY <1>8 DEF exitBootServices, memInfo
  <2>2. kinf'.entries = Len(kmmap') - 1 /\ "entries" \in DOMAIN kinf' BY <2>1 DEF StartInv
  <2> QED BY <2>1, <2>2 DEF StartInv, KEntry
<1>9. CASE UNCHANGED lvars BY <1>9 DEF lvars, StartInv, KEntry
<1> QED BY <1>1, <1>2, <1>3, <1>4, <1>5, <1>6, <1>7, <1>8, <1>9 DEF LNext

\* What the starts say when the kernel is told.
LEMMA StartsSaid == ASSUME LoadInv, StartInv PROVE StartsTold
<1> SUFFICES ASSUME step = "kernel" PROVE StartsTold BY DEF StartsTold
<1> DEFINE l == Len(fw.desc)  L == Len(kmmap)
<1>1. StartsOf(kmmap, fw.desc, l) /\ kinf.entries = L - 1 BY DEF StartInv
<1>2. L \in Nat /\ \A k \in 1 .. L : kmmap[k] \in KEntry
  BY LenProperties, ElementOfSeq DEF StartInv
<1>3. DOMAIN fw.desc = 1 .. l /\ l \in Nat BY EntryFields
<1>4. Told \subseteq 1 .. L /\ \A k \in Told : kmmap[k].type # "IGNORE" BY <1>1, <1>2 DEF Told
<1>5. \A k \in 1 .. L : kmmap[k].type # "IGNORE" => k \in Told \cup {L} BY <1>1, <1>2 DEF Told
<1> HIDE DEF L, l
<1>6. ASSUME NEW d \in 1 .. l, Lowest(d)
      PROVE  \E k \in Told \cup {L} :
               kmmap[k].phys = fw.desc[d].phys /\ kmmap[k].type = convertMmapType(fw.desc[d].type)
  <2>1. PICK k \in 1 .. L : kmmap[k].type = Ty(fw.desc, d) /\ kmmap[k].phys <= fw.desc[d].phys
    BY <1>1 DEF StartsOf, L
  <2>2. kmmap[k].type # "IGNORE" BY <2>1, EntryFields DEF l
  <2>3. PICK c \in 1 .. l : kmmap[k].phys = fw.desc[c].phys /\ kmmap[k].type = Ty(fw.desc, c)
    BY <1>1, <2>2 DEF StartsOf, L
  <2>4. fw.desc[c].phys >= fw.desc[d].phys BY <1>3, <1>6, <2>1, <2>3 DEF Lowest, Ty
  <2>5. fw.desc[c].phys \in Nat /\ fw.desc[d].phys \in Nat BY EntryFields DEF l
  <2>6. kmmap[k].phys = fw.desc[d].phys BY <2>1, <2>3, <2>4, <2>5
  <2> QED BY <1>5, <2>1, <2>2, <2>6 DEF Ty
<1> QED BY <1>1, <1>3, <1>4, <1>6 DEF StartsTold, StartsOf, L, Ty

\* For every firmware map in which no two descriptors begin at one place, and
\* whatever there is to merge: the kernel is told of entries that begin where
\* memory of their type does, each at a place of its own, and of the lowest
\* memory of every type.  The sizes are wrong: that is the finding of run
\* boot_map (mem.c:264-355).
THEOREM StartsHandedOver == ASSUME StartsApart PROVE LSpec => []StartsTold
<1>1. LInit => StartInv BY DEF LInit, StartInv
<1>2. LoadInv /\ StartInv /\ [LNext]_lvars => StartInv' BY StartStep
<1>3. LoadInv /\ StartInv => StartsTold BY StartsSaid
<1> QED BY <1>1, <1>2, <1>3, Loading, PTL DEF LSpec
=============================================================================
