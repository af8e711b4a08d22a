------------------------------ MODULE VmmProofs ------------------------------
(***************************************************************************)
(* Proofs about Vmm, for every page size, every set of sizes and every     *)
(* number of markers.  The argument: the list of markers is ascending, so  *)
(* the test for a gap never succeeds and every marker goes to the end.     *)
(***************************************************************************)
EXTENDS Vmm, TLAPS

\* The markers' ranges are in ascending order and end within the pages.
Ascending ==
  /\ \A k \in 1 .. n : pages[k] >= 1 /\ base[k] + pages[k] <= MaxPage
  /\ \A j, k \in 1 .. n : j < k => base[j] + pages[j] <= base[k]

\* The running call maps the range of a marker.
CallHasMarker ==
  pc \in {"map", "mapphys"} =>
    /\ i <= count + 1
    /\ pc = "mapphys" => from \in Nat
    /\ \E j \in 1 .. n : base[j] = virt /\ pages[j] = count

VInv == TypeOK /\ Ascending /\ CallHasMarker

\* Every size is at most a page or a whole number of pages.
WholePages == \A s \in Sizes : s <= PageSz \/ s % PageSz = 0

\* What the markers' ranges hold is what was asked for.
AskedFits == \A k \in 1 .. n : asked[k] <= pages[k] * PageSz

\* allocMarker() asks for at least one page.
LEMMA PagesPositive ==
  ASSUME NEW s \in Sizes
  PROVE  PagesOf(s) \in Nat /\ PagesOf(s) >= 1
<1>1. s \in Nat /\ PageSz \in Nat /\ PageSz > 0  BY VmmAssumption
<1>2. CASE s < PageSz  BY <1>2 DEF PagesOf
<1>3. CASE ~ (s < PageSz)
  <2>1. s \div PageSz \in Nat  BY <1>1
  <2>2. s \div PageSz >= 1  BY <1>1, <1>3
  <2> QED  BY <1>3, <2>1, <2>2 DEF PagesOf
<1> QED  BY <1>2, <1>3

\* In an ascending list allocMarker()'s test for a gap never succeeds.
LEMMA NoGap ==
  ASSUME TypeOK, Ascending, NEW min \in MinPages, NEW pg
  PROVE  Gaps(min, pg) = {}
<1>1. \A k \in 1 .. n - 1 : ~ (base[k + 1] <= min /\ base[k] > min)
  <2> SUFFICES ASSUME NEW k \in 1 .. n - 1
               PROVE  ~ (base[k + 1] <= min /\ base[k] > min)
      OBVIOUS
  <2>0. min \in Int  BY VmmAssumption
  <2>1. k \in 1 .. n /\ k + 1 \in 1 .. n /\ k < k + 1  BY DEF TypeOK, Mk
  <2>2. base[k] + pages[k] <= base[k + 1] /\ pages[k] >= 1
      BY <2>1 DEF Ascending
  <2>3. base[k] \in Int /\ base[k + 1] \in Int /\ pages[k] \in Int
      BY <2>1, VmmAssumption DEF TypeOK, Mk, Page
  <2> QED  BY <2>0, <2>2, <2>3
<1> QED  BY <1>1 DEF Gaps

\* So a new marker begins where the last one ends.
LEMMA PlacedLast ==
  ASSUME TypeOK, Ascending, NEW min \in MinPages, NEW pg, NEW at, NEW b,
         Place(min, pg, at, b)
  PROVE  at = n /\ b = base[n] + pages[n]
BY NoGap DEF Place, End

\* Linking a marker at the end keeps the list and its order.
LEMMA LinkLast ==
  ASSUME TypeOK, Ascending, n < MaxMarkers,
         NEW b \in Page, b = base[n] + pages[n],
         NEW pg \in Nat, pg >= 1, b + pg <= MaxPage,
         NEW bytes \in Nat, NEW ph \in Nat \cup {AnyPhys},
         Link(n, b, pg, bytes, ph)
  PROVE  /\ n' \in Mk /\ n' = n + 1
         /\ base' \in [Mk -> Page] /\ pages' \in [Mk -> Nat]
         /\ asked' \in [Mk -> Nat] /\ phys' \in [Mk -> Nat \cup {AnyPhys}]
         /\ \A k \in 1 .. n : base'[k] = base[k] /\ pages'[k] = pages[k] /\ asked'[k] = asked[k]
         /\ base'[n + 1] = b /\ pages'[n + 1] = pg /\ asked'[n + 1] = bytes
         /\ \A k \in 1 .. n : phys'[k] = phys[k]
         /\ phys'[n + 1] = ph
         /\ Ascending'
<1>1. n \in 1 .. MaxMarkers /\ n + 1 \in 1 .. MaxMarkers /\ MaxMarkers \in Nat /\ MaxPage \in Nat
    BY VmmAssumption DEF TypeOK, Mk
<1>2. n' \in Mk /\ n' = n + 1  BY <1>1 DEF Link, Mk
<1>3. \A k \in Mk : k <= n \/ k = n + 1 \/ k - 1 \in Mk  BY <1>1 DEF Mk
<1>4. base' \in [Mk -> Page]  BY <1>3 DEF TypeOK, Link, InsertAfter
<1>5. pages' \in [Mk -> Nat]  BY <1>3 DEF TypeOK, Link, InsertAfter
<1>6. asked' \in [Mk -> Nat]  BY <1>3 DEF TypeOK, Link, InsertAfter
<1>7. phys' \in [Mk -> Nat \cup {AnyPhys}]  BY <1>3 DEF TypeOK, Link, InsertAfter
<1>8. \A k \in 1 .. n : base'[k] = base[k] /\ pages'[k] = pages[k] /\ asked'[k] = asked[k]
    BY <1>1 DEF Link, InsertAfter, Mk
<1>9. base'[n + 1] = b /\ pages'[n + 1] = pg /\ asked'[n + 1] = bytes
    BY <1>1 DEF Link, InsertAfter, Mk
<1>10. \A k \in 1 .. n : base[k] \in Nat /\ pages[k] \in Nat
    BY <1>1 DEF TypeOK, Mk, Page
<1>11. \A k \in 1 .. n + 1 : pages'[k] >= 1 /\ base'[k] + pages'[k] <= MaxPage
    BY <1>1, <1>8, <1>9 DEF Ascending
<1>12. ASSUME NEW j \in 1 .. n + 1, NEW k \in 1 .. n + 1, j < k
       PROVE  base'[j] + pages'[j] <= base'[k]
  <2>1. j \in 1 .. n  BY <1>1, <1>12
  <2>2. CASE k \in 1 .. n  BY <1>8, <1>12, <2>1, <2>2 DEF Ascending
  <2>3. CASE k = n + 1
    <3>1. base[j] + pages[j] <= base[n] + pages[n]
      <4>1. CASE j = n  BY <4>1, <1>10, <1>1
      <4>2. CASE j < n
        <5>1. base[j] + pages[j] <= base[n]  BY <4>2, <2>1, <1>1 DEF Ascending
        <5> QED  BY <5>1, <1>10, <2>1, <1>1
      <4> QED  BY <4>1, <4>2, <2>1, <1>1
    <3> QED  BY <3>1, <2>1, <2>3, <1>8, <1>9
  <2> QED  BY <2>2, <2>3, <1>1
<1>13. phys'[n + 1] = ph /\ \A k \in 1 .. n : phys'[k] = phys[k]
    BY <1>1 DEF Link, InsertAfter, Mk
<1> QED  BY <1>2, <1>4, <1>5, <1>6, <1>7, <1>8, <1>9, <1>11, <1>12, <1>13 DEF Ascending

\* Beginning a call keeps the invariant (vmalloc, vmallocPhys).
LEMMA BeginKeeps ==
  ASSUME VInv, NEW bytes \in Sizes, NEW min \in MinPages,
         NEW ph \in Nat \cup {AnyPhys}, NEW loop \in {"map", "mapphys"},
         loop = "mapphys" => ph \in Nat,
         Begin(bytes, min, ph, loop)
  PROVE  VInv'
<1>1. CASE NoMarker
    BY <1>1 DEF NoMarker, VInv, TypeOK, Ascending, CallHasMarker, list, call
<1>2. CASE n < MaxMarkers /\ ~ NoMarker
  <2>1. PICK at \in 1 .. n : \E b \in Page :
           /\ Place(min, PagesOf(bytes), at, b)
           /\ b + PagesOf(bytes) <= MaxPage
           /\ Link(at, b, PagesOf(bytes), bytes, ph)
           /\ virt' = b
      BY <1>2 DEF Begin
  <2>2. PICK b \in Page :
           /\ Place(min, PagesOf(bytes), at, b)
           /\ b + PagesOf(bytes) <= MaxPage
           /\ Link(at, b, PagesOf(bytes), bytes, ph)
           /\ virt' = b
      BY <2>1
  <2>3. at = n /\ b = base[n] + pages[n]  BY <2>2, PlacedLast DEF VInv
  <2>4. PagesOf(bytes) \in Nat /\ PagesOf(bytes) >= 1  BY PagesPositive
  <2>5. bytes \in Nat  BY VmmAssumption
  <2>6. /\ n' \in Mk /\ n' = n + 1
        /\ base' \in [Mk -> Page] /\ pages' \in [Mk -> Nat]
        /\ asked' \in [Mk -> Nat] /\ phys' \in [Mk -> Nat \cup {AnyPhys}]
        /\ base'[n + 1] = b /\ pages'[n + 1] = PagesOf(bytes)
        /\ Ascending'
      BY <1>2, <2>2, <2>3, <2>4, <2>5, LinkLast DEF VInv
  <2>7. count' = PagesOf(bytes) /\ from' = ph /\ i' = 0 /\ pc' = loop /\ UNCHANGED <<map, next>>
      BY <1>2 DEF Begin
  <2>8. TypeOK'  BY <2>2, <2>4, <2>6, <2>7 DEF VInv, TypeOK
  <2>9. n + 1 \in 1 .. n'  BY <2>6 DEF Mk
  <2>10. CallHasMarker'  BY <2>2, <2>4, <2>6, <2>7, <2>9 DEF CallHasMarker
  <2> QED  BY <2>6, <2>8, <2>10 DEF VInv
<1> QED  BY <1>1, <1>2 DEF Begin

\* The page being mapped is a page, beyond every range below the call's.
LEMMA PageInRange ==
  ASSUME VInv, pc \in {"map", "mapphys"}, i <= count
  PROVE  /\ virt + i \in Page
         /\ \A k \in 1 .. n : base[k] < virt => base[k] + pages[k] <= virt
<1>1. PICK j \in 1 .. n : base[j] = virt /\ pages[j] = count
    BY DEF VInv, CallHasMarker
<1>2. virt + count <= MaxPage  BY <1>1 DEF VInv, Ascending
<1>3. virt + i \in Page
    BY <1>2, VmmAssumption DEF VInv, TypeOK, Page
<1>4. ASSUME NEW k \in 1 .. n, base[k] < virt PROVE base[k] + pages[k] <= virt
  <2>1. base[k] \in Nat /\ base[j] \in Nat /\ pages[j] \in Nat /\ pages[k] \in Nat
      BY VmmAssumption DEF VInv, TypeOK, Mk, Page
  <2>2. k \in Int /\ j \in Int  OBVIOUS
  <2>3. CASE j < k
    <3>1. base[j] + pages[j] <= base[k]  BY <2>3 DEF VInv, Ascending
    <3> QED  BY <3>1, <2>1, <1>1, <1>4
  <2>4. CASE k < j  BY <2>4, <1>1 DEF VInv, Ascending
  <2>5. CASE k = j  BY <2>5, <2>1, <1>1, <1>4
  <2> QED  BY <2>2, <2>3, <2>4, <2>5
<1> QED  BY <1>3, <1>4

\* The nested vmallocPhys() of growPageStack() keeps the invariant and the
\* pages of every range.
LEMMA GrowKeeps ==
  ASSUME VInv, GrowPageStack
  PROVE  /\ VInv'
         /\ \A k \in 1 .. n : \A p \in Range(k) : map'[p] = map[p]
<1>1. CASE n = MaxMarkers /\ pc' = "stopped" /\ UNCHANGED <<list, map, next, call>>
    BY <1>1 DEF VInv, TypeOK, Ascending, CallHasMarker, list, call
<1>2. CASE n < MaxMarkers /\ ~ (pc' = "stopped" /\ n = MaxMarkers)
  <2>1. PICK min \in MinPages : \E at \in 1 .. n, b \in Page :
          /\ Place(min, TablePages, at, b)
          /\ b + TablePages <= MaxPage
          /\ Link(at, b, TablePages, TablePages * PageSz, next)
          /\ map' = [p \in Page |-> IF p \in b .. b + TablePages - 1
                                    THEN next + (p - b) ELSE map[p]]
      BY <1>2 DEF GrowPageStack
  <2>2. PICK at \in 1 .. n : \E b \in Page :
          /\ Place(min, TablePages, at, b)
          /\ b + TablePages <= MaxPage
          /\ Link(at, b, TablePages, TablePages * PageSz, next)
          /\ map' = [p \in Page |-> IF p \in b .. b + TablePages - 1
                                    THEN next + (p - b) ELSE map[p]]
      BY <2>1
  <2>3. PICK b \in Page :
          /\ Place(min, TablePages, at, b)
          /\ b + TablePages <= MaxPage
          /\ Link(at, b, TablePages, TablePages * PageSz, next)
          /\ map' = [p \in Page |-> IF p \in b .. b + TablePages - 1
                                    THEN next + (p - b) ELSE map[p]]
      BY <2>2
  <2>4. at = n /\ b = base[n] + pages[n]  BY <2>3, PlacedLast DEF VInv
  <2>5. TablePages \in Nat /\ TablePages >= 1 /\ PageSz \in Nat  BY VmmAssumption
  <2>6. TablePages * PageSz \in Nat  BY <2>5
  <2>7. next \in Nat  BY DEF VInv, TypeOK
  <2>8. /\ n' \in Mk /\ n' = n + 1
        /\ base' \in [Mk -> Page] /\ pages' \in [Mk -> Nat]
        /\ asked' \in [Mk -> Nat] /\ phys' \in [Mk -> Nat \cup {AnyPhys}]
        /\ \A k \in 1 .. n : base'[k] = base[k] /\ pages'[k] = pages[k]
        /\ Ascending'
      BY <1>2, <2>3, <2>4, <2>5, <2>6, <2>7, LinkLast DEF VInv
  <2>9. next' = next + TablePages /\ pc' \in {pc, "stopped"} /\ UNCHANGED call
      BY <1>2 DEF GrowPageStack
  <2>10. map' \in [Page -> Nat \cup {Unmapped}]
    <3>1. \A p \in b .. b + TablePages - 1 : next + (p - b) \in Nat
        BY <2>5, <2>7 DEF Page
    <3> QED  BY <2>3, <3>1 DEF VInv, TypeOK
  <2>11. TypeOK'  BY <2>5, <2>8, <2>9, <2>10 DEF VInv, TypeOK, call
  <2>12. 1 .. n \subseteq 1 .. n'  BY <2>8 DEF VInv, TypeOK, Mk
  <2>13. CallHasMarker'
      BY <2>8, <2>9, <2>12 DEF VInv, CallHasMarker, call
  <2>14. ASSUME NEW k \in 1 .. n, NEW p \in Range(k) PROVE map'[p] = map[p]
    <3>1. n \in 1 .. n /\ k <= n /\ n \in Int /\ k \in Int  BY DEF VInv, TypeOK, Mk
    <3>2. /\ base[k] \in Nat /\ pages[k] \in Nat /\ base[n] \in Nat /\ pages[n] \in Nat
        BY <3>1, VmmAssumption DEF VInv, TypeOK, Mk, Page
    <3>3. base[k] + pages[k] <= base[n] + pages[n]
      <4>1. CASE k = n  BY <4>1, <3>2
      <4>2. CASE k < n
        <5>1. base[k] + pages[k] <= base[n]  BY <3>1, <4>2 DEF VInv, Ascending
        <5> QED  BY <5>1, <3>2
      <4> QED  BY <3>1, <4>1, <4>2
    <3>4. p \in Int /\ 0 <= p /\ p < b  BY <2>4, <3>2, <3>3, <2>14 DEF Range, End
    <3>5. p \in Page /\ p \notin b .. b + TablePages - 1
        BY <3>4, VmmAssumption DEF Page
    <3> QED  BY <2>3, <3>5
  <2> QED  BY <2>8, <2>11, <2>13, <2>14 DEF VInv
<1> QED  BY <1>1, <1>2 DEF GrowPageStack, VInv, TypeOK, Mk

\* The invariant holds at boot, with the one marker of createFakeTask().
LEMMA InitVInv ==
  ASSUME Init PROVE VInv
<1>1. Ascending  BY VmmAssumption DEF Init, Ascending, Mk
<1>2. TypeOK  BY VmmAssumption DEF Init, TypeOK, Mk, Page, AnyPhys, Unmapped
<1> QED  BY <1>1, <1>2 DEF VInv, CallHasMarker, Init

\* Mapping a page keeps the invariant and the pages of the ranges below.
LEMMA MapKeeps ==
  ASSUME VInv, MapPage \/ MapPhysPage
  PROVE  /\ VInv'
         /\ \A k \in 1 .. n : base[k] < virt => \A p \in Range(k) : map'[p] = map[p]
<1>1. pc \in {"map", "mapphys"} /\ i <= count /\ i' = i + 1
      /\ UNCHANGED <<list, pc, virt, count, from>>
    BY DEF MapPage, MapPhysPage, VInv, TypeOK
<1>2. /\ virt + i \in Page
      /\ \A k \in 1 .. n : base[k] < virt => base[k] + pages[k] <= virt
    BY <1>1, PageInRange
<1>3. PICK v \in Nat : map' = [map EXCEPT ![virt + i] = v]
    <2>1. CASE MapPage  BY <2>1 DEF MapPage, VInv, TypeOK
    <2>2. CASE MapPhysPage
      <3>1. from \in Nat  BY <2>2 DEF MapPhysPage, VInv, CallHasMarker
      <3>2. EntryFrame(from, from + i) \in Nat
          BY <3>1 DEF VInv, TypeOK, EntryFrame
      <3> QED  BY <2>2, <3>2 DEF MapPhysPage
    <2> QED  BY <2>1, <2>2
<1>4. ASSUME NEW k \in 1 .. n, base[k] < virt, NEW p \in Range(k)
      PROVE  map'[p] = map[p]
  <2>1. base[k] \in Nat /\ pages[k] \in Nat
      BY VmmAssumption DEF VInv, TypeOK, Mk, Page
  <2>2. base[k] + pages[k] <= virt  BY <1>2, <1>4
  <2>3. p \in Int /\ 0 <= p /\ p < virt  BY <1>4, <2>1, <2>2 DEF Range, End, VInv, TypeOK, Page
  <2>4. p # virt + i  BY <2>3 DEF VInv, TypeOK, Page
  <2>5. p \in Page  BY <2>3, VmmAssumption DEF VInv, TypeOK, Page
  <2> QED  BY <1>3, <2>4, <2>5 DEF VInv, TypeOK
<1>5. next' \in Nat
  <2>1. CASE MapPage  BY <2>1 DEF MapPage, VInv, TypeOK
  <2>2. CASE MapPhysPage  BY <2>2 DEF MapPhysPage, VInv, TypeOK
  <2> QED  BY <2>1, <2>2
<1>6. TypeOK'  BY <1>1, <1>2, <1>3, <1>5 DEF VInv, TypeOK, list
<1>7. Ascending'  BY <1>1 DEF VInv, Ascending, list
<1>8. CallHasMarker'
  <2>1. i' <= count' + 1  BY <1>1 DEF VInv, TypeOK
  <2> QED  BY <1>1, <2>1 DEF VInv, CallHasMarker, list
<1> QED  BY <1>4, <1>6, <1>7, <1>8 DEF VInv

\* Every step keeps the invariant.
LEMMA NextVInv ==
  ASSUME VInv, [Next]_vars PROVE VInv'
<1>1. CASE Vmalloc
  <2>1. PICK bytes \in Sizes : \E min \in MinPages : Begin(bytes, min, AnyPhys, "map")
      BY <1>1 DEF Vmalloc
  <2>2. PICK min \in MinPages : Begin(bytes, min, AnyPhys, "map")  BY <2>1
  <2> QED  BY <2>2, BeginKeeps
<1>2. CASE VmallocPhys
  <2>1. PICK bytes \in Sizes : \E min \in MinPages, ph \in Devices :
          Begin(bytes, min, ph, "mapphys")
      BY <1>2 DEF VmallocPhys
  <2>2. PICK min \in MinPages : \E ph \in Devices : Begin(bytes, min, ph, "mapphys")
      BY <2>1
  <2>3. PICK ph \in Devices : Begin(bytes, min, ph, "mapphys")  BY <2>2
  <2>4. ph \in Nat  BY VmmAssumption
  <2> QED  BY <2>3, <2>4, BeginKeeps
<1>3. CASE MapPage \/ MapPhysPage  BY <1>3, MapKeeps
<1>4. CASE Return
    BY <1>4 DEF Return, VInv, TypeOK, Ascending, CallHasMarker, list, call
<1>5. CASE GrowPageStack  BY <1>5, GrowKeeps
<1>6. CASE UNCHANGED vars
    BY <1>6 DEF vars, VInv, TypeOK, Ascending, CallHasMarker, list, call
<1> QED  BY <1>1, <1>2, <1>3, <1>4, <1>5, <1>6 DEF Next

\* vmalloc(), vmallocPhys() and the nested call keep the types: every page
\* they map and every marker they link is within the bounds.
THEOREM VmmTypes == Spec => []TypeOK
<1>1. Init => VInv  BY InitVInv
<1>2. VInv /\ [Next]_vars => VInv'  BY NextVInv
<1>3. VInv => TypeOK  BY DEF VInv
<1> QED  BY <1>1, <1>2, <1>3, PTL DEF Spec

\* No step of a running call changes the mapping of a range that lies below
\* the range being mapped, whatever sizes are asked for.
THEOREM MappingStays == Spec => PagesStay
<1>1. ASSUME VInv, Next
      PROVE  \A k \in 1 .. n : pc # "idle" /\ base[k] < virt =>
               \A p \in Range(k) : map'[p] = map[p]
  <2>1. CASE Vmalloc \/ VmallocPhys  BY <2>1 DEF Vmalloc, VmallocPhys, Begin
  <2>2. CASE MapPage \/ MapPhysPage  BY <1>1, <2>2, MapKeeps
  <2>3. CASE Return  BY <2>3 DEF Return
  <2>4. CASE GrowPageStack  BY <1>1, <2>4, GrowKeeps
  <2> QED  BY <1>1, <2>1, <2>2, <2>3, <2>4 DEF Next
<1>2. VInv /\ [Next]_vars
        => [\A k \in 1 .. n : pc # "idle" /\ base[k] < virt =>
              \A p \in Range(k) : map'[p] = map[p]]_vars
    BY <1>1
<1>3. Init => VInv  BY InitVInv
<1>4. VInv /\ [Next]_vars => VInv'  BY NextVInv
<1> QED  BY <1>2, <1>3, <1>4, PTL DEF Spec, PagesStay

\* A whole number of pages is what allocMarker() reserves.
LEMMA SizeFits ==
  ASSUME WholePages, NEW s \in Sizes
  PROVE  s <= PagesOf(s) * PageSz
<1>1. s \in Nat /\ PageSz \in Nat /\ PageSz > 0  BY VmmAssumption
<1>2. CASE s < PageSz  BY <1>1, <1>2 DEF PagesOf
<1>3. CASE ~ (s < PageSz)
  <2>1. s % PageSz = 0
    <3>1. CASE s = PageSz  BY <1>1, <3>1
    <3> QED  BY <1>1, <1>3, <3>1 DEF WholePages
  <2>2. s = PageSz * (s \div PageSz) + (s % PageSz)  BY <1>1
  <2>3. s \div PageSz \in Nat  BY <1>1
  <2>4. s = (s \div PageSz) * PageSz  BY <1>1, <2>1, <2>2, <2>3
  <2> QED  BY <1>1, <1>3, <2>3, <2>4 DEF PagesOf
<1> QED  BY <1>2, <1>3

\* More pages are more bytes.
LEMMA PagesToBytes ==
  ASSUME NEW a \in Nat, NEW b \in Nat, NEW c \in Nat, NEW d \in Nat,
         a + b <= c, d <= b * PageSz
  PROVE  (a * PageSz) + d <= c * PageSz
<1>1. PageSz \in Nat  BY VmmAssumption
<1>2. (a + b) * PageSz = (a * PageSz) + (b * PageSz)  BY <1>1
<1>3. (a + b) * PageSz <= c * PageSz  BY <1>1
<1>4. a * PageSz \in Nat /\ b * PageSz \in Nat /\ c * PageSz \in Nat  BY <1>1
<1> QED  BY <1>2, <1>3, <1>4

\* A step keeps what was asked for within the markers' ranges.
LEMMA NextAskedFits ==
  ASSUME WholePages, VInv, AskedFits, [Next]_vars PROVE AskedFits'
<1>1. ASSUME NEW b \in Page, NEW pg \in Nat, pg >= 1, b + pg <= MaxPage,
             b = base[n] + pages[n],
             NEW bytes \in Nat, NEW ph \in Nat \cup {AnyPhys}, n < MaxMarkers,
             Link(n, b, pg, bytes, ph), bytes <= pg * PageSz
      PROVE  AskedFits'
  <2>1. /\ n' = n + 1
        /\ \A k \in 1 .. n : pages'[k] = pages[k] /\ asked'[k] = asked[k]
        /\ pages'[n + 1] = pg /\ asked'[n + 1] = bytes
      BY <1>1, LinkLast DEF VInv
  <2>2. \A k \in 1 .. n + 1 : k \in 1 .. n \/ k = n + 1  BY DEF VInv, TypeOK, Mk
  <2> QED  BY <1>1, <2>1, <2>2 DEF AskedFits
<1>2. ASSUME NEW bytes \in Sizes, NEW min \in MinPages,
             NEW ph \in Nat \cup {AnyPhys}, NEW loop, Begin(bytes, min, ph, loop)
      PROVE  AskedFits'
  <2>1. CASE NoMarker  BY <2>1 DEF NoMarker, AskedFits, list
  <2>2. CASE n < MaxMarkers /\ ~ NoMarker
    <3>1. PICK at \in 1 .. n : \E b \in Page :
             /\ Place(min, PagesOf(bytes), at, b)
             /\ b + PagesOf(bytes) <= MaxPage
             /\ Link(at, b, PagesOf(bytes), bytes, ph)
        BY <1>2, <2>2 DEF Begin
    <3>2. PICK b \in Page :
             /\ Place(min, PagesOf(bytes), at, b)
             /\ b + PagesOf(bytes) <= MaxPage
             /\ Link(at, b, PagesOf(bytes), bytes, ph)
        BY <3>1
    <3>3. at = n /\ b = base[n] + pages[n]  BY <3>2, PlacedLast DEF VInv
    <3>4. PagesOf(bytes) \in Nat /\ PagesOf(bytes) >= 1 /\ bytes \in Nat
        BY PagesPositive, VmmAssumption
    <3> QED  BY <1>1, <2>2, <3>2, <3>3, <3>4, SizeFits
  <2> QED  BY <1>2, <2>1, <2>2 DEF Begin
<1>3. CASE Vmalloc
  <2>1. PICK bytes \in Sizes : \E min \in MinPages : Begin(bytes, min, AnyPhys, "map")
      BY <1>3 DEF Vmalloc
  <2> QED  BY <1>2, <2>1
<1>4. CASE VmallocPhys
  <2>1. PICK bytes \in Sizes : \E min \in MinPages, ph \in Devices :
          Begin(bytes, min, ph, "mapphys")
      BY <1>4 DEF VmallocPhys
  <2>2. Devices \subseteq Nat  BY VmmAssumption
  <2> QED  BY <1>2, <2>1, <2>2
<1>5. CASE MapPage \/ MapPhysPage \/ Return \/ UNCHANGED vars
    BY <1>5 DEF MapPage, MapPhysPage, Return, vars, AskedFits, list
<1>6. CASE GrowPageStack
  <2>1. CASE UNCHANGED list  BY <2>1 DEF AskedFits, list
  <2>2. CASE n < MaxMarkers /\ ~ UNCHANGED list
    <3>1. PICK min \in MinPages : \E at \in 1 .. n, b \in Page :
            /\ Place(min, TablePages, at, b)
            /\ b + TablePages <= MaxPage
            /\ Link(at, b, TablePages, TablePages * PageSz, next)
        BY <1>6, <2>2 DEF GrowPageStack
    <3>2. PICK at \in 1 .. n : \E b \in Page :
            /\ Place(min, TablePages, at, b)
            /\ b + TablePages <= MaxPage
            /\ Link(at, b, TablePages, TablePages * PageSz, next)
        BY <3>1
    <3>3. PICK b \in Page :
            /\ Place(min, TablePages, at, b)
            /\ b + TablePages <= MaxPage
            /\ Link(at, b, TablePages, TablePages * PageSz, next)
        BY <3>2
    <3>4. at = n /\ b = base[n] + pages[n]  BY <3>3, PlacedLast DEF VInv
    <3>5. TablePages \in Nat /\ TablePages >= 1 /\ PageSz \in Nat  BY VmmAssumption
    <3>6. TablePages * PageSz \in Nat /\ TablePages * PageSz <= TablePages * PageSz
        BY <3>5
    <3>7. next \in Nat  BY DEF VInv, TypeOK
    <3> QED  BY <1>1, <2>2, <3>3, <3>4, <3>5, <3>6, <3>7
  <2> QED  BY <1>6, <2>1, <2>2 DEF GrowPageStack
<1> QED  BY <1>3, <1>4, <1>5, <1>6 DEF Next

\* Callers that ask for whole pages, or for no more than one, never get
\* memory that overlaps another's, nested calls included.
THEOREM NoOverlap ==
  ASSUME WholePages PROVE Spec => []RangesDisjoint
<1>1. Init => VInv /\ AskedFits
  <2>1. Init => AskedFits
    <3> SUFFICES ASSUME Init PROVE AskedFits  OBVIOUS
    <3>1. 1 \in Mk /\ PageSz \in Nat  BY VmmAssumption DEF Mk
    <3>2. n = 1 /\ asked[1] = 0 /\ pages[1] = 1  BY <3>1 DEF Init
    <3>3. \A k \in 1 .. n : k = 1  BY <3>2
    <3>4. 0 <= 1 * PageSz  BY <3>1
    <3> QED  BY <3>2, <3>3, <3>4 DEF AskedFits
  <2> QED  BY <2>1, InitVInv
<1>2. VInv /\ AskedFits /\ [Next]_vars => VInv' /\ AskedFits'
    BY NextVInv, NextAskedFits
<1>3. VInv /\ AskedFits => RangesDisjoint
  <2> SUFFICES ASSUME VInv, AskedFits, NEW j \in 1 .. n, NEW k \in 1 .. n, j < k
               PROVE  (base[j] * PageSz) + asked[j] <= base[k] * PageSz
      BY DEF RangesDisjoint
  <2>1. base[j] \in Nat /\ base[k] \in Nat /\ pages[j] \in Nat /\ asked[j] \in Nat
      BY VmmAssumption DEF VInv, TypeOK, Mk, Page
  <2>2. base[j] + pages[j] <= base[k]  BY DEF VInv, Ascending
  <2>3. asked[j] <= pages[j] * PageSz  BY DEF AskedFits
  <2> QED  BY <2>1, <2>2, <2>3, PagesToBytes
<1> QED  BY <1>1, <1>2, <1>3, PTL DEF Spec

-----------------------------------------------------------------------------
(* Device memory *)

\* Frames come from behind every device.  A device's range is mapped and
\* below the range of the running call, or it is that range, mapped as far as
\* the loop has come.
MappedInv ==
  /\ next >= Ram
  /\ pc \in {"idle", "map", "mapphys"} =>
       \A k \in 1 .. n : phys[k] \in Devices \ Unaligned =>
         \/ Mapped(k) /\ (pc # "idle" => base[k] < virt)
         \/ /\ pc = "mapphys" /\ base[k] = virt /\ from = phys[k]
            /\ \A p \in Range(k) : p < virt + i => map[p] = EntryFrame(phys[k], phys[k] + (p - base[k]))

\* A marker's range begins below the end of the last one.
LEMMA BelowEnd ==
  ASSUME VInv, NEW k \in 1 .. n PROVE base[k] < base[n] + pages[n]
<1>1. n \in 1 .. n /\ k <= n /\ n \in Int /\ k \in Int BY DEF VInv, TypeOK, Mk
<1>2. base[k] \in Nat /\ pages[k] \in Nat /\ base[n] \in Nat /\ pages[n] \in Nat
    BY <1>1, VmmAssumption DEF VInv, TypeOK, Mk, Page
<1>3. pages[k] >= 1 /\ pages[n] >= 1 BY <1>1 DEF VInv, Ascending
<1>4. CASE k = n BY <1>2, <1>3, <1>4
<1>5. CASE k < n
  <2>1. base[k] + pages[k] <= base[n] BY <1>1, <1>5 DEF VInv, Ascending
  <2> QED BY <1>2, <1>3, <2>1
<1> QED BY <1>1, <1>4, <1>5

\* A new call: the device's range is its own.
LEMMA BeginMapped ==
  ASSUME VInv, MappedInv, NEW bytes \in Sizes, NEW min \in MinPages,
         NEW ph \in Nat \cup {AnyPhys}, NEW loop \in {"map", "mapphys"},
         loop = "map" => ph = AnyPhys, Begin(bytes, min, ph, loop)
  PROVE  MappedInv'
<1>0. pc = "idle" /\ next >= Ram /\ \A k \in 1 .. n : phys[k] \in Devices \ Unaligned => Mapped(k)
    BY DEF Begin, MappedInv
<1>1. CASE NoMarker
    BY <1>0, <1>1 DEF NoMarker, MappedInv, Mapped, Range, list, call
<1>2. CASE n < MaxMarkers /\ ~ NoMarker
  <2>1. PICK at \in 1 .. n : \E b \in Page :
           /\ Place(min, PagesOf(bytes), at, b)
           /\ b + PagesOf(bytes) <= MaxPage
           /\ Link(at, b, PagesOf(bytes), bytes, ph)
           /\ virt' = b
      BY <1>2 DEF Begin
  <2>2. PICK b \in Page :
           /\ Place(min, PagesOf(bytes), at, b)
           /\ b + PagesOf(bytes) <= MaxPage
           /\ Link(at, b, PagesOf(bytes), bytes, ph)
           /\ virt' = b
      BY <2>1
  <2>3. at = n /\ b = base[n] + pages[n]  BY <2>2, PlacedLast DEF VInv
  <2>4. PagesOf(bytes) \in Nat /\ PagesOf(bytes) >= 1  BY PagesPositive
  <2>5. bytes \in Nat  BY VmmAssumption
  <2>6. /\ n' = n + 1
        /\ \A k \in 1 .. n : base'[k] = base[k] /\ pages'[k] = pages[k]
        /\ \A k \in 1 .. n : phys'[k] = phys[k]
        /\ base'[n + 1] = b /\ phys'[n + 1] = ph /\ pages'[n + 1] = PagesOf(bytes)
      BY <1>2, <2>2, <2>3, <2>4, <2>5, LinkLast DEF VInv
  <2>7. from' = ph /\ i' = 0 /\ pc' = loop /\ UNCHANGED <<map, next>>
      BY <1>2 DEF Begin
  <2>8. ASSUME NEW k \in 1 .. n, phys'[k] \in Devices \ Unaligned
        PROVE  Mapped(k)' /\ base'[k] < virt'
    <3>1. Mapped(k) BY <1>0, <2>6, <2>8
    <3>2. Mapped(k)' BY <2>6, <2>7, <3>1 DEF Mapped, Range
    <3> QED BY <2>2, <2>3, <2>6, <3>2, BelowEnd
  <2>9. ASSUME NEW k, k = n + 1, phys'[k] \in Devices \ Unaligned
        PROVE  /\ pc' = "mapphys" /\ base'[k] = virt' /\ from' = phys'[k]
               /\ \A p \in Range(k)' : ~ (p < virt' + i')
    <3>1. AnyPhys \notin Devices BY VmmAssumption DEF AnyPhys
    <3>2. pc' = "mapphys" /\ base'[k] = virt' /\ from' = phys'[k]
        BY <2>2, <2>6, <2>7, <2>9, <3>1
    <3>3. Range(k)' = b .. b + PagesOf(bytes) - 1 BY <2>6, <2>9 DEF Range
    <3>4. virt' = b /\ i' = 0 /\ b \in Int BY <2>2, <2>7, VmmAssumption DEF Page
    <3> QED BY <2>4, <3>2, <3>3, <3>4
  <2>10. \A k \in 1 .. n' : k \in 1 .. n \/ k = n + 1 BY <2>6 DEF VInv, TypeOK, Mk
  <2> QED BY <1>0, <2>6, <2>7, <2>8, <2>9, <2>10 DEF MappedInv
<1> QED BY <1>1, <1>2 DEF Begin

\* The loops map the call's own range.
LEMMA MapMapped ==
  ASSUME VInv, MappedInv, MapPage \/ MapPhysPage PROVE MappedInv'
<1>1. /\ pc \in {"map", "mapphys"} /\ i <= count /\ i' = i + 1
      /\ UNCHANGED <<n, base, pages, phys, pc, virt, count, from>>
    BY DEF MapPage, MapPhysPage, VInv, TypeOK, list
<1>2. \A k \in 1 .. n : base[k] < virt => \A p \in Range(k) : map'[p] = map[p]
    BY MapKeeps
<1>3. next' >= Ram BY VmmAssumption DEF MapPage, MapPhysPage, MappedInv, VInv, TypeOK
<1>4. ASSUME NEW k \in 1 .. n, phys[k] \in Devices \ Unaligned, Mapped(k), base[k] < virt PROVE Mapped(k)'
    BY <1>1, <1>2, <1>4 DEF Mapped, Range
<1>5. ASSUME NEW k \in 1 .. n, pc = "mapphys", base[k] = virt, from = phys[k],
             phys[k] \in Devices \ Unaligned,
             \A p \in Range(k) : p < virt + i => map[p] = EntryFrame(phys[k], phys[k] + (p - base[k])),
             NEW p \in Range(k), p < virt + i'
      PROVE  map'[p] = EntryFrame(phys[k], phys[k] + (p - base[k]))
  <2>1. map' = [map EXCEPT ![virt + i] = EntryFrame(from, from + i)] BY <1>5 DEF MapPage, MapPhysPage
  <2>2. /\ virt \in Nat /\ i \in Nat /\ base[k] \in Nat /\ pages[k] \in Nat /\ MaxPage \in Nat
        /\ base[k] + pages[k] <= MaxPage /\ phys[k] \in Nat
    <3>1. MaxPage \in Nat /\ Devices \subseteq Nat BY VmmAssumption
    <3>2. k \in Mk BY VmmAssumption DEF VInv, TypeOK, Mk
    <3>3. base[k] + pages[k] <= MaxPage BY DEF VInv, Ascending
    <3> QED BY <1>5, <3>1, <3>2, <3>3 DEF VInv, TypeOK, Page
  <2>3. p \in Page /\ p \in Int BY <1>5, <2>2 DEF Range, Page
  <2>4. CASE p = virt + i
    <3>1. map'[p] = EntryFrame(from, from + i) BY <2>1, <2>3, <2>4 DEF VInv, TypeOK
    <3> QED BY <1>5, <2>2, <2>4, <3>1
  <2>5. CASE p # virt + i
    <3>1. map'[p] = map[p] BY <2>1, <2>3, <2>5 DEF VInv, TypeOK
    <3>2. p < virt + i BY <1>1, <1>5, <2>2, <2>3, <2>5
    <3> QED BY <1>5, <3>1, <3>2
  <2> QED BY <2>4, <2>5
<1>6. ASSUME NEW k \in 1 .. n, phys[k] \in Devices \ Unaligned
      PROVE  \/ Mapped(k)' /\ base[k] < virt
             \/ /\ pc = "mapphys" /\ base[k] = virt /\ from = phys[k]
                /\ \A p \in Range(k) : p < virt + i' => map'[p] = EntryFrame(phys[k], phys[k] + (p - base[k]))
    BY <1>1, <1>4, <1>5, <1>6 DEF MappedInv
<1>7. \A k : Range(k)' = Range(k) BY <1>1 DEF Range
<1> QED BY <1>1, <1>3, <1>6, <1>7 DEF MappedInv

\* A range that the loop has gone through is mapped.
LEMMA ReturnMapped == ASSUME VInv, MappedInv, Return PROVE MappedInv'
<1>1. pc \in {"map", "mapphys"} /\ pc' = "idle" /\ UNCHANGED <<n, base, pages, phys, map, next>>
    BY DEF Return, list
<1>2. ASSUME NEW k \in 1 .. n, phys[k] \in Devices \ Unaligned PROVE Mapped(k)
  <2>1. CASE Mapped(k) BY <2>1
  <2>2. CASE /\ pc = "mapphys" /\ base[k] = virt /\ from = phys[k]
             /\ \A p \in Range(k) : p < virt + i => map[p] = EntryFrame(phys[k], phys[k] + (p - base[k]))
    <3>1. PICK j \in 1 .. n : base[j] = virt /\ pages[j] = count
        BY <1>1 DEF VInv, CallHasMarker
    <3>2. base[j] \in Nat /\ pages[j] \in Nat /\ pages[k] \in Nat /\ pages[j] >= 1
          /\ pages[k] >= 1 /\ j \in Int /\ k \in Int
        BY VmmAssumption DEF VInv, TypeOK, Mk, Page, Ascending
    <3>3. j = k
      <4>1. ~ (j < k)
        <5> SUFFICES ASSUME j < k PROVE FALSE OBVIOUS
        <5>1. base[j] + pages[j] <= base[k] BY DEF VInv, Ascending
        <5> QED BY <2>2, <3>1, <3>2, <5>1
      <4>2. ~ (k < j)
        <5> SUFFICES ASSUME k < j PROVE FALSE OBVIOUS
        <5>1. base[k] + pages[k] <= base[j] BY DEF VInv, Ascending
        <5> QED BY <2>2, <3>1, <3>2, <5>1
      <4> QED BY <3>2, <4>1, <4>2
    <3>4. i >= count /\ i \in Nat /\ count \in Nat /\ virt \in Nat
        BY <1>2, <2>2 DEF Return, VInv, TypeOK, Page
    <3>5. \A p \in Range(k) : p < virt + i BY <2>2, <3>1, <3>3, <3>4 DEF Range
    <3> QED BY <2>2, <3>5 DEF Mapped
  <2> QED BY <1>1, <1>2, <2>1, <2>2 DEF MappedInv
<1>3. \A k : Mapped(k)' <=> Mapped(k) BY <1>1 DEF Mapped, Range
<1> QED BY <1>1, <1>2, <1>3 DEF MappedInv

\* The nested call maps page tables, which are no device's.
LEMMA GrowMapped == ASSUME VInv, MappedInv, GrowPageStack PROVE MappedInv'
<1>1. CASE pc' = "stopped"
  <2>1. next' = next \/ next' = next + TablePages BY DEF GrowPageStack
  <2>2. next' >= Ram BY <2>1, VmmAssumption DEF MappedInv, VInv, TypeOK
  <2> QED BY <1>1, <2>2 DEF MappedInv
<1>2. CASE pc' # "stopped"
  <2>1. PICK min \in MinPages : \E at \in 1 .. n, b \in Page :
          /\ Place(min, TablePages, at, b)
          /\ b + TablePages <= MaxPage
          /\ Link(at, b, TablePages, TablePages * PageSz, next)
      BY <1>2 DEF GrowPageStack
  <2>2. PICK at \in 1 .. n : \E b \in Page :
          /\ Place(min, TablePages, at, b)
          /\ b + TablePages <= MaxPage
          /\ Link(at, b, TablePages, TablePages * PageSz, next)
      BY <2>1
  <2>3. PICK b \in Page :
          /\ Place(min, TablePages, at, b)
          /\ b + TablePages <= MaxPage
          /\ Link(at, b, TablePages, TablePages * PageSz, next)
      BY <2>2
  <2>4. at = n /\ b = base[n] + pages[n]  BY <2>3, PlacedLast DEF VInv
  <2>5. TablePages \in Nat /\ TablePages >= 1 /\ PageSz \in Nat  BY VmmAssumption
  <2>6. TablePages * PageSz \in Nat  BY <2>5
  <2>7. /\ n < MaxMarkers /\ next \in Nat /\ next' = next + TablePages /\ UNCHANGED <<pc, call>>
        /\ pc \in {"map", "mapphys"}
      BY <1>2 DEF GrowPageStack, VInv, TypeOK
  <2>8. /\ n' = n + 1
        /\ \A k \in 1 .. n : base'[k] = base[k] /\ pages'[k] = pages[k]
        /\ \A k \in 1 .. n : phys'[k] = phys[k]
        /\ phys'[n + 1] = next
      BY <2>3, <2>4, <2>5, <2>6, <2>7, LinkLast DEF VInv
  <2>9. next >= Ram /\ next' >= Ram BY <2>5, <2>7, VmmAssumption DEF MappedInv
  <2>10. next \notin Devices BY <2>7, <2>9, VmmAssumption
  <2>11. \A k \in 1 .. n : \A p \in Range(k) : map'[p] = map[p] BY GrowKeeps
  <2>12. \A k \in 1 .. n : Range(k)' = Range(k) BY <2>8 DEF Range
  <2>13. \A k \in 1 .. n : Mapped(k) => Mapped(k)' BY <2>8, <2>11, <2>12 DEF Mapped
  <2>14. \A k \in 1 .. n' : k \in 1 .. n \/ k = n + 1 BY <2>8 DEF VInv, TypeOK, Mk
  <2>15. ASSUME NEW k \in 1 .. n', phys'[k] \in Devices \ Unaligned
         PROVE  \/ Mapped(k)' /\ base'[k] < virt'
                \/ /\ pc' = "mapphys" /\ base'[k] = virt' /\ from' = phys'[k]
                   /\ \A p \in Range(k)' : p < virt' + i' => map'[p] = EntryFrame(phys'[k], phys'[k] + (p - base'[k]))
    <3>1. k \in 1 .. n BY <2>8, <2>10, <2>14, <2>15
    <3>2. phys[k] \in Devices \ Unaligned BY <2>8, <2>15, <3>1
    <3>3. UNCHANGED <<virt, i, from>> BY <2>7 DEF call
    <3>4. CASE Mapped(k) /\ base[k] < virt BY <2>8, <2>13, <3>1, <3>3, <3>4
    <3>5. CASE /\ pc = "mapphys" /\ base[k] = virt /\ from = phys[k]
               /\ \A p \in Range(k) : p < virt + i => map[p] = EntryFrame(phys[k], phys[k] + (p - base[k]))
        BY <2>7, <2>8, <2>11, <2>12, <3>1, <3>3, <3>5
    <3> QED BY <2>7, <3>1, <3>2, <3>4, <3>5 DEF MappedInv
  <2> QED BY <2>7, <2>9, <2>15 DEF MappedInv
<1> QED BY <1>1, <1>2

\* Between calls every range that a driver got from vmallocPhys() maps to its
\* device, page by page, although vmalloc() maps a page too many and page
\* tables are mapped in the middle of a call (vmm.c).
THEOREM DevicesMapped == Spec => []DeviceMapped
<1>1. Init => VInv /\ MappedInv
  <2> SUFFICES ASSUME Init PROVE MappedInv BY InitVInv
  <2>1. \A k \in 1 .. n : phys[k] \notin Devices BY VmmAssumption DEF Init, Mk, AnyPhys
  <2> QED BY <2>1, VmmAssumption DEF Init, MappedInv
<1>2. VInv /\ MappedInv /\ [Next]_vars => VInv' /\ MappedInv'
  <2> SUFFICES ASSUME VInv, MappedInv, [Next]_vars PROVE MappedInv' BY NextVInv
  <2>1. CASE Vmalloc
    <3>1. PICK bytes \in Sizes : \E min \in MinPages : Begin(bytes, min, AnyPhys, "map")
        BY <2>1 DEF Vmalloc
    <3> QED BY <3>1, BeginMapped
  <2>2. CASE VmallocPhys
    <3>1. PICK bytes \in Sizes : \E min \in MinPages, ph \in Devices :
            Begin(bytes, min, ph, "mapphys")
        BY <2>2 DEF VmallocPhys
    <3>2. Devices \subseteq Nat BY VmmAssumption
    <3> QED BY <3>1, <3>2, BeginMapped
  <2>3. CASE UNCHANGED vars
      BY <2>3 DEF vars, MappedInv, Mapped, Range, list, call
  <2> QED BY <2>1, <2>2, <2>3, MapMapped, ReturnMapped, GrowMapped DEF Next
<1>3. MappedInv => DeviceMapped BY DEF MappedInv, DeviceMapped
<1> QED BY <1>1, <1>2, <1>3, PTL DEF Spec
=============================================================================
