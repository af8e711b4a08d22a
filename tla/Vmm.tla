--------------------------------- MODULE Vmm ---------------------------------
(***************************************************************************)
(* Virtual memory, Kernel/Memory/vmm.c: an ascending list of markers, each *)
(* a range of virtual pages, and the page mapping behind it.  vmalloc()    *)
(* backs a range with page frames one by one, vmallocPhys() maps it to     *)
(* given physical pages.                                                   *)
(*                                                                         *)
(* Mapping a page may need a page table, and the stack of page tables may  *)
(* need refilling: growPageStack() then calls vmallocPhys() in the middle  *)
(* of the loop that maps the outer range.                                  *)
(***************************************************************************)
EXTENDS Integers

CONSTANTS
  PageSz,       \* PAGE_SZ
  Sizes,        \* bound: the bytes the callers ask for
  MinPages,     \* the results of prefferedMinAddress(), as page numbers
  Devices,      \* the physical pages that vmallocPhys() is called with
  Pat,          \* those that are mapped with VFLAG_UC or VFLAG_WT
  Unaligned,    \* those that are the page of an address inside a page
  Ram,          \* the first page frame that getPhysmem() returns
  TablePages,   \* the pages of a block of page tables
  MaxMarkers,   \* the markers the marker cache can serve, and the first one
  MaxPage       \* bound: the virtual pages

ASSUME VmmAssumption ==
  /\ PageSz \in Nat \ {0} /\ Sizes \subseteq Nat
  /\ MinPages \subseteq Nat /\ Devices \subseteq Nat
  /\ Pat \subseteq Devices /\ Unaligned \subseteq Devices
  /\ Ram \in Nat /\ \A d \in Devices : d + MaxPage < Ram
  /\ TablePages \in Nat \ {0}
  /\ MaxMarkers \in Nat \ {0} /\ MaxPage \in Nat \ {0}

Mk == 1 .. MaxMarkers
Page == 0 .. MaxPage

VARIABLES
  n,      \* how many markers there are
  base,   \* marker->base, as a page number, in the order of the list
  pages,  \* marker->pages
  asked,  \* the bytes that were asked for
  phys,   \* the physical page that was asked for, or AnyPhys
  map,    \* the page tables: virtual page -> physical page
  next,   \* the page frame that getPhysmem() returns next
  pc,     \* where the running call is
  virt,   \* its local virt, as a page number
  count,  \* its local pages
  from,   \* its argument phys
  i       \* its loop counter

list == <<n, base, pages, asked, phys>>
call == <<virt, count, from, i>>
vars == <<list, map, next, pc, call>>

AnyPhys == -1
Unmapped == -2

Init ==
  /\ n = 1
  /\ base = [k \in Mk |-> 0]
  /\ pages = [k \in Mk |-> IF k = 1 THEN 1 ELSE 0]
  /\ asked = [k \in Mk |-> 0]
  /\ phys = [k \in Mk |-> AnyPhys]
  /\ map = [p \in Page |-> Unmapped]
  /\ next = Ram
  /\ pc = "idle"
  /\ virt = 0 /\ count = 0 /\ from = AnyPhys /\ i = 0

\* Mutant: rounding down to no page at all.
PagesOfZero(bytes) == bytes \div PageSz

\* bytes/PAGE_SZ, at least one.
PagesOf(bytes) == IF bytes < PageSz THEN 1 ELSE bytes \div PageSz

\* Mutant: the end is the last page of the range.
EndLast(k) == base[k] + pages[k] - 1

\* VMARKER_END
End(k) == base[k] + pages[k]

\* The markers behind which allocMarker() sees room, by its three tests; the
\* difference is unsigned.
Gaps(min, pg) ==
  {k \in 1 .. n - 1 :
     /\ base[k + 1] <= min /\ base[k] > min
     /\ base[k + 1] < End(k) \/ base[k + 1] - End(k) >= pg}

\* The marker that the new one is put behind, and the new one's base.
Place(min, pg, at, b) ==
  \/ Gaps(min, pg) = {} /\ at = n /\ b = End(n)
  \/ /\ at \in Gaps(min, pg) /\ \A k \in Gaps(min, pg) : at <= k
     /\ b = End(at) + 1

\* f with v in place at + 1.
InsertAfter(f, at, v) ==
  [k \in Mk |-> IF k <= at THEN f[k] ELSE IF k = at + 1 THEN v ELSE f[k - 1]]

\* allocMarker() links a marker of pg pages at page b.
Link(at, b, pg, bytes, ph) ==
  /\ n' = n + 1
  /\ base' = InsertAfter(base, at, b)
  /\ pages' = InsertAfter(pages, at, pg)
  /\ asked' = InsertAfter(asked, at, bytes)
  /\ phys' = InsertAfter(phys, at, ph)

\* The marker cache is exhausted: kcacheAlloc() returns NULL, allocMarker()
\* writes through it and faults, or, where page 0 is mapped, returns NULL and
\* so does the call.
NoMarker ==
  /\ n = MaxMarkers
  /\ pc' \in {"idle", "stopped"} /\ UNCHANGED <<list, map, next, call>>

\* vmalloc() and vmallocPhys() up to their loops.
Begin(bytes, min, ph, loop) ==
  /\ pc = "idle"
  /\ \/ /\ n < MaxMarkers
        /\ \E at \in 1 .. n, b \in Page :
             /\ Place(min, PagesOf(bytes), at, b)
             /\ b + PagesOf(bytes) <= MaxPage
             /\ Link(at, b, PagesOf(bytes), bytes, ph)
             /\ virt' = b
        /\ count' = PagesOf(bytes) /\ from' = ph /\ i' = 0
        /\ pc' = loop /\ UNCHANGED <<map, next>>
     \/ NoMarker

Vmalloc == \E bytes \in Sizes, min \in MinPages : Begin(bytes, min, AnyPhys, "map")

VmallocPhys == \E bytes \in Sizes, min \in MinPages, ph \in Devices :
  Begin(bytes, min, ph, "mapphys")

\* The loop of vmalloc(), which runs while i <= pages: getPhysmem() and
\* mapPage().
MapPage ==
  /\ pc = "map" /\ i <= count
  /\ map' = [map EXCEPT ![virt + i] = next]
  /\ next' = next + 1 /\ i' = i + 1
  /\ UNCHANGED <<list, pc, virt, count, from>>

\* The page frame that the entry names when ph is asked for: PG_UC and PG_WT
\* have bit 12 in them, which is the lowest bit of the frame's number.
EntryFrame(ph, frame) == IF ph \in Pat /\ frame % 2 = 0 THEN frame + 1 ELSE frame

\* Mutant: the last page is left out.
MapPhysPageShort ==
  /\ pc = "mapphys" /\ i < count /\ from \notin Unaligned
  /\ map' = IF i + 1 < count
            THEN [map EXCEPT ![virt + i] = EntryFrame(from, from + i)] ELSE map
  /\ i' = i + 1
  /\ UNCHANGED <<list, next, pc, virt, count, from>>

\* mapPages(), which maps the pages of the range and no more.
MapPhysPage ==
  /\ pc = "mapphys" /\ i < count /\ from \notin Unaligned
  /\ map' = [map EXCEPT ![virt + i] = EntryFrame(from, from + i)]
  /\ i' = i + 1
  /\ UNCHANGED <<list, next, pc, virt, count, from>>

\* An address inside a page: mapPages() returns before its loop, and
\* vmallocPhys() returns the range all the same.
Return ==
  /\ \/ pc = "map" /\ i > count
     \/ pc = "mapphys" /\ (i >= count \/ from \in Unaligned)
  /\ pc' = "idle" /\ UNCHANGED <<list, map, next, call>>

\* mapPage() needs a page table and growPageStack() fetches a block of them
\* and maps it with vmallocPhys().  The loop of that call may need a table
\* too, and refill again: such a refill does not come back (FrameStack).
GrowPageStack ==
  /\ \/ pc = "map" /\ i <= count
     \/ pc = "mapphys" /\ i < count /\ from \notin Unaligned
  /\ \/ /\ n < MaxMarkers
        /\ \E min \in MinPages, at \in 1 .. n, b \in Page :
             /\ Place(min, TablePages, at, b)
             /\ b + TablePages <= MaxPage
             /\ Link(at, b, TablePages, TablePages * PageSz, next)
             /\ map' = [p \in Page |-> IF p \in b .. b + TablePages - 1
                                       THEN next + (p - b) ELSE map[p]]
        /\ next' = next + TablePages
        /\ pc' \in {pc, "stopped"} /\ UNCHANGED call
     \/ n = MaxMarkers /\ pc' = "stopped" /\ UNCHANGED <<list, map, next, call>>

Next == Vmalloc \/ VmallocPhys \/ MapPage \/ MapPhysPage \/ Return \/ GrowPageStack

Spec == Init /\ [][Next]_vars

-----------------------------------------------------------------------------
(* Properties *)

\* Types.
TypeOK ==
  /\ n \in Mk
  /\ base \in [Mk -> Page] /\ pages \in [Mk -> Nat] /\ asked \in [Mk -> Nat]
  /\ phys \in [Mk -> Nat \cup {AnyPhys}]
  /\ map \in [Page -> Nat \cup {Unmapped}]
  /\ next \in Nat /\ virt \in Page /\ count \in Nat /\ i \in Nat
  /\ from \in Nat \cup {AnyPhys}
  /\ pc \in {"idle", "map", "mapphys", "stopped"}

\* The bytes that two callers asked for never overlap (allocMarker).
RangesDisjoint ==
  \A j, k \in 1 .. n :
    j < k => (base[j] * PageSz) + asked[j] <= base[k] * PageSz

Range(k) == base[k] .. base[k] + pages[k] - 1

\* Mapping a range, with its extra page, changes no page of a range that
\* was there when the call began (vmalloc, vmallocPhys).
PagesStay ==
  [][\A k \in 1 .. n : pc # "idle" /\ base[k] < virt =>
       \A p \in Range(k) : map'[p] = map[p]]_vars

Mapped(k) ==
  \A p \in Range(k) : map[p] = EntryFrame(phys[k], phys[k] + (p - base[k]))

\* Between calls every range that a driver got from vmallocPhys() for an
\* aligned address is mapped to the end, page by page: to the device's own
\* page, or, where the driver asks for UC or WT and the page is even, to the
\* page behind it.  No later call and no refill in between changes that.
DeviceMapped ==
  pc = "idle" => \A k \in 1 .. n : phys[k] \in Devices \ Unaligned => Mapped(k)

=============================================================================
