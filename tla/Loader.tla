------------------------------- MODULE Loader -------------------------------
(***************************************************************************)
(* The UEFI boot loader: memory it takes from the firmware and the list it *)
(* keeps of it, the kernel's segments, the files it brings along, and the  *)
(* memory map it hands to the kernel (Bootloader/x86_64).  Memory is in    *)
(* units, PAGE_SZ of them to a page.  The page tables are module Paging's; *)
(* here they are the map from pages to frames that they stand for.         *)
(***************************************************************************)
EXTENDS Integers, Sequences, FiniteSets, SequencesExt

CONSTANTS
  Firmware,   \* machines and kernel files; see MCBoot
  PAGE_SZ,    \* units
  First,      \* entries that allocMap starts with, 40
  Grow        \* and grows by, 20

ASSUME LoaderAssumption ==
  /\ PAGE_SZ \in Nat \ {0} /\ First \in Nat \ {0} /\ Grow \in Nat \ {0}
  /\ \A f \in Firmware :
       /\ f.seg \in Seq([page : Nat, memsz : Nat, w : BOOLEAN, x : BOOLEAN])
       /\ f.desc \in Seq([type : STRING \ {"IGNORE"}, phys : Nat, bytes : Nat])
       /\ f.pool \in Nat /\ f.stack \in Nat /\ f.filesz \in Nat

VARIABLES
  fw,         \* the machine
  step,       \* what the loader does next; "failure" waits for ever
  n,          \* its loop counter
  brk,        \* the firmware's pool: where the next block may start
  allocMap,   \* the blocks that stay: [phys, bytes, load]
  mapMax,     \* entries allocMap has room for
  map,        \* page -> [frame, w, x]
  kmmap,      \* the kernel's map: [type, phys, bytes]
  kinf        \* what the kernel is told: [entries, rd, sym]

lvars == <<fw, step, n, brk, allocMap, mapMax, map, kmmap, kinf>>

Page(a) == a \div PAGE_SZ
Pages(d) == {Page(d.phys) + k : k \in 0 .. d.bytes \div PAGE_SZ - 1}

LInit ==
  /\ fw \in Firmware
  /\ step = "mem" /\ n = 1 /\ brk = fw.pool /\ allocMap = <<>> /\ mapMax = 0
  /\ map = <<>> /\ kmmap = <<>> /\ kinf = [entries |-> 0, rd |-> FALSE, sym |-> FALSE]

-----------------------------------------------------------------------------
(* Memory *)

\* mapPages(): k pages, at least one, each one anew.
mapPages(frame, page, k, w, x) ==
  [p \in DOMAIN map \cup page .. page + (IF k = 0 THEN 1 ELSE k) - 1 |->
     IF p \in page .. page + (IF k = 0 THEN 1 ELSE k) - 1
     THEN [frame |-> frame + p - page, w |-> w, x |-> x] ELSE map[p]]

\* The address that allocMem() returns for a block.
Load(start, align) == IF align THEN (Page(start) + 1) * PAGE_SZ ELSE start

\* Mutant: the block is not made larger for the alignment.
allocMemTight(sz, align) ==
  \E gap \in 0 .. 1 :
    /\ brk' = brk + gap + sz
    /\ allocMap' = Append(allocMap, [phys |-> brk + gap, bytes |-> sz, load |-> Load(brk + gap, align)])
    /\ mapMax' = IF Len(allocMap) + 1 = mapMax THEN mapMax + Grow ELSE mapMax

\* Mutant: the list grows when an entry is written past its end.
allocMemLate(sz, align) ==
  \E gap \in 0 .. 1 :
    LET bytes == IF align THEN sz + PAGE_SZ ELSE sz
    IN  /\ brk' = brk + gap + bytes
        /\ allocMap' = Append(allocMap, [phys |-> brk + gap, bytes |-> bytes, load |-> Load(brk + gap, align)])
        /\ mapMax' = IF Len(allocMap) = mapMax THEN mapMax + Grow ELSE mapMax

\* allocMem() of what stays: a block of the pool, wherever it starts, and an
\* entry of allocMap, which grows when it is full.
allocMem(sz, align) ==
  \E gap \in 0 .. 1 :
    LET bytes == IF align THEN sz + PAGE_SZ ELSE sz
    IN  /\ brk' = brk + gap + bytes
        /\ allocMap' = Append(allocMap, [phys |-> brk + gap, bytes |-> bytes, load |-> Load(brk + gap, align)])
        /\ mapMax' = IF Len(allocMap) + 1 = mapMax THEN mapMax + Grow ELSE mapMax

\* initMem(): allocMap, the tables, and idMapMem(), which maps what is not
\* reserved, unusable or unaccepted, and stops before the last descriptor.
initMem ==
  /\ step = "mem" /\ step' = "elf" /\ n' = 1
  /\ mapMax' = First
  /\ map' = [p \in UNION {Pages(fw.desc[k]) : k \in {j \in 1 .. Len(fw.desc) - 1 : fw.desc[j].type # "reserved"}} |->
               [frame |-> p, w |-> TRUE, x |-> FALSE]]
  /\ UNCHANGED <<fw, brk, allocMap, kmmap, kinf>>

-----------------------------------------------------------------------------
(* The kernel and its files *)

Fail == step' = "failure" /\ UNCHANGED <<fw, n, brk, allocMap, mapMax, map, kmmap, kinf>>

\* checkMagic() compares up to an 'F' of the file's own magic.
checkMagic == fw.magic \in {"elf", "F"}

\* The pages of a segment: one more than fit in it.
segPages(seg) == seg.memsz \div PAGE_SZ + 1

\* loadELF(): the file, which may not open, its checks, then one LOAD segment
\* per round.
loadELF ==
  /\ step = "elf"
  /\ \/ ~checkMagic /\ Fail
     \/ /\ checkMagic /\ n <= Len(fw.seg)
        /\ allocMem(fw.seg[n].memsz, TRUE)
        /\ map' = mapPages(Page(allocMap'[Len(allocMap')].load), fw.seg[n].page,
                           segPages(fw.seg[n]), fw.seg[n].w, fw.seg[n].x)
        /\ n' = n + 1 /\ UNCHANGED <<fw, step, kmmap, kinf>>
     \/ /\ checkMagic /\ n > Len(fw.seg)
        /\ step' = "rd" /\ UNCHANGED <<fw, n, brk, allocMap, mapMax, map, kmmap, kinf>>

\* bootstrapEntry()'s other files.  A ramdisk that cannot be opened or read
\* ends the loading; symbols that cannot be opened stop the machine.
File(f, then, missing, align) ==
  /\ step = f
  /\ \/ step' = missing /\ UNCHANGED <<fw, n, brk, allocMap, mapMax, map, kmmap, kinf>>
     \/ /\ allocMem(fw.filesz + PAGE_SZ, align)
        /\ \/ step' = "hand" /\ UNCHANGED kinf
           \/ step' = then /\ kinf' = [kinf EXCEPT ![f] = TRUE]
        /\ UNCHANGED <<fw, n, map, kmmap>>

loadFiles == File("rd", "sym", "hand", TRUE) \/ File("sym", "hand", "failure", FALSE)

-----------------------------------------------------------------------------
(* The memory map *)

\* convertMmapType(): the kernel's type of a firmware type; the loader's own
\* code and data count as free.
convertMmapType(t) == IF t \in {"code", "data", "boot", "conventional"} THEN "FREE" ELSE t
Entry(d) == [type |-> convertMmapType(d.type), phys |-> d.phys, bytes |-> d.bytes]

\* The loader's own code and data are mapped once more, with their rights.
mapLoader(d) ==
  IF d.type \in {"code", "data"}
  THEN mapPages(Page(d.phys), Page(d.phys), Page(d.bytes), d.type = "data", d.type = "code") ELSE map

\* efi_main(): the stack, or the boot information, is mapped again.
handOver ==
  /\ step = "hand" /\ step' = "desc" /\ n' = 1
  /\ map' = mapPages(fw.stack, fw.stack, 1, TRUE, FALSE)
  /\ UNCHANGED <<fw, brk, allocMap, mapMax, kinf, kmmap>>

\* mergeDescToMMAP(): an earlier entry that reaches the descriptor makes the
\* last entry longer; the last one itself is not looked at.
Reaches(d) ==
  \E z \in 1 .. Len(kmmap) - 1 :
    /\ kmmap[z].type = convertMmapType(d.type) /\ kmmap[z].phys <= d.phys
    /\ kmmap[z].phys + kmmap[z].bytes >= d.phys

\* initMMAP(): one descriptor per round.
mergeDesc ==
  LET d == fw.desc[n]
  IN  /\ step = "desc" /\ n <= Len(fw.desc) /\ n' = n + 1
      /\ kmmap' = IF Reaches(d) THEN [kmmap EXCEPT ![Len(kmmap)].bytes = @ + d.bytes]
                  ELSE Append(kmmap, Entry(d))
      /\ map' = mapLoader(d)
      /\ UNCHANGED <<fw, step, brk, allocMap, mapMax, kinf>>

descsDone ==
  /\ step = "desc" /\ n > Len(fw.desc) /\ step' = "merge" /\ n' = 1
  /\ UNCHANGED <<fw, brk, allocMap, mapMax, map, kmmap, kinf>>

\* Mutant: entries of different types are merged too.
NeighboursAny(c) ==
  {z \in 1 .. Len(kmmap) - 1 :
     \/ kmmap[c].phys < kmmap[z].phys /\ kmmap[c].phys + kmmap[c].bytes >= kmmap[z].phys
     \/ kmmap[z].phys < kmmap[c].phys /\ kmmap[z].phys + kmmap[z].bytes >= kmmap[c].phys}

\* The entries, the last one excepted, that entry c is merged into.
Neighbours(c) ==
  {z \in 1 .. Len(kmmap) - 1 :
     /\ z # c /\ kmmap[z].type = kmmap[c].type
     /\ \/ kmmap[c].phys < kmmap[z].phys /\ kmmap[c].phys + kmmap[c].bytes >= kmmap[z].phys
        \/ kmmap[z].phys < kmmap[c].phys /\ kmmap[z].phys + kmmap[z].bytes >= kmmap[c].phys}

\* mergeKmmapEntry(): the first neighbour takes the entry over, and for its
\* own size that of the last entry of all.
mergeKmmapEntry ==
  /\ step = "merge" /\ n < Len(kmmap) /\ n' = n + 1
  /\ kmmap' =
       IF kmmap[n].type = "IGNORE" \/ Neighbours(n) = {} THEN kmmap
       ELSE LET z == CHOOSE x \in Neighbours(n) : \A y \in Neighbours(n) : x <= y
            IN  [kmmap EXCEPT ![z].bytes = kmmap[n].bytes + Last(kmmap).bytes,
                              ![z].phys = IF kmmap[z].phys < kmmap[n].phys THEN kmmap[z].phys ELSE kmmap[n].phys,
                              ![n].type = "IGNORE"]
  /\ UNCHANGED <<fw, step, brk, allocMap, mapMax, map, kinf>>

\* The kernel is told of all entries but the last.
memInfo == [kinf EXCEPT !.entries = Len(kmmap) - 1]

\* The firmware may refuse to let go.
exitBootServices ==
  /\ step = "merge" /\ n >= Len(kmmap)
  /\ step' \in {"kernel", "refused"}
  /\ kinf' = memInfo
  /\ UNCHANGED <<fw, n, brk, allocMap, mapMax, map, kmmap>>

LNext ==
  \/ initMem \/ loadELF \/ loadFiles \/ handOver
  \/ mergeDesc \/ descsDone \/ mergeKmmapEntry \/ exitBootServices

LSpec == LInit /\ [][LNext]_lvars

-----------------------------------------------------------------------------
(* Properties *)

SegLoad(k) == allocMap[k].load
InSeg(k) == Page(fw.seg[k].memsz + PAGE_SZ - 1)

\* When the kernel starts, every page of every segment is mapped to the frame
\* it was loaded to, with the segment's rights: neither the page too many of
\* the segment before nor a later mapping has taken it.  The frames are
\* inside the block and no two segments share one (elf.c:30-62).
SegmentsMapped ==
  step = "kernel" =>
    \A k \in DOMAIN fw.seg :
      /\ SegLoad(k) + fw.seg[k].memsz <= allocMap[k].phys + allocMap[k].bytes
      /\ \A j \in 0 .. InSeg(k) - 1 :
           /\ map[fw.seg[k].page + j] = [frame |-> Page(SegLoad(k)) + j, w |-> fw.seg[k].w, x |-> fw.seg[k].x]
           /\ \A h \in DOMAIN fw.seg \ {k} : Page(SegLoad(k)) + j \notin Page(SegLoad(h)) .. Page(SegLoad(h)) + InSeg(h) - 1

\* allocMap has room for the next entry, whatever the number of segments and
\* files (mem.c:28-39).
AllocFits == step # "mem" => Len(allocMap) < mapMax

\* The map that the kernel gets says of every page what the firmware's map
\* said, as far as both have it; only what the last entry held is missing
\* (mem.c:264-355).
MapFaithful ==
  step = "kernel" =>
    LET told == {kmmap[k] : k \in {j \in 1 .. kinf.entries : kmmap[j].type # "IGNORE"}}
        have == {Entry(fw.desc[k]) : k \in 1 .. Len(fw.desc)}
    IN  /\ \A e \in told : \A p \in Pages(e) : \E d \in have : p \in Pages(d) /\ d.type = e.type
        /\ \A d \in have \ {Entry(Last(fw.desc))} : \A p \in Pages(d) :
             \E e \in told : p \in Pages(e) /\ e.type = d.type

Told == {k \in 1 .. kinf.entries : kmmap[k].type # "IGNORE"}
Lowest(d) == \A c \in DOMAIN fw.desc :
  convertMmapType(fw.desc[c].type) = convertMmapType(fw.desc[d].type) => fw.desc[c].phys >= fw.desc[d].phys

\* Whatever the merges do to the sizes, they keep starts and types: every
\* entry that the kernel is told of begins where the firmware has memory of
\* its type, no two entries begin at one place, and the lowest memory of
\* every type begins an entry, told or the last (mem.c:264-306).
StartsTold ==
  step = "kernel" =>
    /\ \A k \in Told : \E d \in DOMAIN fw.desc :
         kmmap[k].phys = fw.desc[d].phys /\ kmmap[k].type = convertMmapType(fw.desc[d].type)
    /\ \A j, k \in Told : j # k => kmmap[j].phys # kmmap[k].phys
    /\ \A d \in DOMAIN fw.desc : Lowest(d) => \E k \in Told \cup {Len(kmmap)} :
         kmmap[k].phys = fw.desc[d].phys /\ kmmap[k].type = convertMmapType(fw.desc[d].type)
=============================================================================
