# RoverOS: a verification project

RoverOS is a kernel for x86_64 (with the beginnings of an aarch64 port),
written in C with some assembly. This directory holds TLA+ models of the
kernel, its boot loader and its ramdisk, TLC configurations that check them on
small instances, and TLAPS proofs of the main results for every value of the
constants.

The memory subsystem, on which everything else in the kernel stands, is
modelled and proved about: physical blocks, page frames, virtual ranges, slabs,
the heap, and the stacks that tie them together. Around it the project models
the loader and the page tables, interrupts, tasks, timers, the discovery of
devices, and files. `PROJECT.json` gives, for every definition that models
code, the lines it translates ("map"), the runs, the proved theorems, the
hazards of the code and the components that are not modelled.

## 1. The system

### 1.1 Parts, state and operations

| part | source | state | operations |
|---|---|---|---|
| kernel heap | `Kernel/Memory/kmalloc.c` | doubly linked chain of block headers, `kmallocLock` | `kmalloc`, `kmallocAligned`, `kfree`, `krealloc`, `extendHeap`, `shrinkHeap` |
| data stack | `Kernel/Memory/dstack.c` | a heap block, a top pointer, a size, a lock | create, push, pop, count, grow, shrink, destroy |
| frame stacks | `Kernel/Memory/vmm.c`, `Memory/arch/x86_64/paging.c` | two data stacks: page frames, page tables | `getPhysmem`/`extendStack`, `newPagetable`/`growPageStack` |
| slab allocator | `Kernel/Memory/kcache.c` | caches, slabs, bitmaps, reference counts, a lock per cache | `kcacheCreate`, `kcacheAlloc`, `kcacheGrow` (free and reap are empty) |
| virtual memory | `Kernel/Memory/vmm.c` | ascending list of markers | `vmalloc`, `vmallocPhys`, `allocMarker` |
| paging | `Memory/arch/x86_64/paging.c`, `Bootloader/x86_64/mem.c` | four-level page tables | `mapPage`, `mapPages`, `virtToPhysInt`, `initPaging` |
| physical memory | `Kernel/Memory/pmm.c` | region table, a bitmap and a count per region and order, `buddyLock` | `initPMM`, `createRegion`, `allocPhys`, `freePhys`, `freeNPhys` |
| boot loader | `Bootloader/x86_64/` | list of allocations, kernel's memory map, boot information | load segments and files, build the map, leave the firmware |
| interrupts | `Kernel/CPU/x86_64/cpu.c`, `ASM/x86_64/cpu.asm`, `Devices/x86_64/pit.c` | handler table, the stack, vectors in service | install, remove, allocate, dispatch, return |
| tasks | `Kernel/System/task.c`, `ASM/x86_64/task.asm` | tickets, scheduler, `queueLock` | create, suspend, resume, switch, error code |
| timers, sleep | `Kernel/Devices/timer.c`, `System/sleep.c` | array of events used as a tree | add, end, resort, sleep |
| ACPI, controllers | `System/ACPI/*.c`, `Devices/x86_64/{ioapic,lapic,hpet}.c` | redirection entries, processors, best timer | search, route, register |
| PCI, AHCI | `Devices/x86_64/pci.c`, `Media/ahci.c` | device list, controller, ports | scan, set up interrupts, reset, probe ports |
| hash table | `Kernel/Misc/hashtable.c` | buckets with chains | create, insert, fetch, remove, update, destroy |
| VFS, ramdisk | `Kernel/Media/{vfs,ramdisk}.c`, `Ramdisk/ramdisk.c` | image, mount, files, descriptors | pack, mount, open, read, seek, close |
| the rest | `kprintf.c`, `ksym.c`, `Faults/`, `Lienzo/`, `libc/`, `Library/`, drivers | none of their own that lasts | see "components" in `PROJECT.json` |

### 1.2 How the parts interact

The memory subsystem calls itself in a circle:

    kmalloc -> extendHeap -> vmalloc -> allocMarker -> kcacheAlloc (marker cache)
    vmalloc -> getPhysmem -> popStack ; empty: extendStack -> allocPhys, pushStack
    mapPage -> newPagetable -> popStack ; low: growPageStack -> allocPhys
                                            -> vmallocPhys -> allocMarker, mapPages
    kcacheAlloc -> newSlab -> allocPhys, vmallocPhys -> kcacheAlloc (marker cache)
    createRegion (PMM boot) -> kmalloc ; createDstack -> kmalloc
    allocMarker -> currentProcessVMarker -> scheduler->currentTask

Every step of the circle holds a spin lock of its own (`mutex.h`), so a call
that comes back to a lock it holds stops the machine. The last line is why the
boot has a task before it has tasking (`createFakeTask`).

Before that, the loader fills the page tables the kernel goes on using, and
hands over the memory map from which `pmm.c` makes its regions. After it,
`initACPI` leads to the I/O APICs, the local APIC and the timers; the PCI scan
leads to the AHCI controller; `initVFS` and `initRamdisk` read the image that
the host tool packed and the loader brought along, and keep its files in hash
tables.

### 1.3 Concurrency and failure

The kernel starts one processor, and no code switches tasks (`task.c:118`).
Interrupts come at any time, exceptions inside handlers too, but no handler
enters an allocator. There is nothing persistent, and no messages; devices and
firmware answer late, differently, or not at all. What is hard here is
therefore less parallelism than:

- **re-entry**: an allocator in the middle of an operation is called again
  through the circle above, with the state half changed and the lock held;
- **interrupts** between a test and the wait it decides on, and the balance of
  the stack they run on;
- **long sequences** of legal calls that lead to an illegal structure (chain,
  bitmaps of several orders, list of markers, buckets, event queue);
- **limits and widths**: an `int` shifted by up to 63, a last partial word, a
  loop bound that is one too large, a size that is no multiple of the unit, a
  length added for the wrong entry;
- **early returns** that keep a lock, and allocation failures halfway;
- **loops that need progress** from another part (refill and retry, polling).

The models have a `pc` or `step` wherever a call can be entered again, be
interrupted, or fail between two changes; a call that can do none of these is a
single step.

### 1.4 What makes each part correct

- heap: live blocks are disjoint, the chain tiles every chunk, the built-in
  checks never fire, calls touch only their block, the lock is given back,
  calls end;
- data stack: it is a LIFO stack, and its data stays in its block;
- frame stacks: no frame twice, a refill never overflows the stack, also when
  it runs inside another, the pop after a refill finds a frame;
- slab allocator: no buffer twice, a slab serves what it holds, the red zone
  behind a bitmap survives, calls end with the locks free;
- virtual memory: ranges are disjoint, a device range stays mapped to its
  device, a nested refill changes no other range;
- paging: the tables are a map from addresses to frames and rights;
- physical memory: blocks are disjoint, none is reserved or outside memory,
  no region is lost;
- loader: the kernel's segments stay where they were loaded, with their rights,
  the list of allocations has room, the map handed over tells what the
  firmware's did;
- interrupts: what was stopped goes on with its stack;
- tasks, timers: whoever allocates has a task with markers; no event is lost
  or made up;
- devices: the searches find what the tables have, an interrupt's route is not
  given away, the device list fits its block, ports wait for the reset, the
  search for devices ends;
- hash table, VFS: what was stored under a key is found under it, a call for one
  key leaves the others alone, a file is where the host tool put it, references
  match the open files.

Not all of this is so. Section 5 lists where the code does otherwise, and the
properties of the passing runs say what holds nevertheless.

## 2. The modules

| module | models | state and actions |
|---|---|---|
| `Kmalloc` | `kmalloc.c` | `hdr` is the headers by address (magic, border, red zone, sizes, links); `GetLock`, the walk of `kmallocInt` (`WalkOn`, `WalkLoops`, `SplitBlock`, `ExtendHeap`, `OutOfMemory`), `Kfree`, `Krealloc` |
| `Dstack` | `dstack.c` | block content, byte offset of the top, size, lock; one action per function; `krealloc` is what `Kmalloc` shows of it: a block of the new size with the old content |
| `Lifo` | abstract | a sequence with push, pop, and the loss of everything |
| `FrameStack` | `getPhysmem`, `extendStack`, `newPagetable`, `growPageStack` | EXTENDS `Dstack`; `user` is which of the two callers it is; `CallForFrame`, `AllocBlock`, the mapping of the block, during which `newPagetable` may be called again and so the refill, `PushFrame`, `FillDone`, `TakeFrame` |
| `Kcache` | `kcache.c` | per cache: slabs, reference counts, bitmaps, lock; `Choose`, `NewSlab`, `MapSlab` (with the nested marker allocation), `CarveSlab`, `AllocateBuffer` |
| `Vmm` | `vmm.c`, `mapPages` | the list of markers, the page mapping; `Vmalloc`, `VmallocPhys`, `MapPage`, `MapPhysPage` (with the frame that a PAT bit makes of the one asked for), `Return`, and `GrowPageStack` between any two pages |
| `Pmm` | `pmm.c` | region table, bitmaps as sets of `<<region, order, bit>>`, counts; the boot (`BootFirst`, `SizeOrder`, `MapOrder`, `FinishRegion`, `BootNext`), `AllocPhys`, `FreeNPhys`, `FreePhys` |
| `Paging` | `paging.c`, `mapPage` and `pgAlloc` of the loader | `mem` is the tables by frame, with what memory held at first (`Images`); a `mapPage` goes down one level per step (`Descend`, `MakeTable`, `GiveUp`, `WriteEntry`); `virtToPhysInt`, `initPaging` |
| `Dict` | abstract | a map from keys to data that only grows, and answers that agree with it |
| `Loader` | `Bootloader/x86_64` | allocations, mappings, the two memory maps; `initMem`, `loadELF`, `loadFiles`, `handOver`, `mergeDesc`, `mergeKmmapEntry`, `exitBootServices` |
| `Interrupts` | `cpu.c`, `cpu.asm`, `pit.c` | handler table, running handlers, words on the stack, the local APIC's vectors in service; `exception`, `interrupt`, `isr`, `irq`, the table's functions, `pitOneShot`, `pitCalibrate` |
| `Tasks` | `task.c`, `timer.c`, `sleep.c` | EXTENDS `Interrupts`; scheduler, tickets, event queue; `createFakeTask`, `initTasking`, `sysSleepns`, `driverEvent`, `addTimerEvent` one swap per step, `timerEnd`, `taskSwitchEntry`, `setErrorCode` |
| `Platform` | `acpi.c`, `apic.c`, `ioapic.c`, `lapic.c`, `hpet.c`, `pci.c`, `ahci.c` | EXTENDS `Tasks`, whose sleep is that of the AHCI waits; the machine `m` is chosen once; one loop round or call per step, and `Hardware`, by which the controller finishes what it was asked for |
| `HashTable` | `hashtable.c` | a bucket is a sequence, its head the entry in the array, which a new table does not clear (`Raw`, `Stale`); one action per function; a call that follows what the heap left there is `Astray` |
| `Files` | `Ramdisk/ramdisk.c`, `ramdisk.c`, `vfs.c` | EXTENDS `HashTable`, whose table is the mount's; `addFile` on the host, `initVFS`, `loadFile`, `openFile`, `readFile`, `fileSeek`, `closeFile`, `unmountVFS` |
| `KmallocProofs`, `KcacheProofs`, `VmmProofs`, `PmmProofs` | | the theorems about the module of that name (section 4) |
| `StackProofs` | | theorems about `Dstack` and `FrameStack` |
| `MachineProofs` | | theorems about `Tasks`, `Interrupts` and `Platform` |
| `FilesProofs` | | theorems about `HashTable` and `Files` |
| `BootProofs` | | theorems about `Paging` and `Loader` |
| `MC*` | | values for TLC; where one run has several clients, the choice between them |

`Lifo` is the abstract specification of the data stack (`IsLifo`), `Dict` that of
the page tables (`IsPageMap`). The hash table has none: `hashtable.c` is not a map
(section 5).

Definitions marked `Mutant:` are wrong versions of the definition below them.
Each property of a run is broken by at least one of them, which shows that the
property depends on the code it is about.

**Spin locks.** A lock is a variable; an action that needs a lock that is held
is not enabled, or ends in a state named `hung` where that is the question.
`GET_LOCK` tests and stores in two instructions; on one processor nothing comes
between the two.

**Integer widths.** Where the code shifts an `int` (`kcache.c`, `pmm.c`) the
mask is modelled with its real meaning on x86: the count is taken modulo
`IntBits`, and the sign bit is extended when the result is converted to a
64-bit word. The width of words and ints is a constant, 64 and 32 in the code.
Times, sizes and reference counts wrap (`NsBits`, `SizeBits`, `RefBits`).

**Abstractions.** Addresses are numbers of small units, or page numbers.
Contents of buffers, log output and the debug build are left out. In `Kmalloc`
vmalloc is external: it hands out ascending ranges below the heap or fails. In
`FrameStack`, allocPhys is external: blocks of `Chunk` frames, each once, in any
order. In `FrameStack`, which page tables a mapping finds missing is left open. In
`Vmm`, mapping a page is one assignment, of the frame that the entry's bits make
of the one asked for; `Paging` justifies it where new tables are clear, and
getPhysmem returns fresh frames, which `FrameStack` shows. In `Platform` a
mapping of device memory succeeds or the assertion behind it stops the kernel. A
key is a model value and `hashData` a constant function. Memory that the code
does not initialise (buckets, frames of page tables, the bits behind a bitmap,
the mount's count and read function) holds anything; when the code follows such
a value, or one that it read outside an array, the model stops in a state of its
own (`Astray`, `fault`, `astray`, `wild`) about which nothing is claimed.

## 3. The runs

| run | states | what it shows |
|---|---|---|
| `heap` | 78,514 | `kmalloc`, `kfree`, `krealloc` by careful callers: the heap keeps its structure |
| `heap_boot` | 89,239 | with `kmallocAligned`, same-size `krealloc` and the linked `memcpy`, but no free: nothing handed out twice, calls end |
| `dstack` | 2,190 | the data stack is a LIFO stack (refinement of `Lifo`) |
| `frames` | 31,911 | getPhysmem and newPagetable with the kernel's numbers until memory is exhausted, refills inside refills included: no frame twice but one that is named, a push hangs exactly when refills nest, no call goes round for ever |
| `kcache` | 34,437 | four caches until every slab refuses |
| `vmm` | 360,734 | ranges and mappings with a nested refill anywhere, devices cached and uncached, aligned and not |
| `pmm` | 227,835 | boot with a growing heap, regions of several words, requests of one block and more, frees of single blocks |
| `pmm_orders` | violation | a block of 100 pages and one of 10 overlap |
| `boot` | 442,455 | page tables built by the loader and continued by the kernel, in memory that is clear (refinement of `Dict`) or not; the loader's whole sequence on several machines and kernels |
| `boot_map` | violation | free memory of two firmware types side by side is merged to a wrong size |
| `machine` | 484,788 | interrupts that nest; tasks, sleeps and drivers' events; devices found on some 650 machines, with the sleeps between polls |
| `files` | 133,743 | hash tables with collisions in memory that is not cleared; files of different sizes from the host tool to their readers |

A run with several clients chooses one in its initial state, which is a matter of
bookkeeping, not of composition. The compositions
are in the modules: `FrameStack` on `Dstack`, `Files` on `HashTable`, `Tasks` on
`Interrupts`, `Platform` on `Tasks`, the nested refill in `Vmm`, the nested marker in `Kcache`.

### 3.1 Bounds

- `heap`: headers of 2, red zones of 1, pages of 8 units, sizes {0, 1, 4}; the
  linker's heap holds four blocks and vmalloc two chunks, so that splits, frees
  towards a predecessor, moves to another chunk, extension and exhaustion all
  happen, in all orders. Size 0 is the edge of every size test.
- `heap_boot` has a heap of four pages, so that aligned splits happen several
  times.
- `dstack`: two items tell the order of a stack; sizes 16, 20, 0 with steps 8
  and 12 give blocks that are and are not whole words.
- `frames`: 100 words, refills of 32 and of 64 + 1 frames, low
  water 20: the kernel's own numbers. Four blocks give several refills in
  sequence; of newPagetable's some are neighbours and some are not, in any order,
  and a mapping may take up to two tables, which is enough for a refill inside a
  refill inside a refill.
- `kcache`: words of 4 bits and ints of 2 keep the ratio of 64 and 32. The four
  caches have the shapes the kernel has: whole words (markers 128, descriptors
  256), a last partial word (tickets, 227), fewer buffers than an int has bits
  (AHCI, 16).
- `vmm`: pages of 2 bytes, sizes 1, 2, 4 (part of a page, one, two), two
  preferred minima of which one is above the first ranges, five markers; devices
  at even and odd pages, with and without the PAT bit, and one inside a page.
- `pmm`: words of 5 and ints of 3 bits, four orders; four map entries, of which
  two fill more than a word and one ends in part of one, the region of the last
  taking the place of the one that was made first; three ranges in use, one of
  them at its entry's base; requests of one block and of two, a heap that asks
  for two while it grows. `pmm_orders` has 64, 32, 7 orders and the two request
  sizes of the kernel.
- `boot`: two indices a table and three addresses, of which two share all
  tables and one only the root; seven tables, so that they run out; three
  calls, with and without the PAT bit; memory that is clear, that holds entries
  which lead in a circle through the tables, and that holds one old entry.
  Firmware maps with and without free memory side by side. Pages of 2 units,
  segments of 1 to 5, an allocation list of 2 that
  grows by 2 (40 and 20 in the code), so that it grows on every machine.
- `machine`: vectors of every kind the stubs tell apart (a fault with an error
  code that the stub expects, one that it does not, no error code, the interval
  timer, another IRQ, one without a gate); two changes of the table; two nested
  handlers. Five slots of the event queue and six events of a task and a
  driver, so that it overflows, with three times (equal, smaller, larger). MADTs with every order of
  entries, ended by another table or by zeros, buses with every set of
  devices in six slots for a list that grows by 2, controllers with every
  combination of capabilities and ports.
- `files`: one key with a bucket of its own and three that share one, so that a
  chain has a head, a middle and an end, in buckets that are clear, hold old
  entries or anything; directories with a subdirectory, names of different
  lengths, two or three files of different sizes, and two names that collide, as
  `test.jpg` and `test.png` of the repository's ramdisk do; two descriptors; sizes
  and counts of 2 bits, so that both wrap.

`MaxSlabs`, `MaxBuffers`, `MaxMarkers`, `MaxPage`, `MaxBytes`, `MaxMaps`,
`MaxCalls`, `MaxSleeps`, `Sizes`, `Blocks`, `Map`, `Machines`, `Firmware` and
`Trees` are the bounds. `CHECK_DEADLOCK FALSE` is there because a kernel that
has run out of memory, has panicked or has stopped at a lock takes no step, and
neither does a boot that is over.

### 3.2 Fairness

The fairness is weak fairness of the running code (`WF_vars(Heap)`,
`WF_vars(Allocator)`, the next-state relation of the frame stacks, `Kernel` and
`Tasking` of `Platform`): the processor goes on executing. There is one processor
and the allocators are not preempted, so the code justifies it. Callers are not
fair: no one is assumed to call. Nothing is assumed of the AHCI controller: it
may never finish what it was asked for, and the boot ends all the same, because
each poll sleeps, each sleep adds an event, and the queue is finite.

### 3.3 What the passing runs assume of callers

Where a use breaks what would be expected of the code, there are two ways to say
so. Where the kernel itself makes that use, the run has it, and the property names
the exception: the frame beyond a block (`Shared`), refills inside refills
(`nested`), pages whose PAT bit moves them (`EntryFrame`), tables made of memory
that was not clear (`clean`), regions whose first bitmap word is full
(`FirstWordServes`), orders of an overwritten region (`Leftover`), the first file
of a shared bucket (`NamesFound`). Where only a use that the interface allows does
it, a constant says which use is meant: `BorderEarly`, `SameSize` and `MemcpyOK`
in `heap` (`heap_boot` has the same-size `krealloc` and the linked `memcpy`, and no
frees), `CarefulShrink` (data stack), `Sizes` (virtual memory), `FreeOrders` and
`Short` (physical memory). Two of these uses are the kernel's as well: the `memcpy`
that is linked never lets a `krealloc` that moves its block return, so that the
run `heap` is about the heap with one that copies; and `initRamdisk` asks for sizes
that are no whole pages. Section 5 lists what happens otherwise.

## 4. The proofs

`tlapm` checks every theorem; none rests on anything but the named assumptions
on constants, which TLC evaluates in the runs, and the hypothesis that its
statement has. Each hypothesis is about constants too and is named below. It
holds of the constants of the run that checks the property; where it leaves out
some of the machines that the run has, this is said.

**Heap** (`KmallocProofs`, for `CarefulCallers`: no `kmallocAligned`, and a
chunk's first block is given up last). `TypeCorrect`, `MemorySafe`,
`NothingLost`, `ChecksPass`, `OthersKept`, `LockGivenBack` (the last one also
without same-size `krealloc`). Disjointness is not inductive: a free adds a
block's memory to its *predecessor in the chain*, which is right only if that
is also its predecessor in memory. The inductive invariant `IInv` therefore
says: the chain is linked in both directions and sorted (the linker's heap,
then the chunks in ascending order), its blocks tile every chunk, a block is
where its chunk's memory is, and the pointer of a running call is a live block
(`PtrOK`, `CallOK`). Each of split, extend, free, resize keeps `HeapInv` for
arbitrary headers (lemmas `SplitInv`, `ExtendInv`, `FreeInv`, `ResizeInv`);
`RoundUp` is the arithmetic by which `extendHeap`'s extra pages pay for the
division that rounds down. `WalkNeverRepeats`: by the same invariant the search
of `kmallocInt` passes only from
a block to one further along the heap, in an order without cycles
(`BeforeOrder`).

**Heap before the first free** (`KmallocProofs`, for `BootCallers`: any calls but
`kfree`, and a `krealloc` that never gets to its free because the linked `memcpy`
stops it). `BootMemorySafe` and `BlocksAligned` cover `kmallocAligned`, whose
split leaves its block out of the forward chain, so that nothing of `IInv` about
the chain survives. The invariant `BootInv` does without the chain: the headers
lie apart and in memory (`Apart`), whatever links to what. A split divides one
block, an extension adds one below all others, and nothing else moves; a free
would need the chain. The alignment is arithmetic of the split for every page,
header and red zone size.

**Data stack** (`StackProofs`, for `CarefulShrink`). `DataInBlock`, and
`Implements`: every step maps to a step of `Lifo` or a stutter. The invariant
adds that the top is at a word boundary, without which the room test
`top + 8 <= maxSize` would not bound the last word.

**Frame stacks** (`StackProofs`). All for `CapacityFits`: what is left when a refill
starts plus the refill is at most the capacity, which the kernel's numbers
satisfy (0 + 32 and 19 + 65, against 100). `RefillFits`: then a push finds the
stack full, where it waits for its own lock, only after a refill has run inside
another; two of them push 130 frames. `TableReady`: with a low-water mark the pop
never finds the stack empty (`NeverEmpty`). `RefillServes`: without one, the pop
after a refill does not either, which is the safety half of `FrameArrives`.
`FrameOnce`: whatever the blocks and however refills nest, no frame is handed out
twice but the one pushed beyond a block whose neighbour is allocated too
(`Shared`). The invariant `RoomInv` bounds the fill at each step of a call as long
as no refill has nested; `OnceInv` says that a frame in use was pushed for a block
that is owned and mapped, and of the block that is being pushed only what the loop
has come past (`Pushed`), and that the refills that wait have blocks of their own.

**Slab allocator** (`KcacheProofs`, no restriction). `TypeCorrect`,
`NoBufferTwice`, `LocksGivenBack`, `FullOnlyWhenServed`, `RedzoneUntouched`. A
buffer that was handed out has all bits of its mask set (`Marked`), also where
the mask is the wrong one: buffers are lost, never handed out twice. `Locking`
says a running call holds exactly the lock of its cache. When a slab refuses
needs a finer invariant, `FullInv`: every bit that is set is of the mask of a
buffer that was handed out (`Origin`), and a slab's references are as many as its
buffers that were handed out (`Counted`).

**Virtual memory** (`VmmProofs`). `VmmTypes`, `MappingStays`, `DevicesMapped` for
all sizes, `NoOverlap` for `WholePages` (every size is at most a page or a whole
number of pages). `VInv` says the list is ascending and the running call maps
the range of a marker. It follows that `allocMarker`'s test for a gap never
succeeds (`NoGap`) and every marker is placed last, from where a nested refill
can only be behind the range that the outer loop maps. `MappedInv` adds that
frames come from behind every device, and that a device's range is mapped, each
page to what `EntryFrame` makes of its frame, and is below the range of the running
call, or is that one, as far as its loop has come. `DevicesMapped` is therefore
about all memory types: the device's own page where the PAT bit does no harm, the
odd page of the pair where it does, and it stays.

**Physical memory** (`PmmProofs`, for `UnitUse`: entries of two blocks or more with
a page between any two, as `freePhys` takes the page behind a region for its own;
a heap that asks for more than a block when it grows, as both refills of the kernel
do; and callers that give back single blocks in their whole length). Requests may
have any size, regions any number of words, the heap may grow while a region is
made, a region may be overwritten, and bitmaps may begin with bits of the heap.
`UnitsApart` and `UseKept` are about the blocks of order 0 of a region whose count
says that the first word has been enough (`FirstWordServes`): beyond that, and for
larger blocks, the code hands out memory twice (`pmm_orders`, section 5). The
invariant `PmmInv` has four parts beside the types. `RegionInv`: a region is that
of an entry whose turn has come, and no entry has two. `MakingInv`: of the region
being made, what is true before its claims are marked. `CompleteInv`: in every
other region the bits of an int are set all or none (the sign extension sets many),
and the count of order 0 is at least the number of ints' bits that are set
(`Counted`). This is the heart of it: a block of order 0 sets one and counts one, a
larger one sets only the first bit of the first word there and counts two, and a
free clears a bit and leaves the count; so as long as the count is no more than an
int has bits, the first word has a clear one that the search finds, and the address
computed from the bit alone is right. `LiveInv`: a block of order 0 with a caller is
marked, is not one of those in use at boot, and has one holder; the block being
freed is nobody's. `EntriesKept`, for every map and any requests: `KeptInv` places
the region of the i-th other entry at number i, and the first one's above them all
when exactly one entry follows it. TLC evaluates `UnitUse` for the constants of
`pmm` (`MCPmm`). `InMemory` is only model-checked.

**Page tables** (`BootProofs`, no restriction). `TablesAreMap`: as long as every
table held zeros when it was made (`clean`), every step of `Paging` maps to a step
of `Dict` or a stutter, for every memory type; the map's value is the frame that the
type makes of the one asked for. What a write to one table does to the walks of all
addresses is the difficulty. The invariant `Tree` is: a table is reached at one
level and by one way only, no free table is reached, and an entry with the right to
write has levels above with it. Lemmas `TableChange` and `WriteTree` say what a new
table and a new entry change in every walk: nothing, but for the addresses behind
them. In memory that was not clear nothing of this holds; what is left there is
`PageLeads`, which is model-checked.

**Loader** (`BootProofs`). `ListHasRoom`, no restriction. `SegmentsInPlace` for
kernels as a linker makes them (`KernelApart`: segments ascend and do not
overlap, and lie apart from the stack and from the loader's own pages; the
kernels of the `boot` run are such). The invariant `SegInv` follows a segment
through everything that is mapped after it: `Behind` orders the blocks, `Placed`
says where each segment's pages lead. The rest is arithmetic for every page
size: the block is a page larger than the segment, so that the aligned address
leaves room for it (`BlockHolds`), and two blocks one behind the other have no
frame in common (`FramesApart`). Kernels that are not `KernelApart` lose a page
to the page too many of a later segment or to a later mapping.
`StartsHandedOver`, for `StartsApart` (no two descriptors begin at one place) and
whatever there is to merge: `StartInv` says that after each descriptor every entry
begins at one of those so far and has its type, no two at one place, and that each
descriptor has an entry of its type at or before it, which the two merges keep. The
sizes are wrong in general; that is `boot_map`.

**Interrupts, tasks, timers** (`MachineProofs`, about `TSpec`, in which the steps
of `Tasks` and those of `Interrupts`, hence interrupts between any two swaps of
a sift, interleave freely). `InterruptsReturn`: `StackInv` counts the words of
every running handler, for any vectors. `BootKeepsMarkers`: `MarkersInv` says
with which ticket the markers are at each step of the boot. `TimersKeepEvents`:
counting events per time and callback, and ids per caller, by cardinalities of sets
of slots; needed is `QueueInv`, that slots below `next` are taken and `next`'s is
free, and `SwapCount`, that an exchange changes no count. The swaps take times and
callbacks along and leave the ids, so that both counts are kept and their pairing
is not.

**Devices** (`MachineProofs`, for every machine in `Machines`). `RoutesOwned`,
`DevicesRoom`, `PortsStart`. `DevInv` says that the list is never full between
two slots; `PortsInv` says what has been done to the controller at each place of
its start. `NextIcsFound`, for `MadtsSound` (every entry has a length): the
search adds the length of the entry it came from, not of the one it goes to, and
stops at a limit that includes the header. `Off` is a recursive function, so that
sums over entries are monotone and bounded by induction on a least counterexample
(`OffExists` and the lemmas behind it). `NoSearchHangs`, for `LengthsSound`
(the memory behind the table has lengths too, the premise of `BootEnds`; machines
of the run with zeros there are left out): `SearchInv` keeps the search's start
inside memory, from where every step is forward. It is the safety half of
`BootEnds`.

**Hash table** (`FilesProofs`, no restriction). `TableKeepsOthers`: for any hash
function and whatever the buckets held, a call for one key does not change the
answer for another in a bucket with a whole chain. `TableInv` says that the head of
a chain is in use: it is what makes an insert into a chain append, and a removal
leave the entries behind it reachable.

**Files** (`FilesProofs`). `FilesAgree`: entries of the table, files and descriptors
name each other; `FilesInv` follows every bucket through the boot (`FileBucket`):
its files are in it in the order of the image, behind what the heap left. From it
`NamesLead`, for every directory and hash function. `CountsMatch` for fewer
descriptors than the counter can tell apart: at more, the count wraps.
`FilesPlaced`, for files of any sizes: `PlaceInv` relates the chain of files that
the host tool wrote to the pointer with which `initRamdisk` walks it, which is off by
the difference of two sizes at every moment, and to the addresses in the files.

**Only model-checked.** Liveness (`FrameArrives`, `CallEnds`, `BootEnds`), which the
prover cannot do; of what they rest on, `RefillServes`, `WalkNeverRepeats` and
`NoSearchHangs` are proved. Of the safety properties `NestedHangs` (arithmetic of
the kernel's own numbers), `InMemory` and `PageLeads`. Every other property of a
passing run has a theorem, under the hypotheses above; outside them the code does
otherwise, as `pmm_orders`, `boot_map` and section 5 show.
## 5. Where the code does not do what it says

Two runs are counterexamples, described with the lines they contradict under
"findings": `pmm_orders` and `boot_map`. The following are found by changing a
configuration: a constant, or the property that it names.

| where | change | what TLC shows |
|---|---|---|
| `kmalloc.c:230` | `heap.cfg`, `BorderEarly = TRUE`, `BlocksInMemory` | freeing the first block of a chunk before its others gives the chunk's memory to a block of another chunk |
| `kmalloc.c:270` | `heap.cfg`, `SameSize = TRUE`, `LockBalanced` | `krealloc` to the same size returns with the lock held |
| `kmalloc.c:167` | `heap_boot.cfg`, `Calls <- AlignedCalls` | the aligned split leaves its block out of the forward chain; a later free breaks `BlocksDisjoint` |
| `dstack.c:21` | `dstack.cfg`, `CarefulShrink = FALSE` | `shrinkStack` computes the new size from the wrong difference (`StackInBlock`) |
| `kcache.c:126` | `kcache.cfg`, `AllocServed` | a slab of more than 32 buffers serves 32 of 64, then the cache returns NULL for good; `allocMarker` writes through it after 64 markers |
| `vmm.c:99` | `vmm.cfg`, `Sizes <- OddSizes` | a size that is no multiple of a page loses its last part to the next range (`RangesDisjoint`); `initRamdisk` asks for such sizes |
| `pmm.c:165`, `258` | `pmm.cfg`, `BlocksDisjoint` | blocks of different orders overlap, and a region's second bitmap word hands out the addresses of the first again |
| `pit.c:23` | `machine.cfg`, `MCFairSpec`, `WaitEnds` | the timer's interrupt between the test and the `hlt` leaves the kernel halted, and so does a table or a vector in service that keeps the interrupt away |
| `timer.c:72` | `machine.cfg`, `RootFirst` | the first event of the queue is not the next to end |
| `timer.c:77` | `machine.cfg`, `IdKept` | an event ends with the id of another |
| `hashtable.c:162` | `files.cfg`, `FoundByName` | a bucket with one entry answers for every name that hashes to it |

Found in translating, and in the models as the code has it:

- `kmalloc.c`: the extension path ignores the alignment (`:197`); the theorem
  `BlocksAligned` is about splits. The linked `memcpy` takes its arguments in
  another order than its prototype (`misc.asm:10`), so that a `krealloc` that moves
  its block stops the kernel, and the aligned search repeats a block for ever
  (`:157`): the two exceptions of `CallEnds`.
- `dstack.c`: a push on a full stack waits for its own lock; a shrink by more than
  the stack has passes zero, and stops in `krealloc`.
- `paging.c:51-53`: `growPageStack` maps its block before it pushes a frame. If the
  mapping needs a page table, the refill runs again, and the two push 130 frames on
  a stack of 100: the kernel hangs, always (`NestedHangs`) and only then
  (`HangsNested`).
- `paging.c:57`: the refill pushes the first frame of the block behind its own. When
  that block is the next refill's, the frame is handed out twice (`Shared`).
- `paging.c:72`: a new page table is not cleared. What its frame held becomes
  entries: pages that nobody mapped are mapped, and a later `mapPage` may follow an
  old entry into memory that is no table. `IsPageMap` fails without `clean`.
- `paging.h:17`: the PAT bit of an entry is bit 12, the lowest of its frame number.
  All drivers map their devices uncached or write-through: one at an even page gets
  the page behind it (`EntryFrame`). An unaligned device address leaves its range
  unmapped (`paging.c:126`), and `vmallocPhys` returns it all the same.
- `vmm.c:150`: the loop maps one page more than the range has. It is harmless
  while the next range maps its first page again; a refill that is nested
  before the last step is the exception, and then the block that
  `growPageStack` mapped loses its first page. `DeviceMapped` is stated for the
  ranges that callers asked for, `PagesStay` for what lies below the running call.
- `kcache.c:45`: of a slab whose buffers do not fill whole words (the tickets') the
  last buffers' bits lie in the heap's red zone; `RedzoneKept` is about the others.
- `pmm.c`: the region that was parsed first is overwritten unless exactly one entry
  follows it (`:126`), and the higher orders of the larger one stay behind, with
  blocks that reach past the new one (`Leftover`). A range in use at its region's
  base is not marked, and one that starts inside a block is marked a block short
  (`:332`). A heap that grows while a region is made takes larger blocks over memory
  that is marked afterwards (`:65`). `freeBit` climbs through orders that the region
  does not have (`:213`, `pc = "fault"`), and `freeNPhys` never ends for a length that
  is no multiple of a block (`:398`, `Endless`). `freePhys` keeps the lock when it
  finds no region.
- `mem.c` of the loader: `idMapMem` stops before the last descriptor; the
  kernel is told of all map entries but the last; `allocMem` clears up to a page
  past its block when it aligns (not modelled: contents); the page tables and
  the map itself lie in memory that is reported free. `checkMagic` accepts a
  magic that begins with `F`. A segment is mapped one page too far, which the
  next one mends where the headers ascend.
- `paging.c`: the user bit is set in the last level only; `unmapPage` is empty,
  so that with x2APIC the local APIC's page stays mapped.
- `cpu.asm`: stubs below 32 leave their error word on the stack, so that a
  driver's handler there returns to nowhere (`cpu = "lost"`; `ResumesIntact`
  says that nothing else does). `lapicInterrupt` is empty: no interrupt is ever
  ended, and a vector in service keeps its class and those below away for good.
- `cpu.c:240`: vectors are allocated up to 255 in a table of 30 handlers and 48
  gates.
- `task.c`: `createTicket` keeps `queueLock`; no code sets the size of the
  suspended queue, so that nobody is woken; `taskSwitchEntry` returns to a saved
  register.
- `timer.c`: `TIMER_PARENT` does not bracket its argument (`timer.h:32`), so that for
  an even `next` the parent of a slot is the slot before it, and `next` decides in
  every round. The parent of the first slots lies some 50 or 100 GB past the queue:
  the first sleep of the kernel faults there, or exchanges its event with what it
  finds (`SiftWild`). After the first event `resortTree` never ends or faults; the
  search for a free slot leaves the queue; `timer.type` starts as the best type, so
  that `registerTimer` takes none.
- `ahci.c:81`, `90`: every poll sleeps and adds an event, which nothing takes away;
  a controller that needs more polls than the queue has slots stops the kernel, if
  the first sleep has not.
- `apic.c`: `findNextICS` goes on behind the table's end, where a length of zero
  holds it for ever (the hypothesis of `BootEnds`); processors are counted from
  behind the first I/O APIC, by a test that skips the enabled ones.
- `ioapic.c`: an override that is the first entry is not seen; "in use" is asked
  of entry 0; every write goes to the first controller.
- `pci.c`: a device with MSI alone takes a buffer from a cache that is not made
  yet (`pc = "fault"`). `kernel.c` does not call `initPCI` at this commit: the
  model is of the function.
- `ahci.h:180`: a port's registers are declared 52 bytes long instead of 128;
  `det` in `Platform` is what the code reads as the port's status.
- `vfs.c`: `mfread` is never assigned (`:45`), so that every read calls whatever the
  heap held there (`readFile` is `Astray`): that a reader gets the bytes of its file
  cannot be stated of this code. The mount's references start with anything and are
  never dropped; `fileSeek` tests one sum and stores another; `ramdiskReadFile`
  ignores the size it is asked for.
- `ramdisk.c:51`: the pointer is advanced by the size of the next file. A file whose
  size differs from the first one's gets an address inside or before its neighbour;
  `Placed` says by how much.
- `hashtable.c`: the buckets of a new table are not cleared (`:37`), and what the heap
  left there is taken for entries: a bucket that seems taken is chained to, one whose
  key is a stray pointer is followed (`Astray`). `findKey` returns the entry of a
  bucket without a chain for every key, and does not look at the head of a bucket
  with one (`:162`): the first of two files whose names collide is not found, as
  happens to `test.jpg` and `test.png` of the repository's own ramdisk (`NamesFound`
  says that it is the only one). An insert that reuses a removed entry cuts the chain
  behind it. A key that is to be copied runs into `memcpy`'s argument order
  (`CopyKey`).

## 6. Not modelled, and the plan

Next, in order:

1. `Vmm` over `Paging`: replace the assignment to `map` by the walk; the
   recursion `newPagetable` -> `growPageStack` -> `mapPage`, in which `FrameStack`
   leaves open which tables are missing, and page tables that are reached
   through low pages which vmalloc hands out, are the cases to see.
2. `Pmm` over `Loader`: the map that the loader makes as `Pmm`'s constant, and
   which of the assumptions of `PmmProofs` it gives.

Without state of their own to check, or out of reach: formatting and printing,
drawing, descriptor tables and register writes, fault handlers and kernel
symbols (they print and halt), the frame buffer's mode, `unit.c` and the copy of
`vfs.c` under `Drivers/` (nothing calls them), system calls, user libraries and
the xHCI, AML and aarch64 parts (begun in the source). Each is in `PROJECT.json`
with its reason.
