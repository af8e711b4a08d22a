------------------------------ MODULE Platform ------------------------------
(***************************************************************************)
(* Finding the machine's devices: the ACPI tables (acpi.c, apic.c), the    *)
(* interrupt controllers (ioapic.c, lapic.c), the HPET (hpet.c), the PCI   *)
(* bus (pci.c) and the AHCI controller (ahci.c).  The machine is chosen    *)
(* once; the kernel walks it, one loop round or one call per step, after   *)
(* it has made its tasks.  The waits for the AHCI controller sleep: module *)
(* Tasks puts an event in its queue, and the kernel runs on.               *)
(*                                                                         *)
(* A mapping that vmallocPhys() makes is module Vmm's; here it succeeds or *)
(* the assertion behind it stops the kernel.                               *)
(***************************************************************************)
EXTENDS Tasks, FiniteSetsExt

CONSTANTS
  Machines,   \* the machines; see MCMachine
  Entries,    \* redirection entries of an I/O APIC, 24
  MadtSz,     \* sizeof(struct acpiMADT), 44
  Room,       \* devices that the PCI list grows by, 10
  Slots,      \* device numbers that scanBus() asks for, 255
  Ports,      \* ports that initAHCI() asks for, 32
  BiosNs,     \* the sleeps of initAHCI(), 10 and 32 ms
  ResetNs,
  NONE        \* no timer, no vector, no interrupt yet

\* An entry of the MADT: a local APIC with its flags, an I/O APIC whose
\* address is aligned or not, an override with its source and input.
Ics == [type : {"lapic", "ioapic", "iso", "other"}, len : Nat, enabled : BOOLEAN, online : BOOLEAN,
        aligned : BOOLEAN, pit : BOOLEAN, gsi : 0 .. Entries - 1]

ASSUME PlatformAssumption ==
  /\ MadtSz \in Nat /\ Entries \in Nat \ {0} /\ Room \in Nat \ {0} /\ Slots \in Nat /\ Ports \in Nat
  /\ NONE \notin 0 .. 255 /\ {BiosNs, ResetNs} \subseteq Times
  /\ \A x \in Machines : /\ x.madt \in Seq(Ics) /\ x.after \in Seq(Ics)
                         /\ x.pi \subseteq 0 .. Ports - 1  \* the register has a bit per port

VARIABLES
  m,        \* the machine
  pc,       \* the running function
  k,        \* its loop counter
  check,    \* initAPIC()'s entry
  ioapic,   \* the controllers found: [intmap, redtbl]
  timer,    \* timer.c's best timer: [type, set]
  apCount,  \* processors counted
  lapic,    \* registered local APICs: [bsc, x2apic, mapped]
  device,   \* the PCI list
  alloc,    \* devices it has room for
  block,    \* the device numbers in its heap block
  msi,      \* how the controller interrupts: NONE, "msi", "msix" or "vector"
  hba,      \* the controller: [busy, reset, ae]
  ports     \* the ports with a command list

pvars == <<m, pc, k, check, ioapic, timer, apCount, lapic, device, alloc, block, msi, hba, ports>>

\* timer is in .bss: its type is 0, TIMER_TYPE_DEADLINE, the best one.
NoTimer == [type |-> 0, set |-> NONE]

\* The controller's registers: the BIOS has it, it resets, AHCI mode.
Hba(busy, reset, ae) == [busy |-> busy, reset |-> reset, ae |-> ae]

PInit ==
  /\ m \in Machines
  /\ pc = "acpi" /\ k = 1 /\ check = 0 /\ ioapic = <<>>
  /\ timer = NoTimer /\ apCount = 1 /\ lapic = <<>>
  /\ device = <<>> /\ alloc = Room /\ block = 0
  /\ msi = NONE /\ ports = {}
  /\ hba = Hba(m.boh, FALSE, FALSE)

devVars == <<device, alloc, block, msi, hba, ports>>
tableVars == <<check, ioapic, timer, apCount, lapic>>

-----------------------------------------------------------------------------
(* The entries of the MADT *)

\* What lies in memory from the first entry on: the table's entries, and then
\* whatever follows the table.
Mem == m.madt \o m.after
Off[c \in 1 .. Len(Mem) + 1] == IF c = 1 THEN 0 ELSE Off[c - 1] + Mem[c - 1].len
MadtLength == MadtSz + Off[Len(m.madt) + 1]

\* How far findNextICS() believes to be before it looks at entry c + j.
Clen(c, j) == Off[c] + (Off[c + j] - Off[c + 1])

\* Mutant: the entry right behind the current one is passed over.
findNextICSSkip(t, c) ==
  LET stop == {j \in 2 .. Len(Mem) - c : Mem[c + j].type = t \/ Mem[c + j].len = 0}
      j == Min(stop)
  IN  IF c = 0 \/ stop = {} THEN 0
      ELSE IF Clen(c, j) > MadtLength THEN 0
      ELSE IF Mem[c + j].type = t THEN c + j ELSE -1

\* findNextICS(): the next entry of the type, 0 for NULL, or -1 when an entry
\* without length holds it for ever.  The limit leaves the header in, so the
\* search goes on past the end.  From NULL the difference of the pointers is
\* too large and the search ends at once.
findNextICS(t, c) ==
  LET stop == {j \in 1 .. Len(Mem) - c : Mem[c + j].type = t \/ Mem[c + j].len = 0}
      j == Min(stop)
  IN  IF c = 0 \/ stop = {} THEN 0
      ELSE IF Clen(c, j) > MadtLength THEN 0
      ELSE IF Mem[c + j].type = t THEN c + j ELSE -1

\* With checkInitial, the first entry counts too.
firstICS(t) == IF Mem[1].type = t THEN 1 ELSE findNextICS(t, 1)

-----------------------------------------------------------------------------
(* ACPI *)

Acpi(from, to, n) ==
  pc = from /\ pc' = to /\ k' = n /\ UNCHANGED <<m, devVars>>

initACPI ==
  /\ Acpi("acpi", IF m.rsdp THEN "table" ELSE "pci", 1)
  /\ UNCHANGED tableVars

\* registerTimer() keeps the timer unless the new one's type is lower or the
\* same.
registerTimer(type, set) ==
  timer' = IF timer.type < type THEN timer ELSE [type |-> type, set |-> set]

\* initHPET() offers its timer; the rest of it programs the device.
initHPET == registerTimer(2, "hpet")

\* indentifyTable() on the next table; a zero ends the list.
indentifyTable ==
  \/ k > Len(m.tables) /\ Acpi("table", "pci", 1) /\ UNCHANGED tableVars
  \/ /\ pc = "table" /\ k <= Len(m.tables) /\ m.tables[k] = "HPET"
     /\ Acpi("table", "table", k + 1)
     /\ initHPET
     /\ UNCHANGED <<check, ioapic, apCount, lapic>>
  \/ /\ pc = "table" /\ k <= Len(m.tables) /\ m.tables[k] = "APIC"
     /\ Acpi("table", "ioapic", k)
     /\ check' = firstICS("ioapic")
     /\ UNCHANGED <<ioapic, timer, apCount, lapic>>
  \/ /\ pc = "table" /\ k <= Len(m.tables) /\ m.tables[k] \notin {"HPET", "APIC"}
     /\ Acpi("table", "table", k + 1) /\ UNCHANGED tableVars

-----------------------------------------------------------------------------
(* The interrupt controllers *)

Blank == [intmap |-> {}, redtbl |-> [e \in 0 .. Entries - 1 |-> NONE]]

\* Mutant: the entry is written and not taken.
RouteFree(list, e, v) == [list EXCEPT ![1].redtbl[e] = v]

\* writeIOAPIC() always reaches the first controller.
Route(list, e, v) ==
  [list EXCEPT ![1].intmap = @ \cup {e}, ![1].redtbl[e] = v]

\* setIOAPICInterrupt(): "in use" is asked of entry 0, whatever the entry.
setIOAPICInterrupt(list, e, v) ==
  IF 0 \in list[1].intmap THEN list ELSE Route(list, e, v)

\* The interval timer's input: an override other than the first entry, or 0
\* when the search finds none.
Isos == {x \in 2 .. Len(m.madt) : Mem[x].type = "iso"}
PitIsos == {x \in Isos : Mem[x].pit}
PitMap == IF PitIsos = {} THEN 0 ELSE Mem[Min(PitIsos)].gsi
PitSearchHangs == PitIsos = {} /\ findNextICS("iso", Max(Isos \cup {1})) = -1

initIOAPIC(e) ==
  IF ~Mem[e].aligned THEN ioapic ELSE setIOAPICInterrupt(Append(ioapic, Blank), PitMap, 32)

\* initAPIC() on one I/O APIC, then the next one.
initAPIC ==
  /\ pc = "ioapic" /\ check > 0 /\ ~(Mem[check].aligned /\ PitSearchHangs)
  /\ Acpi("ioapic", "ioapic", k)
  /\ ioapic' = initIOAPIC(check)
  /\ check' = findNextICS("ioapic", check)
  /\ UNCHANGED <<timer, apCount, lapic>>

\* A search that an entry without length holds for ever.
hung ==
  /\ \/ pc \in {"ioapic", "count"} /\ check = -1
     \/ pc = "ioapic" /\ check > 0 /\ Mem[check].aligned /\ PitSearchHangs
  /\ pc' = "hung" /\ UNCHANGED <<m, k, tableVars, devVars>>

\* The count starts behind the first I/O APIC.
countFrom ==
  /\ check = 0
  /\ Acpi("ioapic", "count", k)
  /\ check' = findNextICS("lapic", firstICS("ioapic"))
  /\ UNCHANGED <<ioapic, timer, apCount, lapic>>

\* (flags & ENABLED) | ((flags & ONLINE_CAPABLE) == 0) skips the entry.
countLapic ==
  /\ check > 0
  /\ Acpi("count", "count", k)
  /\ check' = IF Mem[check].len = 0 THEN -1 ELSE findNextICS("lapic", check)
  /\ apCount' = IF ~Mem[check].enabled /\ Mem[check].online THEN apCount + 1 ELSE apCount
  /\ UNCHANGED <<ioapic, timer, lapic>>

\* registerLapic() takes the next place.  With x2APIC the page of the BAR is
\* unmapped, not the mapping.
registerLapic(bsc) ==
  lapic' = Append(lapic, [bsc |-> bsc, x2apic |-> m.x2apic, mapped |-> TRUE])

\* initLapic(): the array has apCount places, the boot processor takes the
\* first.
initLapic ==
  /\ check = 0
  /\ Acpi("count", "table", k + 1)
  /\ registerLapic(TRUE)
  /\ UNCHANGED <<check, ioapic, timer, apCount>>

\* allocateIOAPICInterrupt(): a driver is given the first entry that is free.
allocateIOAPICInterrupt(v) ==
  /\ pc = "done" /\ ioapic # <<>> /\ v \in 16 .. 254
  /\ LET free == (0 .. Entries - 1) \ ioapic[1].intmap
     IN  free # {} /\ ioapic' = Route(ioapic, Min(free), v)
  /\ UNCHANGED <<m, pc, k, check, timer, apCount, lapic, devVars>>

-----------------------------------------------------------------------------
(* PCI *)

Pci(from, to, n) == pc = from /\ pc' = to /\ k' = n /\ UNCHANGED <<m, tableVars>>

pciDevice(dev) == [class |-> m.slot[dev], dev |-> dev]

initPCI ==
  /\ Pci("pci", "scan", 0)
  /\ block' = alloc
  /\ UNCHANGED <<device, alloc, msi, hba, ports>>

\* Mutant: the list grows when it is over full.
scanBusLate ==
  \/ k = Slots /\ Pci("scan", "find", k) /\ UNCHANGED devVars
  \/ k < Slots /\ k \notin DOMAIN m.slot /\ Pci("scan", "scan", k + 1) /\ UNCHANGED devVars
  \/ /\ k < Slots /\ k \in DOMAIN m.slot
     /\ Pci("scan", "scan", k + 1)
     /\ device' = Append(device, pciDevice(k))
     /\ alloc' = IF Len(device) + 1 > alloc THEN alloc + Room ELSE alloc
     /\ block' = alloc'
     /\ UNCHANGED <<msi, hba, ports>>

\* scanBus(): one device number per round; the list grows when it is full.
scanBus ==
  \/ k = Slots /\ Pci("scan", "find", k) /\ UNCHANGED devVars
  \/ k < Slots /\ k \notin DOMAIN m.slot /\ Pci("scan", "scan", k + 1) /\ UNCHANGED devVars
  \/ /\ k < Slots /\ k \in DOMAIN m.slot
     /\ Pci("scan", "scan", k + 1)
     /\ device' = Append(device, pciDevice(k))
     /\ alloc' = IF Len(device) + 1 >= alloc THEN alloc + Room ELSE alloc
     /\ block' = alloc'
     /\ UNCHANGED <<msi, hba, ports>>

\* The block is cut to the devices found; the first AHCI controller, if any,
\* is started, and then the MSI cache is not made.
findAHCI ==
  LET found == \E d \in DOMAIN device : device[d].class = "ahci"
  IN  /\ Pci("find", IF found THEN "ahci" ELSE "done", 0)
      /\ block' = Len(device)
      /\ UNCHANGED <<device, alloc, msi, hba, ports>>

-----------------------------------------------------------------------------
(* AHCI *)

Ahci(from, to, n, h) ==
  Pci(from, to, n) /\ hba' = h /\ UNCHANGED <<device, alloc, block>>

\* initAHCI() up to the hand-over from the BIOS.
initAHCI ==
  /\ Ahci("ahci", IF ~m.bar THEN "done" ELSE IF m.boh THEN "bios" ELSE "hr", k, [hba EXCEPT !.ae = m.bar])
  /\ UNCHANGED <<msi, ports>>

\* The waits: each round sleeps and looks at the register.  A sleep puts its
\* event in the queue; the kernel is back when that is done.
waitBios ==
  /\ \/ hba.busy /\ Ahci("bios", "bios", k, hba) /\ sysSleepns(BiosNs)
     \/ ~hba.busy /\ Ahci("bios", "hr", k, hba) /\ UNCHANGED <<ivars, tvars>>
  /\ UNCHANGED <<msi, ports>>

\* The reset, which the controller answers with all registers cleared.
resetHBA ==
  /\ Ahci("hr", "reset", k, Hba(FALSE, TRUE, FALSE)) /\ UNCHANGED <<msi, ports>>

waitReset ==
  /\ \/ Ahci("reset", "check", k, hba) /\ sysSleepns(ResetNs)
     \/ hba.reset /\ Ahci("check", "reset", k, hba) /\ UNCHANGED <<ivars, tvars>>
     \/ ~hba.reset /\ Ahci("check", "msi", k, [hba EXCEPT !.ae = TRUE]) /\ UNCHANGED <<ivars, tvars>>
  /\ UNCHANGED <<msi, ports>>

\* The controller finishes what it was asked for.
Hardware ==
  /\ hba' = [hba EXCEPT !.busy = FALSE, !.reset = FALSE] /\ hba' # hba
  /\ pc \in {"bios", "reset", "check"}
  /\ UNCHANGED <<m, pc, k, tableVars, device, alloc, block, msi, ports>>

\* MSI-X where the list of capabilities has it.
capability == IF "msix" \in m.caps THEN "msix" ELSE IF "msi" \in m.caps THEN "msi" ELSE NONE

\* Without either initAHCI() allocates a vector.
interruptBy == IF capability = NONE THEN "vector" ELSE capability

\* initMSIX(): for MSI a buffer is taken from msiCache, which is NULL here; an
\* MSI-X table that is not aligned fails an assertion.
initMSIX ==
  /\ Ahci("msi", IF capability = "msi" THEN "fault"
                 ELSE IF capability = "msix" /\ ~m.qword THEN "panic" ELSE "ports", 0, hba)
  /\ msi' = interruptBy /\ UNCHANGED ports

\* The port is implemented, and its status shows a device.
HasDrive(p) == p \in m.pi /\ p \in m.det

\* Mutant: one port too few.
initPortLess ==
  \/ k = Ports - 1 /\ Ahci("ports", "done", k, hba) /\ UNCHANGED <<msi, ports>>
  \/ /\ k < Ports - 1
     /\ Ahci("ports", "ports", k + 1, hba)
     /\ ports' = IF HasDrive(k) THEN ports \cup {k} ELSE ports
     /\ UNCHANGED msi

\* Mutant: the loop's continue passes over its increment.
initPortStuck ==
  \/ k = Ports /\ Ahci("ports", "done", k, hba) /\ UNCHANGED <<msi, ports>>
  \/ /\ k < Ports
     /\ Ahci("ports", "ports", IF HasDrive(k) THEN k + 1 ELSE k, hba)
     /\ ports' = IF HasDrive(k) THEN ports \cup {k} ELSE ports
     /\ UNCHANGED msi

\* A round of the loop over the ports: initPort() where there is a drive.
initPort ==
  \/ k = Ports /\ Ahci("ports", "done", k, hba) /\ UNCHANGED <<msi, ports>>
  \/ /\ k < Ports
     /\ Ahci("ports", "ports", k + 1, hba)
     /\ ports' = IF HasDrive(k) THEN ports \cup {k} ELSE ports
     /\ UNCHANGED msi

-----------------------------------------------------------------------------

\* The functions that do not sleep.
Quiet ==
  \/ initACPI \/ indentifyTable \/ hung \/ initAPIC \/ countFrom \/ countLapic \/ initLapic
  \/ initPCI \/ scanBus \/ findAHCI \/ initAHCI \/ resetHBA \/ initMSIX \/ initPort

\* kmain() has made the tasks, and no sleep is being queued.
Kernel ==
  /\ boot = "done" /\ Running /\ sleep.pc = "no"
  /\ (Quiet /\ UNCHANGED <<ivars, tvars>>) \/ waitBios \/ waitReset

\* The boot before, and the sleeps.
Tasking == (createFakeTask \/ initTasking \/ addTimerEvent) /\ UNCHANGED pvars

PNext ==
  \/ Kernel \/ Tasking
  \/ (Hardware \/ \E v \in {16, 254} : allocateIOAPICInterrupt(v)) /\ UNCHANGED <<ivars, tvars>>

PSpec ==
  /\ IInit /\ TInit /\ PInit /\ [][PNext]_<<ivars, tvars, pvars>>
  /\ WF_<<ivars, tvars, pvars>>(Kernel) /\ WF_<<ivars, tvars, pvars>>(Tasking)

-----------------------------------------------------------------------------
(* Properties *)

\* findNextICS() returns the next entry of the type whenever the table has
\* one, although it adds the length of the wrong entry to what it has read
\* (apic.c:22-39).
FindsNext ==
  \A t \in {"lapic", "ioapic", "iso"}, c \in DOMAIN m.madt :
    LET later == {x \in c + 1 .. Len(m.madt) : m.madt[x].type = t}
    IN  later # {} => findNextICS(t, c) = Min(later)

\* The controller's table and the map of its entries agree, and the interval
\* timer keeps its entry whatever drivers allocate and however many other
\* controllers there are (ioapic.c:38-112).
RouteOwned ==
  ioapic # <<>> =>
    /\ ioapic[1].intmap = {e \in 0 .. Entries - 1 : ioapic[1].redtbl[e] # NONE}
    /\ ioapic[1].redtbl[PitMap] = 32

\* Every device that the scan finds has room in the list's block, and
\* krealloc() is never asked for the size that the block has (pci.c:68-100).
DevicesFit == pc \in {"scan", "find"} => Len(device) < block

\* Only ports whose status shows a drive get a command list, all of them do,
\* and none before the controller has left its reset in AHCI mode
\* (ahci.c:84-123).
PortsReady ==
  /\ ports # {} => hba.ae /\ ~hba.reset /\ ~hba.busy
  /\ pc = "done" /\ msi # NONE => ports = m.pi \cap m.det
=============================================================================
