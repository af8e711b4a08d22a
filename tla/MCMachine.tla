----------------------------- MODULE MCMachine ------------------------------
(* Client "cpu" changes the handler table and takes interrupts; "task" boots *)
(* the tasks and sleeps; "devices" boots the tasks, finds the machine's      *)
(* devices and sleeps while it waits for the AHCI controller.                *)
(* Machines: the tables of a usual one, then one that differs in its MADT,   *)
(* in its PCI bus, or in its controller.  Lengths are in bytes.              *)
EXTENDS Platform

VARIABLE client

E(t, l, extra) == [x \in {"type", "len", "pit", "gsi", "aligned", "enabled", "online"} |->
                    CASE x = "type" -> t [] x = "len" -> l [] x = "gsi" -> 2
                      [] x \in extra -> TRUE [] OTHER -> FALSE]
Lapic == E("lapic", 8, {"enabled"})
Spare == E("lapic", 8, {"online"})
IoApic == E("ioapic", 12, {"aligned"})
Crooked == E("ioapic", 12, {})
PitIso == E("iso", 10, {"pit"})
Iso == E("iso", 10, {})
NextTable == E("other", 80, {})
Zeros == E("lapic", 0, {})

Usual ==
  [rsdp |-> TRUE, tables |-> <<"FACP", "APIC", "HPET">>, x2apic |-> FALSE,
   madt |-> <<Lapic, IoApic, PitIso, Iso, Spare>>, after |-> <<NextTable>>,
   slot |-> [d \in {0, 2, 5} |-> IF d = 2 THEN "ahci" ELSE "other"],
   bar |-> TRUE, boh |-> TRUE, caps |-> {"msix"}, qword |-> TRUE, pi |-> {0, 1, 3}, det |-> {1, 2, 3}]

Madts == {<<Lapic, Spare, IoApic, IoApic, PitIso>>, <<PitIso, IoApic, Lapic, Spare, Spare>>,
          <<Lapic, Iso>>, <<Crooked, Iso, IoApic>>, <<IoApic, IoApic>>, <<IoApic, PitIso, Spare>>}

MCMachines ==
  {[Usual EXCEPT !.madt = x, !.after = y, !.x2apic = b] :
     x \in Madts, y \in {<<NextTable>>, <<Zeros>>}, b \in BOOLEAN}
  \cup {[Usual EXCEPT !.slot = [d \in s |-> IF d = j THEN "ahci" ELSE "other"]] :
     s \in SUBSET (0 .. Slots - 1), j \in {1, 3}}
  \cup {[Usual EXCEPT !.bar = a, !.boh = b, !.caps = c, !.qword = q, !.pi = p] :
     a, b, q \in BOOLEAN, c \in SUBSET {"msi", "msix"}, p \in SUBSET (0 .. Ports - 1)}
  \cup {[Usual EXCEPT !.rsdp = FALSE]}

vars == <<client, ivars, tvars, pvars>>

MCInit ==
  /\ client \in {"cpu", "task", "devices"}
  /\ IInit /\ TInit /\ PInit
  /\ client # "devices" => m = Usual

MCNext ==
  /\ \/ client = "cpu" /\ INext /\ UNCHANGED <<tvars, pvars>>
     \/ client = "task" /\ TNext /\ UNCHANGED pvars
     \/ client = "devices" /\ PNext
  /\ UNCHANGED client

Devices(A) == client = "devices" /\ A /\ UNCHANGED client

\* The kernel's code goes on; nothing is asked of the controller.
MCSpec == MCInit /\ [][MCNext]_vars /\ WF_vars(Devices(Kernel)) /\ WF_vars(Devices(Tasking))

Cpu(A) == client = "cpu" /\ A /\ UNCHANGED <<client, tvars, pvars>>

\* For WaitEnds: the running handler and the interval timer go on, too.
MCFairSpec ==
  /\ MCSpec
  /\ WF_vars(Cpu(isr \/ irq \/ pitOneShot \/ pitCalibrate))
  /\ WF_vars(Cpu(interrupt(32)))

\* When no entry of length zero lies behind the MADT, the search for devices
\* comes to an end or to the fault or assertion that stops it, whatever the
\* controller does: the waits for it end with its answer, or stop the kernel
\* in the event queue, at the read outside of it that the first sleeps make
\* or with a sleep more than it has slots (acpi.c:27-71, ahci.c:78-95,
\* timer.c:69-76).
BootEnds ==
  (client = "devices" /\ \A x \in DOMAIN m.after : m.after[x].len # 0)
    ~> \/ pc \in {"done", "fault", "panic"}
       \/ cpu # "run" /\ pc \in {"bios", "check"} /\ (next < 2 \/ next = QSize)
=============================================================================
