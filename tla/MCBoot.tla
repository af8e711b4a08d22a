------------------------------- MODULE MCBoot -------------------------------
(* Client "tables" calls mapPage() for the loader and then for the kernel;  *)
(* client "loader" boots one of the machines.                               *)
EXTENDS Paging, Loader

VARIABLE client

MCVirt == {<<0, 0, 0, 0>>, <<0, 0, 0, 1>>, <<0, 1, 0, 0>>}

\* Memory that is clear, memory full of entries that lead round in circles
\* and back to the first table, and one frame that holds such entries.
To(t) == [base |-> t, p |-> FALSE, w |-> TRUE]
MCImages ==
  {[t \in Memory |-> Zeros], [t \in Memory |-> [x \in Index |-> To(IF t > 6 THEN Root ELSE t + 1)]],
   [t \in Memory |-> [x \in Index |-> IF t = 5 /\ x = 0 THEN To(10) ELSE Empty]]}

D(t, p, k) == [type |-> t, phys |-> PAGE_SZ * p, bytes |-> PAGE_SZ * k]
S(p, sz, w, x) == [page |-> p, memsz |-> sz, w |-> w, x |-> x]

\* Memory maps in which hardly any two neighbours are of one type.
Apart == {<<D("conventional", 0, 2), D("reserved", 2, 1), D("data", 3, 30), D("mmio", 40, 2)>>,
          <<D("code", 0, 2), D("acpi", 2, 1), D("boot", 3, 2), D("conventional", 5, 2), D("mmio", 8, 2)>>}

\* What firmware really reports: free memory of several types, side by side.
Adjacent == {<<D("conventional", 0, 2), D("boot", 2, 3), D("acpi", 5, 1), D("reserved", 6, 4)>>,
             <<D("conventional", 4, 3), D("acpi", 0, 2), D("data", 7, 3)>>}

\* Kernels whose segments end on, before and behind a page's end.
Segs == {<<S(100, 2, FALSE, TRUE), S(101, 3, FALSE, FALSE), S(103, 4, TRUE, FALSE)>>,
         <<S(100, 4, FALSE, TRUE), S(102, 1, TRUE, FALSE)>>, <<S(100, 5, TRUE, TRUE)>>}

Fw(ds) == {[desc |-> d, seg |-> s, magic |-> g, pool |-> 3 * PAGE_SZ, stack |-> 1, filesz |-> 1] :
             d \in ds, s \in Segs, g \in {"elf", "F", "bad"}}
AllFirmware == Fw(Apart \cup Adjacent)
AdjacentFirmware == Fw(Adjacent)

MCInit ==
  /\ client \in {"tables", "loader"} /\ PgInit /\ LInit
  /\ client = "tables" => fw = CHOOSE x \in Firmware : TRUE
  /\ client = "loader" => mem = [t \in Memory |-> Zeros]

MCNext ==
  /\ \/ client = "tables" /\ PgNext /\ UNCHANGED lvars
     \/ client = "loader" /\ LNext /\ UNCHANGED pgvars
  /\ UNCHANGED client

MCSpec == MCInit /\ [][MCNext]_<<client, pgvars, lvars>>
=============================================================================
