------------------------------- MODULE Paging -------------------------------
(***************************************************************************)
(* The page tables: the loader builds them (Bootloader mem.c), the kernel  *)
(* goes on with the same ones (paging.c).  An address is its four indices. *)
(* A call of mapPage() goes down one table per step, and writes its flags  *)
(* and the page's entry in the last one.  The loader clears a frame that   *)
(* becomes a table, the kernel does not: its tables start out with         *)
(* whatever the frame held.                                                *)
(***************************************************************************)
EXTENDS Integers, Sequences, FiniteSets

CONSTANTS
  Index,      \* indices into a table, 0 .. 511
  Virt,       \* the addresses in use, of four indices each
  Phys,       \* frame numbers that are mapped
  Tables,     \* frames for page tables; 0 is none
  Root,       \* the frame in CR3
  Caching,    \* memory types of mapPage(): "none", "wc", "uc", "wt", "wb"
  Images,     \* what the memory may hold before it is used
  MaxMaps     \* calls of mapPage()

\* PG_PAT is bit 12, the lowest bit of the frame number in an entry.
SetsPat(c) == c \in {"uc", "wt", "wb"}
EntryFrame(f, c) == IF SetsPat(c) /\ f % 2 = 0 THEN f + 1 ELSE f

Frames == {EntryFrame(f, c) : f \in Phys, c \in Caching}
Memory == Tables \cup Frames
PageEntry == [base : Memory \cup {0}, p : BOOLEAN, w : BOOLEAN]

ASSUME PagingAssumption ==
  /\ Virt \subseteq [1 .. 4 -> Index] /\ Root \in Tables
  /\ 0 \notin Tables /\ Phys \subseteq Nat \ {0}
  /\ Images \subseteq [Memory -> [Index -> PageEntry]]

VARIABLES
  mem,     \* the memory, as tables: [base, p, w] in every entry
  free,    \* tables not yet used
  clean,   \* history: every table held zeros when it was made
  owner,   \* "loader", then "kernel"
  call,    \* the running mapPage()
  maps,    \* calls so far
  reply    \* what the last call lets its caller expect, as in module Dict

pgvars == <<mem, free, clean, owner, call, maps, reply>>

Empty == [base |-> 0, p |-> FALSE, w |-> FALSE]
Zeros == [x \in Index |-> Empty]
Idle == [v |-> <<>>, at |-> <<>>]
Reply(v, found, d) == [key |-> v, found |-> found, data |-> d]

\* initMem() makes the first table, with pgAlloc().
PgInit ==
  /\ \E image \in Images : mem = [image EXCEPT ![Root] = Zeros]
  /\ free = Tables \ {Root} /\ clean = TRUE
  /\ owner = "loader" /\ call = Idle /\ maps = 0
  /\ reply = Reply(<<>>, FALSE, 0)

\* Mutant: the index of the level above.
EntryOfAbove(v, level) == IF level = 1 THEN v[1] ELSE v[level - 1]

\* PML_ENTRY(), PDPE_ENTRY(), PDE_ENTRY() and PTE_ENTRY().
EntryOf(v, level) == v[level]

\* The entry that virtToPhysInt() and getPageInfo() end at: the way down is
\* cut off where an entry has no table.
Walk(v) ==
  LET t1 == mem[Root][EntryOf(v, 1)].base
      t2 == IF t1 = 0 THEN 0 ELSE mem[t1][EntryOf(v, 2)].base
      t3 == IF t2 = 0 THEN 0 ELSE mem[t2][EntryOf(v, 3)].base
  IN  [tables |-> <<Root, t1, t2, t3>>, pte |-> IF t3 = 0 THEN Empty ELSE mem[t3][EntryOf(v, 4)]]

\* Whether the processor lets the page be written: every level must.
CanWrite(v) ==
  LET ts == Walk(v).tables
  IN  \A l \in 1 .. 4 : ts[l] # 0 /\ mem[ts[l]][EntryOf(v, l)].w

-----------------------------------------------------------------------------

Pte(phys, w, c) == [base |-> EntryFrame(phys, c), p |-> TRUE, w |-> w]

\* mapPage() begins.  The loader always makes tables and knows no types.
mapPage(v, phys, w, make, c) ==
  /\ call = Idle /\ maps < MaxMaps /\ maps' = maps + 1
  /\ owner = "loader" => make /\ c = "none"
  /\ call' = [v |-> v, at |-> <<Root>>, phys |-> phys, w |-> w, make |-> make, c |-> c]
  /\ UNCHANGED <<mem, free, clean, owner, reply>>

Level == Len(call.at)
Here == mem[call.at[Level]][EntryOf(call.v, Level)]

\* Down to a table that is there.
Descend ==
  /\ call # Idle /\ Level < 4 /\ Here.base # 0
  /\ call' = [call EXCEPT !.at = Append(@, Here.base)]
  /\ UNCHANGED <<mem, free, clean, owner, maps, reply>>

\* What a frame holds when it becomes a table: pgAlloc() clears it,
\* newPagetable() does not.
NewTable(t) == IF owner = "loader" THEN Zeros ELSE mem[t]

\* The entry gets a new table; which of the free ones makes no difference.
MakeTable ==
  /\ call # Idle /\ Level < 4 /\ Here.base = 0 /\ call.make
  /\ \E t \in free :
       /\ \A u \in free : t <= u
       /\ free' = free \ {t}
       /\ clean' = (clean /\ NewTable(t) = Zeros)
       /\ mem' = [[mem EXCEPT ![t] = NewTable(t)]
                    EXCEPT ![call.at[Level]][EntryOf(call.v, Level)].base = t]
  /\ UNCHANGED <<owner, call, maps, reply>>

\* Without PAGE_FLAG_MAKE the call returns false.
GiveUp ==
  /\ call # Idle /\ Level < 4 /\ Here.base = 0 /\ ~call.make
  /\ call' = Idle /\ UNCHANGED <<mem, free, clean, owner, maps, reply>>

\* Mutant: the entry is added to what the table held, as on the way down.
WriteEntryOr ==
  /\ call # Idle /\ Level = 4
  /\ LET up == {<<call.at[l], EntryOf(call.v, l)>> : l \in 1 .. 3}
     IN  mem' = [t \in Memory |-> [x \in Index |->
                  IF t = call.at[4] /\ x = EntryOf(call.v, 4) THEN IF mem[t][x].base = 0 THEN Pte(call.phys, call.w, call.c) ELSE [mem[t][x] EXCEPT !.p = TRUE]
                  ELSE IF <<t, x>> \in up THEN [mem[t][x] EXCEPT !.p = TRUE, !.w = @ \/ call.w]
                  ELSE mem[t][x]]]
  /\ reply' = Reply(call.v, TRUE, [phys |-> EntryFrame(call.phys, call.c), w |-> call.w])
  /\ call' = Idle /\ UNCHANGED <<free, clean, owner, maps>>

\* The flags on the way down, then the entry.
WriteEntry ==
  /\ call # Idle /\ Level = 4
  /\ LET up == {<<call.at[l], EntryOf(call.v, l)>> : l \in 1 .. 3}
     IN  mem' = [t \in Memory |-> [x \in Index |->
                  IF t = call.at[4] /\ x = EntryOf(call.v, 4) THEN Pte(call.phys, call.w, call.c)
                  ELSE IF <<t, x>> \in up THEN [mem[t][x] EXCEPT !.p = TRUE, !.w = @ \/ call.w]
                  ELSE mem[t][x]]]
  /\ reply' = Reply(call.v, TRUE, [phys |-> EntryFrame(call.phys, call.c), w |-> call.w])
  /\ call' = Idle /\ UNCHANGED <<free, clean, owner, maps>>

\* virtToPhysInt(), and getPageInfo() for the page fault handler.
virtToPhysInt(v) ==
  /\ owner = "kernel" /\ call = Idle
  /\ LET e == Walk(v).pte
     IN  reply' = Reply(v, e.base # 0, [phys |-> e.base, w |-> e.w])
  /\ UNCHANGED <<mem, free, clean, owner, call, maps>>

\* The loader writes CR3, and initPaging() takes it over.
initPaging ==
  /\ owner = "loader" /\ call = Idle /\ owner' = "kernel"
  /\ UNCHANGED <<mem, free, clean, call, maps, reply>>

PgNext ==
  \/ \E v \in Virt, f \in Phys, w \in BOOLEAN, make \in BOOLEAN, c \in Caching : mapPage(v, f, w, make, c)
  \/ Descend \/ MakeTable \/ GiveUp \/ WriteEntry \/ initPaging
  \/ \E v \in Virt : virtToPhysInt(v)

PgSpec == PgInit /\ [][PgNext]_pgvars

-----------------------------------------------------------------------------
(* Properties *)

\* The pages that are mapped, with the right to write that all levels leave.
Mapped == {v \in Virt : Walk(v).pte.base # 0}
PageMap == [v \in Mapped |-> [phys |-> Walk(v).pte.base, w |-> CanWrite(v)]]

P == INSTANCE Dict WITH
       Key <- Virt, Data <- [phys : Frames, w : BOOLEAN], map <- PageMap, ans <- reply

\* As long as every table held zeros when it was made, the tables are a map
\* from addresses to frames and rights: mapPage() gives its address the frame
\* it was asked for, with its lowest bit set where the type has the PAT bit,
\* and the right, and changes no other address, although it reuses tables and
\* adds rights to their entries (paging.c:84-119, mem.c:80-104);
\* virtToPhysInt() answers from it.
IsPageMap ==
  P!DInit /\ [][clean' => P!DNext \/ UNCHANGED <<PageMap, reply>>]_pgvars

\* Whatever its new tables held, a page that has just been mapped leads to
\* its frame, unless the way to it passes one table twice (paging.c:66-119).
Once(v) == \A j, k \in 1 .. 4 : j # k => Walk(v).tables[j] # Walk(v).tables[k]
PageLeads ==
  [][\A v \in Virt : call # Idle /\ call.v = v /\ Level = 4 /\ call' = Idle /\ Once(v) =>
       (Walk(v).pte)' = Pte(call.phys, call.w, call.c)]_pgvars
=============================================================================
