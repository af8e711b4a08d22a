---------------------------- MODULE MachineProofs ----------------------------
(***************************************************************************)
(* Proofs about interrupts, tasks, timer events and the search for         *)
(* devices: for every set of vectors and drivers, every length of the      *)
(* event queue, and every machine.                                         *)
(***************************************************************************)
EXTENDS Platform, FiniteSetTheorems, SequenceTheorems,
        WellFoundedInduction, TLAPS

-----------------------------------------------------------------------------
(* Interrupts *)

\* What a handler for v has on the stack: the processor's frame, the stub's
\* words and the saved registers.
Words(v) == 20 + BelowRegs(v)

Handled == Vector \cup {13}

\* While the processor runs, the stack holds what the running handlers have
\* there; an exception in a handler is the deepest there is.
StackInv ==
  /\ \/ frames = <<>> /\ (cpu = "run" => rsp = 0)
     \/ \E v \in Handled : frames = <<v>> /\ (cpu = "run" => rsp = Words(v))
     \/ \E v, w \in Handled : frames = <<v, w>> /\ (cpu = "run" => rsp = Words(v) + Words(w))
  /\ cpu = "lost" => \E v \in Vector : v < 32 /\ handlers[v] # NULL

LEMMA WordsType == ASSUME NEW v \in Handled PROVE BelowRegs(v) \in 0 .. 2 /\ v \in Int
BY VectorAssumption DEF Handled, BelowRegs

\* Two one-element sequences make a pair.
LEMMA PairSeq == ASSUME NEW v, NEW w PROVE <<v>> \o <<w>> = <<v, w>>
<1> DEFINE S == {v, w}  a == <<v>> \o <<w>>  b == <<v, w>>
<1>1. a \in Seq(S) /\ b \in Seq(S) OBVIOUS
<1>2. Len(a) = 2 /\ Len(b) = 2 OBVIOUS
<1>3. \A i \in 1 .. 2 : a[i] = b[i] OBVIOUS
<1> HIDE DEF S, a, b
<1>4. a = b BY <1>1, <1>2, <1>3, SeqEqual
<1> QED BY <1>4 DEF a, b

\* An interrupt or exception pushes as much as its handler will have to pop.
LEMMA EnterKeeps ==
  ASSUME StackInv, cpu = "run", UNCHANGED <<cpu, handlers>>, NEW v \in Handled, Enter(v),
         \/ frames = <<>>
         \/ \E w \in Handled : frames = <<w>> /\ rsp = Words(w)
  PROVE  StackInv'
<1>1. cpu' = "run" /\ frames' = <<v>> \o frames /\ rsp' = rsp + 5 + BelowRegs(v) + 15
  BY DEF Enter
<1>2. BelowRegs(v) \in 0 .. 2 BY WordsType
<1>3. CASE frames = <<>>
  <2>1. rsp = 0 BY <1>3 DEF StackInv
  <2>2. frames' = <<v>> BY <1>1, <1>3
  <2>3. rsp' = Words(v) BY <1>1, <1>2, <2>1 DEF Words
  <2> QED BY <1>1, <2>2, <2>3 DEF StackInv
<1>4. CASE \E w \in Handled : frames = <<w>> /\ rsp = Words(w)
  <2>1. PICK w \in Handled : frames = <<w>> /\ rsp = Words(w) BY <1>4
  <2>2. frames' = <<v, w>> BY <1>1, <2>1, PairSeq
  <2>3. BelowRegs(w) \in 0 .. 2 BY WordsType
  <2>4. rsp' = Words(v) + Words(w) BY <1>1, <1>2, <2>1, <2>3 DEF Words
  <2> QED BY <1>1, <2>2, <2>4 DEF StackInv
<1> QED BY <1>3, <1>4

\* A handler that returns and keeps the processor running has popped what
\* its entry pushed.
LEMMA ReturnKeeps ==
  ASSUME StackInv, cpu = "run", UNCHANGED handlers, frames # <<>>,
         frames' = Tail(frames), rsp' = rsp - 15 - 5,
         cpu' = IF BelowRegs(Head(frames)) # 0 THEN "lost" ELSE "run",
         BelowRegs(Head(frames)) # 0 =>
           \E v \in Vector : v < 32 /\ handlers[v] # NULL
  PROVE  StackInv'
<1>1. CASE \E v \in Handled : frames = <<v>> /\ rsp = Words(v)
  <2>1. PICK v \in Handled : frames = <<v>> /\ rsp = Words(v) BY <1>1
  <2>2. Head(frames) = v /\ frames' = <<>> BY <2>1
  <2>3. BelowRegs(v) \in 0 .. 2 BY WordsType
  <2>4. cpu' = "run" => rsp' = 0 BY <2>1, <2>2, <2>3 DEF Words
  <2> QED BY <2>2, <2>4 DEF StackInv
<1>2. CASE \E v, w \in Handled : frames = <<v, w>> /\ rsp = Words(v) + Words(w)
  <2>1. PICK v \in Handled, w \in Handled : frames = <<v, w>> /\ rsp = Words(v) + Words(w)
    BY <1>2
  <2>2. Head(frames) = v /\ frames' = <<w>> BY <2>1
  <2>3. BelowRegs(v) \in 0 .. 2 /\ BelowRegs(w) \in 0 .. 2 BY WordsType
  <2>4. cpu' = "run" => rsp' = Words(w) BY <2>1, <2>2, <2>3 DEF Words
  <2> QED BY <2>2, <2>4 DEF StackInv
<1> QED BY <1>1, <1>2 DEF StackInv

\* Every step of the processor keeps the stack in order.
LEMMA InterruptsKeep == ASSUME StackInv, INext PROVE StackInv'
<1>1. CASE \E v \in Vector : exception(v)
  <2>1. PICK v \in Vector : exception(v) BY <1>1
  <2>2. Len(frames) < 2 => frames = <<>> \/ \E w \in Handled : frames = <<w>> /\ rsp = Words(w)
    BY <2>1 DEF StackInv, exception
  <2> QED BY <2>1, <2>2, EnterKeeps DEF exception, Handled
<1>2. CASE \E v \in Vector : interrupt(v)
  <2>1. PICK v \in Vector : interrupt(v) BY <1>2
  <2>2. Gate(v) \in Handled BY DEF Gate, Handled
  <2> QED BY <2>1, <2>2, EnterKeeps DEF interrupt
<1>3. CASE isr
  <2>1. CASE cpu' = "halt" /\ UNCHANGED <<frames, rsp>>
    BY <2>1 DEF StackInv
  <2>2. CASE ~ (cpu' = "halt" /\ UNCHANGED <<frames, rsp>>)
    <3>1. /\ cpu = "run" /\ frames # <<>> /\ Head(frames) < 32 /\ UNCHANGED handlers
          /\ Head(frames) \notin BuiltIn /\ handlers[Head(frames)] # NULL
          /\ frames' = Tail(frames) /\ rsp' = rsp - 15 - 5
          /\ cpu' = IF BelowRegs(Head(frames)) # 0 THEN "lost" ELSE "run"
      BY <1>3, <2>2 DEF isr
    <3>2. Head(frames) \in Handled BY <3>1 DEF StackInv
    <3>3. Head(frames) \in Vector BY <3>1, <3>2 DEF Handled, BuiltIn
    <3> QED BY <3>1, <3>3, ReturnKeeps
  <2> QED BY <2>1, <2>2
<1>4. CASE irq
  <2>1. /\ cpu = "run" /\ frames # <<>> /\ Head(frames) >= 32 /\ UNCHANGED handlers
        /\ frames' = Tail(frames) /\ rsp' = rsp - 15 - 5
        /\ cpu' = IF BelowRegs(Head(frames)) # 0 THEN "lost" ELSE "run"
    BY <1>4 DEF irq
  <2>2. BelowRegs(Head(frames)) = 0 BY <2>1 DEF BelowRegs
  <2> QED BY <2>1, <2>2, ReturnKeeps
<1>5. CASE \/ \E v \in Vector : removeInterruptHandler(v)
           \/ \E v \in Vector, h \in Drivers : addInterruptHandler(v, h)
           \/ \E h \in Drivers : allocateInterrupt(h)
  <2>1. cpu = "run" /\ UNCHANGED <<cpu, frames, rsp>>
    BY <1>5 DEF removeInterruptHandler, addInterruptHandler, allocateInterrupt, Table, Running
  <2> QED BY <2>1 DEF StackInv
<1>6. CASE pitOneShot \/ pitCalibrate
  BY <1>6 DEF pitOneShot, pitCalibrate, Pit, StackInv
<1> QED BY <1>1, <1>2, <1>3, <1>4, <1>5, <1>6 DEF INext

\* A stopped processor takes no step.
LEMMA RunsFirst == ASSUME INext PROVE cpu = "run"
BY DEF INext, exception, interrupt, removeInterruptHandler, addInterruptHandler,
   allocateInterrupt, Table, Running, isr, irq, pitOneShot, pitCalibrate, Pit

-----------------------------------------------------------------------------
(* Tasks and timer events *)

\* Between its steps the boot keeps the markers with the ticket that is
\* current whenever it allocates.
MarkersInv ==
  /\ boot \in {"fake", "cache", "array", "current", "ticket", "kt", "done"}
  /\ vmem \in [Ticket -> {NULL, "markers"}]
  /\ boot # "fake" => vmem["ftask"] = "markers"
  /\ boot \in {"cache", "array", "ticket", "kt"} => current = "ftask"
  /\ boot \in {"kt", "done"} => vmem["kt"] = "markers"
  /\ boot = "done" => current = "kt"

\* The slots below next are taken, next's own is free unless an event has
\* just been written to it, and the event that moves up is in a taken slot.
Event == [ns : Nat, call : Caller \cup {NULL}, id : Caller \cup {NULL}]
Sleeping == [pc : {"no", "add", "sift"}, ns : Nat, who : Caller, v : Int, p : Int]

QueueInv ==
  /\ next \in 0 .. QSize /\ queue \in [Slot -> Event] /\ sleep \in Sleeping
  /\ sleep.pc = "add" => sleep.ns \in Times
  /\ \A i \in Slot : i < next => queue[i].ns # 0
  /\ sleep.pc # "sift" /\ next \in Slot => queue[next].ns = 0
  /\ sleep.pc = "sift" => /\ next \in Slot /\ queue[next].ns # 0
                          /\ sleep.v \in Slot /\ queue[sleep.v].ns # 0

\* As long as the processor runs.
EventInv == EventsKept /\ (cpu = "run" => QueueInv)

TaskInv == StackInv /\ MarkersInv /\ EventInv

LEMMA SlotFinite == ASSUME NEW S \in SUBSET Slot PROVE IsFiniteSet(S) /\ Cardinality(S) \in Nat
<1>1. 0 \in Int /\ QSize - 1 \in Int BY QueueAssumption
<1>2. IsFiniteSet(Slot) BY <1>1, FS_Interval DEF Slot
<1>3. IsFiniteSet(S) BY <1>2, FS_Subset
<1> QED BY <1>3, FS_CardinalityType

\* Of two sets of slots that differ in one exchange, neither has more.
LEMMA SwapCount ==
  ASSUME NEW S \in SUBSET Slot, NEW T \in SUBSET Slot, NEW v \in Slot, NEW p \in Slot,
         v \in T <=> p \in S, p \in T <=> v \in S,
         \A i \in Slot \ {v, p} : i \in T <=> i \in S
  PROVE  Cardinality(T) = Cardinality(S)
<1>1. CASE v \in S <=> p \in S
  <2>1. T = S BY <1>1
  <2> QED BY <2>1
<1>2. CASE v \in S /\ p \notin S
  <2>1. T = (S \ {v}) \cup {p} /\ p \notin S \ {v} BY <1>2
  <2>2. IsFiniteSet(S \ {v}) /\ Cardinality(S \ {v}) = Cardinality(S) - 1
    BY <1>2, SlotFinite, FS_RemoveElement
  <2>3. Cardinality((S \ {v}) \cup {p}) = Cardinality(S \ {v}) + 1 BY <2>1, <2>2, FS_AddElement
  <2> QED BY <2>1, <2>2, <2>3, SlotFinite
<1>3. CASE v \notin S /\ p \in S
  <2>1. T = (S \ {p}) \cup {v} /\ v \notin S \ {p} BY <1>3
  <2>2. IsFiniteSet(S \ {p}) /\ Cardinality(S \ {p}) = Cardinality(S) - 1
    BY <1>3, SlotFinite, FS_RemoveElement
  <2>3. Cardinality((S \ {p}) \cup {v}) = Cardinality(S \ {p}) + 1 BY <2>1, <2>2, FS_AddElement
  <2> QED BY <2>1, <2>2, <2>3, SlotFinite
<1> QED BY <1>1, <1>2, <1>3

\* A slot more.
LEMMA AddCount ==
  ASSUME NEW S \in SUBSET Slot, NEW v \in Slot, v \notin S
  PROVE  Cardinality(S \cup {v}) = Cardinality(S) + 1
BY SlotFinite, FS_AddElement

\* The call adds one to how often its event was asked for.
LEMMA AskedCount ==
  ASSUME NEW e, slept' = slept (+) SetToBag({e}), NEW t, NEW c, Asked(t, c) \in Nat
  PROVE  /\ Asked(t, c)' = Asked(t, c) + (IF <<t, c>> = e THEN 1 ELSE 0)
         /\ slept' # EmptyBag
<1> DEFINE x == <<t, c>>
<1>0. Asked(t, c) = (IF x \in DOMAIN slept THEN slept[x] ELSE 0)
      /\ Asked(t, c)' = (IF x \in DOMAIN slept' THEN slept'[x] ELSE 0)
  BY DEF Asked, BagIn, BagToSet
<1> HIDE DEF x
<1>1. DOMAIN slept' = DOMAIN slept \cup {e} BY DEF (+), SetToBag
<1>2. slept' # EmptyBag
  <2>1. DOMAIN EmptyBag = {} BY DEF EmptyBag, SetToBag
  <2> QED BY <1>1, <2>1
<1>3. CASE x \in DOMAIN slept
  <2>1. slept'[x] = slept[x] + (IF x = e THEN 1 ELSE 0)
    BY <1>3 DEF (+), SetToBag
  <2> QED BY <1>0, <1>1, <1>2, <1>3, <2>1 DEF x
<1>4. CASE x \notin DOMAIN slept
  <2>1. x = e => slept'[x] = 1 BY <1>4 DEF (+), SetToBag
  <2> QED BY <1>0, <1>1, <1>2, <1>4, <2>1 DEF x
<1> QED BY <1>3, <1>4

\* No step of a task touches the stack, and one that ends the processor's
\* run does not lose its way.
LEMMA TasksKeepStack == ASSUME StackInv, TNext PROVE StackInv'
<1>1. /\ cpu = "run" /\ UNCHANGED <<frames, rsp, handlers>>
      /\ cpu' \in {"run", "fault", "stuck", "astray"}
  <2>1. CASE createFakeTask \/ initTasking
    BY <2>1 DEF createFakeTask, initTasking, createTicket, Boot, Running, ivars
  <2>2. CASE AddWrite
    BY <2>2 DEF AddWrite, Sleep, Running
  <2>3. CASE Sift \/ SiftWild \/ AddPlace
    BY <2>3 DEF Sift, SiftWild, AddPlace, Sleep, Running, ivars
  <2>4. CASE timerEnd
    BY <2>4 DEF timerEnd
  <2>5. CASE taskSwitchEntry
    BY <2>5 DEF taskSwitchEntry, Running
  <2>6. CASE \E err \in Errors : setErrorCode(err)
    BY <2>6 DEF setErrorCode, Running, ivars
  <2>7. CASE \E ns \in Times : sysSleepns(ns) \/ \E d \in Drivers : driverEvent(ns, d)
    BY <2>7 DEF sysSleepns, driverEvent, Call, Sleep, Running, ivars
  <2> QED BY <2>1, <2>2, <2>3, <2>4, <2>5, <2>6, <2>7 DEF TNext, addTimerEvent
<1> QED BY <1>1 DEF StackInv

\* Every step of the boot leaves the markers where the next one looks.
LEMMA TasksKeepMarkers == ASSUME MarkersInv, TNext PROVE MarkersInv'
<1> USE DEF MarkersInv, Ticket
<1>1. CASE createFakeTask
  BY <1>1 DEF createFakeTask, Boot
<1>2. CASE initTasking
  <2>1. CASE \/ Boot("cache", "array", sched, current, vmem, queueLock)
             \/ Boot("array", "current", "array", "junk", vmem, queueLock)
             \/ Boot("current", "ticket", sched, "ftask", vmem, queueLock)
             \/ Boot("kt", "done", sched, "kt", vmem, queueLock)
    BY <2>1 DEF Boot
  <2>2. CASE createTicket("kt", vmem["ftask"])
    BY <2>2 DEF createTicket, Boot
  <2> QED BY <1>2, <2>1, <2>2 DEF initTasking
<1>3. CASE addTimerEvent
  <2>1. UNCHANGED <<boot, vmem, current>>
    BY <1>3 DEF addTimerEvent, AddWrite, Sift, SiftWild, AddPlace, Sleep, schedule
  <2> QED BY <2>1
<1>4. CASE timerEnd \/ taskSwitchEntry
  BY <1>4 DEF timerEnd, taskSwitchEntry, schedule, tickets
<1>5. CASE \E err \in Errors : setErrorCode(err)
  BY <1>5 DEF setErrorCode, schedule
<1>6. CASE \E ns \in Times : sysSleepns(ns) \/ \E d \in Drivers : driverEvent(ns, d)
  BY <1>6 DEF sysSleepns, driverEvent, Call, Sleep, schedule
<1> QED BY <1>1, <1>2, <1>3, <1>4, <1>5, <1>6 DEF TNext

\* While the queue is the same, so are its counts.
LEMMA CountsStay ==
  ASSUME UNCHANGED <<queue, slept>>
  PROVE  /\ \A t, c : Holding(t, c)' = Holding(t, c) /\ Asked(t, c)' = Asked(t, c)
         /\ \A c : Calling(c)' = Calling(c) /\ Named(c)' = Named(c)
BY DEF Holding, Asked, Calling, Named

\* A step that leaves the queue and the calls alone keeps the events.
LEMMA EventsStay ==
  ASSUME EventInv, UNCHANGED <<events, sleep, slept, flagged>>, cpu' = "run" => cpu = "run"
  PROVE  EventInv'
<1>1. UNCHANGED <<queue, next>> BY DEF events
<1>2. EventsKept' BY <1>1, CountsStay DEF EventInv, EventsKept
<1>3. (cpu = "run" => QueueInv)' BY <1>1 DEF EventInv, QueueInv
<1> QED BY <1>2, <1>3 DEF EventInv

\* Once the processor has stopped there is nothing to keep.
LEMMA StoppedKeeps == ASSUME cpu' # "run" PROVE EventInv'
BY DEF EventInv, EventsKept

\* A call brings a time of its own; sysSleepns() blocks the task first.
LEMMA SleepKeeps ==
  ASSUME EventInv, NEW ns \in Times, sysSleepns(ns) \/ \E d \in Drivers : driverEvent(ns, d)
  PROVE  EventInv'
<1>1. PICK w \in Caller : Call(ns, w) /\ (w = "task" \/ UNCHANGED flagged) /\ UNCHANGED <<ivars, slept>>
  BY DEF sysSleepns, driverEvent, Caller
<1>2. /\ cpu = "run" /\ cpu' = "run" /\ UNCHANGED <<queue, next, slept>>
      /\ sleep.pc = "no" /\ sleep' = [Awake EXCEPT !.pc = "add", !.ns = ns, !.who = w]
  BY <1>1 DEF Call, Sleep, Running, ivars
<1>3. sleep' = [pc |-> "add", ns |-> ns, who |-> w, v |-> 0, p |-> 0] BY <1>2 DEF Awake
<1>4. ns \in Nat BY QueueAssumption
<1>5. EventsKept' BY <1>2, <1>3, CountsStay DEF EventInv, EventsKept
<1>6. sleep' \in Sleeping BY <1>1, <1>3, <1>4 DEF Sleeping
<1>7. QueueInv' BY <1>2, <1>3, <1>6 DEF EventInv, QueueInv
<1> QED BY <1>5, <1>7 DEF EventInv

\* The new event is written to the free slot that next names.
LEMMA WriteKeeps == ASSUME EventInv, AddWrite PROVE EventInv'
<1>1. CASE next = QSize /\ cpu' = "fault"
  BY <1>1, StoppedKeeps
<1>2. CASE ~ (next = QSize /\ cpu' = "fault")
  <2> DEFINE e == [ns |-> sleep.ns, call |-> sleep.who, id |-> sleep.who]
  <2>1. /\ cpu = "run" /\ UNCHANGED <<cpu, next, flagged>> /\ next \in Slot /\ sleep.pc = "add"
        /\ sleep' = [sleep EXCEPT !.pc = "sift", !.v = next, !.p = TIMER_PARENT(next)]
        /\ queue' = [queue EXCEPT ![next] = e]
        /\ slept' = slept (+) SetToBag({<<sleep.ns, sleep.who>>})
    BY <1>2 DEF AddWrite, Sleep, Running
  <2>2. QueueInv /\ sleep.ns \in Times /\ sleep \in Sleeping BY <2>1 DEF EventInv, QueueInv
  <2>3. sleep.ns \in Nat /\ sleep.ns # 0 /\ sleep.who \in Caller
    <3>1. sleep.ns \in 1 .. 2^NsBits - 1 BY <2>2, QueueAssumption
    <3>2. sleep.who \in Caller BY <2>2 DEF Sleeping
    <3> QED BY <3>1, <3>2
  <2>4. queue \in [Slot -> Event] /\ queue[next].ns = 0 BY <2>1, <2>2 DEF QueueInv
  <2>5. \A i \in Slot : queue'[i] = IF i = next THEN e ELSE queue[i] BY <2>1, <2>4
  <2>6. e.ns = sleep.ns /\ e.call = sleep.who /\ e.id = sleep.who /\ e \in Event BY <2>3 DEF Event
  <2> HIDE DEF e
  <2>7. ASSUME NEW t \in 1 .. 2^NsBits - 1, NEW c \in Caller
        PROVE  Cardinality(Holding(t, c))' = Asked(t, c)' /\ slept' # EmptyBag
    <3>1. t # 0 OBVIOUS
    <3>2. Holding(t, c) \in SUBSET Slot /\ next \notin Holding(t, c) BY <2>4, <3>1 DEF Holding
    <3>3. Cardinality(Holding(t, c)) = Asked(t, c) BY <2>1 DEF EventInv, EventsKept
    <3>4. Asked(t, c) \in Nat BY <3>2, <3>3, SlotFinite
    <3>5. /\ Asked(t, c)' = Asked(t, c) + (IF <<t, c>> = <<sleep.ns, sleep.who>> THEN 1 ELSE 0)
          /\ slept' # EmptyBag
      BY <2>1, <3>4, AskedCount
    <3>6. CASE t = sleep.ns /\ c = sleep.who
      <4>1. Holding(t, c)' = Holding(t, c) \cup {next} BY <2>1, <2>5, <2>6, <3>6 DEF Holding
      <4>2. Cardinality(Holding(t, c) \cup {next}) = Cardinality(Holding(t, c)) + 1
        BY <2>1, <3>2, AddCount
      <4> QED BY <3>3, <3>5, <3>6, <4>1, <4>2
    <3>7. CASE ~ (t = sleep.ns /\ c = sleep.who)
      <4>1. Holding(t, c)' = Holding(t, c) BY <2>1, <2>5, <2>6, <3>2, <3>7 DEF Holding
      <4> QED BY <3>3, <3>4, <3>5, <3>7, <4>1
    <3> QED BY <3>6, <3>7
  <2>8. ASSUME NEW c \in Caller PROVE Cardinality(Calling(c))' = Cardinality(Named(c))'
    <3>1. /\ Calling(c) \in SUBSET Slot /\ next \notin Calling(c)
          /\ Named(c) \in SUBSET Slot /\ next \notin Named(c)
      BY <2>4 DEF Calling, Named
    <3>2. Cardinality(Calling(c)) = Cardinality(Named(c)) BY <2>1 DEF EventInv, EventsKept
    <3>3. CASE c = sleep.who
      <4>1. Calling(c)' = Calling(c) \cup {next} /\ Named(c)' = Named(c) \cup {next}
        BY <2>1, <2>3, <2>5, <2>6, <3>3 DEF Calling, Named
      <4> QED BY <2>1, <3>1, <3>2, <4>1, AddCount
    <3>4. CASE c # sleep.who
      <4>1. Calling(c)' = Calling(c) /\ Named(c)' = Named(c)
        BY <2>1, <2>5, <2>6, <3>1, <3>4 DEF Calling, Named
      <4> QED BY <3>2, <4>1
    <3> QED BY <3>3, <3>4
  <2>9. slept' # EmptyBag
    <3>1. DOMAIN slept' = DOMAIN slept \cup {<<sleep.ns, sleep.who>>} BY <2>1 DEF (+), SetToBag
    <3>2. DOMAIN EmptyBag = {} BY DEF EmptyBag, SetToBag
    <3> QED BY <3>1, <3>2
  <2>10. EventsKept' BY <2>1, <2>7, <2>8, <2>9 DEF EventsKept, EmptyBag
  <2>11. TIMER_PARENT(next) \in Int BY <2>2 DEF TIMER_PARENT, QueueInv
  <2>12. QueueInv'
    <3>1. queue' \in [Slot -> Event] /\ queue'[next].ns # 0 BY <2>1, <2>3, <2>4, <2>5, <2>6
    <3>2. \A i \in Slot : i < next => queue'[i].ns # 0 BY <2>1, <2>2, <2>3, <2>5, <2>6 DEF QueueInv
    <3>3. next \in Int BY <2>2 DEF QueueInv
    <3>4. sleep' \in Sleeping /\ sleep'.pc = "sift" /\ sleep'.v = next
      BY <2>1, <2>2, <2>11, <3>3 DEF Sleeping
    <3> QED BY <2>1, <2>2, <3>1, <3>2, <3>4 DEF QueueInv
  <2> QED BY <2>10, <2>12 DEF EventInv
<1> QED BY <1>1, <1>2

\* A round of the sort exchanges the times and callbacks of two events.
LEMMA SiftKeeps == ASSUME EventInv, Sift PROVE EventInv'
<1> DEFINE v == sleep.v  p == sleep.p
<1>1. /\ cpu = "run" /\ UNCHANGED <<cpu, next, flagged, slept>> /\ sleep.pc = "sift"
      /\ p \in Slot /\ queue[v].ns < queue[p].ns
      /\ sleep' = [sleep EXCEPT !.v = p, !.p = TIMER_PARENT(p)]
      /\ queue' = Swapped(v, p)
  BY DEF Sift, Sleep, Running, ivars
<1>2. QueueInv /\ sleep \in Sleeping /\ queue \in [Slot -> Event] BY <1>1 DEF EventInv, QueueInv
<1>3. v \in Slot /\ queue[v].ns \in Nat \ {0} /\ queue[p].ns \in Nat \ {0} /\ v # p
  BY <1>1, <1>2 DEF QueueInv, Event
<1>4. /\ queue' \in [Slot -> Event]
      /\ queue'[v].ns = queue[p].ns /\ queue'[v].call = queue[p].call
      /\ queue'[p].ns = queue[v].ns /\ queue'[p].call = queue[v].call
      /\ \A i \in Slot : queue'[i].id = queue[i].id
      /\ \A i \in Slot \ {v, p} : queue'[i] = queue[i]
  <2> DEFINE a == [queue[p] EXCEPT !.id = queue[v].id]
             b == [queue[v] EXCEPT !.id = queue[p].id]
  <2>1. queue[v] \in Event /\ queue[p] \in Event BY <1>1, <1>2, <1>3
  <2>2. /\ a \in Event /\ a.ns = queue[p].ns /\ a.call = queue[p].call /\ a.id = queue[v].id
        /\ b \in Event /\ b.ns = queue[v].ns /\ b.call = queue[v].call /\ b.id = queue[p].id
    BY <2>1 DEF Event
  <2>3. queue' = [queue EXCEPT ![v] = a, ![p] = b] BY <1>1 DEF Swapped
  <2> HIDE DEF a, b
  <2>4. /\ queue' \in [Slot -> Event] /\ queue'[v] = a /\ queue'[p] = b
        /\ \A i \in Slot \ {v, p} : queue'[i] = queue[i]
    BY <1>1, <1>2, <1>3, <2>2, <2>3
  <2> QED BY <2>2, <2>4
<1> HIDE DEF v, p
<1>5. ASSUME NEW t, NEW c PROVE Cardinality(Holding(t, c))' = Cardinality(Holding(t, c))
  <2> DEFINE S == Holding(t, c)  T == Holding(t, c)'
  <2>1. S \in SUBSET Slot /\ T \in SUBSET Slot BY DEF Holding
  <2>2. /\ v \in T <=> p \in S
        /\ p \in T <=> v \in S
        /\ \A i \in Slot \ {v, p} : i \in T <=> i \in S
    BY <1>1, <1>3, <1>4 DEF Holding
  <2> HIDE DEF S, T
  <2>3. Cardinality(T) = Cardinality(S) BY <1>1, <1>3, <2>1, <2>2, SwapCount
  <2> QED BY <2>3 DEF S, T
<1>6. ASSUME NEW c PROVE Cardinality(Calling(c))' = Cardinality(Calling(c)) /\ Named(c)' = Named(c)
  <2> DEFINE S == Calling(c)  T == Calling(c)'
  <2>1. S \in SUBSET Slot /\ T \in SUBSET Slot BY DEF Calling
  <2>2. /\ v \in T <=> p \in S
        /\ p \in T <=> v \in S
        /\ \A i \in Slot \ {v, p} : i \in T <=> i \in S
    BY <1>1, <1>3, <1>4 DEF Calling
  <2>3. Named(c)' = Named(c) BY <1>1, <1>3, <1>4 DEF Named
  <2> HIDE DEF S, T
  <2>4. Cardinality(T) = Cardinality(S) BY <1>1, <1>3, <2>1, <2>2, SwapCount
  <2> QED BY <2>3, <2>4 DEF S, T
<1>7. \A t, c : Asked(t, c)' = Asked(t, c) BY <1>1 DEF Asked
<1>8. EventsKept' BY <1>1, <1>5, <1>6, <1>7 DEF EventInv, EventsKept
<1>9. TIMER_PARENT(p) \in Int
  <2>1. p \in Int BY <1>1, QueueAssumption DEF Slot
  <2>2. (p - 1) \div 2 \in Int BY <2>1, SMTT(30)
  <2> QED BY <2>1, <2>2 DEF TIMER_PARENT
<1>10. \A i \in Slot : queue[i].ns # 0 => queue'[i].ns # 0 BY <1>3, <1>4
<1>11. p \in Int BY <1>1, QueueAssumption DEF Slot
<1>12. sleep' \in Sleeping /\ sleep'.pc = "sift" /\ sleep'.v = p
  BY <1>1, <1>2, <1>9, <1>11 DEF Sleeping
<1>13. QueueInv' BY <1>1, <1>2, <1>3, <1>4, <1>10, <1>12 DEF QueueInv
<1> QED BY <1>8, <1>13 DEF EventInv

\* next moves past taken slots only.
LEMMA PlaceKeeps == ASSUME EventInv, AddPlace PROVE EventInv'
<1>1. PICK n \in next + 1 .. QSize :
        /\ n < QSize => queue[n].ns = 0
        /\ \A i \in next + 1 .. n - 1 : queue[i].ns # 0
        /\ Sleep("sift", Awake, queue, n)
  BY DEF AddPlace
<1>2. /\ cpu = "run" /\ UNCHANGED <<cpu, queue, flagged, slept>> /\ sleep.pc = "sift"
      /\ next' = n /\ sleep' = Awake
  BY <1>1 DEF AddPlace, Sleep, Running, ivars
<1>3. QueueInv BY <1>2 DEF EventInv
<1>4. EventsKept' BY <1>2, CountsStay DEF EventInv, EventsKept
<1>5. n \in 0 .. QSize /\ \A i \in Slot : i < n => queue[i].ns # 0
  BY <1>1, <1>2, <1>3, QueueAssumption DEF QueueInv, Slot
<1>6. Awake \in Sleeping /\ Awake.pc = "no" BY DEF Awake, Sleeping, Caller
<1>7. QueueInv' BY <1>1, <1>2, <1>3, <1>5, <1>6, QueueAssumption DEF QueueInv, Slot
<1> QED BY <1>4, <1>7 DEF EventInv

\* The end of an event never leaves the processor running: the queue is
\* empty, or its resort has no end.
LEMMA EndKeeps == ASSUME EventInv, timerEnd PROVE EventInv'
<1>1. QueueInv BY DEF EventInv, timerEnd
<1>2. {i \in 1 .. next - 1 : \A j \in 1 .. i : queue[j].ns # 0} = 1 .. next - 1
  BY <1>1, QueueAssumption DEF QueueInv, Slot
<1>3. cpu' # "run" BY <1>2 DEF timerEnd
<1> QED BY <1>3, StoppedKeeps

LEMMA TasksKeepEvents == ASSUME EventInv, TNext PROVE EventInv'
<1>1. CASE createFakeTask \/ initTasking
  <2>1. UNCHANGED <<events, sleep, slept, flagged, cpu>>
    BY <1>1 DEF createFakeTask, initTasking, createTicket, Boot, ivars
  <2> QED BY <2>1, EventsStay
<1>2. CASE addTimerEvent
  <2>1. CASE SiftWild BY <2>1, StoppedKeeps DEF SiftWild
  <2> QED BY <1>2, <2>1, WriteKeeps, SiftKeeps, PlaceKeeps DEF addTimerEvent
<1>3. CASE timerEnd BY <1>3, EndKeeps
<1>4. CASE taskSwitchEntry
  BY <1>4, EventsStay DEF taskSwitchEntry, Running, tickets
<1>5. CASE \E err \in Errors : setErrorCode(err)
  BY <1>5, EventsStay DEF setErrorCode, ivars
<1>6. CASE \E ns \in Times : sysSleepns(ns) \/ \E d \in Drivers : driverEvent(ns, d)
  BY <1>6, SleepKeeps
<1> QED BY <1>1, <1>2, <1>3, <1>4, <1>5, <1>6 DEF TNext

\* The inductive invariant of the processor and its tasks.
THEOREM TaskInvariant == TSpec => []TaskInv
<1>1. IInit /\ TInit => TaskInv
  <2> SUFFICES ASSUME IInit, TInit PROVE TaskInv OBVIOUS
  <2>1. StackInv BY DEF IInit, StackInv
  <2>2. MarkersInv BY DEF TInit, MarkersInv, Ticket
  <2>3. /\ \A t \in 1 .. 2^NsBits - 1, c \in Caller : Cardinality(Holding(t, c)) = Asked(t, c)
        /\ \A c \in Caller : Cardinality(Calling(c)) = Cardinality(Named(c))
    <3>1. \A t \in 1 .. 2^NsBits - 1, c \in Caller : Holding(t, c) = {}
      BY DEF TInit, Cleared, Holding
    <3>2. \A t, c : ~ BagIn(<<t, c>>, slept) BY DEF TInit, BagIn, BagToSet, EmptyBag, SetToBag
    <3>3. \A c \in Caller : Calling(c) = {} /\ Named(c) = {} BY DEF TInit, Cleared, Calling, Named
    <3> QED BY <3>1, <3>2, <3>3, FS_EmptySet DEF Asked
  <2>4. EventsKept BY <2>3 DEF EventsKept, TInit
  <2>5. QueueInv
    <3>1. Cleared \in Event /\ Cleared.ns = 0 BY DEF Cleared, Event
    <3>2. Awake \in Sleeping /\ Awake.pc = "no" BY DEF Awake, Sleeping, Caller
    <3> QED BY <3>1, <3>2, QueueAssumption DEF QueueInv, TInit, Slot
  <2> QED BY <2>1, <2>2, <2>4, <2>5 DEF TaskInv, EventInv
<1>2. TaskInv /\ [TNext \/ (INext /\ UNCHANGED tvars)]_<<ivars, tvars>> => TaskInv'
  <2> SUFFICES ASSUME TaskInv, [TNext \/ (INext /\ UNCHANGED tvars)]_<<ivars, tvars>>
               PROVE  TaskInv'
    OBVIOUS
  <2>1. CASE TNext
    BY <2>1, TasksKeepStack, TasksKeepMarkers, TasksKeepEvents DEF TaskInv
  <2>2. CASE INext /\ UNCHANGED tvars
    <3>1. cpu = "run" BY <2>2, RunsFirst
    <3>2. EventInv' BY <2>2, <3>1, EventsStay DEF TaskInv, tvars, tickets
    <3>3. MarkersInv' BY <2>2 DEF TaskInv, MarkersInv, tvars, tickets, schedule
    <3> QED BY <2>2, <3>2, <3>3, InterruptsKeep DEF TaskInv
  <2>3. CASE UNCHANGED <<ivars, tvars>>
    <3>1. EventInv' BY <2>3, EventsStay DEF TaskInv, tvars, tickets, ivars
    <3>2. MarkersInv' BY <2>3 DEF TaskInv, MarkersInv, tvars, tickets, schedule
    <3>3. StackInv' BY <2>3 DEF TaskInv, StackInv, ivars
    <3> QED BY <3>1, <3>2, <3>3 DEF TaskInv
  <2> QED BY <2>1, <2>2, <2>3
<1> QED BY <1>1, <1>2, PTL DEF TSpec

\* Whatever vectors occur and whatever drivers do to the table, code that an
\* interrupt stopped goes on with the stack it had, unless a handler below
\* vector 32 returned (cpu.asm:131-173).
THEOREM InterruptsReturn == TSpec => []ResumesIntact
<1>1. TaskInv => ResumesIntact
  <2> SUFFICES ASSUME TaskInv PROVE ResumesIntact OBVIOUS
  <2>1. frames = <<>> /\ cpu = "run" => rsp = 0 BY DEF TaskInv, StackInv
  <2> QED BY <2>1 DEF TaskInv, StackInv, ResumesIntact
<1> QED BY <1>1, TaskInvariant, PTL

\* Every allocation of the boot and after it finds the kernel's markers with
\* the current task (task.c:157-203, vmm.c:202).
THEOREM BootKeepsMarkers == TSpec => []MarkersReachable
<1>1. TaskInv => MarkersReachable
  BY DEF TaskInv, MarkersInv, MarkersReachable, Allocates, getCurrentTask, Ticket
<1> QED BY <1>1, TaskInvariant, PTL

\* For a queue of every length: as long as the kernel runs, the times in the
\* queue and their callbacks are the ones that were asked for, and every caller
\* has as many ids in it (timer.c:67-91, sleep.c:21-28).
THEOREM TimersKeepEvents == TSpec => []EventsKept
<1>1. TaskInv => EventsKept BY DEF TaskInv, EventInv
<1> QED BY <1>1, TaskInvariant, PTL

-----------------------------------------------------------------------------
(* Devices *)

\* The least number of a set is one of it.
LEMMA NatMin == ASSUME NEW S \in SUBSET Nat, S # {} PROVE Min(S) \in S
<1> DEFINE R == OpToRel(<, Nat)
<1>1. IsWellFoundedOn(R, Nat) BY NatLessThanWellFounded
<1>2. \A x, y \in Nat : <<x, y>> \in R <=> x < y BY DEF OpToRel
<1> HIDE DEF R
<1>3. PICK x \in S : \A y \in S : ~ (<<y, x>> \in R) BY <1>1, WFMin
<1>4. \A y \in S : x <= y
  <2> TAKE y \in S
  <2>1. ~ (y < x) BY <1>2, <1>3
  <2> QED BY <2>1
<1> QED BY <1>4 DEF Min

\* A controller: its entries' map and its redirection table.
Controller == [intmap : SUBSET (0 .. Entries - 1), redtbl : [0 .. Entries - 1 -> {NONE} \cup 0 .. 255]]

RouteInv == m \in Machines /\ ioapic \in Seq(Controller) /\ RouteOwned

\* The interval timer's input is an entry of the controller.
LEMMA PitMapType == ASSUME m \in Machines PROVE PitMap \in 0 .. Entries - 1
<1>1. m.madt \in Seq(Ics) /\ m.after \in Seq(Ics) /\ Entries \in Nat \ {0} BY PlatformAssumption
<1>2. CASE PitIsos = {} BY <1>1, <1>2 DEF PitMap
<1>3. CASE PitIsos # {}
  <2>1. PitIsos \in SUBSET Nat BY <1>1 DEF PitIsos, Isos
  <2>2. Min(PitIsos) \in PitIsos BY <1>3, <2>1, NatMin
  <2> DEFINE i == Min(PitIsos)
  <2>3. i \in 1 .. Len(m.madt) BY <1>1, <2>2 DEF PitIsos, Isos
  <2> HIDE DEF i
  <2> DEFINE a == m.madt  b == m.after
  <2>4. Mem[i] = m.madt[i]
    <3>1. Mem = a \o b BY DEF Mem
    <3>2. a \in Seq(Ics) /\ b \in Seq(Ics) /\ i \in 1 .. Len(a) BY <1>1, <2>3
    <3> HIDE DEF a, b
    <3>3. (a \o b)[i] = a[i] BY <3>2
    <3> QED BY <3>1, <3>3 DEF a
  <2>5. m.madt[i] \in Ics BY <1>1, <2>3, ElementOfSeq
  <2>6. m.madt[i].gsi \in 0 .. Entries - 1 BY <2>5 DEF Ics
  <2>7. PitMap = Mem[i].gsi BY <1>3 DEF PitMap, i
  <2> QED BY <2>4, <2>6, <2>7
<1> QED BY <1>2, <1>3

\* A redirection that is not the timer's, or is, leaves the table in order.
LEMMA RouteKeeps ==
  ASSUME NEW list \in Seq(Controller), list # <<>>, m \in Machines,
         NEW e \in 0 .. Entries - 1, NEW v \in 0 .. 255,
         list[1].intmap = {x \in 0 .. Entries - 1 : list[1].redtbl[x] # NONE},
         IF e = PitMap THEN v = 32 ELSE list[1].redtbl[PitMap] = 32,
         ioapic' = Route(list, e, v), m' = m
  PROVE  RouteInv'
<1>1. v # NONE
  <2>1. NONE \notin 0 .. 255 BY PlatformAssumption
  <2> QED BY <2>1, ZenonT(30)
<1>2. PitMap \in 0 .. Entries - 1 BY PitMapType
<1>3. 1 \in 1 .. Len(list) /\ list[1] \in Controller BY ElementOfSeq
<1> DEFINE c == [list[1] EXCEPT !.intmap = @ \cup {e}, !.redtbl[e] = v]
<1>4. /\ c \in Controller /\ c.intmap = list[1].intmap \cup {e}
      /\ \A x \in 0 .. Entries - 1 : c.redtbl[x] = IF x = e THEN v ELSE list[1].redtbl[x]
  BY <1>3, ZenonT(30) DEF Controller
<1>5. ioapic' \in Seq(Controller) /\ ioapic'[1] = c
  <2>1. ioapic' = [list EXCEPT ![1] = c] BY <1>3 DEF Route, Controller
  <2> HIDE DEF c
  <2> QED BY <1>3, <1>4, <2>1
<1> HIDE DEF c
<1>6. ioapic'[1].intmap = {x \in 0 .. Entries - 1 : ioapic'[1].redtbl[x] # NONE}
  BY <1>1, <1>4, <1>5
<1>7. ioapic'[1].redtbl[PitMap] = 32 BY <1>2, <1>4, <1>5
<1>8. PitMap' = PitMap BY DEF PitMap, PitIsos, Isos, Mem
<1> QED BY <1>5, <1>6, <1>7, <1>8 DEF RouteInv, RouteOwned

\* initIOAPIC(): a controller more, and the interval timer's redirection.
LEMMA InitKeepsRoutes == ASSUME RouteInv, initAPIC PROVE RouteInv'
<1>1. ioapic' = initIOAPIC(check) /\ m' = m BY DEF initAPIC, Acpi
<1>2. PitMap' = PitMap BY <1>1 DEF PitMap, PitIsos, Isos, Mem
<1>3. CASE ~ Mem[check].aligned
  BY <1>1, <1>2, <1>3 DEF initIOAPIC, RouteInv, RouteOwned
<1>4. CASE Mem[check].aligned
  <2> DEFINE list == Append(ioapic, Blank)
  <2>1. Blank \in Controller BY DEF Blank, Controller
  <2>2. list \in Seq(Controller) /\ list # <<>> BY <2>1, AppendProperties DEF RouteInv
  <2>3. IF ioapic = <<>> THEN list[1] = Blank ELSE list[1] = ioapic[1]
    BY <2>1 DEF RouteInv
  <2>4. PitMap \in 0 .. Entries - 1 BY PitMapType DEF RouteInv
  <2>5. ioapic' = IF 0 \in list[1].intmap THEN list ELSE Route(list, PitMap, 32)
    BY <1>1, <1>4 DEF initIOAPIC, setIOAPICInterrupt
  <2>6. list[1].intmap = {x \in 0 .. Entries - 1 : list[1].redtbl[x] # NONE}
    BY <2>3 DEF RouteInv, RouteOwned, Blank
  <2>7. 0 \in list[1].intmap => list[1].redtbl[PitMap] = 32
    BY <2>3 DEF RouteInv, RouteOwned, Blank
  <2> HIDE DEF list
  <2>8. CASE 0 \in list[1].intmap
    BY <1>1, <1>2, <2>2, <2>5, <2>6, <2>7, <2>8 DEF RouteInv, RouteOwned
  <2>9. CASE 0 \notin list[1].intmap
    <3>1. ioapic' = Route(list, PitMap, 32) /\ m \in Machines BY <2>5, <2>9 DEF RouteInv
    <3>2. 32 \in 0 .. 255 OBVIOUS
    <3> QED BY <1>1, <2>2, <2>4, <2>6, <3>1, <3>2, RouteKeeps, Zenon
  <2> QED BY <2>8, <2>9
<1> QED BY <1>3, <1>4

\* A driver's redirection takes a free entry, so never the timer's.
LEMMA AllocateKeepsRoutes ==
  ASSUME RouteInv, NEW v, allocateIOAPICInterrupt(v) PROVE RouteInv'
<1> DEFINE free == (0 .. Entries - 1) \ ioapic[1].intmap
<1>1. /\ ioapic # <<>> /\ v \in 16 .. 254 /\ free # {} /\ m' = m
      /\ ioapic' = Route(ioapic, Min(free), v)
  BY DEF allocateIOAPICInterrupt
<1>2. Entries \in Nat BY PlatformAssumption
<1>3. free \in SUBSET Nat BY <1>2
<1> HIDE DEF free
<1>4. Min(free) \in free BY <1>1, <1>3, NatMin
<1>5. Min(free) \in 0 .. Entries - 1 /\ Min(free) \notin ioapic[1].intmap BY <1>4 DEF free
<1>6. PitMap \in 0 .. Entries - 1 BY PitMapType DEF RouteInv
<1>7. 32 # NONE BY PlatformAssumption
<1>8. PitMap \in ioapic[1].intmap BY <1>1, <1>6, <1>7 DEF RouteInv, RouteOwned
<1>9. v \in 0 .. 255 BY <1>1
<1> QED BY <1>1, <1>5, <1>8, <1>9, RouteKeeps DEF RouteInv, RouteOwned

\* The steps of the kernel other than initAPIC() leave the list alone.
LEMMA OthersKeepRoutes ==
  ASSUME PNext, ~ initAPIC, \A v : ~ allocateIOAPICInterrupt(v)
  PROVE  UNCHANGED <<m, ioapic>>
<1>1. CASE initACPI \/ indentifyTable \/ hung \/ countFrom \/ countLapic \/ initLapic
  BY <1>1 DEF initACPI, indentifyTable, hung, countFrom, countLapic, initLapic, Acpi, tableVars
<1>2. CASE initPCI \/ scanBus \/ findAHCI
  BY <1>2 DEF initPCI, scanBus, findAHCI, Pci, tableVars
<1>3. CASE initAHCI \/ waitBios \/ resetHBA \/ waitReset \/ initMSIX \/ initPort
  BY <1>3 DEF initAHCI, waitBios, resetHBA, waitReset, initMSIX, initPort, Ahci, Pci, tableVars
<1>4. CASE Hardware
  BY <1>4 DEF Hardware, tableVars
<1>5. CASE Tasking
  BY <1>5 DEF Tasking, pvars
<1> QED BY <1>1, <1>2, <1>3, <1>4, <1>5 DEF PNext, Kernel, Quiet

\* On every machine and for every number of entries: the map and the table
\* agree, and the interval timer keeps its entry (ioapic.c:38-112).
THEOREM RoutesOwned == PSpec => []RouteOwned
<1>1. PInit => RouteInv BY DEF PInit, RouteInv, RouteOwned
<1>2. RouteInv /\ [PNext]_<<ivars, tvars, pvars>> => RouteInv'
  <2> SUFFICES ASSUME RouteInv, [PNext]_<<ivars, tvars, pvars>> PROVE RouteInv' OBVIOUS
  <2>1. ASSUME UNCHANGED <<m, ioapic>> PROVE RouteInv'
    <3>1. PitMap' = PitMap BY <2>1 DEF PitMap, PitIsos, Isos, Mem
    <3> QED BY <2>1, <3>1 DEF RouteInv, RouteOwned
  <2>2. CASE UNCHANGED <<ivars, tvars, pvars>> BY <2>1, <2>2 DEF pvars
  <2> QED BY <2>1, <2>2, InitKeepsRoutes, AllocateKeepsRoutes, OthersKeepRoutes
<1>3. RouteInv => RouteOwned BY DEF RouteInv
<1> QED BY <1>1, <1>2, <1>3, PTL DEF PSpec

\* The list is never full, and while it is scanned the block has room for
\* what alloc says.
DevInv ==
  /\ device \in Seq([class : {m.slot[d] : d \in DOMAIN m.slot}, dev : DOMAIN m.slot])
  /\ alloc \in Nat /\ Len(device) < alloc
  /\ pc \in {"scan", "find"} => block = alloc

\* For every growth of the list and every bus: a device that is found has
\* room, and krealloc() never gets the size that it has (pci.c:68-100).
THEOREM DevicesRoom == PSpec => []DevicesFit
<1>1. PInit => DevInv BY PlatformAssumption DEF PInit, DevInv
<1>2. DevInv /\ [PNext]_<<ivars, tvars, pvars>> => DevInv'
  <2> SUFFICES ASSUME DevInv, [PNext]_<<ivars, tvars, pvars>> PROVE DevInv' OBVIOUS
  <2>1. CASE initACPI \/ indentifyTable \/ hung \/ initAPIC \/ countFrom \/ countLapic \/ initLapic
    <3>1. UNCHANGED <<m, device, alloc, block>> /\ pc' \notin {"scan", "find"}
      BY <2>1 DEF initACPI, indentifyTable, hung, initAPIC, countFrom, countLapic, initLapic,
         Acpi, devVars, DevInv
    <3> QED BY <3>1 DEF DevInv
  <2>2. CASE initPCI
    BY <2>2 DEF initPCI, Pci, DevInv
  <2>3. CASE scanBus
    <3>1. CASE UNCHANGED devVars /\ (Pci("scan", "find", k) \/ Pci("scan", "scan", k + 1))
      BY <3>1 DEF Pci, DevInv, devVars
    <3>2. CASE ~ (UNCHANGED devVars /\ (Pci("scan", "find", k) \/ Pci("scan", "scan", k + 1)))
      <4>1. /\ pc = "scan" /\ k \in DOMAIN m.slot /\ m' = m /\ k' = k + 1 /\ pc' = "scan"
            /\ device' = Append(device, pciDevice(k))
            /\ alloc' = IF Len(device) + 1 >= alloc THEN alloc + Room ELSE alloc
            /\ block' = alloc'
        BY <2>3, <3>2 DEF scanBus, Pci
      <4> DEFINE D == [class : {m.slot[d] : d \in DOMAIN m.slot}, dev : DOMAIN m.slot]
      <4>2. pciDevice(k) \in D BY <4>1 DEF pciDevice
      <4>3. device \in Seq(D) BY DEF DevInv
      <4> HIDE DEF D
      <4>4. device' \in Seq(D) /\ Len(device') = Len(device) + 1 BY <4>1, <4>2, <4>3
      <4>5. alloc' \in Nat /\ Len(device') < alloc'
        <5>1. Len(device) \in Nat /\ alloc \in Nat /\ Len(device) < alloc BY <4>3 DEF DevInv
        <5>2. Room \in Nat \ {0} BY PlatformAssumption
        <5> QED BY <4>1, <4>4, <5>1, <5>2
      <4>6. D' = D BY <4>1 DEF D
      <4> QED BY <4>1, <4>4, <4>5, <4>6 DEF DevInv, D
    <3> QED BY <3>1, <3>2
  <2>4. CASE findAHCI
    BY <2>4 DEF findAHCI, Pci, DevInv
  <2>5. CASE initAHCI \/ waitBios \/ resetHBA \/ waitReset \/ initMSIX \/ initPort
    <3>1. UNCHANGED <<m, device, alloc, block>> /\ pc' \notin {"scan", "find"}
      BY <2>5 DEF initAHCI, waitBios, resetHBA, waitReset, initMSIX, initPort, Ahci, Pci, DevInv
    <3> QED BY <3>1 DEF DevInv
  <2>6. CASE \/ Hardware \/ (\E v \in {16, 254} : allocateIOAPICInterrupt(v))
             \/ Tasking \/ UNCHANGED <<ivars, tvars, pvars>>
    <3>1. UNCHANGED <<m, device, alloc, block, pc, k>>
      BY <2>6 DEF Hardware, allocateIOAPICInterrupt, Tasking, devVars, pvars
    <3> QED BY <3>1 DEF DevInv
  <2> QED BY <2>1, <2>2, <2>3, <2>4, <2>5, <2>6 DEF PNext, Kernel, Quiet
<1>3. DevInv => DevicesFit BY DEF DevInv, DevicesFit
<1> QED BY <1>1, <1>2, <1>3, PTL DEF PSpec

\* Where the start of the controller is, and what it has done by then.  The
\* loop over the ports has handled those below k.
PortsInv ==
  /\ m \in Machines
  /\ pc \in {"acpi", "table", "ioapic", "count", "hung", "pci", "scan", "find", "ahci", "bios",
            "hr", "reset", "check"} => msi = NONE /\ ports = {}
  /\ pc \in {"reset", "check"} => hba \in {Hba(FALSE, TRUE, FALSE), Hba(FALSE, FALSE, FALSE)}
  /\ pc = "msi" => msi = NONE /\ ports = {}
  /\ pc \in {"msi", "ports"} \/ ports # {} => hba = Hba(FALSE, FALSE, TRUE)
  /\ pc = "ports" => k \in 0 .. Ports /\ ports = {p \in m.pi \cap m.det : p < k}
  /\ pc = "done" /\ msi # NONE => ports = m.pi \cap m.det

\* The start of the controller goes through the wait for its reset.
LEMMA AhciKeeps ==
  ASSUME PortsInv, initAHCI \/ waitBios \/ resetHBA \/ waitReset \/ initMSIX PROVE PortsInv'
<1> USE DEF PortsInv, Ahci, Pci
<1>1. CASE initAHCI
  <2>1. /\ pc = "ahci" /\ pc' \in {"done", "bios", "hr"} /\ UNCHANGED <<m, msi, ports>>
        /\ msi = NONE /\ ports = {}
    BY <1>1 DEF initAHCI
  <2> QED BY <2>1
<1>2. CASE waitBios BY <1>2 DEF waitBios
<1>3. CASE resetHBA BY <1>3 DEF resetHBA
<1>4. CASE waitReset
  <2>1. pc \in {"reset", "check"} /\ ports = {} /\ msi = NONE /\ UNCHANGED <<m, msi, ports>>
    BY <1>4 DEF waitReset
  <2>2. CASE pc = "reset" \/ hba.reset
    <3>1. pc' \in {"reset", "check"} /\ hba' = hba BY <1>4, <2>2 DEF waitReset
    <3> QED BY <2>1, <3>1
  <2>3. CASE pc # "reset" /\ ~ hba.reset
    <3>1. pc' = "msi" /\ hba' = [hba EXCEPT !.ae = TRUE] BY <1>4, <2>3 DEF waitReset
    <3>2. hba = Hba(FALSE, FALSE, FALSE) BY <2>1, <2>3 DEF Hba
    <3>3. hba' = Hba(FALSE, FALSE, TRUE) BY <3>1, <3>2 DEF Hba
    <3> QED BY <2>1, <3>1, <3>3
  <2> QED BY <2>2, <2>3
<1>5. CASE initMSIX
  <2>1. /\ pc = "msi" /\ pc' \in {"fault", "panic", "ports"} /\ k' = 0
        /\ ports = {} /\ UNCHANGED <<m, hba, ports>>
    BY <1>5 DEF initMSIX
  <2>2. m.pi \subseteq 0 .. Ports - 1 /\ Ports \in Nat BY PlatformAssumption
  <2>3. {p \in m.pi \cap m.det : p < 0} = {} BY <2>2
  <2>4. (k \in 0 .. Ports /\ ports = {p \in m.pi \cap m.det : p < k})' BY <2>1, <2>2, <2>3
  <2>5. hba' = Hba(FALSE, FALSE, TRUE) BY <2>1
  <2> QED BY <2>1, <2>4, <2>5
<1> QED BY <1>1, <1>2, <1>3, <1>4, <1>5

\* A round of the loop over the ports.
LEMMA PortKeeps == ASSUME PortsInv, initPort PROVE PortsInv'
<1>1. m.pi \subseteq 0 .. Ports - 1 /\ Ports \in Nat BY PlatformAssumption DEF PortsInv
<1>2. /\ pc = "ports" /\ hba = Hba(FALSE, FALSE, TRUE) /\ UNCHANGED <<m, hba, msi>>
      /\ k \in 0 .. Ports /\ ports = {p \in m.pi \cap m.det : p < k}
  BY DEF PortsInv, initPort, Ahci, Pci
<1>3. CASE k = Ports
  <2>1. pc' = "done" /\ ports' = ports BY <1>1, <1>3 DEF initPort, Ahci, Pci
  <2>2. ports = m.pi \cap m.det BY <1>1, <1>2, <1>3
  <2> QED BY <1>2, <2>1, <2>2 DEF PortsInv
<1>4. CASE k < Ports
  <2>1. pc' = "ports" /\ k' = k + 1 /\ ports' = IF HasDrive(k) THEN ports \cup {k} ELSE ports
    BY <1>1, <1>2, <1>4 DEF initPort, Ahci, Pci
  <2>2. ports' = {p \in m.pi \cap m.det : p < k + 1}
    BY <1>1, <1>2, <2>1 DEF HasDrive
  <2> QED BY <1>1, <1>2, <1>4, <2>1, <2>2 DEF PortsInv
<1> QED BY <1>1, <1>2, <1>3, <1>4

\* For every number of ports and every set of drives: all drives, and only
\* they, get a command list, and none before the controller has left its
\* reset in AHCI mode (ahci.c:84-123).
THEOREM PortsStart == PSpec => []PortsReady
<1>1. PInit => PortsInv BY DEF PInit, PortsInv
<1>2. PortsInv /\ [PNext]_<<ivars, tvars, pvars>> => PortsInv'
  <2> SUFFICES ASSUME PortsInv, [PNext]_<<ivars, tvars, pvars>> PROVE PortsInv' OBVIOUS
  <2>1. CASE initACPI \/ indentifyTable \/ hung \/ initAPIC \/ countFrom \/ countLapic \/ initLapic
    <3>1. /\ UNCHANGED <<m, msi, hba, ports>>
          /\ pc \in {"acpi", "table", "ioapic", "count"}
          /\ pc' \in {"acpi", "table", "ioapic", "count", "hung", "pci"}
      BY <2>1 DEF initACPI, indentifyTable, hung, initAPIC, countFrom, countLapic, initLapic,
         Acpi, devVars
    <3> QED BY <3>1 DEF PortsInv
  <2>2. CASE initPCI \/ scanBus \/ findAHCI
    <3>1. /\ UNCHANGED <<m, msi, hba, ports>>
          /\ pc \in {"pci", "scan", "find"} /\ pc' \in {"scan", "find", "ahci", "done"}
      BY <2>2 DEF initPCI, scanBus, findAHCI, Pci, devVars
    <3> QED BY <3>1 DEF PortsInv
  <2>3. CASE Hardware
    <3>1. /\ UNCHANGED <<m, pc, k, msi, ports>> /\ pc \in {"bios", "reset", "check"}
          /\ hba' = [hba EXCEPT !.busy = FALSE, !.reset = FALSE]
      BY <2>3 DEF Hardware
    <3>2. ASSUME pc \in {"reset", "check"} PROVE hba' = Hba(FALSE, FALSE, FALSE)
      <4>1. CASE hba = Hba(FALSE, TRUE, FALSE) BY <3>1, <4>1 DEF Hba
      <4>2. CASE hba = Hba(FALSE, FALSE, FALSE) BY <3>1, <4>2 DEF Hba
      <4> QED BY <3>2, <4>1, <4>2 DEF PortsInv
    <3> QED BY <3>1, <3>2 DEF PortsInv
  <2>4. CASE \/ \E v \in {16, 254} : allocateIOAPICInterrupt(v)
             \/ Tasking \/ UNCHANGED <<ivars, tvars, pvars>>
    <3>1. UNCHANGED <<m, pc, k, msi, hba, ports>>
      BY <2>4 DEF allocateIOAPICInterrupt, Tasking, devVars, pvars
    <3> QED BY <3>1 DEF PortsInv
  <2> QED BY <2>1, <2>2, <2>3, <2>4, AhciKeeps, PortKeeps DEF PNext, Kernel, Quiet
<1>3. PortsInv => PortsReady BY DEF PortsInv, PortsReady, Hba
<1> QED BY <1>1, <1>2, <1>3, PTL DEF PSpec
-----------------------------------------------------------------------------
(* The entries of the MADT *)

\* Firmware gives every entry of the table its length.
MadtsSound == \A x \in Machines : \A i \in DOMAIN x.madt : x.madt[i].len # 0

\* The sum that Off is, over the first n - 1 entries of any sequence.
IsOff(f, s, n) == f = [c \in 1 .. n |-> IF c = 1 THEN 0 ELSE f[c - 1] + s[c - 1].len]

\* The recursion defines a function.
LEMMA OffExists == ASSUME NEW s, NEW l \in Nat PROVE \E f : IsOff(f, s, l)
<1> DEFINE B == {n \in Nat : ~ \E f : IsOff(f, s, n)}
<1>1. B = {}
  <2> SUFFICES ASSUME B # {} PROVE FALSE OBVIOUS
  <2> DEFINE R == OpToRel(<, Nat)
  <2>1. IsWellFoundedOn(R, Nat) BY NatLessThanWellFounded
  <2>2. \A x, y \in Nat : <<x, y>> \in R <=> x < y BY DEF OpToRel
  <2> HIDE DEF R
  <2>3. B \in SUBSET Nat OBVIOUS
  <2> HIDE DEF B
  <2>4. PICK n \in B : \A y \in B : ~ (<<y, n>> \in R) BY <2>1, <2>3, WFMin
  <2>5. n \in Nat /\ \A y \in B : ~ (y < n) BY <2>2, <2>3, <2>4
  <2>6. ~ \E f : IsOff(f, s, n) BY <2>4 DEF B
  <2>7. CASE n = 0
    <3> DEFINE f == [c \in 1 .. n |-> 0]
    <3>1. f = [c \in 1 .. n |-> IF c = 1 THEN 0 ELSE f[c - 1] + s[c - 1].len] BY <2>7
    <3> HIDE DEF f
    <3>2. IsOff(f, s, n) BY <3>1 DEF IsOff
    <3> QED BY <2>6, <3>2
  <2>8. CASE n # 0
    <3>1. n - 1 \in Nat /\ n - 1 < n BY <2>5, <2>8
    <3>2. n - 1 \notin B BY <2>5, <3>1
    <3>3. PICK f : IsOff(f, s, n - 1) BY <3>1, <3>2 DEF B
    <3> DEFINE v == IF n = 1 THEN 0 ELSE f[n - 1] + s[n - 1].len
               g == [c \in 1 .. n |-> IF c = n THEN v ELSE f[c]]
    <3>4. ASSUME NEW c \in 1 .. n PROVE g[c] = IF c = 1 THEN 0 ELSE g[c - 1] + s[c - 1].len
      <4>1. CASE c = n
        <5>1. g[c] = v BY <3>4, <4>1
        <5>2. c # 1 => c - 1 \in 1 .. n /\ c - 1 # n BY <2>5, <2>8, <4>1
        <5>3. c # 1 => g[c - 1] = f[n - 1] BY <4>1, <5>2
        <5> QED BY <4>1, <5>1, <5>3
      <4>2. CASE c # n
        <5>1. c \in 1 .. n - 1 /\ g[c] = f[c] BY <2>5, <3>4, <4>2
        <5>2. f[c] = IF c = 1 THEN 0 ELSE f[c - 1] + s[c - 1].len BY <3>3, <5>1 DEF IsOff
        <5>3. c # 1 => c - 1 \in 1 .. n /\ c - 1 # n BY <2>5, <5>1
        <5>4. c # 1 => g[c - 1] = f[c - 1] BY <5>3
        <5> QED BY <5>1, <5>2, <5>4
      <4> QED BY <4>1, <4>2
    <3>5. g = [c \in 1 .. n |-> g[c]] OBVIOUS
    <3> HIDE DEF g
    <3>6. IsOff(g, s, n) BY <3>4, <3>5 DEF IsOff
    <3> QED BY <2>6, <3>6
  <2> QED BY <2>7, <2>8
<1> QED BY <1>1

\* Such a sum of lengths is a number, and never falls.
LEMMA OffGrows ==
  ASSUME NEW s, NEW l \in Nat, NEW f, IsOff(f, s, l + 1),
         \A i \in 1 .. l : s[i].len \in Nat
  PROVE  /\ \A i \in 1 .. l + 1 : f[i] \in Nat
         /\ \A i, j \in 1 .. l + 1 : i <= j => f[i] <= f[j]
<1> DEFINE OK(j) == f[j] \in Nat /\ \A i \in 1 .. j : f[i] <= f[j]
           B == {j \in 1 .. l + 1 : ~ OK(j)}
<1>1. B = {}
  <2> SUFFICES ASSUME B # {} PROVE FALSE OBVIOUS
  <2> DEFINE R == OpToRel(<, Nat)
  <2>1. IsWellFoundedOn(R, Nat) BY NatLessThanWellFounded
  <2>2. \A x, y \in Nat : <<x, y>> \in R <=> x < y BY DEF OpToRel
  <2> HIDE DEF R
  <2>3. B \in SUBSET Nat OBVIOUS
  <2> HIDE DEF B
  <2>4. PICK n \in B : \A y \in B : ~ (<<y, n>> \in R) BY <2>1, <2>3, WFMin
  <2>5. n \in Nat /\ \A y \in B : ~ (y < n) BY <2>2, <2>3, <2>4
  <2>6. n \in 1 .. l + 1 /\ ~ OK(n) BY <2>4 DEF B
  <2>7. f[n] = IF n = 1 THEN 0 ELSE f[n - 1] + s[n - 1].len BY <2>6 DEF IsOff
  <2>8. CASE n = 1
    <3>1. f[n] = 0 BY <2>7, <2>8
    <3>2. \A i \in 1 .. n : i = n BY <2>8
    <3> QED BY <2>6, <3>1, <3>2
  <2>9. CASE n # 1
    <3>1. n - 1 \in 1 .. l + 1 /\ n - 1 \in 1 .. l /\ n - 1 < n BY <2>6, <2>9
    <3>2. OK(n - 1) BY <2>5, <3>1 DEF B
    <3>3. s[n - 1].len \in Nat BY <3>1
    <3>4. f[n] = f[n - 1] + s[n - 1].len /\ f[n - 1] \in Nat BY <2>7, <2>9, <3>2
    <3>5. f[n] \in Nat /\ f[n - 1] <= f[n] BY <3>3, <3>4
    <3>6. ASSUME NEW i \in 1 .. n PROVE f[i] <= f[n]
      <4>1. CASE i = n BY <3>5, <4>1
      <4>2. CASE i # n
        <5>1. i \in 1 .. n - 1 /\ i \in 1 .. l + 1 /\ i < n BY <2>6, <3>6, <4>2
        <5>2. f[i] <= f[n - 1] BY <3>2, <5>1
        <5>3. OK(i) BY <2>5, <5>1 DEF B
        <5>4. f[i] \in Nat BY <5>3
        <5> QED BY <3>4, <3>5, <5>2, <5>4
      <4> QED BY <4>1, <4>2
    <3> QED BY <2>6, <3>5, <3>6
  <2> QED BY <2>8, <2>9
<1>2. \A j \in 1 .. l + 1 : OK(j) BY <1>1
<1>3. \A i, j \in 1 .. l + 1 : i <= j => i \in 1 .. j OBVIOUS
<1> HIDE DEF B
<1> QED BY <1>2, <1>3

\* What lies in memory: the table's entries first, each with its length.
LEMMA MemFacts ==
  ASSUME m \in Machines
  PROVE  /\ Mem \in Seq(Ics) /\ Len(Mem) \in Nat /\ Len(m.madt) \in 0 .. Len(Mem)
         /\ \A i \in 1 .. Len(m.madt) : Mem[i] = m.madt[i]
         /\ \A i \in 1 .. Len(Mem) : Mem[i].len \in Nat
<1> DEFINE a == m.madt  b == m.after
<1>1. a \in Seq(Ics) /\ b \in Seq(Ics) BY PlatformAssumption
<1>2. Mem = a \o b BY DEF Mem
<1> HIDE DEF a, b
<1>3. /\ a \o b \in Seq(Ics) /\ Len(a \o b) = Len(a) + Len(b)
      /\ Len(a) \in Nat /\ Len(b) \in Nat
      /\ \A i \in 1 .. Len(a) : (a \o b)[i] = a[i]
  BY <1>1
<1>4. \A i \in 1 .. Len(Mem) : Mem[i] \in Ics BY <1>2, <1>3, ElementOfSeq
<1>5. \A x \in Ics : x.len \in Nat BY DEF Ics
<1>6. Len(a) \in 0 .. Len(Mem) /\ Len(Mem) \in Nat BY <1>2, <1>3
<1> QED BY <1>2, <1>3, <1>4, <1>5, <1>6 DEF a

\* Where an entry starts, for every table.
LEMMA OffFacts ==
  ASSUME m \in Machines
  PROVE  /\ \A i \in 1 .. Len(Mem) + 1 : Off[i] \in Nat
         /\ \A i, j \in 1 .. Len(Mem) + 1 : i <= j => Off[i] <= Off[j]
<1> DEFINE s == Mem  l == Len(Mem)
<1>1. l \in Nat /\ \A i \in 1 .. l : s[i].len \in Nat BY MemFacts
<1>2. \E f : f = [c \in 1 .. l + 1 |-> IF c = 1 THEN 0 ELSE f[c - 1] + s[c - 1].len]
  <2> HIDE DEF s, l
  <2>1. l + 1 \in Nat BY <1>1
  <2> QED BY <2>1, OffExists DEF IsOff
<1>3. Off = [c \in 1 .. l + 1 |-> IF c = 1 THEN 0 ELSE Off[c - 1] + s[c - 1].len]
  BY <1>2 DEF Off
<1> HIDE DEF s, l
<1>4. IsOff(Off, s, l + 1) BY <1>3 DEF IsOff
<1>5. /\ \A i \in 1 .. l + 1 : Off[i] \in Nat
      /\ \A i, j \in 1 .. l + 1 : i <= j => Off[i] <= Off[j]
  BY <1>1, <1>4, OffGrows
<1> QED BY <1>5 DEF l

\* The least number of a set is below the others.
LEMMA NatMinLeast == ASSUME NEW S \in SUBSET Nat, NEW x \in S PROVE Min(S) <= x
<1> DEFINE R == OpToRel(<, Nat)
<1>1. IsWellFoundedOn(R, Nat) BY NatLessThanWellFounded
<1>2. \A u, v \in Nat : <<u, v>> \in R <=> u < v BY DEF OpToRel
<1> HIDE DEF R
<1>3. PICK z \in S : \A y \in S : ~ (<<y, z>> \in R) BY <1>1, WFMin
<1>4. \A y \in S : z <= y
  <2> TAKE y \in S
  <2>1. ~ (y < z) BY <1>2, <1>3
  <2> QED BY <2>1
<1>5. \E z1 \in S : \A y \in S : z1 <= y BY <1>4
<1> QED BY <1>5 DEF Min

\* The search in the table of one machine.
LEMMA SearchFinds == ASSUME MadtsSound, m \in Machines PROVE FindsNext
<1> SUFFICES ASSUME NEW t \in {"lapic", "ioapic", "iso"}, NEW c \in DOMAIN m.madt,
                    {x \in c + 1 .. Len(m.madt) : m.madt[x].type = t} # {}
             PROVE  findNextICS(t, c) = Min({x \in c + 1 .. Len(m.madt) : m.madt[x].type = t})
  BY DEF FindsNext
<1> DEFINE L == Len(m.madt)
           later == {x \in c + 1 .. L : m.madt[x].type = t}
           stop == {j \in 1 .. Len(Mem) - c : Mem[c + j].type = t \/ Mem[c + j].len = 0}
           x == Min(later)
           j == Min(stop)
<1>1. m.madt \in Seq(Ics) BY PlatformAssumption
<1>2. c \in 1 .. L /\ L \in 0 .. Len(Mem) /\ Len(Mem) \in Nat /\ L \in Nat
  BY <1>1, MemFacts
<1>3. \A i \in 1 .. L : Mem[i] = m.madt[i] /\ m.madt[i].len # 0
  BY <1>1, MemFacts DEF MadtsSound
<1>4. findNextICS(t, c) = IF c = 0 \/ stop = {} THEN 0
                          ELSE IF Clen(c, j) > MadtLength THEN 0
                          ELSE IF Mem[c + j].type = t THEN c + j ELSE -1
  BY DEF findNextICS
<1>5. later \in SUBSET Nat /\ stop \in SUBSET Nat BY <1>2
<1>6. x \in later BY <1>5, NatMin
<1> HIDE DEF L, x, j
<1>7. x \in c + 1 .. L /\ m.madt[x].type = t BY <1>6
<1>8. x - c \in stop
  <2>0. /\ c \in Nat /\ c >= 1 /\ L \in Nat /\ L <= Len(Mem) /\ Len(Mem) \in Nat
        /\ x \in Nat /\ x >= c + 1 /\ x <= L
    <3> HIDE DEF stop, later
    <3> QED BY <1>2, <1>7
  <2>1. x - c \in 1 .. Len(Mem) - c /\ c + (x - c) = x /\ x \in 1 .. L
    <3> DEFINE M == Len(Mem)
    <3> HIDE DEF stop, later, M
    <3>1. M \in Nat /\ L <= M BY <2>0 DEF M
    <3>2. x - c \in 1 .. M - c /\ c + (x - c) = x /\ x \in 1 .. L BY <2>0, <3>1, SMTT(30)
    <3> QED BY <3>2 DEF M
  <2>2. Mem[x].type = t BY <1>3, <1>7, <2>1
  <2> QED BY <2>1, <2>2
<1>9. j \in stop /\ j <= x - c BY <1>5, <1>8, NatMin, NatMinLeast DEF j
<1>10. j \in 1 .. Len(Mem) - c /\ (Mem[c + j].type = t \/ Mem[c + j].len = 0) BY <1>9
<1>11. c + j \in c + 1 .. L /\ c + j \in 1 .. L
  <2>1. c \in Nat /\ L \in Nat /\ x \in c + 1 .. L /\ j \in Nat /\ j >= 1 /\ c >= 1
    BY <1>2, <1>7, <1>10
  <2>2. j <= x - c BY <1>9
  <2> HIDE DEF stop, later
  <2> QED BY <2>1, <2>2
<1>12. m.madt[c + j].type = t /\ Mem[c + j].type = t BY <1>3, <1>10, <1>11
<1>13. c + j \in later BY <1>11, <1>12
<1>14. x <= c + j BY <1>5, <1>13, NatMinLeast DEF x
<1>15. c + j = x BY <1>2, <1>7, <1>9, <1>10, <1>14
<1>16. ~ (Clen(c, j) > MadtLength)
  <2>1. c \in 1 .. Len(Mem) + 1 /\ c + 1 \in 1 .. Len(Mem) + 1 /\ c + j \in 1 .. Len(Mem) + 1
        /\ L + 1 \in 1 .. Len(Mem) + 1 /\ c + j <= L + 1 /\ c <= c + 1
    BY <1>2, <1>11
  <2>2. /\ Off[c] \in Nat /\ Off[c + 1] \in Nat /\ Off[c + j] \in Nat /\ Off[L + 1] \in Nat
        /\ Off[c] <= Off[c + 1] /\ Off[c + j] <= Off[L + 1]
    BY <2>1, OffFacts
  <2>3. MadtLength = MadtSz + Off[L + 1] BY DEF MadtLength, L
  <2>4. MadtSz \in Nat BY PlatformAssumption
  <2> QED BY <2>2, <2>3, <2>4, SMTT(30) DEF Clen
<1>17. c # 0 /\ stop # {}
  <2> HIDE DEF stop
  <2> QED BY <1>2, <1>9
<1>18. findNextICS(t, c) = x BY <1>4, <1>12, <1>15, <1>16, <1>17
<1> QED BY <1>18 DEF x, L

\* The machine is chosen once.
LEMMA MachineStays == ASSUME m \in Machines, [PNext]_<<ivars, tvars, pvars>> PROVE m' \in Machines
<1>1. m' = m
  BY OthersKeepRoutes DEF initAPIC, Acpi, allocateIOAPICInterrupt, pvars
<1> QED BY <1>1

\* For every table whose entries have lengths, and every size of its header:
\* findNextICS() finds the next entry of a type when there is one, although it
\* counts the bytes of the wrong entry and has a limit that includes the
\* header (apic.c:22-39).
THEOREM NextIcsFound == ASSUME MadtsSound PROVE PSpec => []FindsNext
<1>1. PInit => m \in Machines BY DEF PInit
<1>2. m \in Machines /\ [PNext]_<<ivars, tvars, pvars>> => (m \in Machines)' BY MachineStays
<1>3. m \in Machines => FindsNext BY SearchFinds
<1> QED BY <1>1, <1>2, <1>3, PTL DEF PSpec

-----------------------------------------------------------------------------
(* The searches come to an end *)

\* No entry without length lies in the table or behind it.
LengthsSound ==
  \A x \in Machines : /\ \A i \in DOMAIN x.madt : x.madt[i].len # 0
                      /\ \A i \in DOMAIN x.after : x.after[i].len # 0

\* No loop of the kernel is held, and the count is at an entry.
SearchInv ==
  /\ m \in Machines /\ pc # "hung" /\ check \in Nat
  /\ pc = "count" /\ check > 0 => check \in 1 .. Len(Mem)

\* Then every entry in memory has its length.
LEMMA MemLengths ==
  ASSUME LengthsSound, m \in Machines PROVE \A i \in 1 .. Len(Mem) : Mem[i].len # 0
<1> DEFINE a == m.madt  b == m.after
<1>1. a \in Seq(Ics) /\ b \in Seq(Ics) BY PlatformAssumption
<1>2. (\A i \in DOMAIN a : a[i].len # 0) /\ (\A i \in DOMAIN b : b[i].len # 0) BY DEF LengthsSound
<1>3. Mem = a \o b BY DEF Mem
<1> HIDE DEF a, b
<1>4. Len(a) \in Nat /\ Len(b) \in Nat /\ DOMAIN a = 1 .. Len(a) /\ DOMAIN b = 1 .. Len(b)
      /\ Len(a \o b) = Len(a) + Len(b)
  BY <1>1, LenProperties
<1>5. ASSUME NEW i \in 1 .. Len(a \o b) PROVE (a \o b)[i].len # 0
  <2>1. CASE i <= Len(a)
    <3>1. i \in 1 .. Len(a) BY <1>4, <2>1
    <3>2. (a \o b)[i] = a[i] BY <1>1, <3>1
    <3> QED BY <1>2, <1>4, <3>1, <3>2
  <2>2. CASE ~ (i <= Len(a))
    <3>1. i - Len(a) \in 1 .. Len(b) BY <1>4, <2>2
    <3>2. (a \o b)[i] = b[i - Len(a)] BY <1>1, <1>4, <2>2
    <3> QED BY <1>2, <1>4, <3>1, <3>2
  <2> QED BY <2>1, <2>2
<1> QED BY <1>3, <1>5

\* A search ends at an entry or at none.
LEMMA SearchEnds ==
  ASSUME LengthsSound, m \in Machines, NEW t, NEW c \in Nat
  PROVE  findNextICS(t, c) \in {0} \cup 1 .. Len(Mem) /\ firstICS(t) \in Nat
<1>1. Len(Mem) \in Nat /\ \A i \in 1 .. Len(Mem) : Mem[i].len # 0 BY MemFacts, MemLengths
<1>2. ASSUME NEW d \in Nat PROVE findNextICS(t, d) \in {0} \cup 1 .. Len(Mem)
  <2> DEFINE stop == {j \in 1 .. Len(Mem) - d : Mem[d + j].type = t \/ Mem[d + j].len = 0}
             j == Min(stop)
  <2>1. findNextICS(t, d) = IF d = 0 \/ stop = {} THEN 0
                            ELSE IF Clen(d, j) > MadtLength THEN 0
                            ELSE IF Mem[d + j].type = t THEN d + j ELSE -1
    BY DEF findNextICS
  <2>2. CASE stop = {} BY <2>1, <2>2
  <2>3. CASE stop # {}
    <3>1. stop \in SUBSET Nat BY <1>1
    <3>2. j \in stop BY <2>3, <3>1, NatMin
    <3> HIDE DEF j
    <3>3. j \in 1 .. Len(Mem) - d /\ (Mem[d + j].type = t \/ Mem[d + j].len = 0) BY <3>2
    <3>4. d + j \in 1 .. Len(Mem) BY <1>1, <3>3
    <3>5. Mem[d + j].type = t BY <1>1, <3>3, <3>4
    <3> QED BY <2>1, <3>4, <3>5
  <2> QED BY <2>2, <2>3
<1>3. findNextICS(t, 1) \in Nat
  <2>1. findNextICS(t, 1) \in {0} \cup 1 .. Len(Mem) BY <1>2
  <2> QED BY <2>1, <1>1
<1> QED BY <1>2, <1>3 DEF firstICS

\* The search for the interval timer's override ends as well.
LEMMA PitEnds == ASSUME LengthsSound, m \in Machines PROVE ~ PitSearchHangs
<1> DEFINE S == Isos \cup {1}
<1>1. m.madt \in Seq(Ics) BY PlatformAssumption
<1>2. Len(m.madt) \in Nat BY <1>1, LenProperties
<1>3. S \subseteq 1 .. Len(m.madt) + 1 BY <1>2 DEF Isos
<1>4. \E x \in S : \A y \in S : y <= x
  <2> DEFINE T == {Len(m.madt) + 1 - x : x \in S}
  <2>1. T \in SUBSET Nat BY <1>2, <1>3
  <2>2. Len(m.madt) + 1 - 1 \in T OBVIOUS
  <2>3. T # {} BY <2>2
  <2> HIDE DEF T
  <2>4. Min(T) \in T /\ \A z \in T : Min(T) <= z BY <2>1, <2>3, NatMin, NatMinLeast
  <2> DEFINE w == Min(T)
  <2> HIDE DEF w
  <2>5. PICK x \in S : w = Len(m.madt) + 1 - x BY <2>4 DEF T, w
  <2>6. \A y \in S : w <= Len(m.madt) + 1 - y BY <2>4 DEF T, w
  <2>7. \A y \in S : y <= x
    <3> TAKE y \in S
    <3>1. y \in Nat /\ x \in Nat BY <1>3
    <3> QED BY <1>2, <2>5, <2>6, <3>1
  <2> QED BY <2>7
<1>5. Max(S) \in S BY <1>4 DEF Max
<1>6. Max(S) \in Nat BY <1>3, <1>5
<1>7. findNextICS("iso", Max(S)) \in {0} \cup 1 .. Len(Mem) BY <1>6, SearchEnds
<1>8. findNextICS("iso", Max(S)) # -1 BY <1>7, MemFacts
<1> QED BY <1>8 DEF PitSearchHangs

\* On every machine whose entries, in the MADT and behind it, have lengths: no
\* search of the APIC's tables runs for ever (apic.c:22-90, ioapic.c).  BootEnds
\* rests on this.
THEOREM NoSearchHangs == ASSUME LengthsSound PROVE PSpec => [](pc # "hung")
<1>1. PInit => SearchInv BY DEF PInit, SearchInv
<1>2. SearchInv /\ [PNext]_<<ivars, tvars, pvars>> => SearchInv'
  <2> SUFFICES ASSUME SearchInv, [PNext]_<<ivars, tvars, pvars>> PROVE SearchInv' OBVIOUS
  <2>0. m' = m BY OthersKeepRoutes DEF initAPIC, Acpi, allocateIOAPICInterrupt, pvars
  <2>1. m \in Machines /\ Len(Mem)' = Len(Mem) BY <2>0 DEF SearchInv, Mem
  <2>2. ASSUME NEW t, NEW c \in Nat PROVE findNextICS(t, c) \in Nat /\ firstICS(t) \in Nat
    <3>1. findNextICS(t, c) \in {0} \cup 1 .. Len(Mem) /\ firstICS(t) \in Nat BY <2>1, SearchEnds
    <3> QED BY <3>1, <2>1, MemFacts
  <2>3. CASE initACPI BY <2>3, <2>0 DEF initACPI, Acpi, tableVars, SearchInv
  <2>4. CASE indentifyTable
    <3>1. pc' \in {"pci", "table", "ioapic"}
          /\ (check' = check \/ check' = firstICS("ioapic"))
      BY <2>4 DEF indentifyTable, Acpi, tableVars
    <3> QED BY <3>1, <2>0, <2>2 DEF SearchInv
  <2>5. ~ hung
    <3>1. ~ PitSearchHangs BY <2>1, PitEnds
    <3>2. check # -1 BY DEF SearchInv
    <3> QED BY <3>1, <3>2 DEF hung
  <2>6. CASE initAPIC
    <3>1. pc' = "ioapic" /\ check' = findNextICS("ioapic", check) /\ check \in Nat
      BY <2>6 DEF initAPIC, Acpi, SearchInv
    <3> QED BY <3>1, <2>0, <2>2 DEF SearchInv
  <2>7. CASE countFrom
    <3>1. pc' = "count" /\ check' = findNextICS("lapic", firstICS("ioapic"))
      BY <2>7 DEF countFrom, Acpi
    <3>2. firstICS("ioapic") \in Nat BY <2>2
    <3>3. check' \in {0} \cup 1 .. Len(Mem) BY <3>1, <3>2, <2>1, SearchEnds
    <3> QED BY <3>1, <3>3, <2>0, <2>1, MemFacts DEF SearchInv
  <2>8. CASE countLapic
    <3>1. /\ pc = "count" /\ check > 0 /\ pc' = "count"
          /\ check' = IF Mem[check].len = 0 THEN -1 ELSE findNextICS("lapic", check)
      BY <2>8 DEF countLapic, Acpi
    <3>2. check \in 1 .. Len(Mem) /\ check \in Nat BY <3>1 DEF SearchInv
    <3>3. Mem[check].len # 0 BY <3>2, <2>1, MemLengths
    <3>4. check' \in {0} \cup 1 .. Len(Mem) BY <3>1, <3>2, <3>3, <2>1, SearchEnds
    <3> QED BY <3>1, <3>4, <2>0, <2>1, MemFacts DEF SearchInv
  <2>9. CASE initLapic BY <2>9, <2>0 DEF initLapic, Acpi, SearchInv
  <2>10. CASE initPCI \/ scanBus \/ findAHCI
    BY <2>10, <2>0 DEF initPCI, scanBus, findAHCI, Pci, tableVars, SearchInv
  <2>11. CASE initAHCI \/ waitBios \/ resetHBA \/ waitReset \/ initMSIX \/ initPort
    BY <2>11, <2>0 DEF initAHCI, waitBios, resetHBA, waitReset, initMSIX, initPort, Ahci, Pci,
       tableVars, SearchInv
  <2>12. CASE \/ Hardware \/ (\E v \in {16, 254} : allocateIOAPICInterrupt(v))
              \/ Tasking \/ UNCHANGED <<ivars, tvars, pvars>>
    <3>1. UNCHANGED <<pc, check>>
      BY <2>12 DEF Hardware, allocateIOAPICInterrupt, Tasking, tableVars, pvars
    <3> QED BY <3>1, <2>0, <2>1 DEF SearchInv
  <2> QED BY <2>3, <2>4, <2>5, <2>6, <2>7, <2>8, <2>9, <2>10, <2>11, <2>12 DEF PNext, Kernel, Quiet
<1>3. SearchInv => pc # "hung" BY DEF SearchInv
<1> QED BY <1>1, <1>2, <1>3, PTL DEF PSpec
=============================================================================
