----------------------------- MODULE Interrupts -----------------------------
(***************************************************************************)
(* Interrupts on the one core: the handler table and its dispatch (cpu.c), *)
(* the entry stubs (cpu.asm), and the interval timer that the kernel waits *)
(* for (pit.c).  The gates are interrupt gates, so a handler runs with     *)
(* interrupts off; exceptions come at any time.  The local APIC, hardware, *)
(* delivers a vector only while none of its class or a higher one is in    *)
(* service, and the kernel never ends one: lapicInterrupt() is empty.      *)
(***************************************************************************)
EXTENDS Integers, Sequences, FiniteSets

CONSTANTS
  Vector,     \* the vectors that occur
  Drivers,    \* handlers that drivers install; each returns
  NULL,
  MaxCalls    \* how often drivers change the table

ASSUME VectorAssumption == Vector \subseteq 0 .. 254 /\ 32 \in Vector /\ MaxCalls \in Nat

VARIABLES
  cpu,        \* "run", "halt", "lost" after a bad return, "fault", "stuck"
  handlers,   \* the table: addInterruptHandler() reaches past its 30 slots
  frames,     \* the vectors whose handlers are running, innermost first
  rsp,        \* words that interrupts have left on the stack
  inService,  \* the local APIC's vectors in service
  calls,      \* changes to the table so far
  pit,        \* the one-shot timer: "off", "armed", "fired"
  pitirq,     \* pit.c's flag
  wait        \* pitCalibrate(): "no", "out", "test", "hlt", "asleep", "done"

ivars == <<cpu, handlers, frames, rsp, inService, calls, pit, pitirq, wait>>

IInit ==
  /\ cpu = "run" /\ frames = <<>> /\ rsp = 0 /\ inService = {} /\ calls = 0
  /\ handlers = [v \in Vector |-> IF v = 32 THEN "pit" ELSE NULL]  \* initPIT()
  /\ pit = "off" /\ pitirq = FALSE /\ wait = "no"

\* The kernel's own code runs: no handler does, and it is not in a hlt.
Running == cpu = "run" /\ frames = <<>> /\ wait # "asleep"

-----------------------------------------------------------------------------
(* The table *)

Table(v, h) ==
  /\ Running /\ calls < MaxCalls /\ calls' = calls + 1
  /\ handlers' = [handlers EXCEPT ![v] = h]
  /\ UNCHANGED <<cpu, frames, rsp, inService, pit, pitirq, wait>>

addInterruptHandler(v, h) == Table(v, h)

removeInterruptHandler(v) == Table(v, NULL)

\* The first free slot from 19 on, exception vectors included, is the
\* driver's.
allocateInterrupt(h) ==
  \E v \in {x \in Vector : x >= 19 /\ handlers[x] = NULL} :
    /\ \A x \in Vector : x >= 19 /\ handlers[x] = NULL => v <= x
    /\ Table(v, h)

-----------------------------------------------------------------------------
(* Entry, dispatch and return *)

\* The vectors for which the processor pushes an error code, and those whose
\* stub is ISR_ERROR_CODE, expects it and pushes no zero.
HasError(v) == v \in {8, 10, 11, 12, 13, 14, 17, 21, 29, 30}
StubError(v) == v \in {8, 10, 11, 12, 13, 14, 21}

\* Mutant: the IRQ stubs push a zero as the others do.
BelowRegsAll(v) == (IF HasError(v) THEN 1 ELSE 0) + (IF StubError(v) THEN 0 ELSE 1)

\* The words between the processor's frame and the saved registers.
BelowRegs(v) ==
  IF v >= 32 THEN 0
  ELSE (IF HasError(v) THEN 1 ELSE 0) + (IF StubError(v) THEN 0 ELSE 1)

\* A gate is present for vectors 0 to 47; another one is a general protection
\* fault.
Gate(v) == IF v <= 47 THEN v ELSE 13

Enter(v) ==
  /\ frames' = <<v>> \o frames
  /\ rsp' = rsp + 5 + BelowRegs(v) + 15

\* An exception in whatever runs.
exception(v) ==
  /\ cpu = "run" /\ v < 32 /\ Len(frames) < 2 /\ wait # "asleep"
  /\ Enter(v)
  /\ UNCHANGED <<cpu, handlers, inService, calls, pit, pitirq, wait>>

Class(v) == v \div 16

\* An interrupt that the local APIC delivers; it ends a hlt.
interrupt(v) ==
  /\ cpu = "run" /\ frames = <<>> /\ v >= 19
  /\ v = 32 => pit = "armed"
  /\ \A s \in inService : Class(v) > Class(s)
  /\ Enter(Gate(v))
  /\ inService' = inService \cup {v}
  /\ pit' = IF v = 32 THEN "fired" ELSE pit
  /\ wait' = IF wait = "asleep" THEN "test" ELSE wait
  /\ UNCHANGED <<cpu, handlers, calls, pitirq>>

BuiltIn == {0, 1, 6, 8, 13, 14}

\* isr(): the built-in handlers print and halt, and so does a vector that no
\* driver has; a driver's handler returns to the stub.
isr ==
  /\ cpu = "run" /\ frames # <<>> /\ Head(frames) < 32
  /\ \/ /\ Head(frames) \in BuiltIn \/ handlers[Head(frames)] = NULL
        /\ cpu' = "halt" /\ UNCHANGED <<frames, rsp>>
     \/ /\ Head(frames) \notin BuiltIn /\ handlers[Head(frames)] # NULL
        /\ frames' = Tail(frames) /\ rsp' = rsp - 15 - 5
        /\ cpu' = IF BelowRegs(Head(frames)) # 0 THEN "lost" ELSE "run"
  /\ UNCHANGED <<handlers, inService, calls, pit, pitirq, wait>>

pitInterrupt == pitirq' = TRUE

\* irq(): a vector without a handler is a warning.  popall and iretq then
\* take what is on top of the stack.
irq ==
  /\ cpu = "run" /\ frames # <<>> /\ Head(frames) >= 32
  /\ IF handlers[Head(frames)] = "pit" THEN pitInterrupt ELSE UNCHANGED pitirq
  /\ frames' = Tail(frames) /\ rsp' = rsp - 15 - 5
  /\ cpu' = IF BelowRegs(Head(frames)) # 0 THEN "lost" ELSE "run"
  /\ UNCHANGED <<handlers, inService, calls, pit, wait>>

-----------------------------------------------------------------------------
(* The interval timer *)

Pit(from, to, p, flag) ==
  /\ Running /\ wait = from /\ wait' = to /\ pit' = p /\ pitirq' = flag
  /\ UNCHANGED <<cpu, handlers, frames, rsp, inService, calls>>

\* pitOneShot() clears the flag and then writes the count.
pitOneShot == Pit("no", "out", pit, FALSE) \/ Pit("out", "test", "armed", pitirq)

\* pitCalibrate()'s loop: a test, then a hlt that the next interrupt ends.
pitCalibrate ==
  \/ pitirq /\ Pit("test", "done", pit, pitirq)
  \/ ~pitirq /\ Pit("test", "hlt", pit, pitirq)
  \/ Pit("hlt", "asleep", pit, pitirq)

INext ==
  \/ \E v \in Vector : exception(v) \/ interrupt(v) \/ removeInterruptHandler(v)
  \/ \E v \in Vector, h \in Drivers : addInterruptHandler(v, h)
  \/ \E h \in Drivers : allocateInterrupt(h)
  \/ isr \/ irq \/ pitOneShot \/ pitCalibrate

ISpec == IInit /\ [][INext]_ivars

-----------------------------------------------------------------------------
(* Properties *)

\* The code that an interrupt stopped finds its stack as it left it: only a
\* handler below vector 32 that returns, past the word its stub leaves on
\* the stack, loses the way (cpu.asm:131-173).
ResumesIntact ==
  /\ frames = <<>> /\ cpu = "run" => rsp = 0
  /\ cpu = "lost" => \E v \in Vector : v < 32 /\ handlers[v] # NULL

\* "Wait for PIT" (lapic.c:91): pitCalibrate() comes back.
WaitEnds == (wait = "out") ~> (wait = "done" \/ cpu # "run")
=============================================================================
