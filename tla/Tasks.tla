------------------------------- MODULE Tasks --------------------------------
(***************************************************************************)
(* The task that memory management works for (task.c), sleeping (sleep.c)  *)
(* and the queue of timer events (timer.c), on the processor of module     *)
(* Interrupts.  No code sets suspendedQueueSize, so unsuspendProcess()     *)
(* finds nobody, and no code switches tasks: the kernel's is the only one. *)
(* Drivers may queue events of their own.                                  *)
(***************************************************************************)
EXTENDS Interrupts, Bags

CONSTANTS
  QSize,      \* slots of the event queue, 100 in initTimers()
  Times,      \* the times that are slept
  NsBits,     \* width of a time, 64
  MaxSleeps,  \* calls of addTimerEvent()
  Errors      \* error codes

ASSUME QueueAssumption == QSize \in Nat \ {0} /\ Times \subseteq 1 .. 2^NsBits - 1 /\ MaxSleeps \in Nat

VARIABLES
  boot,       \* the next step of createFakeTask() and initTasking()
  sched,      \* what scheduler points to: NULL, "fschedule" or "array"
  current,    \* scheduler->currentTask: NULL, "junk", "ftask" or "kt"
  vmem,       \* the marker list of each ticket
  ec,         \* the error code of each ticket
  queueLock,
  flagged,    \* TASK_FLAG_BLOCKED of the current task
  idle,       \* switchTask()'s loop
  queue,      \* timer.c's array: [ns, call, id], with ns = 0 in a free slot
  next,
  sleep,      \* addTimerEvent(): what it does next, its time and caller, v and p
  slept       \* the times and callbacks that it was given

tickets == <<vmem, ec, flagged>>
schedule == <<boot, sched, current, queueLock, idle>>
events == <<queue, next>>
tvars == <<tickets, schedule, events, sleep, slept>>

Slot == 0 .. QSize - 1
Ticket == {"ftask", "kt"}

\* Whose id and callback an event has: the task's, which is sleepEnd(), or a
\* driver's.
Caller == Drivers \cup {"task"}
Awake == [pc |-> "no", ns |-> 0, who |-> "task", v |-> 0, p |-> 0]
Cleared == [ns |-> 0, call |-> NULL, id |-> NULL]

\* initTimers() ran: the queue is clear.
TInit ==
  /\ boot = "fake" /\ sched = NULL /\ current = NULL /\ queueLock = FALSE
  /\ vmem = [t \in Ticket |-> NULL] /\ ec = [t \in Ticket |-> 0]
  /\ flagged = FALSE /\ idle = FALSE
  /\ queue = [i \in Slot |-> Cleared] /\ next = 0 /\ sleep = Awake /\ slept = EmptyBag

-----------------------------------------------------------------------------
(* Boot *)

\* One step of the boot: where the scheduler and the current task are after.
Boot(from, to, s, c, vm, locked) ==
  /\ Running /\ boot = from /\ boot' = to
  /\ sched' = s /\ current' = c /\ vmem' = vm /\ queueLock' = locked
  /\ UNCHANGED <<ivars, ec, flagged, idle, events, sleep, slept>>

\* createTicket() takes queueLock and keeps it.
createTicket(then, vm) ==
  ~queueLock /\ Boot("ticket", then, sched, current, [vmem EXCEPT !["kt"] = vm], TRUE)

createFakeTask ==
  Boot("fake", "cache", "fschedule", "ftask",
       [vmem EXCEPT !["ftask"] = "markers"], queueLock)

\* Mutant: the kernel's ticket is made while currentTask is what the array
\* was allocated with.
initTaskingEarly ==
  \/ Boot("cache", "array", sched, current, vmem, queueLock)
  \/ Boot("array", "ticket", "array", "junk", vmem, queueLock)
  \/ createTicket("kt", vmem["ftask"])
  \/ Boot("kt", "done", sched, "kt", vmem, queueLock)

\* initTasking(): the ticket cache; the array of schedulers, not cleared; its
\* task; createTicket(); the kernel's ticket.
initTasking ==
  \/ Boot("cache", "array", sched, current, vmem, queueLock)
  \/ Boot("array", "current", "array", "junk", vmem, queueLock)
  \/ Boot("current", "ticket", sched, "ftask", vmem, queueLock)
  \/ createTicket("kt", vmem["ftask"])
  \/ Boot("kt", "done", sched, "kt", vmem, queueLock)

getCurrentTask == current

\* The steps that allocate, and so may have to ask the current task for its
\* markers; the first of all is served by the initial heap.
Allocates == boot \in {"cache", "array", "ticket", "done"}

\* setErrorCode() writes, and getErrorCode() reads, the current ticket.
setErrorCode(err) ==
  /\ Running /\ boot = "done" /\ ec[getCurrentTask] # err
  /\ ec' = [ec EXCEPT ![getCurrentTask] = err]
  /\ UNCHANGED <<ivars, vmem, flagged, schedule, events, sleep, slept>>

-----------------------------------------------------------------------------
(* Sleeping *)

Sleep(from, to, q, n) ==
  /\ Running /\ ~idle /\ sleep.pc = from /\ sleep' = to
  /\ queue' = q /\ next' = n
  /\ UNCHANGED <<schedule, vmem, ec>>

\* The flag is set, and the caller runs on.
suspendProcess == flagged' = TRUE

\* addTimerEvent() is entered for a caller's event.
Call(ns, who) ==
  /\ boot = "done" /\ BagCardinality(slept) < MaxSleeps
  /\ Sleep("no", [Awake EXCEPT !.pc = "add", !.ns = ns, !.who = who], queue, next)

sysSleepns(ns) == Call(ns, "task") /\ suspendProcess /\ UNCHANGED <<ivars, slept>>

driverEvent(ns, d) == Call(ns, d) /\ UNCHANGED <<ivars, flagged, slept>>

\* The macro does not bracket its argument, ((next%2) == 0) ? v : (v-1): only
\* the second branch is halved.  Which branch is asked of next in every round.
\* Slots 0 and 1, and 2 and 0 on the way up, have a parent outside the queue.
TIMER_PARENT(v) == (IF next % 2 = 0 THEN v ELSE (v - 1) \div 2) - 1

\* addTimerEvent() writes the slot, which is outside the queue once no slot
\* is free.
AddWrite ==
  /\ \/ /\ next \in Slot
        /\ Sleep("add", [sleep EXCEPT !.pc = "sift", !.v = next, !.p = TIMER_PARENT(next)],
                 [queue EXCEPT ![next] = [ns |-> sleep.ns, call |-> sleep.who, id |-> sleep.who]], next)
        /\ UNCHANGED cpu
     \/ next = QSize /\ Sleep("add", [sleep EXCEPT !.pc = "sift"], queue, next) /\ cpu' = "fault"
  /\ slept' = slept (+) SetToBag({<<sleep.ns, sleep.who>>})
  /\ UNCHANGED <<handlers, frames, rsp, inService, calls, pit, pitirq, wait, flagged>>

\* Mutant: the event moves up and the parent's does not come down.
SwappedLost(v, p) == [queue EXCEPT ![p] = [queue[v] EXCEPT !.id = queue[p].id]]

\* The swap takes the time and the callback, and leaves the id behind.
Swapped(v, p) ==
  [queue EXCEPT ![v] = [queue[p] EXCEPT !.id = queue[v].id],
                ![p] = [queue[v] EXCEPT !.id = queue[p].id]]

\* One round of the loop.
Sift ==
  /\ sleep.p \in Slot /\ queue[sleep.v].ns < queue[sleep.p].ns
  /\ Sleep("sift", [sleep EXCEPT !.v = sleep.p, !.p = TIMER_PARENT(sleep.p)],
           Swapped(sleep.v, sleep.p), next)
  /\ UNCHANGED <<ivars, flagged, slept>>

\* A read some 50 or 100 GB past the queue: a page fault, or memory that holds
\* more, with which the event changes places.
SiftWild ==
  /\ sleep.p \notin Slot
  /\ Sleep("sift", sleep, queue, next) /\ cpu' \in {"fault", "astray"}
  /\ UNCHANGED <<handlers, frames, rsp, inService, calls, pit, pitirq, wait, flagged, slept>>

\* The parent, or what is read for it, is not larger: next moves to a free
\* slot, or past the end.
AddPlace ==
  /\ sleep.p \in Slot => queue[sleep.v].ns >= queue[sleep.p].ns
  /\ \E n \in next + 1 .. QSize :
       /\ n < QSize => queue[n].ns = 0
       /\ \A i \in next + 1 .. n - 1 : queue[i].ns # 0
       /\ Sleep("sift", Awake, queue, n)
  /\ UNCHANGED <<ivars, flagged, slept>>

addTimerEvent == AddWrite \/ Sift \/ SiftWild \/ AddPlace

\* The end of an event: a call through the first slot, which an empty queue
\* does not have; the wake-up, which finds nobody; then every later time is
\* reduced, and resortTree(), whose jump skips its test, runs out of memory.
\* A zero on the way ends it all early.
timerEnd ==
  /\ cpu = "run" /\ boot = "done"
  /\ LET upTo == {i \in 1 .. next - 1 : \A j \in 1 .. i : queue[j].ns # 0}
     IN \/ queue[0].ns = 0 /\ cpu' = "fault" /\ UNCHANGED queue
        \/ /\ queue[0].ns # 0
           /\ queue' = [i \in Slot |->
                LET left == (queue[i].ns - queue[0].ns) % 2^NsBits
                IN  IF i = 0 THEN [queue[i] EXCEPT !.ns = 0]
                    ELSE IF i \notin upTo THEN queue[i]
                    ELSE [queue[i] EXCEPT !.ns = left, !.call = IF left = 0 THEN NULL ELSE @]]
           /\ cpu' = IF upTo = 1 .. next - 1 THEN "stuck" ELSE cpu
  /\ UNCHANGED <<handlers, frames, rsp, inService, calls, pit, pitirq, wait,
                 tickets, schedule, next, sleep, slept>>

\* taskSwitchEntry() saves the registers; switchTask() halts while the task
\* is blocked, and its return takes a saved register for an address.
taskSwitchEntry ==
  /\ Running /\ boot = "done" /\ ~idle /\ sleep.pc = "no"
  /\ idle' = TRUE /\ cpu' = IF flagged THEN cpu ELSE "astray"
  /\ UNCHANGED <<handlers, frames, rsp, inService, calls, pit, pitirq, wait,
                 tickets, boot, sched, current, queueLock, events, sleep, slept>>

TNext ==
  \/ createFakeTask \/ initTasking \/ addTimerEvent \/ timerEnd \/ taskSwitchEntry
  \/ \E err \in Errors : setErrorCode(err)
  \/ \E ns \in Times : sysSleepns(ns) \/ \E d \in Drivers : driverEvent(ns, d)

\* Interrupts come between any two steps of a task.
TSpec == IInit /\ TInit /\ [][TNext \/ (INext /\ UNCHANGED tvars)]_<<ivars, tvars>>

-----------------------------------------------------------------------------
(* Properties *)

\* The slots that hold an event with this time and callback, and how often
\* one was asked for.
Holding(t, c) == {i \in Slot : queue[i].ns = t /\ queue[i].call = c}
Asked(t, c) == IF BagIn(<<t, c>>, slept) THEN slept[<<t, c>>] ELSE 0

\* The slots with a caller's callback, and with its id.
Calling(c) == {i \in Slot : queue[i].ns # 0 /\ queue[i].call = c}
Named(c) == {i \in Slot : queue[i].ns # 0 /\ queue[i].id = c}

\* Sorting the queue loses no event and makes none up, although the parents
\* it compares with are the wrong ones: while the kernel runs, its times and
\* their callbacks are those that were asked for, and it has as many ids of a
\* caller as callbacks; and a task that is blocked has an event, or is on its
\* way to it (timer.c:67-91, sleep.c:21-28).
EventsKept ==
  cpu = "run" =>
    /\ \A t \in 1 .. 2^NsBits - 1, c \in Caller : Cardinality(Holding(t, c)) = Asked(t, c)
    /\ \A c \in Caller : Cardinality(Calling(c)) = Cardinality(Named(c))
    /\ flagged => sleep.pc = "add" \/ slept # EmptyBag

\* "Unique ID set by the caller" (timer.h:27): an event keeps the id that it
\* was queued with.
IdKept == cpu = "run" => \A i \in Slot : queue[i].call = queue[i].id

\* Whenever the kernel allocates, the current task has the kernel's markers
\* (vmm.c:202): neither the switch from the boot's scheduler nor the one to
\* the kernel's ticket leaves a moment without (task.c:157-203).
MarkersReachable ==
  Allocates => getCurrentTask \in Ticket /\ vmem[getCurrentTask] = "markers"

\* "Min-heap tree" (timer.c:11): the next event to end is the first.
RootFirst == cpu = "run" /\ sleep.pc = "no" => \A i \in Slot : queue[i].ns # 0 => queue[0].ns <= queue[i].ns
=============================================================================
