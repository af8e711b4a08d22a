----------------------------- MODULE FrameStack -----------------------------
(***************************************************************************)
(* The two users of the data stack.  getPhysmem() (vmm.c) pops a page      *)
(* frame and refills the stack when it is empty; newPagetable() (paging.c) *)
(* refills it when fewer than LowWater frames are left, then pops.  Both   *)
(* refill with the page frames of one block from allocPhys().  A behaviour *)
(* is that of one of them, with its own stack: they share no state.        *)
(*                                                                         *)
(* growPageStack() maps its block before it pushes the frames.  The        *)
(* mapping may find a page table missing and call newPagetable() again,    *)
(* whose refill then runs inside the first one.  Which tables are there is *)
(* up to the boot loader and to where vmallocPhys() finds room, so here    *)
(* any mapping may need some.                                              *)
(*                                                                         *)
(* A page frame is named by its block and its place there; blocks with     *)
(* consecutive numbers are neighbours in physical memory.                  *)
(***************************************************************************)
EXTENDS Dstack

CONSTANT Users  \* getPhysmem() and newPagetable(), or others like them:
                \* .blocks  the blocks that allocPhys() can return to it
                \* .chunk   page frames in a block, by the size allocPhys() reports
                \* .extra   page frames pushed beyond the block
                \* .low     the count below which a call refills first
                \* .boot    is the stack filled when it is created?
                \* .tables  page tables that the mapping of a block may need;
                \*          0 where a refill maps nothing

Frames == Nat \X Nat

ASSUME FrameAssumption ==
  /\ Item \subseteq Frames /\ InitSizes \subseteq Nat \ {0}
  /\ Users \subseteq [blocks : SUBSET Nat, chunk : Nat \ {0}, extra : {0, 1},
                      low : Nat, boot : BOOLEAN, tables : Nat]
  /\ \A u \in Users : u.tables # 0 => u.low # 0 /\ ~u.boot
  /\ \A u \in Users : \A b \in u.blocks, i \in 0 .. u.chunk - 1 :
       <<b, i>> \in Item /\ <<b + 1, 0>> \in Item

VARIABLES
  user,   \* whose stack this is
  step,   \* where the running call is
  back,   \* where the refill returns to
  blk,    \* the block being pushed
  cnt,    \* how many of its frames have been pushed
  owned,  \* the blocks that allocPhys() returned
  given,  \* the frames handed to callers
  tabs,   \* how many page tables the mapping of blk has taken
  calls,  \* the refills that wait for a page table: block and tables taken
  nested  \* history: has a refill run inside another?

fvars == <<user, step, back, blk, cnt, owned, given, tabs, calls, nested>>
allvars == <<vars, fvars>>

\* The numbers of the stack that is used.
Blocks == user.blocks
Chunk == user.chunk
LowWater == user.low

\* Mutant: the block's address, whatever the frame.
FrameFirst(b, i) == <<b, 0>>

\* ptr + i * PAGE_SZ: behind its last frame a block's neighbour begins.
Frame(b, i) == IF i = Chunk THEN <<b + 1, 0>> ELSE <<b, i>>

FInit ==
  /\ user \in Users
  /\ \E sz \in InitSizes : mem = Resized(<<>>, sz) /\ maxSize = sz
  /\ live = TRUE /\ top = 0 /\ lock = 0 /\ ret = Nothing /\ hung = FALSE
  /\ step = (IF user.boot THEN "alloc" ELSE "idle") /\ back = "idle"
  /\ blk = 0 /\ cnt = 0 /\ owned = {} /\ given = {}
  /\ tabs = 0 /\ calls = <<>> /\ nested = FALSE

\* Mutant: refill on every call.
RefillAlways == TRUE

\* newPagetable()'s test.
NeedFill == top \div Word < LowWater

\* A call goes on with a refill, inside the refills that wait, or with the
\* pop.
Refill == step' = "alloc" /\ nested' = (nested \/ calls' # <<>>)
Pop == step' = "take" /\ UNCHANGED nested

\* A call begins.
CallForFrame ==
  /\ step = "idle"
  /\ UNCHANGED calls
  /\ (NeedFill /\ Refill) \/ (~NeedFill /\ Pop)
  /\ back' = "take"
  /\ UNCHANGED <<vars, user, blk, cnt, owned, given, tabs>>

\* allocPhys() returns a block that is not in use, or the kernel stops.
AllocBlock ==
  /\ step = "alloc"
  /\ \/ \E b \in Blocks \ owned :
          /\ owned' = owned \cup {b} /\ blk' = b /\ cnt' = 0 /\ tabs' = 0
          /\ step' = "map"
     \/ Blocks \subseteq owned /\ step' = "oom" /\ UNCHANGED <<owned, blk, cnt, tabs>>
  /\ UNCHANGED <<vars, user, back, given, calls, nested>>

\* vmallocPhys() finds a page table missing and calls newPagetable() before
\* the first frame of the block is pushed.
MapNeedsTable ==
  /\ step = "map" /\ tabs < user.tables
  /\ calls' = Append(calls, [blk |-> blk, tabs |-> tabs + 1])
  /\ (NeedFill /\ Refill) \/ (~NeedFill /\ Pop)
  /\ back' = "take"
  /\ UNCHANGED <<vars, user, blk, cnt, owned, given, tabs>>

\* The block is mapped, or the refill maps nothing: the loop begins.
MapDone ==
  /\ step = "map"
  /\ step' = "fill" /\ cnt' = 0
  /\ UNCHANGED <<vars, user, back, blk, owned, given, tabs, calls, nested>>

\* Mutants: one frame too many; the bound in pages, the index in bytes.
FillLenPlus == Chunk + user.extra + 1
FillLenPages == 1

\* The number of frames the loop pushes: i < sz, or i <= sz.
FillLen == Chunk + user.extra

PushFrame ==
  /\ step = "fill" /\ cnt < FillLen
  /\ PushStack(Frame(blk, cnt))
  /\ cnt' = (IF hung' THEN cnt ELSE cnt + 1)
  /\ UNCHANGED <<user, step, back, blk, owned, given, tabs, calls, nested>>

FillDone ==
  /\ step = "fill" /\ cnt >= FillLen
  /\ step' = back
  /\ UNCHANGED <<vars, user, back, blk, cnt, owned, given, tabs, calls, nested>>

\* The frame goes to the caller, or becomes the table that the innermost
\* waiting refill asked for.
TakeReturns ==
  /\ given' = given \cup {ret'.val}
  /\ \/ calls = <<>> /\ step' = "idle" /\ UNCHANGED <<blk, tabs, calls>>
     \/ /\ calls # <<>> /\ step' = "map"
        /\ blk' = calls[Len(calls)].blk /\ tabs' = calls[Len(calls)].tabs
        /\ calls' = SubSeq(calls, 1, Len(calls) - 1)
  /\ UNCHANGED nested

\* Mutant: the retry without the refill.
TakeNoRefill ==
  /\ step = "take"
  /\ PopStack
  /\ \/ ret'.ok /\ TakeReturns
     \/ ~ret'.ok /\ step' = "take" /\ UNCHANGED <<given, blk, tabs, calls, nested>>
  /\ UNCHANGED <<user, back, cnt, owned>>

TakeFrame ==
  /\ step = "take"
  /\ PopStack
  /\ \/ ret'.ok /\ TakeReturns
     \/ ~ret'.ok /\ UNCHANGED <<given, blk, tabs, calls>> /\ Refill
  /\ UNCHANGED <<user, back, cnt, owned>>

FNext ==
  \/ CallForFrame \/ AllocBlock \/ MapNeedsTable \/ MapDone
  \/ PushFrame \/ FillDone \/ TakeFrame

FSpec == FInit /\ [][FNext]_allvars

\* A call that runs is never put aside: there is one core and no preemption.
\* A mapping needs finitely many tables (tabs), and memory is finite.
FFairSpec == FSpec /\ WF_allvars(FNext)

-----------------------------------------------------------------------------
(* Properties *)

\* Types of the caller's state; the stack's own is TypeOK.  What
\* is on the stack and what is handed out are page frames.
FTypeOK ==
  /\ TypeOK /\ user \in Users
  /\ step \in {"idle", "alloc", "map", "fill", "take", "oom"}
  /\ back \in {"idle", "take"}
  /\ blk \in Nat /\ cnt \in 0 .. FillLen
  /\ owned \subseteq Blocks /\ given \subseteq Frames
  /\ tabs \in 0 .. user.tables /\ nested \in BOOLEAN

\* The frame that a refill pushes beyond its block, where the next block was
\* allocated too: the refills of both blocks push it.
Shared(f) ==
  user.extra = 1 /\ \E b \in owned : f = <<b + 1, 0>> /\ b + 1 \in owned

\* A page frame is handed out once, and never while it is on the stack
\* (getPhysmem, newPagetable): the one exception is the frame that
\* growPageStack()'s inclusive bound pushes beyond a block (paging.c:57) whose
\* neighbour is allocated too.
FramesDistinct ==
  \A i \in 1 .. (top \div Word) : ~Shared(WordAt(i)) =>
    /\ WordAt(i) \notin given
    /\ \A j \in 1 .. (top \div Word) : i # j => WordAt(i) # WordAt(j)

\* pushStack() waits for the lock it holds itself in one case only: a refill
\* that ran inside another's mapping (paging.c:51-53).  Neither getPhysmem()'s
\* refills nor newPagetable()'s own ever fill the stack.
HangsNested == hung => nested

\* And in that case it always does, unless memory is exhausted first: after a
\* refill inside a refill no call for a page table returns any more.
NestedHangs == nested => step # "idle"

\* newPagetable()'s refill below the low-water mark keeps its pop from ever
\* finding the stack empty: its retry is never taken (paging.c:66-78).
NeverEmpty == LowWater # 0 /\ step = "take" => top # 0

\* A call for a frame returns one, unless there is no memory left or a refill
\* inside a refill leaves it spinning: it never goes round for ever.
FrameArrives == (step # "idle") ~> (step \in {"idle", "oom"} \/ (hung /\ nested))
=============================================================================
