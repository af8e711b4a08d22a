------------------------------- MODULE Dstack -------------------------------
(***************************************************************************)
(* The data stack, Kernel/Memory/dstack.c: 8-byte items in a heap block    *)
(* that krealloc() resizes.  The kernel keeps its free page frames and its *)
(* page-table frames on two of them.                                       *)
(*                                                                         *)
(* The kernel runs on one core and no interrupt handler uses a data stack, *)
(* so a call runs from GET_LOCK to FREE_LOCK as one step.                  *)
(***************************************************************************)
EXTENDS Integers, Sequences

CONSTANTS
  Item,          \* what is pushed
  Junk,          \* a word that was never written
  InitSizes,     \* createDstack()'s sizes, in bytes
  GrowSizes,     \* growStack()'s sizes, in bytes
  ShrinkSizes,   \* shrinkStack()'s sizes, in bytes
  MaxBytes,      \* bound: no stack is grown beyond it
  CarefulShrink  \* do the callers shrink only to a size the data fits in?

ASSUME DstackAssumption ==
  /\ Junk \notin Item
  /\ InitSizes \subseteq Nat
  /\ GrowSizes \subseteq Nat \ {0} /\ ShrinkSizes \subseteq Nat \ {0}
  /\ MaxBytes \in Nat
  /\ CarefulShrink \in BOOLEAN

VARIABLES
  live,     \* is there a stack?
  mem,      \* the words of its heap block
  top,      \* stack->top - stack->base, in bytes
  maxSize,  \* stack->maxSize
  lock,     \* stack->lock
  ret,      \* what the last call returned
  hung      \* did a call stop inside: spinning on the lock it holds, or in krealloc()?

vars == <<live, mem, top, maxSize, lock, ret, hung>>

Word == 8  \* sizeof(uint64_t)
MaxOf(a, b) == IF a > b THEN a ELSE b

\* No value: fetched is false, and what popStack() returns with it (0x0) is
\* not to be used.
Nothing == [ok |-> FALSE, val |-> Junk]

\* kmalloc() and krealloc(): a block of n bytes, with the words that were in
\* the old one and fit.
Resized(m, n) ==
  [i \in 1 .. (n \div Word) |-> IF i \in DOMAIN m THEN m[i] ELSE Junk]

\* The i-th word above the base: outside the block it is anybody's.
WordAt(i) == IF i \in DOMAIN mem THEN mem[i] ELSE Junk

\* The data on the stack.
Data == [i \in 1 .. (top \div Word) |-> WordAt(i)]

Init ==
  /\ live = FALSE /\ mem = <<>> /\ top = 0 /\ maxSize = 0 /\ lock = 0
  /\ ret = Nothing /\ hung = FALSE

\* kmalloc(0) returns NULL, and then so does createDstack().
CreateDstack(sz) ==
  /\ ~live /\ sz # 0
  /\ live' = TRUE /\ mem' = Resized(<<>>, sz) /\ top' = 0 /\ maxSize' = sz
  /\ lock' = 0 /\ ret' = Nothing /\ UNCHANGED hung

\* GET_LOCK, on a stack that exists.
Lock == live /\ lock = 0

\* Mutant: the room test without the word to be pushed.
HasRoomOff == top <= maxSize

\* The test of pushStack().
HasRoom == top + Word <= maxSize

\* With no room pushStack() calls growStack(), which waits for the lock that
\* pushStack() holds.
PushFull ==
  /\ Lock /\ ~HasRoom
  /\ lock' = 1 /\ hung' = TRUE
  /\ UNCHANGED <<live, mem, top, maxSize, ret>>

PushRoom(x) ==
  /\ Lock /\ HasRoom
  /\ mem' = [mem EXCEPT ![(top \div Word) + 1] = x]
  /\ top' = top + Word
  /\ ret' = Nothing
  /\ UNCHANGED <<live, maxSize, lock, hung>>

PushStack(x) == PushRoom(x) \/ PushFull

\* Mutant: the item is read at the top, not below it.
PopStackAbove ==
  /\ Lock
  /\ \/ top = 0 /\ ret' = Nothing /\ UNCHANGED top
     \/ /\ top # 0
        /\ ret' = [ok |-> TRUE, val |-> WordAt((top \div Word) + 1)]
        /\ top' = top - Word
  /\ UNCHANGED <<live, mem, maxSize, lock, hung>>

PopStack ==
  /\ Lock
  /\ \/ top = 0 /\ ret' = Nothing /\ UNCHANGED top
     \/ /\ top # 0
        /\ ret' = [ok |-> TRUE, val |-> WordAt(top \div Word)]
        /\ top' = top - Word
  /\ UNCHANGED <<live, mem, maxSize, lock, hung>>

StackCount ==
  /\ Lock
  /\ ret' = [ok |-> TRUE, val |-> top \div Word]
  /\ UNCHANGED <<live, mem, top, maxSize, lock, hung>>

\* krealloc() returns a block for every size, 0 included (it shrinks in
\* place): growStack() and shrinkStack() always store what it returns.
ToSize(n) ==
  /\ mem' = Resized(mem, n) /\ maxSize' = n
  /\ ret' = Nothing
  /\ UNCHANGED <<live, top, lock, hung>>

GrowStack(sz) == Lock /\ maxSize + sz <= MaxBytes /\ ToSize(maxSize + sz)

\* shrinkStack()'s new size: what is in use, or sz if that is more, is
\* subtracted from the size the stack has.
ShrinkSize(sz) == maxSize - MaxOf(top, sz)

\* Asked for more than the stack has, the subtraction wraps around: no heap
\* holds the size krealloc() is given.  extendHeap() gets less and its caller
\* stops the kernel, or, where the size wraps once more when the header is
\* added, the red zone is written 4 GB behind the block, which faults.
ShrinkWraps(sz) ==
  /\ MaxOf(top, sz) > maxSize
  /\ lock' = 1 /\ hung' = TRUE
  /\ UNCHANGED <<live, mem, top, maxSize, ret>>

ShrinkFits(sz) ==
  /\ MaxOf(top, sz) <= maxSize
  /\ CarefulShrink => ShrinkSize(sz) >= top
  /\ ToSize(ShrinkSize(sz))

ShrinkStack(sz) == Lock /\ (ShrinkWraps(sz) \/ ShrinkFits(sz))

DestroyDstack ==
  /\ Lock
  /\ live' = FALSE /\ mem' = <<>> /\ top' = 0 /\ maxSize' = 0 /\ lock' = 1
  /\ ret' = Nothing /\ UNCHANGED hung

Next ==
  \/ \E sz \in InitSizes : CreateDstack(sz)
  \/ \E x \in Item : PushStack(x)
  \/ PopStack
  \/ StackCount
  \/ \E sz \in GrowSizes : GrowStack(sz)
  \/ \E sz \in ShrinkSizes : ShrinkStack(sz)
  \/ DestroyDstack

Spec == Init /\ [][Next]_vars

-----------------------------------------------------------------------------
(* Properties *)

\* Sizes are numbers, the block is as large as maxSize says, and a stack
\* that is gone has no memory.
TypeOK ==
  /\ live \in BOOLEAN /\ hung \in BOOLEAN /\ lock \in {0, 1}
  /\ top \in Nat /\ maxSize \in Nat
  /\ DOMAIN mem = 1 .. (maxSize \div Word)
  /\ \A i \in DOMAIN mem : mem[i] \in Item \cup {Junk}
  /\ ret.ok \in BOOLEAN

\* The items that dstack.c says are on the stack lie in its block and were
\* pushed: no push, pop or resize leaves the top above the block or over
\* words that hold no item.
StackInBlock ==
  /\ top <= maxSize
  /\ \A i \in 1 .. (top \div Word) : WordAt(i) # Junk

\* dstack.c implements the stack its callers rely on.
L == INSTANCE Lifo WITH items <- Data
IsLifo == L!Spec
=============================================================================
