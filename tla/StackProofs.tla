---------------------------- MODULE StackProofs ----------------------------
(***************************************************************************)
(* The data stack implements a last-in first-out stack, for every item     *)
(* set and every sequence of sizes, as long as its callers shrink it only  *)
(* to sizes its data fits in.                                              *)
(*                                                                         *)
(* The frame stacks of the kernel, for every capacity, block size and      *)
(* low-water mark: which sizes keep pushStack() from waiting for itself as *)
(* long as no refill runs inside another, and that no frame is handed out  *)
(* twice but the one a refill pushes beyond its block.                     *)
(***************************************************************************)
EXTENDS FrameStack, TLAPS

\* What makes the proof inductive: the top is at a word boundary, and a
\* stack that does not exist is empty.
IInv ==
  /\ TypeOK
  /\ StackInBlock
  /\ top % Word = 0
  /\ ~live => top = 0

\* Facts on word-aligned offsets.
LEMMA Aligned ==
  ASSUME NEW t \in Nat, NEW n \in Nat, t % Word = 0
  PROVE  /\ t \div Word \in Nat
         /\ (t + Word) % Word = 0
         /\ (t + Word) \div Word = (t \div Word) + 1
         /\ t <= n => t \div Word <= n \div Word
         /\ t # 0 => /\ t - Word \in Nat
                     /\ t \div Word >= 1
                     /\ (t - Word) % Word = 0
                     /\ (t - Word) \div Word = (t \div Word) - 1
         /\ t + Word <= n => (t \div Word) + 1 <= n \div Word
BY SMT DEF Word

\* The initial state satisfies the invariant.
LEMMA InitInv == Init => IInv
<1> SUFFICES ASSUME Init PROVE IInv OBVIOUS
<1>1. /\ 0 \div Word = 0 /\ 0 % Word = 0 /\ 1 .. 0 = {}
  BY SMT DEF Word
<1>2. DOMAIN mem = {}
  <2>1. mem = <<>> BY DEF Init
  <2> QED BY <2>1, SMT
<1>3. top = 0 /\ maxSize = 0 /\ live = FALSE /\ hung = FALSE /\ lock = 0
  BY DEF Init
<1>4. ret.ok = FALSE BY DEF Init, Nothing
<1>5. TypeOK
  <2>1. DOMAIN mem = 1 .. (maxSize \div Word) BY <1>1, <1>2, <1>3
  <2> QED BY <1>2, <1>3, <1>4, <2>1 DEF TypeOK
<1>6. StackInBlock BY <1>1, <1>3 DEF StackInBlock
<1> QED BY <1>1, <1>3, <1>5, <1>6 DEF IInv

\* Pushing and popping keep the invariant.
LEMMA PushInv ==
  ASSUME IInv, NEW x \in Item, PushStack(x)
  PROVE  IInv'
<1> DEFINE k == top \div Word
<1>t. top \in Nat /\ maxSize \in Nat /\ top % Word = 0 /\ top <= maxSize
  BY DEF IInv, TypeOK, StackInBlock
<1>a. k \in Nat BY <1>t, Aligned
<1>1. CASE PushFull
  BY <1>1, SMT DEF PushFull, IInv, TypeOK, StackInBlock, WordAt, Lock
<1>2. CASE PushRoom(x)
  <2>1. /\ top' = top + Word /\ maxSize' = maxSize /\ live' /\ live
        /\ mem' = [mem EXCEPT ![k + 1] = x]
        /\ lock' = lock /\ hung' = hung /\ ret' = Nothing
        /\ top + Word <= maxSize
    BY <1>2, SMT DEF PushRoom, Lock, HasRoom
  <2>2. /\ top' \in Nat /\ top' % Word = 0 /\ top' <= maxSize
        /\ top' \div Word = k + 1 /\ k + 1 <= maxSize \div Word
    BY <1>t, <2>1, Aligned, SMT DEF Word
  <2>3. DOMAIN mem = 1 .. (maxSize \div Word) BY DEF IInv, TypeOK
  <2>4. DOMAIN mem' = DOMAIN mem BY <2>1
  <2>5. maxSize \div Word \in Nat BY <1>t, SMT DEF Word
  <2>6. \A i \in 1 .. k + 1 : i \in DOMAIN mem
    BY <2>2, <2>3, <2>5, <1>a, SMT
  <2>7. \A i \in DOMAIN mem : mem'[i] = IF i = k + 1 THEN x ELSE mem[i]
    BY <2>1
  <2>8. TypeOK'
    <3>1. \A i \in DOMAIN mem' : mem'[i] \in Item \cup {Junk}
      BY <2>4, <2>7 DEF IInv, TypeOK
    <3>2. DOMAIN mem' = 1 .. (maxSize' \div Word) BY <2>1, <2>3, <2>4
    <3> QED BY <2>1, <2>2, <3>1, <3>2 DEF IInv, TypeOK, Nothing
  <2>9. \A i \in 1 .. k + 1 : WordAt(i)' # Junk
    <3> TAKE i \in 1 .. k + 1
    <3>1. WordAt(i)' = mem'[i] BY <2>4, <2>6 DEF WordAt
    <3>2. CASE i = k + 1
      BY <3>1, <3>2, <2>6, <2>7, DstackAssumption
    <3>3. CASE i # k + 1
      <4>1. i \in 1 .. k BY <3>3, <1>a, SMT
      <4>2. WordAt(i) # Junk BY <4>1 DEF IInv, StackInBlock
      <4> QED BY <3>1, <3>3, <4>2, <2>6, <2>7 DEF WordAt
    <3> QED BY <3>2, <3>3
  <2> QED BY <2>1, <2>2, <2>8, <2>9 DEF IInv, StackInBlock
<1> QED BY <1>1, <1>2 DEF PushStack

\* popStack() keeps the invariant: the items below the top stay pushed.
LEMMA PopInv == IInv /\ PopStack => IInv'
<1> SUFFICES ASSUME IInv, PopStack PROVE IInv' OBVIOUS
<1> DEFINE k == top \div Word
<1>t. top \in Nat /\ maxSize \in Nat /\ top % Word = 0 /\ top <= maxSize
  BY DEF IInv, TypeOK, StackInBlock
<1>v. ret'.ok \in BOOLEAN
  <2>1. CASE ret' = Nothing BY <2>1 DEF Nothing
  <2>2. CASE ret' = [ok |-> TRUE, val |-> WordAt(top \div Word)] BY <2>2
  <2> QED BY <2>1, <2>2 DEF PopStack
<1>u. live' = live /\ live /\ mem' = mem /\ maxSize' = maxSize /\ lock' = lock
      /\ hung' = hung /\ ret'.ok \in BOOLEAN
  BY <1>v, Zenon DEF PopStack, Lock
<1>1. /\ top' \in Nat /\ top' % Word = 0 /\ top' <= maxSize
      /\ top' \div Word <= k /\ k \in Nat /\ top' \div Word \in Nat
  BY <1>t, Aligned, SMT DEF PopStack, Word
<1>2. TypeOK' BY <1>u, <1>1 DEF IInv, TypeOK
<1>3. \A i \in 1 .. (top' \div Word) : i \in 1 .. k BY <1>1, SMT
<1>4. StackInBlock'
  BY <1>u, <1>1, <1>3 DEF IInv, StackInBlock, WordAt
<1> QED BY <1>u, <1>1, <1>2, <1>4 DEF IInv

\* Resizing keeps the words that fit, so it keeps the data whenever the new
\* block is large enough for it.
LEMMA ResizedKeeps ==
  ASSUME IInv, NEW n \in Nat, n >= top, ToSize(n), live
  PROVE  IInv' /\ Data' = Data
<1>t. top \in Nat /\ maxSize \in Nat /\ top % Word = 0 /\ top <= maxSize
  BY DEF IInv, TypeOK, StackInBlock
<1>u. /\ live' = live /\ lock' = lock /\ hung' = hung /\ top' = top
      /\ maxSize' = n /\ ret' = Nothing
      /\ mem' = [i \in 1 .. (n \div Word) |->
                   IF i \in DOMAIN mem THEN mem[i] ELSE Junk]
  BY DEF ToSize, Resized
<1>1. TypeOK'
  <2>1. \A i \in DOMAIN mem' : mem'[i] \in Item \cup {Junk}
    BY <1>u DEF IInv, TypeOK
  <2> QED BY <1>u, <2>1 DEF IInv, TypeOK, Nothing
<1>2. /\ top \div Word <= n \div Word /\ top \div Word <= maxSize \div Word
      /\ n \div Word \in Nat /\ maxSize \div Word \in Nat
      /\ top \div Word \in Nat
  BY <1>t, Aligned, SMT DEF Word
<1>3. \A i \in 1 .. (top \div Word) : i \in DOMAIN mem /\ i \in DOMAIN mem'
  BY <1>2, <1>u, SMT DEF IInv, TypeOK
<1>4. \A i \in 1 .. (top \div Word) : WordAt(i)' = WordAt(i)
  BY <1>3, <1>u DEF WordAt
<1>5. StackInBlock' BY <1>4, <1>u DEF IInv, StackInBlock
<1>6. Data' = Data BY <1>4, <1>u DEF Data
<1> QED BY <1>1, <1>5, <1>6, <1>u DEF IInv

\* Every resize of a careful caller leaves room for the data, or the call
\* stops inside and changes none of it.
LEMMA ResizeRoom ==
  ASSUME CarefulShrink, IInv,
         \/ \E sz \in GrowSizes : GrowStack(sz)
         \/ \E sz \in ShrinkSizes : ShrinkStack(sz)
  PROVE  \/ live /\ \E n \in Nat : n >= top /\ ToSize(n)
         \/ UNCHANGED <<live, mem, top, maxSize, ret>> /\ lock' = 1 /\ hung' = TRUE
<1>t. top \in Nat /\ maxSize \in Nat /\ top <= maxSize
  BY DEF IInv, TypeOK, StackInBlock
<1>1. CASE \E sz \in GrowSizes : GrowStack(sz)
  <2> PICK sz \in GrowSizes : GrowStack(sz) BY <1>1
  <2>1. sz \in Nat BY DstackAssumption
  <2>2. maxSize + sz \in Nat /\ maxSize + sz >= top BY <1>t, <2>1, SMT
  <2> QED BY <2>2 DEF GrowStack, Lock
<1>2. CASE \E sz \in ShrinkSizes : ShrinkStack(sz)
  <2> PICK sz \in ShrinkSizes : ShrinkStack(sz) BY <1>2
  <2>1. sz \in Nat BY DstackAssumption
  <2>2. CASE ShrinkWraps(sz) BY <2>2 DEF ShrinkWraps
  <2>3. CASE ShrinkFits(sz)
    <3>1. live /\ MaxOf(top, sz) <= maxSize /\ ShrinkSize(sz) >= top /\ ToSize(ShrinkSize(sz))
      BY <2>3 DEF ShrinkStack, ShrinkFits, Lock
    <3>2. ShrinkSize(sz) \in Nat
      BY <1>t, <2>1, <3>1, SMT DEF ShrinkSize, MaxOf
    <3> QED BY <3>1, <3>2
  <2> QED BY <2>2, <2>3 DEF ShrinkStack
<1> QED BY <1>1, <1>2

\* Creating and destroying a stack.
LEMMA CreateInv ==
  ASSUME IInv, NEW sz \in InitSizes, CreateDstack(sz)
  PROVE  IInv' /\ Data' = <<>>
<1>1. /\ live' = TRUE /\ top' = 0 /\ maxSize' = sz /\ lock' = 0
      /\ ret' = Nothing /\ hung' = hung
      /\ mem' = [i \in 1 .. (sz \div Word) |->
                   IF i \in DOMAIN <<>> THEN <<>>[i] ELSE Junk]
  BY DEF CreateDstack, Resized
<1>2. sz \in Nat BY DstackAssumption
<1>3. 0 \div Word = 0 /\ 0 % Word = 0 /\ 1 .. 0 = {} /\ 0 \in Nat /\ 0 <= sz
  BY <1>2, SMT DEF Word
<1>4. \A i \in DOMAIN mem' : mem'[i] \in Item \cup {Junk}
  <2>1. DOMAIN <<>> = {} BY SMT
  <2> QED BY <1>1, <2>1
<1>5. TypeOK' BY <1>1, <1>2, <1>3, <1>4 DEF IInv, TypeOK, Nothing
<1>6. Data' = <<>> BY <1>1, <1>3, SMT DEF Data
<1> QED BY <1>1, <1>3, <1>5, <1>6 DEF IInv, StackInBlock

\* destroyDstack() leaves no data behind.
LEMMA DestroyInv ==
  ASSUME IInv, DestroyDstack
  PROVE  IInv' /\ Data' = <<>>
<1>1. /\ live' = FALSE /\ top' = 0 /\ maxSize' = 0 /\ lock' = 1
      /\ ret' = Nothing /\ hung' = hung /\ mem' = <<>>
  BY DEF DestroyDstack
<1>2. 0 \div Word = 0 /\ 0 % Word = 0 /\ 1 .. 0 = {} BY SMT DEF Word
<1>3. DOMAIN mem' = {} BY <1>1, SMT
<1>4. TypeOK' BY <1>1, <1>2, <1>3 DEF IInv, TypeOK, Nothing
<1>5. Data' = <<>> BY <1>1, <1>2, SMT DEF Data
<1> QED BY <1>1, <1>2, <1>4, <1>5 DEF IInv, StackInBlock

\* Every step of a careful caller keeps the invariant.
LEMMA StepInv == ASSUME CarefulShrink PROVE IInv /\ [Next]_vars => IInv'
<1> SUFFICES ASSUME IInv, [Next]_vars PROVE IInv' OBVIOUS
<1>1. CASE \E sz \in InitSizes : CreateDstack(sz) BY <1>1, CreateInv
<1>2. CASE \E x \in Item : PushStack(x) BY <1>2, PushInv
<1>3. CASE PopStack BY <1>3, PopInv
<1>4. CASE StackCount
  <2>1. UNCHANGED <<live, mem, top, maxSize, lock, hung>> /\ ret'.ok = TRUE
    BY <1>4 DEF StackCount
  <2> QED BY <2>1 DEF IInv, TypeOK, StackInBlock, WordAt
<1>5. CASE \/ \E sz \in GrowSizes : GrowStack(sz)
           \/ \E sz \in ShrinkSizes : ShrinkStack(sz)
  <2>1. CASE live /\ \E n \in Nat : n >= top /\ ToSize(n) BY <2>1, ResizedKeeps
  <2>2. CASE UNCHANGED <<live, mem, top, maxSize, ret>> /\ lock' = 1 /\ hung' = TRUE
    BY <2>2 DEF IInv, TypeOK, StackInBlock, WordAt
  <2> QED BY <1>5, <2>1, <2>2, ResizeRoom
<1>6. CASE DestroyDstack BY <1>6, DestroyInv
<1>7. CASE UNCHANGED vars
  BY <1>7 DEF vars, IInv, TypeOK, StackInBlock, WordAt
<1> QED BY <1>1, <1>2, <1>3, <1>4, <1>5, <1>6, <1>7 DEF Next

\* No call of a careful caller leaves the top above the block or an item
\* overwritten (pushStack, popStack, growStack, shrinkStack).
THEOREM DataInBlock ==
  ASSUME CarefulShrink PROVE Spec => [](TypeOK /\ StackInBlock)
<1>1. IInv => TypeOK /\ StackInBlock BY DEF IInv
<1> QED BY InitInv, StepInv, <1>1, PTL DEF Spec

-----------------------------------------------------------------------------
(* Refinement *)

\* A push adds its item at the end of the data.
LEMMA PushData ==
  ASSUME IInv, NEW x \in Item, PushRoom(x)
  PROVE  Data' = Append(Data, x)
<1> DEFINE k == top \div Word
<1>t. top \in Nat /\ maxSize \in Nat /\ top % Word = 0 /\ top <= maxSize
  BY DEF IInv, TypeOK, StackInBlock
<1>1. /\ top' = top + Word /\ mem' = [mem EXCEPT ![k + 1] = x]
      /\ top + Word <= maxSize
  BY DEF PushRoom, HasRoom
<1>2. /\ k \in Nat /\ top' \div Word = k + 1 /\ k + 1 <= maxSize \div Word
      /\ maxSize \div Word \in Nat
  BY <1>t, <1>1, Aligned, SMT DEF Word
<1>3. DOMAIN mem = 1 .. (maxSize \div Word) BY DEF IInv, TypeOK
<1>4. \A i \in 1 .. k + 1 : i \in DOMAIN mem BY <1>2, <1>3, SMT
<1>5. \A i \in 1 .. k + 1 : WordAt(i)' = IF i = k + 1 THEN x ELSE WordAt(i)
  <2> TAKE i \in 1 .. k + 1
  <2>1. i \in DOMAIN mem /\ i \in DOMAIN mem' BY <1>1, <1>4
  <2> QED BY <2>1, <1>1 DEF WordAt
<1>6. Data' = [i \in 1 .. k + 1 |-> IF i = k + 1 THEN x ELSE WordAt(i)]
  BY <1>2, <1>5 DEF Data
<1>7. Data = [i \in 1 .. k |-> WordAt(i)] BY DEF Data
<1> HIDE DEF k
<1> QED BY <1>2, <1>6, <1>7, SMT

\* A pop takes the last item off the data and returns it.
LEMMA PopData ==
  ASSUME IInv, PopStack
  PROVE  \/ Data = <<>> /\ ret' = Nothing /\ Data' = Data
         \/ /\ Data # <<>>
            /\ ret' = [ok |-> TRUE, val |-> Data[Len(Data)]]
            /\ Data' = SubSeq(Data, 1, Len(Data) - 1)
<1> DEFINE k == top \div Word
<1>t. top \in Nat /\ maxSize \in Nat /\ top % Word = 0 /\ top <= maxSize
  BY DEF IInv, TypeOK, StackInBlock
<1>0. mem' = mem BY DEF PopStack
<1>7. Data = [i \in 1 .. k |-> WordAt(i)] BY DEF Data
<1>1. CASE top = 0
  <2>1. ret' = Nothing /\ top' = top BY <1>1 DEF PopStack
  <2>2. k = 0 BY <1>1, SMT DEF Word
  <2>3. Data = <<>> BY <2>2, <1>7, SMT
  <2>4. Data' = Data BY <2>1, <1>0 DEF Data, WordAt
  <2> QED BY <2>1, <2>3, <2>4
<1>2. CASE top # 0
  <2>1. ret' = [ok |-> TRUE, val |-> WordAt(k)] /\ top' = top - Word
    BY <1>2 DEF PopStack
  <2>2. k \in Nat /\ k >= 1 /\ top' \div Word = k - 1
    BY <1>t, <1>2, <2>1, Aligned, SMT DEF Word
  <2>3. Data' = [i \in 1 .. k - 1 |-> WordAt(i)]
    BY <2>2, <1>0 DEF Data, WordAt
  <2> HIDE DEF k
  <2>4. Len(Data) = k /\ Data # <<>> /\ Data[Len(Data)] = WordAt(k)
    BY <1>7, <2>2, SMT
  <2>5. Data' = SubSeq(Data, 1, Len(Data) - 1)
    BY <1>7, <2>2, <2>3, <2>4, SMT
  <2> QED BY <2>1, <2>4, <2>5
<1> QED BY <1>1, <1>2

\* Every step is a step of the abstract stack or changes nothing it shows.
LEMMA StepRefines ==
  ASSUME CarefulShrink
  PROVE  IInv /\ [Next]_vars => [L!Next]_<<Data, ret>>
<1> SUFFICES ASSUME IInv, [Next]_vars PROVE [L!Next]_<<Data, ret>> OBVIOUS
<1> USE DEF L!Next
<1>n. L!Nothing = Nothing BY DEF L!Nothing, Nothing
<1>1. CASE \E sz \in InitSizes : CreateDstack(sz)
  <2>1. Data' = <<>> BY <1>1, CreateInv
  <2>2. ret' = Nothing BY <1>1 DEF CreateDstack
  <2> QED BY <2>1, <2>2, <1>n DEF L!Reset
<1>2. CASE \E x \in Item : PushStack(x)
  <2> PICK x \in Item : PushStack(x) BY <1>2
  <2>1. CASE PushFull
    <3>1. UNCHANGED <<mem, top, ret>> BY <2>1 DEF PushFull
    <3> QED BY <3>1 DEF Data, WordAt
  <2>2. CASE PushRoom(x)
    <3>1. Data' = Append(Data, x) BY <2>2, PushData
    <3>2. ret' = Nothing BY <2>2 DEF PushRoom
    <3> QED BY <3>1, <3>2, <1>n DEF L!Push
  <2> QED BY <2>1, <2>2 DEF PushStack
<1>3. CASE PopStack
  BY <1>3, PopData, <1>n DEF L!Pop
<1>4. CASE StackCount
  <2>1. UNCHANGED <<mem, top>> /\ ret' = [ok |-> TRUE, val |-> top \div Word]
    BY <1>4 DEF StackCount
  <2>2. Data' = Data BY <2>1 DEF Data, WordAt
  <2>3. Len(Data) = top \div Word
    <3>1. top \div Word \in Nat BY Aligned DEF IInv, TypeOK
    <3> QED BY <3>1, SMT DEF Data
  <2> QED BY <2>1, <2>2, <2>3 DEF L!Count
<1>5. CASE \/ \E sz \in GrowSizes : GrowStack(sz)
           \/ \E sz \in ShrinkSizes : ShrinkStack(sz)
  <2>1. CASE live /\ \E n \in Nat : n >= top /\ ToSize(n)
    <3>1. Data' = Data BY <2>1, ResizedKeeps
    <3>2. ret' = Nothing BY <2>1 DEF ToSize
    <3> QED BY <3>1, <3>2, <1>n DEF L!Housekeep
  <2>2. CASE UNCHANGED <<live, mem, top, maxSize, ret>> /\ lock' = 1 /\ hung' = TRUE
    BY <2>2 DEF Data, WordAt
  <2> QED BY <1>5, <2>1, <2>2, ResizeRoom
<1>6. CASE DestroyDstack
  <2>1. Data' = <<>> BY <1>6, DestroyInv
  <2>2. ret' = Nothing BY <1>6 DEF DestroyDstack
  <2> QED BY <2>1, <2>2, <1>n DEF L!Reset
<1>7. CASE UNCHANGED vars
  BY <1>7 DEF vars, Data, WordAt
<1> QED BY <1>1, <1>2, <1>3, <1>4, <1>5, <1>6, <1>7 DEF Next

\* dstack.c implements a last-in first-out stack: what popStack and
\* stackCount return is what an ideal stack returns, across every growStack
\* and every shrinkStack to a size the data fits in.
THEOREM Implements == ASSUME CarefulShrink PROVE Spec => IsLifo
<1>1. Init => L!Init
  <2> SUFFICES ASSUME Init PROVE L!Init OBVIOUS
  <2>1. top = 0 /\ ret = Nothing BY DEF Init
  <2>2. top \div Word = 0 BY <2>1, SMT DEF Word
  <2>3. Data = <<>> BY <2>2, SMT DEF Data
  <2> QED BY <2>1, <2>3 DEF L!Init, L!Nothing, Nothing
<1> QED BY InitInv, StepInv, StepRefines, <1>1, PTL DEF Spec, IsLifo, L!Spec

-----------------------------------------------------------------------------
(* The frame stacks *)

\* A refill starts with at most this many frames on the stack.
RestOf(u) == IF u.low = 0 THEN 0 ELSE u.low - 1
Rest == RestOf(user)

\* The capacity holds what is left when a refill starts and the refill.
\* getPhysmem(): 0 + 32 <= 100.  newPagetable(): 19 + 64 + 1 <= 100.
CapacityFits ==
  \A u \in Users, sz \in InitSizes : RestOf(u) + u.chunk + u.extra <= sz \div Word

N == top \div Word

\* The refills that wait inside MapNeedsTable.
Waiting == [blk : Blocks, tabs : Nat]

\* The stack is sound; where no refill has run inside another, how full it can
\* be at each step of a call.
RoomInv ==
  /\ user \in Users
  /\ IInv /\ live /\ maxSize \in InitSizes /\ (hung => lock = 1)
  /\ step \in {"idle", "alloc", "map", "fill", "take", "oom"}
  /\ back \in {"idle", "take"}
  /\ blk \in Nat /\ cnt \in 0 .. FillLen /\ tabs \in Nat /\ nested \in BOOLEAN
  /\ calls \in Seq(Waiting)
  /\ step \in {"map", "fill"} => blk \in Blocks
  /\ step = "fill" => cnt <= N
  /\ LowWater # 0 => (step = "take" => N >= 1)
  /\ ~nested => /\ ~hung /\ calls = <<>>
                /\ step \in {"alloc", "map"} => N <= Rest
                /\ step = "fill" => N <= Rest + cnt

\* Numbers the steps below need.
LEMMA Numbers ==
  ASSUME user \in Users
  PROVE  /\ Chunk \in Nat \ {0} /\ user.extra \in {0, 1} /\ LowWater \in Nat
         /\ Blocks \subseteq Nat
         /\ user.tables \in Nat /\ (user.tables # 0 => LowWater # 0)
         /\ FillLen \in Nat /\ FillLen >= 1 /\ FillLen = Chunk + user.extra
         /\ Rest \in Nat /\ Rest = (IF LowWater = 0 THEN 0 ELSE LowWater - 1)
         /\ \A b \in Blocks, i \in 0 .. FillLen - 1 : Frame(b, i) \in Item
<1>1. /\ Chunk \in Nat \ {0} /\ user.extra \in {0, 1} /\ LowWater \in Nat
      /\ Blocks \subseteq Nat
      /\ user.tables \in Nat /\ (user.tables # 0 => LowWater # 0)
  BY FrameAssumption DEF Chunk, LowWater, Blocks
<1>2. Rest = IF LowWater = 0 THEN 0 ELSE LowWater - 1 BY DEF Rest, RestOf, LowWater
<1>3. FillLen \in Nat /\ FillLen >= 1 /\ Rest \in Nat /\ FillLen = Chunk + user.extra
  BY <1>1, <1>2, SMT DEF FillLen
<1>4. ASSUME NEW b \in Blocks, NEW i \in 0 .. FillLen - 1 PROVE Frame(b, i) \in Item
  <2>1. i = Chunk \/ i \in 0 .. Chunk - 1 BY <1>1, <1>3, SMT
  <2>2. 0 \in 0 .. Chunk - 1 BY <1>1, SMT
  <2>3. \A j \in 0 .. Chunk - 1 : <<b, j>> \in Item /\ <<b + 1, 0>> \in Item
    BY FrameAssumption DEF Chunk, Blocks
  <2> QED BY <2>1, <2>2, <2>3 DEF Frame
<1> QED BY <1>1, <1>2, <1>3, <1>4

\* No step changes whose stack it is, and with it the numbers.
LEMMA UserStays ==
  ASSUME [FNext]_allvars
  PROVE  /\ user' = user
         /\ UNCHANGED <<Blocks, Chunk, LowWater, FillLen, Rest, Waiting>>
         /\ \A b, i : Frame(b, i)' = Frame(b, i)
<1>1. user' = user
  BY DEF FNext, CallForFrame, AllocBlock, MapNeedsTable, MapDone, PushFrame, FillDone,
         TakeFrame, allvars, fvars
<1> QED BY <1>1 DEF Blocks, Chunk, LowWater, FillLen, Rest, RestOf, Frame, Waiting

\* The initial state.
LEMMA FInitInv == FInit => RoomInv
<1> SUFFICES ASSUME FInit PROVE RoomInv OBVIOUS
<1> PICK sz \in InitSizes : mem = Resized(<<>>, sz) /\ maxSize = sz
  BY DEF FInit
<1>1. /\ live = TRUE /\ top = 0 /\ lock = 0 /\ ret = Nothing /\ hung = FALSE
      /\ back = "idle" /\ blk = 0 /\ cnt = 0 /\ tabs = 0 /\ nested = FALSE
      /\ calls = <<>>
      /\ step = "alloc" \/ step = "idle"
      /\ user \in Users
  BY DEF FInit
<1>2. sz \in Nat BY FrameAssumption
<1>3. 0 \div Word = 0 /\ 0 % Word = 0 /\ 1 .. 0 = {} /\ 0 <= sz
  BY <1>2, SMT DEF Word
<1>4. /\ DOMAIN mem = 1 .. (maxSize \div Word)
      /\ \A i \in DOMAIN mem : mem[i] \in Item \cup {Junk}
  <2>1. DOMAIN <<>> = {} BY SMT
  <2> QED BY <2>1 DEF Resized
<1>5. TypeOK BY <1>1, <1>2, <1>4 DEF TypeOK, Nothing
<1>6. IInv BY <1>1, <1>2, <1>3, <1>5 DEF IInv, StackInBlock
<1>7. N = 0 /\ 0 \in 0 .. FillLen BY <1>1, <1>3, Numbers, SMT DEF N
<1>8. 0 <= Rest BY <1>1, Numbers, SMT
<1>9. calls \in Seq(Waiting) BY <1>1, SMT
<1> QED BY <1>1, <1>6, <1>7, <1>8, <1>9 DEF RoomInv

\* Where newPagetable() goes on, from its first test: with a refill that
\* starts low, or with a pop that finds a frame.
LEMMA TestInv ==
  ASSUME RoomInv, (NeedFill /\ Refill) \/ (~NeedFill /\ Pop)
  PROVE  /\ step' \in {"alloc", "take"} /\ N \in Nat
         /\ step' = "alloc" => /\ N <= Rest
                               /\ nested' = (nested \/ calls' # <<>>)
         /\ step' = "take" => N >= LowWater /\ nested' = nested
<1>1. N \in Nat BY Aligned DEF RoomInv, IInv, TypeOK, N
<1>2. user \in Users BY DEF RoomInv
<1>3. CASE NeedFill /\ Refill
  <2>1. N < LowWater BY <1>3 DEF NeedFill, N
  <2>2. N <= Rest BY <1>1, <1>2, <2>1, Numbers, SMT
  <2> QED BY <1>1, <1>3, <2>2 DEF Refill
<1>4. CASE ~NeedFill /\ Pop
  <2>1. ~(N < LowWater) BY <1>4 DEF NeedFill, N
  <2>2. N >= LowWater BY <1>1, <1>2, <2>1, Numbers, SMT
  <2> QED BY <1>1, <1>4, <2>2 DEF Pop
<1> QED BY <1>3, <1>4

\* Steps that leave the stack alone.
LEMMA QuietInv ==
  ASSUME RoomInv, CallForFrame \/ AllocBlock \/ MapNeedsTable \/ MapDone \/ FillDone
  PROVE  RoomInv'
<1>u. /\ user \in Users /\ user' = user
      /\ UNCHANGED <<Blocks, Chunk, LowWater, FillLen, Rest, Waiting>>
      /\ \A b, i : Frame(b, i)' = Frame(b, i)
  BY UserStays DEF FNext, RoomInv
<1>1. UNCHANGED vars
  BY DEF CallForFrame, AllocBlock, MapNeedsTable, MapDone, FillDone
<1>2. /\ IInv' /\ live' /\ maxSize' \in InitSizes /\ hung' = hung /\ lock' = lock
      /\ top' = top /\ N' = N
  BY <1>1 DEF vars, RoomInv, IInv, TypeOK, StackInBlock, WordAt, N
<1>3. N \in Nat BY Aligned DEF RoomInv, IInv, TypeOK, N
<1>n. LowWater \in Nat /\ (user.tables # 0 => LowWater # 0) /\ Rest \in Nat
      /\ Rest = (IF LowWater = 0 THEN 0 ELSE LowWater - 1)
  BY <1>u, Numbers
<1>4. CASE CallForFrame
  <2>1. /\ back' = "take" /\ calls' = calls /\ blk' = blk /\ cnt' = cnt /\ tabs' = tabs
        /\ (NeedFill /\ Refill) \/ (~NeedFill /\ Pop)
    BY <1>4 DEF CallForFrame
  <2>2. /\ step' \in {"alloc", "take"}
        /\ step' = "alloc" => N <= Rest /\ nested' = (nested \/ calls' # <<>>)
        /\ step' = "take" => N >= LowWater /\ nested' = nested
    BY <2>1, TestInv
  <2>3. nested' = nested
    <3>1. ~nested => calls' = <<>> BY <2>1 DEF RoomInv
    <3>2. nested \in BOOLEAN BY DEF RoomInv
    <3> QED BY <2>2, <3>1, <3>2
  <2>4. step' = "take" /\ LowWater # 0 => N >= 1 BY <2>2, <1>3, <1>n, SMT
  <2> QED BY <1>2, <1>u, <2>1, <2>2, <2>3, <2>4 DEF RoomInv
<1>5. CASE AllocBlock
  <2>1. back' = back /\ UNCHANGED <<calls, nested>> /\ step = "alloc" BY <1>5 DEF AllocBlock
  <2>2. CASE step' = "oom" /\ UNCHANGED <<owned, blk, cnt, tabs>>
    BY <2>1, <2>2, <1>2, <1>u DEF RoomInv
  <2>3. CASE \E b \in Blocks \ owned :
               /\ owned' = owned \cup {b} /\ blk' = b /\ cnt' = 0 /\ tabs' = 0
               /\ step' = "map"
    <3>1. blk' \in Blocks /\ cnt' = 0 /\ tabs' = 0 /\ step' = "map" BY <2>3
    <3>2. blk' \in Nat BY <3>1, <1>u, Numbers
    <3>3. 0 \in 0 .. FillLen BY <1>u, Numbers, SMT
    <3> QED BY <2>1, <1>2, <1>u, <3>1, <3>2, <3>3 DEF RoomInv
  <2> QED BY <1>5, <2>2, <2>3 DEF AllocBlock
<1>6. CASE MapNeedsTable
  <2>1. /\ step = "map" /\ tabs < user.tables
        /\ calls' = Append(calls, [blk |-> blk, tabs |-> tabs + 1])
        /\ back' = "take" /\ UNCHANGED <<blk, cnt, tabs>>
        /\ (NeedFill /\ Refill) \/ (~NeedFill /\ Pop)
    BY <1>6 DEF MapNeedsTable
  <2>2. /\ step' \in {"alloc", "take"}
        /\ step' = "alloc" => N <= Rest /\ nested' = (nested \/ calls' # <<>>)
        /\ step' = "take" => N >= LowWater /\ nested' = nested
    BY <2>1, TestInv
  <2>3. LowWater # 0
    <3>1. user.tables \in Nat /\ tabs \in Nat BY <1>u, Numbers DEF RoomInv
    <3>2. user.tables # 0 BY <2>1, <3>1, SMT
    <3> QED BY <1>n, <3>2
  <2>4. calls' \in Seq(Waiting) /\ calls' # <<>>
    <3>1. blk \in Blocks /\ tabs + 1 \in Nat /\ calls \in Seq(Waiting)
      BY <2>1, SMT DEF RoomInv
    <3>2. [blk |-> blk, tabs |-> tabs + 1] \in Waiting BY <3>1 DEF Waiting
    <3> QED BY <2>1, <3>1, <3>2, SMT
  <2>5. nested' = TRUE
    <3>1. CASE step' = "alloc" BY <2>2, <2>4, <3>1
    <3>2. CASE step' = "take"
      <4>1. N >= LowWater BY <2>2, <3>2
      <4>2. ~(N <= Rest) BY <4>1, <1>3, <1>n, <2>3, SMT
      <4>3. nested BY <2>1, <4>2 DEF RoomInv
      <4> QED BY <2>2, <3>2, <4>3 DEF RoomInv
    <3> QED BY <2>2, <3>1, <3>2
  <2>6. step' = "take" => N >= 1 BY <2>2, <2>3, <1>3, <1>n, SMT
  <2> QED BY <1>2, <1>u, <2>1, <2>2, <2>4, <2>5, <2>6 DEF RoomInv
<1>7. CASE MapDone
  <2>1. /\ step = "map" /\ step' = "fill" /\ cnt' = 0
        /\ UNCHANGED <<back, blk, tabs, calls, nested>>
    BY <1>7 DEF MapDone
  <2>2. 0 \in 0 .. FillLen /\ 0 <= N /\ (N <= Rest => N <= Rest + 0)
    BY <1>3, <1>n, <1>u, Numbers, SMT
  <2> QED BY <1>2, <1>u, <2>1, <2>2 DEF RoomInv
<1>8. CASE FillDone
  <2>1. /\ step' = back /\ back' = back /\ blk' = blk /\ cnt' = cnt
        /\ UNCHANGED <<tabs, calls, nested>>
        /\ cnt >= FillLen /\ step = "fill"
    BY <1>8 DEF FillDone
  <2>2. cnt <= N /\ cnt \in Nat BY <1>u, <2>1, Numbers, SMT DEF RoomInv
  <2>3. N >= 1 BY <2>1, <2>2, <1>3, <1>u, Numbers, SMT
  <2> QED BY <1>2, <1>u, <2>1, <2>3 DEF RoomInv
<1> QED BY <1>4, <1>5, <1>6, <1>7, <1>8

\* A push of the refill finds room, unless a refill has run inside another.
LEMMA PushFinds ==
  ASSUME CapacityFits, RoomInv, PushFrame
  PROVE  /\ RoomInv'
         /\ Frame(blk, cnt) \in Item
         /\ \/ PushRoom(Frame(blk, cnt)) /\ cnt' = cnt + 1
            \/ PushFull /\ cnt' = cnt
<1> DEFINE x == Frame(blk, cnt)
<1>u. /\ user \in Users /\ user' = user
      /\ UNCHANGED <<Blocks, Chunk, LowWater, FillLen, Rest, Waiting>>
      /\ \A b, i : Frame(b, i)' = Frame(b, i)
  BY UserStays DEF FNext, RoomInv
<1>1. /\ step = "fill" /\ cnt < FillLen /\ PushStack(x)
      /\ cnt' = (IF hung' THEN cnt ELSE cnt + 1)
      /\ step' = step /\ back' = back /\ blk' = blk
      /\ UNCHANGED <<tabs, calls, nested>>
  BY DEF PushFrame
<1>2. cnt \in Nat /\ cnt \in 0 .. FillLen - 1 BY <1>1, <1>u, Numbers, SMT DEF RoomInv
<1>3. x \in Item BY <1>1, <1>2, <1>u, Numbers DEF RoomInv
<1>4. /\ top \in Nat /\ maxSize \in Nat /\ top % Word = 0 /\ top <= maxSize
  BY DEF RoomInv, IInv, TypeOK, StackInBlock
<1>5. N \in Nat /\ cnt <= N /\ Rest + FillLen <= maxSize \div Word
      /\ (~nested => N <= Rest + cnt)
  <2>1. RestOf(user) + user.chunk + user.extra <= maxSize \div Word
    BY <1>u DEF RoomInv, CapacityFits
  <2>2. Rest + FillLen <= maxSize \div Word
    BY <2>1, <1>u, Numbers, SMT DEF Rest, FillLen, Chunk
  <2> QED BY <1>1, <1>4, <2>2, Aligned DEF RoomInv, N
<1>6. IInv' BY <1>1, <1>3, PushInv DEF RoomInv
<1>7. CASE PushFull
  <2>1. ~HasRoom /\ hung' = TRUE /\ lock' = 1 /\ UNCHANGED <<live, mem, top, maxSize>>
    BY <1>7 DEF PushFull
  <2>2. nested
    <3> SUFFICES ASSUME ~nested PROVE FALSE BY DEF RoomInv
    <3>1. N + 1 <= maxSize \div Word
      BY <1>1, <1>2, <1>5, <1>u, Numbers, <1>4, SMT DEF Word
    <3>2. HasRoom BY <3>1, <1>4, SMT DEF N, HasRoom, Word
    <3> QED BY <2>1, <3>2
  <2>3. cnt' = cnt /\ N' = N BY <1>1, <2>1 DEF N
  <2> QED BY <1>1, <1>3, <1>6, <1>7, <1>u, <2>1, <2>2, <2>3 DEF RoomInv
<1>8. CASE PushRoom(x)
  <2>1. top' = top + Word /\ UNCHANGED <<live, maxSize, lock, hung>> /\ lock = 0
    BY <1>8 DEF PushRoom, Lock
  <2>2. ~hung /\ ~hung' /\ cnt' = cnt + 1 BY <1>1, <2>1 DEF RoomInv
  <2>3. N' = N + 1 BY <1>4, <2>1, Aligned DEF N
  <2>4. cnt + 1 <= N + 1 /\ cnt + 1 \in 0 .. FillLen
        /\ (~nested => N + 1 <= Rest + (cnt + 1))
    BY <1>1, <1>2, <1>5, <1>u, Numbers, SMT
  <2> QED BY <1>1, <1>3, <1>6, <1>8, <1>u, <2>1, <2>2, <2>3, <2>4 DEF RoomInv
<1> QED BY <1>1, <1>7, <1>8 DEF PushStack

\* A pop.
LEMMA TakeInv == ASSUME RoomInv, TakeFrame PROVE RoomInv'
<1>u. /\ user \in Users /\ user' = user
      /\ UNCHANGED <<Blocks, Chunk, LowWater, FillLen, Rest, Waiting>>
      /\ \A b, i : Frame(b, i)' = Frame(b, i)
  BY UserStays DEF FNext, RoomInv
<1>1. PopStack /\ step = "take" /\ UNCHANGED <<back, cnt, owned>>
  BY DEF TakeFrame
<1>2. IInv' BY <1>1, PopInv DEF RoomInv
<1>3. UNCHANGED <<live, maxSize, lock, hung>> BY <1>1 DEF PopStack
<1>4. CASE top = 0
  <2>1. ret' = Nothing /\ top' = 0 BY <1>1, <1>4 DEF PopStack
  <2>2. ~ret'.ok BY <2>1 DEF Nothing
  <2>3. UNCHANGED <<given, blk, tabs, calls>> /\ Refill BY <2>2 DEF TakeFrame
  <2>4. N' = 0 /\ 0 <= Rest BY <2>1, <1>u, Numbers, SMT DEF N, Word
  <2>5. step' = "alloc" /\ nested' = nested
    <3>1. ~nested => calls' = <<>> BY <2>3 DEF RoomInv
    <3>2. nested \in BOOLEAN BY DEF RoomInv
    <3> QED BY <2>3, <3>1, <3>2 DEF Refill
  <2> QED BY <1>1, <1>2, <1>3, <1>u, <2>3, <2>4, <2>5 DEF RoomInv
<1>5. CASE top # 0
  <2>1. ret'.ok BY <1>1, <1>5 DEF PopStack
  <2>2. TakeReturns BY <2>1 DEF TakeFrame
  <2>3. CASE calls = <<>> /\ step' = "idle" /\ UNCHANGED <<blk, tabs, calls>>
    BY <1>1, <1>2, <1>3, <1>u, <2>2, <2>3 DEF RoomInv, TakeReturns
  <2>4. CASE /\ calls # <<>> /\ step' = "map"
             /\ blk' = calls[Len(calls)].blk /\ tabs' = calls[Len(calls)].tabs
             /\ calls' = SubSeq(calls, 1, Len(calls) - 1)
    <3>1. calls \in Seq(Waiting) BY DEF RoomInv
    <3>2. calls[Len(calls)] \in Waiting /\ calls' \in Seq(Waiting)
      BY <2>4, <3>1, SMT
    <3>3. blk' \in Blocks /\ blk' \in Nat /\ tabs' \in Nat
      BY <1>u, <2>4, <3>2, Numbers DEF Waiting
    <3>4. nested /\ nested' = nested BY <2>2, <2>4 DEF RoomInv, TakeReturns
    <3> QED BY <1>1, <1>2, <1>3, <1>u, <2>4, <3>2, <3>3, <3>4 DEF RoomInv
  <2> QED BY <2>2, <2>3, <2>4 DEF TakeReturns
<1> QED BY <1>4, <1>5

\* Every step keeps the room invariant.
LEMMA RoomStep ==
  ASSUME CapacityFits PROVE RoomInv /\ [FNext]_allvars => RoomInv'
<1> SUFFICES ASSUME RoomInv, [FNext]_allvars PROVE RoomInv' OBVIOUS
<1>1. CASE PushFrame BY <1>1, PushFinds
<1>2. CASE TakeFrame BY <1>2, TakeInv
<1>3. CASE CallForFrame \/ AllocBlock \/ MapNeedsTable \/ MapDone \/ FillDone
  BY <1>3, QuietInv
<1>4. CASE UNCHANGED allvars
  BY <1>4, UserStays DEF allvars, vars, fvars, RoomInv, IInv, TypeOK, StackInBlock, WordAt, N
<1> QED BY <1>1, <1>2, <1>3, <1>4 DEF FNext

\* A refill fills the stack, where pushStack() would wait for the lock it
\* holds, only if a refill has run inside another's mapping.
THEOREM RefillFits == ASSUME CapacityFits PROVE FSpec => []HangsNested
<1>1. RoomInv => HangsNested BY DEF RoomInv, HangsNested
<1> QED BY FInitInv, RoomStep, <1>1, PTL DEF FSpec

\* With a low-water mark the pop of newPagetable() always finds a frame: its
\* retry is never needed.
THEOREM TableReady == ASSUME CapacityFits PROVE FSpec => []NeverEmpty
<1>1. RoomInv => NeverEmpty
  <2> SUFFICES ASSUME RoomInv, LowWater # 0, step = "take", top = 0 PROVE FALSE
    BY DEF NeverEmpty
  <2>1. N >= 1 BY DEF RoomInv
  <2> QED BY <2>1, SMT DEF N, Word
<1> QED BY FInitInv, RoomStep, <1>1, PTL DEF FSpec

\* Whatever the low-water mark, a refill ends with a frame on the stack: the
\* pop that follows it succeeds, so getPhysmem() retries once at most
\* (vmm.c:53-60).  FrameArrives rests on this.
THEOREM RefillServes ==
  ASSUME CapacityFits
  PROVE  FSpec => [][step = "fill" /\ step' = "take" => top' # 0]_allvars
<1> DEFINE A == step = "fill" /\ step' = "take" => top' # 0
<1>1. RoomInv /\ [FNext]_allvars => [A]_allvars
  <2> SUFFICES ASSUME RoomInv, FNext, step = "fill", step' = "take", top' = 0 PROVE FALSE
    OBVIOUS
  <2>1. FillDone
    BY DEF FNext, CallForFrame, AllocBlock, MapNeedsTable, MapDone, PushFrame, TakeFrame
  <2>2. cnt >= FillLen /\ top' = top BY <2>1 DEF FillDone, vars
  <2>3. cnt <= N /\ cnt \in Nat BY Numbers DEF RoomInv
  <2>4. N = 0 BY <2>2, SMT DEF N, Word
  <2>5. FillLen \in Nat /\ FillLen >= 1 BY Numbers DEF RoomInv
  <2> QED BY <2>2, <2>3, <2>4, <2>5
<1> QED BY FInitInv, RoomStep, <1>1, PTL DEF FSpec

-----------------------------------------------------------------------------
(* A frame is handed out once *)

\* The frame f is on the stack or with a caller.
Used(f) == f \in given \/ \E i \in 1 .. N : f = WordAt(i)

\* Block b waits for its mapping.
Waits(b) == \E k \in 1 .. Len(calls) : calls[k].blk = b

\* The frame f is one that a refill has pushed: of a block that allocPhys()
\* returned and that is mapped, and of the block being pushed one before the
\* next to push.
Pushed(f) ==
  \E b \in owned, i \in 0 .. FillLen - 1 :
    /\ f = Frame(b, i) /\ ~Waits(b)
    /\ step = "map" => b # blk
    /\ step = "fill" /\ b = blk => i < cnt

OnceInv ==
  /\ FramesDistinct
  /\ owned \subseteq Blocks
  /\ \A f : Used(f) => Pushed(f)
  /\ step \in {"map", "fill"} => blk \in owned /\ ~Waits(blk)
  /\ \A k \in 1 .. Len(calls) : calls[k].blk \in owned
  /\ \A k, l \in 1 .. Len(calls) : k # l => calls[k].blk # calls[l].blk

\* A frame of two blocks is one that a refill pushes beyond its block.
LEMMA FrameOfOne ==
  ASSUME user \in Users, owned \subseteq Blocks, NEW b \in owned, NEW c \in owned,
         NEW i \in 0 .. FillLen - 1, NEW j \in 0 .. FillLen - 1,
         Frame(b, i) = Frame(c, j), ~Shared(Frame(b, i))
  PROVE  b = c /\ i = j
<1>1. b \in Nat /\ c \in Nat /\ Chunk \in Nat /\ FillLen = Chunk + user.extra /\ user.extra \in {0, 1}
  BY Numbers
<1>2. (i = Chunk \/ j = Chunk) => user.extra = 1 BY <1>1, SMT
<1>3. CASE i = Chunk /\ j = Chunk
  <2>1. <<b + 1, 0>> = <<c + 1, 0>> BY <1>3 DEF Frame
  <2>2. b + 1 = c + 1 BY <2>1
  <2> QED BY <1>1, <1>3, <2>2
<1>4. CASE i = Chunk /\ j # Chunk
  <2>1. <<b + 1, 0>> = <<c, j>> /\ Frame(b, i) = <<b + 1, 0>> BY <1>4 DEF Frame
  <2>2. b + 1 = c BY <2>1
  <2> QED BY <1>2, <1>4, <2>1, <2>2 DEF Shared
<1>5. CASE i # Chunk /\ j = Chunk
  <2>1. <<b, i>> = <<c + 1, 0>> /\ Frame(b, i) = <<c + 1, 0>> BY <1>5 DEF Frame
  <2>2. b = c + 1 BY <2>1
  <2> QED BY <1>2, <1>5, <2>1, <2>2 DEF Shared
<1>6. CASE i # Chunk /\ j # Chunk
  <2>1. <<b, i>> = <<c, j>> BY <1>6 DEF Frame
  <2> QED BY <2>1
<1> QED BY <1>3, <1>4, <1>5, <1>6

\* What a push and a pop do to the words of the stack.
LEMMA PushWords ==
  ASSUME IInv, NEW x \in Item, PushRoom(x)
  PROVE  /\ N \in Nat /\ N' = N + 1
         /\ \A i \in 1 .. N + 1 : WordAt(i)' = IF i = N + 1 THEN x ELSE WordAt(i)
<1>t. top \in Nat /\ maxSize \in Nat /\ top % Word = 0 /\ top <= maxSize
  BY DEF IInv, TypeOK, StackInBlock
<1>1. /\ top' = top + Word /\ mem' = [mem EXCEPT ![N + 1] = x]
      /\ top + Word <= maxSize
  BY DEF PushRoom, HasRoom, N
<1>2. /\ N \in Nat /\ N' = N + 1 /\ N + 1 <= maxSize \div Word
      /\ maxSize \div Word \in Nat
  BY <1>t, <1>1, Aligned, SMT DEF Word, N
<1>3. DOMAIN mem = 1 .. (maxSize \div Word) BY DEF IInv, TypeOK
<1>4. \A i \in 1 .. N + 1 : i \in DOMAIN mem BY <1>2, <1>3, SMT
<1>5. \A i \in 1 .. N + 1 : WordAt(i)' = IF i = N + 1 THEN x ELSE WordAt(i)
  <2> TAKE i \in 1 .. N + 1
  <2>1. i \in DOMAIN mem /\ i \in DOMAIN mem' BY <1>1, <1>4
  <2> QED BY <2>1, <1>1 DEF WordAt
<1> QED BY <1>2, <1>5

\* popStack() takes the top word and leaves those below it.
LEMMA PopWords ==
  ASSUME IInv, PopStack, top # 0
  PROVE  /\ N \in Nat /\ N >= 1 /\ N' = N - 1
         /\ ret'.ok /\ ret'.val = WordAt(N)
         /\ \A i \in 1 .. N : WordAt(i)' = WordAt(i)
<1>1. /\ top' = top - Word /\ mem' = mem
      /\ ret' = [ok |-> TRUE, val |-> WordAt(N)]
  BY DEF PopStack, N
<1>2. top \in Nat /\ top % Word = 0 BY DEF IInv, TypeOK
<1>3. N \in Nat /\ N >= 1 /\ N' = N - 1 BY <1>1, <1>2, Aligned DEF N
<1> QED BY <1>1, <1>3 DEF WordAt

\* At boot no frame is on the stack or in use.
LEMMA OnceInit == FInit => OnceInv
<1> SUFFICES ASSUME FInit PROVE OnceInv OBVIOUS
<1>1. /\ top = 0 /\ given = {} /\ owned = {} /\ calls = <<>>
      /\ step = "alloc" \/ step = "idle"
  BY DEF FInit
<1>2. top \div Word = 0 /\ N = 0 BY <1>1, SMT DEF N, Word
<1>3. 1 .. 0 = {} /\ Len(calls) = 0 BY <1>1, SMT
<1> QED BY <1>1, <1>2, <1>3 DEF OnceInv, FramesDistinct, Used

\* Steps that leave the stack alone keep FramesDistinct: no more frames are
\* used, and blocks that are allocated stay so.
LEMMA QuietFrames ==
  ASSUME OnceInv, UNCHANGED <<vars, user, given>>, owned \subseteq owned'
  PROVE  FramesDistinct' /\ \A f : Used(f)' <=> Used(f)
<1>1. ASSUME NEW f, Shared(f) PROVE Shared(f)' BY <1>1 DEF Shared
<1>2. /\ top' = top /\ given' = given /\ \A i : WordAt(i)' = WordAt(i)
  BY DEF vars, WordAt
<1>3. FramesDistinct' BY <1>1, <1>2 DEF OnceInv, FramesDistinct
<1> QED BY <1>2, <1>3 DEF Used, N

LEMMA OnceQuiet ==
  ASSUME RoomInv, OnceInv,
         CallForFrame \/ AllocBlock \/ MapNeedsTable \/ MapDone \/ FillDone \/ UNCHANGED allvars
  PROVE  OnceInv'
<1>u. /\ user \in Users /\ user' = user
      /\ UNCHANGED <<Blocks, Chunk, LowWater, FillLen, Rest, Waiting>>
      /\ \A b, i : Frame(b, i)' = Frame(b, i)
  BY UserStays DEF FNext, RoomInv
<1>1. UNCHANGED <<vars, user, given>> /\ owned \subseteq owned'
  BY DEF CallForFrame, AllocBlock, MapNeedsTable, MapDone, FillDone, allvars, fvars
<1>2. FramesDistinct' /\ \A f : Used(f)' <=> Used(f) BY <1>1, QuietFrames
<1> DEFINE Goal ==
      /\ \A f : Pushed(f) => Pushed(f)'
      /\ owned' \subseteq Blocks
      /\ step' \in {"map", "fill"} => blk' \in owned' /\ ~Waits(blk)'
      /\ \A k \in 1 .. Len(calls') : calls'[k].blk \in owned'
      /\ \A k, l \in 1 .. Len(calls') : k # l => calls'[k].blk # calls'[l].blk
<1>3. SUFFICES Goal BY <1>2, <1>u DEF OnceInv
<1>4. CASE AllocBlock
  <2>1. step = "alloc" /\ calls' = calls BY <1>4 DEF AllocBlock
  <2>2. CASE UNCHANGED <<owned, blk, cnt>> /\ step' = "oom"
    <3>1. ASSUME NEW f, Pushed(f) PROVE Pushed(f)'
      BY <1>u, <2>1, <2>2, <3>1 DEF Pushed, Waits
    <3> QED BY <2>1, <2>2, <3>1 DEF OnceInv
  <2>3. CASE \E b \in Blocks \ owned :
               /\ owned' = owned \cup {b} /\ blk' = b /\ cnt' = 0
               /\ step' = "map"
    <3> PICK b \in Blocks \ owned :
               /\ owned' = owned \cup {b} /\ blk' = b /\ cnt' = 0
               /\ step' = "map"
      BY <2>3
    <3>1. ASSUME NEW f, Pushed(f) PROVE Pushed(f)'
      <4>1. PICK c \in owned, i \in 0 .. FillLen - 1 : f = Frame(c, i) /\ ~Waits(c)
        BY <3>1 DEF Pushed
      <4>2. c \in owned' /\ c # blk' /\ ~Waits(c)' BY <2>1, <4>1 DEF Waits
      <4> QED BY <4>1, <4>2, <1>u DEF Pushed
    <3>2. ~Waits(blk)' BY <2>1 DEF Waits, OnceInv
    <3> QED BY <2>1, <3>1, <3>2 DEF OnceInv
  <2> QED BY <1>4, <2>2, <2>3 DEF AllocBlock
<1>5. CASE MapNeedsTable
  <2>1. /\ step = "map" /\ owned' = owned /\ blk' = blk
        /\ calls' = Append(calls, [blk |-> blk, tabs |-> tabs + 1])
        /\ step' \in {"alloc", "take"}
    BY <1>5 DEF MapNeedsTable, Refill, Pop
  <2>2. calls \in Seq(Waiting) BY DEF RoomInv
  <2>3. /\ Len(calls) \in Nat /\ Len(calls') = Len(calls) + 1
        /\ calls'[Len(calls) + 1].blk = blk
        /\ \A k \in 1 .. Len(calls) : calls'[k] = calls[k]
    BY <2>1, <2>2, SMT
  <2>4. \A k \in 1 .. Len(calls) + 1 : k = Len(calls) + 1 \/ k \in 1 .. Len(calls)
    BY <2>3, SMT
  <2>5. blk \in owned /\ ~Waits(blk) BY <2>1 DEF OnceInv
  <2>6. ASSUME NEW f, Pushed(f) PROVE Pushed(f)'
    <3>1. PICK c \in owned, i \in 0 .. FillLen - 1 : f = Frame(c, i) /\ ~Waits(c) /\ c # blk
      BY <2>1, <2>6 DEF Pushed
    <3>2. ~Waits(c)' BY <2>3, <2>4, <3>1 DEF Waits
    <3> QED BY <1>u, <2>1, <3>1, <3>2 DEF Pushed
  <2>7. \A k \in 1 .. Len(calls') : calls'[k].blk \in owned'
    BY <2>1, <2>3, <2>4, <2>5 DEF OnceInv
  <2>8. \A k, l \in 1 .. Len(calls') : k # l => calls'[k].blk # calls'[l].blk
    BY <2>3, <2>4, <2>5 DEF OnceInv, Waits
  <2> QED BY <2>1, <2>6, <2>7, <2>8 DEF OnceInv
<1>6. ASSUME UNCHANGED <<owned, calls, blk>>,
             step' = "fill" => step = "map" \/ (step = "fill" /\ cnt' = cnt),
             step' # "map" \/ step = "map"
      PROVE  Goal
  <2>1. \A b : Waits(b)' <=> Waits(b) BY <1>6 DEF Waits
  <2>2. ASSUME NEW f, Pushed(f) PROVE Pushed(f)'
    <3>1. PICK c \in owned, i \in 0 .. FillLen - 1 :
            /\ f = Frame(c, i) /\ ~Waits(c)
            /\ step = "map" => c # blk
            /\ step = "fill" /\ c = blk => i < cnt
      BY <2>2 DEF Pushed
    <3> QED BY <1>6, <1>u, <2>1, <3>1 DEF Pushed
  <2> QED BY <1>6, <2>1, <2>2 DEF OnceInv
<1>7. CASE CallForFrame BY <1>6, <1>7 DEF CallForFrame, Refill, Pop
<1>8. CASE MapDone BY <1>6, <1>8 DEF MapDone
<1>9. CASE FillDone
  <2>1. UNCHANGED <<owned, calls, blk>> /\ step' = back BY <1>9 DEF FillDone
  <2>2. back \in {"idle", "take"} BY DEF RoomInv
  <2> QED BY <1>6, <2>1, <2>2
<1>10. CASE UNCHANGED allvars BY <1>6, <1>10 DEF allvars, fvars
<1> QED BY <1>4, <1>5, <1>7, <1>8, <1>9, <1>10

\* The next frame of the block is new, or one that two refills push.
LEMMA OncePush ==
  ASSUME CapacityFits, RoomInv, OnceInv, PushFrame
  PROVE  OnceInv'
<1>0. PICK x : x = Frame(blk, cnt) OBVIOUS
<1>u. /\ user \in Users /\ user' = user
      /\ UNCHANGED <<Blocks, Chunk, LowWater, FillLen, Rest, Waiting>>
      /\ \A b, i : Frame(b, i)' = Frame(b, i)
  BY UserStays DEF FNext, RoomInv
<1>1. /\ step = "fill" /\ cnt < FillLen
      /\ UNCHANGED <<step, back, blk, owned, given, calls>>
  BY DEF PushFrame
<1>2. cnt \in Nat /\ cnt \in 0 .. FillLen - 1 /\ blk \in Blocks
  BY <1>1, <1>u, Numbers, SMT DEF RoomInv
<1>3. blk \in owned /\ owned \subseteq Blocks /\ ~Waits(blk) BY <1>1 DEF OnceInv
<1>s. /\ \A f : Shared(f)' <=> Shared(f)
      /\ \A b : Waits(b)' <=> Waits(b)
  BY <1>1, <1>u DEF Shared, Waits
<1>f. CASE PushFull /\ cnt' = cnt
  <2>1. top' = top /\ \A i : WordAt(i)' = WordAt(i) BY <1>f DEF PushFull, WordAt
  <2>2. FramesDistinct' BY <1>1, <1>s, <2>1 DEF OnceInv, FramesDistinct
  <2>3. \A f : Used(f)' <=> Used(f) BY <1>1, <2>1 DEF Used, N
  <2>4. \A f : Pushed(f)' <=> Pushed(f) BY <1>1, <1>f, <1>s, <1>u DEF Pushed
  <2> QED BY <1>1, <1>s, <1>u, <2>2, <2>3, <2>4 DEF OnceInv
<1> SUFFICES ASSUME PushRoom(x), cnt' = cnt + 1 PROVE OnceInv'
  BY <1>0, <1>f, PushFinds
<1>4. x \in Item BY <1>0, PushFinds
<1>5. IInv BY DEF RoomInv
<1>6. /\ N \in Nat /\ N' = N + 1
      /\ \A i \in 1 .. N + 1 : WordAt(i)' = IF i = N + 1 THEN x ELSE WordAt(i)
  BY <1>4, <1>5, PushWords
<1>7. Used(x) => Shared(x)
  <2> SUFFICES ASSUME Used(x), ~Shared(x) PROVE FALSE OBVIOUS
  <2>1. PICK b \in owned, i \in 0 .. FillLen - 1 :
          x = Frame(b, i) /\ (b = blk => i < cnt)
    BY <1>1 DEF OnceInv, Pushed
  <2>2. b = blk /\ i = cnt
    <3>1. Frame(b, i) = Frame(blk, cnt) /\ ~Shared(Frame(b, i)) BY <1>0, <2>1
    <3> QED BY <1>2, <1>3, <1>u, <3>1, FrameOfOne
  <2> QED BY <1>2, <2>1, <2>2, SMT
<1>8. \A i \in 1 .. N + 1 : i = N + 1 \/ i \in 1 .. N BY <1>6, SMT
<1>9. N + 1 \in 1 .. N + 1 /\ (\A i \in 1 .. N : i \in 1 .. N + 1 /\ i # N + 1)
  BY <1>6, SMT
<1>10. FramesDistinct'
  <2> SUFFICES ASSUME NEW i \in 1 .. N + 1, ~Shared(WordAt(i)')
               PROVE  /\ WordAt(i)' \notin given
                      /\ \A j \in 1 .. N + 1 : i # j => WordAt(i)' # WordAt(j)'
    <3>1. \A z \in 1 .. (top' \div Word) : z \in 1 .. N + 1 BY <1>6 DEF N
    <3>2. \A z : Shared(WordAt(z))' <=> Shared(WordAt(z)') BY <1>1, <1>u DEF Shared
    <3> QED BY <1>1, <1>6, <3>1, <3>2 DEF FramesDistinct, N
  <2>1. \A k \in 1 .. N : WordAt(k)' = WordAt(k)
    BY <1>6, <1>9
  <2>2. \A k \in 1 .. N : ~Shared(WordAt(k)) =>
           /\ WordAt(k) \notin given
           /\ \A j \in 1 .. N : k # j => WordAt(k) # WordAt(j)
    BY DEF OnceInv, FramesDistinct, N
  <2>3. ~Shared(x) => x \notin given /\ \A k \in 1 .. N : WordAt(k) # x
    BY <1>7 DEF Used
  <2>0. \A k \in 1 .. N + 1 : k = N + 1 => WordAt(k)' = x BY <1>6
  <2>4. CASE i = N + 1
    <3>1. WordAt(i)' = x BY <2>0, <2>4
    <3>2. x \notin given /\ \A k \in 1 .. N : WordAt(k) # x BY <2>3, <3>1
    <3>3. \A j \in 1 .. N + 1 : i # j => WordAt(j)' # x
      BY <1>8, <2>1, <2>4, <3>2
    <3> QED BY <3>1, <3>2, <3>3
  <2>5. CASE i \in 1 .. N
    <3>1. WordAt(i)' = WordAt(i) /\ ~Shared(WordAt(i)) BY <2>1, <2>5
    <3>2. WordAt(i) \notin given /\ \A j \in 1 .. N : i # j => WordAt(i) # WordAt(j)
      BY <2>2, <2>5, <3>1
    <3>3. WordAt(i) # x
      <4> SUFFICES ASSUME WordAt(i) = x PROVE FALSE OBVIOUS
      <4>1. Used(x) BY <2>5 DEF Used
      <4> QED BY <1>7, <3>1, <4>1
    <3> SUFFICES ASSUME NEW j \in 1 .. N + 1, i # j
                 PROVE  WordAt(i) # WordAt(j)'
      BY <3>1, <3>2
    <3>4. CASE j = N + 1
      <4>1. WordAt(j)' = x BY <2>0, <3>4
      <4> QED BY <3>3, <4>1
    <3>5. CASE j \in 1 .. N BY <2>1, <3>2, <3>5
    <3> QED BY <1>8, <3>4, <3>5
  <2> QED BY <1>8, <2>4, <2>5
<1>11. \A f : Used(f)' => Used(f) \/ f = x
  BY <1>1, <1>6, <1>8 DEF Used
<1>12. ASSUME NEW f, Used(f) PROVE Pushed(f)'
  <2>1. PICK b \in owned, i \in 0 .. FillLen - 1 :
          f = Frame(b, i) /\ ~Waits(b) /\ (b = blk => i < cnt)
    BY <1>1, <1>12 DEF OnceInv, Pushed
  <2>2. i < cnt => i < cnt' BY <1>1, <1>2, SMT
  <2> QED BY <1>1, <1>s, <1>u, <2>1, <2>2 DEF Pushed
<1>13. Pushed(x)'
  <2>1. cnt < cnt' BY <1>1, <1>2, SMT
  <2>2. blk \in owned' /\ blk' = blk /\ ~Waits(blk)' BY <1>1, <1>3, <1>s
  <2> SUFFICES \E b \in owned', i \in 0 .. FillLen - 1 :
                 x = Frame(b, i) /\ ~Waits(b)' /\ (step' = "map" => b # blk')
                 /\ (step' = "fill" /\ b = blk' => i < cnt')
    BY <1>u DEF Pushed
  <2> QED BY <1>0, <1>1, <1>2, <2>1, <2>2
<1>14. \A f : Used(f)' => Pushed(f)' BY <1>11, <1>12, <1>13
<1> QED BY <1>1, <1>3, <1>10, <1>14, <1>s, <1>u DEF OnceInv

\* The frame that is handed out leaves the stack.
LEMMA OnceTake == ASSUME RoomInv, OnceInv, TakeFrame PROVE OnceInv'
<1>u. /\ user \in Users /\ user' = user
      /\ UNCHANGED <<Blocks, Chunk, LowWater, FillLen, Rest, Waiting>>
      /\ \A b, i : Frame(b, i)' = Frame(b, i)
  BY UserStays DEF FNext, RoomInv
<1>1. PopStack /\ step = "take" /\ UNCHANGED <<back, cnt, owned>> BY DEF TakeFrame
<1>2. IInv BY DEF RoomInv
<1>s. \A f : Shared(f)' <=> Shared(f) BY <1>1, <1>u DEF Shared
<1>3. CASE top = 0
  <2>1. ret' = Nothing /\ top' = top /\ mem' = mem BY <1>1, <1>3 DEF PopStack
  <2>2. ~ret'.ok BY <2>1 DEF Nothing
  <2>3. step' = "alloc" /\ UNCHANGED <<given, blk, calls>> BY <2>2 DEF TakeFrame, Refill
  <2>4. FramesDistinct' BY <1>s, <2>1, <2>3 DEF OnceInv, FramesDistinct, WordAt
  <2>5. \A f : Used(f)' => Used(f) BY <2>1, <2>3 DEF Used, N, WordAt
  <2>6. \A f : Pushed(f) => Pushed(f)' BY <1>1, <1>u, <2>3 DEF Pushed, Waits
  <2> QED BY <1>1, <1>u, <2>3, <2>4, <2>5, <2>6 DEF OnceInv
<1>4. CASE top # 0
  <2>1. /\ N \in Nat /\ N >= 1 /\ N' = N - 1
        /\ ret'.ok /\ ret'.val = WordAt(N)
        /\ \A i \in 1 .. N : WordAt(i)' = WordAt(i)
    BY <1>1, <1>2, <1>4, PopWords
  <2>2. TakeReturns /\ given' = given \cup {WordAt(N)}
    BY <2>1 DEF TakeFrame, TakeReturns
  <2>3. N \in 1 .. N /\ \A i \in 1 .. N' : i \in 1 .. N /\ i # N
    BY <2>1, SMT
  <2>4. \A i \in 1 .. N : ~Shared(WordAt(i)) =>
          /\ WordAt(i) \notin given
          /\ \A j \in 1 .. N : i # j => WordAt(i) # WordAt(j)
    BY DEF OnceInv, FramesDistinct, N
  <2>5. \A i \in 1 .. N' : ~Shared(WordAt(i)) =>
          /\ WordAt(i) \notin given'
          /\ \A j \in 1 .. N' : i # j => WordAt(i) # WordAt(j)
    BY <2>2, <2>3, <2>4
  <2>6. \A i \in 1 .. N' : Shared(WordAt(i))' <=> Shared(WordAt(i))
    <3>1. ASSUME NEW i \in 1 .. N' PROVE Shared(WordAt(i))' <=> Shared(WordAt(i))
      <4>1. WordAt(i)' = WordAt(i) BY <2>1, <2>3
      <4> QED BY <4>1, <1>1, <1>u DEF Shared
    <3> QED BY <3>1
  <2>7. FramesDistinct' BY <2>1, <2>3, <2>5, <2>6 DEF FramesDistinct, N
  <2>8. \A f : Used(f)' => Used(f)
    BY <2>1, <2>2, <2>3 DEF Used
  <2>9. CASE calls = <<>> /\ step' = "idle" /\ UNCHANGED <<blk, calls>>
    <3>1. \A f : Pushed(f) => Pushed(f)' BY <1>1, <1>u, <2>9 DEF Pushed, Waits
    <3> QED BY <1>1, <1>u, <2>7, <2>8, <2>9, <3>1 DEF OnceInv
  <2>10. CASE /\ calls # <<>> /\ step' = "map"
              /\ blk' = calls[Len(calls)].blk
              /\ calls' = SubSeq(calls, 1, Len(calls) - 1)
    <3>1. calls \in Seq(Waiting) BY DEF RoomInv
    <3>n. Len(calls) \in Nat /\ Len(calls) >= 1 BY <2>10, <3>1, SMT
    <3>2. /\ Len(calls) \in Nat /\ Len(calls) >= 1
          /\ Len(calls') = Len(calls) - 1
          /\ \A k \in 1 .. Len(calls') : calls'[k] = calls[k]
      <4> DEFINE m == Len(calls) - 1
      <4>1. m \in Nat /\ m <= Len(calls) BY <3>n, SMT
      <4>2. calls' = [k \in 1 .. m |-> calls[k]] BY <2>10, <3>1, <4>1, SMT
      <4>3. Len(calls') = m
        <5>1. calls' \in Seq(Waiting) BY <2>10, <3>1, SMT
        <5>2. DOMAIN calls' = 1 .. m BY <4>2
        <5>3. DOMAIN calls' = 1 .. Len(calls') /\ Len(calls') \in Nat BY <5>1, SMT
        <5> HIDE DEF m
        <5> QED BY <4>1, <5>2, <5>3, SMT
      <4> QED BY <3>n, <4>2, <4>3
    <3>3. /\ Len(calls) \in 1 .. Len(calls)
          /\ \A k \in 1 .. Len(calls') : k \in 1 .. Len(calls) /\ k # Len(calls)
      BY <3>2, SMT
    <3>4. blk' \in owned /\ Waits(blk') BY <2>10, <3>3 DEF OnceInv, Waits
    <3>5. \A b : Waits(b)' => Waits(b) BY <3>2, <3>3 DEF Waits
    <3>6. ASSUME NEW f, Pushed(f) PROVE Pushed(f)'
      <4>1. PICK b \in owned, i \in 0 .. FillLen - 1 : f = Frame(b, i) /\ ~Waits(b)
        BY <3>6 DEF Pushed
      <4>2. b # blk' /\ ~Waits(b)' BY <3>4, <3>5, <4>1
      <4> QED BY <1>1, <1>u, <2>10, <4>1, <4>2 DEF Pushed
    <3>7. ~Waits(blk)'
      <4>1. \A k \in 1 .. Len(calls') : calls'[k].blk # blk'
        BY <2>10, <3>2, <3>3 DEF OnceInv
      <4> QED BY <4>1 DEF Waits
    <3>8. \A k \in 1 .. Len(calls') : calls'[k].blk \in owned'
      BY <1>1, <3>2, <3>3 DEF OnceInv
    <3>9. \A k, l \in 1 .. Len(calls') : k # l => calls'[k].blk # calls'[l].blk
      BY <3>2, <3>3 DEF OnceInv
    <3> QED BY <1>1, <1>u, <2>7, <2>8, <2>10, <3>4, <3>6, <3>7, <3>8, <3>9 DEF OnceInv
  <2> QED BY <2>2, <2>9, <2>10 DEF TakeReturns
<1> QED BY <1>3, <1>4

\* For every number, order and placing of blocks, refills inside refills
\* included: no page frame is handed out twice, or while it is on the stack,
\* but the one that growPageStack()'s loop pushes beyond a block whose
\* neighbour it gets too.
THEOREM FrameOnce ==
  ASSUME CapacityFits PROVE FSpec => []FramesDistinct
<1>1. RoomInv /\ OnceInv /\ [FNext]_allvars => OnceInv'
  BY OncePush, OnceTake, OnceQuiet DEF FNext
<1>2. OnceInv => FramesDistinct BY DEF OnceInv
<1> QED BY FInitInv, RoomStep, OnceInit, <1>1, <1>2, PTL DEF FSpec
=============================================================================
