-------------------------------- MODULE Lifo --------------------------------
(***************************************************************************)
(* What a data stack promises its callers: items come back last in, first  *)
(* out, a pop of an empty stack says so, and the count is the number of    *)
(* items.  No bytes, no sizes, no memory that moves.                       *)
(***************************************************************************)
EXTENDS Integers, Sequences

CONSTANTS
  Item,
  Junk   \* a value that is no item

VARIABLES
  items,   \* the items on the stack
  ret      \* what the last call returned

Nothing == [ok |-> FALSE, val |-> Junk]

Init == items = <<>> /\ ret = Nothing

\* A new, empty stack, or one that is gone.
Reset == items' = <<>> /\ ret' = Nothing

Push(x) == items' = Append(items, x) /\ ret' = Nothing

Pop ==
  \/ items = <<>> /\ ret' = Nothing /\ UNCHANGED items
  \/ /\ items # <<>>
     /\ ret' = [ok |-> TRUE, val |-> items[Len(items)]]
     /\ items' = SubSeq(items, 1, Len(items) - 1)

Count == ret' = [ok |-> TRUE, val |-> Len(items)] /\ UNCHANGED items

\* Calls that only move the memory of the stack.
Housekeep == ret' = Nothing /\ UNCHANGED items

Next == Reset \/ (\E x \in Item : Push(x)) \/ Pop \/ Count \/ Housekeep

Spec == Init /\ [][Next]_<<items, ret>>
=============================================================================
