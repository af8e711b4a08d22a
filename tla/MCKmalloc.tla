------------------------------ MODULE MCKmalloc ------------------------------
(* Instances of the kernel heap for TLC: headers of 2, red zones of 1 and   *)
(* pages of 8 addresses, and a heap that holds four or five small blocks.   *)
EXTENDS Kmalloc

SmallSizes == {0, 1, 4}
BootSizes == {1, 3}
BootCalls == {"kmalloc", "kmallocAligned", "krealloc"}
AlignedCalls == {"kmalloc", "kmallocAligned", "kfree"}
HeapCalls == {"kmalloc", "kfree", "krealloc"}
=============================================================================
