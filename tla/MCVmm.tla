-------------------------------- MODULE MCVmm --------------------------------
(* Pages of two bytes, ranges of one and two pages, five markers.           *)
EXTENDS Vmm

PageSizes == {1, 2, 4}
OddSizes == {2, 3}
Mins == {3, 20}
Bars == {30, 31, 40, 42}
Uncached == {31, 40}
InsidePage == {42}
=============================================================================
