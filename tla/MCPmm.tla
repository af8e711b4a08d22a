-------------------------------- MODULE MCPmm --------------------------------
(* Memory maps: one entry below the first boundary, two in the middle, one  *)
(* above; and the sizes that the kernel asks for.  The entries in the       *)
(* middle have more blocks than a word has bits, and the region of the last *)
(* takes the place of the first one's.                                      *)
EXTENDS Pmm

E(p, n) == [phys |-> p, pages |-> n]

SmallMap == <<E(1, 5), E(10, 17), E(50, 13), E(70, 5)>>
SmallUse == {E(13, 2), E(50, 2), E(54, 1)}
SmallSizes == {2, 3}
SmallRefills == {3}
SmallJunk == {{0, 2}}
AllTypes == {0, 2}
Zero == {0}

BigMap == <<E(1, 64), E(300, 256), E(2000, 64)>>
None == {}
NoJunk == {{}}
BigSizes == {10, 100}

ASSUME Sizes = SmallSizes => UnitUse
=============================================================================
