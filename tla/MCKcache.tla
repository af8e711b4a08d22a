------------------------------ MODULE MCKcache ------------------------------
(* The kernel's caches, with 4-bit words and 2-bit ints for 64 and 32.  A   *)
(* slab of the marker and of the internal cache has whole words, as their   *)
(* 128 and 256 buffers do; one of the ticket cache, with 227, ends inside a *)
(* word; the AHCI cache's have no more buffers than an int has bits.        *)
EXTENDS Kcache, TLC

CONSTANTS internal, marker, ahci, ticket

Caches == {internal, marker, ahci, ticket}
Counts == (internal :> 8) @@ (marker :> 8) @@ (ahci :> 2) @@ (ticket :> 6)
RedzoneBits == {1, 2, 3}
=============================================================================
