-------------------------------- MODULE Dict --------------------------------
(* What the page tables promise: a map from keys to data, and answers that  *)
(* agree with it.                                                           *)
CONSTANTS Key, Data

VARIABLES
  map,   \* the data of the keys that are in the map
  ans    \* what the last call lets its caller expect of its key

\* An answer about a key of the map is right.
Right ==
  ans.key \in Key => /\ ans.found <=> ans.key \in DOMAIN map
                     /\ ans.found => ans.data = map[ans.key]

DInit == map = <<>> /\ ~ans.found

\* A key is given a value, new or changed; the others keep theirs.
Put ==
  \E k \in Key, d \in Data :
    map' = [x \in DOMAIN map \cup {k} |-> IF x = k THEN d ELSE map[x]]

\* Whatever a call does, what it leads its caller to expect is so.
DNext == (Put \/ UNCHANGED map) /\ Right'

DSpec == DInit /\ [][DNext]_<<map, ans>>
=============================================================================
