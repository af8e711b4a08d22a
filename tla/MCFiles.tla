------------------------------ MODULE MCFiles -------------------------------
(* Two kinds of behaviour in one instance: client "table" makes every call *)
(* of hashtable.c in every order; client "vfs" packs a directory, boots    *)
(* and uses its files.  ka has a bucket, kb, kc and kd share one.   *)
EXTENDS Files, TLC

CONSTANTS ka, kb, kc, kd

VARIABLE client

Hash == (ka :> 0) @@ (kb :> 1) @@ (kc :> 1) @@ (kd :> 1)
F(x, l, s) == [name |-> x, len |-> l, size |-> s, file |-> TRUE]
Dir == [name |-> ka, len |-> 1, size |-> 0, file |-> FALSE]
\* Files of different sizes; in the second directory two names collide, as
\* test.jpg and test.png do in the repository's own.
HostTrees ==
  {<<F(ka, 1, 3), Dir, F(kb, 3, 1)>>, <<F(kc, 1, 2), F(ka, 2, 1), F(kd, 1, 3)>>}

MCInit ==
  /\ FInit
  /\ client = "vfs" \/ (client = "table" /\ tree = CHOOSE t \in Trees : TRUE)

MCNext ==
  /\ \/ client = "table" /\ HNext /\ UNCHANGED fvars
     \/ client = "vfs" /\ FNext
  /\ UNCHANGED client

MCSpec == MCInit /\ [][MCNext]_<<client, fileVars>>
=============================================================================
