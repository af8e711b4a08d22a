----------------------------- MODULE HashTable ------------------------------
(***************************************************************************)
(* The hash table of hashtable.c.  A bucket is a sequence: its first entry *)
(* is the one in the table's array, the others are its chain.  An entry    *)
(* whose key is NoKey has a NULL hash pointer.                             *)
(*                                                                         *)
(* hashtableCreate() takes the array from kmalloc() and clears nothing, so *)
(* a bucket begins as what the heap held there: Raw with a NULL hash,      *)
(* Stale with another hash and a NULL chain, or <<>> where hash and chain  *)
(* are both stale and every call on the bucket follows a wild pointer.     *)
(* State "fault" is a kernel that has followed one, or has freed one.      *)
(*                                                                         *)
(* Keys are opaque: hashData() is the constant HashOf.  A key flagged      *)
(* HASHTABLE_FLAG_COPY is copied with the kernel's memcpy(), which takes   *)
(* its length where the C prototype has the source (misc.asm:10-24): it    *)
(* runs off mapped memory, and the kernel stops.                           *)
(***************************************************************************)
EXTENDS Naturals, Sequences

CONSTANTS
  Key, Data, Bucket,
  HashOf,  \* the bucket of a key, hashData()
  NoKey,   \* an unused entry's hash
  NoData,  \* an unused entry's data
  Junk     \* what nobody has written

ASSUME HashAssumption ==
  /\ HashOf \in [Key -> Bucket] /\ NoKey \notin Key
  /\ Junk \notin Key \cup Data \cup {NoKey, NoData}

VARIABLES
  table,   \* the buckets
  state,   \* "none" before hashtableCreate(), "live", or "fault"
  ret      \* what the last call answered, or its caller may now expect

hvars == <<table, state, ret>>

hashData(k) == HashOf[k]

Entry(k, d) == [key |-> k, data |-> d]
Free == Entry(NoKey, NoData)
Raw == Entry(NoKey, Junk)
Stale == Entry(Junk, Junk)
Told(k, found, d) == [key |-> k, found |-> found, data |-> d]
Silent == Told(NoKey, FALSE, NoData)

\* Mutant: the entry in the array is not looked at.
InsertAtChain(s, k, d) == Append(s, Entry(k, d))

\* hashtableInsert() on one bucket.  An unused entry in the array, or on the
\* chain before its last, is filled and ends the chain there; otherwise the
\* chain grows.
InsertAt(s, k, d) ==
  LET unused == {i \in 2 .. Len(s) - 1 : s[i].key = NoKey}
  IN  IF s[1].key = NoKey THEN <<Entry(k, d)>>
      ELSE IF unused = {} THEN Append(s, Entry(k, d))
      ELSE Append(SubSeq(s, 1, (CHOOSE i \in unused : \A j \in unused : i <= j) - 1),
                  Entry(k, d))

\* Mutant: an entry of the chain is taken without a comparison too.
FindAtAny(s, k) == IF s[1].key = NoKey THEN 0 ELSE IF Len(s) = 1 THEN 1 ELSE 2

\* findKey() on one bucket: the place of the entry it returns, or 0.  A lone
\* entry is returned without a comparison; with a chain, only the chain is
\* searched.
FindAt(s, k) ==
  LET hits == {i \in 2 .. Len(s) : s[i].key = k}
  IN  IF s[1].key = NoKey THEN 0
      ELSE IF Len(s) = 1 THEN 1
      ELSE IF hits = {} THEN 0
      ELSE CHOOSE i \in hits : \A j \in hits : i <= j

\* findKey() may fault: on a wild chain, or comparing a key with a removed
\* entry's NULL pointer.
Strays(s, k) ==
  s = <<>> \/ \E i \in 2 .. Len(s) : s[i].key = NoKey /\ FindAt(s, k) \notin 1 .. i

\* So may a call that frees the key of the entry found, by stale flags.
FreesWild(s, k) == Strays(s, k) \/ (s # <<>> /\ s[1].key = Junk /\ FindAt(s, k) = 1)

\* What hashtableFetch() writes and returns.
FetchAt(s, k) ==
  LET i == FindAt(s, k)
  IN  Told(k, i # 0, IF i = 0 THEN NoData ELSE s[i].data)

-----------------------------------------------------------------------------

HInit == table = <<>> /\ state = "none" /\ ret = Silent

\* Nothing is said of a table after a fault.
Astray == state' = "fault" /\ table' = <<>> /\ ret' = Silent

hashtableCreate ==
  /\ state = "none" /\ state' = "live"
  /\ table' \in [Bucket -> {<<Raw>>, <<Stale>>, <<>>}]
  /\ ret' = Silent

\* A copied key: memcpy() does not come back.
CopyKey == state = "live" /\ Astray

hashtableInsert(k, d) ==
  LET s == table[hashData(k)]
  IN  /\ state = "live"
      /\ \/ /\ s # <<>>
            /\ table' = [table EXCEPT ![hashData(k)] = InsertAt(s, k, d)]
            /\ ret' = Told(k, TRUE, d) /\ UNCHANGED state
         \/ s = <<>> /\ Astray

hashtableFetch(k) ==
  LET s == table[hashData(k)]
  IN  /\ state = "live"
      /\ \/ s # <<>> /\ ret' = FetchAt(s, k) /\ UNCHANGED <<table, state>>
         \/ Strays(s, k) /\ Astray

\* The entry is emptied and stays in its chain: findKey() never sets prev.
hashtableRemove(k) ==
  LET s == table[hashData(k)]  i == FindAt(s, k)
  IN  /\ state = "live"
      /\ \/ /\ s # <<>>
            /\ table' = IF i = 0 THEN table
                        ELSE [table EXCEPT ![hashData(k)] = [s EXCEPT ![i] = Free]]
            /\ ret' = Told(k, FALSE, NoData) /\ UNCHANGED state
         \/ FreesWild(s, k) /\ Astray

\* Without the copy flag the key pointer stays as it is.
hashtableUpdate(k, d) ==
  LET s == table[hashData(k)]  i == FindAt(s, k)
  IN  /\ state = "live"
      /\ \/ /\ s # <<>>
            /\ table' = IF i = 0 THEN table
                        ELSE [table EXCEPT ![hashData(k)] = [s EXCEPT ![i] = Entry(s[i].key, d)]]
            /\ ret' = Told(k, i # 0, IF i = 0 THEN NoData ELSE d) /\ UNCHANGED state
         \/ FreesWild(s, k) /\ Astray

\* freeKey() on every bucket, then the array.  A bucket nobody has filled has
\* stale flags and perhaps a stale chain.
hashtableDestroy ==
  /\ state = "live"
  /\ \/ /\ \A b \in Bucket : table[b] # <<>>
        /\ state' = "none" /\ table' = <<>> /\ ret' = Silent
     \/ /\ \E b \in Bucket : table[b] # <<>> => table[b][1].data = Junk
        /\ Astray

\* A caller inserts a key once; addVFSFile() relies on the names on a disk
\* being different.
Present(k) == \E i \in DOMAIN table[hashData(k)] : table[hashData(k)][i].key = k

HNext ==
  \/ hashtableCreate \/ hashtableDestroy \/ CopyKey
  \/ \E k \in Key :
       \/ hashtableFetch(k) \/ hashtableRemove(k)
       \/ \E d \in Data :
            hashtableUpdate(k, d) \/ (state = "live" /\ ~Present(k) /\ hashtableInsert(k, d))

HSpec == HInit /\ [][HNext]_hvars

-----------------------------------------------------------------------------
(* Properties *)

\* What hashtableFetch() would answer for a key.
Answer(k) == FetchAt(table[hashData(k)], k)

\* A bucket with a chain, and no removed entry before the chain's last.
Chained(s) == Len(s) >= 2 /\ \A i \in 2 .. Len(s) - 1 : s[i].key # NoKey

\* Keys that collide do not disturb each other: in a bucket with a chain no
\* insert, update or removal of one key changes what hashtableFetch() answers
\* for another, whichever entry findKey() has returned to the call.  (A
\* bucket whose one entry is returned to every key, and a chain that
\* hashtableInsert() cuts at a removed entry, are the two exceptions.)
OthersKept ==
  [][state = "live" /\ state' = "live" =>
       \A j \in Key : Chained(table[hashData(j)]) /\ ret'.key # j => Answer(j)' = Answer(j)]_hvars
=============================================================================
