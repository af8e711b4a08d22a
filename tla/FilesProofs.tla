----------------------------- MODULE FilesProofs -----------------------------
(***************************************************************************)
(* Proofs about the hash table, the ramdisk and the VFS: for every hash    *)
(* function, every heap the table is made from, every directory and every  *)
(* set of open files.                                                      *)
(***************************************************************************)
EXTENDS Files, Integers, FiniteSetTheorems, SequenceTheorems, WellFoundedInduction, TLAPS

-----------------------------------------------------------------------------
(* Buckets *)

Cell(S) == [key : Key \cup {NoKey, Junk}, data : S \cup {NoData, Junk}]

\* A set of numbers has a least one.
LEMMA LeastNat ==
  ASSUME NEW S \in SUBSET Nat, S # {} PROVE \E x \in S : \A y \in S : x <= y
<1> DEFINE R == OpToRel(<, Nat)
<1>1. IsWellFoundedOn(R, Nat) BY NatLessThanWellFounded
<1>2. \A x, y \in Nat : <<x, y>> \in R <=> x < y BY DEF OpToRel
<1> HIDE DEF R
<1>3. PICK x \in S : \A y \in S : ~ (<<y, x>> \in R) BY <1>1, WFMin
<1>4. \A y \in S : x <= y
  <2> TAKE y \in S
  <2>1. ~ (y < x) BY <1>2, <1>3
  <2> QED BY <2>1
<1> QED BY <1>4

\* A bucket that no wild pointer has replaced has an entry.
LEMMA HasEntry == ASSUME NEW C, NEW s \in Seq(C), s # <<>> PROVE Len(s) \in Nat /\ Len(s) >= 1
OBVIOUS

\* FindAt() names an entry or none: the one in the array if it is alone, or
\* else one of the chain with the key asked for.
LEMMA FindPlace ==
  ASSUME NEW C, NEW s \in Seq(C), Len(s) >= 1, NEW k \in Key
  PROVE  /\ FindAt(s, k) \in 0 .. Len(s)
         /\ FindAt(s, k) # 0 => s[1].key # NoKey
         /\ FindAt(s, k) = 1 <=> s[1].key # NoKey /\ Len(s) = 1
         /\ FindAt(s, k) > 1 => s[FindAt(s, k)].key = k
         /\ s[1].key # NoKey /\ FindAt(s, k) = 0 => \A i \in 2 .. Len(s) : s[i].key # k
<1> DEFINE hits == {i \in 2 .. Len(s) : s[i].key = k}
           first == CHOOSE i \in hits : \A j \in hits : i <= j
<1>1. FindAt(s, k) = IF s[1].key = NoKey THEN 0 ELSE IF Len(s) = 1 THEN 1
                     ELSE IF hits = {} THEN 0 ELSE first
  BY DEF FindAt
<1>2. Len(s) \in Nat OBVIOUS
<1>3. hits # {} => first \in hits
  <2> SUFFICES ASSUME hits # {} PROVE first \in hits OBVIOUS
  <2>1. hits \in SUBSET Nat OBVIOUS
  <2>2. PICK i \in hits : \A j \in hits : i <= j BY <2>1, LeastNat
  <2> QED BY <2>2
<1>4. \A i : i \in hits <=> i \in 2 .. Len(s) /\ s[i].key = k OBVIOUS
<1> HIDE DEF hits, first
<1>5. hits # {} => first \in 2 .. Len(s) /\ s[first].key = k BY <1>3, <1>4
<1>6. CASE s[1].key = NoKey BY <1>1, <1>2, <1>6
<1>7. CASE s[1].key # NoKey /\ Len(s) = 1 BY <1>1, <1>2, <1>7
<1>8. CASE s[1].key # NoKey /\ Len(s) # 1 /\ hits = {} BY <1>1, <1>2, <1>4, <1>8
<1>9. CASE s[1].key # NoKey /\ Len(s) # 1 /\ hits # {}
  <2>1. FindAt(s, k) = first /\ first \in 2 .. Len(s) /\ s[first].key = k BY <1>1, <1>5, <1>9
  <2> HIDE DEF FindAt
  <2> QED BY <1>2, <1>9, <2>1
<1> QED BY <1>6, <1>7, <1>8, <1>9

\* Two buckets with a chain give a key the same answer if their chains have
\* the same entries for it.
LEMMA SameHits ==
  ASSUME NEW C, NEW s \in Seq(C), NEW t \in Seq(C), NEW j \in Key, Len(s) >= 2, Len(t) >= 2,
         s[1].key # NoKey, t[1].key # NoKey,
         \A i : i \in 2 .. Len(s) /\ s[i].key = j <=> i \in 2 .. Len(t) /\ t[i].key = j,
         \A i \in 2 .. Len(s) : s[i].key = j => t[i] = s[i]
  PROVE  FetchAt(t, j) = FetchAt(s, j)
<1> DEFINE hs == {i \in 2 .. Len(s) : s[i].key = j}  ht == {i \in 2 .. Len(t) : t[i].key = j}
<1>1. hs = ht OBVIOUS
<1>2. FindAt(t, j) = FindAt(s, j)
  <2>0. Len(s) # 1 /\ Len(t) # 1 OBVIOUS
  <2>1. FindAt(s, j) = IF hs = {} THEN 0 ELSE CHOOSE i \in hs : \A l \in hs : i <= l
    BY <2>0, ZenonT(30) DEF FindAt
  <2>2. FindAt(t, j) = IF ht = {} THEN 0 ELSE CHOOSE i \in ht : \A l \in ht : i <= l
    BY <2>0, ZenonT(30) DEF FindAt
  <2> HIDE DEF hs, ht
  <2> QED BY <1>1, <2>1, <2>2
<1> DEFINE p == FindAt(s, j)
<1>3. p # 0 => p \in 2 .. Len(s) /\ s[p].key = j
  <2>1. Len(s) \in Nat /\ Len(s) >= 1 /\ Len(s) # 1 OBVIOUS
  <2>2. p \in 0 .. Len(s) /\ p # 1 /\ (p > 1 => s[p].key = j) BY <2>1, FindPlace
  <2> HIDE DEF p
  <2> QED BY <2>1, <2>2
<1>4. p # 0 => t[p] = s[p] BY <1>3
<1> QED BY <1>2, <1>4 DEF FetchAt

\* hashtableInsert() leaves the new entry and entries that were there.
LEMMA InsertElements ==
  ASSUME NEW C, NEW s \in Seq(C), Len(s) >= 1, NEW k, NEW d, Entry(k, d) \in C
  PROVE  /\ InsertAt(s, k, d) \in Seq(C) /\ Len(InsertAt(s, k, d)) >= 1
         /\ \A i \in 1 .. Len(InsertAt(s, k, d)) :
              \/ InsertAt(s, k, d)[i] = Entry(k, d)
              \/ i \in 1 .. Len(s) /\ InsertAt(s, k, d)[i] = s[i]
<1> DEFINE e == Entry(k, d)
           unused == {i \in 2 .. Len(s) - 1 : s[i].key = NoKey}
           first == CHOOSE i \in unused : \A j \in unused : i <= j
           t == SubSeq(s, 1, first - 1)
           r == InsertAt(s, k, d)
<1>1. s \in Seq(C) /\ Len(s) \in Nat /\ Len(s) >= 1 /\ e \in C OBVIOUS
<1>2. r = IF s[1].key = NoKey THEN <<e>>
          ELSE IF unused = {} THEN Append(s, e) ELSE Append(t, e)
  BY DEF InsertAt
<1>3. unused # {} => first \in unused
  <2> SUFFICES ASSUME unused # {} PROVE first \in unused OBVIOUS
  <2>1. unused \in SUBSET Nat OBVIOUS
  <2>2. PICK i \in unused : \A j \in unused : i <= j BY <2>1, LeastNat
  <2> QED BY <2>2
<1>4. \A i \in unused : i \in 2 .. Len(s) - 1 OBVIOUS
<1> HIDE DEF e, unused, first, r
<1>5. CASE s[1].key = NoKey
  <2>1. <<e>> \in Seq(C) /\ Len(<<e>>) = 1 /\ <<e>>[1] = e BY <1>1
  <2>2. \A i \in 1 .. Len(r) : r[i] = e BY <1>2, <1>5, <2>1
  <2> QED BY <1>2, <1>5, <2>1, <2>2 DEF e, r
<1>6. CASE s[1].key # NoKey /\ unused = {}
  <2>1. /\ Append(s, e) \in Seq(C) /\ Len(Append(s, e)) = Len(s) + 1
        /\ \A i \in 1 .. Len(s) + 1 : Append(s, e)[i] = IF i = Len(s) + 1 THEN e ELSE s[i]
    BY <1>1, AppendProperties
  <2>2. \A i \in 1 .. Len(s) + 1 : i = Len(s) + 1 \/ i \in 1 .. Len(s) BY <1>1
  <2>3. r = Append(s, e) BY <1>2, <1>6
  <2>4. \A i \in 1 .. Len(r) : r[i] = e \/ (i \in 1 .. Len(s) /\ r[i] = s[i]) BY <2>1, <2>2, <2>3
  <2> QED BY <1>1, <2>1, <2>3, <2>4 DEF e, r
<1>7. CASE s[1].key # NoKey /\ unused # {}
  <2>1. first \in 2 .. Len(s) - 1 BY <1>3, <1>4, <1>7
  <2>2. t \in Seq(C) /\ Len(t) = first - 1 /\ \A i \in 1 .. first - 1 : t[i] = s[i]
    BY <1>1, <2>1, SubSeqProperties
  <2> HIDE DEF t
  <2>3. /\ Append(t, e) \in Seq(C) /\ Len(Append(t, e)) = Len(t) + 1
        /\ \A i \in 1 .. Len(t) + 1 : Append(t, e)[i] = IF i = Len(t) + 1 THEN e ELSE t[i]
    BY <1>1, <2>2, AppendProperties
  <2>4. \A i \in 1 .. Len(t) + 1 : i = Len(t) + 1 \/ (i \in 1 .. first - 1 /\ i \in 1 .. Len(s))
    BY <1>1, <2>1, <2>2
  <2>5. r = Append(t, e) BY <1>2, <1>7
  <2>6. \A i \in 1 .. Len(r) : r[i] = e \/ (i \in 1 .. Len(s) /\ r[i] = s[i])
    BY <2>2, <2>3, <2>4, <2>5
  <2> QED BY <2>1, <2>2, <2>3, <2>5, <2>6 DEF e, r
<1> QED BY <1>5, <1>6, <1>7

-----------------------------------------------------------------------------
(* Keys that collide *)

\* The entry in the array is used wherever there is a chain.
IsBucket(s) == s \in Seq(Cell(Data)) /\ (Len(s) >= 2 => s[1].key # NoKey)

TableInv ==
  state = "live" => DOMAIN table = Bucket /\ \A b \in Bucket : IsBucket(table[b])

\* A bucket changes: the invariant stays, and so do the answers for keys of
\* other buckets.
LEMMA BucketChange ==
  ASSUME TableInv, state = "live", state' = "live", NEW k \in Key, NEW t,
         IsBucket(t), table' = [table EXCEPT ![hashData(k)] = t]
  PROVE  /\ TableInv' /\ table'[hashData(k)] = t
         /\ \A j \in Key : hashData(j) # hashData(k) => table'[hashData(j)] = table[hashData(j)]
<1>1. DOMAIN table = Bucket /\ \A b \in Bucket : IsBucket(table[b]) BY DEF TableInv
<1>2. \A j \in Key : hashData(j) \in Bucket BY HashAssumption DEF hashData
<1>3. DOMAIN table' = Bucket /\ \A b \in Bucket : table'[b] = IF b = hashData(k) THEN t ELSE table[b]
  BY <1>1
<1>4. \A b \in Bucket : IsBucket(table'[b]) BY <1>1, <1>3
<1>5. \A b \in Bucket : IsBucket(table[b])' <=> IsBucket(table'[b]) BY DEF IsBucket, Cell
<1>6. TableInv' BY <1>3, <1>4, <1>5 DEF TableInv
<1> QED BY <1>2, <1>3, <1>6

\* What a call finds in the bucket of its key.
LEMMA BucketOf ==
  ASSUME TableInv, state = "live", NEW k \in Key
  PROVE  hashData(k) \in Bucket /\ IsBucket(table[hashData(k)])
BY HashAssumption DEF TableInv, hashData

\* hashtableInsert() of k: a bucket again, and the answer for another key of
\* its chain is the same.
LEMMA InsertBucket ==
  ASSUME NEW s, IsBucket(s), s # <<>>, NEW k \in Key, NEW d \in Data
  PROVE  /\ IsBucket(InsertAt(s, k, d))
         /\ \A j \in Key : j # k /\ Chained(s) => FetchAt(InsertAt(s, k, d), j) = FetchAt(s, j)
<1> DEFINE t == InsertAt(s, k, d)  e == Entry(k, d)  C == Cell(Data)
<1>1. e \in C /\ e.key = k /\ k # NoKey BY HashAssumption DEF Entry, Cell
<1>2. s \in Seq(C) BY DEF IsBucket
<1> HIDE DEF C
<1>3. Len(s) \in Nat /\ Len(s) >= 1 BY <1>2, HasEntry
<1>4. /\ t \in Seq(C) /\ Len(t) >= 1
      /\ \A i \in 1 .. Len(t) : t[i] = e \/ (i \in 1 .. Len(s) /\ t[i] = s[i])
  BY <1>1, <1>2, <1>3, InsertElements
<1>5. Len(t) >= 2 => t[1].key # NoKey
  <2>1. s[1].key = NoKey => t = <<e>> BY DEF InsertAt
  <2>2. Len(<<e>>) = 1 OBVIOUS
  <2>3. 1 \in 1 .. Len(t) BY <1>4
  <2> HIDE DEF t, e
  <2> QED BY <1>1, <1>4, <2>1, <2>2, <2>3
<1>6. IsBucket(t) BY <1>4, <1>5 DEF IsBucket, C
<1>7. ASSUME NEW j \in Key, j # k, Chained(s) PROVE FetchAt(t, j) = FetchAt(s, j)
  <2>1. Len(s) >= 2 /\ s[1].key # NoKey BY <1>7 DEF Chained, IsBucket
  <2>2. t = Append(s, e) BY <1>7, <2>1 DEF InsertAt, Chained
  <2> HIDE DEF t, e
  <2>3. Len(t) = Len(s) + 1 /\ t[Len(s) + 1] = e /\ \A i \in 1 .. Len(s) : t[i] = s[i]
    BY <1>1, <1>2, <2>2
  <2>4. Len(t) >= 2 /\ t[1].key # NoKey BY <1>3, <2>1, <2>3
  <2>5. ASSUME NEW i
        PROVE  i \in 2 .. Len(s) /\ s[i].key = j <=> i \in 2 .. Len(t) /\ t[i].key = j
    <3>1. i \in 2 .. Len(t) <=> i \in 2 .. Len(s) \/ i = Len(s) + 1 BY <1>3, <2>1, <2>3
    <3>2. i \in 2 .. Len(s) => t[i] = s[i] /\ i # Len(s) + 1 BY <1>3, <2>3
    <3>3. i = Len(s) + 1 => t[i].key # j BY <1>1, <1>7, <2>3
    <3> QED BY <3>1, <3>2, <3>3
  <2>6. \A i \in 2 .. Len(s) : t[i] = s[i] BY <1>3, <2>3
  <2> QED BY <1>2, <1>4, <2>1, <2>4, <2>5, <2>6, SameHits
<1> QED BY <1>6, <1>7 DEF t

\* hashtableRemove() and hashtableUpdate() replace the entry that findKey()
\* has returned for k.
LEMMA ReplaceBucket ==
  ASSUME NEW s, IsBucket(s), s # <<>>, NEW k \in Key, NEW i, i = FindAt(s, k), i # 0,
         NEW e \in Cell(Data), e.key \in {NoKey, s[i].key}
  PROVE  LET t == [s EXCEPT ![i] = e]
         IN  /\ IsBucket(t)
             /\ \A j \in Key : j # k /\ Chained(s) => FetchAt(t, j) = FetchAt(s, j)
<1> DEFINE C == Cell(Data)  t == [s EXCEPT ![i] = e]
<1>1. s \in Seq(C) /\ e \in C BY DEF IsBucket
<1> HIDE DEF C
<1>2. Len(s) \in Nat /\ Len(s) >= 1 BY <1>1, HasEntry
<1>3. /\ i \in 0 .. Len(s) /\ s[1].key # NoKey
      /\ i = 1 <=> s[1].key # NoKey /\ Len(s) = 1
      /\ i > 1 => s[i].key = k
  BY <1>1, <1>2, FindPlace
<1>4. i \in 1 .. Len(s) BY <1>2, <1>3
<1>5. t \in Seq(C) /\ Len(t) = Len(s) /\ \A l \in 1 .. Len(s) : t[l] = IF l = i THEN e ELSE s[l]
  BY <1>1, <1>4
<1> HIDE DEF t
<1>6. IsBucket(t) BY <1>2, <1>3, <1>4, <1>5 DEF IsBucket, C
<1>7. ASSUME NEW j \in Key, j # k, Chained(s) PROVE FetchAt(t, j) = FetchAt(s, j)
  <2>0. Len(s) >= 2 BY <1>7 DEF Chained
  <2>1. Len(s) >= 2 /\ i # 1 /\ s[i].key = k
    <3>0. \A l \in Nat : l >= 2 => l # 1 OBVIOUS
    <3>1. Len(s) # 1 BY <1>2, <2>0, <3>0
    <3>2. i # 1 BY <1>3, <3>1
    <3>3. i > 1 BY <1>2, <1>4, <3>2
    <3> QED BY <1>3, <2>0, <3>2, <3>3
  <2>2. t[1] = s[1] BY <1>2, <1>5, <2>1
  <2>3. e.key # j BY <1>7, <2>1, HashAssumption
  <2>4. \A l \in 2 .. Len(s) : t[l] = IF l = i THEN e ELSE s[l] BY <1>2, <1>5
  <2>5. \A l : l \in 2 .. Len(s) /\ s[l].key = j <=> l \in 2 .. Len(t) /\ t[l].key = j
    BY <1>5, <1>7, <2>1, <2>3, <2>4
  <2>6. \A l \in 2 .. Len(s) : s[l].key = j => t[l] = s[l] BY <1>7, <2>1, <2>4
  <2> QED BY <1>1, <1>3, <1>5, <2>1, <2>2, <2>5, <2>6, SameHits
<1> QED BY <1>6, <1>7 DEF t

\* What a step must show: a bucket changes to one that answers as before for
\* the other keys of its chain.
LEMMA ChangeKeeps ==
  ASSUME TableInv, state = "live", state' = "live", NEW k \in Key, NEW t,
         IsBucket(t), table' = [table EXCEPT ![hashData(k)] = t],
         \A j \in Key : j # k /\ Chained(table[hashData(k)])
                           => FetchAt(t, j) = FetchAt(table[hashData(k)], j)
  PROVE  /\ TableInv'
         /\ \A j \in Key : j # k /\ Chained(table[hashData(j)]) => Answer(j)' = Answer(j)
<1>1. /\ TableInv' /\ table'[hashData(k)] = t
      /\ \A j \in Key : hashData(j) # hashData(k) => table'[hashData(j)] = table[hashData(j)]
  BY BucketChange
<1>2. ASSUME NEW j \in Key, j # k, Chained(table[hashData(j)])
      PROVE  FetchAt(table'[hashData(j)], j) = FetchAt(table[hashData(j)], j)
  <2>1. CASE hashData(j) = hashData(k) BY <1>1, <1>2, <2>1
  <2>2. CASE hashData(j) # hashData(k) BY <1>1, <2>2
  <2> QED BY <2>1, <2>2
<1>3. \A j : Answer(j)' = FetchAt(table'[hashData(j)], j) BY DEF Answer, hashData
<1>4. \A j : Answer(j) = FetchAt(table[hashData(j)], j) BY DEF Answer
<1> QED BY <1>1, <1>2, <1>3, <1>4

Kept == state = "live" /\ state' = "live" =>
          \A j \in Key : Chained(table[hashData(j)]) /\ ret'.key # j => Answer(j)' = Answer(j)

LEMMA FaultKeeps == ASSUME Astray PROVE TableInv' /\ Kept
BY DEF Astray, TableInv, Kept

LEMMA SameKeeps == ASSUME TableInv, UNCHANGED <<table, state>> PROVE TableInv' /\ Kept
<1>1. TableInv' BY DEF TableInv, IsBucket, Cell
<1>2. \A j : Answer(j)' = Answer(j) BY DEF Answer, FetchAt, FindAt, Told, hashData
<1> QED BY <1>1, <1>2 DEF Kept

LEMMA InsertKeeps ==
  ASSUME TableInv, NEW k \in Key, NEW d \in Data, hashtableInsert(k, d) PROVE TableInv' /\ Kept
<1> DEFINE s == table[hashData(k)]  t == InsertAt(s, k, d)
<1>1. CASE Astray BY <1>1, FaultKeeps
<1>2. CASE ~ Astray
  <2>1. /\ state = "live" /\ state' = "live" /\ s # <<>> /\ ret'.key = k
        /\ table' = [table EXCEPT ![hashData(k)] = t]
    BY <1>2 DEF hashtableInsert, Told
  <2>2. IsBucket(s) BY <2>1, BucketOf
  <2>3. IsBucket(t) /\ \A j \in Key : j # k /\ Chained(s) => FetchAt(t, j) = FetchAt(s, j)
    BY <2>1, <2>2, InsertBucket
  <2> HIDE DEF t
  <2> QED BY <2>1, <2>3, ChangeKeeps DEF Kept
<1> QED BY <1>1, <1>2

LEMMA ReplaceKeeps ==
  ASSUME TableInv, state = "live", state' = "live", NEW k \in Key, NEW i, NEW e \in Cell(Data),
         table[hashData(k)] # <<>>, i = FindAt(table[hashData(k)], k), i # 0,
         e.key \in {NoKey, table[hashData(k)][i].key}, ret'.key = k,
         table' = [table EXCEPT ![hashData(k)] = [table[hashData(k)] EXCEPT ![i] = e]]
  PROVE  TableInv' /\ Kept
<1> DEFINE s == table[hashData(k)]  t == [s EXCEPT ![i] = e]
<1>1. IsBucket(s) BY BucketOf
<1>2. IsBucket(t) /\ \A j \in Key : j # k /\ Chained(s) => FetchAt(t, j) = FetchAt(s, j)
  BY <1>1, ReplaceBucket
<1>3. table' = [table EXCEPT ![hashData(k)] = t] OBVIOUS
<1> HIDE DEF t
<1> QED BY <1>2, <1>3, ChangeKeeps DEF Kept

LEMMA RemoveKeeps ==
  ASSUME TableInv, NEW k \in Key, hashtableRemove(k) PROVE TableInv' /\ Kept
<1> DEFINE s == table[hashData(k)]  i == FindAt(s, k)
<1>1. CASE Astray BY <1>1, FaultKeeps
<1>2. CASE ~ Astray
  <2>1. /\ state = "live" /\ state' = "live" /\ s # <<>> /\ ret'.key = k
        /\ table' = IF i = 0 THEN table ELSE [table EXCEPT ![hashData(k)] = [s EXCEPT ![i] = Free]]
    BY <1>2 DEF hashtableRemove, Told
  <2>2. CASE i = 0 BY <2>1, <2>2, SameKeeps
  <2>3. CASE i # 0
    <3>1. Free \in Cell(Data) /\ Free.key = NoKey BY DEF Free, Entry, Cell
    <3> HIDE DEF Free
    <3> QED BY <2>1, <2>3, <3>1, ReplaceKeeps
  <2> QED BY <2>2, <2>3
<1> QED BY <1>1, <1>2

LEMMA UpdateKeeps ==
  ASSUME TableInv, NEW k \in Key, NEW d \in Data, hashtableUpdate(k, d) PROVE TableInv' /\ Kept
<1> DEFINE s == table[hashData(k)]  i == FindAt(s, k)  e == Entry(s[i].key, d)
<1>1. CASE Astray BY <1>1, FaultKeeps
<1>2. CASE ~ Astray
  <2>1. /\ state = "live" /\ state' = "live" /\ s # <<>> /\ ret'.key = k
        /\ table' = IF i = 0 THEN table ELSE [table EXCEPT ![hashData(k)] = [s EXCEPT ![i] = e]]
    BY <1>2 DEF hashtableUpdate, Told
  <2>2. CASE i = 0 BY <2>1, <2>2, SameKeeps
  <2>3. CASE i # 0
    <3>1. s \in Seq(Cell(Data)) BY <2>1, BucketOf DEF IsBucket
    <3>2. Len(s) \in Nat /\ Len(s) >= 1 BY <2>1, <3>1, HasEntry
    <3>3. i \in 0 .. Len(s) BY <3>1, <3>2, FindPlace
    <3>4. i \in 1 .. Len(s) BY <2>3, <3>2, <3>3
    <3>5. s[i] \in Cell(Data) BY <3>1, <3>4, ElementOfSeq
    <3>6. e \in Cell(Data) /\ e.key = s[i].key BY <3>5 DEF Cell, Entry
    <3> HIDE DEF e
    <3> QED BY <2>1, <2>3, <3>6, ReplaceKeeps
  <2> QED BY <2>2, <2>3
<1> QED BY <1>1, <1>2

\* A bucket as the heap leaves it.
LEMMA HeapBucket ==
  ASSUME NEW s \in {<<Raw>>, <<Stale>>, <<>>}
  PROVE  s \in Seq(Cell({})) /\ Len(s) < 2
<1>1. Raw \in Cell({}) /\ Stale \in Cell({}) BY DEF Raw, Stale, Entry, Cell
<1> HIDE DEF Raw, Stale
<1> DEFINE C == Cell({})
<1> HIDE DEF C
<1>2. /\ <<Raw>> \in Seq(C) /\ <<Stale>> \in Seq(C) /\ <<>> \in Seq(C)
      /\ Len(<<Raw>>) = 1 /\ Len(<<Stale>>) = 1 /\ Len(<<>>) = 0
  BY <1>1 DEF C
<1>3. CASE s = <<Raw>> BY <1>2, <1>3 DEF C
<1>4. CASE s = <<Stale>> BY <1>2, <1>4 DEF C
<1>5. CASE s = <<>> BY <1>2, <1>5 DEF C
<1> QED BY <1>3, <1>4, <1>5

LEMMA CreateKeeps == ASSUME hashtableCreate PROVE TableInv' /\ Kept
<1>1. state = "none" /\ table' \in [Bucket -> {<<Raw>>, <<Stale>>, <<>>}] BY DEF hashtableCreate
<1>2. ASSUME NEW b \in Bucket PROVE table'[b] \in Seq(Cell(Data)) /\ ~ (Len(table'[b]) >= 2)
  <2> DEFINE s == table'[b]
  <2>1. s \in {<<Raw>>, <<Stale>>, <<>>} BY <1>1
  <2> HIDE DEF s
  <2>2. s \in Seq(Cell({})) /\ Len(s) < 2 BY <2>1, HeapBucket
  <2>3. Cell({}) \subseteq Cell(Data) BY DEF Cell
  <2> HIDE DEF Cell
  <2>4. s \in Seq(Cell(Data)) /\ Len(s) \in Nat BY <2>2, <2>3
  <2> QED BY <2>2, <2>4 DEF s
<1>3. TableInv' BY <1>1, <1>2 DEF TableInv, IsBucket, Cell
<1> QED BY <1>1, <1>3 DEF Kept

LEMMA TableStep == ASSUME TableInv, [HNext]_hvars PROVE TableInv' /\ Kept
<1>1. CASE hashtableCreate BY <1>1, CreateKeeps
<1>2. CASE hashtableDestroy
  <2>1. state' # "live" BY <1>2 DEF hashtableDestroy, Astray
  <2> QED BY <2>1 DEF TableInv, Kept
<1>3. CASE CopyKey BY <1>3, FaultKeeps DEF CopyKey
<1>4. ASSUME NEW k \in Key, hashtableFetch(k) PROVE TableInv' /\ Kept
  BY <1>4, FaultKeeps, SameKeeps DEF hashtableFetch
<1>5. CASE \E k \in Key : hashtableRemove(k) BY <1>5, RemoveKeeps
<1>6. CASE \E k \in Key, d \in Data : hashtableUpdate(k, d) BY <1>6, UpdateKeeps
<1>7. CASE \E k \in Key, d \in Data : hashtableInsert(k, d) BY <1>7, InsertKeeps
<1>8. CASE UNCHANGED hvars BY <1>8, SameKeeps DEF hvars
<1> QED BY <1>1, <1>2, <1>3, <1>4, <1>5, <1>6, <1>7, <1>8 DEF HNext

\* Keys that collide do not disturb each other, for every hash function, every
\* set of keys and whatever the heap left in the buckets: no call of
\* hashtable.c, in any order of calls, changes the answer for another key in
\* a bucket with a whole chain.
THEOREM TableKeepsOthers == HSpec => OthersKept
<1>1. HInit => TableInv BY DEF HInit, TableInv
<1>2. TableInv /\ [HNext]_hvars => TableInv' /\ [Kept]_hvars BY TableStep
<1> QED BY <1>1, <1>2, PTL DEF HSpec, OthersKept, Kept

-----------------------------------------------------------------------------
(* The files of the ramdisk, in the table and in the open vFILEs *)

ImageFile == [name : Key, len : Nat, size : Nat, at : Nat]
VfsFile == [name : Key, size : Nat, refs : Nat, phys : Nat]
OpenFile == [file : Nat, pos : Nat]

\* An entry of bucket b leads to the file that bears its key.
LeadsTo(e, b, V) ==
  e.key \in Key /\ hashData(e.key) = b /\ e.data \in DOMAIN V /\ V[e.data].name = e.key

\* What the heap left in the array.
LeftOver(s, i) ==
  i = 1 /\ s[i].key \notin Key /\ s[i].data = Junk /\ (s[i].key = NoKey => Len(s) = 1)

\* Bucket b of the mount's table: its files are all in it, and the first of
\* them is in the array or follows what the heap left there.
FileBucket(s, b, V) ==
  /\ s \in Seq(Cell(Nat))
  /\ \A i \in 1 .. Len(s) : LeadsTo(s[i], b, V) \/ LeftOver(s, i)
  /\ \A x \in DOMAIN V : hashData(V[x].name) = b => \E i \in 1 .. Len(s) : s[i].data = x
  /\ \A i \in 2 .. Len(s) : s[1].key \in Key => s[1].data < s[i].data

FilesInv ==
  /\ tree \in Trees /\ n \in Nat \ {0} /\ phys \in Nat /\ end \in Nat
  /\ step \in {"pack", "load", "ready", "none"}
  /\ image \in Seq(ImageFile) /\ vfile \in Seq(VfsFile) /\ fd \in [Handles -> OpenFile]
  /\ step = "pack" => vfile = <<>>
  /\ step \in {"load", "ready"} /\ state = "live" =>
       DOMAIN table = Bucket /\ \A b \in Bucket : FileBucket(table[b], b, vfile)
  /\ \A h \in Handles : fd[h] = Closed \/ fd[h].file \in DOMAIN vfile

\* The same of the next state.
LEMMA FilesNext ==
  ASSUME /\ tree' \in Trees /\ n' \in Nat \ {0} /\ phys' \in Nat /\ end' \in Nat
         /\ step' \in {"pack", "load", "ready", "none"}
         /\ image' \in Seq(ImageFile) /\ vfile' \in Seq(VfsFile) /\ fd' \in [Handles -> OpenFile]
         /\ step' = "pack" => vfile' = <<>>
         /\ step' \in {"load", "ready"} /\ state' = "live" =>
              DOMAIN table' = Bucket /\ \A b \in Bucket : FileBucket(table'[b], b, vfile')
         /\ \A h \in Handles : fd'[h] = Closed \/ fd'[h].file \in DOMAIN vfile'
  PROVE  FilesInv'
<1>1. \A b \in Bucket : FileBucket(table[b], b, vfile)' <=> FileBucket(table'[b], b, vfile')
  BY DEF FileBucket, LeadsTo, LeftOver, Cell, hashData
<1> QED BY <1>1 DEF FilesInv, ImageFile, VfsFile, OpenFile, Closed

\* The files under their names: the buckets stay right.
LEMMA NamesKept ==
  ASSUME NEW V, NEW W, DOMAIN W = DOMAIN V, \A i \in DOMAIN V : W[i].name = V[i].name
  PROVE  \A s, b : FileBucket(s, b, V) => FileBucket(s, b, W)
BY DEF FileBucket, LeadsTo

\* A file more, in another bucket.
LEMMA OtherBucket ==
  ASSUME NEW V \in Seq(VfsFile), NEW v \in VfsFile, NEW W, W = Append(V, v),
         NEW s, NEW b, hashData(v.name) # b, FileBucket(s, b, V)
  PROVE  FileBucket(s, b, W)
<1> DEFINE d == Len(V) + 1
<1>1. /\ DOMAIN V = 1 .. Len(V) /\ Len(V) \in Nat /\ DOMAIN W = 1 .. d /\ W[d] = v
      /\ \A i \in 1 .. Len(V) : W[i] = V[i]
  BY LenProperties, AppendProperties
<1>2. \A x \in DOMAIN V : x \in DOMAIN W /\ W[x] = V[x] BY <1>1
<1>3. \A x \in DOMAIN W : x \in DOMAIN V \/ x = d BY <1>1
<1>4. \A i \in 1 .. Len(s) : LeadsTo(s[i], b, V) => LeadsTo(s[i], b, W) BY <1>2 DEF LeadsTo
<1> HIDE DEF d
<1>5. \A x \in DOMAIN W : hashData(W[x].name) = b => x \in DOMAIN V /\ W[x] = V[x]
  BY <1>1, <1>2, <1>3
<1> QED BY <1>4, <1>5 DEF FileBucket

\* A file more, in this bucket: it takes the place of an unused entry in the
\* array, or ends the chain.
LEMMA FileInserted ==
  ASSUME NEW V \in Seq(VfsFile), NEW v \in VfsFile, NEW W, W = Append(V, v), NEW k \in Key,
         v.name = k, NEW s, s # <<>>, FileBucket(s, hashData(k), V)
  PROVE  FileBucket(InsertAt(s, k, Len(V) + 1), hashData(k), W)
<1> DEFINE d == Len(V) + 1  b == hashData(k)  e == Entry(k, d)  t == InsertAt(s, k, d)
           C == Cell(Nat)  unused == {i \in 2 .. Len(s) - 1 : s[i].key = NoKey}
<1>1. /\ DOMAIN V = 1 .. Len(V) /\ Len(V) \in Nat /\ DOMAIN W = 1 .. d /\ W[d] = v
      /\ \A i \in 1 .. Len(V) : W[i] = V[i]
  BY LenProperties, AppendProperties
<1>2. \A x \in DOMAIN V : x \in Nat /\ x < d /\ x \in DOMAIN W /\ W[x] = V[x] BY <1>1
<1>3. \A x \in DOMAIN W : x \in DOMAIN V \/ x = d BY <1>1
<1>4. d \in Nat /\ d \in DOMAIN W BY <1>1
<1>5. e \in C /\ e.key = k /\ e.data = d BY <1>4 DEF Entry, Cell
<1> HIDE DEF e, d
<1>6. LeadsTo(e, b, W) BY <1>1, <1>4, <1>5 DEF LeadsTo
<1>7. s \in Seq(C) BY DEF FileBucket
<1> HIDE DEF C
<1>8. Len(s) \in Nat /\ Len(s) >= 1 BY <1>7, HasEntry
<1>9. ASSUME NEW i \in 1 .. Len(s)
      PROVE  /\ LeadsTo(s[i], b, W) \/ LeftOver(s, i)
             /\ s[i].key \in Key => s[i].data \in DOMAIN V /\ s[i].data < d
  <2>1. LeadsTo(s[i], b, V) \/ LeftOver(s, i) BY <1>9 DEF FileBucket
  <2>2. LeadsTo(s[i], b, V) => LeadsTo(s[i], b, W) BY <1>2 DEF LeadsTo
  <2>3. s[i].key \in Key => s[i].data \in DOMAIN V BY <2>1 DEF LeadsTo, LeftOver
  <2> QED BY <1>2, <2>1, <2>2, <2>3
<1>10. CASE s[1].key = NoKey
  <2>1. t = <<e>> BY <1>10 DEF InsertAt, e
  <2>2. t \in Seq(C) /\ Len(t) = 1 /\ t[1] = e BY <1>5, <2>1
  <2>3. 1 \in 1 .. Len(s) BY <1>8
  <2>4. LeftOver(s, 1)
    <3>1. NoKey \notin Key BY HashAssumption
    <3> QED BY <1>9, <1>10, <2>3, <3>1 DEF LeadsTo
  <2>5. \A x \in DOMAIN V : hashData(V[x].name) # b
    <3> SUFFICES ASSUME NEW x \in DOMAIN V, hashData(V[x].name) = b PROVE FALSE OBVIOUS
    <3>1. PICK i \in 1 .. Len(s) : s[i].data = x BY DEF FileBucket
    <3>2. Len(s) = 1 /\ s[1].data = Junk BY <1>10, <2>4 DEF LeftOver
    <3>3. i = 1 BY <3>1, <3>2
    <3> QED BY <1>2, <3>1, <3>2, <3>3, FilesAssumption
  <2> HIDE DEF t
  <2>6. \A x \in DOMAIN W : hashData(W[x].name) = b => x = d BY <1>2, <1>3, <2>5
  <2>7. \A i \in 1 .. Len(t) : i = 1 BY <2>2
  <2>8. \A i \in 2 .. Len(t) : FALSE BY <2>2
  <2>9. \A i \in 1 .. Len(t) : LeadsTo(t[i], b, W) BY <1>6, <2>2, <2>7
  <2>10. 1 \in 1 .. Len(t) /\ t[1].data = d BY <1>5, <2>2
  <2>11. FileBucket(t, b, W) BY <2>2, <2>6, <2>8, <2>9, <2>10 DEF FileBucket, C
  <2> QED BY <2>11 DEF t, d
<1>11. CASE s[1].key # NoKey
  <2>1. unused = {}
    <3> SUFFICES ASSUME NEW i \in 2 .. Len(s) - 1 PROVE s[i].key # NoKey OBVIOUS
    <3>1. i \in 1 .. Len(s) /\ i # 1 BY <1>8
    <3>2. LeadsTo(s[i], b, W) BY <1>9, <3>1 DEF LeftOver
    <3> QED BY <3>2, HashAssumption DEF LeadsTo
  <2>2. t = Append(s, e) BY <1>11, <2>1 DEF InsertAt, e
  <2>3. /\ t \in Seq(C) /\ Len(t) = Len(s) + 1 /\ t[Len(s) + 1] = e
        /\ \A i \in 1 .. Len(s) : t[i] = s[i]
    BY <1>5, <1>7, <2>2
  <2> HIDE DEF t, unused
  <2>4. \A i \in 1 .. Len(t) : i \in 1 .. Len(s) \/ i = Len(s) + 1 BY <1>8, <2>3
  <2>5. 1 \in 1 .. Len(s) /\ t[1] = s[1] BY <1>8, <2>3
  <2>6. ASSUME NEW i \in 1 .. Len(t) PROVE LeadsTo(t[i], b, W) \/ LeftOver(t, i)
    <3>1. CASE i = Len(s) + 1 BY <1>6, <2>3, <3>1
    <3>2. CASE i \in 1 .. Len(s)
      <4>1. t[i] = s[i] BY <2>3, <3>2
      <4>2. LeadsTo(s[i], b, W) \/ LeftOver(s, i) BY <1>9, <3>2
      <4>3. LeftOver(s, i) => LeftOver(t, i) BY <1>11, <4>1 DEF LeftOver
      <4> QED BY <4>1, <4>2, <4>3
    <3> QED BY <2>4, <3>1, <3>2
  <2>7. ASSUME NEW x \in DOMAIN W, hashData(W[x].name) = b PROVE \E i \in 1 .. Len(t) : t[i].data = x
    <3>1. CASE x = d
      <4>1. Len(s) + 1 \in 1 .. Len(t) BY <1>8, <2>3
      <4> QED BY <1>5, <2>3, <3>1, <4>1
    <3>2. CASE x \in DOMAIN V
      <4>1. PICK i \in 1 .. Len(s) : s[i].data = x BY <1>2, <2>7, <3>2 DEF FileBucket
      <4>2. i \in 1 .. Len(t) BY <1>8, <2>3
      <4> QED BY <2>3, <4>1, <4>2
    <3> QED BY <1>3, <3>1, <3>2
  <2>8. ASSUME NEW i \in 2 .. Len(t), t[1].key \in Key PROVE t[1].data < t[i].data
    <3>1. CASE i = Len(s) + 1 BY <1>5, <1>9, <2>3, <2>5, <2>8, <3>1
    <3>2. CASE i # Len(s) + 1
      <4>1. i \in 2 .. Len(s) /\ i \in 1 .. Len(s) BY <1>8, <2>3, <3>2
      <4> QED BY <2>3, <2>5, <2>8, <4>1 DEF FileBucket
    <3> QED BY <3>1, <3>2
  <2>9. FileBucket(t, b, W) BY <2>3, <2>6, <2>7, <2>8 DEF FileBucket, C
  <2> QED BY <2>9 DEF t, d
<1> QED BY <1>10, <1>11

\* A reference count changes.
LEMMA CountChange ==
  ASSUME NEW V \in Seq(VfsFile), NEW f \in DOMAIN V, NEW c \in Nat
  PROVE  LET W == [V EXCEPT ![f].refs = c]
         IN  /\ W \in Seq(VfsFile) /\ Len(W) = Len(V) /\ DOMAIN W = DOMAIN V
             /\ \A i \in DOMAIN V :
                  /\ W[i].name = V[i].name /\ W[i].size = V[i].size /\ W[i].phys = V[i].phys
                  /\ W[i].refs = IF i = f THEN c ELSE V[i].refs
<1> DEFINE e == [V[f] EXCEPT !.refs = c]
           W == [V EXCEPT ![f] = e]
<1>1. DOMAIN V = 1 .. Len(V) BY LenProperties
<1>2. V[f] \in VfsFile BY <1>1, ElementOfSeq
<1>3. e \in VfsFile /\ e.name = V[f].name /\ e.size = V[f].size /\ e.phys = V[f].phys /\ e.refs = c
  BY <1>2 DEF VfsFile
<1>4. [V EXCEPT ![f].refs = c] = W OBVIOUS
<1> HIDE DEF e
<1>5. /\ W \in Seq(VfsFile) /\ Len(W) = Len(V) /\ DOMAIN W = DOMAIN V
      /\ \A i \in DOMAIN V : W[i] = IF i = f THEN e ELSE V[i]
  BY <1>1, <1>3
<1> HIDE DEF W
<1>6. \A i \in DOMAIN V :
        /\ W[i].name = V[i].name /\ W[i].size = V[i].size /\ W[i].phys = V[i].phys
        /\ W[i].refs = IF i = f THEN c ELSE V[i].refs
  BY <1>3, <1>5
<1> QED BY <1>4, <1>5, <1>6

LEMMA RefTyped == ASSUME NEW r \in Nat PROVE Ref(r) \in Nat
<1>1. 2^RefBits \in Int /\ 2^RefBits > 1 BY FilesAssumption
<1> DEFINE m == 2^RefBits
<1> HIDE DEF m
<1>2. r % m \in Nat BY <1>1 DEF m
<1> QED BY <1>2 DEF Ref, m

-----------------------------------------------------------------------------
(* Each operation keeps the invariant *)

LEMMA PackKeeps == ASSUME FilesInv, addFile PROVE FilesInv'
<1> DEFINE t == tree[n]  data == end + FileSz + t.len + 1
           e == [name |-> t.name, len |-> t.len, size |-> t.size, at |-> data]
<1>1. /\ step = "pack" /\ n <= Len(tree) /\ n' = n + 1
      /\ UNCHANGED <<hvars, tree, step, phys, vfs, fd>>
      /\ (UNCHANGED disk \/ (image' = Append(image, e) /\ end' = data + t.size))
  BY DEF addFile
<1>2. t.name \in Key /\ t.size \in Nat /\ t.len \in Nat
  <2> DEFINE T == [name: Key, size: Nat, len: Nat, file: BOOLEAN]
  <2>1. tree \in Trees /\ Trees \subseteq Seq(T) BY FilesAssumption DEF FilesInv
  <2> HIDE DEF T
  <2>2. tree \in Seq(T) BY <2>1
  <2>3. n \in 1 .. Len(tree) BY <1>1, <2>2 DEF FilesInv
  <2>4. t \in T BY <2>2, <2>3, ElementOfSeq
  <2> QED BY <2>4 DEF T
<1>3. end \in Nat /\ FileSz \in Nat BY FilesAssumption DEF FilesInv
<1> HIDE DEF t
<1>5. data \in Nat /\ data + t.size \in Nat BY <1>2, <1>3
<1>6. e \in ImageFile BY <1>2, <1>5 DEF ImageFile
<1> HIDE DEF data, e
<1>7. image' \in Seq(ImageFile) /\ end' \in Nat
  <2>1. image \in Seq(ImageFile) BY DEF FilesInv
  <2>2. Append(image, e) \in Seq(ImageFile) BY <1>6, <2>1, AppendProperties
  <2>3. CASE UNCHANGED disk BY <1>3, <2>1, <2>3 DEF disk
  <2>4. CASE image' = Append(image, e) /\ end' = data + t.size BY <1>5, <2>2, <2>4
  <2> QED BY <1>1, <2>3, <2>4
<1>8. n' \in Nat \ {0} BY <1>1 DEF FilesInv
<1>9. UNCHANGED <<table, state, tree, step, phys, vfile, fd>> BY <1>1 DEF hvars, vfs
<1> QED BY <1>1, <1>7, <1>8, <1>9, FilesNext DEF FilesInv

\* A table fresh from the heap, with no files yet.
LEMMA HeapLeads ==
  ASSUME NEW s \in {<<Raw>>, <<Stale>>, <<>>}, NEW b PROVE FileBucket(s, b, <<>>)
<1>1. s \in Seq(Cell({})) /\ Len(s) < 2 BY HeapBucket
<1>2. Cell({}) \subseteq Cell(Nat) BY DEF Cell
<1>3. Raw.key = NoKey /\ Stale.key = Junk /\ Raw.data = Junk /\ Stale.data = Junk
  BY DEF Raw, Stale, Entry
<1>4. NoKey \notin Key /\ Junk \notin Key /\ Junk # NoKey BY HashAssumption
<1> HIDE DEF Raw, Stale, Cell
<1>5. s \in Seq(Cell(Nat)) /\ Len(s) \in Nat BY <1>1, <1>2
<1>6. \A i \in 2 .. Len(s) : FALSE BY <1>1, <1>5
<1>7. ASSUME NEW i \in 1 .. Len(s) PROVE LeftOver(s, i)
  <2>1. i = 1 /\ Len(s) = 1 BY <1>1, <1>5
  <2>2. s \in {<<Raw>>, <<Stale>>} BY <2>1
  <2>3. s[1] = Raw \/ s[1] = Stale BY <2>2
  <2> QED BY <1>3, <1>4, <2>1, <2>3 DEF LeftOver
<1>8. DOMAIN <<>> = {} OBVIOUS
<1> QED BY <1>5, <1>6, <1>7, <1>8 DEF FileBucket

LEMMA BootKeeps == ASSUME FilesInv, initVFS PROVE FilesInv'
<1>1. /\ step = "pack" /\ step' \in {"load", "none"} /\ n' = 1 /\ phys' = HeaderSz
      /\ UNCHANGED <<tree, image, end, vfile, fd>>
      /\ step' = "load" /\ state' = "live" => table' \in [Bucket -> {<<Raw>>, <<Stale>>, <<>>}]
  BY DEF initVFS, initRamdisk, mountVFS, hashtableCreate, Astray, disk
<1>2. vfile' = <<>> BY <1>1 DEF FilesInv
<1>3. ASSUME step' = "load", state' = "live"
      PROVE  DOMAIN table' = Bucket /\ \A b \in Bucket : FileBucket(table'[b], b, vfile')
  <2>1. table' \in [Bucket -> {<<Raw>>, <<Stale>>, <<>>}] BY <1>1, <1>3
  <2> DEFINE H == {<<Raw>>, <<Stale>>, <<>>}
  <2> HIDE DEF H
  <2>2. DOMAIN table' = Bucket /\ \A b \in Bucket : table'[b] \in H BY <2>1 DEF H
  <2>3. \A s \in H : \A b : FileBucket(s, b, <<>>) BY HeapLeads DEF H
  <2> QED BY <1>2, <2>2, <2>3
<1>4. phys' \in Nat BY <1>1, FilesAssumption
<1> QED BY <1>1, <1>2, <1>3, <1>4, FilesNext DEF FilesInv

LEMMA LoadKeeps == ASSUME FilesInv, loadFile PROVE FilesInv'
<1> DEFINE f == image[n]  b == hashData(f.name)  d == Len(vfile) + 1
           v == [name |-> f.name, size |-> f.size, refs |-> 0, phys |-> FileData(phys, f.len)]
           s == InsertAt(table[b], f.name, d)
<1>1. /\ step = "load" /\ state = "live" /\ n <= Len(image) /\ n' = n + 1
      /\ vfile' = Append(vfile, v)
      /\ state' = "live" => table[b] # <<>> /\ table' = [table EXCEPT ![b] = s]
      /\ phys' = NextFile(phys, IF n < Len(image) THEN image[n + 1].size ELSE 0, f.len)
      /\ UNCHANGED <<tree, step, image, end, fd>>
  BY DEF loadFile, addVFSFile, hashtableInsert, Astray, disk
<1>2. n \in 1 .. Len(image) /\ image \in Seq(ImageFile) BY <1>1 DEF FilesInv
<1>3. f \in ImageFile BY <1>2, ElementOfSeq
<1>4. f.name \in Key /\ f.size \in Nat /\ f.len \in Nat BY <1>3 DEF ImageFile
<1>5. v \in VfsFile /\ v.name = f.name
  <2>1. phys \in Nat /\ FileSz \in Nat BY FilesAssumption DEF FilesInv
  <2>2. FileData(phys, f.len) \in Nat BY <1>4, <2>1 DEF FileData
  <2> QED BY <1>4, <2>2 DEF VfsFile
<1>6. phys' \in Nat
  <2>0. phys \in Nat /\ FileSz \in Nat BY FilesAssumption DEF FilesInv
  <2>1. CASE n < Len(image)
    <3>1. n + 1 \in 1 .. Len(image) BY <1>2, <2>1
    <3>2. image[n + 1] \in ImageFile BY <1>2, <3>1, ElementOfSeq
    <3>3. image[n + 1].size \in Nat BY <3>2 DEF ImageFile
    <3>4. phys' = NextFile(phys, image[n + 1].size, f.len) BY <1>1, <2>1
    <3> QED BY <1>4, <2>0, <3>3, <3>4 DEF NextFile
  <2>2. CASE ~ (n < Len(image))
    <3>1. phys' = NextFile(phys, 0, f.len) BY <1>1, <2>2
    <3> QED BY <1>4, <2>0, <3>1 DEF NextFile
  <2> QED BY <2>1, <2>2
<1>7. b \in Bucket BY <1>4, HashAssumption DEF hashData
<1>8. /\ DOMAIN table = Bucket /\ vfile \in Seq(VfsFile)
      /\ \A c \in Bucket : FileBucket(table[c], c, vfile)
  BY <1>1 DEF FilesInv
<1> HIDE DEF v
<1>9. vfile' \in Seq(VfsFile) /\ \A x \in DOMAIN vfile : x \in DOMAIN vfile'
  BY <1>1, <1>5, <1>8
<1>10. ASSUME state' = "live"
       PROVE  DOMAIN table' = Bucket /\ \A c \in Bucket : FileBucket(table'[c], c, vfile')
  <2>1. FileBucket(s, b, vfile') BY <1>1, <1>4, <1>5, <1>7, <1>8, <1>10, FileInserted
  <2> HIDE DEF s, b
  <2>2. DOMAIN table' = Bucket BY <1>1, <1>8, <1>10
  <2>3. \A c \in Bucket : table'[c] = IF c = b THEN s ELSE table[c] BY <1>1, <1>8, <1>10
  <2>4. \A c \in Bucket : c # b => FileBucket(table[c], c, vfile')
    BY <1>1, <1>5, <1>8, OtherBucket DEF b
  <2> QED BY <2>1, <2>2, <2>3, <2>4
<1>11. n' \in Nat \ {0} BY <1>1 DEF FilesInv
<1>12. \A h \in Handles : fd'[h] = Closed \/ fd'[h].file \in DOMAIN vfile' BY <1>1, <1>9 DEF FilesInv
<1> QED BY <1>1, <1>6, <1>9, <1>10, <1>11, <1>12, FilesNext DEF FilesInv

\* A vFILE changes.
LEMMA HandleChange ==
  ASSUME FilesInv, NEW h \in Handles, NEW x \in OpenFile, fd' = [fd EXCEPT ![h] = x]
  PROVE  /\ fd' \in [Handles -> OpenFile]
         /\ \A g \in Handles : fd'[g] = IF g = h THEN x ELSE fd[g]
BY DEF FilesInv

\* openFile(), closeFile() and fileSeek() leave the image, the table and the
\* names alone: what a vFILE needs is that the file it names is there.
LEMMA CallKeeps ==
  ASSUME FilesInv, UNCHANGED <<table, state, tree, step, n, disk, phys>>, step # "pack",
         vfile' \in Seq(VfsFile), DOMAIN vfile' = DOMAIN vfile,
         \A i \in DOMAIN vfile : vfile'[i].name = vfile[i].name,
         NEW h \in Handles, NEW x \in OpenFile, fd' = [fd EXCEPT ![h] = x],
         x = Closed \/ x.file \in DOMAIN vfile
  PROVE  FilesInv'
<1>1. \A s, b : FileBucket(s, b, vfile) => FileBucket(s, b, vfile') BY NamesKept
<1>2. /\ fd' \in [Handles -> OpenFile]
      /\ \A g \in Handles : fd'[g] = IF g = h THEN x ELSE fd[g]
  BY HandleChange
<1>3. \A g \in Handles : fd'[g] = Closed \/ fd'[g].file \in DOMAIN vfile' BY <1>2 DEF FilesInv
<1> QED BY <1>1, <1>2, <1>3, FilesNext DEF FilesInv, disk

LEMMA SameFiles ==
  ASSUME FilesInv, UNCHANGED <<table, state, tree, step, n, disk, phys, vfile, fd>> PROVE FilesInv'
BY FilesNext DEF FilesInv, disk

\* A fault leaves the files and the vFILEs.
LEMMA FaultFiles ==
  ASSUME FilesInv, Astray, UNCHANGED <<tree, step, n, disk, phys, vfile, fd>> PROVE FilesInv'
BY FilesNext DEF FilesInv, disk, Astray

\* openFile() that opens a file.
LEMMA OpensFile ==
  ASSUME FilesInv, NEW h \in Handles, NEW r, NEW name, openFile(h, r, name), fd' # fd
  PROVE  \E f \in DOMAIN vfile, x \in OpenFile :
           /\ x.file = f /\ fd[h] = Closed /\ fd' = [fd EXCEPT ![h] = x]
           /\ vfile' = [vfile EXCEPT ![f].refs = Ref(vfile[f].refs + 1)]
           /\ UNCHANGED <<hvars, tree, step, n, disk, phys>> /\ step # "pack"
<1>1. PICK f \in DOMAIN vfile : TakeRef(f) /\
        \E junk \in SizeT : fd' = [fd EXCEPT ![h] = [file |-> f, pos |-> junk]] /\ UNCHANGED hvars
  BY DEF openFile
<1>2. PICK junk \in SizeT : fd' = [fd EXCEPT ![h] = [file |-> f, pos |-> junk]] BY <1>1
<1> DEFINE x == [file |-> f, pos |-> junk]
<1>3. x \in OpenFile /\ x.file = f
  <2>1. junk \in Nat
    <3>1. 2^SizeBits \in Int BY FilesAssumption
    <3> QED BY <3>1 DEF SizeT
  <2>2. f \in Nat
    <3>1. DOMAIN vfile = 1 .. Len(vfile) BY LenProperties DEF FilesInv
    <3> QED BY <3>1
  <2> QED BY <2>1, <2>2 DEF OpenFile
<1>4. vfile' = [vfile EXCEPT ![f].refs = Ref(vfile[f].refs + 1)] BY <1>1 DEF TakeRef
<1>5. /\ fd[h] = Closed /\ UNCHANGED <<tree, step, n, disk, phys>>
      /\ step # "pack"
  BY DEF openFile
<1>6. fd' = [fd EXCEPT ![h] = x] BY <1>2
<1> HIDE DEF x
<1> QED BY <1>1, <1>3, <1>4, <1>5, <1>6

\* A count is a number again.
LEMMA RefsTyped ==
  ASSUME FilesInv, NEW f \in DOMAIN vfile
  PROVE  Ref(vfile[f].refs + 1) \in Nat /\ Ref(vfile[f].refs + 2^RefBits - 1) \in Nat
<1>1. vfile \in Seq(VfsFile) /\ DOMAIN vfile = 1 .. Len(vfile) BY LenProperties DEF FilesInv
<1>2. vfile[f] \in VfsFile BY <1>1, ElementOfSeq
<1>3. vfile[f].refs \in Nat BY <1>2 DEF VfsFile
<1>4. 2^RefBits \in Int /\ 2^RefBits > 1 BY FilesAssumption
<1>5. vfile[f].refs + 1 \in Nat /\ vfile[f].refs + 2^RefBits - 1 \in Nat BY <1>3, <1>4
<1> QED BY <1>5, RefTyped

\* openFile() that opens nothing leaves the counts.
LEMMA OpensNothing ==
  ASSUME FilesInv, NEW h \in Handles, NEW r, NEW name, openFile(h, r, name), fd' = fd
  PROVE  UNCHANGED vfile
<1> SUFFICES ASSUME vfile' # vfile PROVE FALSE OBVIOUS
<1>1. PICK f \in DOMAIN vfile : \E junk \in SizeT : fd' = [fd EXCEPT ![h] = [file |-> f, pos |-> junk]]
  BY DEF openFile, vfs
<1>2. fd'[h].file = f BY <1>1 DEF FilesInv
<1>3. fd[h].file = 0 BY DEF openFile, Closed
<1>4. 0 \notin DOMAIN vfile
  <2>1. DOMAIN vfile = 1 .. Len(vfile) BY LenProperties DEF FilesInv
  <2> QED BY <2>1
<1> QED BY <1>2, <1>3, <1>4

LEMMA OpenKeeps ==
  ASSUME FilesInv, NEW h \in Handles, NEW r, NEW name, openFile(h, r, name)
  PROVE  FilesInv'
<1>1. UNCHANGED <<tree, step, n, disk, phys>> BY DEF openFile
<1>2. CASE fd' # fd
  <2>1. PICK f \in DOMAIN vfile, x \in OpenFile :
           /\ x.file = f /\ fd[h] = Closed /\ fd' = [fd EXCEPT ![h] = x]
           /\ vfile' = [vfile EXCEPT ![f].refs = Ref(vfile[f].refs + 1)]
           /\ UNCHANGED <<hvars, tree, step, n, disk, phys>> /\ step # "pack"
    BY <1>2, OpensFile
  <2> DEFINE c == Ref(vfile[f].refs + 1)
  <2>2. c \in Nat BY RefsTyped
  <2>3. vfile \in Seq(VfsFile) BY DEF FilesInv
  <2>4. vfile' = [vfile EXCEPT ![f].refs = c] BY <2>1
  <2> HIDE DEF c
  <2>5. /\ vfile' \in Seq(VfsFile) /\ DOMAIN vfile' = DOMAIN vfile
        /\ \A i \in DOMAIN vfile : vfile'[i].name = vfile[i].name
    BY <2>2, <2>3, <2>4, CountChange
  <2>6. UNCHANGED <<table, state>> BY <2>1 DEF hvars
  <2> QED BY <2>1, <2>5, <2>6, CallKeeps
<1>3. CASE fd' = fd
  <2>1. UNCHANGED vfile BY <1>3, OpensNothing
  <2>2. CASE Astray BY <1>1, <1>3, <2>1, <2>2, FaultFiles
  <2>3. CASE ~ Astray
    <3>1. UNCHANGED hvars BY <2>3 DEF openFile
    <3> QED BY <1>1, <1>3, <2>1, <3>1, SameFiles DEF hvars
  <2> QED BY <2>2, <2>3
<1> QED BY <1>2, <1>3

\* The file of an open vFILE.
LEMMA OpenOn ==
  ASSUME FilesInv, NEW h \in Handles, fd[h] # Closed
  PROVE  /\ fd[h] \in OpenFile /\ fd[h].file \in DOMAIN vfile /\ vfile[fd[h].file] \in VfsFile
         /\ vfile \in Seq(VfsFile) /\ DOMAIN vfile = 1 .. Len(vfile) /\ Len(vfile) \in Nat
         /\ step # "pack"
<1>1. fd[h] \in OpenFile /\ fd[h].file \in DOMAIN vfile BY DEF FilesInv
<1>2. vfile \in Seq(VfsFile) /\ DOMAIN vfile = 1 .. Len(vfile) /\ Len(vfile) \in Nat
  BY LenProperties DEF FilesInv
<1>3. vfile[fd[h].file] \in VfsFile BY <1>1, <1>2, ElementOfSeq
<1>4. step # "pack"
  <2>1. DOMAIN <<>> = {} OBVIOUS
  <2> QED BY <1>1, <2>1 DEF FilesInv
<1> QED BY <1>1, <1>2, <1>3, <1>4

LEMMA CloseKeeps == ASSUME FilesInv, NEW h \in Handles, closeFile(h) PROVE FilesInv'
<1> DEFINE f == fd[h].file  c == Ref(vfile[f].refs + 2^RefBits - 1)
<1>1. /\ fd[h] # Closed /\ UNCHANGED <<table, state, tree, step, n, disk, phys>>
      /\ fd' = [fd EXCEPT ![h] = Closed]
  BY DEF closeFile, hvars
<1>2. f \in DOMAIN vfile /\ vfile \in Seq(VfsFile) /\ step # "pack" BY <1>1, OpenOn
<1>3. vfile' = [vfile EXCEPT ![f].refs = c] BY <1>2 DEF closeFile
<1>4. c \in Nat BY <1>2, RefsTyped
<1> HIDE DEF f, c
<1>5. /\ vfile' \in Seq(VfsFile) /\ DOMAIN vfile' = DOMAIN vfile
      /\ \A i \in DOMAIN vfile : vfile'[i].name = vfile[i].name
  BY <1>2, <1>3, <1>4, CountChange
<1>6. Closed \in OpenFile BY DEF Closed, OpenFile
<1> HIDE DEF Closed
<1> QED BY <1>1, <1>2, <1>5, <1>6, CallKeeps

\* A position changes.
LEMMA MoveKeeps ==
  ASSUME FilesInv, NEW h \in Handles, fd[h] # Closed, NEW p \in Nat,
         fd' = [fd EXCEPT ![h].pos = p], UNCHANGED <<table, state, tree, step, n, disk, phys, vfile>>
  PROVE  FilesInv' /\ \A g \in Handles : fd'[g].file = fd[g].file
<1> DEFINE x == [fd[h] EXCEPT !.pos = p]
<1>1. /\ fd[h] \in OpenFile /\ vfile \in Seq(VfsFile) /\ fd[h].file \in DOMAIN vfile
      /\ step # "pack"
  BY OpenOn
<1>2. x \in OpenFile /\ x.file = fd[h].file BY <1>1 DEF OpenFile
<1>3. fd' = [fd EXCEPT ![h] = x] BY DEF FilesInv
<1> HIDE DEF x
<1>4. FilesInv' BY <1>1, <1>2, <1>3, CallKeeps
<1>5. \A g \in Handles : fd'[g] = IF g = h THEN x ELSE fd[g] BY <1>2, <1>3, HandleChange
<1> QED BY <1>2, <1>4, <1>5

LEMMA SeekMoves ==
  ASSUME FilesInv, NEW h \in Handles, NEW off \in SizeT, NEW whence, fileSeek(h, off, whence)
  PROVE  /\ fd[h] # Closed /\ \E q \in Nat : fd' = [fd EXCEPT ![h].pos = q]
         /\ UNCHANGED <<table, state, tree, step, n, disk, phys, vfile>>
<1> DEFINE f == vfile[fd[h].file]  p == fd[h].pos  q == Sought(p, off, f.size, whence)  m == 2^SizeBits
<1>1. fd[h] # Closed /\ UNCHANGED <<table, state, tree, step, n, disk, phys, vfile>> BY DEF fileSeek, hvars
<1>2. fd[h] \in OpenFile /\ f \in VfsFile BY <1>1, OpenOn
<1>3. p \in Nat /\ f.size \in Nat BY <1>2 DEF OpenFile, VfsFile
<1>4. m \in Int /\ m > 1 BY FilesAssumption
<1>5. off \in Nat /\ off < m BY <1>4 DEF SizeT
<1>6. fd' = [fd EXCEPT ![h].pos = q] BY DEF fileSeek, FilesInv
<1>7. q \in {0, f.size, off, (f.size + m - off) % m} BY DEF Sought
<1> HIDE DEF f, p, q, m
<1>8. (f.size + m - off) % m \in Nat
  <2>1. f.size + m - off \in Int BY <1>3, <1>4, <1>5
  <2> QED BY <1>4, <2>1
<1>9. q \in Nat BY <1>3, <1>5, <1>7, <1>8
<1> QED BY <1>1, <1>6, <1>9 DEF q, f, p

LEMMA FilesStep == ASSUME FilesInv, [FNext]_fileVars PROVE FilesInv'
<1>1. CASE addFile BY <1>1, PackKeeps
<1>2. CASE initVFS BY <1>2, BootKeeps
<1>3. CASE loadFile BY <1>3, LoadKeeps
<1>4. CASE initDone
  <2>1. step = "load" /\ step' = "ready" /\ UNCHANGED <<table, state, tree, n, image, end, phys, vfile, fd>>
    BY <1>4 DEF initDone, hvars, disk, vfs
  <2> QED BY <2>1, FilesNext DEF FilesInv
<1>5. CASE unmountVFS \/ UNCHANGED fileVars
  BY <1>5, SameFiles DEF unmountVFS, fileVars, hvars, fvars, disk, vfs
<1>6. ASSUME NEW h \in Handles, closeFile(h) PROVE FilesInv' BY <1>6, CloseKeeps
<1>7. ASSUME NEW h \in Handles, readFile(h) PROVE FilesInv'
  BY <1>7, FaultFiles DEF readFile, fvars, vfs
<1>8. ASSUME NEW h \in Handles, NEW r \in RootNames, NEW name \in Key \cup {NoKey}, openFile(h, r, name)
      PROVE  FilesInv'
  BY <1>8, OpenKeeps
<1>9. ASSUME NEW h \in Handles, NEW off \in SizeT, NEW whence \in {"SET", "END"}, fileSeek(h, off, whence)
      PROVE  FilesInv'
  BY <1>9, SeekMoves, MoveKeeps
<1> QED BY <1>1, <1>2, <1>3, <1>4, <1>5, <1>6, <1>7, <1>8, <1>9 DEF FNext

LEMMA FilesStart == ASSUME FInit PROVE FilesInv
<1>1. /\ tree \in Trees /\ step = "pack" /\ n = 1 /\ image = <<>> /\ end = HeaderSz /\ phys = 0
      /\ vfile = <<>> /\ fd = [h \in Handles |-> Closed]
  BY DEF FInit
<1>2. Closed \in OpenFile BY DEF Closed, OpenFile
<1>3. fd \in [Handles -> OpenFile] /\ \A h \in Handles : fd[h] = Closed BY <1>1, <1>2
<1> QED BY <1>1, <1>3, FilesAssumption DEF FilesInv

\* The files, the table and the open vFILEs agree.
THEOREM FilesAgree == FSpec => []FilesInv
BY FilesStart, FilesStep, PTL DEF FSpec

-----------------------------------------------------------------------------
(* Reference counts *)

Holders(f) == {h \in Handles : fd[h].file = f}

\* Nobody opens or closes, no file is added: the counts stay right.
LEMMA CountsStay ==
  ASSUME ReferencesMatch, UNCHANGED vfile, \A h \in Handles : fd'[h].file = fd[h].file
  PROVE  ReferencesMatch'
<1>1. \A f : {h \in Handles : fd'[h].file = f} = {h \in Handles : fd[h].file = f} OBVIOUS
<1> QED BY <1>1 DEF ReferencesMatch

\* A vFILE that was closed is opened on f, or one on f is closed.
LEMMA CountsMove ==
  ASSUME FilesInv, ReferencesMatch, IsFiniteSet(Handles), Cardinality(Handles) < 2^RefBits,
         NEW h \in Handles, NEW x \in OpenFile, fd' = [fd EXCEPT ![h] = x],
         NEW f \in DOMAIN vfile, NEW c, vfile' = [vfile EXCEPT ![f].refs = c],
         \/ fd[h].file = 0 /\ x.file = f /\ c = Ref(vfile[f].refs + 1)
         \/ fd[h].file = f /\ x.file = 0 /\ c = Ref(vfile[f].refs + 2^RefBits - 1)
  PROVE  ReferencesMatch'
<1> DEFINE H == Holders(f)  J == {g \in Handles : fd'[g].file = f}  m == 2^RefBits  r == vfile[f].refs
<1>1. \A g \in Handles : fd'[g] = IF g = h THEN x ELSE fd[g] BY HandleChange
<1>2. vfile \in Seq(VfsFile) /\ DOMAIN vfile = 1 .. Len(vfile) /\ Len(vfile) \in Nat
  BY LenProperties DEF FilesInv
<1>3. 0 \notin DOMAIN vfile BY <1>2
<1>4. H \in SUBSET Handles /\ r = Cardinality(H) BY DEF ReferencesMatch, Holders
<1>5. IsFiniteSet(H) /\ Cardinality(H) \in Nat /\ Cardinality(Handles) \in Nat
  BY <1>4, FS_Subset, FS_CardinalityType
<1>6. m \in Int BY FilesAssumption
<1>7. /\ c \in Nat
      /\ c = Cardinality(J)
  <2>1. CASE fd[h].file = 0 /\ x.file = f /\ c = Ref(r + 1)
    <3>1. J = H \cup {h} /\ h \notin H BY <1>1, <1>3, <2>1 DEF Holders
    <3>3. J \in SUBSET Handles OBVIOUS
    <3> HIDE DEF H, J, m
    <3>2. IsFiniteSet(J) /\ Cardinality(J) = Cardinality(H) + 1 BY <1>5, <3>1, FS_AddElement
    <3>4. Cardinality(J) <= Cardinality(Handles) BY <3>3, FS_Subset
    <3>5. Cardinality(J) \in Nat /\ Cardinality(J) < m BY <1>5, <1>6, <3>2, <3>4 DEF m
    <3>6. r + 1 = Cardinality(J) BY <1>4, <3>2
    <3>7. Cardinality(J) % m = Cardinality(J) BY <1>6, <3>5
    <3> QED BY <2>1, <3>5, <3>6, <3>7 DEF Ref, m
  <2>2. CASE fd[h].file = f /\ x.file = 0 /\ c = Ref(r + m - 1)
    <3>1. J = H \ {h} /\ h \in H BY <1>1, <1>3, <2>2 DEF Holders
    <3> HIDE DEF H
    <3>2. IsFiniteSet(J) /\ Cardinality(J) = Cardinality(H) - 1 BY <1>5, <3>1, FS_RemoveElement
    <3>3. Cardinality(H) <= Cardinality(Handles) BY <1>4, FS_Subset
    <3>4. Cardinality(J) \in Nat BY <3>2, FS_CardinalityType
    <3> HIDE DEF J, m
    <3>5. Cardinality(J) < m BY <1>5, <1>6, <3>2, <3>3, <3>4 DEF m
    <3>6. r + m - 1 = Cardinality(J) + m BY <1>4, <1>5, <1>6, <3>2
    <3>7. (Cardinality(J) + m) % m = Cardinality(J) BY <1>6, <3>4, <3>5
    <3> QED BY <2>2, <3>4, <3>6, <3>7 DEF Ref, m
  <2> QED BY <2>1, <2>2
<1>8. /\ DOMAIN vfile' = DOMAIN vfile
      /\ \A i \in DOMAIN vfile : vfile'[i].refs = IF i = f THEN c ELSE vfile[i].refs
  BY <1>2, <1>7, CountChange
<1>9. ASSUME NEW i \in DOMAIN vfile, i # f
      PROVE  {g \in Handles : fd'[g].file = i} = {g \in Handles : fd[g].file = i}
  BY <1>1, <1>3, <1>9
<1> QED BY <1>7, <1>8, <1>9 DEF ReferencesMatch

LEMMA CountsStep ==
  ASSUME FilesInv, ReferencesMatch, [FNext]_fileVars,
         IsFiniteSet(Handles), Cardinality(Handles) < 2^RefBits
  PROVE  ReferencesMatch'
<1>1. CASE addFile \/ initVFS \/ initDone \/ unmountVFS \/ UNCHANGED fileVars
  <2>1. UNCHANGED <<vfile, fd>>
    BY <1>1 DEF addFile, initVFS, initDone, unmountVFS, fileVars, fvars, vfs
  <2> QED BY <2>1, CountsStay
<1>2. CASE loadFile
  <2> DEFINE d == Len(vfile) + 1
  <2>1. PICK v : vfile' = Append(vfile, v) /\ v.refs = 0 BY <1>2 DEF loadFile, addVFSFile
  <2>2. UNCHANGED fd BY <1>2 DEF loadFile
  <2>3. vfile \in Seq(VfsFile) /\ DOMAIN vfile = 1 .. Len(vfile) /\ Len(vfile) \in Nat
    BY LenProperties DEF FilesInv
  <2>4. /\ DOMAIN vfile' = 1 .. d
        /\ \A i \in 1 .. d : vfile'[i] = IF i = d THEN v ELSE vfile[i]
    BY <2>1, <2>3
  <2>5. {h \in Handles : fd'[h].file = d} = {}
    <3> SUFFICES ASSUME NEW h \in Handles PROVE fd'[h].file # d OBVIOUS
    <3>1. CASE fd[h] = Closed
      <4>1. fd[h].file = 0 BY <3>1 DEF Closed
      <4> QED BY <2>2, <2>3, <4>1
    <3>2. CASE fd[h] # Closed BY <2>2, <2>3, <3>2, OpenOn
    <3> QED BY <3>1, <3>2
  <2>6. ASSUME NEW i \in DOMAIN vfile' PROVE vfile'[i].refs = Cardinality({h \in Handles : fd'[h].file = i})
    <3>1. CASE i = d
      <4>1. vfile'[i].refs = 0 BY <2>1, <2>4, <2>6, <3>1
      <4> HIDE DEF d
      <4> QED BY <2>5, <3>1, <4>1, FS_EmptySet
    <3>2. CASE i # d
      <4>1. i \in DOMAIN vfile /\ vfile'[i] = vfile[i] BY <2>3, <2>4, <2>6, <3>2
      <4> QED BY <2>2, <4>1 DEF ReferencesMatch
    <3> QED BY <3>1, <3>2
  <2> QED BY <2>6 DEF ReferencesMatch
<1>3. ASSUME NEW h \in Handles, closeFile(h) PROVE ReferencesMatch'
  <2> DEFINE f == fd[h].file  c == Ref(vfile[f].refs + 2^RefBits - 1)
  <2>1. fd[h] # Closed /\ fd' = [fd EXCEPT ![h] = Closed] BY <1>3 DEF closeFile
  <2>2. f \in DOMAIN vfile BY <2>1, OpenOn
  <2>3. vfile' = [vfile EXCEPT ![f].refs = c] BY <1>3, <2>2 DEF closeFile, FilesInv
  <2>4. Closed \in OpenFile /\ Closed.file = 0 BY DEF Closed, OpenFile
  <2> HIDE DEF Closed
  <2> QED BY <2>1, <2>2, <2>3, <2>4, CountsMove
<1>4. ASSUME NEW h \in Handles, readFile(h) PROVE ReferencesMatch'
  <2>1. UNCHANGED <<vfile, fd>> BY <1>4 DEF readFile, fvars, vfs
  <2> QED BY <2>1, CountsStay
<1>5. ASSUME NEW h \in Handles, NEW r \in RootNames, NEW name \in Key \cup {NoKey}, openFile(h, r, name)
      PROVE  ReferencesMatch'
  <2>1. CASE fd' = fd
    <3>1. UNCHANGED vfile BY <1>5, <2>1, OpensNothing
    <3> QED BY <2>1, <3>1, CountsStay
  <2>2. CASE fd' # fd
    <3>1. PICK f \in DOMAIN vfile, x \in OpenFile :
            /\ x.file = f /\ fd[h] = Closed /\ fd' = [fd EXCEPT ![h] = x]
            /\ vfile' = [vfile EXCEPT ![f].refs = Ref(vfile[f].refs + 1)]
      BY <1>5, <2>2, OpensFile
    <3>2. fd[h].file = 0 BY <3>1 DEF Closed
    <3> QED BY <3>1, <3>2, CountsMove
  <2> QED BY <2>1, <2>2
<1>6. ASSUME NEW h \in Handles, NEW off \in SizeT, NEW whence \in {"SET", "END"}, fileSeek(h, off, whence)
      PROVE  ReferencesMatch'
  <2>1. UNCHANGED vfile BY <1>6 DEF fileSeek
  <2> QED BY <1>6, <2>1, SeekMoves, MoveKeeps, CountsStay
<1> QED BY <1>1, <1>2, <1>3, <1>4, <1>5, <1>6 DEF FNext

\* A file's count is the number of the vFILEs that are open on it, as long as
\* there are fewer vFILEs than the counter can tell apart: openFile() and
\* closeFile() take and give back one reference of the same file, whatever
\* else is loaded, read or sought in between.
THEOREM CountsMatch ==
  ASSUME IsFiniteSet(Handles), Cardinality(Handles) < 2^RefBits
  PROVE  FSpec => []ReferencesMatch
<1>1. FInit => ReferencesMatch
  <2> SUFFICES ASSUME FInit PROVE ReferencesMatch OBVIOUS
  <2>1. DOMAIN vfile = {} BY DEF FInit
  <2> QED BY <2>1 DEF ReferencesMatch
<1>2. FilesInv /\ ReferencesMatch /\ [FNext]_fileVars => ReferencesMatch' BY CountsStep
<1> QED BY <1>1, <1>2, FilesAgree, PTL DEF FSpec

-----------------------------------------------------------------------------
(* Places in the image *)

\* The host tool's chain of files, each behind the last.
Chain ==
  /\ Len(image) = 0 => end = HeaderSz
  /\ Len(image) > 0 => /\ end = image[Len(image)].at + image[Len(image)].size
                       /\ image[1].at = FileData(HeaderSz, image[1].len)
  /\ \A i \in 1 .. Len(image) : i < Len(image) =>
       image[i + 1].at = FileData(image[i].at + image[i].size, image[i + 1].len)

\* A file of the VFS bears the name of its file of the image and is as far
\* from it as their sizes say; initRamdisk()'s pointer is as far from the
\* next one.
PlaceInv ==
  /\ Chain
  /\ Len(vfile) <= Len(image)
  /\ \A i \in 1 .. Len(vfile) :
       /\ vfile[i].name = image[i].name
       /\ vfile[i].phys + image[1].size = image[i].at + image[i].size
  /\ step = "load" =>
       /\ n = Len(vfile) + 1
       /\ n <= Len(image) =>
            FileData(phys, image[n].len) + image[1].size = image[n].at + image[n].size
  /\ step = "ready" => Len(vfile) = Len(image)

LEMMA PlacePack == ASSUME FilesInv, PlaceInv, addFile PROVE PlaceInv'
<1> DEFINE t == tree[n]  data == end + FileSz + t.len + 1  k == Len(image)
           e == [name |-> t.name, len |-> t.len, size |-> t.size, at |-> data]
<1>1. /\ step = "pack" /\ n <= Len(tree)
      /\ UNCHANGED <<tree, step, phys, vfile>>
      /\ \/ UNCHANGED disk
         \/ t.file /\ image' = Append(image, e) /\ end' = data + t.size
  BY DEF addFile, vfs
<1>2. Len(vfile) = 0 /\ k \in Nat /\ image \in Seq(ImageFile) BY <1>1 DEF FilesInv
<1>3. CASE UNCHANGED disk BY <1>1, <1>3 DEF PlaceInv, Chain, FileData, disk
<1>4. CASE t.file /\ image' = Append(image, e) /\ end' = data + t.size
  <2>2. e.size = t.size /\ e.len = t.len /\ e.at = data OBVIOUS
  <2>3. Len(image') = k + 1 /\ image'[k + 1] = e /\ \A i \in 1 .. k : image'[i] = image[i]
    BY <1>2, <1>4
  <2>4. e.at = FileData(end, e.len) /\ end' = e.at + e.size BY <1>4, <2>2 DEF FileData
  <2> HIDE DEF e, k, data
  <2>6. image'[1].at = FileData(HeaderSz, image'[1].len)
    <3>1. CASE k = 0
      <4>1. end = HeaderSz BY <3>1 DEF PlaceInv, Chain, k
      <4> QED BY <2>3, <2>4, <3>1, <4>1
    <3>2. CASE k > 0
      <4>1. image'[1] = image[1] BY <1>2, <2>3, <3>2
      <4> QED BY <3>2, <4>1 DEF PlaceInv, Chain, k
    <3> QED BY <1>2, <3>1, <3>2
  <2>7. ASSUME NEW i \in 1 .. Len(image'), i < Len(image')
        PROVE  image'[i + 1].at = FileData(image'[i].at + image'[i].size, image'[i + 1].len)
    <3>1. i \in 1 .. k /\ image'[i] = image[i] BY <1>2, <2>3, <2>7
    <3>2. CASE i = k
      <4>1. end = image[i].at + image[i].size BY <1>2, <3>1, <3>2 DEF PlaceInv, Chain, k
      <4> QED BY <2>3, <2>4, <3>1, <3>2, <4>1
    <3>3. CASE i # k
      <4>1. i < k /\ i + 1 \in 1 .. k BY <1>2, <3>1, <3>3
      <4>2. image'[i + 1] = image[i + 1] BY <2>3, <4>1
      <4> QED BY <3>1, <4>1, <4>2 DEF PlaceInv, Chain, k
    <3> QED BY <3>2, <3>3
  <2>8. Chain'
    <3>1. Len(image') # 0 /\ end' = image'[Len(image')].at + image'[Len(image')].size
      BY <1>2, <2>3, <2>4
    <3> QED BY <2>6, <2>7, <3>1 DEF Chain, FileData
  <2>9. Len(vfile') = 0 /\ Len(vfile') <= Len(image') BY <1>1, <1>2, <2>3
  <2> QED BY <1>1, <2>8, <2>9 DEF PlaceInv
<1> QED BY <1>1, <1>3, <1>4

LEMMA PlaceLoad == ASSUME FilesInv, PlaceInv, loadFile PROVE PlaceInv'
<1> DEFINE f == image[n]  d == Len(vfile) + 1  z == image[1].size
           v == [name |-> f.name, size |-> f.size, refs |-> 0, phys |-> FileData(phys, f.len)]
<1>1. /\ step = "load" /\ n <= Len(image) /\ n' = n + 1
      /\ vfile' = Append(vfile, v)
      /\ phys' = NextFile(phys, IF n < Len(image) THEN image[n + 1].size ELSE 0, f.len)
      /\ UNCHANGED <<tree, step, image, end>>
  BY DEF loadFile, addVFSFile, disk
<1>2. /\ image \in Seq(ImageFile) /\ n \in 1 .. Len(image) /\ n = d
      /\ vfile \in Seq(VfsFile) /\ Len(vfile) \in Nat /\ phys \in Nat
  BY <1>1 DEF FilesInv, PlaceInv
<1>3. v.name = image[n].name /\ v.phys + z = image[n].at + image[n].size BY <1>1 DEF PlaceInv
<1>4. f \in ImageFile /\ image[1] \in ImageFile
  <2>1. 1 \in 1 .. Len(image) BY <1>2
  <2> QED BY <1>2, <2>1, ElementOfSeq
<1> HIDE DEF v
<1>5. Len(vfile') = n /\ vfile'[n] = v /\ \A i \in 1 .. Len(vfile) : vfile'[i] = vfile[i]
  BY <1>1, <1>2
<1>6. ASSUME NEW i \in 1 .. Len(vfile')
      PROVE  vfile'[i].name = image[i].name /\ vfile'[i].phys + z = image[i].at + image[i].size
  <2>1. CASE i = n BY <1>3, <1>5, <2>1
  <2>2. CASE i # n
    <3>1. i \in 1 .. Len(vfile) BY <1>2, <1>5, <1>6, <2>2
    <3> QED BY <1>5, <3>1 DEF PlaceInv
  <2> QED BY <2>1, <2>2
<1>7. ASSUME n' <= Len(image')
      PROVE  FileData(phys', image[n + 1].len) + z = image[n + 1].at + image[n + 1].size
  <2> DEFINE g == image[n + 1]
  <2>1. n < Len(image) /\ n + 1 \in 1 .. Len(image) BY <1>1, <1>2, <1>7
  <2>2. g \in ImageFile BY <1>2, <2>1, ElementOfSeq
  <2>3. FileData(phys, f.len) + z = f.at + f.size BY <1>1 DEF PlaceInv
  <2>4. g.at = FileData(f.at + f.size, g.len) BY <1>2, <2>1 DEF PlaceInv, Chain
  <2>5. phys' = NextFile(phys, g.size, f.len) BY <1>1, <2>1
  <2>6. /\ f.len \in Nat /\ f.size \in Nat /\ f.at \in Nat /\ g.len \in Nat /\ g.size \in Nat
        /\ g.at \in Nat /\ z \in Nat /\ FileSz \in Nat /\ phys \in Nat
    BY <1>2, <1>4, <2>2, FilesAssumption DEF ImageFile
  <2> HIDE DEF f, g, z
  <2>7. phys + FileSz + f.len + 1 + z = f.at + f.size BY <2>3 DEF FileData
  <2>8. g.at = f.at + f.size + FileSz + g.len + 1 BY <2>4 DEF FileData
  <2>9. phys' = phys + g.size + f.len + 1 + FileSz BY <2>5 DEF NextFile
  <2>10. phys' + FileSz + g.len + 1 + z = g.at + g.size BY <2>6, <2>7, <2>8, <2>9
  <2> QED BY <2>10 DEF FileData, g
<1>8. Chain' BY <1>1 DEF PlaceInv, Chain, FileData
<1>9. n' = Len(vfile') + 1 /\ Len(vfile') <= Len(image') BY <1>1, <1>2, <1>5
<1> QED BY <1>1, <1>6, <1>7, <1>8, <1>9 DEF PlaceInv, FileData

\* The calls on vFILEs change neither the image nor the place of a file.
LEMMA PlaceCall ==
  ASSUME FilesInv, PlaceInv, UNCHANGED <<step, n, disk, phys>>,
         \/ UNCHANGED vfile
         \/ \E f \in DOMAIN vfile, c \in Nat : vfile' = [vfile EXCEPT ![f].refs = c]
  PROVE  PlaceInv'
<1>1. vfile \in Seq(VfsFile) /\ DOMAIN vfile = 1 .. Len(vfile) BY LenProperties DEF FilesInv
<1>2. /\ Len(vfile') = Len(vfile)
      /\ \A i \in 1 .. Len(vfile) : vfile'[i].name = vfile[i].name /\ vfile'[i].phys = vfile[i].phys
  <2>1. CASE UNCHANGED vfile BY <2>1
  <2>2. ASSUME NEW f \in DOMAIN vfile, NEW c \in Nat, vfile' = [vfile EXCEPT ![f].refs = c]
        PROVE  /\ Len(vfile') = Len(vfile)
               /\ \A i \in 1 .. Len(vfile) :
                    vfile'[i].name = vfile[i].name /\ vfile'[i].phys = vfile[i].phys
    BY <1>1, <2>2, CountChange
  <2> QED BY <2>1, <2>2
<1>3. Chain' BY DEF PlaceInv, Chain, FileData, disk
<1> QED BY <1>2, <1>3 DEF PlaceInv, FileData, disk

LEMMA PlaceStep == ASSUME FilesInv, PlaceInv, [FNext]_fileVars PROVE PlaceInv'
<1>0. image \in Seq(ImageFile) /\ vfile \in Seq(VfsFile) BY DEF FilesInv
<1>1. CASE addFile BY <1>1, PlacePack
<1>2. CASE initVFS
  <2>1. /\ step = "pack" /\ step' \in {"load", "none"} /\ n' = 1 /\ phys' = HeaderSz
        /\ UNCHANGED <<image, end, vfile>>
    BY <1>2 DEF initVFS, initRamdisk, disk
  <2>2. vfile = <<>> /\ Len(vfile) = 0 /\ Chain BY <2>1 DEF FilesInv, PlaceInv
  <2>3. Chain' BY <2>1, <2>2 DEF Chain, FileData
  <2>4. n' <= Len(image) => FileData(phys', image[1].len) = image[1].at
    BY <1>0, <2>1, <2>2 DEF Chain
  <2>5. n' = Len(vfile') + 1 BY <2>1, <2>2
  <2>6. \A i \in 1 .. Len(vfile') : FALSE BY <2>1, <2>2
  <2>7. Len(vfile') <= Len(image') BY <1>0, <2>1, <2>2
  <2>8. n' <= Len(image') =>
          FileData(phys', image'[n'].len) + image'[1].size = image'[n'].at + image'[n'].size
    BY <2>1, <2>4
  <2>9. step' # "ready" BY <2>1
  <2> QED BY <2>3, <2>5, <2>6, <2>7, <2>8, <2>9 DEF PlaceInv, FileData
<1>3. CASE loadFile BY <1>3, PlaceLoad
<1>4. CASE initDone
  <2>1. step = "load" /\ n > Len(image) /\ step' = "ready" /\ UNCHANGED <<image, end, vfile>>
    BY <1>4 DEF initDone, disk, vfs
  <2>2. Chain' BY <2>1 DEF PlaceInv, Chain, FileData
  <2>3. Len(vfile) = Len(image) BY <1>0, <2>1 DEF PlaceInv
  <2> QED BY <2>1, <2>2, <2>3 DEF PlaceInv
<1>5. CASE unmountVFS \/ UNCHANGED fileVars
  <2>1. UNCHANGED <<step, n, disk, phys, vfile>> BY <1>5 DEF unmountVFS, fileVars, fvars, vfs
  <2> QED BY <2>1, PlaceCall
<1>6. ASSUME NEW h \in Handles, closeFile(h) PROVE PlaceInv'
  <2> DEFINE f == fd[h].file
  <2>1. f \in DOMAIN vfile BY <1>6, OpenOn DEF closeFile
  <2>2. vfile' = [vfile EXCEPT ![f].refs = Ref(vfile[f].refs + 2^RefBits - 1)]
    BY <1>6, <2>1 DEF closeFile, FilesInv
  <2>3. UNCHANGED <<step, n, disk, phys>> BY <1>6 DEF closeFile
  <2>4. Ref(vfile[f].refs + 2^RefBits - 1) \in Nat BY <2>1, RefsTyped
  <2> QED BY <2>1, <2>2, <2>3, <2>4, PlaceCall
<1>7. ASSUME NEW h \in Handles, readFile(h) \/ \E off \in SizeT, whence \in {"SET", "END"} : fileSeek(h, off, whence)
      PROVE  PlaceInv'
  <2>1. UNCHANGED <<step, n, disk, phys, vfile>> BY <1>7 DEF readFile, fileSeek, fvars, vfs
  <2> QED BY <2>1, PlaceCall
<1>8. ASSUME NEW h \in Handles, NEW r \in RootNames, NEW name \in Key \cup {NoKey}, openFile(h, r, name)
      PROVE  PlaceInv'
  <2>1. UNCHANGED <<step, n, disk, phys>> BY <1>8 DEF openFile
  <2>2. CASE fd' = fd
    <3>1. UNCHANGED vfile BY <1>8, <2>2, OpensNothing
    <3> QED BY <2>1, <3>1, PlaceCall
  <2>3. CASE fd' # fd
    <3>1. PICK f \in DOMAIN vfile : vfile' = [vfile EXCEPT ![f].refs = Ref(vfile[f].refs + 1)]
      BY <1>8, <2>3, OpensFile
    <3>2. Ref(vfile[f].refs + 1) \in Nat BY RefsTyped
    <3> QED BY <2>1, <3>1, <3>2, PlaceCall
  <2> QED BY <2>2, <2>3
<1> QED BY <1>1, <1>2, <1>3, <1>4, <1>5, <1>6, <1>7, <1>8 DEF FNext

LEMMA PlaceStart == ASSUME FInit PROVE PlaceInv
<1>1. Len(image) = 0 /\ Len(vfile) = 0 /\ end = HeaderSz /\ step = "pack" BY DEF FInit
<1> QED BY <1>1 DEF PlaceInv, Chain

\* Each file of the VFS is the file of the image with its number, at the
\* distance that initRamdisk()'s pointer had when it was loaded.
THEOREM PlaceInvariant == FSpec => []PlaceInv
BY PlaceStart, PlaceStep, FilesAgree, PTL DEF FSpec

\* For every directory, with files of any sizes and names of any length, the
\* address that initRamdisk() gives a file differs from where the host tool
\* wrote it by exactly what the sizes of this file and of the first differ.
THEOREM FilesPlaced == FSpec => []Placed
<1>1. FilesInv /\ PlaceInv => Placed
  <2> SUFFICES ASSUME FilesInv, PlaceInv PROVE Placed OBVIOUS
  <2>1. DOMAIN vfile = 1 .. Len(vfile) BY LenProperties DEF FilesInv
  <2> QED BY <2>1 DEF PlaceInv, Placed
<1> QED BY <1>1, FilesAgree, PlaceInvariant, PTL

-----------------------------------------------------------------------------
(* Names *)

\* What the bucket of a name holds once the ramdisk is loaded.
LEMMA LoadedBucket ==
  ASSUME FilesInv, PlaceInv, step = "ready", state = "live", NEW k \in Key
  PROVE  /\ FileBucket(table[hashData(k)], hashData(k), vfile)
         /\ DOMAIN image = DOMAIN vfile /\ DOMAIN vfile \subseteq Nat \ {0}
         /\ \A i \in DOMAIN vfile : vfile[i].name = image[i].name /\ image[i].name \in Key
<1>1. hashData(k) \in Bucket BY HashAssumption DEF hashData
<1>2. FileBucket(table[hashData(k)], hashData(k), vfile) BY <1>1 DEF FilesInv
<1>3. image \in Seq(ImageFile) /\ vfile \in Seq(VfsFile) BY DEF FilesInv
<1>4. DOMAIN image = 1 .. Len(image) /\ DOMAIN vfile = 1 .. Len(vfile) BY <1>3, LenProperties
<1>5. Len(vfile) = Len(image) BY DEF PlaceInv
<1>6. \A i \in 1 .. Len(image) : image[i].name \in Key
  <2> TAKE i \in 1 .. Len(image)
  <2>1. image[i] \in ImageFile BY <1>3, ElementOfSeq
  <2> QED BY <2>1 DEF ImageFile
<1> QED BY <1>2, <1>4, <1>5, <1>6 DEF PlaceInv

\* What parsePath() gets for a name whose bucket answers with an entry.
LEMMA FetchedEntry ==
  ASSUME NEW k \in Key, table[hashData(k)] # <<>>,
         FindAt(table[hashData(k)], k) # 0,
         table[hashData(k)][FindAt(table[hashData(k)], k)].data # Junk
  PROVE  Fetched(k) = {table[hashData(k)][FindAt(table[hashData(k)], k)].data}
<1>1. k # NoKey BY HashAssumption
<1> QED BY <1>1 DEF Fetched, FetchAt, Told

LEMMA NamesRight ==
  ASSUME FilesInv, PlaceInv, step = "ready", state = "live", NEW i \in DOMAIN image
  PROVE  LET mates == Bucketmates(image[i].name)
         IN  \/ Fetched(image[i].name) = {i}
             \/ mates # {i} /\ \A j \in mates : i <= j
             \/ \E j \in mates \ {i} : image[j].name = image[i].name
<1> DEFINE k == image[i].name  b == hashData(k)  s == table[b]  q == FindAt(s, k)
           mates == Bucketmates(k)
<1>1. k \in Key /\ k # NoKey
  <2>1. i \in 1 .. Len(image) /\ image \in Seq(ImageFile) BY LenProperties DEF FilesInv
  <2>2. image[i] \in ImageFile BY <2>1, ElementOfSeq
  <2> QED BY <2>2, HashAssumption DEF ImageFile
<1>2. /\ FileBucket(s, b, vfile) /\ DOMAIN image = DOMAIN vfile /\ DOMAIN vfile \subseteq Nat \ {0}
      /\ \A j \in DOMAIN vfile : vfile[j].name = image[j].name /\ image[j].name \in Key
  BY <1>1, LoadedBucket
<1>3. \A j : j \in mates <=> j \in DOMAIN vfile /\ hashData(vfile[j].name) = b
  BY <1>2 DEF Bucketmates
<1>4. i \in mates BY <1>2 DEF Bucketmates
<1> HIDE DEF k, b, s, mates
<1>5. \A j \in mates : \E p \in 1 .. Len(s) : s[p].data = j BY <1>2, <1>3 DEF FileBucket
<1>6. s \in Seq(Cell(Nat)) BY <1>2 DEF FileBucket
<1>7. PICK p \in 1 .. Len(s) : s[p].data = i BY <1>4, <1>5
<1>8. s # <<>> /\ Len(s) \in Nat /\ Len(s) >= 1 BY <1>6, <1>7
<1>9. \A l \in 1 .. Len(s) : s[l].data # Junk => LeadsTo(s[l], b, vfile)
  BY <1>2 DEF FileBucket, LeftOver
<1>10. \A l \in 2 .. Len(s) : l \in 1 .. Len(s) /\ LeadsTo(s[l], b, vfile)
  <2> TAKE l \in 2 .. Len(s)
  <2>1. l \in 1 .. Len(s) /\ l # 1 BY <1>8
  <2> QED BY <1>2, <2>1 DEF FileBucket, LeftOver
<1>11. \A l \in 1 .. Len(s) : LeadsTo(s[l], b, vfile) =>
         s[l].data \in mates /\ s[l].key = image[s[l].data].name /\ s[l].data \in Nat /\ s[l].data # Junk
  BY <1>2, <1>3, FilesAssumption DEF LeadsTo
<1>12. LeadsTo(s[p], b, vfile)
  <2>1. i \in Nat BY <1>2
  <2> QED BY <1>7, <1>9, <2>1, FilesAssumption
<1>13. s[p].key = k BY <1>7, <1>11, <1>12 DEF k
<1>14. /\ q \in 0 .. Len(s) /\ (q = 1 <=> s[1].key # NoKey /\ Len(s) = 1)
       /\ q > 1 => s[q].key = k
       /\ s[1].key # NoKey /\ q = 0 => \A l \in 2 .. Len(s) : s[l].key # k
  BY <1>1, <1>6, <1>8, FindPlace
<1>15. q # 0 /\ s[q].data # Junk => Fetched(k) = {s[q].data} BY <1>1, <1>8, FetchedEntry DEF s, b
<1> HIDE DEF q
<1>16. CASE p = 1 /\ Len(s) = 1
  <2>1. q = 1 BY <1>1, <1>13, <1>14, <1>16
  <2>2. s[q].data = i /\ s[q].data # Junk BY <1>7, <1>11, <1>12, <1>16, <2>1
  <2> QED BY <1>15, <2>1, <2>2 DEF k
<1>17. CASE p = 1 /\ Len(s) # 1
  <2>0. \A l \in Nat : l >= 1 /\ l # 1 => 2 \in 2 .. l OBVIOUS
  <2>1. 2 \in 2 .. Len(s) BY <1>8, <1>17, <2>0
  <2>2. \A l \in 2 .. Len(s) : i < s[l].data BY <1>1, <1>2, <1>7, <1>13, <1>17 DEF FileBucket
  <2>3. s[2].data \in mates /\ s[2].data \in Nat /\ i < s[2].data BY <1>10, <1>11, <2>1, <2>2
  <2>4. i \in Nat BY <1>2
  <2>5. mates # {i} BY <2>3, <2>4
  <2>6. ASSUME NEW j \in mates PROVE i <= j
    <3>1. PICK l \in 1 .. Len(s) : s[l].data = j BY <1>5, <2>6
    <3>2. j \in Nat BY <1>2, <1>3, <2>6
    <3>3. CASE l = 1 BY <1>7, <1>17, <2>4, <3>1, <3>3
    <3>4. CASE l # 1
      <4>1. l \in 2 .. Len(s) BY <1>8, <3>1, <3>4
      <4>2. i < j BY <2>2, <3>1, <4>1
      <4> QED BY <2>4, <3>2, <4>2
    <3> QED BY <3>3, <3>4
  <2> QED BY <2>5, <2>6 DEF mates, k
<1>18. CASE p # 1
  <2>1. p \in 2 .. Len(s) /\ Len(s) # 1 BY <1>7, <1>8, <1>18
  <2>2. s[1].key # NoKey
    <3>1. 1 \in 1 .. Len(s) BY <1>8
    <3>2. LeadsTo(s[1], b, vfile) \/ LeftOver(s, 1) BY <1>2, <3>1 DEF FileBucket
    <3> QED BY <2>1, <3>2, HashAssumption DEF LeadsTo, LeftOver
  <2>3. q # 0 /\ q # 1 BY <1>13, <1>14, <2>1, <2>2
  <2>4. q \in 2 .. Len(s) /\ s[q].key = k BY <1>8, <1>14, <2>3
  <2>5. s[q].data \in mates /\ image[s[q].data].name = k /\ s[q].data # Junk BY <1>10, <1>11, <2>4
  <2>6. CASE s[q].data = i BY <1>15, <2>3, <2>5, <2>6 DEF k
  <2>7. CASE s[q].data # i BY <2>5, <2>7 DEF mates, k
  <2> QED BY <2>6, <2>7
<1> QED BY <1>16, <1>17, <1>18

LEMMA NamesOwn ==
  ASSUME FilesInv, PlaceInv, step = "ready", state = "live", NEW k \in Key,
         NEW i \in Fetched(k) \cap DOMAIN image
  PROVE  image[i].name = k \/ Bucketmates(k) = {i}
<1> DEFINE b == hashData(k)  s == table[b]  q == FindAt(s, k)  mates == Bucketmates(k)
<1>1. k # NoKey BY HashAssumption
<1>2. /\ FileBucket(s, b, vfile) /\ DOMAIN image = DOMAIN vfile /\ DOMAIN vfile \subseteq Nat \ {0}
      /\ \A j \in DOMAIN vfile : vfile[j].name = image[j].name /\ image[j].name \in Key
  BY LoadedBucket
<1>3. \A j : j \in mates <=> j \in DOMAIN vfile /\ hashData(vfile[j].name) = b
  BY <1>2 DEF Bucketmates
<1>4. i \in Nat /\ i # 0 /\ i # Junk BY <1>2, FilesAssumption
<1>5. s # <<>> /\ q # 0 /\ i = s[q].data BY <1>1, <1>4 DEF Fetched, FetchAt, Told
<1> HIDE DEF s, b, mates
<1>6. s \in Seq(Cell(Nat)) BY <1>2 DEF FileBucket
<1>7. Len(s) \in Nat /\ Len(s) >= 1 BY <1>5, <1>6, HasEntry
<1>8. q \in 0 .. Len(s) /\ (q = 1 <=> s[1].key # NoKey /\ Len(s) = 1) /\ (q > 1 => s[q].key = k)
  BY <1>6, <1>7, FindPlace
<1> HIDE DEF q
<1>9. q \in 1 .. Len(s) BY <1>5, <1>7, <1>8
<1>10. LeadsTo(s[q], b, vfile) BY <1>2, <1>4, <1>5, <1>9 DEF FileBucket, LeftOver
<1>11. image[i].name = s[q].key /\ i \in mates BY <1>2, <1>3, <1>5, <1>10 DEF LeadsTo
<1>12. CASE q = 1
  <2>1. Len(s) = 1 BY <1>8, <1>12
  <2>2. \A j \in mates : j = i
    <3> TAKE j \in mates
    <3>1. PICK l \in 1 .. Len(s) : s[l].data = j BY <1>2, <1>3 DEF FileBucket
    <3>2. l = 1 BY <2>1, <3>1
    <3> QED BY <1>5, <1>12, <3>1, <3>2
  <2> QED BY <1>11, <2>2 DEF mates
<1>13. CASE q # 1
  <2>1. q > 1 BY <1>7, <1>9, <1>13
  <2> QED BY <1>8, <1>11, <2>1
<1> QED BY <1>12, <1>13

\* For every directory, every hash function and whatever the heap held: each
\* file of a loaded ramdisk is found by its name, unless it is the first of a
\* bucket that it shares, and no name leads to a file of another name but the
\* only one of its bucket.
THEOREM NamesLead == FSpec => []NamesFound
<1>1. FilesInv /\ PlaceInv => NamesFound BY NamesRight, NamesOwn DEF NamesFound
<1> QED BY <1>1, FilesAgree, PlaceInvariant, PTL
==============================================================================
