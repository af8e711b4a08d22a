------------------------------- MODULE Files --------------------------------
(***************************************************************************)
(* Files from the host to a reader in the kernel: the tool that packs a    *)
(* directory into a ramdisk image (Ramdisk/ramdisk.c), initRamdisk() that  *)
(* finds the files in the image, and the VFS that opens, reads, seeks and  *)
(* closes them (vfs.c).  The table of the mount 'R' is HashTable's table;  *)
(* its data are the files' numbers.  Of the root table only the bucket of  *)
(* 'R' is kept: nothing else is ever inserted there.                       *)
(*                                                                         *)
(* Addresses are offsets into the image: the kernel's base addresses       *)
(* cancel out.  A path is its first name and, if it   *)
(* has one, its second; what follows a file's name is not looked at.       *)
(***************************************************************************)
EXTENDS HashTable, FiniteSets

CONSTANTS
  Trees,      \* host directories, each a sequence of nftw() visits
  HeaderSz,   \* sizeof(struct ramdiskHeader)
  FileSz,     \* sizeof(struct ramdiskFile)
  RootNames,  \* names that callers try below the root
  RBucket,    \* those that hash to the bucket of "R" in the root table
  Handles,    \* vFILE structures a caller can hold
  SizeBits,   \* bits of a size_t
  RefBits     \* bits of a reference count

ASSUME FilesAssumption ==
  /\ HeaderSz \in Nat /\ FileSz \in Nat /\ SizeBits \in Nat \ {0} /\ RefBits \in Nat \ {0}
  /\ 2^SizeBits > 1 /\ 2^RefBits > 1
  /\ RBucket \subseteq RootNames /\ Junk \notin Nat
  /\ Trees \subseteq Seq([name: Key, size: Nat, len: Nat, file: BOOLEAN])

VARIABLES
  tree,    \* the directory being packed
  step,    \* "pack", "load", "ready", or "none" with no ramdisk
  n,       \* the next directory entry, and then the next file of the image
  image,   \* the files packed so far: size, name, name length, start of data
  end,     \* the size of the image so far
  phys,    \* initRamdisk()'s physPtr
  vfile,   \* the vfsFile structures
  mount,   \* the mount's references, and its place in the bucket of 'R'
  fd       \* the open vFILEs

disk == <<image, end>>
vfs == <<vfile, mount>>
fvars == <<tree, step, n, disk, phys, vfs, fd>>
fileVars == <<hvars, fvars>>

SizeT == 0 .. 2^SizeBits - 1
Closed == [file |-> 0, pos |-> 0]
Refs == 0 .. 2^RefBits - 1
Ref(r) == r % 2^RefBits

FInit ==
  /\ tree \in Trees
  /\ HInit
  /\ step = "pack" /\ n = 1 /\ image = <<>> /\ end = HeaderSz /\ phys = 0
  /\ vfile = <<>> /\ mount = [refs |-> 0, root |-> "none"]
  /\ fd = [h \in Handles |-> Closed]

-----------------------------------------------------------------------------
(* The host tool *)

\* addFile(): what is no file is passed over; a file is its header, its name
\* with a terminating zero, and its bytes.
addFile ==
  LET t == tree[n]
      data == end + FileSz + t.len + 1
  IN  /\ step = "pack" /\ n <= Len(tree)
      /\ n' = n + 1
      /\ \/ ~t.file /\ UNCHANGED disk
         \/ /\ t.file
            /\ image' = Append(image, [name |-> t.name, len |-> t.len, size |-> t.size, at |-> data])
            /\ end' = data + t.size
      /\ UNCHANGED <<hvars, tree, step, phys, vfs, fd>>

-----------------------------------------------------------------------------
(* The kernel *)

Up == state # "fault"

\* mountVFS() makes the table of "R" and leaves references and mfread as
\* kmalloc() returned them: its line for mfread assigns nothing.  The mount is
\* alone in its bucket of the root table, or on the chain of a stale entry,
\* or the insertion follows a stale chain.
mountVFS ==
  \/ hashtableCreate /\ mount' \in [refs: Refs, root: {"alone", "chain"}]
  \/ Astray /\ UNCHANGED mount

\* initRamdisk() before its loop.  Without a ramdisk the magic is wrong, and
\* nothing is mounted.
initRamdisk ==
  /\ \/ step' = "load" /\ mountVFS
     \/ step' = "none" /\ UNCHANGED <<hvars, mount>>
  /\ n' = 1 /\ phys' = HeaderSz

initVFS ==
  /\ step = "pack" /\ n > Len(tree)
  /\ initRamdisk
  /\ UNCHANGED <<tree, disk, vfile, fd>>

\* Mutant: the terminating zero of the name is forgotten.
FileDataShort(p, len) == p + FileSz + len

\* RD_FILE_DATA
FileData(p, len) == p + FileSz + len + 1

\* RD_NEXT_FILE
NextFile(p, size, len) == p + size + len + 1 + FileSz

addVFSFile(name, at, size) ==
  /\ vfile' = Append(vfile, [name |-> name, size |-> size, refs |-> 0, phys |-> at])
  /\ hashtableInsert(name, Len(vfile) + 1)

\* One iteration of initRamdisk()'s loop.  physPtr is moved by the size of the
\* file that follows, for `file` has moved on.
loadFile ==
  LET f == image[n]
  IN  /\ step = "load" /\ n <= Len(image)
      /\ addVFSFile(f.name, FileData(phys, f.len), f.size)
      /\ phys' = NextFile(phys, IF n < Len(image) THEN image[n + 1].size ELSE 0, f.len)
      /\ n' = n + 1
      /\ UNCHANGED <<tree, step, disk, mount, fd>>

initDone ==
  /\ Up /\ step = "load" /\ n > Len(image)
  /\ step' = "ready"
  /\ UNCHANGED <<hvars, tree, n, disk, phys, vfs, fd>>

\* parsePath()'s second hashtableFetch(), below the mount: the numbers of the
\* files it may return, 0 for nothing, Junk for a header nobody made.
Fetched(name) ==
  LET s == table[hashData(name)]  a == FetchAt(s, name)
  IN  IF name = NoKey THEN {0}
      ELSE IF s = <<>> THEN {Junk}
      ELSE IF ~a.found THEN {0}
      ELSE IF a.data = Junk THEN {0, Junk} ELSE {a.data}

\* A mount alone in its bucket is found by any name of the bucket; on a chain
\* its key is compared, a byte of mountVFS()'s stack that is long dead.  Any
\* other bucket of the root is as hashtableCreate() left it.
parsePath(r, name) ==
  IF step = "ready" /\ r \in RBucket
  THEN Fetched(name) \cup (IF mount.root = "chain" THEN {0} ELSE {})
  ELSE {0, Junk}

\* Mutant: only the mount counts the open file.
TakeRefMount(f) ==
  /\ mount' = [mount EXCEPT !.refs = Ref(@ + 1)] /\ UNCHANGED vfile

TakeRef(f) ==
  /\ vfile' = [vfile EXCEPT ![f].refs = Ref(@ + 1)]
  /\ mount' = [mount EXCEPT !.refs = Ref(@ + 1)]

\* openFile(): the offset of the new vFILE is whatever kmalloc() returned.
\* A path that leads nowhere, or to the mount, opens nothing.
openFile(h, r, name) ==
  /\ Up /\ step \in {"ready", "none"} /\ fd[h] = Closed
  /\ \E f \in parsePath(r, name) :
       \/ f = 0 /\ UNCHANGED <<hvars, vfs, fd>>
       \/ f = Junk /\ Astray /\ UNCHANGED <<vfs, fd>>
       \/ /\ f \in DOMAIN vfile /\ TakeRef(f)
          /\ \E junk \in SizeT : fd' = [fd EXCEPT ![h] = [file |-> f, pos |-> junk]]
          /\ UNCHANGED hvars
  /\ UNCHANGED <<tree, step, n, disk, phys>>

closeFile(h) ==
  /\ Up /\ fd[h] # Closed
  /\ vfile' = [vfile EXCEPT ![fd[h].file].refs = Ref(@ + 2^RefBits - 1)]
  /\ fd' = [fd EXCEPT ![h] = Closed]
  /\ UNCHANGED <<hvars, tree, step, n, disk, phys, mount>>

\* readFile() calls the mount's mfread, which nobody has set.
readFile(h) ==
  /\ Up /\ fd[h] # Closed
  /\ Astray /\ UNCHANGED fvars

\* fileSeek(): the sum of position and offset, as a size_t, decides; the
\* position becomes the offset, the end, or counts back from the end.
Sought(pos, off, size, whence) ==
  LET past == (off + pos) % 2^SizeBits >= size
  IN  CASE whence = "END" -> IF past THEN 0 ELSE (size + 2^SizeBits - off) % 2^SizeBits
        [] OTHER -> IF past THEN size ELSE off

fileSeek(h, off, whence) ==
  /\ Up /\ fd[h] # Closed
  /\ fd' = [fd EXCEPT ![h].pos = Sought(@, off, vfile[fd[h].file].size, whence)]
  /\ UNCHANGED <<hvars, tree, step, n, disk, phys, vfile, mount>>

\* unmountVFS() searches the first `devices` mounts, and devices stays 0:
\* it always returns false and changes nothing.
unmountVFS == Up /\ step = "ready" /\ UNCHANGED fileVars

FNext ==
  \/ addFile \/ initVFS \/ loadFile \/ initDone \/ unmountVFS
  \/ \E h \in Handles :
       \/ closeFile(h) \/ readFile(h)
       \/ \E r \in RootNames, name \in Key \cup {NoKey} : openFile(h, r, name)
       \/ \E off \in SizeT, whence \in {"SET", "END"} : fileSeek(h, off, whence)

FSpec == FInit /\ [][FNext]_fileVars

-----------------------------------------------------------------------------
(* Properties *)

\* initRamdisk() moves its physical pointer by the size of the file that
\* follows (ramdisk.c:51) where addFile() has written the file itself, so the
\* address a file gets is off by what its own size and the first file's
\* differ: the errors in between cancel out, for files of any sizes, and a
\* file as large as the first one is where the host tool put it.
Placed ==
  \A i \in DOMAIN vfile :
    vfile[i].phys + image[1].size = image[i].at + image[i].size

\* The files of the image whose names share a bucket with name k.
Bucketmates(k) == {i \in DOMAIN image : hashData(image[i].name) = hashData(k)}

\* With the ramdisk loaded every file is found by its name, however the names
\* collide and whatever the buckets held before, but for the first file of a
\* bucket that others share: that one hashtableInsert() puts into the array,
\* where findKey() does not look once there is a chain.  And a name leads to
\* its own file, or to the only one of its bucket.
NamesFound ==
  step = "ready" /\ state = "live" =>
    /\ \A i \in DOMAIN image :
         LET mates == Bucketmates(image[i].name)
         IN  \/ Fetched(image[i].name) = {i}
             \/ mates # {i} /\ \A j \in mates : i <= j
             \/ \E j \in mates \ {i} : image[j].name = image[i].name
    /\ \A k \in Key : \A i \in Fetched(k) \cap DOMAIN image :
         image[i].name = k \/ Bucketmates(k) = {i}

\* "Open references to this file" (vfs.h:69): a file's count is the number
\* of vFILEs that are open on it.
ReferencesMatch ==
  \A f \in DOMAIN vfile : vfile[f].refs = Cardinality({h \in Handles : fd[h].file = f})

\* "Returns NULL if path is invalid" (vfs.c:93): a name leads to the file of
\* that name or nowhere.
FoundByName ==
  step = "ready" /\ state = "live" => \A k \in Key : \A f \in Fetched(k) \cap DOMAIN vfile : vfile[f].name = k
=============================================================================
