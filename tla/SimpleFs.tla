------------------------------- MODULE SimpleFs ------------------------------
(***************************************************************************)
(* The RAM file system of kernel/filesystem/simplefs.c: a table of inodes  *)
(* in the kernel's memory, with a bitmap of the inodes and one of the data *)
(* blocks.                                                                 *)
(*                                                                         *)
(* The inodes lie one after the other in the words of the table; an inode  *)
(* is the Before words before block, the words of block and the After      *)
(* words after it.  memcpy copies words here.  Bitmaps are the sets of     *)
(* their 1 bits.                                                           *)
(***************************************************************************)
EXTENDS Integers, Sequences, SequencesExt

CONSTANTS
  Inodes,       \* inodes of the table (16)
  Before,       \* words of an inode before block (5)
  BlockLength,  \* words of block (15)
  After,        \* words of an inode after block (2)
  DataBlocks,   \* bits f_malloc looks at (56)
  IntBits,      \* bits of an int (32)
  BitmapBits,   \* bits of dnode_bitmap (64)
  Heap,         \* blocks k_malloc has left
  Data          \* what is written: sequences of words

InodeWords == Before + BlockLength + After
WordsOf(n) == n * InodeWords .. (n + 1) * InodeWords - 1

ASSUME SimpleFsAssumption ==
  /\ {Before, After, Heap} \subseteq Nat /\ {Inodes, BlockLength} \subseteq Nat \ {0}
  /\ {IntBits, DataBlocks, BitmapBits} \subseteq Nat \ {0}
  /\ IntBits <= DataBlocks /\ DataBlocks <= BitmapBits
  /\ Data \subseteq Seq(Nat) /\ \A data \in Data : Len(data) <= InodeWords

VARIABLES
  words,         \* the table's inodes, and as many words after it
  inode_bitmap, dnode_bitmap,
  opens,         \* the inodes fopen returned, in order
  stored,        \* the bits f_malloc set, in order
  heapUsed,      \* blocks k_malloc gave
  written        \* written[n]: what f_write wrote last to inode n and nothing replaced

fsVars == <<words, inode_bitmap, dnode_bitmap, opens, stored, heapUsed, written>>

NoPointer == 0
Block(k) == 100 + k   \* the address of the k-th block k_malloc gives

FsInit ==
  /\ words = [w \in 0 .. (Inodes + 1) * InodeWords - 1 |-> NoPointer]
  /\ inode_bitmap = {} /\ dnode_bitmap = {}
  /\ opens = << >> /\ stored = << >>
  /\ heapUsed = 0
  /\ written = [n \in 0 .. Inodes - 1 |-> << >>]

BlockAt(n) == n * InodeWords + Before
Opened == {opens[k] : k \in DOMAIN opens}

------------------------------------------------------------------------------
\* initRamFS clears inode 0, the root directory, and marks nothing as used: fopen
\* gives out inode 0 first.
initRamFS ==
  /\ words' = [w \in DOMAIN words |-> IF w \in WordsOf(0) THEN NoPointer ELSE words[w]]
  /\ written' = [written EXCEPT ![0] = << >>]
  /\ UNCHANGED <<inode_bitmap, dnode_bitmap, opens, stored, heapUsed>>

FirstClear(bitmap, n) == CHOOSE i \in 0 .. n - 1 : i \notin bitmap /\ 0 .. i - 1 \subseteq bitmap

\* fopen does not look at the name.  With no inode left it changes nothing.
fopen ==
  /\ ~(0 .. Inodes - 1 \subseteq inode_bitmap)
  /\ LET i == FirstClear(inode_bitmap, Inodes)
     IN /\ inode_bitmap' = inode_bitmap \cup {i}
        /\ opens' = Append(opens, i)
  /\ UNCHANGED <<words, dnode_bitmap, stored, heapUsed, written>>

\* memcpy(&words[at], data, Len(data)).
Copied(at, data) ==
  [w \in DOMAIN words |-> IF w - at + 1 \in DOMAIN data THEN data[w - at + 1] ELSE words[w]]

\* Variant with a bug: the data replaces the inode from its first word on.
f_writeOverInode(n, data) ==
  /\ words' = Copied(n * InodeWords, data)
  /\ written' = [written EXCEPT ![n] = data]
  /\ UNCHANGED <<inode_bitmap, dnode_bitmap, opens, stored, heapUsed>>

\* The data replaces the pointers to the blocks, and what follows them.
f_write(n, data) ==
  /\ words' = Copied(BlockAt(n), data)
  /\ written' = [written EXCEPT ![n] = data]
  /\ UNCHANGED <<inode_bitmap, dnode_bitmap, opens, stored, heapUsed>>

\* What f_read leaves in the buffer: the words from the last of the first blocks
\* pointers that is not NULL on.
f_read(n, blocks, length) ==
  LET used == {i \in 0 .. blocks - 1 : words[BlockAt(n) + i] # NoPointer}
  IN IF used = {} THEN << >>
     ELSE LET last == CHOOSE i \in used : \A j \in used : j <= i
          IN [k \in 1 .. length |-> words[BlockAt(n) + last + k - 1]]

\* bitmap |= 1 << i, where 1 is an int: bit 31 is its sign.
Mark(bitmap, i) == bitmap \cup IF i = IntBits - 1 THEN i .. BitmapBits - 1 ELSE {i}

\* Variant with a bug: the bit is not set.
f_mallocUnmarked(n, block_index) ==
  /\ ~(0 .. DataBlocks - 1 \subseteq dnode_bitmap)
  /\ Len(stored) < BitmapBits
  /\ LET i == FirstClear(dnode_bitmap, DataBlocks)
         base == IF heapUsed < Heap THEN Block(heapUsed) ELSE NoPointer
     IN /\ stored' = Append(stored, i)
        /\ words' = [words EXCEPT ![BlockAt(n) + block_index] = base]
        /\ heapUsed' = IF base = NoPointer THEN heapUsed ELSE heapUsed + 1
  /\ written' = [written EXCEPT ![n] = << >>]
  /\ UNCHANGED <<inode_bitmap, dnode_bitmap, opens>>

\* The bit stays set when k_malloc has nothing left; block_index is not checked.
f_malloc(n, block_index) ==
  /\ ~(0 .. DataBlocks - 1 \subseteq dnode_bitmap)
  /\ LET i == FirstClear(dnode_bitmap, DataBlocks)
         base == IF heapUsed < Heap THEN Block(heapUsed) ELSE NoPointer
     IN /\ dnode_bitmap' = Mark(dnode_bitmap, i)
        /\ stored' = Append(stored, i)
        /\ words' = [words EXCEPT ![BlockAt(n) + block_index] = base]
        /\ heapUsed' = IF base = NoPointer THEN heapUsed ELSE heapUsed + 1
  /\ written' = [written EXCEPT ![n] = << >>]
  /\ UNCHANGED <<inode_bitmap, opens>>

FsNext ==
  \/ initRamFS
  \/ fopen
  \/ \E n \in Opened, data \in Data : f_write(n, data)
  \/ \E n \in Opened, index \in 0 .. InodeWords - 1 : f_malloc(n, index)

FsSpec == FsInit /\ [][FsNext]_fsVars

------------------------------------------------------------------------------
FsTypeOK ==
  /\ inode_bitmap \subseteq 0 .. Inodes - 1
  /\ dnode_bitmap \subseteq 0 .. BitmapBits - 1
  /\ heapUsed \in 0 .. Heap
  /\ \A w \in DOMAIN words : words[w] \in Nat

\* Nothing is given out twice, and both bitmaps agree with what was: fopen gives every
\* inode before it refuses (simplefs.c:24), and f_malloc IntBits of the DataBlocks
\* bits it has, as the shift of the int then takes all that are left
\* (simplefs.c:56).
GivenOnce ==
  /\ IsInjective(opens) /\ inode_bitmap = Opened
  /\ IsInjective(stored) /\ (DataBlocks - 1 \in dnode_bitmap <=> Len(stored) = IntBits)

\* What f_read gives of a file whose words were written is what was written, from the
\* last word on that is not 0 among as many as it was asked for blocks, or nothing when
\* all of those are 0 (simplefs.c:39-46): the whole of it for one block and a first word
\* that is not 0.  It holds as long as no write is longer than an inode: the words past
\* block that a write takes with it, up to the next inode's block, hold nothing f_read
\* looks at (simplefs.c:33).
ReadsFrom(n, blocks, i) ==
  /\ written[n][i] # NoPointer /\ \A j \in i + 1 .. blocks : written[n][j] = NoPointer
  /\ LET length == Len(written[n]) - i + 1
     IN f_read(n, blocks, length) = [k \in 1 .. length |-> written[n][i + k - 1]]

ReadsNothing(n, blocks) ==
  /\ \A i \in 1 .. blocks : written[n][i] = NoPointer
  /\ f_read(n, blocks, Len(written[n])) = << >>

ReadBack ==
  \A n \in Opened : \A blocks \in 1 .. Len(written[n]) :
    ReadsNothing(n, blocks) \/ \E i \in 1 .. blocks : ReadsFrom(n, blocks, i)
==============================================================================
