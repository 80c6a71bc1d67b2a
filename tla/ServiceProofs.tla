----------------------------- MODULE ServiceProofs ---------------------------
(***************************************************************************)
(* Proofs about the services that run alone: SimpleFs, Acpi and Initrd,    *)
(* one after the other, each with its invariant first.                     *)
(*                                                                         *)
(* SimpleFs, for every size of table, bitmap and block.  Both bitmaps are  *)
(* filled from bit 0 on, so the first clear bit is the number of bits      *)
(* given so far; and a write to one inode stays between its block and the  *)
(* next inode's.                                                           *)
(*                                                                         *)
(* Acpi, for every descriptor and every table.  Where the sum takes in all *)
(* bytes that are not 0, one wrong byte changes it by less than 256, so    *)
(* its low byte too.  parseMADT stands at the start of a record, and found *)
(* counts the records before it type by type.                              *)
(*                                                                         *)
(* Initrd, for every image whose files do not overlap.  The edited headers *)
(* and the nodes name the files' own bytes, the lookup gives the first     *)
(* node of a name, and buf is cleared once a file was printed.             *)
(*                                                                         *)
(* At the end, the types of all five services side by side; those of       *)
(* Paging and Strings rest on the modules of their own proofs.             *)
(***************************************************************************)
EXTENDS MCServices, PagingProofs, StringsProofs, FiniteSetTheorems, WellFoundedInduction, TLAPS

------------------------------------------------------------------------------
\* The RAM file system.

\* The k-th element is k - 1.
InOrder(s) == \A k \in 1 .. Len(s) : s[k] = k - 1

InodesInOrder ==
  /\ opens \in Seq(Nat) /\ InOrder(opens)
  /\ Len(opens) <= Inodes
  /\ inode_bitmap = 0 .. Len(opens) - 1

BlocksInOrder ==
  /\ stored \in Seq(Nat) /\ InOrder(stored)
  /\ Len(stored) <= IntBits
  /\ Len(stored) < IntBits => dnode_bitmap = 0 .. Len(stored) - 1
  /\ Len(stored) = IntBits => dnode_bitmap = 0 .. BitmapBits - 1

\* The bitmaps follow what was given out.
BitmapsInv == InodesInOrder /\ BlocksInOrder

TableWords == 0 .. (Inodes + 1) * InodeWords - 1

\* Inode n's block and the words after it hold what was written there last.
Holds(n) ==
  \A k \in 1 .. Len(written[n]) : words[BlockAt(n) + k - 1] = written[n][k]

ContentsInv ==
  /\ words \in [TableWords -> Nat] /\ heapUsed \in Nat
  /\ written \in [0 .. Inodes - 1 -> Data \cup {<< >>}]
  /\ \A n \in 0 .. Inodes - 1 : Holds(n)

------------------------------------------------------------------------------
\* The bitmaps.
LEMMA FirstClearOfInterval ==
  ASSUME NEW n \in Nat, NEW k \in Nat, k < n
  PROVE  FirstClear(0 .. k - 1, n) = k
<1>1. k \in 0 .. n - 1 /\ k \notin 0 .. k - 1
  OBVIOUS
<1>2. ASSUME NEW x \in 0 .. n - 1, x \notin 0 .. k - 1, 0 .. x - 1 \subseteq 0 .. k - 1
      PROVE  x = k
  <2>1. x >= k
    BY <1>2
  <2>2. ~(x > k)
    BY <1>2
  <2> QED BY <2>1, <2>2
<1> QED BY <1>1, <1>2 DEF FirstClear

\* Appending the next number keeps the order.
LEMMA AppendInOrder ==
  ASSUME NEW s \in Seq(Nat), InOrder(s)
  PROVE  /\ Append(s, Len(s)) \in Seq(Nat)
         /\ Len(Append(s, Len(s))) = Len(s) + 1
         /\ InOrder(Append(s, Len(s)))
BY DEF InOrder

LEMMA InOrderInjective ==
  ASSUME NEW s \in Seq(Nat), InOrder(s)
  PROVE  IsInjective(s)
<1>1. \A k \in DOMAIN s : k \in Int /\ s[k] = k - 1
  BY DEF InOrder
<1> QED BY <1>1 DEF IsInjective

LEMMA BitmapsInit == FsInit => BitmapsInv
BY SimpleFsAssumption DEF FsInit, BitmapsInv, InodesInOrder, BlocksInOrder, InOrder

LEMMA OpenStep ==
  ASSUME BitmapsInv, fopen
  PROVE  BitmapsInv'
<1>1. Len(opens) \in Nat /\ Len(opens) < Inodes
  BY SimpleFsAssumption DEF BitmapsInv, InodesInOrder, fopen
<1>2. FirstClear(inode_bitmap, Inodes) = Len(opens)
  BY <1>1, FirstClearOfInterval, SimpleFsAssumption DEF BitmapsInv, InodesInOrder
<1>3. opens' = Append(opens, Len(opens)) /\ inode_bitmap' = inode_bitmap \cup {Len(opens)}
  BY <1>2 DEF fopen
<1>4. inode_bitmap' = 0 .. Len(opens')  - 1
  BY <1>1, <1>3, AppendInOrder DEF BitmapsInv, InodesInOrder
<1>5. InodesInOrder'
  <2>1. opens' \in Seq(Nat) /\ InOrder(opens') /\ Len(opens') = Len(opens) + 1
    BY <1>3, AppendInOrder DEF BitmapsInv, InodesInOrder
  <2> QED BY <1>1, <1>4, <2>1, SimpleFsAssumption DEF InodesInOrder, InOrder
<1>6. BlocksInOrder'
  BY DEF BitmapsInv, BlocksInOrder, fopen
<1> QED BY <1>5, <1>6 DEF BitmapsInv

LEMMA MallocStep ==
  ASSUME BitmapsInv, NEW n, NEW index, f_malloc(n, index)
  PROVE  BitmapsInv'
<1>0. InodesInOrder'
  BY DEF BitmapsInv, InodesInOrder, f_malloc, InOrder
<1>1. Len(stored) \in Nat /\ Len(stored) < IntBits /\ Len(stored) < DataBlocks
  <2>1. Len(stored) # IntBits
    BY SimpleFsAssumption DEF BitmapsInv, BlocksInOrder, f_malloc
  <2> QED BY <2>1, SimpleFsAssumption DEF BitmapsInv, BlocksInOrder
<1>2. dnode_bitmap = 0 .. Len(stored) - 1
  BY <1>1 DEF BitmapsInv, BlocksInOrder
<1>3. FirstClear(dnode_bitmap, DataBlocks) = Len(stored)
  BY <1>1, <1>2, FirstClearOfInterval, SimpleFsAssumption
<1>4. stored' = Append(stored, Len(stored)) /\ dnode_bitmap' = Mark(dnode_bitmap, Len(stored))
  BY <1>3 DEF f_malloc
<1>5. stored' \in Seq(Nat) /\ InOrder(stored') /\ Len(stored') = Len(stored) + 1
  BY <1>4, AppendInOrder DEF BitmapsInv, BlocksInOrder
<1>6. CASE Len(stored) = IntBits - 1
  <2>1. dnode_bitmap' = 0 .. BitmapBits - 1
    BY <1>2, <1>4, <1>6, SimpleFsAssumption DEF Mark
  <2> QED BY <1>0, <1>1, <1>5, <1>6, <2>1, SimpleFsAssumption DEF BitmapsInv, BlocksInOrder, InOrder
<1>7. CASE Len(stored) # IntBits - 1
  <2>1. dnode_bitmap' = 0 .. Len(stored') - 1
    BY <1>1, <1>2, <1>4, <1>5, <1>7 DEF Mark
  <2> QED BY <1>0, <1>1, <1>5, <1>7, <2>1, SimpleFsAssumption DEF BitmapsInv, BlocksInOrder, InOrder
<1> QED BY <1>6, <1>7

LEMMA BitmapsNext ==
  ASSUME BitmapsInv, [FsNext]_fsVars
  PROVE  BitmapsInv'
<1>1. CASE fopen
  BY <1>1, OpenStep
<1>2. ASSUME NEW n \in Opened, NEW index \in 0 .. InodeWords - 1, f_malloc(n, index)
      PROVE  BitmapsInv'
  BY <1>2, MallocStep
<1>3. CASE UNCHANGED <<inode_bitmap, dnode_bitmap, opens, stored>>
  BY <1>3 DEF BitmapsInv, InodesInOrder, BlocksInOrder
<1> QED BY <1>1, <1>2, <1>3 DEF FsNext, fsVars, initRamFS, f_write

\* fopen never gives an inode twice, nor f_malloc a bit, and both bitmaps tell what
\* was given (simplefs.c:24 and 56).
THEOREM NothingTwice == FsSpec => []GivenOnce
<1>1. BitmapsInv => GivenOnce
  <2> SUFFICES ASSUME BitmapsInv PROVE GivenOnce
    OBVIOUS
  <2>1. IsInjective(opens) /\ IsInjective(stored)
    BY InOrderInjective DEF BitmapsInv, InodesInOrder, BlocksInOrder
  <2>2. inode_bitmap = Opened
    <3>1. \A x \in 0 .. Len(opens) - 1 : x + 1 \in DOMAIN opens /\ opens[x + 1] = x
      BY DEF BitmapsInv, InodesInOrder, InOrder
    <3>2. \A k \in DOMAIN opens : opens[k] \in 0 .. Len(opens) - 1
      BY DEF BitmapsInv, InodesInOrder, InOrder
    <3> QED BY <3>1, <3>2 DEF BitmapsInv, InodesInOrder, Opened
  <2>3. DataBlocks - 1 \in dnode_bitmap <=> Len(stored) = IntBits
    BY SimpleFsAssumption DEF BitmapsInv, BlocksInOrder
  <2> QED BY <2>1, <2>2, <2>3 DEF GivenOnce
<1> QED BY <1>1, BitmapsInit, BitmapsNext, PTL DEF FsSpec

------------------------------------------------------------------------------
\* The contents of the inodes.
LEMMA Sizes ==
  /\ InodeWords \in Nat \ {0} /\ Inodes \in Nat \ {0}
  /\ Before \in Nat /\ Before < InodeWords
BY SimpleFsAssumption DEF InodeWords

\* Inode a ends before inode b begins.
LEMMA InodeEnds ==
  ASSUME NEW a \in Nat, NEW b \in Nat, a < b, NEW w \in Nat
  PROVE  a * w \in Nat /\ b * w \in Nat /\ a * w + w <= b * w
<1> DEFINE d == b - a - 1
<1>1. d \in Nat /\ b = a + 1 + d
  OBVIOUS
<1>2. b * w = a * w + w + d * w
  BY <1>1
<1>3. a * w \in Nat /\ d * w \in Nat /\ b * w \in Nat
  BY <1>1
<1> QED BY <1>2, <1>3

\* As many words as an inode has, from its block on, lie in the table.
LEMMA InTable ==
  ASSUME NEW n \in 0 .. Inodes - 1, NEW x \in 0 .. InodeWords - 1
  PROVE  BlockAt(n) \in Int /\ BlockAt(n) + x \in TableWords /\ 0 <= n * InodeWords
<1> DEFINE end == (Inodes + 1) * InodeWords
<1>1. n * InodeWords \in Nat /\ n * InodeWords + InodeWords <= Inodes * InodeWords
  BY Sizes, InodeEnds
<1>2. end = Inodes * InodeWords + InodeWords /\ Inodes * InodeWords \in Nat
  BY Sizes
<1>3. TableWords = 0 .. end - 1
  BY DEF TableWords
<1> HIDE DEF end
<1> QED BY <1>1, <1>2, <1>3, Sizes DEF BlockAt

\* Those of two inodes are apart.
LEMMA Apart ==
  ASSUME NEW m \in 0 .. Inodes - 1, NEW n \in 0 .. Inodes - 1, m # n,
         NEW x \in 0 .. InodeWords - 1, NEW j \in 0 .. InodeWords - 1
  PROVE  BlockAt(m) + x # BlockAt(n) + j
<1>1. m * InodeWords \in Nat /\ n * InodeWords \in Nat
  BY Sizes
<1>2. CASE m < n
  <2>1. m * InodeWords + InodeWords <= n * InodeWords
    BY <1>2, Sizes, InodeEnds
  <2> QED BY <1>1, <2>1, Sizes DEF BlockAt
<1>3. CASE n < m
  <2>1. n * InodeWords + InodeWords <= m * InodeWords
    BY <1>3, Sizes, InodeEnds
  <2> QED BY <1>1, <2>1, Sizes DEF BlockAt
<1> QED BY <1>2, <1>3

LEMMA OpenedInTable == BitmapsInv => Opened \subseteq 0 .. Inodes - 1
<1> SUFFICES ASSUME BitmapsInv, NEW k \in DOMAIN opens
             PROVE  opens[k] \in 0 .. Inodes - 1
  BY DEF Opened
<1>1. k \in 1 .. Len(opens) /\ Len(opens) \in Nat /\ Len(opens) <= Inodes /\ opens[k] = k - 1
  BY DEF BitmapsInv, InodesInOrder, InOrder
<1> QED BY <1>1, Sizes

\* What is written fits in an inode's words.
LEMMA WrittenFits ==
  ASSUME ContentsInv, NEW n \in 0 .. Inodes - 1
  PROVE  /\ written[n] \in Seq(Nat) /\ Len(written[n]) \in Nat
         /\ \A k \in 1 .. Len(written[n]) : k - 1 \in 0 .. InodeWords - 1
<1>1. written[n] \in Seq(Nat) /\ Len(written[n]) <= InodeWords
  <2>1. written[n] \in Data \cup {<< >>}
    BY DEF ContentsInv
  <2>2. CASE written[n] = << >>
    BY <2>2, Sizes
  <2>3. CASE written[n] \in Data
    BY <2>3, SimpleFsAssumption
  <2> QED BY <2>1, <2>2, <2>3
<1> QED BY <1>1, Sizes

LEMMA ContentsInit == FsInit => ContentsInv
<1> SUFFICES ASSUME FsInit PROVE ContentsInv
  OBVIOUS
<1>1. words \in [TableWords -> Nat] /\ heapUsed \in Nat
  BY DEF FsInit, TableWords, NoPointer
<1>2. written = [n \in 0 .. Inodes - 1 |-> << >>]
  BY DEF FsInit
<1>3. \A n \in 0 .. Inodes - 1 : Holds(n)
  BY <1>2 DEF Holds
<1> QED BY <1>1, <1>2, <1>3 DEF ContentsInv

\* A step that replaces words of one inode only, and what was written there, leaves
\* what the others hold.
LEMMA OthersHold ==
  ASSUME ContentsInv, NEW n \in 0 .. Inodes - 1, NEW m \in 0 .. Inodes - 1, m # n,
         \A w \in TableWords :
           (\A x \in 0 .. InodeWords - 1 : w # BlockAt(n) + x) => words'[w] = words[w],
         written'[m] = written[m]
  PROVE  Holds(m)'
<1> SUFFICES ASSUME NEW k \in 1 .. Len(written[m])
             PROVE  words'[BlockAt(m) + k - 1] = written[m][k]
  BY DEF Holds, BlockAt
<1>1. k - 1 \in 0 .. InodeWords - 1 /\ k \in Int /\ BlockAt(m) \in Int
  BY WrittenFits, InTable, Sizes
<1>2. BlockAt(m) + k - 1 = BlockAt(m) + (k - 1)
  BY <1>1
<1>3. BlockAt(m) + (k - 1) \in TableWords
  BY <1>1, InTable
<1>4. \A x \in 0 .. InodeWords - 1 : BlockAt(m) + (k - 1) # BlockAt(n) + x
  BY <1>1, Apart
<1>5. words'[BlockAt(m) + k - 1] = words[BlockAt(m) + k - 1]
  BY <1>2, <1>3, <1>4
<1>6. words[BlockAt(m) + k - 1] = written[m][k]
  BY DEF ContentsInv, Holds
<1> QED BY <1>5, <1>6

LEMMA WriteStep ==
  ASSUME ContentsInv, NEW n \in 0 .. Inodes - 1, NEW data \in Data, f_write(n, data)
  PROVE  ContentsInv'
<1>1. data \in Seq(Nat) /\ DOMAIN data = 1 .. Len(data) /\ Len(data) \in Nat /\ Len(data) <= InodeWords
  BY SimpleFsAssumption
<1>2. DOMAIN words = TableWords /\ TableWords \subseteq Int /\ BlockAt(n) \in Int
  BY InTable, Sizes DEF ContentsInv, TableWords
<1>3. \A w \in TableWords :
        words'[w] = IF w - BlockAt(n) + 1 \in DOMAIN data THEN data[w - BlockAt(n) + 1] ELSE words[w]
  BY <1>2 DEF f_write, Copied
<1>4. words' \in [TableWords -> Nat]
  <2>1. \A w \in TableWords : words'[w] \in Nat
    BY <1>1, <1>3 DEF ContentsInv
  <2> QED BY <1>2, <2>1 DEF f_write, Copied
<1>5. written' \in [0 .. Inodes - 1 -> Data \cup {<< >>}]
  BY DEF ContentsInv, f_write
<1>6. ASSUME NEW m \in 0 .. Inodes - 1, m # n
      PROVE  Holds(m)'
  <2>1. \A w \in TableWords :
          (\A x \in 0 .. InodeWords - 1 : w # BlockAt(n) + x) => words'[w] = words[w]
    <3> SUFFICES ASSUME NEW w \in TableWords,
                        \A x \in 0 .. InodeWords - 1 : w # BlockAt(n) + x,
                        w - BlockAt(n) + 1 \in DOMAIN data
                 PROVE  FALSE
      BY <1>3
    <3>1. w - BlockAt(n) \in 0 .. InodeWords - 1
      BY <1>1, <1>2, Sizes
    <3>2. w = BlockAt(n) + (w - BlockAt(n))
      BY <1>2
    <3> QED BY <3>1, <3>2
  <2>2. written'[m] = written[m]
    BY <1>6 DEF ContentsInv, f_write
  <2> QED BY <1>6, <2>1, <2>2, OthersHold
<1>7. Holds(n)'
  <2>1. written'[n] = data
    BY DEF ContentsInv, f_write
  <2> SUFFICES ASSUME NEW k \in 1 .. Len(data)
               PROVE  words'[BlockAt(n) + k - 1] = data[k]
    BY <2>1 DEF Holds, BlockAt
  <2>2. k - 1 \in 0 .. InodeWords - 1 /\ BlockAt(n) + k - 1 = BlockAt(n) + (k - 1)
    BY <1>1, <1>2, Sizes
  <2>3. BlockAt(n) + k - 1 \in TableWords
    BY <2>2, InTable
  <2> DEFINE w == BlockAt(n) + k - 1
  <2>4. w - BlockAt(n) + 1 = k
    BY <1>1, <1>2
  <2>5. w \in TableWords
    BY <2>3
  <2> HIDE DEF w
  <2>6. words'[w] = data[k]
    BY <1>1, <1>3, <2>4, <2>5
  <2> QED BY <2>6 DEF w
<1>8. heapUsed' \in Nat
  BY DEF ContentsInv, f_write
<1>9. \A m \in 0 .. Inodes - 1 : Holds(m)'
  BY <1>6, <1>7
<1> QED BY <1>4, <1>5, <1>8, <1>9 DEF ContentsInv

LEMMA PointerStep ==
  ASSUME ContentsInv, NEW n \in 0 .. Inodes - 1, NEW index \in 0 .. InodeWords - 1,
         f_malloc(n, index)
  PROVE  ContentsInv'
<1>1. PICK base \in Nat : words' = [words EXCEPT ![BlockAt(n) + index] = base]
  <2> DEFINE granted == IF heapUsed < Heap THEN Block(heapUsed) ELSE NoPointer
  <2>1. granted \in Nat
    BY DEF Block, NoPointer, ContentsInv
  <2>2. words' = [words EXCEPT ![BlockAt(n) + index] = granted]
    BY DEF f_malloc
  <2> QED BY <2>1, <2>2
<1>2. words' \in [TableWords -> Nat]
  BY <1>1 DEF ContentsInv
<1>3. heapUsed' \in Nat
  BY DEF f_malloc, ContentsInv
<1>4. written' = [written EXCEPT ![n] = << >>]
  BY DEF f_malloc
<1>5. written' \in [0 .. Inodes - 1 -> Data \cup {<< >>}]
  BY <1>4 DEF ContentsInv
<1>6. ASSUME NEW m \in 0 .. Inodes - 1
      PROVE  Holds(m)'
  <2>1. CASE m = n
    BY <1>4, <2>1 DEF ContentsInv, Holds
  <2>2. CASE m # n
    <3>1. \A w \in TableWords :
            (\A x \in 0 .. InodeWords - 1 : w # BlockAt(n) + x) => words'[w] = words[w]
      BY <1>1 DEF ContentsInv
    <3>2. written'[m] = written[m]
      BY <1>4, <2>2 DEF ContentsInv
    <3> QED BY <2>2, <3>1, <3>2, OthersHold
  <2> QED BY <2>1, <2>2
<1> QED BY <1>2, <1>3, <1>5, <1>6 DEF ContentsInv

LEMMA ClearStep ==
  ASSUME ContentsInv, initRamFS
  PROVE  ContentsInv'
<1>1. words' = [w \in TableWords |-> IF w \in WordsOf(0) THEN NoPointer ELSE words[w]]
  BY DEF initRamFS, ContentsInv
<1>2. words' \in [TableWords -> Nat] /\ heapUsed' \in Nat
  BY <1>1 DEF ContentsInv, NoPointer, initRamFS
<1>3. written' = [written EXCEPT ![0] = << >>]
  BY DEF initRamFS
<1>4. written' \in [0 .. Inodes - 1 -> Data \cup {<< >>}]
  BY <1>3 DEF ContentsInv
<1>5. ASSUME NEW m \in 0 .. Inodes - 1
      PROVE  Holds(m)'
  <2>1. CASE m = 0
    BY <1>3, <2>1 DEF ContentsInv, Holds
  <2>2. CASE m # 0
    <3> SUFFICES ASSUME NEW k \in 1 .. Len(written[m])
                 PROVE  words'[BlockAt(m) + k - 1] = written[m][k]
      BY <1>3, <2>2 DEF Holds, BlockAt, ContentsInv
    <3>1. k - 1 \in 0 .. InodeWords - 1 /\ BlockAt(m) \in Int
      BY WrittenFits, InTable, Sizes
    <3>2. BlockAt(m) + k - 1 = BlockAt(m) + (k - 1) /\ BlockAt(m) + k - 1 \in TableWords
      BY <3>1, InTable
    <3>3. 0 * InodeWords + InodeWords <= m * InodeWords /\ m * InodeWords \in Nat
      BY <2>2, Sizes, InodeEnds
    <3>4. BlockAt(m) + k - 1 >= InodeWords
      BY <3>1, <3>3, Sizes DEF BlockAt
    <3>5. BlockAt(m) + k - 1 \notin WordsOf(0)
      BY <3>4, Sizes DEF WordsOf
    <3>6. words'[BlockAt(m) + k - 1] = words[BlockAt(m) + k - 1]
      BY <1>1, <3>2, <3>5
    <3> QED BY <3>6 DEF ContentsInv, Holds
  <2> QED BY <2>1, <2>2
<1> QED BY <1>2, <1>4, <1>5 DEF ContentsInv

LEMMA ContentsNext ==
  ASSUME BitmapsInv, ContentsInv, [FsNext]_fsVars
  PROVE  ContentsInv'
<1>1. CASE initRamFS
  BY <1>1, ClearStep
<1>2. ASSUME NEW n \in Opened, NEW data \in Data, f_write(n, data)
      PROVE  ContentsInv'
  BY <1>2, WriteStep, OpenedInTable
<1>3. ASSUME NEW n \in Opened, NEW index \in 0 .. InodeWords - 1, f_malloc(n, index)
      PROVE  ContentsInv'
  BY <1>3, PointerStep, OpenedInTable
<1>4. CASE UNCHANGED <<words, written, heapUsed>>
  BY <1>4 DEF ContentsInv, Holds, BlockAt
<1> QED BY <1>1, <1>2, <1>3, <1>4 DEF FsNext, fsVars, fopen

\* A set of numbers up to a bound that is not empty has a greatest one.
LEMMA Greatest ==
  ASSUME NEW b \in Nat, NEW S \in SUBSET (0 .. b), S # {}
  PROVE  \E n \in S : \A m \in S : m <= n
<1> DEFINE below == {b - x : x \in S}
<1>1. below \in SUBSET Nat /\ below # {}
  <2>1. \A x \in S : b - x \in Nat
    OBVIOUS
  <2>2. PICK x \in S : TRUE
    OBVIOUS
  <2>3. b - x \in below
    OBVIOUS
  <2> QED BY <2>1, <2>3
<1>2. PICK l \in below : \A m \in below : l <= m
  BY <1>1, Least
<1>3. PICK n \in S : l = b - n
  BY <1>2
<1>4. \A m \in S : b - n <= b - m
  BY <1>2, <1>3
<1>5. \A m \in S : m \in Int /\ n \in Int
  OBVIOUS
<1> QED BY <1>4, <1>5

\* f_read returns what was last written to the inode, from the last of the words it
\* looks at on that is not 0 (simplefs.c:33 and 39-46).
THEOREM ReadsWhatWasWritten == FsSpec => []ReadBack
<1>1. BitmapsInv /\ ContentsInv => ReadBack
  <2> SUFFICES ASSUME BitmapsInv, ContentsInv, NEW n \in Opened, NEW blocks \in 1 .. Len(written[n])
               PROVE  ReadsNothing(n, blocks) \/ \E w \in 1 .. blocks : ReadsFrom(n, blocks, w)
    BY DEF ReadBack
  <2>1. n \in 0 .. Inodes - 1 /\ written[n] \in Seq(Nat) /\ BlockAt(n) \in Int
    BY OpenedInTable, WrittenFits, InTable, Sizes
  <2>2. Len(written[n]) \in Nat /\ blocks \in Nat /\ blocks >= 1 /\ blocks <= Len(written[n])
    BY <2>1
  <2>3. \A k \in 1 .. Len(written[n]) : words[BlockAt(n) + k - 1] = written[n][k]
    BY <2>1 DEF ContentsInv, Holds
  <2>4. \A x \in 0 .. blocks - 1 : words[BlockAt(n) + x] = written[n][x + 1]
    <3> SUFFICES ASSUME NEW x \in 0 .. blocks - 1 PROVE words[BlockAt(n) + x] = written[n][x + 1]
      OBVIOUS
    <3>1. x + 1 \in 1 .. Len(written[n]) /\ BlockAt(n) + (x + 1) - 1 = BlockAt(n) + x
      BY <2>1, <2>2
    <3> QED BY <2>3, <3>1
  <2> DEFINE used == {x \in 0 .. blocks - 1 : words[BlockAt(n) + x] # NoPointer}
             last == CHOOSE x \in used : \A j \in used : j <= x
  <2>5. CASE used = {}
    <3>1. f_read(n, blocks, Len(written[n])) = << >>
      BY <2>5 DEF f_read
    <3>2. ASSUME NEW w \in 1 .. blocks PROVE written[n][w] = NoPointer
      <4>1. w - 1 \in 0 .. blocks - 1 /\ (w - 1) + 1 = w
        BY <2>2
      <4>2. words[BlockAt(n) + (w - 1)] = NoPointer
        BY <2>5, <4>1
      <4> QED BY <2>4, <4>1, <4>2
    <3> QED BY <3>1, <3>2 DEF ReadsNothing
  <2>6. CASE used # {}
    <3>1. blocks - 1 \in Nat /\ used \in SUBSET (0 .. blocks - 1)
      BY <2>2
    <3>2. \E x \in used : \A j \in used : j <= x
      BY <2>6, <3>1, Greatest
    <3>3. last \in used /\ \A j \in used : j <= last
      BY <3>2
    <3> DEFINE rest == Len(written[n]) - (last + 1) + 1
    <3>4. f_read(n, blocks, rest) = [k \in 1 .. rest |-> words[BlockAt(n) + last + k - 1]]
      BY <2>6 DEF f_read
    <3>5. last \in 0 .. blocks - 1 /\ words[BlockAt(n) + last] # NoPointer
      BY <3>3
    <3>6. ASSUME NEW j \in (last + 1) + 1 .. blocks PROVE written[n][j] = NoPointer
      <4>1. j - 1 \in 0 .. blocks - 1 /\ (j - 1) + 1 = j /\ ~(j - 1 <= last)
        BY <2>2, <3>5
      <4>2. j - 1 \notin used
        BY <3>3, <4>1
      <4>3. words[BlockAt(n) + (j - 1)] = NoPointer
        BY <4>1, <4>2
      <4> QED BY <2>4, <4>1, <4>3
    <3> HIDE DEF last, used
    <3>7. ASSUME NEW k \in 1 .. rest
          PROVE  words[BlockAt(n) + last + k - 1] = written[n][(last + 1) + k - 1]
      <4>1. last + k \in 1 .. Len(written[n]) /\ (last + 1) + k - 1 = last + k
            /\ BlockAt(n) + last + k - 1 = BlockAt(n) + (last + k) - 1
        BY <2>1, <2>2, <3>5
      <4> QED BY <2>3, <4>1
    <3>8. f_read(n, blocks, rest) = [k \in 1 .. rest |-> written[n][(last + 1) + k - 1]]
      BY <3>4, <3>7
    <3>9. written[n][last + 1] # NoPointer /\ last + 1 \in 1 .. blocks
      BY <2>2, <2>4, <3>5
    <3>10. ReadsFrom(n, blocks, last + 1)
      BY <3>6, <3>8, <3>9 DEF ReadsFrom
    <3> QED BY <3>9, <3>10
  <2> QED BY <2>5, <2>6
<1>2. FsSpec => [](BitmapsInv /\ ContentsInv)
  BY BitmapsInit, BitmapsNext, ContentsInit, ContentsNext, PTL DEF FsSpec
<1> QED BY <1>1, <1>2, PTL

------------------------------------------------------------------------------
\* The ACPI tables.

\* The records of type t that parseMADT has read.
Past(t) == {k \in OfType(t) : Start(k) < length}

AcpiInv ==
  /\ AcpiTypeOK
  /\ records \in Seq(Record) /\ rsdt \in Seq(Signatures) /\ FillTable(records)
  /\ found = [t \in Types |-> Cardinality(Past(t))]
  /\ acpiStage \in {"_start", "findFADT", "initMADT"} =>
       length = 0 /\ array = [t \in Types |-> [e \in 1 .. Entries |-> NULL]]
  /\ acpiStage \in {"_start", "findFADT"} => records = << >> /\ rsdt = << >> /\ madt = NULL
  /\ acpiStage \notin {"_start", "findFADT", "initMADT"} =>
       length \in {Start(k) : k \in DOMAIN records} \cup {Total}
  /\ Collected

LEMMA RecordTypes ==
  ASSUME records \in Seq(Record), NEW k \in DOMAIN records
  PROVE  /\ k \in Nat \ {0} /\ Start(k) \in Nat /\ End(k) \in Nat /\ Start(k) < End(k)
         /\ records[k] \in Record
<1>1. records[k] \in Record /\ k \in Nat \ {0}
  OBVIOUS
<1>2. /\ records[k].offset \in Nat /\ records[k].record_length \in Nat
      /\ records[k].record_length # 0
  BY <1>1 DEF Record
<1> QED BY <1>1, <1>2 DEF Start, End

\* A record ends where the next starts, and so before every later one.
LEMMA OffsetsGrow ==
  ASSUME records \in Seq(Record), FillTable(records)
  PROVE  \A k \in DOMAIN records : \A j \in 1 .. k - 1 : End(j) <= Start(k)
<1> DEFINE Bad == {k \in DOMAIN records : \E j \in 1 .. k - 1 : ~(End(j) <= Start(k))}
<1>1. SUFFICES ASSUME Bad # {} PROVE FALSE
  OBVIOUS
<1>2. Bad \in SUBSET Nat
  OBVIOUS
<1>3. PICK n \in Bad : \A m \in Bad : n <= m
  <2> HIDE DEF Bad
  <2> QED BY <1>1, <1>2, Least
<1>4. PICK j \in 1 .. n - 1 : ~(End(j) <= Start(n))
  BY <1>3
<1>5. n \in DOMAIN records /\ n - 1 \in DOMAIN records /\ j \in DOMAIN records /\ n # 1
  BY <1>3, <1>4
<1>6. Start(n) = End(n - 1)
  BY <1>5 DEF FillTable, Start, End
<1>7. j # n - 1
  BY <1>4, <1>5, <1>6, RecordTypes
<1>8. n - 1 \notin Bad
  BY <1>3, <1>5
<1>9. End(j) <= Start(n - 1)
  BY <1>4, <1>5, <1>7, <1>8
<1> QED BY <1>4, <1>5, <1>6, <1>9, RecordTypes

\* The records are in the table's order, all of them between the header and its end.
LEMMA RecordsInTable ==
  ASSUME records \in Seq(Record), FillTable(records)
  PROVE  /\ Total \in Nat /\ Total >= Header
         /\ \A k \in DOMAIN records : Header <= Start(k) /\ End(k) <= Total
         /\ \A j, k \in DOMAIN records :
              (Start(j) < End(k) <=> j <= k) /\ (Start(j) < Start(k) <=> j < k)
<1>1. \A j, k \in DOMAIN records : j < k => End(j) <= Start(k)
  BY OffsetsGrow
<1>2. \A j, k \in DOMAIN records :
        (Start(j) < End(k) <=> j <= k) /\ (Start(j) < Start(k) <=> j < k)
  BY <1>1, RecordTypes
<1>3. CASE records = << >>
  BY <1>2, <1>3, AcpiAssumption DEF Total
<1>4. CASE records # << >>
  <2>1. 1 \in DOMAIN records /\ Len(records) \in DOMAIN records
    BY <1>4
  <2>2. Start(1) = Header
    BY <2>1 DEF Start, FillTable
  <2>3. \A k \in DOMAIN records : k = 1 \/ 1 < k
    BY RecordTypes
  <2>4. \A k \in DOMAIN records : k = Len(records) \/ k < Len(records)
    OBVIOUS
  <2>5. Total = End(Len(records))
    BY <1>4 DEF Total
  <2> QED BY <1>1, <1>2, <2>1, <2>2, <2>3, <2>4, <2>5, RecordTypes, AcpiAssumption
<1> QED BY <1>3, <1>4

LEMMA OfTypeFinite ==
  ASSUME records \in Seq(Record), NEW t
  PROVE  /\ IsFiniteSet(OfType(t)) /\ OfType(t) \subseteq DOMAIN records
         /\ Cardinality(OfType(t)) <= Len(records)
<1>1. IsFiniteSet(1 .. Len(records)) /\ Cardinality(1 .. Len(records)) = Len(records)
  <2>1. Len(records) \in Nat
    OBVIOUS
  <2> HIDE DEF OfType
  <2> QED BY <2>1, FS_Interval
<1>2. OfType(t) \subseteq 1 .. Len(records)
  BY DEF OfType
<1> QED BY <1>1, <1>2, FS_Subset

------------------------------------------------------------------------------
LEMMA AcpiStarts == AcpiInit => AcpiInv
<1> SUFFICES ASSUME AcpiInit PROVE AcpiInv
  OBVIOUS
<1> USE DEF AcpiInit
<1>1. \A t : OfType(t) = {} /\ Past(t) = {}
  BY DEF OfType, Past
<1>2. Total = Header /\ Header \in Nat /\ Entries \in Nat
  BY AcpiAssumption DEF Total
<1>3. AcpiTypeOK
  <2>1. Len(records) = 0 /\ 0 \in 0 .. Len(records) /\ 0 \in 0 .. Total /\ Len(rsdt) = 0
    BY <1>2
  <2>2. /\ found \in [Types -> 0 .. Len(records)]
        /\ array \in [Types -> [1 .. Entries -> 0 .. Total]]
    BY <2>1 DEF NULL
  <2> QED BY <2>1, <2>2 DEF AcpiTypeOK, NULL
<1>4. FillTable(records)
  BY DEF FillTable
<1>5. found = [t \in Types |-> Cardinality(Past(t))]
  BY <1>1, FS_EmptySet
<1>6. Collected
  BY <1>1 DEF Collected, Passed
<1> QED BY <1>3, <1>4, <1>5, <1>6 DEF AcpiInv

LEMMA AcpiReads == AcpiInv /\ (readRSDP \/ findFADT) => AcpiInv'
<1>1. ASSUME AcpiInv, readRSDP PROVE AcpiInv'
  <2> USE <1>1 DEF readRSDP
  <2>1. AcpiTypeOK'
    BY DEF AcpiInv, AcpiTypeOK, Kind, Total, End, Start
  <2>2. Collected' /\ \A t : Past(t)' = Past(t)
    BY DEF AcpiInv, Collected, Passed, UpTo, TablesFit, OfType, Start, Past
  <2> QED BY <2>1, <2>2 DEF AcpiInv, FillTable
<1>2. ASSUME AcpiInv, findFADT PROVE AcpiInv'
  <2> USE <1>2 DEF findFADT
  <2>1. /\ records' \in Seq(Record) /\ FillTable(records)' /\ rsdt' \in Seq(Signatures)
        /\ length' = 0 /\ madt' = NULL /\ found = [t \in Types |-> 0]
    <3>1. \A t : Past(t) = {}
      BY DEF AcpiInv, Past, OfType
    <3> QED BY <3>1, AcpiAssumption, FS_EmptySet DEF AcpiInv, FillTable
  <2>7. \A k \in DOMAIN records' : Start(k)' \in Nat /\ End(k)' \in Nat
    <3> SUFFICES ASSUME NEW k \in DOMAIN records' PROVE Start(k)' \in Nat /\ End(k)' \in Nat
      OBVIOUS
    <3>1. records'[k] \in Record
      BY <2>1
    <3>2. records'[k].offset \in Nat /\ records'[k].record_length \in Nat
      BY <3>1 DEF Record
    <3> QED BY <3>2 DEF Start, End
  <2>2. \A t : Past(t)' = {}
    BY <2>1, <2>7 DEF Past, OfType
  <2>3. Total' \in Nat /\ Len(records') \in Nat /\ Len(rsdt') \in Nat
    <3>1. records' # << >> => Len(records') \in DOMAIN records'
      BY <2>1
    <3> QED BY <2>1, <2>7, <3>1, AcpiAssumption DEF Total
  <2>4. AcpiTypeOK'
    <3>1. 0 \in 0 .. Total' /\ 0 \in 0 .. Len(records') /\ 0 \in 0 .. Len(rsdt')
      BY <2>3
    <3> QED BY <2>1, <3>1 DEF AcpiInv, AcpiTypeOK, NULL
  <2>5. Collected'
    <3>1. \A k \in DOMAIN records' : ~(Start(k)' < length')
      BY <2>1, <2>7
    <3>2. \A t \in Types, e \in 1 .. Entries : array'[t][e] = NULL
      BY DEF AcpiInv
    <3>3. \A t \in Types : \A k \in OfType(t)' : k \in DOMAIN records'
      BY DEF OfType
    <3> QED BY <3>1, <3>2, <3>3 DEF Collected, Passed
  <2>6. found' = [t \in Types |-> Cardinality(Past(t)')]
    BY <2>1, <2>2, FS_EmptySet
  <2> QED BY <2>1, <2>4, <2>5, <2>6 DEF AcpiInv
<1> QED BY <1>1, <1>2

LEMMA AcpiInitMADT == AcpiInv /\ initMADT => AcpiInv'
<1> SUFFICES ASSUME AcpiInv, initMADT PROVE AcpiInv'
  OBVIOUS
<1> USE DEF initMADT, firmwareVars
<1>1. madt' \in 0 .. Len(rsdt')
  <2> DEFINE Named == {x \in DOMAIN rsdt : rsdt[x] = "APIC"}
  <2>1. CASE Named = {}
    BY <2>1 DEF findHeader, NULL, AcpiInv
  <2>2. CASE Named # {}
    <3>1. PICK n \in Named : \A m \in Named : n <= m
      <4>1. Named \in SUBSET Nat
        BY DEF AcpiInv
      <4> HIDE DEF Named
      <4> QED BY <2>2, <4>1, Least
    <3>2. n \in DOMAIN rsdt /\ rsdt[n] = "APIC" /\ \A j \in 1 .. n - 1 : rsdt[j] # "APIC"
      BY <3>1 DEF AcpiInv
    <3>3. findHeader("APIC") \in DOMAIN rsdt
      BY <3>2 DEF findHeader
    <3> QED BY <3>3 DEF AcpiInv
  <2> QED BY <2>1, <2>2
<1>2. records' \in Seq(Record) /\ FillTable(records)' /\ Total' = Total
  BY DEF AcpiInv, FillTable, Total, End, Start
<1>3. \A k \in DOMAIN records : ~(Start(k) < Header) /\ ~(Start(k) < length)
  BY RecordsInTable, RecordTypes, AcpiAssumption DEF AcpiInv
<1>4. Total \in Nat /\ Header <= Total /\ Header \in Nat
  BY RecordsInTable, AcpiAssumption DEF AcpiInv
<1>5. \A t : Past(t)' = Past(t)
  BY <1>3 DEF Past, OfType, Start
<1>6. Collected'
  BY <1>3 DEF AcpiInv, Collected, Passed, UpTo, TablesFit, OfType, Start
<1>7. length' \in {Start(k)' : k \in DOMAIN records'} \cup {Total'}
  <2>1. CASE records = << >>
    BY <2>1, <1>2 DEF Total
  <2>2. CASE records # << >>
    <3>1. 1 \in DOMAIN records
      BY <2>2 DEF AcpiInv
    <3>2. Start(1)' = Header
      BY <3>1 DEF Start, FillTable, AcpiInv
    <3> QED BY <3>1, <3>2
  <2> QED BY <2>1, <2>2
<1>8. AcpiTypeOK'
  BY <1>1, <1>2, <1>4 DEF AcpiInv, AcpiTypeOK
<1> QED BY <1>2, <1>5, <1>6, <1>7, <1>8 DEF AcpiInv

LEMMA AcpiLists == AcpiInv /\ (parsed \/ list \/ UNCHANGED acpiVars) => AcpiInv'
<1> SUFFICES ASSUME AcpiInv, parsed \/ list \/ UNCHANGED acpiVars PROVE AcpiInv'
  OBVIOUS
<1>1. UNCHANGED <<firmwareVars, madt, length, found, array>>
  BY DEF parsed, list, acpiVars
<1>2. /\ acpiStage' \in {"_start", "findFADT", "initMADT", "parseMADT", "list", "listed", "fault"}
      /\ acpiStage' \in {"_start", "findFADT", "initMADT"} => acpiStage' = acpiStage
      /\ acpiStage' \notin {"_start", "findFADT", "initMADT"} =>
           acpiStage \notin {"_start", "findFADT", "initMADT"}
  BY DEF parsed, list, acpiVars, AcpiInv, AcpiTypeOK
<1>3. Total' = Total /\ \A t : Past(t)' = Past(t)
  BY <1>1 DEF OfType, Start, End, Total, Past, firmwareVars
<1>4. AcpiTypeOK'
  BY <1>1, <1>2, <1>3 DEF AcpiInv, AcpiTypeOK, firmwareVars
<1>5. Collected'
  <2>1. records' = records /\ length' = length /\ array' = array
    BY <1>1 DEF firmwareVars
  <2>2. Collected
    BY DEF AcpiInv
  <2>3. /\ \A t : OfType(t)' = OfType(t) /\ \A k : UpTo(t, k)' = UpTo(t, k)
        /\ \A k : Start(k)' = Start(k)
    BY <2>1 DEF OfType, Start, UpTo
  <2>4. \A t, e : Passed(t, e)' = Passed(t, e)
    BY <2>1, <2>3 DEF Passed
  <2> QED BY <2>1, <2>2, <2>3, <2>4 DEF Collected, TablesFit
<1> QED BY <1>1, <1>2, <1>3, <1>4, <1>5 DEF AcpiInv, FillTable, Start, firmwareVars

------------------------------------------------------------------------------
LEMMA AcpiParses == AcpiInv /\ parseRecord => AcpiInv'
<1> SUFFICES ASSUME AcpiInv, parseRecord PROVE AcpiInv'
  OBVIOUS
<1>1. /\ records \in Seq(Record) /\ FillTable(records) /\ rsdt \in Seq(Signatures)
      /\ acpiStage = "parseMADT" /\ acpiStage' = acpiStage
      /\ records' = records /\ rsdt' = rsdt /\ rsdp' = rsdp /\ ready' = ready /\ madt' = madt
      /\ AcpiTypeOK
  BY DEF AcpiInv, parseRecord, firmwareVars
<1>2. PICK k \in DOMAIN records, t \in Types :
        /\ Start(k) = length /\ records[k].entry_type = t
        /\ Store(t, length)
        /\ found' = [found EXCEPT ![t] = @ + 1]
        /\ length' = End(k)
  BY DEF parseRecord, End
<1>3. /\ \A j, m \in DOMAIN records :
           (Start(j) < End(m) <=> j <= m) /\ (Start(j) < Start(m) <=> j < m)
      /\ Total \in Nat /\ Header <= Start(k) /\ End(k) <= Total
      /\ Start(k) \in Nat /\ End(k) \in Nat /\ k \in Nat
  BY <1>1, RecordsInTable, RecordTypes
<1>4. /\ Total' = Total /\ \A j : Start(j)' = Start(j) /\ \A u : OfType(u)' = OfType(u)
      /\ FillTable(records)'
  BY <1>1 DEF Total, Start, End, OfType, FillTable
<1>5. k \in OfType(t) /\ \A u \in Types : k \in OfType(u) => u = t
  BY <1>2 DEF OfType
<1>6. \A u : OfType(u) \subseteq DOMAIN records
  BY DEF OfType
<1>7. \A j \in DOMAIN records : (Start(j) < length' <=> j <= k) /\ (Start(j) < length <=> j < k)
  BY <1>2, <1>3
<1>8. \A j \in DOMAIN records : Start(j) < length' <=> Start(j) < length \/ j = k
  <2>1. \A j \in DOMAIN records : j \in Nat
    BY <1>1
  <2> QED BY <1>3, <1>7, <2>1
<1>9. /\ Past(t)' = Past(t) \cup {k} /\ k \notin Past(t)
      /\ \A u \in Types \ {t} : Past(u)' = Past(u)
  <2>1. \A u : Past(u)' = {j \in OfType(u) : Start(j) < length'}
    BY <1>4 DEF Past
  <2> QED BY <1>2, <1>3, <1>5, <1>6, <1>8, <2>1 DEF Past
<1>10. UpTo(t, k) = Past(t) \cup {k} /\ \A j \in Past(t) : UpTo(t, j) \subseteq Past(t)
  <2>1. \A j \in DOMAIN records : j \in Nat
    BY <1>1
  <2> QED BY <1>3, <1>5, <1>6, <1>7, <2>1 DEF Past, UpTo
<1>11. /\ IsFiniteSet(Past(t)) /\ Cardinality(Past(t)) \in Nat
       /\ Cardinality(Past(t) \cup {k}) = Cardinality(Past(t)) + 1
       /\ Cardinality(Past(t)) + 1 <= Cardinality(OfType(t))
       /\ Cardinality(OfType(t)) <= Len(records)
       /\ \A j \in Past(t) : Cardinality(UpTo(t, j)) # Cardinality(Past(t)) + 1
  <2>1. IsFiniteSet(OfType(t)) /\ Cardinality(OfType(t)) <= Len(records)
    BY <1>1, OfTypeFinite
  <2>2. Past(t) \cup {k} \in SUBSET OfType(t) /\ Past(t) \in SUBSET OfType(t)
    BY <1>5 DEF Past
  <2>3. IsFiniteSet(Past(t)) /\ Cardinality(Past(t)) \in Nat
    BY <2>1, <2>2, FS_Subset, FS_CardinalityType
  <2>4. Cardinality(Past(t) \cup {k}) = Cardinality(Past(t)) + 1
    BY <1>9, <2>3, FS_AddElement
  <2>5. Cardinality(Past(t) \cup {k}) <= Cardinality(OfType(t))
    BY <2>1, <2>2, FS_Subset
  <2>6. ASSUME NEW j \in Past(t) PROVE Cardinality(UpTo(t, j)) # Cardinality(Past(t)) + 1
    <3>1. UpTo(t, j) \in SUBSET Past(t)
      BY <1>10, <2>6
    <3>2. Cardinality(UpTo(t, j)) <= Cardinality(Past(t)) /\ IsFiniteSet(UpTo(t, j))
      BY <2>3, <3>1, FS_Subset
    <3>3. Cardinality(UpTo(t, j)) \in Nat
      BY <3>2, FS_CardinalityType
    <3> QED BY <2>3, <3>2, <3>3
  <2> QED BY <2>1, <2>3, <2>4, <2>5, <2>6
<1>12. found = [u \in Types |-> Cardinality(Past(u))]
  BY DEF AcpiInv
<1>13. found' = [u \in Types |-> Cardinality(Past(u)')]
  <2>1. \A u \in Types : found'[u] = Cardinality(Past(u)')
    BY <1>2, <1>9, <1>11, <1>12
  <2> QED BY <1>2, <1>12, <2>1
<1>14. found' \in [Types -> 0 .. Len(records')]
  <2>1. Cardinality(Past(t)') \in 0 .. Len(records)
    <3>1. Cardinality(OfType(t)) \in Nat /\ Len(records) \in Nat
      BY <1>1, OfTypeFinite, FS_CardinalityType
    <3> QED BY <1>9, <1>11, <3>1
  <2>2. found' = [found EXCEPT ![t] = Cardinality(Past(t)')]
    BY <1>2, <1>9, <1>11, <1>12, <1>5
  <2> QED BY <1>1, <2>1, <2>2 DEF AcpiTypeOK
<1>15. length' \in {Start(j)' : j \in DOMAIN records'} \cup {Total'} /\ length' \in 0 .. Total'
  <2>1. CASE k = Len(records)
    BY <1>1, <1>2, <1>3, <1>4, <2>1 DEF Total
  <2>2. CASE k # Len(records)
    <3>1. k + 1 \in DOMAIN records
      BY <1>1, <2>2
    <3>2. Start(k + 1) = End(k)
      <4>1. k + 1 # 1 /\ (k + 1) - 1 = k
        BY <1>1, <1>3
      <4>2. records[k + 1].offset = records[k].offset + records[k].record_length
        BY <1>1, <3>1, <4>1 DEF FillTable
      <4> QED BY <4>2 DEF Start, End
    <3> QED BY <1>1, <1>2, <1>3, <1>4, <3>1, <3>2
  <2> QED BY <2>1, <2>2
<1>16. array' \in [Types -> [1 .. Entries -> 0 .. Total']]
  <2>1. length \in 0 .. Total /\ array \in [Types -> [1 .. Entries -> 0 .. Total]]
    BY <1>1 DEF AcpiTypeOK
  <2>2. CASE UNCHANGED array
    BY <1>4, <2>1, <2>2
  <2>3. ASSUME NEW u \in Types, NEW e \in 1 .. Entries, array' = [array EXCEPT ![u][e] = length]
        PROVE  array' \in [Types -> [1 .. Entries -> 0 .. Total']]
    BY <1>4, <2>1, <2>3
  <2>4. found[t] < Entries => found[t] + 1 \in 1 .. Entries
    BY <1>5, <1>11, <1>12, AcpiAssumption
  <2> QED BY <1>2, <1>5, <2>2, <2>3, <2>4 DEF Store
<1>17. AcpiTypeOK'
  <2>1. length' \in 0 .. Total'
    BY <1>15
  <2> QED BY <1>1, <1>14, <2>1, <1>16 DEF AcpiTypeOK
<1>18. Collected'
  <2>1. SUFFICES ASSUME TablesFit, NEW u \in Types, NEW e \in 1 .. Entries
                 PROVE  array'[u][e] \in IF Passed(u, e)' = {} THEN {NULL}
                                         ELSE {Start(j)' : j \in Passed(u, e)'}
    BY <1>4 DEF Collected, TablesFit
  <2>2. array[u][e] \in IF Passed(u, e) = {} THEN {NULL} ELSE {Start(j) : j \in Passed(u, e)}
    BY <2>1 DEF AcpiInv, Collected
  <2>3. Passed(u, e)' = {j \in OfType(u) : Start(j) < length' /\ Cardinality(UpTo(u, j)) = e}
    <3>1. \A j : UpTo(u, j)' = UpTo(u, j)
      BY <1>4 DEF UpTo
    <3> QED BY <1>4, <3>1 DEF Passed
  <2>4. found[t] = Cardinality(Past(t)) /\ found[t] + 1 \in 1 .. Entries
    <3>1. Cardinality(OfType(t)) <= Entries /\ Cardinality(OfType(t)) \in Nat
      BY <1>1, <2>1, OfTypeFinite, FS_CardinalityType DEF TablesFit
    <3> QED BY <1>11, <1>12, <3>1, AcpiAssumption
  <2>5. array' = [array EXCEPT ![t][found[t] + 1] = length]
    <3>1. found[t] < Entries
      BY <1>11, <2>4, AcpiAssumption
    <3> QED BY <1>2, <3>1 DEF Store
  <2>6. array \in [Types -> [1 .. Entries -> 0 .. Total]]
    BY <1>1 DEF AcpiTypeOK
  <2>7. Cardinality(UpTo(t, k)) = found[t] + 1
    BY <1>10, <1>11, <2>4
  <2>8. CASE u = t /\ e = found[t] + 1
    <3>1. array'[u][e] = Start(k)
      BY <1>2, <2>5, <2>6, <2>8
    <3>2. k \in Passed(u, e)'
      BY <1>2, <1>3, <1>5, <2>3, <2>7, <2>8
    <3> QED BY <1>4, <3>1, <3>2
  <2>9. CASE ~(u = t /\ e = found[t] + 1)
    <3>1. array'[u][e] = array[u][e]
      BY <2>5, <2>6, <2>9
    <3>2. Passed(u, e)' = Passed(u, e)
      <4>1. k \notin Passed(u, e)'
        BY <1>5, <2>3, <2>7, <2>9
      <4>2. \A j \in OfType(u) : j # k => (Start(j) < length' <=> Start(j) < length)
        BY <1>6, <1>8
      <4>3. k \notin Passed(u, e)
        BY <1>2, <1>3 DEF Passed
      <4> QED BY <2>3, <4>1, <4>2, <4>3 DEF Passed
    <3> QED BY <1>4, <2>2, <3>1, <3>2
  <2> QED BY <2>8, <2>9
<1> QED BY <1>1, <1>4, <1>13, <1>15, <1>17, <1>18 DEF AcpiInv

LEMMA AcpiKept == AcpiInv /\ [AcpiNext]_acpiVars => AcpiInv'
  BY AcpiReads, AcpiInitMADT, AcpiParses, AcpiLists DEF AcpiNext

LEMMA AcpiAlways == AcpiSpec => []AcpiInv
  BY AcpiKept, AcpiStarts, PTL DEF AcpiSpec

\* For every table and every length of the arrays: as long as no type has more records
\* than its array has entries, each record parseMADT has passed is in the array of its
\* type, in the table's order, and nothing else is (madt.c:27).
THEOREM RecordsCollected == AcpiSpec => []Collected
<1>1. AcpiInv => Collected
  BY DEF AcpiInv
<1> QED BY <1>1, AcpiAlways, PTL

------------------------------------------------------------------------------
\* The sums of the descriptor.
FourOff(d, v, b) == Sum4(d, b) - Sum4(v, b)

LEMMA DescriptorBytes ==
  ASSUME NEW d \in Descriptor, NEW x \in 0 .. 35
  PROVE  d[x] \in Nat /\ d[x] < 256
<1>1. d[x] \in 0 .. 255
  BY DEF Descriptor
<1> QED BY <1>1

LEMMA SumTypes ==
  ASSUME NEW d \in Descriptor, NEW b \in {0, 4, 8, 12, 16, 20, 24, 28, 32}
  PROVE  Sum4(d, b) \in Nat
<1>1. b \in 0 .. 35 /\ b + 1 \in 0 .. 35 /\ b + 2 \in 0 .. 35 /\ b + 3 \in 0 .. 35
  OBVIOUS
<1>2. d[b] \in Nat /\ d[b + 1] \in Nat /\ d[b + 2] \in Nat /\ d[b + 3] \in Nat
  BY <1>1, DescriptorBytes
<1> QED BY <1>2 DEF Sum4

LEMMA FourOffSum ==
  ASSUME NEW d, NEW v, NEW b,
         d[b] \in Nat, d[b + 1] \in Nat, d[b + 2] \in Nat, d[b + 3] \in Nat,
         v[b] \in Nat, v[b + 1] \in Nat, v[b + 2] \in Nat, v[b + 3] \in Nat
  PROVE  FourOff(d, v, b) = (d[b] - v[b]) + (d[b + 1] - v[b + 1])
                              + (d[b + 2] - v[b + 2]) + (d[b + 3] - v[b + 3])
BY DEF FourOff, Sum4

\* Where the wrong byte is, the four bytes add up to something else, and by less
\* than 256; elsewhere they do not.
LEMMA FourBytes ==
  ASSUME NEW d \in Descriptor, NEW v \in Descriptor, NEW b \in {0, 4, 8, 12, 16, 20, 24, 28, 32},
         NEW wrong \in 0 .. 35, d[wrong] # v[wrong],
         \A x \in (0 .. 35) \ {wrong} : d[x] = v[x]
  PROVE  IF wrong \in b .. b + 3
         THEN FourOff(d, v, b) # 0 /\ -256 < FourOff(d, v, b) /\ FourOff(d, v, b) < 256
         ELSE FourOff(d, v, b) = 0
<1> DEFINE Off(x) == d[x] - v[x]
<1>1. \A x \in 0 .. 35 :
        /\ d[x] \in Nat /\ v[x] \in Nat /\ Off(x) \in Int /\ -256 < Off(x) /\ Off(x) < 256
        /\ Off(x) = 0 <=> x # wrong
  <2>1. ASSUME NEW x \in 0 .. 35
        PROVE  d[x] \in Nat /\ d[x] < 256 /\ v[x] \in Nat /\ v[x] < 256
               /\ (d[x] = v[x] <=> x # wrong)
    BY DescriptorBytes
  <2> QED BY <2>1
<1>2. b \in 0 .. 35 /\ b + 1 \in 0 .. 35 /\ b + 2 \in 0 .. 35 /\ b + 3 \in 0 .. 35
  OBVIOUS
<1>3. FourOff(d, v, b) = Off(b) + Off(b + 1) + Off(b + 2) + Off(b + 3)
  <2>1. /\ d[b] \in Nat /\ d[b + 1] \in Nat /\ d[b + 2] \in Nat /\ d[b + 3] \in Nat
        /\ v[b] \in Nat /\ v[b + 1] \in Nat /\ v[b + 2] \in Nat /\ v[b + 3] \in Nat
    BY <1>1, <1>2
  <2> QED BY <2>1, FourOffSum
<1> HIDE DEF Off
<1>4. /\ Off(b) \in Int /\ Off(b + 1) \in Int /\ Off(b + 2) \in Int /\ Off(b + 3) \in Int
      /\ b # wrong => Off(b) = 0
      /\ b + 1 # wrong => Off(b + 1) = 0
      /\ b + 2 # wrong => Off(b + 2) = 0
      /\ b + 3 # wrong => Off(b + 3) = 0
  BY <1>1, <1>2
<1>5. CASE wrong \notin b .. b + 3
  <2>1. b # wrong /\ b + 1 # wrong /\ b + 2 # wrong /\ b + 3 # wrong
    BY <1>5
  <2> QED BY <1>3, <1>4, <1>5, <2>1
<1>6. CASE wrong \in b .. b + 3
  <2>1. wrong = b \/ wrong = b + 1 \/ wrong = b + 2 \/ wrong = b + 3
    BY <1>6
  <2>2. FourOff(d, v, b) = Off(wrong)
    BY <1>3, <1>4, <2>1
  <2> QED BY <1>1, <1>6, <2>2
<1> QED BY <1>5, <1>6

\* One wrong byte changes the sum of the whole descriptor by less than 256, and if it
\* is in the first part, that part's sum by as much.
LEMMA WholeOff ==
  ASSUME NEW d \in Descriptor, NEW v \in Descriptor, OneByteWrong(d, v)
  PROVE  \E off \in Int :
           /\ off # 0 /\ -256 < off /\ off < 256
           /\ FirstPart(d) + SecondPart(d) = FirstPart(v) + SecondPart(v) + off
<1>1. PICK wrong \in 0 .. 35 :
        d[wrong] # v[wrong] /\ \A x \in (0 .. 35) \ {wrong} : d[x] = v[x]
  BY DEF OneByteWrong
<1>2. \A b \in {0, 4, 8, 12, 16, 20, 24, 28, 32} :
        /\ Sum4(d, b) \in Nat /\ Sum4(v, b) \in Nat
        /\ IF wrong \in b .. b + 3
           THEN FourOff(d, v, b) # 0 /\ -256 < FourOff(d, v, b) /\ FourOff(d, v, b) < 256
           ELSE FourOff(d, v, b) = 0
  BY <1>1, SumTypes, FourBytes
<1> DEFINE off == FourOff(d, v, 0) + FourOff(d, v, 4) + FourOff(d, v, 8) + FourOff(d, v, 12)
                    + FourOff(d, v, 16) + FourOff(d, v, 20) + FourOff(d, v, 24)
                    + FourOff(d, v, 28) + FourOff(d, v, 32)
<1>3. /\ off \in Int
      /\ FirstPart(d) + SecondPart(d) = FirstPart(v) + SecondPart(v) + off
  <2>1. \A b \in {0, 4, 8, 12, 16, 20, 24, 28, 32} :
          /\ Sum4(d, b) \in Nat /\ Sum4(v, b) \in Nat /\ FourOff(d, v, b) \in Int
          /\ Sum4(d, b) = Sum4(v, b) + FourOff(d, v, b)
    BY <1>2 DEF FourOff
  <2>2. off \in Int
    BY <2>1
  <2>3. FirstPart(d) + SecondPart(d) = FirstPart(v) + SecondPart(v) + off
    BY <2>1 DEF FirstPart, SecondPart
  <2> QED BY <2>2, <2>3
<1>4. \E b \in {0, 4, 8, 12, 16, 20, 24, 28, 32} :
        /\ wrong \in b .. b + 3
        /\ \A c \in {0, 4, 8, 12, 16, 20, 24, 28, 32} \ {b} : wrong \notin c .. c + 3
  OBVIOUS
<1>5. PICK b \in {0, 4, 8, 12, 16, 20, 24, 28, 32} :
        /\ wrong \in b .. b + 3
        /\ \A c \in {0, 4, 8, 12, 16, 20, 24, 28, 32} \ {b} : wrong \notin c .. c + 3
  BY <1>4
<1>6. \A c \in {0, 4, 8, 12, 16, 20, 24, 28, 32} \ {b} : FourOff(d, v, c) = 0
  BY <1>2, <1>5
<1>7. FourOff(d, v, b) \in Int
  BY <1>2 DEF FourOff
<1>8. off = FourOff(d, v, b)
  BY <1>6, <1>7
<1>9. off # 0 /\ -256 < off /\ off < 256
  BY <1>2, <1>5, <1>8
<1> QED BY <1>3, <1>9

LEMMA WholeSum ==
  ASSUME NEW d \in Descriptor
  PROVE  /\ FirstPart(d) \in Nat /\ SecondPart(d) \in Nat
         /\ d[revision] # 2 => validateRSDPChecksum(d) = FirstPart(d)
         /\ d[revision] = 2 /\ Below4G(d) =>
              validateRSDPChecksum(d) = FirstPart(d) + SecondPart(d)
<1>1. /\ Sum4(d, 0) \in Nat /\ Sum4(d, 4) \in Nat /\ Sum4(d, 8) \in Nat
      /\ Sum4(d, 12) \in Nat /\ Sum4(d, 16) \in Nat /\ Sum4(d, 20) \in Nat
      /\ Sum4(d, 24) \in Nat /\ Sum4(d, 28) \in Nat /\ Sum4(d, 32) \in Nat
  BY SumTypes
<1>2. FirstPart(d) \in Nat /\ SecondPart(d) \in Nat
  BY <1>1 DEF FirstPart, SecondPart
<1>3. /\ d[8] \in Nat /\ d[9] \in Nat /\ d[10] \in Nat /\ d[11] \in Nat
      /\ d[12] \in Nat /\ d[13] \in Nat /\ d[14] \in Nat /\ d[15] \in Nat
      /\ d[32] \in Nat /\ d[33] \in Nat /\ d[34] \in Nat /\ d[35] \in Nat
  BY DescriptorBytes
<1>4. /\ Sum4(d, 8) = d[8] + d[9] + d[10] + d[11]
      /\ Sum4(d, 12) = d[12] + d[13] + d[14] + d[15]
      /\ Sum4(d, 32) = d[32] + d[33] + d[34] + d[35]
  BY DEF Sum4
<1>5. Below4G(d) => Sum4(d, 28) = 0
  BY DEF Below4G, Sum4
<1>6. CASE d[revision] # 2
  BY <1>1, <1>2, <1>3, <1>4, <1>6 DEF validateRSDPChecksum, FirstPart, revision
<1>7. CASE d[revision] = 2
  BY <1>1, <1>2, <1>3, <1>4, <1>5, <1>7 DEF validateRSDPChecksum, FirstPart, SecondPart, revision
<1> QED BY <1>6, <1>7

LEMMA CheckedRight ==
  ASSUME NEW d \in Descriptors, Kind(d) \in {"valid", "corrupt"}
  PROVE  validateRSDPChecksum(d) % 256 = 0 <=> Kind(d) = "valid"
<1>1. d \in Descriptor
  BY AcpiAssumption
<1>2. (d[revision] = 2 => Below4G(d)) /\ (Kind(d) = "valid" <=> Valid(d))
  BY DEF Kind
<1>3. CASE d[revision] # 2
  BY <1>1, <1>2, <1>3, WholeSum DEF Valid
<1>4. CASE d[revision] = 2 /\ Valid(d)
  BY <1>1, <1>2, <1>4, WholeSum DEF Valid
<1>5. CASE d[revision] = 2 /\ ~Valid(d)
  <2>1. PICK v \in Descriptors : v[revision] = 2 /\ Valid(v) /\ OneByteWrong(d, v)
    BY <1>5 DEF Kind
  <2>2. v \in Descriptor
    BY AcpiAssumption
  <2>3. (FirstPart(v) + SecondPart(v)) % 256 = 0
    BY <2>1 DEF Valid
  <2>4. PICK off \in Int :
          /\ off # 0 /\ -256 < off /\ off < 256
          /\ FirstPart(d) + SecondPart(d) = FirstPart(v) + SecondPart(v) + off
    BY <1>1, <2>1, <2>2, WholeOff
  <2>5. FirstPart(v) + SecondPart(v) \in Nat
    BY <2>2, WholeSum
  <2>6. \A sum \in Nat : sum % 256 = 0 => (sum + off) % 256 # 0
    BY <2>4
  <2>7. (FirstPart(d) + SecondPart(d)) % 256 # 0
    BY <2>3, <2>4, <2>5, <2>6
  <2> QED BY <1>1, <1>2, <1>5, <2>7, WholeSum
<1> QED BY <1>3, <1>4, <1>5

\* rsdp and ready are about the same descriptor.
DescriptorRead ==
  rsdp # "none" =>
    \E d \in Descriptors : rsdp = Kind(d) /\ ready = (validateRSDPChecksum(d) % 256 = 0)

\* For every set of descriptors: validateRSDPChecksum takes every valid one, and none
\* with a wrong sum that has no second part, or that differs in one byte from a valid
\* one of revision 2; this as long as the upper half of the XSDT's address, which
\* acpi.c:40 drops, is 0 in the descriptor that is read.
THEOREM ReadyMeansValid == AcpiSpec => []ReadyIfValid
<1>1. AcpiInit => DescriptorRead
  BY DEF AcpiInit, DescriptorRead
<1>2. DescriptorRead /\ [AcpiNext]_acpiVars => DescriptorRead'
  <2> SUFFICES ASSUME DescriptorRead, [AcpiNext]_acpiVars PROVE DescriptorRead'
    OBVIOUS
  <2>1. CASE readRSDP
    BY <2>1 DEF readRSDP, DescriptorRead
  <2>2. CASE UNCHANGED <<rsdp, ready>>
    BY <2>2 DEF DescriptorRead
  <2> QED BY <2>1, <2>2 DEF AcpiNext, acpiVars, firmwareVars, findFADT, initMADT, parseRecord, parsed, list
<1>3. DescriptorRead => ReadyIfValid
  BY CheckedRight DEF DescriptorRead, ReadyIfValid
<1> QED BY <1>1, <1>2, <1>3, PTL DEF AcpiSpec

------------------------------------------------------------------------------
\* The initial RAM disk.

Cleared == [b \in 1 .. BufSize |-> NUL]

\* The headers as edited, the nodes and their names are the files'.
Initialised ==
  /\ file_headers = [k \in 1 .. nfiles |->
       [name |-> files[k].name, offset |-> files[k].start + location,
        length |-> Len(files[k].content)]]
  /\ root_dirents = [n \in 0 .. nroot_nodes - 1 |->
       IF n = 0 THEN "/" ELSE IF n = 1 THEN "dev" ELSE files[n - 1].name]
  /\ root_nodes = [n \in 0 .. nroot_nodes - 1 |->
       [inode |-> n, directory |-> n < 2,
        length |-> IF n < 2 THEN 0 ELSE Len(files[n - 1].content)]]

\* What the loop has printed up to node i, and what it left in buf.
Listed ==
  /\ i \in 0 .. nroot_nodes
  /\ buf \in [1 .. BufSize -> Octets]
  /\ printed \in [0 .. nroot_nodes - 1 -> {Nothing, Directory} \cup Seq(Octets)]
  /\ \A n \in i .. nroot_nodes - 1 : printed[n] = Nothing
  /\ FileListedBefore(i) => buf = Cleared

InitrdInv ==
  /\ initrdStage \in {"image", "initialise_initrd", "readdir", "finddir", "directory", "file", "done"}
  /\ initrdStage = "image" => files = << >> /\ i = 0
  /\ initrdStage \in {"image", "initialise_initrd"} => root_nodes = << >>
  /\ initrdStage # "image" => files \in Images /\ Listed
  /\ initrdStage = "initialise_initrd" =>
       /\ i = 0
       /\ file_headers = [k \in 1 .. nfiles |->
            [name |-> files[k].name, offset |-> files[k].start, length |-> Len(files[k].content)]]
  /\ initrdStage \notin {"image", "initialise_initrd"} => Initialised
  /\ initrdStage \in {"finddir", "directory", "file"} => i < nroot_nodes
  /\ initrdStage \in {"directory", "file"} =>
       /\ node = finddir_fs(0, root_dirents[i])
       /\ initrdStage = "directory" <=> root_nodes[node].directory
  /\ PrintsText

------------------------------------------------------------------------------
\* The image.
LEMMA ImageTypes ==
  ASSUME files \in Images
  PROVE  /\ nfiles \in Nat /\ nroot_nodes \in Nat /\ files \in Seq(File) /\ LaidOut(files)
         /\ \A k \in 1 .. nfiles : /\ files[k].start \in Nat /\ files[k].content \in Seq(Octets)
                                  /\ Len(files[k].content) \in Nat /\ location \in Nat
<1>1. files \in Seq(File) /\ LaidOut(files) /\ location \in Nat
  BY InitrdAssumption
<1>2. \A k \in 1 .. nfiles : files[k] \in File
  BY <1>1 DEF nfiles
<1>3. \A k \in 1 .. nfiles : files[k].start \in Nat /\ files[k].content \in Seq(Octets)
  BY <1>2 DEF File
<1>4. \A k \in 1 .. nfiles : Len(files[k].content) \in Nat
  BY <1>3
<1> QED BY <1>1, <1>3, <1>4 DEF nfiles, nroot_nodes

\* No place is in two stretches, one of which ends where the other starts, or before.
LEMMA NotInBoth ==
  ASSUME NEW l \in Nat, NEW a \in Nat, NEW lenA \in Nat, NEW b \in Nat, NEW lenB \in Nat,
         NEW o \in Nat, o < lenB, a + lenA <= b \/ b + lenB <= a,
         l + a <= l + b + o, l + b + o < l + a + lenA
  PROVE  FALSE
OBVIOUS

\* The bytes of a file are at its place, as no other file is there.
LEMMA BytesOfFile ==
  ASSUME files \in Images, NEW k \in 1 .. nfiles, NEW o \in Nat, o < Len(files[k].content)
  PROVE  Byte(location + files[k].start + o) = files[k].content[o + 1]
<1> DEFINE address == location + files[k].start + o
           there == {j \in 1 .. nfiles :
                       /\ location + files[j].start <= address
                       /\ address < location + files[j].start + Len(files[j].content)}
<1>1. k \in there
  BY ImageTypes
<1>2. ASSUME NEW j \in there, j # k PROVE FALSE
  <2>1. j \in DOMAIN files \ {k} /\ k \in DOMAIN files
    BY <1>2, ImageTypes DEF nfiles
  <2>2. \/ files[j].start + Len(files[j].content) <= files[k].start
        \/ files[k].start + Len(files[k].content) <= files[j].start
    BY <2>1, ImageTypes DEF LaidOut
  <2>3. /\ location \in Nat
        /\ files[j].start \in Nat /\ Len(files[j].content) \in Nat
        /\ files[k].start \in Nat /\ Len(files[k].content) \in Nat
    BY <1>2, ImageTypes
  <2>4. location + files[j].start <= address /\ address < location + files[j].start + Len(files[j].content)
    BY <1>2
  <2> QED BY <2>2, <2>3, <2>4, NotInBoth
<1>3. there = {k}
  BY <1>1, <1>2
<1>4. (CHOOSE j \in there : TRUE) = k /\ there # {}
  <2> HIDE DEF there
  <2> QED BY <1>3
<1>5. address - location - files[k].start + 1 = o + 1
  BY ImageTypes
<1> QED BY <1>4, <1>5 DEF Byte

LEMMA MinOfTwo ==
  ASSUME NEW a \in Int, NEW b \in Int
  PROVE  Min({a, b}) = IF a <= b THEN a ELSE b
BY DEF Min

LEMMA PartOf ==
  ASSUME NEW S, NEW s \in Seq(S), NEW m \in Nat, NEW n \in Int, m >= 1, n <= Len(s)
  PROVE  SubSeq(s, m, n) = [j \in 1 .. n - m + 1 |-> s[m + j - 1]]
OBVIOUS

LEMMA Regroup ==
  ASSUME NEW s \in Nat, NEW l \in Nat, NEW o \in Nat, NEW b \in Nat
  PROVE  l + s + (o + b - 1) = s + l + o + b - 1 /\ (o + b - 1) + 1 = o + 1 + b - 1
OBVIOUS

\* initrd_read gives the file's bytes from offset on.
LEMMA ReadsContent ==
  ASSUME files \in Images, Initialised, NEW k \in 1 .. nfiles, NEW offset \in Nat, NEW size \in Nat
  PROVE  read_fs(k + 1, offset, size)
           = SubSeq(files[k].content, offset + 1, Min({offset + size, Len(files[k].content)}))
<1> DEFINE len == Len(files[k].content)
           last == IF offset + size <= len THEN offset + size ELSE len
           count == IF offset > len THEN 0 ELSE IF offset + size > len THEN len - offset ELSE size
<1>1. len \in Nat /\ files[k].start \in Nat /\ location \in Nat /\ files[k].content \in Seq(Octets)
  BY ImageTypes
<1>2. /\ k + 1 \in 0 .. nroot_nodes - 1 /\ (k + 1) - 1 = k /\ ~(k + 1 < 2)
  BY ImageTypes DEF nroot_nodes
<1>3. ~root_nodes[k + 1].directory
  BY <1>2 DEF Initialised
<1>4. /\ file_headers[(k + 1) - 1].length = len
      /\ file_headers[(k + 1) - 1].offset = files[k].start + location
  BY <1>2 DEF Initialised
<1>5. read_fs(k + 1, offset, size)
        = [b \in 1 .. count |-> Byte(files[k].start + location + offset + b - 1)]
  BY <1>3, <1>4 DEF read_fs, initrd_read
<1>6. count \in Nat /\ (count > 0 => count = last - (offset + 1) + 1 /\ offset + count <= len)
      /\ (count = 0 => last - (offset + 1) + 1 <= 0) /\ last \in Nat /\ last <= len
  BY <1>1
<1>7. ASSUME NEW b \in 1 .. count
      PROVE  Byte(files[k].start + location + offset + b - 1) = files[k].content[offset + 1 + b - 1]
  <2>1. offset + b - 1 \in Nat /\ offset + b - 1 < len
    BY <1>6
  <2>2. Byte(location + files[k].start + (offset + b - 1)) = files[k].content[(offset + b - 1) + 1]
    <3> HIDE DEF count
    <3> QED BY <2>1, BytesOfFile
  <2>3. /\ location + files[k].start + (offset + b - 1) = files[k].start + location + offset + b - 1
        /\ (offset + b - 1) + 1 = offset + 1 + b - 1
    <3> DEFINE start == files[k].start
    <3>1. b \in Nat /\ start \in Nat
      BY <1>1, <1>6
    <3> HIDE DEF count, start
    <3>2. /\ location + start + (offset + b - 1) = start + location + offset + b - 1
          /\ (offset + b - 1) + 1 = offset + 1 + b - 1
      BY <1>1, <3>1, Regroup
    <3> QED BY <3>2 DEF start
  <2> QED BY <2>2, <2>3
<1>8. 1 .. count = 1 .. last - (offset + 1) + 1
  BY <1>1, <1>6
<1>9. SubSeq(files[k].content, offset + 1, last)
        = [b \in 1 .. last - (offset + 1) + 1 |-> files[k].content[offset + 1 + b - 1]]
  <2>1. offset + 1 \in Nat /\ offset + 1 >= 1 /\ last \in Int /\ last <= Len(files[k].content)
    BY <1>6
  <2> HIDE DEF last
  <2> QED BY <1>1, <2>1, PartOf
<1>10. Min({offset + size, len}) = last
  <2>1. offset + size \in Int /\ len \in Int
    BY <1>1
  <2> HIDE DEF len
  <2> QED BY <2>1, MinOfTwo
<1> HIDE DEF count, last
<1> QED BY <1>5, <1>7, <1>8, <1>9, <1>10

LEMMA RootIsDirectory ==
  ASSUME files \in Images, Initialised
  PROVE  root_nodes[0].directory
<1>1. 0 \in 0 .. nroot_nodes - 1 /\ 0 < 2
  BY ImageTypes DEF nroot_nodes
<1>2. root_nodes[0] = [inode |-> 0, directory |-> 0 < 2, length |-> 0]
  BY <1>1 DEF Initialised
<1>3. root_nodes[0].directory = (0 < 2)
  BY <1>2
<1>4. (0 < 2) = TRUE
  OBVIOUS
<1> QED BY <1>3, <1>4

\* The lookup of a file that can be found gives its node.
LEMMA FindsFile ==
  ASSUME files \in Images, Initialised, NEW k \in 1 .. nfiles, Findable(k)
  PROVE  finddir_fs(0, files[k].name) = k + 1
<1> DEFINE named == {n \in 0 .. nroot_nodes - 1 : root_dirents[n] = files[k].name}
<1>1. root_nodes[0].directory
  BY RootIsDirectory
<1>2. k + 1 \in named
  <2>1. k + 1 \in 0 .. nroot_nodes - 1 /\ k + 1 # 0 /\ k + 1 # 1 /\ (k + 1) - 1 = k
    BY ImageTypes DEF nroot_nodes
  <2> QED BY <2>1 DEF Initialised
<1>3. \A n \in named : n >= k + 1
  <2> SUFFICES ASSUME NEW n \in 0 .. nroot_nodes - 1, n < k + 1 PROVE root_dirents[n] # files[k].name
    BY ImageTypes
  <2>1. CASE n = 0 \/ n = 1
    BY <2>1 DEF Initialised, Findable
  <2>2. CASE n # 0 /\ n # 1
    <3>1. n - 1 \in 1 .. k - 1
      BY <2>2
    <3> QED BY <2>2, <3>1 DEF Initialised, Findable
  <2> QED BY <2>1, <2>2
<1>4. Min(named) = k + 1
  <2>1. named \subseteq Int
    BY ImageTypes
  <2> HIDE DEF named
  <2>2. \A x \in named : (\A y \in named : x <= y) => x = k + 1
    BY <1>2, <1>3, <2>1
  <2> QED BY <1>2, <1>3, <2>1, <2>2 DEF Min
<1>5. initrd_finddir(files[k].name) = k + 1
  BY <1>2, <1>4 DEF initrd_finddir
<1> QED BY <1>1, <1>5 DEF finddir_fs

\* Any name of a node leads to a node.
LEMMA FindsNode ==
  ASSUME files \in Images, Initialised, NEW m \in 0 .. nroot_nodes - 1
  PROVE  finddir_fs(0, root_dirents[m]) \in 0 .. nroot_nodes - 1
<1> DEFINE named == {n \in 0 .. nroot_nodes - 1 : root_dirents[n] = root_dirents[m]}
<1>1. root_nodes[0].directory
  BY RootIsDirectory
<1>2. m \in named /\ named \in SUBSET Nat
  BY ImageTypes
<1>3. PICK n \in named : \A x \in named : n <= x
  <2> HIDE DEF named
  <2> QED BY <1>2, Least
<1>4. Min(named) \in named
  <2> HIDE DEF named
  <2> QED BY <1>3 DEF Min
<1>5. initrd_finddir(root_dirents[m]) \in 0 .. nroot_nodes - 1
  BY <1>2, <1>4 DEF initrd_finddir
<1> QED BY <1>1, <1>5 DEF finddir_fs

------------------------------------------------------------------------------
LEMMA MinIsLeast ==
  ASSUME NEW S \in SUBSET Nat, S # {}
  PROVE  Min(S) \in S /\ \A n \in S : Min(S) <= n
BY Least DEF Min

\* The text of a file: its bytes before the first NUL, as many as buf takes.
LEMMA TextOf ==
  ASSUME files \in Images, NEW k \in 1 .. nfiles
  PROVE  \E n \in Nat :
           /\ n <= Len(files[k].content) /\ n <= BufSize
           /\ Text(k) = [j \in 1 .. n |-> files[k].content[j]] /\ Len(Text(k)) = n
           /\ \A j \in 1 .. n : files[k].content[j] # NUL
           /\ n < BufSize /\ n < Len(files[k].content) => files[k].content[n + 1] = NUL
<1> DEFINE content == files[k].content
           ends == {j \in 1 .. Len(content) : content[j] = NUL} \cup {Len(content) + 1, BufSize + 1}
           n == Min(ends) - 1
<1>1. content \in Seq(Octets) /\ Len(content) \in Nat /\ BufSize \in Nat
  BY ImageTypes, InitrdAssumption
<1>2. Min(ends) \in ends /\ \A e \in ends : Min(ends) <= e
  <2>1. ends \in SUBSET Nat /\ ends # {}
    BY <1>1
  <2> HIDE DEF ends
  <2> QED BY <2>1, MinIsLeast
<1>3. Min(ends) \in Nat /\ Min(ends) >= 1 /\ Min(ends) <= Len(content) + 1 /\ Min(ends) <= BufSize + 1
  <2>1. /\ Len(content) + 1 \in ends /\ BufSize + 1 \in ends
        /\ \A e \in ends : e \in Nat /\ e >= 1
    BY <1>1
  <2> HIDE DEF ends
  <2> QED BY <1>2, <2>1
<1>4. n \in Nat /\ n <= Len(content) /\ n <= BufSize
  <2> HIDE DEF ends, content
  <2> QED BY <1>1, <1>3
<1>5. \A j \in 1 .. n : content[j] # NUL
  <2> SUFFICES ASSUME NEW j \in 1 .. n, content[j] = NUL PROVE FALSE
    OBVIOUS
  <2>1. j \in 1 .. Len(content) /\ j < Min(ends)
    <3> HIDE DEF ends, content
    <3> QED BY <1>1, <1>3, <1>4
  <2>2. j \in ends
    BY <2>1
  <2>3. Min(ends) <= j
    <3> HIDE DEF ends
    <3> QED BY <1>2, <2>2
  <2> HIDE DEF ends
  <2> QED BY <1>3, <2>1, <2>3
<1>6. ASSUME n < BufSize, n < Len(content) PROVE content[n + 1] = NUL
  <2>1. Min(ends) # Len(content) + 1 /\ Min(ends) # BufSize + 1 /\ n + 1 = Min(ends)
    <3> HIDE DEF ends, content
    <3> QED BY <1>1, <1>3, <1>6
  <2>2. Min(ends) \in {j \in 1 .. Len(content) : content[j] = NUL}
    <3> DEFINE least == Min(ends)
    <3>1. least \in ends /\ least # Len(content) + 1 /\ least # BufSize + 1
      BY <1>2, <2>1
    <3> HIDE DEF least
    <3>2. least \in {j \in 1 .. Len(content) : content[j] = NUL}
      BY <3>1
    <3> QED BY <3>2 DEF least
  <2> HIDE DEF ends
  <2> QED BY <2>1, <2>2
<1>7. Text(k) = SubSeq(content, 1, n)
  BY DEF Text
<1> HIDE DEF content, n
<1>8. SubSeq(content, 1, n) = [j \in 1 .. n |-> content[j]] /\ Len(SubSeq(content, 1, n)) = n
  BY <1>1, <1>4
<1> QED BY <1>4, <1>5, <1>6, <1>7, <1>8 DEF content

\* A string in b that has no NUL among its first n bytes starts with these, and ends
\* there if the next is a NUL.
LEMMA StringOf ==
  ASSUME NEW b \in [1 .. BufSize -> Octets], NEW n \in Nat, n <= BufSize,
         \A j \in 1 .. n : b[j] # NUL, NEW string \in StringsIn(b)
  PROVE  /\ string \in Seq(Octets)
         /\ SubSeq(string, 1, n) = [j \in 1 .. n |-> b[j]]
         /\ n < BufSize /\ b[n + 1] = NUL => string = [j \in 1 .. n |-> b[j]]
<1> DEFINE nuls == {j \in 1 .. BufSize : b[j] = NUL}
<1>1. b \in Seq(Octets) /\ Len(b) = BufSize /\ BufSize \in Nat
  BY InitrdAssumption
<1>2. CASE nuls = {}
  <2>1. string = b \/ string = Append(b, Garbage)
    BY <1>2 DEF StringsIn
  <2>2. Garbage \in Octets
    BY DEF Garbage, Octets
  <2>3. string \in Seq(Octets) /\ n <= Len(string) /\ \A j \in 1 .. n : string[j] = b[j]
    BY <1>1, <2>1, <2>2
  <2>4. SubSeq(string, 1, n) = [j \in 1 .. n |-> string[j]]
    BY <2>3
  <2>5. ~(n < BufSize /\ b[n + 1] = NUL)
    BY <1>1, <1>2
  <2> QED BY <2>3, <2>4, <2>5
<1>3. CASE nuls # {}
  <2>1. nuls \in SUBSET Nat
    BY <1>1
  <2>2. Min(nuls) \in nuls /\ \A j \in nuls : Min(nuls) <= j
    <3> HIDE DEF nuls
    <3> QED BY <1>3, <2>1, MinIsLeast
  <2>3. PICK m \in nuls : m = Min(nuls) /\ \A j \in nuls : m <= j
    BY <2>2
  <2>4. string = SubSeq(b, 1, m - 1)
    BY <1>3, <2>3 DEF StringsIn
  <2>5. m \in Nat /\ m >= 1 /\ m <= BufSize /\ b[m] = NUL
    BY <1>1, <2>3
  <2>6. m > n
    BY <2>5
  <2>7. /\ string \in Seq(Octets) /\ Len(string) = m - 1
        /\ string = [j \in 1 .. m - 1 |-> b[j]]
    BY <1>1, <2>4, <2>5
  <2>8. n <= Len(string) /\ \A j \in 1 .. n : string[j] = b[j]
    BY <2>5, <2>6, <2>7
  <2>9. SubSeq(string, 1, n) = [j \in 1 .. n |-> string[j]]
    BY <2>7, <2>8
  <2>10. n < BufSize /\ b[n + 1] = NUL => m = n + 1
    <3>1. n < BufSize /\ b[n + 1] = NUL => n + 1 \in nuls
      BY <1>1
    <3> HIDE DEF nuls
    <3> QED BY <2>3, <2>5, <2>6, <3>1
  <2>11. n < BufSize /\ b[n + 1] = NUL => string = [j \in 1 .. n |-> b[j]]
    BY <2>5, <2>7, <2>10
  <2> QED BY <2>7, <2>8, <2>9, <2>11
<1> QED BY <1>2, <1>3

------------------------------------------------------------------------------
LEMMA InitrdStarts == InitrdInit => InitrdInv
<1> SUFFICES ASSUME InitrdInit PROVE InitrdInv
  OBVIOUS
<1>1. nfiles = 0 /\ root_nodes = << >> /\ printed = << >>
  BY DEF InitrdInit, nfiles
<1>2. PrintsText
  <2>1. 1 .. nfiles = {}
    BY <1>1
  <2> QED BY <2>1 DEF PrintsText
<1> QED BY <1>1, <1>2 DEF InitrdInit, InitrdInv

LEMMA NodesOfFiles ==
  ASSUME NEW files_ \in Nat, NEW nodes, nodes = files_ + 2
  PROVE  /\ \A k \in 1 .. files_ : k + 1 \in 0 .. nodes - 1
         /\ \A n \in 0 .. nodes - 1 : n # 0 /\ n # 1 => n - 1 \in 1 .. files_
         /\ \A n \in 0 .. nodes - 1 : ~(n < 2) => n - 1 \in 1 .. files_
OBVIOUS

LEMMA LoadStep == InitrdInv /\ loadImage => InitrdInv'
<1> SUFFICES ASSUME InitrdInv, loadImage PROVE InitrdInv'
  OBVIOUS
<1>1. files' \in Images /\ nfiles' \in Nat /\ nroot_nodes' \in Nat /\ i' = 0 /\ root_nodes' = << >>
  <2>1. files' \in Seq(File)
    BY InitrdAssumption DEF loadImage
  <2> QED BY <2>1 DEF InitrdInv, nroot_nodes, nfiles, loadImage
<1>2. printed' = [k \in 0 .. nroot_nodes' - 1 |-> Nothing]
  BY DEF loadImage
<1>3. buf' \in [1 .. BufSize -> Octets]
  <2>1. NUL \in Octets /\ Garbage \in Octets
    BY DEF Octets, NUL, Garbage
  <2> QED BY <2>1 DEF loadImage
<1>4. ~FileListedBefore(i)'
  BY <1>1 DEF FileListedBefore
<1>5. Listed'
  BY <1>1, <1>2, <1>3, <1>4 DEF Listed
<1>6. PrintsText'
  <2>1. nroot_nodes' = nfiles' + 2
    BY DEF nroot_nodes
  <2>2. \A k \in 1 .. nfiles' : k + 1 \in 0 .. nroot_nodes' - 1
    BY <1>1, <2>1, NodesOfFiles
  <2> QED BY <1>2, <2>2 DEF PrintsText
<1>7. initrdStage' = "initialise_initrd" /\ file_headers' = [k \in 1 .. nfiles' |->
        [name |-> files'[k].name, offset |-> files'[k].start, length |-> Len(files'[k].content)]]
  BY DEF loadImage
<1> QED BY <1>1, <1>5, <1>6, <1>7 DEF InitrdInv

LEMMA InitialiseStep == InitrdInv /\ initialise_initrd => InitrdInv'
<1> SUFFICES ASSUME InitrdInv, initialise_initrd PROVE InitrdInv'
  OBVIOUS
<1>1. /\ files' = files /\ files \in Images /\ nfiles' = nfiles /\ nroot_nodes' = nroot_nodes
      /\ i' = i /\ i = 0 /\ printed' = printed /\ buf' = buf /\ Listed
      /\ file_headers = [k \in 1 .. nfiles |->
           [name |-> files[k].name, offset |-> files[k].start, length |-> Len(files[k].content)]]
      /\ initrdStage' = "readdir"
  BY DEF InitrdInv, nroot_nodes, nfiles, initialise_initrd
<1>2. nroot_nodes = nfiles + 2 /\ nfiles \in Nat
  BY <1>1, ImageTypes DEF nroot_nodes
<1>3. Listed'
  BY <1>1 DEF Listed, FileListedBefore
<1>4. PrintsText'
  BY <1>1 DEF InitrdInv, PrintsText, FileListedBefore, Findable, Text
<1>5. /\ \A n \in 0 .. nroot_nodes - 1 : n # 0 /\ n # 1 => n - 1 \in 1 .. nfiles
      /\ \A n \in 0 .. nroot_nodes - 1 : ~(n < 2) => n - 1 \in 1 .. nfiles
  BY <1>2, NodesOfFiles
<1>6. ASSUME NEW k \in 1 .. nfiles
      PROVE  /\ file_headers[k].name = files[k].name
             /\ file_headers[k].length = Len(files[k].content)
             /\ [file_headers[k] EXCEPT !.offset = @ + location]
                  = [name |-> files[k].name, offset |-> files[k].start + location,
                     length |-> Len(files[k].content)]
  <2>1. file_headers[k]
          = [name |-> files[k].name, offset |-> files[k].start, length |-> Len(files[k].content)]
    BY <1>1
  <2> QED BY <2>1
<1>7. file_headers' = [k \in 1 .. nfiles |->
        [name |-> files[k].name, offset |-> files[k].start + location,
         length |-> Len(files[k].content)]]
  BY <1>6 DEF initialise_initrd
<1>8. root_dirents' = [n \in 0 .. nroot_nodes - 1 |->
        IF n = 0 THEN "/" ELSE IF n = 1 THEN "dev" ELSE files[n - 1].name]
  BY <1>5, <1>6 DEF initialise_initrd
<1>9. root_nodes' = [n \in 0 .. nroot_nodes - 1 |->
        [inode |-> n, directory |-> n < 2,
         length |-> IF n < 2 THEN 0 ELSE Len(files[n - 1].content)]]
  BY <1>5, <1>6 DEF initialise_initrd
<1>10. Initialised'
  BY <1>1, <1>7, <1>8, <1>9 DEF Initialised
<1> QED BY <1>1, <1>3, <1>4, <1>10 DEF InitrdInv

LEMMA LookStep == InitrdInv /\ (readdir_fs \/ finddir \/ UNCHANGED initrdVars) => InitrdInv'
<1> SUFFICES ASSUME InitrdInv, readdir_fs \/ finddir \/ UNCHANGED initrdVars PROVE InitrdInv'
  OBVIOUS
<1>1. UNCHANGED <<files, file_headers, root_nodes, root_dirents, i, buf, printed>>
  BY DEF readdir_fs, finddir, initrdVars
<1>2. /\ nfiles' = nfiles /\ nroot_nodes' = nroot_nodes
      /\ Listed' = Listed /\ PrintsText' = PrintsText /\ Initialised' = Initialised
  BY <1>1 DEF nfiles, nroot_nodes, Listed, FileListedBefore, PrintsText, Findable, Text, Initialised
<1>3. CASE readdir_fs
  <2>1. files \in Images /\ Listed
    BY <1>3 DEF readdir_fs, InitrdInv
  <2>2. i < nroot_nodes \/ i >= nroot_nodes
    BY <2>1, ImageTypes DEF Listed
  <2> QED BY <1>1, <1>2, <1>3, <2>2 DEF readdir_fs, InitrdInv
<1>4. CASE finddir
  <2>1. finddir_fs(0, root_dirents[i])' = finddir_fs(0, root_dirents[i])
    BY <1>1, <1>2 DEF finddir_fs, initrd_finddir
  <2>2. node' = finddir_fs(0, root_dirents[i])
    BY <1>4 DEF finddir
  <2> QED BY <1>1, <1>2, <1>4, <2>1, <2>2 DEF finddir, InitrdInv
<1>5. CASE UNCHANGED initrdVars
  <2>1. finddir_fs(0, root_dirents[i])' = finddir_fs(0, root_dirents[i])
    BY <1>1, <1>2 DEF finddir_fs, initrd_finddir
  <2> QED BY <1>1, <1>2, <1>5, <2>1 DEF InitrdInv, initrdVars
<1> QED BY <1>3, <1>4, <1>5

\* What is printed of a file is neither of the marks.
LEMMA NoString == ASSUME NEW s \in Seq(Octets) PROVE s \notin {Nothing, Directory}
<1>1. CASE s = << >>
  BY <1>1 DEF Nothing, Directory
<1>2. CASE s # << >>
  <2>1. s[1] \in Octets
    BY <1>2
  <2>2. s[1] >= 0
    <3>1. \A x \in Octets : x >= 0
      BY DEF Octets
    <3> QED BY <2>1, <3>1
  <2> QED BY <2>2 DEF Nothing, Directory
<1> QED BY <1>1, <1>2

\* A node is printed: a directory, or a string that starts with the text of the file
\* the node is of and, with buf cleared and room in it, is that text.
LEMMA NodePrinted ==
  ASSUME InitrdInv, files \in Images, Listed, i < nroot_nodes,
         NEW string \in {Nothing, Directory} \cup Seq(Octets),
         UNCHANGED <<files, file_headers, root_nodes, root_dirents, node>>,
         printed' = [printed EXCEPT ![i] = string], i' = i + 1,
         buf' \in [1 .. BufSize -> Octets],
         IF string \in {Nothing, Directory} THEN buf' = buf ELSE buf' = Cleared,
         \A k \in 1 .. nfiles : i = k + 1 /\ Findable(k) =>
           /\ SubSeq(string, 1, Len(Text(k))) = Text(k)
           /\ Len(Text(k)) < BufSize /\ buf = Cleared => string = Text(k)
  PROVE  Listed' /\ PrintsText'
<1>1. /\ nroot_nodes \in Nat /\ nfiles \in Nat /\ nroot_nodes = nfiles + 2
      /\ i \in 0 .. nroot_nodes - 1 /\ i \in Nat
  BY ImageTypes DEF Listed, nroot_nodes
<1>2. /\ nfiles' = nfiles /\ nroot_nodes' = nroot_nodes
      /\ \A k : Findable(k)' = Findable(k) /\ Text(k)' = Text(k)
  BY DEF nfiles, nroot_nodes, Findable, Text
<1>3. /\ printed \in [0 .. nroot_nodes - 1 -> {Nothing, Directory} \cup Seq(Octets)]
      /\ \A n \in i .. nroot_nodes - 1 : printed[n] = Nothing
      /\ FileListedBefore(i) => buf = Cleared
  BY DEF Listed
<1>4. /\ printed' \in [0 .. nroot_nodes - 1 -> {Nothing, Directory} \cup Seq(Octets)]
      /\ printed'[i] = string
      /\ \A n \in 0 .. nroot_nodes - 1 : n # i => printed'[n] = printed[n]
  BY <1>1, <1>3
<1>5. \A n \in i' .. nroot_nodes' - 1 : printed'[n] = Nothing
  BY <1>1, <1>2, <1>3, <1>4
<1>6. FileListedBefore(i)' /\ string \in {Nothing, Directory} => FileListedBefore(i)
  BY <1>1, <1>4 DEF FileListedBefore
<1>7. Listed'
  BY <1>1, <1>2, <1>3, <1>4, <1>5, <1>6 DEF Listed
<1>8. ASSUME NEW k \in 1 .. nfiles, Findable(k), printed'[k + 1] # Nothing
      PROVE  /\ SubSeq(printed'[k + 1], 1, Len(Text(k))) = Text(k)
             /\ Len(Text(k)) < BufSize /\ FileListedBefore(k + 1)' => printed'[k + 1] = Text(k)
  <2>1. k + 1 \in 0 .. nroot_nodes - 1 /\ k + 1 <= i
    BY <1>1, <1>3, <1>4, <1>8
  <2>2. FileListedBefore(k + 1)' => FileListedBefore(k + 1)
    BY <1>1, <1>4, <2>1 DEF FileListedBefore
  <2>3. CASE k + 1 = i
    BY <1>3, <1>4, <1>8, <2>2, <2>3
  <2>4. CASE k + 1 # i
    <3>1. printed'[k + 1] = printed[k + 1] /\ PrintsText
      BY <1>4, <2>1, <2>4 DEF InitrdInv
    <3> QED BY <1>8, <2>2, <3>1 DEF PrintsText
  <2> QED BY <2>3, <2>4
<1>9. PrintsText'
  BY <1>2, <1>8 DEF PrintsText
<1> QED BY <1>7, <1>9

\* The name of a file's node, which is no directory.
LEMMA NameOfNode ==
  ASSUME files \in Images, Initialised, NEW k \in 1 .. nfiles
  PROVE  root_dirents[k + 1] = files[k].name /\ ~root_nodes[k + 1].directory
<1>1. /\ k + 1 \in 0 .. nroot_nodes - 1 /\ (k + 1) - 1 = k /\ ~(k + 1 < 2)
      /\ k + 1 # 0 /\ k + 1 # 1
  BY ImageTypes DEF nroot_nodes
<1> QED BY <1>1 DEF Initialised

\* What is found and is no directory is the node of a file.
LEMMA FileNode ==
  ASSUME files \in Images, Initialised, i \in 0 .. nroot_nodes - 1,
         node = finddir_fs(0, root_dirents[i]), ~root_nodes[node].directory
  PROVE  \E f \in 1 .. nfiles : node = f + 1
<1>1. node \in 0 .. nroot_nodes - 1
  BY FindsNode
<1>2. root_nodes[node].directory = (node < 2)
  BY <1>1 DEF Initialised
<1>3. nfiles \in Nat /\ nroot_nodes = nfiles + 2
  BY ImageTypes DEF nroot_nodes
<1>4. ~(node < 2)
  BY <1>2
<1>5. node - 1 \in 1 .. nfiles /\ node = (node - 1) + 1
  BY <1>1, <1>3, <1>4
<1> QED BY <1>5

\* What _start reads of a file: as much as buf takes, from the first byte on.
LEMMA FirstBytes ==
  ASSUME files \in Images, Initialised, NEW f \in 1 .. nfiles
  PROVE  LET data == read_fs(f + 1, 0, BufSize)
             len == Len(files[f].content)
         IN /\ Len(data) = IF BufSize <= len THEN BufSize ELSE len
            /\ \A b \in 1 .. Len(data) : data[b] = files[f].content[b] /\ data[b] \in Octets
            /\ Len(data) \in Nat
<1> DEFINE content == files[f].content
           n == IF BufSize <= Len(content) THEN BufSize ELSE Len(content)
<1>1. content \in Seq(Octets) /\ Len(content) \in Nat /\ BufSize \in Nat
  BY ImageTypes, InitrdAssumption
<1>2. Min({0 + BufSize, Len(content)}) = n
  <2> HIDE DEF content
  <2> QED BY <1>1, MinOfTwo
<1>3. read_fs(f + 1, 0, BufSize) = SubSeq(content, 1, n)
  <2> HIDE DEF n
  <2>1. read_fs(f + 1, 0, BufSize) = SubSeq(content, 0 + 1, Min({0 + BufSize, Len(content)}))
    BY <1>1, ReadsContent
  <2>2. 0 + 1 = 1
    OBVIOUS
  <2> QED BY <1>2, <2>1, <2>2
<1>4. n \in Nat /\ n <= Len(content)
  <2> HIDE DEF content
  <2> QED BY <1>1
<1>5. /\ Len(SubSeq(content, 1, n)) = n
      /\ \A b \in 1 .. n : SubSeq(content, 1, n)[b] = content[b] /\ content[b] \in Octets
  <2> HIDE DEF content, n
  <2> QED BY <1>1, <1>4
<1> HIDE DEF content
<1> QED BY <1>3, <1>4, <1>5 DEF content

LEMMA PrintStep == InitrdInv /\ (directory \/ file) => InitrdInv'
<1>1. ASSUME InitrdInv, directory PROVE InitrdInv'
  <2>1. /\ files \in Images /\ Listed /\ Initialised /\ i < nroot_nodes /\ initrdStage = "directory"
        /\ node = finddir_fs(0, root_dirents[i]) /\ root_nodes[node].directory
    BY <1>1 DEF InitrdInv, directory
  <2>2. /\ UNCHANGED <<files, file_headers, root_nodes, root_dirents, node, buf>>
        /\ printed' = [printed EXCEPT ![i] = Directory] /\ i' = i + 1 /\ initrdStage' = "readdir"
    BY <1>1 DEF directory
  <2>3. ASSUME NEW k \in 1 .. nfiles, i = k + 1, Findable(k) PROVE FALSE
    <3>1. node = k + 1 /\ ~root_nodes[k + 1].directory
      BY <2>1, <2>3, FindsFile, NameOfNode
    <3> QED BY <2>1, <3>1
  <2>4. Listed' /\ PrintsText'
    BY <1>1, <2>1, <2>2, <2>3, NodePrinted DEF Listed
  <2>5. Initialised'
    BY <2>1, <2>2 DEF Initialised, nfiles, nroot_nodes
  <2> QED BY <2>1, <2>2, <2>4, <2>5 DEF InitrdInv
<1>2. ASSUME InitrdInv, file PROVE InitrdInv'
  <2>1. /\ files \in Images /\ Listed /\ Initialised /\ i < nroot_nodes /\ initrdStage = "file"
        /\ node = finddir_fs(0, root_dirents[i]) /\ ~root_nodes[node].directory
    BY <1>2 DEF InitrdInv, file
  <2> DEFINE data == read_fs(node, 0, BufSize)
             filled == [b \in 1 .. BufSize |-> IF b <= Len(data) THEN data[b] ELSE buf[b]]
  <2>2. PICK string \in StringsIn(filled) : printed' = [printed EXCEPT ![i] = string]
    BY <1>2 DEF file
  <2>3. /\ UNCHANGED <<files, file_headers, root_nodes, root_dirents, node>>
        /\ buf' = Cleared /\ i' = i + 1 /\ initrdStage' = "readdir"
    BY <1>2 DEF file, Cleared
  <2>4. PICK f \in 1 .. nfiles : node = f + 1
    <3>1. i \in 0 .. nroot_nodes - 1
      BY <2>1, ImageTypes DEF Listed
    <3> QED BY <2>1, <3>1, FileNode
  <2>5. /\ Len(data) = IF BufSize <= Len(files[f].content) THEN BufSize ELSE Len(files[f].content)
        /\ \A b \in 1 .. Len(data) : data[b] = files[f].content[b] /\ data[b] \in Octets
        /\ Len(data) \in Nat
    BY <2>1, <2>4, FirstBytes
  <2>6. /\ filled \in [1 .. BufSize -> Octets] /\ BufSize \in Nat
        /\ Len(files[f].content) \in Nat
    <3>1. BufSize \in Nat /\ buf \in [1 .. BufSize -> Octets] /\ Len(files[f].content) \in Nat
      BY <2>1, ImageTypes, InitrdAssumption DEF Listed
    <3> HIDE DEF data
    <3> QED BY <2>5, <3>1
  <2>7. string \in Seq(Octets)
    <3>1. \A j \in 1 .. 0 : filled[j] # NUL
      OBVIOUS
    <3> HIDE DEF filled
    <3> QED BY <2>2, <2>6, <3>1, StringOf
  <2>8. Cleared \in [1 .. BufSize -> Octets]
    BY DEF Cleared, NUL, Octets
  <2>9. ASSUME NEW k \in 1 .. nfiles, i = k + 1, Findable(k)
        PROVE  /\ SubSeq(string, 1, Len(Text(k))) = Text(k)
               /\ Len(Text(k)) < BufSize /\ buf = Cleared => string = Text(k)
    <3>1. f = k
      BY <2>1, <2>4, <2>9, FindsFile, NameOfNode
    <3>2. PICK n \in Nat :
            /\ n <= Len(files[k].content) /\ n <= BufSize
            /\ Text(k) = [j \in 1 .. n |-> files[k].content[j]] /\ Len(Text(k)) = n
            /\ \A j \in 1 .. n : files[k].content[j] # NUL
            /\ n < BufSize /\ n < Len(files[k].content) => files[k].content[n + 1] = NUL
      BY <2>1, TextOf
    <3> HIDE DEF data
    <3>3. n <= Len(data) /\ \A j \in 1 .. n : filled[j] = files[k].content[j]
      BY <2>5, <2>6, <3>1, <3>2
    <3>4. n < BufSize /\ buf = Cleared => filled[n + 1] = NUL
      <4>1. ASSUME n < BufSize, buf = Cleared PROVE filled[n + 1] = NUL
        <5>1. n + 1 \in 1 .. BufSize
          BY <2>6, <4>1
        <5>2. CASE n + 1 <= Len(data)
          BY <2>5, <2>6, <3>1, <3>2, <4>1, <5>1, <5>2
        <5>3. CASE ~(n + 1 <= Len(data))
          BY <4>1, <5>1, <5>3 DEF Cleared
        <5> QED BY <5>2, <5>3
      <4> QED BY <4>1
    <3> HIDE DEF filled
    <3>5. \A j \in 1 .. n : filled[j] # NUL
      BY <3>2, <3>3
    <3>6. /\ SubSeq(string, 1, n) = [j \in 1 .. n |-> filled[j]]
          /\ n < BufSize /\ filled[n + 1] = NUL => string = [j \in 1 .. n |-> filled[j]]
      BY <2>2, <2>6, <3>2, <3>5, StringOf
    <3>7. [j \in 1 .. n |-> filled[j]] = Text(k)
      BY <3>2, <3>3
    <3> QED BY <3>2, <3>4, <3>6, <3>7
  <2>10. Listed' /\ PrintsText'
    <3>1. string \notin {Nothing, Directory}
      BY <2>7, NoString
    <3> QED BY <1>2, <2>1, <2>2, <2>3, <2>7, <2>8, <2>9, <3>1, NodePrinted
  <2>11. Initialised'
    BY <2>1, <2>3 DEF Initialised, nfiles, nroot_nodes
  <2> QED BY <2>1, <2>3, <2>10, <2>11 DEF InitrdInv
<1> QED BY <1>1, <1>2

LEMMA InitrdKept == InitrdInv /\ [InitrdNext]_initrdVars => InitrdInv'
  BY LoadStep, InitialiseStep, LookStep, PrintStep DEF InitrdNext

LEMMA InitrdAlways == InitrdSpec => []InitrdInv
  BY InitrdKept, InitrdStarts, PTL DEF InitrdSpec

\* For every image whose files do not overlap and every offset and size: a file that can
\* be found by its name reads as its content, cut at its end (initrd.c:15).
THEOREM FilesReadByName == InitrdSpec => []FilesByName
<1>1. InitrdInv => FilesByName
  <2> SUFFICES ASSUME InitrdInv, root_nodes # << >>, NEW k \in 1 .. nfiles, Findable(k),
                      NEW offset \in 0 .. MaxRead, NEW size \in 0 .. MaxRead
               PROVE  read_fs(finddir_fs(0, files[k].name), offset, size)
                        = SubSeq(files[k].content, offset + 1,
                                 Min({offset + size, Len(files[k].content)}))
    BY DEF FilesByName
  <2>1. files \in Images /\ Initialised
    BY DEF InitrdInv
  <2>2. offset \in Nat /\ size \in Nat
    BY InitrdAssumption
  <2> QED BY <2>1, <2>2, FindsFile, ReadsContent
<1> QED BY <1>1, InitrdAlways, PTL

\* For every image and every size of the buffer: each file that can be found is printed
\* from its first byte, and nothing of an earlier file follows it (kernel.c:213).
THEOREM TextPrinted == InitrdSpec => []PrintsText
<1>1. InitrdInv => PrintsText
  BY DEF InitrdInv
<1> QED BY <1>1, InitrdAlways, PTL

------------------------------------------------------------------------------
\* The types of the file systems' variables.
HeapLeft == heapUsed \in 0 .. Heap

LEMMA HeapLeftKept ==
  ASSUME HeapLeft, [FsNext]_fsVars
  PROVE  HeapLeft'
<1>1. ASSUME NEW n \in Opened, NEW index \in 0 .. InodeWords - 1, f_malloc(n, index)
      PROVE  HeapLeft'
  <2>1. NoPointer # Block(heapUsed)
    BY DEF HeapLeft, NoPointer, Block
  <2>2. heapUsed' = IF heapUsed < Heap THEN heapUsed + 1 ELSE heapUsed
    BY <1>1, <2>1 DEF f_malloc
  <2> QED BY <2>2, SimpleFsAssumption DEF HeapLeft
<1>2. CASE UNCHANGED heapUsed
  BY <1>2 DEF HeapLeft
<1> QED BY <1>1, <1>2 DEF FsNext, fsVars, initRamFS, fopen, f_write

LEMMA FsTypes == BitmapsInv /\ ContentsInv /\ HeapLeft => FsTypeOK
<1> SUFFICES ASSUME BitmapsInv, ContentsInv, HeapLeft PROVE FsTypeOK
  OBVIOUS
<1>1. inode_bitmap \subseteq 0 .. Inodes - 1
  BY Sizes DEF BitmapsInv, InodesInOrder
<1>2. dnode_bitmap \subseteq 0 .. BitmapBits - 1
  <2>1. Len(stored) \in Nat /\ Len(stored) <= IntBits
    BY DEF BitmapsInv, BlocksInOrder
  <2>2. dnode_bitmap = 0 .. Len(stored) - 1 \/ dnode_bitmap = 0 .. BitmapBits - 1
    BY <2>1, SimpleFsAssumption DEF BitmapsInv, BlocksInOrder
  <2>3. Len(stored) <= BitmapBits
    BY <2>1, SimpleFsAssumption
  <2> QED BY <2>1, <2>2, <2>3, SimpleFsAssumption
<1>3. \A w \in DOMAIN words : words[w] \in Nat
  BY DEF ContentsInv
<1> QED BY <1>1, <1>2, <1>3 DEF HeapLeft, FsTypeOK

\* The node _start looks at, and what there is before the image is read.
NodeKnown ==
  /\ node \in {NoNode} \cup 0 .. nroot_nodes - 1
  /\ initrdStage \in {"image", "initialise_initrd"} => node = NoNode /\ root_dirents = << >>
  /\ initrdStage = "image" => file_headers = << >>

LEMMA NodeKnownKept == InitrdInv /\ NodeKnown /\ [InitrdNext]_initrdVars => NodeKnown'
<1> SUFFICES ASSUME InitrdInv, NodeKnown, [InitrdNext]_initrdVars PROVE NodeKnown'
  OBVIOUS
<1>1. CASE loadImage
  BY <1>1 DEF loadImage, NodeKnown
<1>2. CASE initialise_initrd \/ readdir_fs \/ directory \/ file \/ UNCHANGED initrdVars
  <2>1. nroot_nodes' = nroot_nodes /\ node' = node
    BY <1>2 DEF initialise_initrd, readdir_fs, directory, file, initrdVars, nroot_nodes, nfiles
  <2>2. /\ initrdStage' \in {"image", "initialise_initrd"} =>
             initrdStage' = initrdStage /\ root_dirents' = root_dirents
        /\ initrdStage' = "image" => file_headers' = file_headers
    BY <1>2 DEF initialise_initrd, readdir_fs, directory, file, initrdVars
  <2> QED BY <2>1, <2>2 DEF NodeKnown
<1>3. CASE finddir
  <2>1. files \in Images /\ Initialised
    BY <1>3 DEF InitrdInv, finddir
  <2>2. nroot_nodes \in Nat
    BY <2>1, ImageTypes
  <2> DEFINE named == {n \in 0 .. nroot_nodes - 1 : root_dirents[n] = root_dirents[i]}
  <2>3. node' \in {NoNode} \cup 0 .. nroot_nodes - 1
    <3>1. node' = NoNode \/ (named # {} /\ node' = Min(named))
      BY <1>3 DEF finddir, finddir_fs, initrd_finddir
    <3>2. named \in SUBSET Nat /\ named \subseteq 0 .. nroot_nodes - 1
      BY <2>2
    <3>3. named # {} => Min(named) \in named
      <4> HIDE DEF named
      <4> QED BY <3>2, MinIsLeast
    <3> QED BY <3>1, <3>2, <3>3
  <2>4. nroot_nodes' = nroot_nodes /\ initrdStage' \in {"directory", "file"}
    BY <1>3 DEF finddir, nroot_nodes, nfiles
  <2> QED BY <2>3, <2>4 DEF NodeKnown
<1> QED BY <1>1, <1>2, <1>3 DEF InitrdNext

LEMMA InitrdTypes == InitrdInv /\ NodeKnown => InitrdTypeOK
<1> SUFFICES ASSUME InitrdInv, NodeKnown PROVE InitrdTypeOK
  OBVIOUS
<1>1. CASE initrdStage = "image"
  <2>1. /\ file_headers = << >> /\ root_dirents = << >> /\ root_nodes = << >> /\ files = << >> /\ i = 0
    BY <1>1 DEF InitrdInv, NodeKnown
  <2>2. i \in 0 .. nroot_nodes /\ DOMAIN file_headers = {}
    BY <2>1 DEF nroot_nodes, nfiles
  <2> QED BY <1>1, <2>1, <2>2 DEF InitrdTypeOK, NodeKnown
<1>2. CASE initrdStage # "image"
  <2>1. files \in Images /\ Listed
    BY <1>2 DEF InitrdInv
  <2>2. /\ nfiles \in Nat /\ location \in Nat
        /\ \A k \in 1 .. nfiles : files[k].start \in Nat
    BY <2>1, ImageTypes, InitrdAssumption
  <2>3. \A k \in DOMAIN file_headers :
          file_headers[k].offset \in {files[k].start, location + files[k].start}
    <3>1. CASE initrdStage = "initialise_initrd"
      BY <3>1, <2>2 DEF InitrdInv
    <3>2. CASE initrdStage # "initialise_initrd"
      BY <1>2, <2>2, <3>2 DEF InitrdInv, Initialised
    <3> QED BY <3>1, <3>2
  <2>4. DOMAIN root_nodes = DOMAIN root_dirents
    <3>1. CASE initrdStage = "initialise_initrd"
      BY <3>1 DEF InitrdInv, NodeKnown
    <3>2. CASE initrdStage # "initialise_initrd"
      BY <1>2, <3>2 DEF InitrdInv, Initialised
    <3> QED BY <3>1, <3>2
  <2>5. /\ i \in 0 .. nroot_nodes /\ buf \in [1 .. BufSize -> Octets]
        /\ DOMAIN printed = 0 .. nroot_nodes - 1
    BY <2>1 DEF Listed
  <2>6. initrdStage \in {"image", "initialise_initrd", "readdir", "finddir", "directory", "file", "done"}
    BY DEF InitrdInv
  <2>7. node \in {NoNode} \cup 0 .. nroot_nodes - 1
    BY DEF NodeKnown
  <2> QED BY <2>3, <2>4, <2>5, <2>6, <2>7 DEF InitrdTypeOK
<1> QED BY <1>1, <1>2

------------------------------------------------------------------------------
\* The services side by side.
TypesInv ==
  /\ AcpiInv
  /\ InitrdInv /\ NodeKnown
  /\ BitmapsInv /\ ContentsInv /\ HeapLeft
  /\ PagingShapes
  /\ LibTypeOK

\* A step is a step of each service or leaves it as it is.
LEMMA StepOfEach ==
  ASSUME [Next]_vars
  PROVE  /\ [AcpiNext]_acpiVars /\ [InitrdNext]_initrdVars /\ [FsNext]_fsVars
         /\ [PagingNext]_pagingVars /\ [LibNext]_libVars
<1>1. CASE AcpiStep
  BY <1>1 DEF AcpiStep
<1>2. CASE InitrdStep
  BY <1>2 DEF InitrdStep
<1>3. CASE FsStep
  BY <1>3 DEF FsStep
<1>4. CASE PagingStep
  BY <1>4 DEF PagingStep
<1>5. CASE LibStep
  BY <1>5 DEF LibStep
<1>6. CASE UNCHANGED vars
  BY <1>6 DEF vars
<1> QED BY <1>1, <1>2, <1>3, <1>4, <1>5, <1>6 DEF Next

LEMMA TypesStart == Init => TypesInv
<1> SUFFICES ASSUME Init PROVE TypesInv
  OBVIOUS
<1>1. AcpiInv
  BY AcpiStarts DEF Init
<1>2. InitrdInv /\ NodeKnown
  <2>1. NodeKnown
    BY DEF Init, InitrdInit, NodeKnown
  <2> QED BY <2>1, InitrdStarts DEF Init
<1>3. BitmapsInv /\ ContentsInv /\ HeapLeft
  <2>1. HeapLeft
    BY SimpleFsAssumption DEF Init, FsInit, HeapLeft
  <2> QED BY <2>1, BitmapsInit, ContentsInit DEF Init
<1>4. PagingShapes
  BY ShapesStart DEF Init
<1>5. LibTypeOK
  BY LibTypesStart DEF Init
<1> QED BY <1>1, <1>2, <1>3, <1>4, <1>5 DEF TypesInv

LEMMA TypesKept == TypesInv /\ [Next]_vars => TypesInv'
<1> SUFFICES ASSUME TypesInv, [Next]_vars PROVE TypesInv'
  OBVIOUS
<1>1. AcpiInv'
  BY StepOfEach, AcpiKept DEF TypesInv
<1>2. InitrdInv' /\ NodeKnown'
  BY StepOfEach, InitrdKept, NodeKnownKept DEF TypesInv
<1>3. BitmapsInv' /\ ContentsInv' /\ HeapLeft'
  BY StepOfEach, BitmapsNext, ContentsNext, HeapLeftKept DEF TypesInv
<1>4. PagingShapes'
  BY StepOfEach, ShapesKept DEF TypesInv
<1>5. LibTypeOK'
  BY StepOfEach, LibTypesKept DEF TypesInv
<1> QED BY <1>1, <1>2, <1>3, <1>4, <1>5 DEF TypesInv

\* For every descriptor, table, image, size of the file system, page and memory: each
\* service keeps the types of its variables, whatever the others do.
THEOREM ServiceTypes == Spec => []ServicesTypeOK
<1>1. TypesInv => ServicesTypeOK
  <2>1. AcpiInv => AcpiTypeOK
    BY DEF AcpiInv
  <2> QED BY <2>1, InitrdTypes, FsTypes, ShapesSuffice DEF TypesInv, ServicesTypeOK
<1> QED BY <1>1, TypesStart, TypesKept, PTL DEF Spec
==============================================================================
