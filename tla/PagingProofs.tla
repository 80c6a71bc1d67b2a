----------------------------- MODULE PagingProofs ----------------------------
(***************************************************************************)
(* Proofs about Paging for every set of pages, frames and flags, every     *)
(* tree of tables the boot loader left and every number of blocks: a       *)
(* mapped page leads where it was mapped, between any two stores of        *)
(* mapPage and whatever the processor remembers.                           *)
(*                                                                         *)
(* The argument: the ways of two pages meet in a table only if the pages   *)
(* have the same indices up to it.  The boot loader's tables are a tree,   *)
(* and mapPage points an entry only to a block k_malloc has just given.    *)
(* The entry mapPage works on is then on the way of a page that is mapped  *)
(* only if that page shares its table, and there the entry was found       *)
(* present and is left alone.  All this is about the pages outside the     *)
(* large pages; the types hold in any case.                                *)
(***************************************************************************)
EXTENDS Paging, TLAPS

\* The pages mapPage may be called for.
Small == {page \in Pages : ~InLargePage(page)}

\* Where the entry of a level leads, present or not; no table is behind a large page.
Link(t, i, l) ==
  IF t \in PageTables /\ ~(l < 4 /\ tables[t][i].null)
  THEN tables[t][i].physical_address ELSE NoFrame

\* The table of each level on the way of a page, and its frame.
Path(page) ==
  LET second == Link(Root, page[1], 1)
      third == Link(second, page[2], 2)
      fourth == Link(third, page[3], 3)
  IN <<Root, second, third, fourth, Link(fourth, page[4], 4)>>

Given == {Blocks[k] : k \in 1 .. given}
Working == pagingStage \in {"entry", "address", "flushTLB", "fault", "lost"}

\* mapPage has stored the flags of the entry number i of t, but not the address.
Storing(t, i) == pagingStage = "address" /\ t = table /\ i = call.page[level]

\* The entry of page at a level is there and present.
PresentAt(page, l) ==
  Path(page)[l] \in PageTables /\ tables[Path(page)[l]][page[l]].present
Complete(page) == \A l \in 1 .. 4 : PresentAt(page, l)
Blocked(page) == \E l \in 1 .. 4 : Storing(Path(page)[l], page[l])

\* What holds whatever mapPage was called for.
PagingShapes ==
  /\ tables \in [PageTables -> [Indices -> PageEntry]]
  /\ given \in 0 .. Len(Blocks)
  /\ pagingStage \in {"initPML4", "idle", "entry", "address", "flushTLB", "fault", "lost"}
  /\ pml4 = IF pagingStage = "initPML4" THEN NoFrame ELSE Root
  /\ mapped \in [Pages -> Calls \cup {NotMapped}]
  /\ pagingStage = "initPML4" => \A page \in Pages : mapped[page] = NotMapped
  /\ tlb \in [Pages -> Nat \cup {NoFrame}]
  /\ Working => call \in Calls /\ level \in 1 .. 4
                /\ (pagingStage # "lost" => table \in PageTables)
  /\ ~Working => call = NotMapped /\ level = 0 /\ table = NoFrame
  /\ pagingStage = "address" /\ level = 4 => target = call.frame
  /\ pagingStage = "address" /\ level # 4 => target = Blocks[given] /\ given > 0

\* The tables on the pages' ways are the boot loader's and the blocks given, and two
\* ways that meet are the same so far.
Ways ==
  /\ \A page \in Small, l \in 1 .. 4 :
       Path(page)[l] \in PageTables => Path(page)[l] \in DOMAIN Boot \cup Given
  /\ \A p, q \in Small, k, m \in 1 .. 4 :
       Path(p)[k] = Path(q)[m] /\ Path(p)[k] \in PageTables =>
         k = m /\ \A l \in 1 .. 4 : l < k => p[l] = q[l]

\* None of them goes through a large page.
NoLarge ==
  \A page \in Small, l \in 1 .. 3 :
    Path(page)[l] \in PageTables => ~tables[Path(page)[l]][page[l]].null

\* Where mapPage is.
Progress ==
  Working =>
    /\ pagingStage # "lost" /\ call.page \in Small
    /\ table = Path(call.page)[level]
    /\ pagingStage = "flushTLB" => level = 4
    /\ 1 \in call.flags => \A l \in 1 .. level - 1 : PresentAt(call.page, l)
    /\ pagingStage \in {"address", "flushTLB"} =>
         tables[table][call.page[level]].present = (1 \in call.flags)
    /\ pagingStage = "flushTLB" =>
         tables[table][call.page[level]].physical_address = call.frame

\* The block an entry is about to point to: no way leads to it, and it is empty.
NewBlock ==
  pagingStage = "address" /\ level # 4 =>
    /\ target # table /\ tables[target] = EmptyTable(target)
    /\ \A page \in Small, l \in 1 .. 4 : Path(page)[l] # target

\* Present entries of the first three levels lead to tables.
InnerEntries ==
  \A page \in Small, l \in 1 .. 3 :
    PresentAt(page, l) /\ ~Storing(Path(page)[l], page[l]) => Path(page)[l + 1] \in PageTables

\* A page that is mapped as present, and that mapPage is not working on.
MappedLead ==
  \A page \in Small : Settled(page) /\ PresentFlag(page) =>
    /\ Complete(page) /\ ~Blocked(page)
    /\ Path(page)[5] = mapped[page].frame
    /\ tlb[page] \in {NoFrame, mapped[page].frame}

\* A page that is mapped as not present has not all its entries present, except while
\* an address is missing.
OthersDoNot ==
  \A page \in Small : mapped[page] # NotMapped /\ Complete(page) =>
    \/ PresentFlag(page)
    \/ Working /\ page = call.page
    \/ Blocked(page)

\* mapPage has returned for no other page.
MappedSmall == \A page \in Pages : mapped[page] # NotMapped => page \in Small

PagingInv ==
  /\ PagingShapes
  /\ Ways /\ NoLarge /\ Progress /\ NewBlock
  /\ InnerEntries /\ MappedLead /\ OthersDoNot
  /\ MappedSmall

PagingIInv == PagingShapes /\ (~intoLarge => PagingInv)

------------------------------------------------------------------------------
LEMMA ModSmall == ASSUME NEW a \in Nat, NEW b \in Nat, a < b PROVE a % b = a
BY SMT

\* The two numbers of an empty table, and tables, are different things.
LEMMA Kinds ==
  /\ Root \in PageTables /\ Root \in DOMAIN Boot /\ 0 \in Indices
  /\ \A t \in PageTables : t \in 2 .. ShiftFrames - 1 /\ Shift(t) = t
  /\ \A k \in 1 .. Len(Blocks) : Blocks[k] \in PageTables /\ Blocks[k] \notin DOMAIN Boot
  /\ \A j, k \in 1 .. Len(Blocks) : Blocks[j] = Blocks[k] => j = k
  /\ \A t \in {0, 1, NoFrame} : t \notin PageTables
  /\ \A t \in PageTables : t \in DOMAIN Boot \/ \E k \in 1 .. Len(Blocks) : t = Blocks[k]
<1>1. DOMAIN Blocks = 1 .. Len(Blocks) /\ \A k \in 1 .. Len(Blocks) : Blocks[k] \in 2 .. ShiftFrames - 1
  BY PagingAssumption
<1>2. PageTables = DOMAIN Boot \cup {Blocks[k] : k \in 1 .. Len(Blocks)}
  BY <1>1 DEF PageTables, ToSet
<1>3. \A t \in PageTables : t \in 2 .. ShiftFrames - 1
  BY <1>1, <1>2, PagingAssumption
<1>4. \A t \in PageTables : Shift(t) = t
  BY <1>3, ModSmall, PagingAssumption DEF Shift
<1>5. \A t \in {0, 1, NoFrame} : t \notin PageTables
  BY <1>3 DEF NoFrame
<1>6. \A k \in 1 .. Len(Blocks) : Blocks[k] \in PageTables /\ Blocks[k] \notin DOMAIN Boot
  BY <1>1, <1>2, PagingAssumption DEF ToSet
<1>7. Root \in DOMAIN Boot
  BY PagingAssumption DEF BootTree
<1>. QED
  BY <1>1, <1>2, <1>3, <1>4, <1>5, <1>6, <1>7, PagingAssumption DEF IsInjective

\* A page is its four indices, and its path follows them.
LEMMA PageIndices ==
  ASSUME NEW page \in Pages
  PROVE  /\ \A l \in 1 .. 4 : page[l] \in Indices
         /\ page = <<page[1], page[2], page[3], page[4]>>
BY PagingAssumption

LEMMA PathSteps ==
  ASSUME NEW page
  PROVE  /\ Path(page)[1] = Root /\ Path(page)'[1] = Root
         /\ \A l \in 1 .. 4 : Path(page)[l + 1] = Link(Path(page)[l], page[l], l)
         /\ \A l \in 1 .. 4 : \A t : t = Path(page)'[l] => Path(page)'[l + 1] = Link(t, page[l], l)'
<1>1. /\ Path(page)[1] = Root
      /\ Path(page)[2] = Link(Path(page)[1], page[1], 1)
      /\ Path(page)[3] = Link(Path(page)[2], page[2], 2)
      /\ Path(page)[4] = Link(Path(page)[3], page[3], 3)
      /\ Path(page)[5] = Link(Path(page)[4], page[4], 4)
  BY DEF Path
<1>2. /\ Path(page)'[1] = Root
      /\ \A t : t = Path(page)'[1] => Path(page)'[2] = Link(t, page[1], 1)'
      /\ \A t : t = Path(page)'[2] => Path(page)'[3] = Link(t, page[2], 2)'
      /\ \A t : t = Path(page)'[3] => Path(page)'[4] = Link(t, page[3], 3)'
      /\ \A t : t = Path(page)'[4] => Path(page)'[5] = Link(t, page[4], 4)'
  BY DEF Path, Link
<1>3. \A l \in 1 .. 4 : l = 1 \/ l = 2 \/ l = 3 \/ l = 4
  OBVIOUS
<1>. QED
  BY <1>1, <1>2, <1>3

\* As long as the links of a page's first levels stay, so does that part of its path.
LEMMA PathKept ==
  ASSUME NEW page, NEW n \in 1 .. 5,
         \A l \in 1 .. 4 : \A t, i : l < n /\ t = Path(page)[l] /\ i = page[l] =>
           Link(t, i, l)' = Link(t, i, l)
  PROVE  \A l \in 1 .. n : Path(page)'[l] = Path(page)[l]
<1>. DEFINE Same(l) == Path(page)'[l] = Path(page)[l]
<1>1. Same(1)
  BY PathSteps
<1>2. ASSUME NEW l \in 1 .. 4, Same(l), l < n PROVE Same(l + 1)
  BY <1>2, PathSteps
<1>3. \A l \in 1 .. n : l = 1 \/ l = 2 \/ l = 3 \/ l = 4 \/ l = 5
  OBVIOUS
<1>. QED
  BY <1>1, <1>2, <1>3

\* Steps that leave the tables alone leave every way alone.
LEMMA TablesKept ==
  ASSUME tables' = tables, given' = given
  PROVE  /\ \A page, l : Path(page)'[l] = Path(page)[l]
         /\ \A page, l : PresentAt(page, l)' <=> PresentAt(page, l)
         /\ \A page : Complete(page)' <=> Complete(page)
         /\ Ways => Ways'
         /\ NoLarge => NoLarge'
         /\ Given' = Given /\ Small' = Small
<1>1. ASSUME NEW page PROVE Path(page)' = Path(page)
  BY DEF Path, Link
<1>2. \A page, l : PresentAt(page, l)' <=> PresentAt(page, l)
  BY <1>1 DEF PresentAt
<1>3. \A page : Complete(page)' <=> Complete(page)
  BY <1>2 DEF Complete
<1>4. Given' = Given
  BY DEF Given
<1>. QED
  BY <1>1, <1>2, <1>3, <1>4 DEF Ways, NoLarge, Small

\* The ways through the boot loader's tables: the table of each level is one of that
\* level, and there is one entry that leads to it.
LEMMA BootWays ==
  ASSUME PagingInit, PagingShapes, NEW page \in Pages, NEW l \in 1 .. 4, Path(page)[l] \in PageTables
  PROVE  /\ Path(page)[l] \in DOMAIN Boot /\ Boot[Path(page)[l]].level = l
         /\ l > 1 => /\ Path(page)[l - 1] \in DOMAIN Boot /\ page[l - 1] \in Indices
                     /\ BootLeads(Path(page)[l - 1], page[l - 1])
                     /\ Boot[Path(page)[l - 1]].entries[page[l - 1]].physical_address = Path(page)[l]
<1>. DEFINE At(n) == Path(page)[n]
            Level(n) == At(n) \in PageTables => At(n) \in DOMAIN Boot /\ Boot[At(n)].level = n
            Behind(n) == At(n + 1) \in PageTables =>
                           /\ At(n) \in DOMAIN Boot /\ BootLeads(At(n), page[n])
                           /\ Boot[At(n)].entries[page[n]].physical_address = At(n + 1)
<1>1. \A t \in PageTables : tables[t] = IF t \in DOMAIN Boot THEN Boot[t].entries ELSE [i \in Indices |-> Zero]
  BY DEF PagingInit
<1>2. Level(1)
  BY PathSteps, PagingAssumption DEF BootTree
<1>3. ASSUME NEW n \in 1 .. 3, Level(n) PROVE Level(n + 1) /\ Behind(n)
  <2>. SUFFICES ASSUME At(n + 1) \in PageTables
       PROVE  /\ At(n) \in DOMAIN Boot /\ BootLeads(At(n), page[n])
              /\ Boot[At(n)].entries[page[n]].physical_address = At(n + 1)
              /\ At(n + 1) \in DOMAIN Boot /\ Boot[At(n + 1)].level = n + 1
    OBVIOUS
  <2>1. /\ At(n) \in PageTables /\ ~tables[At(n)][page[n]].null
        /\ tables[At(n)][page[n]].physical_address = At(n + 1)
        /\ page[n] \in Indices
    BY PathSteps, PageIndices, Kinds DEF Link
  <2>2. At(n) \in DOMAIN Boot /\ Boot[At(n)].level = n /\ tables[At(n)] = Boot[At(n)].entries
    BY <1>1, <1>3, <2>1
  <2>3. Boot[At(n)].entries[page[n]] # Zero
    BY <2>1, <2>2, Kinds DEF Zero
  <2>4. BootLeads(At(n), page[n])
    BY <2>1, <2>2, <2>3, PagingAssumption DEF BootTree, BootLeads
  <2>. QED
    BY <2>1, <2>2, <2>4, PagingAssumption DEF BootTree
<1>. HIDE DEF Level, Behind
<1>4. Level(1) /\ Level(2) /\ Level(3) /\ Level(4) /\ Behind(1) /\ Behind(2) /\ Behind(3)
  <2>1. Level(2) /\ Behind(1)
    BY <1>2, <1>3
  <2>2. Level(3) /\ Behind(2)
    BY <2>1, <1>3
  <2>3. Level(4) /\ Behind(3)
    BY <2>2, <1>3
  <2>. QED
    BY <1>2, <2>1, <2>2, <2>3
<1>5. l = 1 \/ l = 2 \/ l = 3 \/ l = 4
  OBVIOUS
<1>. QED
  BY <1>4, <1>5, PageIndices DEF Level, Behind

LEMMA WaysStart == PagingInit /\ PagingShapes => Ways
<1>. SUFFICES ASSUME PagingInit, PagingShapes PROVE Ways
  OBVIOUS
<1>1. \A page \in Small : page \in Pages
  BY DEF Small
<1>2. ASSUME NEW p \in Small, NEW q \in Small, NEW k \in 1 .. 4, NEW m \in 1 .. 4,
             Path(p)[k] = Path(q)[m], Path(p)[k] \in PageTables
      PROVE  /\ k = m
             /\ k > 1 => Path(p)[k - 1] = Path(q)[k - 1] /\ Path(p)[k - 1] \in PageTables
                         /\ p[k - 1] = q[k - 1]
  <2>1. k = m
    BY <1>1, <1>2, BootWays
  <2>2. ASSUME k > 1
        PROVE  Path(p)[k - 1] = Path(q)[k - 1] /\ Path(p)[k - 1] \in DOMAIN Boot /\ p[k - 1] = q[k - 1]
    <3>1. /\ Path(p)[k - 1] \in DOMAIN Boot /\ p[k - 1] \in Indices
          /\ BootLeads(Path(p)[k - 1], p[k - 1])
          /\ Boot[Path(p)[k - 1]].entries[p[k - 1]].physical_address = Path(p)[k]
      BY <1>1, <1>2, <2>2, BootWays
    <3>2. /\ Path(q)[k - 1] \in DOMAIN Boot /\ q[k - 1] \in Indices
          /\ BootLeads(Path(q)[k - 1], q[k - 1])
          /\ Boot[Path(q)[k - 1]].entries[q[k - 1]].physical_address = Path(p)[k]
      BY <1>1, <1>2, <2>1, <2>2, BootWays
    <3>3. BootTree
      BY PagingAssumption
    <3>. QED
      BY <3>1, <3>2, <3>3 DEF BootTree
  <2>. QED
    BY <2>1, <2>2 DEF PageTables
<1>3. ASSUME NEW p \in Small, NEW q \in Small, NEW k \in 1 .. 4,
             Path(p)[k] = Path(q)[k], Path(p)[k] \in PageTables
      PROVE  \A l \in 1 .. 4 : l < k => p[l] = q[l]
  <2>. DEFINE Meet(n) == Path(p)[n] = Path(q)[n] /\ Path(p)[n] \in PageTables
  <2>1. \A n \in 1 .. 4 : Meet(n) /\ n > 1 => Meet(n - 1) /\ p[n - 1] = q[n - 1]
    BY <1>2
  <2>. HIDE DEF Meet
  <2>2. Meet(k)
    BY <1>3 DEF Meet
  <2>3. Meet(4) => Meet(3) /\ p[3] = q[3]
    BY <2>1
  <2>4. Meet(3) => Meet(2) /\ p[2] = q[2]
    BY <2>1
  <2>5. Meet(2) => p[1] = q[1]
    BY <2>1
  <2>6. k = 1 \/ k = 2 \/ k = 3 \/ k = 4
    OBVIOUS
  <2>7. \A l \in 1 .. 4 : l < k => l \in {1, 2, 3}
    OBVIOUS
  <2>. QED
    BY <2>2, <2>3, <2>4, <2>5, <2>6, <2>7
<1>4. \A page \in Small, l \in 1 .. 4 : Path(page)[l] \in PageTables => Path(page)[l] \in DOMAIN Boot
  BY <1>1, BootWays
<1>5. ASSUME NEW p \in Small, NEW q \in Small, NEW k \in 1 .. 4, NEW m \in 1 .. 4,
             Path(p)[k] = Path(q)[m], Path(p)[k] \in PageTables
      PROVE  k = m /\ \A l \in 1 .. 4 : l < k => p[l] = q[l]
  BY <1>2, <1>3, <1>5
<1>. QED
  BY <1>4, <1>5 DEF Ways

\* The way of a small page has no large page: InLargePage looks at the same entries.
LEMMA NoLargeStart == PagingInit /\ PagingShapes => NoLarge
<1>. SUFFICES ASSUME PagingInit, PagingShapes, NEW page \in Small, NEW l \in 1 .. 3,
                     Path(page)[l] \in PageTables, tables[Path(page)[l]][page[l]].null
     PROVE  FALSE
  BY DEF NoLarge
<1>. DEFINE Follow(t, i) == IF t \in DOMAIN Boot THEN Boot[t].entries[i].physical_address ELSE NoFrame
            LargeIn(t, i) == t \in DOMAIN Boot /\ Boot[t].entries[i].null
<1>0. page \in Pages
  BY DEF Small
<1>1. /\ ~LargeIn(Follow(Root, page[1]), page[2])
      /\ ~LargeIn(Follow(Follow(Root, page[1]), page[2]), page[3])
  BY DEF Small, InLargePage
<1>2. /\ Path(page)[l] \in DOMAIN Boot /\ Boot[Path(page)[l]].level = l
      /\ LargeIn(Path(page)[l], page[l])
  <2>1. Path(page)[l] \in DOMAIN Boot /\ Boot[Path(page)[l]].level = l
    BY <1>0, BootWays
  <2>2. tables[Path(page)[l]] = Boot[Path(page)[l]].entries
    BY <2>1 DEF PagingInit, PageTables
  <2>. QED
    BY <2>1, <2>2
<1>3. l # 1
  <2>1. page[l] \in Indices
    BY <1>0, PageIndices
  <2>. QED
    BY <1>2, <2>1, PagingAssumption DEF BootTree
<1>4. ASSUME NEW n \in 1 .. 3, Path(page)[n + 1] \in PageTables
      PROVE  Path(page)[n + 1] = Follow(Path(page)[n], page[n]) /\ Path(page)[n] \in PageTables
  <2>1. n + 1 \in 1 .. 4 /\ n + 1 > 1 /\ (n + 1) - 1 = n
    OBVIOUS
  <2>2. /\ Path(page)[n] \in DOMAIN Boot
        /\ Boot[Path(page)[n]].entries[page[n]].physical_address = Path(page)[n + 1]
    BY <1>0, <1>4, <2>1, BootWays
  <2>. QED
    BY <2>2 DEF PageTables
<1>. HIDE DEF Follow, LargeIn
<1>5. Path(page)[2] \in PageTables => Path(page)[2] = Follow(Root, page[1])
  BY <1>4, PathSteps
<1>6. Path(page)[3] \in PageTables =>
        Path(page)[3] = Follow(Path(page)[2], page[2]) /\ Path(page)[2] \in PageTables
  BY <1>4
<1>7. l = 2 \/ l = 3
  BY <1>3
<1>. QED
  BY <1>1, <1>2, <1>5, <1>6, <1>7

LEMMA ShapesStart == PagingInit => PagingShapes
<1>. SUFFICES ASSUME PagingInit PROVE PagingShapes
  OBVIOUS
<1>1. Zero \in PageEntry
  BY DEF Zero, PageEntry
<1>2. Len(Blocks) \in Nat
  BY PagingAssumption
<1>3. \A t \in DOMAIN Boot : Boot[t].entries \in [Indices -> PageEntry]
  BY PagingAssumption
<1>4. tables \in [PageTables -> [Indices -> PageEntry]]
  BY <1>1, <1>3 DEF PagingInit
<1>5. ~Working
  BY DEF PagingInit, Working
<1>. QED
  BY <1>2, <1>4, <1>5 DEF PagingInit, PagingShapes

LEMMA StartsWell == PagingInit => PagingInv
<1>. SUFFICES ASSUME PagingInit PROVE PagingInv
  OBVIOUS
<1>1. PagingShapes
  BY ShapesStart
<1>2. ~Working /\ \A page \in Pages : mapped[page] = NotMapped /\ ~Settled(page)
  BY DEF PagingInit, Working, Settled
<1>3. InnerEntries
  <2>. SUFFICES ASSUME NEW page \in Small, NEW l \in 1 .. 3, PresentAt(page, l)
       PROVE  Path(page)[l + 1] \in PageTables
    BY DEF InnerEntries
  <2>1. page \in Pages /\ page[l] \in Indices
    BY PageIndices DEF Small
  <2>2. Path(page)[l] \in DOMAIN Boot /\ Boot[Path(page)[l]].level = l
    BY <1>1, <2>1, BootWays DEF PresentAt
  <2>3. /\ Boot[Path(page)[l]].entries[page[l]].present
        /\ ~Boot[Path(page)[l]].entries[page[l]].null
        /\ Path(page)[l + 1] = Boot[Path(page)[l]].entries[page[l]].physical_address
    <3>1. /\ tables[Path(page)[l]] = Boot[Path(page)[l]].entries /\ Path(page)[l] \in PageTables
      BY <2>2 DEF PagingInit, PageTables
    <3>2. ~tables[Path(page)[l]][page[l]].null
      BY <1>1, <3>1, NoLargeStart DEF NoLarge
    <3>3. Path(page)[l + 1] = tables[Path(page)[l]][page[l]].physical_address
      BY <3>1, <3>2, PathSteps DEF Link
    <3>. QED
      BY <3>1, <3>2, <3>3 DEF PresentAt
  <2>. QED
    BY <2>1, <2>2, <2>3, PagingAssumption DEF BootTree, BootLeads, PageTables
<1>4. Progress /\ NewBlock /\ MappedLead /\ OthersDoNot
  BY <1>2 DEF Progress, NewBlock, MappedLead, OthersDoNot, Working, Small
<1>. QED
  BY <1>1, <1>2, <1>3, <1>4, WaysStart, NoLargeStart DEF PagingInv, MappedSmall

------------------------------------------------------------------------------
LEMMA FlagsOfEntry ==
  ASSUME NEW e \in PageEntry, NEW flags
  PROVE  /\ WithFlags(e, flags) \in PageEntry
         /\ WithFlags(e, flags).physical_address = e.physical_address
         /\ WithFlags(e, flags).present = (1 \in flags)
         /\ ~WithFlags(e, flags).null
<1>1. \A b, c, d, g, f \in BOOLEAN :
        [e EXCEPT !.present = b, !.writable = c, !.user_accessible = d, !.null = g, !.no_execute = f]
          \in PageEntry
  BY DEF PageEntry
<1>2. WithFlags(e, flags) \in PageEntry
  <2>1. /\ (1 \in flags) \in BOOLEAN /\ (2 \in flags) \in BOOLEAN
        /\ (3 \in flags) \in BOOLEAN /\ (7 \in flags) \in BOOLEAN /\ FALSE \in BOOLEAN
    OBVIOUS
  <2>. QED
    BY <1>1, <2>1, Zenon DEF WithFlags
<1>3. WithFlags(e, flags).physical_address = e.physical_address
  BY DEF WithFlags, PageEntry
<1>4. WithFlags(e, flags).present = (1 \in flags) /\ ~WithFlags(e, flags).null
  BY DEF WithFlags, PageEntry
<1>. QED
  BY <1>2, <1>3, <1>4

LEMMA EmptyEntries ==
  ASSUME NEW block
  PROVE  /\ EmptyTable(block) \in [Indices -> PageEntry]
         /\ \A i \in Indices : /\ ~EmptyTable(block)[i].present /\ ~EmptyTable(block)[i].null
                                /\ EmptyTable(block)[i].physical_address \in {0, 1}
BY DEF EmptyTable, Zero, BlockHeader, PageEntry

\* What a walk leads to is a frame's number.
LEMMA WalkTypes ==
  ASSUME PagingShapes, NEW page \in Pages, Walk(page).frame # NoFrame
  PROVE  Walk(page).frame \in Nat
<1>. DEFINE Places == Nat \cup {NoFrame}
            second == LookUp(Root, page[1])
            third == LookUp(second, page[2])
            fourth == LookUp(third, page[3])
<1>1. \A l \in 1 .. 4 : page[l] \in Indices /\ page[l] \in Nat
  BY PageIndices, PagingAssumption
<1>2. \A t \in PageTables, i \in Indices : tables[t][i].physical_address \in Nat
  BY DEF PagingShapes, PageEntry
<1>3. ASSUME NEW t \in Places, NEW i \in Indices
      PROVE  LookUp(t, i) \in Places /\ (LargePage(t, i) => LookUp(t, i) \in Nat)
  BY <1>2 DEF LookUp, LargePage
<1>4. Root \in Places
  BY Kinds
<1>. HIDE DEF Places
<1>5. second \in Places
  BY <1>1, <1>3, <1>4
<1>. HIDE DEF second
<1>6. third \in Places /\ (LargePage(second, page[2]) => third \in Nat)
  BY <1>1, <1>3, <1>5
<1>. HIDE DEF third
<1>7. fourth \in Places /\ (LargePage(third, page[3]) => fourth \in Nat)
  BY <1>1, <1>3, <1>6
<1>. HIDE DEF fourth
<1>8. LookUp(fourth, page[4]) \in Places
  BY <1>1, <1>3, <1>7
<1>9. Walk(page).frame =
        IF LargePage(second, page[2]) THEN third + 512 * page[3] + page[4]
        ELSE IF LargePage(third, page[3]) THEN fourth + page[4] ELSE LookUp(fourth, page[4])
  BY DEF Walk, second, third, fourth
<1>. QED
  BY <1>1, <1>6, <1>7, <1>8, <1>9 DEF Places

LEMMA ShapesKept == PagingShapes /\ [PagingNext]_pagingVars => PagingShapes'
<1>. SUFFICES ASSUME PagingShapes, [PagingNext]_pagingVars PROVE PagingShapes'
  OBVIOUS
<1>1. CASE initPML4
  BY <1>1 DEF PagingShapes, initPML4, Working
<1>2. CASE mapPage
  <2>1. pml4 = Root /\ Root \in PageTables
    BY <1>2, Kinds DEF PagingShapes, mapPage
  <2>. QED
    BY <1>2, <2>1 DEF PagingShapes, mapPage, Working
<1>3. CASE descend
  BY <1>3 DEF PagingShapes, descend, Working
<1>4. CASE allocateEntry
  <2>1. table \in PageTables /\ call \in Calls /\ level \in 1 .. 3 /\ call.page[level] \in Indices
    BY <1>4, PageIndices DEF PagingShapes, allocateEntry, Working, Calls
  <2>2. CASE given < Len(Blocks)
    <3>1. /\ target' = Blocks[given + 1] /\ given' = given + 1 /\ given + 1 \in 1 .. Len(Blocks)
          /\ tables' = [tables EXCEPT ![Blocks[given + 1]] = EmptyTable(Blocks[given + 1]),
                                      ![table][call.page[level]] = WithFlags(@, call.flags)]
          /\ pagingStage' = "address"
      BY <1>4, <2>2, PagingAssumption DEF PagingShapes, allocateEntry
    <3>2. PICK empty \in [Indices -> PageEntry] :
            tables' = [tables EXCEPT ![Blocks[given + 1]] = empty,
                                     ![table][call.page[level]] = WithFlags(@, call.flags)]
      BY <3>1, EmptyEntries, Zenon
    <3>3. tables' \in [PageTables -> [Indices -> PageEntry]]
      <4>1. [tables EXCEPT ![Blocks[given + 1]] = empty] \in [PageTables -> [Indices -> PageEntry]]
        BY <3>2 DEF PagingShapes
      <4>. QED
        BY <2>1, <3>2, <4>1, FlagsOfEntry
    <3>4. given + 1 > 0 /\ given + 1 \in 0 .. Len(Blocks) /\ level # 4
      BY <2>1, <3>1
    <3>5. /\ UNCHANGED <<pml4, tlb, call, level, table, mapped>> /\ pagingStage = "entry"
      BY <1>4 DEF allocateEntry
    <3>6. Working /\ Working'
      BY <3>1, <3>5 DEF Working
    <3>. QED
      BY <2>1, <3>1, <3>3, <3>4, <3>5, <3>6 DEF PagingShapes
  <2>3. CASE ~(given < Len(Blocks))
    BY <1>4, <2>3 DEF PagingShapes, allocateEntry, Working
  <2>. QED
    BY <2>2, <2>3
<1>5. CASE setFlags
  <2>1. table \in PageTables /\ call \in Calls /\ level = 4 /\ call.page[4] \in Indices
    BY <1>5, PageIndices DEF PagingShapes, setFlags, Working, Calls
  <2>2. tables' \in [PageTables -> [Indices -> PageEntry]]
    BY <1>5, <2>1, FlagsOfEntry DEF PagingShapes, setFlags
  <2>. QED
    BY <1>5, <2>1, <2>2 DEF PagingShapes, setFlags, Working
<1>6. CASE setAddress
  <2>1. /\ table \in PageTables /\ call \in Calls /\ level \in 1 .. 4
        /\ call.page[level] \in Indices /\ call.frame \in Nat
    BY <1>6, PageIndices, PagingAssumption DEF PagingShapes, setAddress, Working, Calls
  <2>2. /\ level = 4 => target = call.frame
        /\ level # 4 => target = Blocks[given] /\ given > 0
    BY <1>6 DEF PagingShapes, setAddress
  <2>3. level # 4 => target \in PageTables /\ Shift(target) = target
    <3>1. level # 4 => given \in 1 .. Len(Blocks) /\ target = Blocks[given]
      BY <2>2 DEF PagingShapes
    <3>. QED
      BY <3>1, Kinds
  <2>4. target \in Nat
    BY <2>1, <2>2, <2>3, Kinds
  <2>5. \A e \in PageEntry : [e EXCEPT !.physical_address = target] \in PageEntry
    BY <2>4 DEF PageEntry
  <2>6. tables' \in [PageTables -> [Indices -> PageEntry]]
    BY <1>6, <2>1, <2>5 DEF PagingShapes, setAddress
  <2>. QED
    BY <1>6, <2>1, <2>3, <2>6 DEF PagingShapes, setAddress, Working
<1>7. CASE flushTLB
  BY <1>7 DEF PagingShapes, flushTLB, Return, Working
<1>8. ASSUME NEW page \in Pages, Fill(page) PROVE PagingShapes'
  <2>1. \E frame \in Nat : tlb' = [tlb EXCEPT ![page] = frame]
    BY <1>8, WalkTypes, PagingAssumption DEF Fill
  <2>2. tlb' \in [Pages -> Nat \cup {NoFrame}]
    BY <2>1 DEF PagingShapes
  <2>. QED
    BY <1>8, <2>2 DEF PagingShapes, Fill, Working
<1>9. CASE UNCHANGED pagingVars
  BY <1>9 DEF PagingShapes, pagingVars, Working
<1>. QED
  BY <1>1, <1>2, <1>3, <1>4, <1>5, <1>6, <1>7, <1>8, <1>9 DEF PagingNext

LEMMA ShapesSuffice == PagingShapes => PagingTypeOK
<1>. SUFFICES ASSUME PagingShapes PROVE PagingTypeOK
  OBVIOUS
<1>1. pml4 \in {NoFrame, Root} /\ \A t \in PageTables, i \in Indices : tables[t][i] \in PageEntry
  BY DEF PagingShapes
<1>2. call \in Calls \cup {NotMapped} /\ level \in 0 .. 4
      /\ (table \in PageTables \cup {NoFrame} \/ pagingStage = "lost")
  BY DEF PagingShapes, Working
<1>. QED
  BY <1>1, <1>2 DEF PagingShapes, PagingTypeOK
------------------------------------------------------------------------------
LEMMA AfterInitPML4 == ASSUME PagingInv, PagingShapes', initPML4 PROVE PagingInv'
<1>1. Ways' /\ NoLarge' /\ MappedSmall'
  BY TablesKept DEF PagingInv, initPML4, MappedSmall
<1>2. ~Working /\ ~Working'
  BY DEF initPML4, Working
<1>3. \A t, i : ~Storing(t, i) /\ ~Storing(t, i)'
  BY DEF initPML4, Storing
<1>4. \A page \in Small : ~Settled(page)' /\ mapped'[page] = NotMapped
  BY DEF PagingInv, PagingShapes, initPML4, Settled, Small
<1>5. Progress' /\ NewBlock' /\ MappedLead'
  BY <1>2, <1>4 DEF Progress, NewBlock, MappedLead, Working
<1>6. InnerEntries'
  BY <1>3, TablesKept DEF PagingInv, initPML4, InnerEntries
<1>7. OthersDoNot'
  BY <1>4 DEF OthersDoNot
<1>. QED
  BY <1>1, <1>5, <1>6, <1>7 DEF PagingInv

LEMMA AfterMapPage == ASSUME PagingInv, PagingShapes', mapPage, ~intoLarge' PROVE PagingInv'
<1>1. Ways' /\ NoLarge' /\ MappedSmall'
  BY TablesKept DEF PagingInv, mapPage, MappedSmall
<1>2. ~Working /\ Working'
  BY DEF mapPage, Working
<1>3. \A t, i : ~Storing(t, i) /\ ~Storing(t, i)'
  BY DEF Storing, mapPage
<1>4. \A page \in Small : /\ Settled(page)' => Settled(page)
                          /\ PresentFlag(page)' <=> PresentFlag(page)
  BY DEF mapPage, Settled, PresentFlag
<1>5. Progress'
  <2>1. call' \in Calls /\ level' = 1 /\ table' = Root /\ pagingStage' = "entry"
    BY DEF PagingInv, PagingShapes, mapPage
  <2>2. (table = Path(call.page)[level])'
    BY <2>1, PathSteps
  <2>3. call'.page \in Small
    BY <2>1 DEF mapPage, Small, Calls
  <2>. QED
    BY <2>1, <2>2, <2>3 DEF Progress
<1>6. NewBlock'
  BY DEF mapPage, NewBlock
<1>7. InnerEntries'
  BY <1>3, TablesKept DEF PagingInv, mapPage, InnerEntries
<1>8. MappedLead'
  BY <1>3, <1>4, TablesKept DEF PagingInv, mapPage, MappedLead, Blocked
<1>9. OthersDoNot'
  BY <1>2, <1>3, <1>4, TablesKept DEF PagingInv, mapPage, OthersDoNot, Blocked
<1>. QED
  BY <1>1, <1>5, <1>6, <1>7, <1>8, <1>9 DEF PagingInv

\* Outside the large pages mapPage finds a table behind every present entry.
LEMMA AfterDescend == ASSUME PagingInv, PagingShapes', descend PROVE PagingInv'
<1>1. Ways' /\ NoLarge' /\ MappedSmall'
  BY TablesKept DEF PagingInv, descend, MappedSmall
<1>2. Working
  BY DEF descend, Working
<1>3. \A t, i : ~Storing(t, i)
  BY DEF Storing, descend
<1>4. \A page \in Small : /\ Settled(page)' => Settled(page)
                          /\ PresentFlag(page)' <=> PresentFlag(page)
  BY DEF descend, Settled, PresentFlag
<1>5. /\ call \in Calls /\ call.page \in Small /\ call.page \in Pages /\ level \in 1 .. 3
      /\ table = Path(call.page)[level] /\ table \in PageTables
      /\ 1 \in call.flags => \A l \in 1 .. level - 1 : PresentAt(call.page, l)
  BY <1>2 DEF PagingInv, PagingShapes, Progress, descend, Small
<1>6. PresentAt(call.page, level)
  BY <1>5 DEF PresentAt, descend, Entry
<1>7. Path(call.page)[level + 1] \in PageTables
  BY <1>3, <1>5, <1>6 DEF PagingInv, InnerEntries
<1>8. Path(call.page)[level + 1] = Entry.physical_address
  <2>1. ~Entry.null
    BY <1>5 DEF PagingInv, NoLarge, Entry
  <2>2. Path(call.page)[level + 1] = Link(table, call.page[level], level)
    BY <1>5, PathSteps
  <2>. QED
    BY <1>5, <2>1, <2>2 DEF Link, Entry
<1>9. table' = Path(call.page)[level + 1] /\ pagingStage' = "entry"
  BY <1>7, <1>8, Kinds DEF descend
<1>10. call' = call /\ level' = level + 1 /\ Working'
  BY <1>9 DEF descend, Working
<1>11. \A t, i : ~Storing(t, i)'
  BY <1>9 DEF Storing
<1>12. Progress'
  <2>1. (table = Path(call.page)[level])'
    BY <1>9, <1>10, TablesKept DEF descend
  <2>2. (1 \in call.flags => \A l \in 1 .. level - 1 : PresentAt(call.page, l))'
    <3>. SUFFICES ASSUME 1 \in call.flags, NEW l \in 1 .. level PROVE PresentAt(call.page, l)'
      BY <1>5, <1>10
    <3>1. PresentAt(call.page, l)
      BY <1>5, <1>6
    <3>. QED
      BY <1>10, <3>1, TablesKept DEF descend
  <2>. QED
    BY <1>5, <1>9, <1>10, <2>1, <2>2 DEF Progress
<1>13. NewBlock'
  BY <1>9 DEF NewBlock
<1>14. InnerEntries'
  BY <1>3, TablesKept DEF PagingInv, descend, InnerEntries
<1>15. MappedLead'
  BY <1>4, <1>11, TablesKept DEF PagingInv, descend, MappedLead, Blocked
<1>16. OthersDoNot'
  BY <1>2, <1>3, <1>4, <1>10, TablesKept DEF PagingInv, descend, OthersDoNot, Blocked
<1>. QED
  BY <1>1, <1>12, <1>13, <1>14, <1>15, <1>16 DEF PagingInv

\* allocateEntry without a block.
LEMMA AfterNoBlock ==
  ASSUME PagingInv, PagingShapes', allocateEntry, pagingStage' = "fault" PROVE PagingInv'
<1>0. UNCHANGED <<pml4, tables, given, tlb, call, level, table, target, mapped>>
      /\ pagingStage = "entry"
  BY DEF allocateEntry
<1>1. Ways' /\ NoLarge' /\ MappedSmall'
  BY <1>0, TablesKept DEF PagingInv, MappedSmall
<1>2. Working /\ Working'
  BY <1>0 DEF Working
<1>3. \A t, i : ~Storing(t, i) /\ ~Storing(t, i)'
  BY <1>0 DEF Storing
<1>4. \A page \in Small : /\ Settled(page)' => Settled(page)
                          /\ PresentFlag(page)' <=> PresentFlag(page)
  BY <1>0 DEF Settled, PresentFlag
<1>5. Progress'
  <2>1. call'.page \in Small /\ (table = Path(call.page)[level])'
    BY <1>0, <1>2, TablesKept DEF PagingInv, Progress
  <2>2. (1 \in call.flags => \A l \in 1 .. level - 1 : PresentAt(call.page, l))'
    BY <1>0, <1>2, TablesKept DEF PagingInv, Progress
  <2>. QED
    BY <2>1, <2>2 DEF Progress
<1>6. NewBlock'
  BY DEF NewBlock
<1>7. InnerEntries'
  BY <1>0, <1>3, TablesKept DEF PagingInv, InnerEntries
<1>8. MappedLead'
  BY <1>0, <1>3, <1>4, TablesKept DEF PagingInv, MappedLead, Blocked
<1>9. OthersDoNot'
  BY <1>0, <1>2, <1>3, <1>4, TablesKept DEF PagingInv, OthersDoNot, Blocked
<1>. QED
  BY <1>1, <1>5, <1>6, <1>7, <1>8, <1>9 DEF PagingInv

LEMMA AfterFlushTLB == ASSUME PagingInv, PagingShapes', flushTLB PROVE PagingInv'
<1>1. /\ Working /\ call \in Calls /\ call.page \in Small /\ call.page \in Pages /\ level = 4
      /\ table = Path(call.page)[4] /\ table \in PageTables
      /\ 1 \in call.flags => \A l \in 1 .. 3 : PresentAt(call.page, l)
      /\ tables[table][call.page[4]].present = (1 \in call.flags)
      /\ tables[table][call.page[4]].physical_address = call.frame
  BY DEF PagingInv, PagingShapes, Progress, Working, flushTLB, Small
<1>2. Ways' /\ NoLarge'
  BY TablesKept DEF PagingInv, flushTLB
<1>3. ~Working'
  BY DEF flushTLB, Return, Working
<1>4. \A t, i : ~Storing(t, i) /\ ~Storing(t, i)'
  BY DEF Storing, flushTLB, Return
<1>5. \A page \in Pages : page # call.page =>
        /\ Settled(page)' => Settled(page)
        /\ mapped'[page] = mapped[page] /\ tlb'[page] = tlb[page]
        /\ PresentFlag(page)' <=> PresentFlag(page)
  BY DEF PagingInv, PagingShapes, flushTLB, Return, Settled, PresentFlag
<1>6. mapped'[call.page] = call /\ tlb'[call.page] = NoFrame
  BY <1>1 DEF PagingInv, PagingShapes, flushTLB
<1>7. MappedSmall'
  BY <1>1, <1>5 DEF PagingInv, MappedSmall
<1>8. Progress' /\ NewBlock'
  BY <1>3 DEF Progress, NewBlock, Working
<1>9. InnerEntries'
  BY <1>4, TablesKept DEF PagingInv, flushTLB, InnerEntries
<1>10. PresentAt(call.page, 4) <=> 1 \in call.flags
  BY <1>1 DEF PresentAt
<1>11. 1 \in call.flags => Complete(call.page)
  <2>1. \A l \in 1 .. 4 : l \in 1 .. 3 \/ l = 4
    OBVIOUS
  <2>. QED
    BY <1>1, <1>10, <2>1 DEF Complete
<1>12. Complete(call.page) => 1 \in call.flags
  BY <1>10 DEF Complete
<1>13. Path(call.page)[5] = call.frame
  <2>1. Path(call.page)[5] = Link(table, call.page[4], 4)
    BY <1>1, PathSteps
  <2>. QED
    BY <1>1, <2>1 DEF Link
<1>14. \A page \in Small : Blocked(page)' <=> FALSE
  BY <1>4 DEF Blocked
<1>15. MappedLead'
  <2>. SUFFICES ASSUME NEW page \in Small, Settled(page)', PresentFlag(page)'
       PROVE  /\ Complete(page)' /\ Path(page)'[5] = mapped'[page].frame
              /\ tlb'[page] \in {NoFrame, mapped'[page].frame}
    BY <1>14 DEF MappedLead
  <2>1. CASE page = call.page
    BY <2>1, <1>6, <1>11, <1>13, TablesKept DEF PresentFlag, flushTLB
  <2>2. CASE page # call.page
    <3>1. Settled(page) /\ PresentFlag(page) /\ page \in Pages
      BY <2>2, <1>5 DEF Small
    <3>. QED
      BY <2>2, <3>1, <1>5, TablesKept DEF PagingInv, MappedLead, flushTLB
  <2>. QED
    BY <2>1, <2>2
<1>16. OthersDoNot'
  <2>. SUFFICES ASSUME NEW page \in Small, mapped'[page] # NotMapped, Complete(page)'
       PROVE  PresentFlag(page)'
    BY DEF OthersDoNot
  <2>0. Complete(page) /\ page \in Pages
    BY TablesKept DEF flushTLB, Small
  <2>1. CASE page = call.page
    BY <2>0, <2>1, <1>6, <1>12 DEF PresentFlag
  <2>2. CASE page # call.page
    BY <2>0, <2>2, <1>4, <1>5 DEF PagingInv, OthersDoNot, Blocked
  <2>. QED
    BY <2>1, <2>2
<1>. QED
  BY <1>2, <1>7, <1>8, <1>9, <1>15, <1>16 DEF PagingInv

\* A small page whose entries are all present is walked along its path.
LEMMA WalkFollows ==
  ASSUME PagingInv, NEW page \in Small, Complete(page)
  PROVE  /\ Walk(page).table = Path(page)[4] /\ Walk(page).table \in PageTables
         /\ Walk(page).frame = Path(page)[5]
<1>1. ASSUME NEW l \in 1 .. 4
      PROVE  /\ LookUp(Path(page)[l], page[l]) = Path(page)[l + 1] /\ Path(page)[l] \in PageTables
             /\ l < 4 => ~LargePage(Path(page)[l], page[l])
  <2>1. /\ Path(page)[l] \in PageTables /\ tables[Path(page)[l]][page[l]].present
        /\ l < 4 => ~tables[Path(page)[l]][page[l]].null
    BY DEF PagingInv, NoLarge, Complete, PresentAt
  <2>2. Path(page)[l + 1] = Link(Path(page)[l], page[l], l)
    BY PathSteps
  <2>. QED
    BY <2>1, <2>2 DEF LookUp, Link, LargePage
<1>2. LookUp(Root, page[1]) = Path(page)[2]
  BY <1>1, PathSteps
<1>3. LookUp(Path(page)[2], page[2]) = Path(page)[3] /\ ~LargePage(Path(page)[2], page[2])
  BY <1>1
<1>4. LookUp(Path(page)[3], page[3]) = Path(page)[4] /\ ~LargePage(Path(page)[3], page[3])
  BY <1>1
<1>5. LookUp(Path(page)[4], page[4]) = Path(page)[5] /\ Path(page)[4] \in PageTables
  BY <1>1
<1>. QED
  BY <1>2, <1>3, <1>4, <1>5 DEF Walk

\* Steps of the processor alone.
LEMMA TlbOnly ==
  ASSUME PagingInv, PagingShapes',
         UNCHANGED <<pml4, tables, given, pagingStage, call, level, table, target, mapped>>,
         \A page \in Small : Settled(page) /\ PresentFlag(page) =>
           tlb'[page] \in {NoFrame, mapped[page].frame}
  PROVE  PagingInv'
<1>1. Ways' /\ NoLarge' /\ MappedSmall'
  BY TablesKept DEF PagingInv, MappedSmall
<1>2. /\ Working' <=> Working
      /\ \A t, i : Storing(t, i)' <=> Storing(t, i)
      /\ \A page : Settled(page)' <=> Settled(page)
      /\ \A page : PresentFlag(page)' <=> PresentFlag(page)
  BY DEF Working, Storing, Settled, PresentFlag
<1>3. Progress'
  <2>. SUFFICES ASSUME Working PROVE Progress'
    BY <1>2 DEF Progress
  <2>1. /\ pagingStage # "lost" /\ call.page \in Small
        /\ table = Path(call.page)[level]
        /\ 1 \in call.flags => \A l \in 1 .. level - 1 : PresentAt(call.page, l)
        /\ pagingStage = "flushTLB" => level = 4
        /\ pagingStage \in {"address", "flushTLB"} =>
             tables[table][call.page[level]].present = (1 \in call.flags)
        /\ pagingStage = "flushTLB" =>
             tables[table][call.page[level]].physical_address = call.frame
    BY DEF PagingInv, Progress
  <2>2. /\ (table = Path(call.page)[level])'
        /\ (1 \in call.flags => \A l \in 1 .. level - 1 : PresentAt(call.page, l))'
    BY <2>1, TablesKept
  <2>. QED
    BY <2>1, <2>2 DEF Progress
<1>4. NewBlock'
  <2>. SUFFICES ASSUME pagingStage = "address", level # 4 PROVE NewBlock'
    BY DEF NewBlock
  <2>1. /\ target # table /\ tables[target] = EmptyTable(target)
        /\ \A page \in Small, l \in 1 .. 4 : Path(page)[l] # target
    BY DEF PagingInv, NewBlock
  <2>. QED
    BY <2>1, TablesKept DEF NewBlock
<1>5. InnerEntries'
  BY <1>2, TablesKept DEF PagingInv, InnerEntries
<1>6. \A page : Blocked(page)' <=> Blocked(page)
  BY <1>2, TablesKept DEF Blocked
<1>7. MappedLead'
  BY <1>2, <1>6, TablesKept DEF PagingInv, MappedLead
<1>8. OthersDoNot'
  BY <1>2, <1>6, TablesKept DEF PagingInv, OthersDoNot
<1>. QED
  BY <1>1, <1>3, <1>4, <1>5, <1>7, <1>8 DEF PagingInv

LEMMA AfterFill ==
  ASSUME NEW filled \in Pages, PagingInv, PagingShapes', Fill(filled) PROVE PagingInv'
<1>1. ASSUME NEW page \in Small, Settled(page), PresentFlag(page)
      PROVE  tlb'[page] \in {NoFrame, mapped[page].frame}
  <2>1. /\ Complete(page) /\ Path(page)[5] = mapped[page].frame /\ page \in Pages
        /\ tlb[page] \in {NoFrame, mapped[page].frame}
    BY <1>1 DEF PagingInv, MappedLead, Small
  <2>2. page = filled => tlb'[page] = mapped[page].frame
    BY <2>1, WalkFollows DEF Fill, PagingInv, PagingShapes
  <2>3. page # filled => tlb'[page] = tlb[page]
    BY DEF Fill, PagingInv, PagingShapes
  <2>. QED
    BY <2>1, <2>2, <2>3
<1>. QED
  BY <1>1, TlbOnly DEF Fill

LEMMA AfterStutter == ASSUME PagingInv, PagingShapes', UNCHANGED pagingVars PROVE PagingInv'
<1>1. \A page \in Small : Settled(page) /\ PresentFlag(page) =>
        tlb'[page] \in {NoFrame, mapped[page].frame}
  BY DEF pagingVars, PagingInv, MappedLead
<1>. QED
  BY <1>1, TlbOnly DEF pagingVars

\* The way of a page goes through the entry mapPage is at.
Meets(page, l) == Path(page)[l] = table /\ page[l] = call.page[level]

LEMMA MeetsAtLevel ==
  ASSUME PagingInv, Working, NEW page \in Small, NEW l \in 1 .. 4, Meets(page, l)
  PROVE  /\ l = level
         /\ \A k \in 1 .. 4 : k <= level => page[k] = call.page[k]
         /\ level = 4 => page = call.page
<1>1. /\ call.page \in Small /\ call.page \in Pages /\ page \in Pages /\ level \in 1 .. 4
      /\ table = Path(call.page)[level] /\ table \in PageTables
  BY DEF PagingInv, PagingShapes, Progress, Small
<1>2. l = level /\ \A k \in 1 .. 4 : k < level => page[k] = call.page[k]
  BY <1>1 DEF Meets, PagingInv, Ways
<1>3. \A k \in 1 .. 4 : k <= level => page[k] = call.page[k]
  BY <1>1, <1>2 DEF Meets
<1>4. level = 4 => page = call.page
  BY <1>1, <1>3, PageIndices
<1>. QED
  BY <1>2, <1>3, <1>4

\* The store of the flags, in an entry of the last level or in one that was not
\* present: the pages' ways stay.
LEMMA FlagsStored ==
  ASSUME PagingInv, pagingStage = "entry", pagingStage' = "address",
         UNCHANGED <<tlb, call, level, table, mapped>>,
         level = 4 \/ ~Entry.present,
         Given \subseteq Given',
         \A page \in Small, l \in 1 .. 4 : Path(page)[l] \in PageTables =>
           tables'[Path(page)[l]][page[l]] =
             IF Meets(page, l) THEN WithFlags(tables[Path(page)[l]][page[l]], call.flags)
             ELSE tables[Path(page)[l]][page[l]]
  PROVE  /\ Ways' /\ NoLarge' /\ Progress' /\ InnerEntries' /\ MappedLead' /\ OthersDoNot'
         /\ MappedSmall'
         /\ \A page \in Small, l \in 1 .. 5 : Path(page)'[l] = Path(page)[l]
<1>1. Working /\ Working'
  BY DEF Working
<1>2. \A t, i : ~Storing(t, i)
  BY DEF Storing
<1>3. /\ call \in Calls /\ call.page \in Small /\ level \in 1 .. 4
      /\ table = Path(call.page)[level] /\ table \in PageTables
  BY <1>1 DEF PagingInv, PagingShapes, Progress
<1>4. ASSUME NEW page \in Small, NEW l \in 1 .. 4, Path(page)[l] \in PageTables
      PROVE  /\ tables'[Path(page)[l]][page[l]].physical_address =
                  tables[Path(page)[l]][page[l]].physical_address
             /\ tables'[Path(page)[l]][page[l]].present <=>
                  IF Meets(page, l) THEN 1 \in call.flags ELSE tables[Path(page)[l]][page[l]].present
             /\ l < 4 => /\ ~tables[Path(page)[l]][page[l]].null
                         /\ ~tables'[Path(page)[l]][page[l]].null
  <2>1. tables[Path(page)[l]][page[l]] \in PageEntry
    BY <1>4, PageIndices DEF PagingInv, PagingShapes, Small
  <2>2. l < 4 => ~tables[Path(page)[l]][page[l]].null
    BY <1>4 DEF PagingInv, NoLarge
  <2>3. CASE Meets(page, l)
    <3>. DEFINE e == tables[Path(page)[l]][page[l]]
    <3>1. /\ WithFlags(e, call.flags).physical_address = e.physical_address
          /\ WithFlags(e, call.flags).present = (1 \in call.flags)
          /\ ~WithFlags(e, call.flags).null
      BY <2>1, FlagsOfEntry
    <3>2. tables'[Path(page)[l]][page[l]] = WithFlags(e, call.flags)
      BY <1>4, <2>3
    <3>. QED
      BY <2>2, <2>3, <3>1, <3>2
  <2>4. CASE ~Meets(page, l)
    BY <1>4, <2>2, <2>4
  <2>. QED
    BY <2>3, <2>4
<1>5. ASSUME NEW page \in Small PROVE \A l \in 1 .. 5 : Path(page)'[l] = Path(page)[l]
  <2>1. \A l \in 1 .. 4 : \A t, i : l < 5 /\ t = Path(page)[l] /\ i = page[l] =>
          Link(t, i, l)' = Link(t, i, l)
    BY <1>4 DEF Link
  <2>. QED
    BY <2>1, PathKept
<1>6. \A page \in Small, l \in 1 .. 4 :
        PresentAt(page, l)' <=> IF Meets(page, l) THEN 1 \in call.flags ELSE PresentAt(page, l)
  <2>. SUFFICES ASSUME NEW page \in Small, NEW l \in 1 .. 4
       PROVE  PresentAt(page, l)' <=> IF Meets(page, l) THEN 1 \in call.flags ELSE PresentAt(page, l)
    OBVIOUS
  <2>1. PresentAt(page, l)' <=>
          Path(page)[l] \in PageTables /\ tables'[Path(page)[l]][page[l]].present
    BY <1>5 DEF PresentAt
  <2>2. Meets(page, l) => Path(page)[l] \in PageTables
    BY <1>3 DEF Meets
  <2>. QED
    BY <1>4, <2>1, <2>2 DEF PresentAt
<1>7. \A page \in Small, l \in 1 .. 4 : Storing(Path(page)[l], page[l])' <=> Meets(page, l)
  <2>1. \A l \in 1 .. 4 : l \in 1 .. 5
    OBVIOUS
  <2>. QED
    BY <1>5, <2>1 DEF Storing, Meets
<1>8. \A page \in Small, l \in 1 .. 4 :
        Meets(page, l) => l = level /\ (PresentAt(page, l) => page = call.page)
  <2>. SUFFICES ASSUME NEW page \in Small, NEW l \in 1 .. 4, Meets(page, l)
       PROVE  l = level /\ (PresentAt(page, l) => page = call.page)
    OBVIOUS
  <2>. QED
    BY <1>1, MeetsAtLevel DEF Meets, PresentAt, Entry
<1>9. Ways'
  BY <1>5 DEF PagingInv, Ways
<1>10. NoLarge'
  BY <1>4, <1>5 DEF NoLarge
<1>11. MappedSmall'
  BY DEF PagingInv, MappedSmall
<1>12. Progress'
  <2>1. (table = Path(call.page)[level])'
    BY <1>3, <1>5
  <2>2. (1 \in call.flags => \A l \in 1 .. level - 1 : PresentAt(call.page, l))'
    <3>. SUFFICES ASSUME 1 \in call.flags, NEW l \in 1 .. level - 1 PROVE PresentAt(call.page, l)'
      OBVIOUS
    <3>1. PresentAt(call.page, l) /\ l \in 1 .. 4 /\ l # level
      BY <1>1, <1>3 DEF PagingInv, Progress
    <3>. QED
      BY <1>3, <1>6, <1>8, <3>1
  <2>3. tables'[table][call.page[level]].present <=> 1 \in call.flags
    BY <1>3, <1>4 DEF Meets
  <2>4. tables'[table][call.page[level]].present \in BOOLEAN
    <3>1. tables[table][call.page[level]] \in PageEntry
      BY <1>3, PageIndices DEF PagingInv, PagingShapes, Small
    <3>2. tables'[table][call.page[level]] = WithFlags(tables[table][call.page[level]], call.flags)
      BY <1>3 DEF Meets
    <3>3. tables'[table][call.page[level]] \in PageEntry
      BY <3>1, <3>2, FlagsOfEntry
    <3>. QED
      BY <3>3 DEF PageEntry
  <2>5. tables'[table][call.page[level]].present = (1 \in call.flags)
    BY <2>3, <2>4
  <2>. QED
    BY <1>3, <2>1, <2>2, <2>5 DEF Progress
<1>13. InnerEntries'
  <2>. SUFFICES ASSUME NEW page \in Small, NEW l \in 1 .. 3,
                       PresentAt(page, l)', ~Storing(Path(page)[l], page[l])'
       PROVE  Path(page)'[l + 1] \in PageTables
    BY DEF InnerEntries
  <2>1. PresentAt(page, l)
    BY <1>6, <1>7
  <2>. QED
    BY <1>2, <1>5, <2>1 DEF PagingInv, InnerEntries
<1>14. MappedLead'
  <2>. SUFFICES ASSUME NEW page \in Small, Settled(page)', PresentFlag(page)'
       PROVE  /\ Complete(page)' /\ ~Blocked(page)'
              /\ Path(page)'[5] = mapped[page].frame
              /\ tlb[page] \in {NoFrame, mapped[page].frame}
    BY DEF MappedLead
  <2>1. Settled(page) /\ PresentFlag(page) /\ page # call.page
    BY DEF Settled, PresentFlag
  <2>2. /\ Complete(page) /\ Path(page)[5] = mapped[page].frame
        /\ tlb[page] \in {NoFrame, mapped[page].frame}
    BY <2>1 DEF PagingInv, MappedLead
  <2>3. \A l \in 1 .. 4 : ~Meets(page, l)
    BY <1>8, <2>1, <2>2 DEF Complete
  <2>4. Complete(page)' /\ ~Blocked(page)'
    BY <1>6, <1>7, <2>2, <2>3 DEF Complete, Blocked
  <2>. QED
    BY <1>5, <2>2, <2>4
<1>15. OthersDoNot'
  <2>. SUFFICES ASSUME NEW page \in Small, mapped[page] # NotMapped,
                       Complete(page)', ~Blocked(page)', page # call.page
       PROVE  PresentFlag(page)'
    BY <1>1 DEF OthersDoNot
  <2>1. \A l \in 1 .. 4 : ~Meets(page, l)
    BY <1>7 DEF Blocked
  <2>2. Complete(page)
    BY <1>6, <2>1 DEF Complete
  <2>3. PresentFlag(page)
    BY <1>2, <2>2 DEF PagingInv, OthersDoNot, Blocked
  <2>. QED
    BY <2>3 DEF PresentFlag
<1>. QED
  BY <1>5, <1>9, <1>10, <1>11, <1>12, <1>13, <1>14, <1>15

LEMMA AfterSetFlags == ASSUME PagingInv, PagingShapes', setFlags PROVE PagingInv'
<1>1. /\ call.page \in Small /\ level = 4 /\ table \in PageTables /\ call.page[4] \in Indices
  BY PageIndices DEF PagingInv, PagingShapes, Progress, Working, setFlags, Small
<1>2. \A t \in PageTables, i \in Indices :
        tables'[t][i] = IF t = table /\ i = call.page[4] THEN WithFlags(tables[t][i], call.flags)
                        ELSE tables[t][i]
  BY <1>1 DEF PagingInv, PagingShapes, setFlags
<1>3. Given' = Given
  BY DEF Given, setFlags
<1>4. \A page \in Small, l \in 1 .. 4 : Path(page)[l] \in PageTables =>
        tables'[Path(page)[l]][page[l]] =
          IF Meets(page, l) THEN WithFlags(tables[Path(page)[l]][page[l]], call.flags)
          ELSE tables[Path(page)[l]][page[l]]
  BY <1>1, <1>2, PageIndices DEF Meets, Small
<1>5. /\ Ways' /\ NoLarge' /\ Progress' /\ InnerEntries' /\ MappedLead' /\ OthersDoNot'
      /\ MappedSmall'
  BY <1>1, <1>3, <1>4, FlagsStored DEF setFlags
<1>6. NewBlock'
  BY <1>1 DEF NewBlock, setFlags
<1>. QED
  BY <1>5, <1>6 DEF PagingInv

\* The block allocateEntry takes: no way leads to it.
LEMMA BlockOutside ==
  ASSUME PagingInv, allocateEntry, pagingStage' # "fault", NEW new, new = Blocks[given + 1]
  PROVE  /\ given + 1 \in 1 .. Len(Blocks) /\ new \in PageTables /\ target' = new
         /\ given' = given + 1 /\ Given' = Given \cup {new}
         /\ \A page \in Small, l \in 1 .. 4 : Path(page)[l] # new
<1>1. /\ given + 1 \in 1 .. Len(Blocks) /\ target' = new /\ given' = given + 1
      /\ given \in 0 .. Len(Blocks)
  <2>1. Len(Blocks) \in Nat
    BY PagingAssumption
  <2>. QED
    BY <2>1 DEF PagingInv, PagingShapes, allocateEntry
<1>2. 1 .. given + 1 = (1 .. given) \cup {given + 1}
  BY <1>1
<1>3. Given' = Given \cup {new}
  BY <1>1, <1>2 DEF Given
<1>4. new \notin Given
  <2>1. \A k \in 1 .. given : k \in 1 .. Len(Blocks) /\ k # given + 1
    BY <1>1
  <2>. QED
    BY <1>1, <2>1, Kinds DEF Given
<1>5. new \in PageTables /\ new \notin DOMAIN Boot
  BY <1>1, Kinds
<1>6. \A page \in Small, l \in 1 .. 4 : Path(page)[l] # new
  BY <1>4, <1>5 DEF PagingInv, Ways
<1>. QED
  BY <1>1, <1>3, <1>5, <1>6

\* allocateEntry with a block.
LEMMA AfterNewBlock ==
  ASSUME PagingInv, PagingShapes', allocateEntry, pagingStage' # "fault" PROVE PagingInv'
<1>. DEFINE new == Blocks[given + 1]
<1>1. /\ call.page \in Small /\ level \in 1 .. 3
      /\ table = Path(call.page)[level] /\ table \in PageTables
      /\ call.page[level] \in Indices
      /\ pagingStage = "entry" /\ pagingStage' = "address"
  BY PageIndices DEF PagingInv, PagingShapes, Progress, Working, allocateEntry, Small
<1>2. /\ given + 1 \in 1 .. Len(Blocks) /\ new \in PageTables /\ target' = new
      /\ given' = given + 1 /\ Given' = Given \cup {new}
      /\ \A page \in Small, l \in 1 .. 4 : Path(page)[l] # new
  BY BlockOutside
<1>3. table # new
  BY <1>1, <1>2
<1>4. tables' = [tables EXCEPT ![new] = EmptyTable(new),
                               ![table][call.page[level]] = WithFlags(@, call.flags)]
  BY <1>1, <1>2 DEF allocateEntry
<1>5. \A t \in PageTables, i \in Indices : t # new =>
        tables'[t][i] = IF t = table /\ i = call.page[level] THEN WithFlags(tables[t][i], call.flags)
                        ELSE tables[t][i]
  BY <1>1, <1>2, <1>3, <1>4 DEF PagingInv, PagingShapes
<1>6. tables'[new] = EmptyTable(new)
  BY <1>1, <1>2, <1>3, <1>4 DEF PagingInv, PagingShapes
<1>7. \A page \in Small, l \in 1 .. 4 : Path(page)[l] \in PageTables =>
        tables'[Path(page)[l]][page[l]] =
          IF Meets(page, l) THEN WithFlags(tables[Path(page)[l]][page[l]], call.flags)
          ELSE tables[Path(page)[l]][page[l]]
  BY <1>1, <1>2, <1>5, PageIndices DEF Meets, Small
<1>8. /\ Ways' /\ NoLarge' /\ Progress' /\ InnerEntries' /\ MappedLead' /\ OthersDoNot'
      /\ MappedSmall'
      /\ \A page \in Small, l \in 1 .. 5 : Path(page)'[l] = Path(page)[l]
  <2>1. /\ UNCHANGED <<tlb, call, level, table, mapped>>
        /\ level = 4 \/ ~Entry.present
        /\ Given \subseteq Given'
    BY <1>2 DEF allocateEntry
  <2>. HIDE DEF new
  <2>. QED
    BY <1>1, <1>7, <2>1, FlagsStored
<1>9. NewBlock'
  <2>1. \A page \in Small, l \in 1 .. 4 : Path(page)'[l] # new
    BY <1>2, <1>8
  <2>2. table' = table
    BY DEF allocateEntry
  <2>. QED
    BY <1>2, <1>3, <1>6, <2>1, <2>2 DEF NewBlock
<1>. QED
  BY <1>8, <1>9 DEF PagingInv

\* The store of an address changes no other bits, and one link.
LEMMA AddressStored ==
  ASSUME PagingInv, setAddress
  PROVE  /\ Working /\ Working' /\ call \in Calls /\ call.page \in Small /\ level \in 1 .. 4
         /\ table = Path(call.page)[level] /\ table \in PageTables
         /\ call.page[level] \in Indices
         /\ \A t \in PageTables, i \in Indices :
              /\ tables'[t][i].present = tables[t][i].present
              /\ tables'[t][i].null = tables[t][i].null
              /\ tables'[t][i].physical_address =
                   IF t = table /\ i = call.page[level] THEN target
                   ELSE tables[t][i].physical_address
         /\ Given' = Given /\ UNCHANGED <<call, tlb, mapped>>
<1>1. /\ Working /\ Working' /\ call \in Calls /\ call.page \in Small /\ level \in 1 .. 4
      /\ table = Path(call.page)[level] /\ table \in PageTables
      /\ call.page[level] \in Indices
  BY PageIndices DEF PagingInv, PagingShapes, Progress, Working, setAddress, Small
<1>2. tables' = [tables EXCEPT ![table][call.page[level]].physical_address = target]
      /\ tables \in [PageTables -> [Indices -> PageEntry]]
  BY DEF setAddress, PagingInv, PagingShapes
<1>3. \A e \in PageEntry : /\ [e EXCEPT !.physical_address = target].present = e.present
                           /\ [e EXCEPT !.physical_address = target].null = e.null
                           /\ [e EXCEPT !.physical_address = target].physical_address = target
  BY DEF PageEntry
<1>4. \A t \in PageTables, i \in Indices :
        tables'[t][i] = IF t = table /\ i = call.page[level]
                        THEN [tables[t][i] EXCEPT !.physical_address = target] ELSE tables[t][i]
  BY <1>1, <1>2
<1>5. \A t \in PageTables, i \in Indices :
        /\ tables'[t][i].present = tables[t][i].present
        /\ tables'[t][i].null = tables[t][i].null
        /\ tables'[t][i].physical_address =
             IF t = table /\ i = call.page[level] THEN target ELSE tables[t][i].physical_address
  BY <1>2, <1>3, <1>4
<1>6. Given' = Given /\ UNCHANGED <<call, tlb, mapped>>
  BY DEF Given, setAddress
<1>. QED
  BY <1>1, <1>5, <1>6

\* A page keeps its way up to where it meets the entry.
LEMMA WayKept ==
  ASSUME PagingInv, setAddress, NEW page \in Small,
         NEW n \in 1 .. 5, \A l \in 1 .. 4 : l < n => ~Meets(page, l)
  PROVE  /\ \A l \in 1 .. n : Path(page)'[l] = Path(page)[l]
         /\ \A l \in 1 .. 4 : l <= n => (PresentAt(page, l)' <=> PresentAt(page, l))
<1>0. \A l \in 1 .. 4 : page[l] \in Indices
  BY PageIndices DEF Small
<1>1. \A l \in 1 .. 4 : \A t, i : l < n /\ t = Path(page)[l] /\ i = page[l] =>
        Link(t, i, l)' = Link(t, i, l)
  BY <1>0, AddressStored DEF Link, Meets
<1>2. \A l \in 1 .. n : Path(page)'[l] = Path(page)[l]
  BY <1>1, PathKept
<1>3. \A l \in 1 .. 4 : l <= n => (PresentAt(page, l)' <=> PresentAt(page, l))
  <2>. SUFFICES ASSUME NEW l \in 1 .. 4, l <= n PROVE PresentAt(page, l)' <=> PresentAt(page, l)
    OBVIOUS
  <2>1. Path(page)'[l] = Path(page)[l] /\ page[l] \in Indices
    BY <1>0, <1>2
  <2>. QED
    BY <2>1, AddressStored DEF PresentAt
<1>. QED
  BY <1>2, <1>3

LEMMA AfterLastAddress == ASSUME PagingInv, PagingShapes', setAddress, level = 4 PROVE PagingInv'
<1>0. /\ pagingStage = "address" /\ pagingStage' = "flushTLB" /\ table' = table /\ level' = 4
      /\ target = call.frame
  BY DEF setAddress, PagingInv, PagingShapes
<1>1. \A page \in Small, l \in 1 .. 4 : Meets(page, l) => l = 4 /\ page = call.page
  BY AddressStored, MeetsAtLevel
<1>2. \A page \in Small, l \in 1 .. 4 :
        Path(page)'[l] = Path(page)[l] /\ (PresentAt(page, l)' <=> PresentAt(page, l))
  BY <1>1, WayKept
<1>3. \A page \in Small : page # call.page => Path(page)'[5] = Path(page)[5]
  BY <1>1, WayKept
<1>4. \A t, i : ~Storing(t, i)'
  BY <1>0 DEF Storing
<1>5. \A page \in Small, l \in 1 .. 4 : Storing(Path(page)[l], page[l]) => page = call.page /\ l = 4
  BY <1>1 DEF Storing, Meets
<1>6. Ways'
  BY <1>2, AddressStored DEF PagingInv, Ways
<1>7. NoLarge'
  <2>. SUFFICES ASSUME NEW page \in Small, NEW l \in 1 .. 3, Path(page)'[l] \in PageTables
       PROVE  ~tables'[Path(page)'[l]][page[l]].null
    BY DEF NoLarge
  <2>1. Path(page)'[l] = Path(page)[l] /\ page[l] \in Indices
    BY <1>2, PageIndices DEF Small
  <2>2. ~tables[Path(page)[l]][page[l]].null
    BY <2>1 DEF PagingInv, NoLarge
  <2>. QED
    BY <2>1, <2>2, AddressStored
<1>8. Progress'
  <2>1. /\ 1 \in call.flags => \A l \in 1 .. 3 : PresentAt(call.page, l)
        /\ tables[table][call.page[4]].present = (1 \in call.flags)
    BY <1>0, AddressStored DEF PagingInv, Progress
  <2>2. (table = Path(call.page)[level])'
    BY <1>0, <1>2, AddressStored
  <2>3. (1 \in call.flags => \A l \in 1 .. level - 1 : PresentAt(call.page, l))'
    BY <1>0, <1>2, <2>1, AddressStored
  <2>4. /\ tables'[table][call.page[4]].present = (1 \in call.flags)
        /\ tables'[table][call.page[4]].physical_address = call.frame
    BY <1>0, <2>1, AddressStored
  <2>. QED
    BY <1>0, <2>2, <2>3, <2>4, AddressStored DEF Progress
<1>9. NewBlock' /\ MappedSmall'
  BY <1>0, AddressStored DEF NewBlock, PagingInv, MappedSmall
<1>10. InnerEntries'
  <2>. SUFFICES ASSUME NEW page \in Small, NEW l \in 1 .. 3, PresentAt(page, l)'
       PROVE  Path(page)'[l + 1] \in PageTables
    BY DEF InnerEntries
  <2>1. PresentAt(page, l) /\ ~Storing(Path(page)[l], page[l])
    BY <1>2, <1>5
  <2>2. Path(page)[l + 1] \in PageTables
    BY <2>1 DEF PagingInv, InnerEntries
  <2>. QED
    BY <1>2, <2>2
<1>11. MappedLead'
  <2>. SUFFICES ASSUME NEW page \in Small, Settled(page)', PresentFlag(page)'
       PROVE  /\ Complete(page)' /\ ~Blocked(page)'
              /\ Path(page)'[5] = mapped[page].frame
              /\ tlb[page] \in {NoFrame, mapped[page].frame}
    BY AddressStored DEF MappedLead
  <2>1. Settled(page) /\ PresentFlag(page) /\ page # call.page
    BY <1>0, AddressStored DEF Settled, PresentFlag
  <2>2. /\ Complete(page) /\ Path(page)[5] = mapped[page].frame
        /\ tlb[page] \in {NoFrame, mapped[page].frame}
    BY <2>1 DEF PagingInv, MappedLead
  <2>3. Complete(page)' /\ ~Blocked(page)'
    BY <1>2, <1>4, <2>2 DEF Complete, Blocked
  <2>. QED
    BY <1>3, <2>1, <2>2, <2>3
<1>12. OthersDoNot'
  <2>. SUFFICES ASSUME NEW page \in Small, mapped[page] # NotMapped, Complete(page)', page # call.page
       PROVE  PresentFlag(page)'
    BY AddressStored DEF OthersDoNot
  <2>1. Complete(page) /\ ~Blocked(page)
    BY <1>2, <1>5 DEF Complete, Blocked
  <2>2. PresentFlag(page)
    BY <2>1 DEF PagingInv, OthersDoNot
  <2>. QED
    BY <2>2, AddressStored DEF PresentFlag
<1>. QED
  BY <1>6, <1>7, <1>8, <1>9, <1>10, <1>11, <1>12 DEF PagingInv

LEMMA AfterTableAddress == ASSUME PagingInv, PagingShapes', setAddress, level # 4 PROVE PagingInv'
<1>0. /\ pagingStage = "address" /\ pagingStage' = "entry"
      /\ level \in 1 .. 3 /\ level' = level + 1
      /\ target # table /\ tables[target] = EmptyTable(target)
      /\ \A page \in Small, l \in 1 .. 4 : Path(page)[l] # target
      /\ target \in Given /\ target \in PageTables /\ table' = target
  <2>1. /\ pagingStage = "address" /\ pagingStage' = "entry"
        /\ level \in 1 .. 3 /\ level' = level + 1 /\ table' = Shift(target)
        /\ target # table /\ tables[target] = EmptyTable(target)
        /\ \A page \in Small, l \in 1 .. 4 : Path(page)[l] # target
    BY AddressStored DEF setAddress, PagingInv, NewBlock
  <2>2. target = Blocks[given] /\ given \in 1 .. given /\ given \in 1 .. Len(Blocks)
    BY <2>1 DEF PagingInv, PagingShapes
  <2>. QED
    BY <2>1, <2>2, Kinds DEF Given
<1>1. \A page \in Small, l \in 1 .. 4 :
        Meets(page, l) => l = level /\ \A k \in 1 .. 4 : k <= level => page[k] = call.page[k]
  BY AddressStored, MeetsAtLevel
<1>2. \A i \in Indices : /\ ~tables'[target][i].present /\ ~tables'[target][i].null
                         /\ tables'[target][i].physical_address \in {0, 1}
  BY <1>0, AddressStored, EmptyEntries
\* A page that meets the entry is led to the new table, and no further.
<1>3. ASSUME NEW page \in Small, Meets(page, level)
      PROVE  /\ \A l \in 1 .. level :
                  Path(page)'[l] = Path(page)[l] /\ (PresentAt(page, l)' <=> PresentAt(page, l))
             /\ Path(page)'[level + 1] = target
             /\ \A l \in 1 .. 4 : l = level + 1 => ~PresentAt(page, l)'
             /\ \A l \in 1 .. 4 : l > level + 1 => Path(page)'[l] \notin PageTables
  <2>0. \A l \in 1 .. 4 : page[l] \in Indices
    BY PageIndices DEF Small
  <2>1. \A l \in 1 .. level :
          Path(page)'[l] = Path(page)[l] /\ (PresentAt(page, l)' <=> PresentAt(page, l))
    BY <1>0, <1>1, WayKept
  <2>2. Path(page)'[level + 1] = target
    <3>1. Path(page)'[level] = table /\ level \in 1 .. 4
      BY <1>0, <1>3, <2>1 DEF Meets
    <3>2. ~tables[table][page[level]].null
      BY <1>0, <1>3, AddressStored DEF PagingInv, NoLarge, Meets
    <3>3. \A t, i, l : t = table /\ i = page[level] /\ l = level => Link(t, i, l)' = target
      BY <1>0, <1>3, <3>2, AddressStored DEF Meets, Link
    <3>4. \A t, l : l = level /\ t = Path(page)'[l] => Path(page)'[l + 1] = Link(t, page[l], l)'
      BY <3>1, PathSteps
    <3>. QED
      BY <3>1, <3>3, <3>4
  <2>3. level + 1 \in 1 .. 4 /\ \A l \in 1 .. 4 : l = level + 1 => ~PresentAt(page, l)'
    BY <1>0, <1>2, <2>0, <2>2 DEF PresentAt
  <2>. DEFINE Off(k) == Path(page)'[k] \in {0, 1, NoFrame}
  <2>4. Off(level + 2)
    <3>1. (level + 1) + 1 = level + 2
      BY <1>0
    <3>2. \A t, i, l : t = target /\ i = page[level + 1] => Link(t, i, l)' \in {0, 1}
      BY <1>0, <1>2, <2>0, <2>3 DEF Link
    <3>3. \A t, k : k = level + 1 /\ t = Path(page)'[k] => Path(page)'[k + 1] = Link(t, page[k], k)'
      BY <2>3, PathSteps
    <3>. QED
      BY <2>2, <3>1, <3>2, <3>3
  <2>5. ASSUME NEW k \in 1 .. 4, Off(k) PROVE Off(k + 1)
    <3>1. \A t : t = Path(page)'[k] => Path(page)'[k + 1] = Link(t, page[k], k)'
      BY PathSteps
    <3>2. \A t, i, l : t \in {0, 1, NoFrame} => Link(t, i, l)' = NoFrame
      BY Kinds DEF Link
    <3>. QED
      BY <2>5, <3>1, <3>2
  <2>. HIDE DEF Off
  <2>6. \A l \in 1 .. 4 : l > level + 1 => Off(l)
    <3>1. Off(3) => Off(4)
      BY <2>5
    <3>2. level = 1 \/ level = 2 \/ level = 3
      BY <1>0
    <3>. QED
      BY <2>4, <3>1, <3>2
  <2>7. \A l \in 1 .. 4 : l > level + 1 => Path(page)'[l] \notin PageTables
    BY <2>6, Kinds DEF Off
  <2>. QED
    BY <2>1, <2>2, <2>3, <2>7
<1>4. \A page \in Small : ~Meets(page, level) =>
        /\ \A l \in 1 .. 5 : Path(page)'[l] = Path(page)[l]
        /\ \A l \in 1 .. 4 : PresentAt(page, l)' <=> PresentAt(page, l)
  BY <1>1, WayKept
<1>5. ASSUME NEW page \in Small, NEW l \in 1 .. 4, Path(page)'[l] \in PageTables
      PROVE  \/ Path(page)'[l] = Path(page)[l] /\ Path(page)'[l] # target
             \/ Path(page)'[l] = target /\ l = level + 1 /\ Meets(page, level)
  <2>1. CASE ~Meets(page, level)
    BY <1>0, <1>4, <2>1
  <2>2. CASE Meets(page, level)
    <3>1. l \in 1 .. level \/ l = level + 1 \/ l > level + 1
      BY <1>0
    <3>. QED
      BY <1>0, <1>3, <1>5, <2>2, <3>1
  <2>. QED
    BY <2>1, <2>2
<1>6. Ways'
  <2>1. \A page \in Small, l \in 1 .. 4 :
          Path(page)'[l] \in PageTables => Path(page)'[l] \in DOMAIN Boot \cup Given'
    BY <1>0, <1>5, AddressStored DEF PagingInv, Ways
  <2>2. ASSUME NEW p \in Small, NEW q \in Small, NEW k \in 1 .. 4, NEW m \in 1 .. 4,
               Path(p)'[k] = Path(q)'[m], Path(p)'[k] \in PageTables
        PROVE  k = m /\ \A l \in 1 .. 4 : l < k => p[l] = q[l]
    <3>1. CASE Path(p)'[k] = target
      <4>1. k = level + 1 /\ m = level + 1 /\ Meets(p, level) /\ Meets(q, level)
        BY <1>5, <2>2, <3>1
      <4>2. \A l \in 1 .. 4 : l <= level => p[l] = q[l]
        BY <1>0, <1>1, <4>1
      <4>. QED
        BY <1>0, <4>1, <4>2
    <3>2. CASE Path(p)'[k] # target
      <4>1. Path(p)'[k] = Path(p)[k] /\ Path(q)'[m] = Path(q)[m]
        BY <1>5, <2>2, <3>2
      <4>2. Path(p)[k] = Path(q)[m] /\ Path(p)[k] \in PageTables
        BY <2>2, <4>1
      <4>. QED
        BY <4>2 DEF PagingInv, Ways
    <3>. QED
      BY <3>1, <3>2
  <2>. QED
    BY <2>1, <2>2 DEF Ways
<1>7. NoLarge'
  <2>. SUFFICES ASSUME NEW page \in Small, NEW l \in 1 .. 3, Path(page)'[l] \in PageTables
       PROVE  ~tables'[Path(page)'[l]][page[l]].null
    BY DEF NoLarge
  <2>1. page[l] \in Indices
    BY PageIndices DEF Small
  <2>2. CASE Path(page)'[l] = target
    BY <1>2, <2>1, <2>2
  <2>3. CASE Path(page)'[l] # target
    <3>1. Path(page)'[l] = Path(page)[l]
      BY <1>5, <2>3
    <3>2. ~tables[Path(page)[l]][page[l]].null
      BY <3>1 DEF PagingInv, NoLarge
    <3>. QED
      BY <2>1, <3>1, <3>2, AddressStored
  <2>. QED
    BY <2>2, <2>3
<1>8. \A page \in Small : Complete(page)' => ~Meets(page, level) /\ Complete(page)
  <2>. SUFFICES ASSUME NEW page \in Small, Complete(page)' PROVE ~Meets(page, level) /\ Complete(page)
    OBVIOUS
  <2>1. ~Meets(page, level)
    <3>1. level + 1 \in 1 .. 4
      BY <1>0
    <3>2. \A l \in 1 .. 4 : l = level + 1 => PresentAt(page, l)'
      BY DEF Complete
    <3>. QED
      BY <1>3, <3>1, <3>2
  <2>. QED
    BY <1>4, <2>1 DEF Complete
<1>9. \A t, i : ~Storing(t, i)'
  BY <1>0 DEF Storing
<1>10. \A page \in Small, l \in 1 .. 4 : Storing(Path(page)[l], page[l]) <=> Meets(page, l)
  BY <1>0 DEF Storing, Meets
<1>11. Progress'
  <2>1. /\ 1 \in call.flags => \A l \in 1 .. level - 1 : PresentAt(call.page, l)
        /\ tables[table][call.page[level]].present = (1 \in call.flags)
    BY <1>0, AddressStored DEF PagingInv, Progress
  <2>2. Meets(call.page, level)
    BY AddressStored DEF Meets
  <2>3. (table = Path(call.page)[level])'
    BY <1>0, <1>3, <2>2, AddressStored
  <2>4. (1 \in call.flags => \A l \in 1 .. level - 1 : PresentAt(call.page, l))'
    <3>. SUFFICES ASSUME 1 \in call.flags, NEW l \in 1 .. level PROVE PresentAt(call.page, l)'
      BY <1>0, AddressStored
    <3>1. PresentAt(call.page, level)
      BY <2>1, AddressStored DEF PresentAt
    <3>2. PresentAt(call.page, l)
      BY <1>0, <2>1, <3>1
    <3>. QED
      BY <1>3, <2>2, <3>2, AddressStored
  <2>. QED
    BY <1>0, <2>3, <2>4, AddressStored DEF Progress
<1>12. NewBlock' /\ MappedSmall'
  BY <1>0, AddressStored DEF NewBlock, PagingInv, MappedSmall
<1>13. InnerEntries'
  <2>. SUFFICES ASSUME NEW page \in Small, NEW l \in 1 .. 3, PresentAt(page, l)'
       PROVE  Path(page)'[l + 1] \in PageTables
    BY DEF InnerEntries
  <2>1. CASE Meets(page, level)
    <3>1. l <= level
      <4>1. l # level + 1
        BY <1>3, <2>1
      <4>2. ~(l > level + 1)
        BY <1>3, <2>1 DEF PresentAt
      <4>. QED
        BY <1>0, <4>1, <4>2
    <3>2. CASE l = level
      BY <1>0, <1>3, <2>1, <3>2
    <3>3. CASE l < level
      <4>1. PresentAt(page, l) /\ ~Storing(Path(page)[l], page[l]) /\ l + 1 \in 1 .. level
        BY <1>0, <1>1, <1>3, <1>10, <2>1, <3>3
      <4>2. Path(page)[l + 1] \in PageTables
        BY <4>1 DEF PagingInv, InnerEntries
      <4>. QED
        BY <1>3, <2>1, <4>1, <4>2
    <3>. QED
      BY <1>0, <3>1, <3>2, <3>3
  <2>2. CASE ~Meets(page, level)
    <3>1. PresentAt(page, l) /\ ~Storing(Path(page)[l], page[l])
      BY <1>1, <1>4, <1>10, <2>2
    <3>2. Path(page)[l + 1] \in PageTables
      BY <3>1 DEF PagingInv, InnerEntries
    <3>. QED
      BY <1>4, <2>2, <3>2
  <2>. QED
    BY <2>1, <2>2
<1>14. MappedLead'
  <2>. SUFFICES ASSUME NEW page \in Small, Settled(page)', PresentFlag(page)'
       PROVE  /\ Complete(page)' /\ ~Blocked(page)'
              /\ Path(page)'[5] = mapped[page].frame
              /\ tlb[page] \in {NoFrame, mapped[page].frame}
    BY AddressStored DEF MappedLead
  <2>1. Settled(page) /\ PresentFlag(page)
    BY <1>0, AddressStored DEF Settled, PresentFlag
  <2>2. /\ Complete(page) /\ ~Blocked(page) /\ Path(page)[5] = mapped[page].frame
        /\ tlb[page] \in {NoFrame, mapped[page].frame}
    BY <2>1 DEF PagingInv, MappedLead
  <2>3. ~Meets(page, level)
    BY <1>0, <1>10, <2>2 DEF Blocked
  <2>4. Complete(page)' /\ ~Blocked(page)' /\ Path(page)'[5] = Path(page)[5]
    BY <1>4, <1>9, <2>2, <2>3 DEF Complete, Blocked
  <2>. QED
    BY <2>2, <2>4
<1>15. OthersDoNot'
  <2>. SUFFICES ASSUME NEW page \in Small, mapped[page] # NotMapped, Complete(page)', page # call.page
       PROVE  PresentFlag(page)'
    BY AddressStored DEF OthersDoNot
  <2>1. Complete(page) /\ ~Blocked(page)
    BY <1>1, <1>8, <1>10 DEF Blocked
  <2>2. PresentFlag(page)
    BY <2>1 DEF PagingInv, OthersDoNot
  <2>. QED
    BY <2>2, AddressStored DEF PresentFlag
<1>. QED
  BY <1>6, <1>7, <1>11, <1>12, <1>13, <1>14, <1>15 DEF PagingInv

------------------------------------------------------------------------------
LEMMA InvariantKept == PagingIInv /\ [PagingNext]_pagingVars => PagingIInv'
<1>. SUFFICES ASSUME PagingIInv, [PagingNext]_pagingVars PROVE PagingIInv'
  OBVIOUS
<1>1. PagingShapes'
  BY ShapesKept DEF PagingIInv
<1>2. ASSUME ~intoLarge' PROVE PagingInv'
  <2>1. PagingInv
    BY <1>2 DEF PagingIInv, PagingNext, initPML4, mapPage, descend, allocateEntry, setFlags,
                setAddress, flushTLB, Fill, pagingVars
  <2>. QED
    BY <1>1, <1>2, <2>1, AfterInitPML4, AfterMapPage, AfterDescend, AfterNoBlock, AfterNewBlock,
       AfterSetFlags, AfterLastAddress, AfterTableAddress, AfterFlushTLB, AfterFill, AfterStutter
       DEF PagingNext
<1>. QED
  BY <1>1, <1>2 DEF PagingIInv

LEMMA InvariantHolds == PagingSpec => []PagingIInv
<1>1. PagingInit => PagingIInv
  BY ShapesStart, StartsWell DEF PagingIInv
<1>. QED
  BY <1>1, InvariantKept, PTL DEF PagingSpec

\* A page that is mapped as not present leads nowhere between two calls.
LEMMA AbsentLeadsNowhere ==
  ASSUME PagingInv, NEW page \in Small, pagingStage = "idle", mapped[page] # NotMapped,
         ~PresentFlag(page)
  PROVE  Walk(page).frame = NoFrame
<1>1. ~Working /\ \A t, i : ~Storing(t, i)
  BY DEF Working, Storing
<1>2. ~Complete(page)
  BY <1>1 DEF PagingInv, OthersDoNot, Blocked
<1>3. \A i : LookUp(NoFrame, i) = NoFrame /\ ~LargePage(NoFrame, i)
  BY Kinds DEF LookUp, LargePage
<1>4. ASSUME NEW l \in 1 .. 4, Path(page)[l] \in PageTables
      PROVE  /\ LookUp(Path(page)[l], page[l]) =
                  IF PresentAt(page, l) THEN Path(page)[l + 1] ELSE NoFrame
             /\ l < 4 => ~LargePage(Path(page)[l], page[l])
  <2>1. l < 4 => ~tables[Path(page)[l]][page[l]].null
    BY <1>4 DEF PagingInv, NoLarge
  <2>2. Path(page)[l + 1] = Link(Path(page)[l], page[l], l)
    BY PathSteps
  <2>. QED
    BY <1>4, <2>1, <2>2 DEF LookUp, LargePage, PresentAt, Link
<1>5. ASSUME NEW l \in 1 .. 3, PresentAt(page, l) PROVE Path(page)[l + 1] \in PageTables
  BY <1>1, <1>5 DEF PagingInv, InnerEntries
<1>6. Path(page)[1] = Root /\ Root \in PageTables
  BY PathSteps, Kinds
<1>. DEFINE second == LookUp(Root, page[1])
            third == LookUp(second, page[2])
            fourth == LookUp(third, page[3])
<1>7. second = IF PresentAt(page, 1) THEN Path(page)[2] ELSE NoFrame
  BY <1>4, <1>6
<1>. HIDE DEF second
<1>8. /\ ~LargePage(second, page[2])
      /\ third = IF PresentAt(page, 1) /\ PresentAt(page, 2) THEN Path(page)[3] ELSE NoFrame
  BY <1>3, <1>4, <1>5, <1>7
<1>. HIDE DEF third
<1>9. /\ ~LargePage(third, page[3])
      /\ fourth = IF PresentAt(page, 1) /\ PresentAt(page, 2) /\ PresentAt(page, 3)
                  THEN Path(page)[4] ELSE NoFrame
  BY <1>3, <1>4, <1>5, <1>8
<1>. HIDE DEF fourth
<1>10. \E l \in 1 .. 4 : ~PresentAt(page, l)
  BY <1>2 DEF Complete
<1>11. \A l \in 1 .. 4 : l = 1 \/ l = 2 \/ l = 3 \/ l = 4
  OBVIOUS
<1>12. LookUp(fourth, page[4]) = NoFrame
  BY <1>3, <1>4, <1>5, <1>9, <1>10, <1>11
<1>13. Walk(page).frame = LookUp(fourth, page[4])
  BY <1>8, <1>9 DEF Walk, second, third, fourth
<1>. QED
  BY <1>12, <1>13

\* For every tree of tables the boot loader left, every set of pages, frames and flags
\* and every number of blocks: as long as mapPage is called for no page in a large page,
\* a page it has returned for leads the processor, its remembered translation and
\* getPhysicalAddress to the frame it was mapped to last, at every store of a later
\* call for another page; a page mapped as not present leads nowhere between calls.
THEOREM PagesTranslate == PagingSpec => []Translates
<1>1. ASSUME PagingInv, NEW page \in Small, Settled(page), PresentFlag(page)
      PROVE  /\ Walk(page).frame = mapped[page].frame
             /\ getPhysicalAddress(page) = Shift(mapped[page].frame)
             /\ tlb[page] \in {NoFrame, mapped[page].frame}
  <2>1. /\ Complete(page) /\ Path(page)[5] = mapped[page].frame
        /\ tlb[page] \in {NoFrame, mapped[page].frame}
    BY <1>1 DEF PagingInv, MappedLead
  <2>2. pml4 = Root
    BY <1>1 DEF PagingInv, PagingShapes, Settled, Small
  <2>3. ASSUME NEW l \in 1 .. 4
        PROVE  tables[Path(page)[l]][page[l]].physical_address = Path(page)[l + 1]
    <3>1. Path(page)[l] \in PageTables /\ (l < 4 => ~tables[Path(page)[l]][page[l]].null)
      BY <1>1, <2>1 DEF PagingInv, NoLarge, Complete, PresentAt
    <3>2. Path(page)[l + 1] = Link(Path(page)[l], page[l], l)
      BY PathSteps
    <3>. QED
      BY <3>1, <3>2 DEF Link
  <2>4. getPhysicalAddress(page) = Shift(Path(page)[5])
    <3>1. /\ tables[Root][page[1]].physical_address = Path(page)[2]
          /\ tables[Path(page)[2]][page[2]].physical_address = Path(page)[3]
          /\ tables[Path(page)[3]][page[3]].physical_address = Path(page)[4]
          /\ tables[Path(page)[4]][page[4]].physical_address = Path(page)[5]
      BY <2>3, PathSteps
    <3>. QED
      BY <2>2, <3>1 DEF getPhysicalAddress
  <2>. QED
    BY <1>1, <2>1, <2>4, WalkFollows
<1>2. PagingIInv => Translates
  <2>. SUFFICES ASSUME PagingInv, NEW page \in Pages, Settled(page)
       PROVE  IF PresentFlag(page)
              THEN /\ Walk(page).frame = mapped[page].frame
                   /\ getPhysicalAddress(page) = Shift(mapped[page].frame)
                   /\ tlb[page] \in {NoFrame, mapped[page].frame}
              ELSE pagingStage = "idle" => Walk(page).frame = NoFrame
    BY DEF PagingIInv, Translates
  <2>1. page \in Small /\ mapped[page] # NotMapped
    BY DEF PagingInv, MappedSmall, Settled
  <2>. QED
    BY <1>1, <2>1, AbsentLeadsNowhere
<1>. QED
  BY <1>2, InvariantHolds, PTL
==============================================================================
