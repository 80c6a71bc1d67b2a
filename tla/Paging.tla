-------------------------------- MODULE Paging -------------------------------
(***************************************************************************)
(* The page tables of kernel/memory/paging.c, and the processor that walks *)
(* them while mapPage changes them.                                        *)
(*                                                                         *)
(* A page is known by its four indices, one per level; a frame by its      *)
(* number.  Flags are the set of the bits that are 1 in them.  The tables  *)
(* start as the boot loader left them, with pages it mapped, some of them  *)
(* large.  A block of k_malloc need not start at a page: allocateEntry     *)
(* cuts the address behind the block's header to its page, and the header  *)
(* may be any word of the table.  Memory that no block uses is 0.          *)
(***************************************************************************)
EXTENDS Integers, Sequences, SequencesExt

CONSTANTS
  Indices,      \* of the entries of a table (0 .. 511)
  Pages,        \* the pages that are mapped
  Frames,       \* the frames they are mapped to
  Flags,        \* the flags they are mapped with, sets of bits
  Root,         \* the frame CR3 holds
  Boot,         \* by frame, what the boot loader left: [level, entries], level 0 for no table
  Blocks,       \* the frames of the addresses k_malloc returns, in order
  Headers,      \* by these frames, the word of the page that is the block's header, if one is
  ShiftFrames   \* frames below 2^40 bytes: a bit-field of 40 bits is shifted in 40 bits

\* An entry of a table.  null is the bit that makes an entry of the second or third
\* level a large page (PS in the comment of paging.h).
PageEntry == [present : BOOLEAN, writable : BOOLEAN, user_accessible : BOOLEAN,
              null : BOOLEAN, no_execute : BOOLEAN, physical_address : Nat]
Zero == [present |-> FALSE, writable |-> FALSE, user_accessible |-> FALSE,
         null |-> FALSE, no_execute |-> FALSE, physical_address |-> 0]

\* The entry number i of a table of the boot loader leads to another table.
BootLeads(t, i) ==
  /\ Boot[t].level \in 1 .. 3
  /\ Boot[t].entries[i].present /\ ~Boot[t].entries[i].null

\* The boot loader's tables are a tree under Root; an entry that is not present is 0.
BootTree ==
  /\ Root \in DOMAIN Boot /\ Boot[Root].level = 1
  /\ \A t \in DOMAIN Boot, i \in Indices :
       /\ Boot[t].level # 0 /\ ~Boot[t].entries[i].present => Boot[t].entries[i] = Zero
       /\ Boot[t].entries[i].null => Boot[t].level # 1
  /\ \A t \in DOMAIN Boot, i \in Indices : BootLeads(t, i) =>
       LET next == Boot[t].entries[i].physical_address IN
         /\ next \in DOMAIN Boot /\ Boot[next].level = Boot[t].level + 1
         /\ \A u \in DOMAIN Boot, j \in Indices :
              BootLeads(u, j) /\ Boot[u].entries[j].physical_address = next => t = u /\ i = j

ASSUME PagingAssumption ==
  /\ 0 \in Indices
  /\ Pages \subseteq Indices \X Indices \X Indices \X Indices
  /\ Indices \subseteq Nat
  /\ Flags \subseteq SUBSET (0 .. 7)
  /\ Frames \subseteq Nat
  /\ ShiftFrames \in Nat
  /\ Blocks \in Seq(2 .. ShiftFrames - 1) /\ IsInjective(Blocks)
  /\ Headers \in [ToSet(Blocks) -> Nat]
  /\ Boot \in [DOMAIN Boot -> [level : 0 .. 4, entries : [Indices -> PageEntry]]]
  /\ DOMAIN Boot \subseteq (2 .. ShiftFrames - 1) \ ToSet(Blocks)
  /\ BootTree

VARIABLES
  pml4,         \* the frame of the top table, NoFrame before initPML4
  tables,       \* the frames of Boot and Blocks, as page tables
  given,        \* blocks k_malloc gave so far
  tlb,          \* what the processor remembers of each page, NoFrame if nothing
  pagingStage,  \* the next step of mapPage, "idle" between calls
  call,         \* the page, frame and flags mapPage was called with
  level, table, \* where mapPage is: the entry is number call.page[level] of table
  target,       \* the frame the entry is being set to
  mapped,       \* the calls mapPage returned from: the last one for each page
  intoLarge     \* whether mapPage was ever called for a page in a large page

pagingVars == <<pml4, tables, given, tlb, pagingStage, call, level, table, target, mapped, intoLarge>>

NoFrame == -1
NotMapped == [page |-> << >>, frame |-> NoFrame, flags |-> {}]
Calls == [page : Pages, frame : Frames, flags : Flags]

\* The page of a zeroed block, with its header (the size, 4096) read as an entry.
BlockHeader == [Zero EXCEPT !.physical_address = 1]
EmptyTable(block) == [i \in Indices |-> IF i = Headers[block] THEN BlockHeader ELSE Zero]

PageTables == DOMAIN Boot \cup ToSet(Blocks)

PagingInit ==
  /\ pml4 = NoFrame
  /\ tables = [t \in PageTables |->
                 IF t \in DOMAIN Boot THEN Boot[t].entries ELSE [i \in Indices |-> Zero]]
  /\ given = 0
  /\ tlb = [p \in Pages |-> NoFrame]
  /\ pagingStage = "initPML4"
  /\ call = NotMapped
  /\ level = 0 /\ table = NoFrame /\ target = NoFrame
  /\ mapped = [p \in Pages |-> NotMapped]
  /\ intoLarge = FALSE

------------------------------------------------------------------------------
Shift(frame) == frame % ShiftFrames

\* The page is in a large page of the boot loader.
InLargePage(page) ==
  LET Follow(t, i) == IF t \in DOMAIN Boot THEN Boot[t].entries[i].physical_address ELSE NoFrame
      Large(t, i) == t \in DOMAIN Boot /\ Boot[t].entries[i].null
      second == Follow(Root, page[1])
      third == Follow(second, page[2])
  IN Large(second, page[2]) \/ Large(third, page[3])

initPML4 ==
  /\ pagingStage = "initPML4"
  /\ pml4' = Root
  /\ pagingStage' = "idle"
  /\ UNCHANGED <<tables, given, tlb, call, level, table, target, mapped, intoLarge>>

mapPage ==
  /\ pagingStage = "idle"
  /\ call' \in Calls
  /\ level' = 1 /\ table' = pml4
  /\ intoLarge' = (intoLarge \/ InLargePage(call'.page))
  /\ pagingStage' = "entry"
  /\ UNCHANGED <<pml4, tables, given, tlb, target, mapped>>

Entry == tables[table][call.page[level]]

\* The entry is present: mapPage goes on in the table it points to.  It does not look
\* whether the entry is a large page: it then goes on in the page, whose first words
\* it takes for entries, and may get into memory that is not modelled.
descend ==
  /\ pagingStage = "entry" /\ level < 4
  /\ Entry.present
  /\ table' = Shift(Entry.physical_address)
  /\ level' = level + 1
  /\ pagingStage' = IF table' \in PageTables THEN "entry" ELSE "lost"
  /\ UNCHANGED <<pml4, tables, given, tlb, call, target, mapped, intoLarge>>

\* setPageTableEntry stores the flags before the address; (flags & 0x20) & 1 is 0.
WithFlags(entry, flags) ==
  [entry EXCEPT !.present = 1 \in flags, !.writable = 2 \in flags,
                !.user_accessible = 3 \in flags, !.null = FALSE, !.no_execute = 7 \in flags]

\* allocateEntry, up to the store of the address.  k_malloc clears the block.
\* Without a block the entry gets frame 0: mapPage goes on in page 0, which the
\* boot loader does not map.
allocateEntry ==
  /\ pagingStage = "entry" /\ level < 4
  /\ ~Entry.present
  /\ IF given < Len(Blocks)
     THEN /\ target' = Blocks[given + 1]
          /\ tables' = [tables EXCEPT ![target'] = EmptyTable(target'),
                                      ![table][call.page[level]] = WithFlags(@, call.flags)]
          /\ given' = given + 1
          /\ pagingStage' = "address"
     ELSE /\ pagingStage' = "fault"
          /\ UNCHANGED <<target, tables, given>>
  /\ UNCHANGED <<pml4, tlb, call, level, table, mapped, intoLarge>>

\* The entry of the page itself, up to the store of the address.
setFlags ==
  /\ pagingStage = "entry" /\ level = 4
  /\ tables' = [tables EXCEPT ![table][call.page[4]] = WithFlags(@, call.flags)]
  /\ target' = call.frame
  /\ pagingStage' = "address"
  /\ UNCHANGED <<pml4, given, tlb, call, level, table, mapped, intoLarge>>

\* The store of the address, and mapPage's step to the next level.
setAddress ==
  /\ pagingStage = "address"
  /\ tables' = [tables EXCEPT ![table][call.page[level]].physical_address = target]
  /\ IF level = 4 THEN pagingStage' = "flushTLB" /\ UNCHANGED <<table, level>>
     ELSE pagingStage' = "entry" /\ table' = Shift(target) /\ level' = level + 1
  /\ UNCHANGED <<pml4, given, tlb, call, target, mapped, intoLarge>>

Return ==
  /\ pagingStage' = "idle"
  /\ call' = NotMapped /\ level' = 0 /\ table' = NoFrame /\ target' = NoFrame

\* Variant with a bug: the processor is not told.
noFlush ==
  /\ pagingStage = "flushTLB"
  /\ mapped' = [mapped EXCEPT ![call.page] = call]
  /\ Return
  /\ UNCHANGED <<pml4, tables, given, tlb, intoLarge>>

flushTLB ==
  /\ pagingStage = "flushTLB"
  /\ tlb' = [tlb EXCEPT ![call.page] = NoFrame]
  /\ mapped' = [mapped EXCEPT ![call.page] = call]
  /\ Return
  /\ UNCHANGED <<pml4, tables, given, intoLarge>>

\* A level of the processor's walk: what the entry leads to, if it is present.
\* Outside the tables the processor reads other memory as entries.
LookUp(t, i) ==
  IF t \notin PageTables THEN t
  ELSE IF tables[t][i].present THEN tables[t][i].physical_address ELSE NoFrame

LargePage(t, i) == t \in PageTables /\ tables[t][i].present /\ tables[t][i].null

\* The table the walk of a page ends in, and the page's frame.  A large page is 512 or
\* 512 * 512 frames.
Walk(page) ==
  LET second == LookUp(Root, page[1])
      third == LookUp(second, page[2])
      fourth == LookUp(third, page[3])
  IN IF LargePage(second, page[2])
     THEN [table |-> second, frame |-> third + 512 * page[3] + page[4]]
     ELSE IF LargePage(third, page[3])
     THEN [table |-> third, frame |-> fourth + page[4]]
     ELSE [table |-> fourth, frame |-> LookUp(fourth, page[4])]

\* The processor walks the tables for any page at any time, and remembers a walk
\* that succeeds.
Fill(page) ==
  /\ pagingStage # "fault"
  /\ Walk(page).frame # NoFrame
  /\ \E frame \in IF Walk(page).table \in PageTables THEN {Walk(page).frame} ELSE Frames :
       tlb' = [tlb EXCEPT ![page] = frame]
  /\ UNCHANGED <<pml4, tables, given, pagingStage, call, level, table, target, mapped, intoLarge>>

PagingNext ==
  \/ initPML4 \/ mapPage \/ descend \/ allocateEntry \/ setFlags \/ setAddress \/ flushTLB
  \/ \E page \in Pages : Fill(page)

PagingSpec == PagingInit /\ [][PagingNext]_pagingVars

------------------------------------------------------------------------------
\* getPhysicalAddress looks at no present bit, and shifts in 40 bits at the last
\* level only.
getPhysicalAddress(page) ==
  LET Address(t, l) == tables[t][page[l]].physical_address
  IN Shift(Address(Address(Address(Address(pml4, 1), 2), 3), 4))

PagingTypeOK ==
  /\ pml4 \in {NoFrame, Root}
  /\ \A t \in PageTables, i \in Indices : tables[t][i] \in PageEntry
  /\ given \in 0 .. Len(Blocks)
  /\ tlb \in [Pages -> Nat \cup {NoFrame}]
  /\ pagingStage \in {"initPML4", "idle", "entry", "address", "flushTLB", "fault", "lost"}
  /\ call \in Calls \cup {NotMapped}
  /\ level \in 0 .. 4 /\ (table \in PageTables \cup {NoFrame} \/ pagingStage = "lost")
  /\ mapped \in [Pages -> Calls \cup {NotMapped}]

\* A page mapPage has returned for and is not working on again.
Settled(page) ==
  /\ mapped[page] # NotMapped
  /\ page = call.page => pagingStage = "idle"
PresentFlag(page) == 1 \in mapped[page].flags

\* Whatever other page mapPage is working on, and between any two of its stores, a
\* page it has mapped leads the processor, and getPhysicalAddress below 2^40, to the
\* frame it was mapped to last; the processor remembers no other frame of it, even
\* if it walked the tables while an entry held new flags and the old address
\* (paging.c:96).  Between calls, a page mapped as not present leads nowhere.  All
\* this as long as mapPage is called for no page in a large page of the boot loader: it
\* would go on in the page as if it were a table (paging.c:78), and promises nothing.
Translates ==
  ~intoLarge =>
    \A page \in Pages : Settled(page) =>
      IF PresentFlag(page)
      THEN /\ Walk(page).frame = mapped[page].frame
           /\ getPhysicalAddress(page) = Shift(mapped[page].frame)
           /\ tlb[page] \in {NoFrame, mapped[page].frame}
      ELSE pagingStage = "idle" => Walk(page).frame = NoFrame

\* paging.h:6, "options1: R P/W U/S", in "Bits (0-11)": a page mapped with bits 0 and
\* 1 set, as the test of kernel.c:151 maps the page it writes, is present and can
\* be written.  setPageTableEntry shifts the flags by one more.
FlagsAsDocumented ==
  \A page \in Pages :
    ~intoLarge /\ Settled(page) /\ pagingStage = "idle" /\ {0, 1} \subseteq mapped[page].flags =>
      /\ Walk(page).frame = mapped[page].frame
      /\ tables[Walk(page).table][page[4]].writable
==============================================================================
