------------------------------ MODULE MCServices -----------------------------
(***************************************************************************)
(* Model-checking instance of the parts of the kernel that run alone: the  *)
(* reading of the ACPI tables, the initial RAM disk, the RAM file system,  *)
(* the page tables and the C library.  They share no variable, and each    *)
(* property is about one of them, so a behaviour of this specification     *)
(* takes the steps of one part only.                                       *)
(***************************************************************************)
EXTENDS Acpi, Initrd, SimpleFs, Paging, Strings

VARIABLE part  \* the part that runs

Parts == {"acpi", "initrd", "simplefs", "paging", "lib"}

Init ==
  /\ part \in Parts
  /\ AcpiInit /\ InitrdInit /\ FsInit /\ PagingInit /\ LibInit

AcpiStep ==
  /\ part = "acpi" /\ AcpiNext
  /\ UNCHANGED <<part, initrdVars, fsVars, pagingVars, libVars>>
InitrdStep ==
  /\ part = "initrd" /\ InitrdNext
  /\ UNCHANGED <<part, acpiVars, fsVars, pagingVars, libVars>>
FsStep ==
  /\ part = "simplefs" /\ FsNext
  /\ UNCHANGED <<part, acpiVars, initrdVars, pagingVars, libVars>>
PagingStep ==
  /\ part = "paging" /\ PagingNext
  /\ UNCHANGED <<part, acpiVars, initrdVars, fsVars, libVars>>
LibStep ==
  /\ part = "lib" /\ LibNext
  /\ UNCHANGED <<part, acpiVars, initrdVars, fsVars, pagingVars>>

Next == AcpiStep \/ InitrdStep \/ FsStep \/ PagingStep \/ LibStep

vars == <<part, acpiVars, initrdVars, fsVars, pagingVars, libVars>>

Spec == Init /\ [][Next]_vars /\ WF_vars(AcpiStep)

\* Every part keeps the types of its variables.
ServicesTypeOK == AcpiTypeOK /\ InitrdTypeOK /\ FsTypeOK /\ PagingTypeOK /\ LibTypeOK

\* A descriptor of a revision, with its checksums right.
RSDP(of_revision, xsdt_high) ==
  LET d == [b \in 0 .. 35 |->
              CASE b < 8 -> 82 [] b \in 9 .. 14 -> 66 [] b = revision -> of_revision
                [] b \in {16, 24} -> 224 [] b = 17 -> 15 [] b = 20 -> 36 [] b = 25 -> 16
                [] b = 28 -> xsdt_high [] OTHER -> 0]
      first == [d EXCEPT ![8] = (-FirstPart(d)) % 256]
  IN [first EXCEPT ![32] = (-SecondPart(first)) % 256]

\* Such descriptors, and each of their bytes wrong in a few ways: the revision may turn
\* from 0 into 2.
MCDescriptors ==
  LET valid == {RSDP(0, 0), RSDP(2, 0), RSDP(2, 1)}
      wrong(d) == {[d EXCEPT ![b] = (@ + n) % 256] : b \in 0 .. 35, n \in {1, 2, 254}}
  IN valid \cup UNION {wrong(v) : v \in valid}

\* A processor, an I/O APIC, an override, a local APIC address, and a record of a type
\* parseMADT does not know.
MCRecordKinds ==
  {[entry_type |-> 0, record_length |-> 8],
   [entry_type |-> 1, record_length |-> 12],
   [entry_type |-> 2, record_length |-> 10],
   [entry_type |-> 5, record_length |-> 12],
   [entry_type |-> 6, record_length |-> 16]}

\* The table of these records.
MADTOf(kinds) ==
  [k \in DOMAIN kinds |->
     [entry_type |-> kinds[k].entry_type, record_length |-> kinds[k].record_length,
      offset |-> Header + SumFunctionOnSet([j \in DOMAIN kinds |-> kinds[j].record_length], 1 .. k - 1)]]

\* Up to three records, in an RSDT of up to two tables.
MCMADTs == {MADTOf(kinds) : kinds \in BoundedSeq(MCRecordKinds, 3)}
MCRSDTs == BoundedSeq(Signatures, 2)

\* An image of these files, one right behind the other.
ImageOf(made_of) ==
  [k \in DOMAIN made_of |->
     [name |-> made_of[k].name, content |-> made_of[k].content,
      start |-> 1 + Len(made_of)
                 + SumFunctionOnSet([j \in DOMAIN made_of |-> Len(made_of[j].content)], 1 .. k - 1)]]

\* Up to two files of up to three bytes.
MCImages ==
  {ImageOf(made_of) : made_of \in BoundedSeq([name : Names, content : BoundedSeq({0, 1}, 3)], 2)}

\* A word, with a 0 in it, as long as an inode, with a 0 first.
MCData == {<<1>>, <<2, 0, 1>>, <<1, 2, 1, 2>>, <<0, 2>>}

\* What the boot loader left: under its first two tables (2 and 8) another one (9) with
\* a table of pages (10) and a large page, whose first frame (12) holds words that
\* look like an entry that leads to the root.
MCBootTables ==
  LET Leads(frame) == [Zero EXCEPT !.present = TRUE, !.writable = TRUE, !.physical_address = frame]
      Large(frame) == [Leads(frame) EXCEPT !.null = TRUE]
      Of(l, first, second) == [level |-> l, entries |-> [n \in Indices |-> IF n = 0 THEN first ELSE second]]
  IN (2 :> Of(1, Leads(8), Zero)) @@ (8 :> Of(2, Leads(9), Zero))
       @@ (9 :> Of(3, Leads(10), Large(12))) @@ (10 :> Of(4, Zero, Leads(9)))
       @@ (12 :> Of(0, Leads(2), Zero))

\* A page the boot loader mapped, to the frame of one of its tables; one in its large
\* page; and two under the same new second table.  Flags 3 and 1.
MCPages == {<<0, 0, 0, 1>>, <<0, 0, 1, 0>>, <<1, 0, 1, 0>>, <<1, 0, 0, 1>>}
MCFlags == {{0, 1}, {0}}
MCBlocks == <<3, 4, 5, 6, 7>>
MCHeaders == [block \in ToSet(MCBlocks) |-> block % 3]
==============================================================================
