--------------------------------- MODULE Acpi --------------------------------
(***************************************************************************)
(* How the kernel learns of its interrupt controllers:                     *)
(* validateRSDPChecksum, findHeader, initMADT and parseMADT                *)
(* (kernel/interfaces), and the start of _start, which calls them and      *)
(* reads the arrays parseMADT fills (kernel/kernel.c).                     *)
(*                                                                         *)
(* A record of the MADT is known by the offset at which it starts; that    *)
(* offset stands for the pointer parseMADT stores.  parseMADT reads one    *)
(* record per step.                                                        *)
(***************************************************************************)
EXTENDS Integers, Sequences, FiniteSets

CONSTANTS
  Descriptors, \* what the RSDP can be: its 36 bytes, from 0 on
  RSDTs,       \* what the RSDT can be: the signatures of the tables it points to
  MADTs,       \* what the MADT can be: its records, [entry_type, record_length, offset]
  Entries,     \* entries of each of the seven arrays (32)
  Overrides,   \* source overrides _start reads (5)
  Header       \* sizeof(MADT)

Signatures == {"FACP", "APIC", "HPET"}
Record == [entry_type : Nat, record_length : Nat \ {0}, offset : Nat]

\* The records fill the table from its header on, each right behind the one before.
FillTable(madt_records) ==
  \A k \in DOMAIN madt_records :
    madt_records[k].offset =
      IF k = 1 THEN Header ELSE madt_records[k - 1].offset + madt_records[k - 1].record_length

\* The descriptor's fields, as the ACPI specification and acpi.h lay them out: bytes 0
\* to 19 are the first part, with the revision in byte 15, and the high half of
\* xsdt_address is in bytes 28 to 31.
Descriptor == [0 .. 35 -> 0 .. 255]
revision == 15
Sum4(d, b) == d[b] + d[b + 1] + d[b + 2] + d[b + 3]
FirstPart(d) == Sum4(d, 0) + Sum4(d, 4) + Sum4(d, 8) + Sum4(d, 12) + Sum4(d, 16)
SecondPart(d) == Sum4(d, 20) + Sum4(d, 24) + Sum4(d, 28) + Sum4(d, 32)

\* What ACPI asks of the descriptor: its first part, and with revision 2 the whole of
\* it, add up to 0.
Valid(d) ==
  FirstPart(d) % 256 = 0 /\ (d[revision] = 2 => (FirstPart(d) + SecondPart(d)) % 256 = 0)

\* d is v with one byte wrong.
OneByteWrong(d, v) ==
  \E wrong \in 0 .. 35 :
    /\ d[wrong] # v[wrong]
    /\ \A b \in (0 .. 35) \ {wrong} : d[b] = v[b]

ASSUME AcpiAssumption ==
  /\ Descriptors \subseteq Descriptor
  /\ RSDTs \subseteq Seq(Signatures)
  /\ MADTs \subseteq Seq(Record) /\ \A madt_records \in MADTs : FillTable(madt_records)
  /\ Entries \in Nat \ {0}
  /\ Overrides \in 0 .. Entries
  /\ Header \in Nat \ {0}

VARIABLES
  rsdp,     \* what the descriptor is like: "none" before it is read
  ready,    \* whether validateRSDPChecksum took it
  rsdt,     \* the signatures of the tables the RSDT points to
  records,  \* the records of the MADT
  madt,     \* the table madt points to, NULL if none
  acpiStage,
  length,   \* parseMADT's offset of the next record
  found,    \* found[t]: records of type t seen, the array's index (i, j, ...)
  array     \* array[t]: the array of type t's records

firmwareVars == <<rsdp, ready, rsdt, records>>
acpiVars == <<firmwareVars, madt, acpiStage, length, found, array>>

NULL == 0

\* Processor, I/O APIC, source override, NMI source, local NMI, local APIC
\* address, x2APIC.
Types == {0, 1, 2, 3, 4, 5, 9}
IOAPICType == 1
OverrideType == 2

\* The layout of the table.
Start(k) == records[k].offset
End(k) == Start(k) + records[k].record_length
Total == IF records = << >> THEN Header ELSE End(Len(records))

AcpiInit ==
  /\ rsdp = "none" /\ ready = FALSE
  /\ rsdt = << >> /\ records = << >>
  /\ madt = NULL
  /\ acpiStage = "_start"
  /\ length = 0
  /\ found = [t \in Types |-> 0]
  /\ array = [t \in Types |-> [e \in 1 .. Entries |-> NULL]]

------------------------------------------------------------------------------
\* Variant with a bug: the address of the XSDT is left out.
validateWithoutXSDT(d) ==
  FirstPart(d) + IF d[revision] = 2 THEN Sum4(d, 20) + Sum4(d, 32) ELSE 0

\* checksum, signature, OEM_id, revision and rsdt_address; then length, xsdt_address,
\* extended_checksum and reserved.  address_byte has 32 bits: the loop over the eight
\* bytes of xsdt_address adds its low four, and then zeros.
validateRSDPChecksum(d) ==
  d[8] + Sum4(d, 0) + Sum4(d, 4) + d[9] + d[10] + d[11] + d[12] + d[13] + d[14]
    + d[revision] + Sum4(d, 16)
    + IF d[revision] = 2 THEN Sum4(d, 20) + Sum4(d, 24) + d[32] + d[33] + d[34] + d[35]
                         ELSE 0

\* An address below 2^32 has only 0 above its low bytes.  The sum leaves these bytes
\* out: whether they are right, it cannot tell.  Nor can a sum tell of two wrong bytes,
\* or of a revision that has become 2, with whatever bytes follow the first part.
Below4G(d) == d[28] = 0 /\ d[29] = 0 /\ d[30] = 0 /\ d[31] = 0
Kind(d) ==
  IF d[revision] = 2 /\ ~Below4G(d) THEN "high"
  ELSE IF Valid(d) THEN "valid"
  ELSE IF d[revision] = 2 /\ ~\E v \in Descriptors : v[revision] = 2 /\ Valid(v) /\ OneByteWrong(d, v)
  THEN "other" ELSE "corrupt"

\* The start of _start.  It goes on with the RSDT whatever the checksum says.  Of
\* the descriptor only its kind is kept.
readRSDP ==
  /\ acpiStage = "_start"
  /\ \E d \in Descriptors :
       /\ rsdp' = Kind(d)
       /\ ready' = (validateRSDPChecksum(d) % 256 = 0)
  /\ acpiStage' = "findFADT"
  /\ UNCHANGED <<rsdt, records, madt, length, found, array>>

\* _start only prints what it finds of the FADT.  This is the first look at the tables
\* the firmware has made.
findFADT ==
  /\ acpiStage = "findFADT"
  /\ rsdt' \in RSDTs /\ records' \in MADTs
  /\ acpiStage' = "initMADT"
  /\ UNCHANGED <<rsdp, ready, madt, length, found, array>>

\* The first table with the signature.
findHeader(signature) ==
  IF \E i \in DOMAIN rsdt : rsdt[i] = signature
  THEN CHOOSE i \in DOMAIN rsdt :
         rsdt[i] = signature /\ \A j \in 1 .. i - 1 : rsdt[j] # signature
  ELSE NULL

\* The first read through a NULL madt faults: page 0 is not mapped, and there are
\* no exception handlers yet.
initMADT ==
  /\ acpiStage = "initMADT"
  /\ madt' = findHeader("APIC")
  /\ acpiStage' = IF madt' = NULL THEN "fault" ELSE "parseMADT"
  /\ length' = Header
  /\ UNCHANGED <<firmwareVars, found, array>>

\* The record is stored in the next entry of its type's array.  Past the last
\* entry, the store hits whatever the linker placed there: maybe an entry of
\* another array.
Store(t, offset) ==
  IF found[t] < Entries
  THEN array' = [array EXCEPT ![t][found[t] + 1] = offset]
  ELSE \/ \E u \in Types \ {t}, e \in 1 .. Entries : array' = [array EXCEPT ![u][e] = offset]
       \/ UNCHANGED array

\* Variant with a bug: the index of the overrides is not advanced.
parseRecordSameOverride ==
  /\ acpiStage = "parseMADT"
  /\ length < Total
  /\ \E k \in DOMAIN records :
       LET t == records[k].entry_type IN
         /\ Start(k) = length
         /\ t \in Types
         /\ Store(t, length)
         /\ found' = [found EXCEPT ![t] = IF t = OverrideType THEN @ ELSE @ + 1]
         /\ length' = length + records[k].record_length
  /\ UNCHANGED <<firmwareVars, madt, acpiStage>>

\* Variant with a bug: the entry header is skipped on top of the record.
parseRecordAndHeader ==
  /\ acpiStage = "parseMADT"
  /\ length < Total
  /\ \E k \in DOMAIN records :
       LET t == records[k].entry_type IN
         /\ Start(k) = length
         /\ t \in Types
         /\ Store(t, length)
         /\ found' = [found EXCEPT ![t] = @ + 1]
         /\ length' = length + records[k].record_length + 2
  /\ UNCHANGED <<firmwareVars, madt, acpiStage>>

\* A record of a type the switch has no case for is not skipped: the loop reads
\* it again, for ever.
parseRecord ==
  /\ acpiStage = "parseMADT"
  /\ length < Total
  /\ \E k \in DOMAIN records :
       LET t == records[k].entry_type IN
         /\ Start(k) = length
         /\ t \in Types
         /\ Store(t, length)
         /\ found' = [found EXCEPT ![t] = @ + 1]
         /\ length' = length + records[k].record_length
  /\ UNCHANGED <<firmwareVars, madt, acpiStage>>

parsed ==
  /\ acpiStage = "parseMADT"
  /\ length >= Total
  /\ acpiStage' = "list"
  /\ UNCHANGED <<firmwareVars, madt, length, found, array>>

\* Variant with a bug: one override too many is read.
listOneMore ==
  /\ acpiStage = "list"
  /\ acpiStage' = IF array[IOAPICType][1] # NULL
              /\ \A e \in 1 .. Overrides + 1 : array[OverrideType][e] # NULL
           THEN "listed" ELSE "fault"
  /\ UNCHANGED <<firmwareVars, madt, length, found, array>>

\* _start prints the first I/O APIC and the first overrides without a look at how
\* many there are.
list ==
  /\ acpiStage = "list"
  /\ acpiStage' = IF array[IOAPICType][1] # NULL
              /\ \A e \in 1 .. Overrides : array[OverrideType][e] # NULL
           THEN "listed" ELSE "fault"
  /\ UNCHANGED <<firmwareVars, madt, length, found, array>>

AcpiNext == readRSDP \/ findFADT \/ initMADT \/ parseRecord \/ parsed \/ list

AcpiSpec == AcpiInit /\ [][AcpiNext]_acpiVars /\ WF_acpiVars(AcpiNext)

------------------------------------------------------------------------------
AcpiTypeOK ==
  /\ rsdp \in {"none", "valid", "high", "corrupt", "other"} /\ ready \in BOOLEAN
  /\ madt \in 0 .. Len(rsdt)
  /\ acpiStage \in {"_start", "findFADT", "initMADT", "parseMADT", "list", "listed", "fault"}
  /\ length \in 0 .. Total
  /\ found \in [Types -> 0 .. Len(records)]
  /\ array \in [Types -> [1 .. Entries -> 0 .. Total]]

\* The kernel says "ACPI ready" of every valid descriptor, and not of one whose sums
\* are wrong, if it has no second part, or if it has revision 2 as it should and one
\* byte wrong, although it looks at one sum only.  Nothing is said of a descriptor of
\* revision 2 with a byte other than 0 in the upper half of the XSDT's address, rightly
\* or wrongly: acpi.c:40 drops these bytes, and a wrong one there goes unnoticed.
ReadyIfValid == rsdp \in {"valid", "corrupt"} => (ready <=> rsdp = "valid")

OfType(t) == {k \in DOMAIN records : records[k].entry_type = t}
TablesFit == \A t \in Types : Cardinality(OfType(t)) <= Entries

\* The records of a type up to the k-th record, and the one parseMADT has passed that
\* is the e-th of its type.
UpTo(t, k) == {j \in OfType(t) : j <= k}
Passed(t, e) == {k \in OfType(t) : Start(k) < length /\ Cardinality(UpTo(t, k)) = e}

\* When parseMADT is past a record, the record is in the array of its type, at the
\* place its order among the records of that type gives it, and nothing else is in
\* the arrays, as long as no type has more records than its array has entries
\* (madt.c:27).
Collected ==
  TablesFit =>
    \A t \in Types, e \in 1 .. Entries :
      array[t][e] \in IF Passed(t, e) = {} THEN {NULL} ELSE {Start(k) : k \in Passed(t, e)}

\* What _start takes for granted of the firmware's tables.
Expected ==
  /\ \E i \in DOMAIN rsdt : rsdt[i] = "APIC"
  /\ \A k \in DOMAIN records : records[k].entry_type \in Types
  /\ TablesFit
  /\ OfType(IOAPICType) # {}
  /\ Cardinality(OfType(OverrideType)) >= Overrides

\* On tables as expected the kernel gets past parseMADT and reads what it found
\* (kernel.c:107, "found APICS").
ListsAPICs == [](acpiStage = "initMADT" /\ Expected => <>(acpiStage = "listed"))
==============================================================================
