------------------------------ MODULE AhciProofs -----------------------------
(***************************************************************************)
(* Proofs about Ahci for every number of slots and polls, every set of     *)
(* sector counts and every number of calls and errors: the variables keep  *)
(* their types, and a call reports its own command's success or error.     *)
(*                                                                         *)
(* A command that is issued describes the caller's whole buffer.           *)
(*                                                                         *)
(* The argument: unless the adapter is halted the only command in ci is    *)
(* the one the running call waits for, so what the adapter completes or    *)
(* fails is that command; and a halted adapter changes nothing until       *)
(* portRebase has cleared ci.                                              *)
(***************************************************************************)
EXTENDS Ahci, TLAPS, WellFoundedInduction

\* Between the call of runCommand and its return.
Running == pc \in {"busyWait", "issue", "completion", "again"}
Waiting == pc \in {"completion", "again"}

\* ST is clear while portRebase has stopped the port, and the engine has stopped when
\* stopCMD returns.
StopsEngine ==
  /\ st <=> pc \notin {"stop", "start"}
  /\ pc = "start" => ~cr

\* Only the running call's command is in ci, and once it was issued.
OnlyThisCommand ==
  /\ ~halted => ci \subseteq {slot} /\ (ci # {} => Waiting)
  /\ active # NoSlot => ~halted /\ active \in ci

\* While a call runs an error is its own, and its command stays in ci.
ErrorIsOwn ==
  /\ tfes /\ Running => halted /\ failedCall = calls /\ slot \in ci
  /\ pc = "idle" /\ result = "error" => failedCall = calls

\* A command that left ci moved what its FIS asked for.
MovedAsAsked ==
  /\ Running => slot \in Slots /\ fisCount = FisCount(count) /\ count > 0 /\ result = "none"
  /\ count \in Nat
  /\ Waiting /\ slot \notin ci => moved = fisCount
  /\ pc = "idle" /\ result = "ok" => moved = FisCount(count) /\ count > 0

AhciInv == TypeOK /\ StopsEngine /\ OnlyThisCommand /\ ErrorIsOwn /\ MovedAsAsked

------------------------------------------------------------------------------
\* The natural numbers are well-founded, as a relation the provers can use.
LEMMA LessThan ==
  \E R : IsWellFoundedOn(R, Nat) /\ \A x, y \in Nat : y < x => <<y, x>> \in R
<1> DEFINE R == OpToRel(<, Nat)
<1>1. IsWellFoundedOn(R, Nat)
  BY NatLessThanWellFounded
<1>2. \A x, y \in Nat : y < x => <<y, x>> \in R
  BY DEF OpToRel
<1> HIDE DEF R
<1> QED BY <1>1, <1>2

LEMMA MinOfNats ==
  ASSUME NEW S \in SUBSET Nat, S # {}
  PROVE  Min(S) \in S
<1>1. PICK R : IsWellFoundedOn(R, Nat) /\ \A x, y \in Nat : y < x => <<y, x>> \in R
  BY LessThan
<1>2. PICK x \in S : \A y \in S : <<y, x>> \notin R
  BY <1>1, WFMin
<1>3. \A y \in S : x =< y
  <2>1. \A y \in S : ~(y < x)
    BY <1>1, <1>2
  <2> QED BY <2>1
<1> QED BY <1>3 DEF Min

\* findCMDSlot returns a slot whose bit in ci is 0, or none.
LEMMA FoundSlotIsFree ==
  ASSUME ci \subseteq Slots
  PROVE  findCMDSlot \in (Slots \ ci) \cup {NoSlot}
<1>1. CASE ci = Slots
  BY <1>1 DEF findCMDSlot
<1>2. CASE ci # Slots
  <2>1. Slots \ ci \in SUBSET Nat
    BY AhciAssumption DEF Slots
  <2>2. Slots \ ci # {}
    BY <1>2
  <2> QED BY <1>2, <2>1, <2>2, MinOfNats DEF findCMDSlot
<1> QED BY <1>1, <1>2

\* One PRDT entry is enough for a count of 1 to 16, and the FIS then names all of it.
LEMMA ShortFis ==
  ASSUME NEW n \in 1 .. PrdSectors
  PROVE  FisCount(n) = n
BY DEF PrdSectors, FisCount, Full

------------------------------------------------------------------------------
LEMMA AhciInit == Init => AhciInv
<1> SUFFICES ASSUME Init PROVE AhciInv
  OBVIOUS
<1>1. TypeOK
  <2>1. errors \in 0 .. MaxErrors /\ calls \in 0 .. MaxCalls /\ spin \in 0 .. SpinLimit
    BY AhciAssumption DEF Init
  <2>2. ci \subseteq Slots /\ pc \in PcValues /\ result \in Results
    BY DEF Init, PcValues, Results
  <2> QED BY <2>1, <2>2 DEF Init, TypeOK
<1>2. StopsEngine /\ OnlyThisCommand
  BY DEF Init, StopsEngine, OnlyThisCommand
<1>3. ErrorIsOwn /\ MovedAsAsked
  BY DEF Init, ErrorIsOwn, MovedAsAsked, Running, Waiting
<1> QED BY <1>1, <1>2, <1>3 DEF AhciInv

LEMMA CallStep ==
  ASSUME AhciInv, NEW n \in Counts, runCommand(n)
  PROVE  AhciInv'
<1>1. findCMDSlot \in (Slots \ ci) \cup {NoSlot} /\ NoSlot \notin Slots
  BY FoundSlotIsFree DEF AhciInv, TypeOK, Slots, NoSlot
<1>2. n \in Nat /\ n > 0
  BY AhciAssumption
<1>3. TypeOK'
  <2>1. slot' \in Slots \cup {NoSlot} /\ calls' \in 0 .. MaxCalls /\ spin' \in 0 .. SpinLimit
    BY <1>1, AhciAssumption DEF AhciInv, TypeOK, runCommand
  <2>2. pc' \in PcValues /\ result' \in Results
    BY DEF AhciInv, TypeOK, runCommand, PcValues, Results
  <2> QED BY <2>1, <2>2 DEF AhciInv, TypeOK, runCommand, adapter
<1>4. StopsEngine'
  BY DEF AhciInv, StopsEngine, runCommand, adapter
<1>5. OnlyThisCommand'
  BY DEF AhciInv, OnlyThisCommand, runCommand, adapter, Waiting
<1>6. ErrorIsOwn'
  BY DEF AhciInv, ErrorIsOwn, runCommand, adapter, Running
<1>7. MovedAsAsked'
  BY <1>1, <1>2 DEF AhciInv, MovedAsAsked, runCommand, adapter, Running, Waiting, Slots, NoSlot
<1> QED BY <1>3, <1>4, <1>5, <1>6, <1>7 DEF AhciInv

\* The driver's steps inside a call.
LEMMA RunStep ==
  ASSUME AhciInv, spinOnBusy \/ issue \/ waitCompletion \/ checkError
  PROVE  AhciInv'
<1> USE DEF AhciInv, registers, adapter, locals
<1>1. CASE spinOnBusy
  BY <1>1, AhciAssumption DEF spinOnBusy, TypeOK, StopsEngine, OnlyThisCommand, ErrorIsOwn,
    MovedAsAsked, Running, Waiting, PcValues, Results, Slots
<1>2. CASE issue
  BY <1>2 DEF issue, TypeOK, StopsEngine, OnlyThisCommand, ErrorIsOwn,
    MovedAsAsked, Running, Waiting, PcValues
<1>3. CASE waitCompletion
  <2>1. TypeOK' /\ StopsEngine' /\ OnlyThisCommand'
    BY <1>3 DEF waitCompletion, TypeOK, StopsEngine, OnlyThisCommand, ErrorIsOwn, Running,
      Waiting, PcValues, Results
  <2>2. ErrorIsOwn'
    BY <1>3 DEF waitCompletion, ErrorIsOwn, Running
  <2>3. MovedAsAsked'
    BY <1>3 DEF waitCompletion, MovedAsAsked, Running, Waiting
  <2> QED BY <2>1, <2>2, <2>3
<1>4. CASE checkError
  BY <1>4 DEF checkError, TypeOK, StopsEngine, OnlyThisCommand, ErrorIsOwn,
    MovedAsAsked, Running, Waiting, PcValues, Results
<1> QED BY <1>1, <1>2, <1>3, <1>4

\* The steps of portRebase.
LEMMA RebaseStep ==
  ASSUME AhciInv, portRebase \/ stopCMD \/ startCMD
  PROVE  AhciInv'
<1> USE DEF AhciInv, registers, adapter, locals, TypeOK, StopsEngine, OnlyThisCommand,
      ErrorIsOwn, MovedAsAsked, Running, Waiting, PcValues, Results
<1>1. CASE portRebase
  BY <1>1 DEF portRebase
<1>2. CASE stopCMD
  BY <1>2 DEF stopCMD
<1>3. CASE startCMD
  BY <1>3 DEF startCMD
<1> QED BY <1>1, <1>2, <1>3

\* The adapter's steps.
LEMMA AdapterStep ==
  ASSUME AhciInv, Adapter
  PROVE  AhciInv'
<1> USE DEF AhciInv, locals, TypeOK, StopsEngine, OnlyThisCommand, ErrorIsOwn, MovedAsAsked,
      Running, Waiting
<1>1. CASE Ready
  BY <1>1 DEF Ready, adapter
<1>2. CASE Start
  BY <1>2 DEF Start
<1>3. CASE Complete
  BY <1>3 DEF Complete
<1>4. CASE FailCommand
  <2>1. Waiting /\ slot \in ci /\ ~halted
    BY <1>4 DEF FailCommand
  <2>2. TypeOK'
    <3>1. errors' \in 0 .. MaxErrors
      BY <1>4, AhciAssumption DEF FailCommand
    <3> QED BY <1>4, <3>1 DEF FailCommand
  <2>3. ErrorIsOwn'
    BY <1>4, <2>1 DEF FailCommand
  <2>4. StopsEngine' /\ OnlyThisCommand' /\ MovedAsAsked'
    BY <1>4, <2>1 DEF FailCommand
  <2> QED BY <2>2, <2>3, <2>4
<1>5. CASE FollowST
  BY <1>5 DEF FollowST
<1> QED BY <1>1, <1>2, <1>3, <1>4, <1>5 DEF Adapter

LEMMA AhciStutter ==
  ASSUME AhciInv, UNCHANGED vars
  PROVE  AhciInv'
BY DEF AhciInv, vars, registers, adapter, locals, TypeOK, StopsEngine, OnlyThisCommand,
  ErrorIsOwn, MovedAsAsked, Running, Waiting

LEMMA AhciAlways == Spec => []AhciInv
<1>1. AhciInv /\ [Next]_vars => AhciInv'
  BY CallStep, RunStep, RebaseStep, AdapterStep, AhciStutter DEF Next, Driver
<1> QED BY <1>1, AhciInit, PTL DEF Spec

\* The registers and the driver's variables keep their types; in particular only slots
\* the port has are issued (ahci.c:136).
THEOREM PortTypes == Spec => []TypeOK
BY AhciAlways, PTL DEF AhciInv

\* Whatever failed before, and however the driver's polls fall between the adapter's
\* steps: success of a transfer of up to 16 sectors means that they were moved, and an
\* error that this call's own command failed (ahci.c:235).
THEOREM OwnResult == Spec => []ReportsItsOwn
<1>1. AhciInv => ReportsItsOwn
  BY ShortFis DEF AhciInv, MovedAsAsked, ErrorIsOwn, ReportsItsOwn, SuccessMovedAll, PrdSectors
<1> QED BY <1>1, AhciAlways, PTL

------------------------------------------------------------------------------
\* What is filled in for the next command, until it is issued.
FilledIn ==
  pc \in {"busyWait", "issue"} => slot \notin ci /\ count \in Nat \ {0} /\ prdt = Prdt(count)

LEMMA FilledNext == FilledIn /\ TypeOK /\ [Next]_vars => FilledIn'
<1> SUFFICES ASSUME FilledIn, TypeOK, [Next]_vars PROVE FilledIn'
  OBVIOUS
<1> USE DEF FilledIn, registers, adapter, locals
<1>1. ASSUME NEW n \in Counts, runCommand(n) PROVE FilledIn'
  <2>1. findCMDSlot \notin ci \/ findCMDSlot = NoSlot
    BY FoundSlotIsFree DEF TypeOK
  <2> QED BY <1>1, <2>1, AhciAssumption DEF runCommand
<1>2. CASE spinOnBusy \/ issue \/ waitCompletion \/ checkError
  BY <1>2 DEF spinOnBusy, issue, waitCompletion, checkError
<1>3. CASE portRebase \/ stopCMD \/ startCMD
  BY <1>3 DEF portRebase, stopCMD, startCMD
<1>4. CASE Ready \/ Start \/ Complete
  BY <1>4 DEF Ready, Start, Complete
<1>5. CASE FailCommand \/ FollowST \/ UNCHANGED vars
  BY <1>5 DEF FailCommand, FollowST, vars
<1> QED BY <1>1, <1>2, <1>3, <1>4, <1>5 DEF Next, Driver, Adapter

\* A count in full entries and the rest.
LEMMA FullIsNat ==
  ASSUME NEW n \in Nat \ {0}
  PROVE  Full(n) \in Nat /\ PrdSectors * Full(n) < n /\ n <= PrdSectors * (Full(n) + 1)
BY DEF Full, PrdSectors

\* The table runCommand fills in describes n sectors, each of them once.
LEMMA PrdtWhole ==
  ASSUME NEW n \in Nat \ {0}, prdt = Prdt(n)
  PROVE  /\ \A i \in DOMAIN prdt : prdt[i].sectors \in 1 .. PrdSectors
         /\ UNION {Described(i) : i \in DOMAIN prdt} = 0 .. n - 1
         /\ \A i, j \in DOMAIN prdt : i # j => Described(i) \cap Described(j) = {}
         /\ n <= PrdSectors * TableEntries => DOMAIN prdt \subseteq 1 .. TableEntries
<1> DEFINE f == Full(n)
<1>1. f \in Nat /\ 16 * f < n /\ n <= 16 * (f + 1)
  BY FullIsNat DEF PrdSectors
<1>2. DOMAIN prdt = 1 .. f + 1
  BY DEF Prdt
<1>3. \A i \in 1 .. f + 1 :
        prdt[i].dba = 16 * (i - 1) /\ prdt[i].sectors = IF i <= f THEN 16 ELSE n - 16 * f
  BY DEF Prdt, PrdSectors
<1> HIDE DEF f
<1>4. ASSUME NEW i \in DOMAIN prdt PROVE prdt[i].sectors \in 1 .. PrdSectors
  <2>1. CASE i <= f
    BY <1>2, <1>3, <1>4, <2>1 DEF PrdSectors
  <2>2. CASE ~(i <= f)
    <3>1. n - 16 * f \in 1 .. 16
      BY <1>1
    <3> QED BY <1>2, <1>3, <1>4, <2>2, <3>1 DEF PrdSectors
  <2> QED BY <2>1, <2>2
<1>5. ASSUME NEW i \in DOMAIN prdt, NEW s \in Described(i)
      PROVE  s \in 0 .. n - 1 /\ 16 * (i - 1) <= s /\ s < 16 * i
  <2>1. i \in 1 .. f + 1
    BY <1>2, <1>5
  <2>2. s \in prdt[i].dba .. prdt[i].dba + prdt[i].sectors - 1
    BY <1>5 DEF Described
  <2>3. CASE i <= f
    BY <1>1, <1>3, <2>1, <2>2, <2>3
  <2>4. CASE ~(i <= f)
    <3>1. i = f + 1
      BY <1>1, <2>1, <2>4
    <3> QED BY <1>1, <1>3, <2>1, <2>2, <3>1
  <2> QED BY <2>3, <2>4
<1>6. ASSUME NEW s \in 0 .. n - 1 PROVE \E i \in DOMAIN prdt : s \in Described(i)
  <2> DEFINE i == s \div 16 + 1
  <2>1. i \in 1 .. f + 1 /\ 16 * (i - 1) <= s /\ s < 16 * i
    BY <1>1, <1>6
  <2> HIDE DEF i
  <2>2. s <= prdt[i].dba + prdt[i].sectors - 1
    <3>1. CASE i <= f
      BY <1>1, <1>3, <1>6, <2>1, <3>1
    <3>2. CASE ~(i <= f)
      <4>1. i = f + 1
        BY <1>1, <2>1, <3>2
      <4> QED BY <1>1, <1>3, <1>6, <2>1, <4>1
    <3> QED BY <3>1, <3>2
  <2>3. prdt[i].dba <= s /\ prdt[i].dba \in Int /\ prdt[i].sectors \in Int
    BY <1>1, <1>3, <2>1
  <2>4. s \in Described(i)
    BY <1>6, <2>2, <2>3 DEF Described
  <2> QED BY <1>2, <2>1, <2>4
<1>7. UNION {Described(i) : i \in DOMAIN prdt} = 0 .. n - 1
  BY <1>5, <1>6, Zenon
<1>8. ASSUME NEW i \in DOMAIN prdt, NEW j \in DOMAIN prdt, i # j
      PROVE  Described(i) \cap Described(j) = {}
  <2> SUFFICES ASSUME NEW s \in Described(i), s \in Described(j) PROVE FALSE
    OBVIOUS
  <2>1. 16 * (i - 1) <= s /\ s < 16 * i /\ 16 * (j - 1) <= s /\ s < 16 * j /\ s \in Int
    BY <1>5, <1>8
  <2>2. i \in Int /\ j \in Int
    BY <1>1, <1>2, <1>8
  <2> QED BY <1>8, <2>1, <2>2
<1>9. n <= PrdSectors * TableEntries => DOMAIN prdt \subseteq 1 .. TableEntries
  BY <1>1, <1>2 DEF PrdSectors, TableEntries
<1> QED BY <1>4, <1>7, <1>8, <1>9

\* For every count whose PRDT entries 16 bits can number: a command is issued with a
\* table that describes the caller's buffer sector by sector, each of them once, and in
\* a slot that is free (ahci.c:174).
THEOREM WholeBuffer == Spec => []IssuesWhole
<1>1. Init => FilledIn
  BY DEF Init, FilledIn
<1>2. FilledIn => IssuesWhole
  BY PrdtWhole DEF FilledIn, IssuesWhole
<1> QED BY <1>1, <1>2, FilledNext, PortTypes, PTL DEF Spec
==============================================================================
