--------------------------------- MODULE Ahci --------------------------------
(***************************************************************************)
(* One AHCI port: the driver of kernel/devices/ahci.c (runCommand, called  *)
(* by ahci_read and ahci_write; portRebase) and the host bus adapter with  *)
(* its drive, which run concurrently and share the port's registers.       *)
(***************************************************************************)
EXTENDS Integers, FiniteSetsExt

CONSTANTS
  CmdSlots,   \* command slots of the port (32)
  SpinLimit,  \* polls before a busy port is called hung (1000000)
  Counts,     \* the sector counts callers ask for
  MaxCalls,   \* bound on the calls of runCommand
  MaxErrors   \* bound on the commands the drive fails

\* The number of PRDT entries has 16 bits.
ASSUME AhciAssumption ==
  /\ CmdSlots \in Nat \ {0}
  /\ SpinLimit \in Nat \ {0}
  /\ Counts \subseteq Nat \ {0} /\ \A n \in Counts : (n - 1) \div 16 < 65535
  /\ MaxCalls \in Nat /\ MaxErrors \in Nat

VARIABLES
  \* the port's registers
  ci,       \* command issue: the slots whose bit is 1
  tfes,     \* the task file error bit of is
  busy,     \* BSY or DRQ of tfd
  st, cr,   \* the start and command-list-running bits of cmd
  \* the adapter
  halted,   \* an error stopped command processing until st is cleared
  active,   \* the slot being processed, NoSlot if none
  errors,   \* commands failed so far
  failedCall, \* the call whose command failed last (history)
  moved,    \* sectors the last command moved
  \* the driver
  pc, count, slot, spin, prdt, fisCount, result,
  calls     \* calls so far

registers == <<ci, tfes, busy, st, cr>>
adapter == <<halted, active, errors, failedCall, moved>>
locals == <<count, slot, prdt, fisCount>>
vars == <<registers, adapter, locals, pc, spin, result, calls>>

Slots == 0 .. CmdSlots - 1
NoSlot == -1
PcValues == {"idle", "busyWait", "issue", "completion", "again", "stop", "start"}
Results == {"none", "ok", "hung", "error", "noSlot"}

\* Sectors a PRDT entry can describe, and entries a command table has room for.
PrdSectors == 16
TableEntries == 8

Init ==
  /\ ci = {} /\ tfes = FALSE /\ busy \in BOOLEAN /\ st = TRUE /\ cr = TRUE
  /\ halted = FALSE /\ active = NoSlot /\ errors = 0 /\ failedCall = 0 /\ moved = 0
  /\ pc = "idle" /\ count = 0 /\ slot = NoSlot /\ spin = 0
  /\ prdt = << >> /\ fisCount = 0 /\ result = "none" /\ calls = 0

------------------------------------------------------------------------------
\* The driver.

\* The first slot that is free.  SACT is 0: native command queueing is not used.
findCMDSlot == IF ci = Slots THEN NoSlot ELSE Min(Slots \ ci)

\* Variant with a bug: the last entry is also counted when it is full.
FullAndLast(n) == n \div PrdSectors

\* PRDT entries of 16 sectors and one of the rest: (count - 1) / 16 + 1 of them.
Full(n) == (n - 1) \div PrdSectors

\* Addresses count from the caller's buffer on, in sectors.
Prdt(n) == [i \in 1 .. Full(n) + 1 |->
              [dba |-> PrdSectors * (i - 1),
               sectors |-> IF i <= Full(n) THEN PrdSectors ELSE n - PrdSectors * Full(n)]]

\* What count is when it is written to the command FIS: the loop that fills the
\* PRDT has taken the full entries off it.
FisCount(n) == n - PrdSectors * Full(n)

\* Variant with a bug: the error of an earlier command is not cleared.
runCommandStaleStatus(n) ==
  /\ pc = "idle"
  /\ calls < MaxCalls
  /\ calls' = calls + 1
  /\ spin' = 0
  /\ count' = n
  /\ slot' = findCMDSlot
  /\ result' = "none"
  /\ prdt' = Prdt(n)
  /\ fisCount' = FisCount(n)
  /\ pc' = "busyWait"
  /\ UNCHANGED <<registers, adapter>>

\* runCommand to its busy loop: the interrupt bits are cleared, a slot found, the
\* command table filled in.
runCommand(n) ==
  /\ pc = "idle"
  /\ calls < MaxCalls
  /\ calls' = calls + 1
  /\ tfes' = FALSE
  /\ spin' = 0
  /\ count' = n
  /\ slot' = findCMDSlot
  /\ IF findCMDSlot = NoSlot
     THEN /\ result' = "noSlot"
          /\ UNCHANGED <<pc, prdt, fisCount>>
     ELSE /\ result' = "none"
          /\ prdt' = Prdt(n)
          /\ fisCount' = FisCount(n)
          /\ pc' = "busyWait"
  /\ UNCHANGED <<ci, busy, st, cr, adapter>>

\* Variant with a bug: the loop runs once more than the limit.
spinOnBusyOnceMore ==
  /\ pc = "busyWait"
  /\ IF busy /\ spin <= SpinLimit
     THEN spin' = spin + 1 /\ UNCHANGED <<pc, result>>
     ELSE /\ IF spin = SpinLimit
             THEN pc' = "idle" /\ result' = "hung"
             ELSE pc' = "issue" /\ UNCHANGED result
          /\ UNCHANGED spin
  /\ UNCHANGED <<registers, adapter, locals, calls>>

\* One test of the busy loop, or its end.
spinOnBusy ==
  /\ pc = "busyWait"
  /\ IF busy /\ spin < SpinLimit
     THEN spin' = spin + 1 /\ UNCHANGED <<pc, result>>
     ELSE /\ IF spin = SpinLimit
             THEN pc' = "idle" /\ result' = "hung"
             ELSE pc' = "issue" /\ UNCHANGED result
          /\ UNCHANGED spin
  /\ UNCHANGED <<registers, adapter, locals, calls>>

\* Writing 1 to a bit of ci sets it; the bits written 0 keep their value.
issue ==
  /\ pc = "issue"
  /\ ci' = ci \cup {slot}
  /\ pc' = "completion"
  /\ UNCHANGED <<tfes, busy, st, cr, adapter, locals, spin, result, calls>>

\* One round of the completion loop; "again" is the test of is in it, which is
\* also made, last, when ci was seen clear.
waitCompletion ==
  /\ pc = "completion"
  /\ IF slot \notin ci
     THEN pc' = "idle" /\ result' = IF tfes THEN "error" ELSE "ok"
     ELSE pc' = "again" /\ UNCHANGED result
  /\ UNCHANGED <<registers, adapter, locals, spin, calls>>

checkError ==
  /\ pc = "again"
  /\ IF tfes THEN pc' = "idle" /\ result' = "error"
             ELSE pc' = "completion" /\ UNCHANGED result
  /\ UNCHANGED <<registers, adapter, locals, spin, calls>>

\* portRebase, which a caller may use after a failure (kernel.c never does):
\* stopCMD clears ST and waits for CR; startCMD waits for CR to be clear and sets
\* ST.  The tables are set up anew in between.  FRE and FR, which go with ST and CR
\* (ahci.c:75, 86 and 91), are left out: nothing the driver reads depends on the receiver
\* of FISes that they start and stop, and FR can only lengthen the wait.
portRebase ==
  /\ pc = "idle"
  /\ result \in {"error", "hung"}
  /\ st' = FALSE
  /\ pc' = "stop"
  /\ UNCHANGED <<ci, tfes, busy, cr, adapter, locals, spin, result, calls>>

stopCMD ==
  /\ pc = "stop"
  /\ ~cr
  /\ pc' = "start"
  /\ UNCHANGED <<registers, adapter, locals, spin, result, calls>>

\* Variant with a bug: ST is not set again.
startCMDWithoutST ==
  /\ pc = "start"
  /\ ~cr
  /\ pc' = "idle"
  /\ result' = "none"
  /\ UNCHANGED <<registers, adapter, locals, spin, calls>>

startCMD ==
  /\ pc = "start"
  /\ ~cr
  /\ st' = TRUE
  /\ pc' = "idle"
  /\ result' = "none"
  /\ UNCHANGED <<ci, tfes, busy, cr, adapter, locals, spin, calls>>

Driver ==
  \/ spinOnBusy \/ issue \/ waitCompletion \/ checkError \/ stopCMD \/ startCMD

------------------------------------------------------------------------------
\* The adapter and the drive.

\* The drive finishes what made it busy when no command is being processed.
Ready ==
  /\ busy /\ active = NoSlot
  /\ busy' = FALSE
  /\ UNCHANGED <<ci, tfes, st, cr, adapter, locals, pc, spin, result, calls>>

Start ==
  /\ cr /\ ~halted /\ active = NoSlot /\ ~busy
  /\ \E s \in ci : active' = s
  /\ busy' = TRUE
  /\ UNCHANGED <<ci, tfes, st, cr, halted, errors, failedCall, moved, locals, pc, spin, result, calls>>

\* The sectors the FIS names are moved, as far as the PRDT describes memory.
Complete ==
  /\ active # NoSlot
  /\ moved' = fisCount
  /\ ci' = ci \ {active}
  /\ active' = NoSlot
  /\ busy' = FALSE
  /\ UNCHANGED <<tfes, st, cr, halted, errors, failedCall, locals, pc, spin, result, calls>>

\* A command that fails leaves its bit in ci.
FailCommand ==
  /\ active # NoSlot
  /\ errors < MaxErrors
  /\ errors' = errors + 1
  /\ failedCall' = calls
  /\ tfes' = TRUE
  /\ halted' = TRUE
  /\ moved' = 0
  /\ active' = NoSlot
  /\ busy' = FALSE
  /\ UNCHANGED <<ci, st, cr, locals, pc, spin, result, calls>>

\* Clearing ST stops the engine and clears ci and the error; setting it starts
\* the engine.
FollowST ==
  /\ cr # st
  /\ active = NoSlot
  /\ cr' = st
  /\ IF st THEN UNCHANGED <<ci, halted>> ELSE ci' = {} /\ halted' = FALSE
  /\ UNCHANGED <<tfes, busy, st, active, errors, failedCall, moved, locals, pc, spin, result, calls>>

Adapter == Ready \/ Start \/ Complete \/ FailCommand \/ FollowST

Next == Driver \/ Adapter \/ portRebase \/ \E n \in Counts : runCommand(n)

\* The driver executes, and so does the adapter: a drive that is busy with
\* something gets ready, and a command is completed or failed.
Spec == Init /\ [][Next]_vars /\ WF_vars(Driver) /\ WF_vars(Adapter)

------------------------------------------------------------------------------
TypeOK ==
  /\ ci \subseteq Slots
  /\ tfes \in BOOLEAN /\ busy \in BOOLEAN /\ st \in BOOLEAN /\ cr \in BOOLEAN
  /\ halted \in BOOLEAN /\ active \in Slots \cup {NoSlot}
  /\ errors \in 0 .. MaxErrors /\ calls \in 0 .. MaxCalls
  /\ pc \in PcValues /\ result \in Results
  /\ slot \in Slots \cup {NoSlot} /\ spin \in 0 .. SpinLimit

\* A call that succeeds moved all the sectors it was asked for (ahci.c:253).
SuccessMovedAll == pc = "idle" /\ result = "ok" => moved = count

\* A call reports what became of its own command, whatever failed before and however
\* the polls of ci and is fall between the adapter's steps (ahci.c:235): success only
\* if all its sectors were moved, as long as one PRDT entry describes them; an error
\* only if it failed itself (ahci.c:153, "Clear pending interrupt bits").
ReportsItsOwn ==
  /\ count <= PrdSectors => SuccessMovedAll
  /\ pc = "idle" /\ result = "error" => failedCall = calls

\* A command that is issued describes every sector of the caller's buffer once and
\* nothing else, in entries of 1 to 16 sectors, no more of them than the command table
\* has for up to 128 sectors (ahci.c:122, "8 prdt entries per command table"), and in a
\* slot whose last command is not there any more, failed or not (ahci.c:136).
Described(i) == prdt[i].dba .. prdt[i].dba + prdt[i].sectors - 1
IssuesWhole ==
  pc = "issue" =>
    /\ \A i \in DOMAIN prdt : prdt[i].sectors \in 1 .. PrdSectors
    /\ UNION {Described(i) : i \in DOMAIN prdt} = 0 .. count - 1
    /\ \A i, j \in DOMAIN prdt : i # j => Described(i) \cap Described(j) = {}
    /\ count <= PrdSectors * TableEntries => DOMAIN prdt \subseteq 1 .. TableEntries
    /\ slot \notin ci

\* Every call returns (ahci.c:230, "Wait for completion").
CallsReturn == pc # "idle" ~> pc = "idle"

\* A failure that no portRebase followed: the adapter stands still.
Stuck == halted /\ failedCall # calls /\ pc = "completion"

\* Every call, and every portRebase, returns unless an earlier call failed and
\* the port was not rebased since (ahci.c:231).
RecoveredCallsReturn == pc # "idle" ~> pc = "idle" \/ Stuck
==============================================================================
