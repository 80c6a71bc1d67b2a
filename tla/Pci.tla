---------------------------------- MODULE Pci --------------------------------
(***************************************************************************)
(* kernel/devices/pci.c: the scan of the buses, and the routing of a       *)
(* function's interrupt through the I/O APIC.                              *)
(*                                                                         *)
(* Of the configuration space of a function, the words the kernel reads    *)
(* are kept, by their offset.                                              *)
(***************************************************************************)
EXTENDS Integers

CONSTANTS
  Buses, DevicesPerBus, Functions,  \* how many there are (256, 32, 8)
  MinGrants                         \* what the low byte at 0x3E can be

ASSUME PciAssumption ==
  /\ {Buses, DevicesPerBus, Functions} \subseteq Nat \ {0}
  /\ MinGrants \subseteq 0 .. 255

VARIABLES
  config,        \* config[f]: header type and minimum grant of the functions that exist
  bus, device,   \* where the scan is
  probed,        \* the functions whose vendor or header was read
  ioapic,        \* the registers of the I/O APIC that were written, with the value
  handlers,      \* the vectors that have pciInterruptHandler
  interrupt_line, \* of the last call of enablePCIInterrupts
  pciStage

pciVars == <<config, bus, device, probed, ioapic, handlers, interrupt_line, pciStage>>

DeviceNumbers == (0 .. Buses - 1) \X (0 .. DevicesPerBus - 1)
Function(d, n) == <<d[1], d[2], n>>

\* What a device can be made of: function 0, and with the multi-function bit others.
FunctionSets ==
  {[type |-> 0, numbers |-> {}], [type |-> 0, numbers |-> {0}]}
    \cup [type : {128}, numbers : {{0} \cup more : more \in SUBSET (1 .. Functions - 1)}]

PciInit ==
  /\ config = << >>
  /\ bus = 0 /\ device = 0
  /\ probed = {} /\ ioapic = {} /\ handlers = {} /\ interrupt_line = 0
  /\ pciStage = "power on"

\* The machine.
PowerOn ==
  /\ pciStage = "power on"
  /\ \E made \in [DeviceNumbers -> FunctionSets], grant \in MinGrants :
       config' = [f \in UNION {{Function(d, n) : n \in made[d].numbers} : d \in DeviceNumbers} |->
                    [header_type |-> made[<<f[1], f[2]>>].type, min_grant |-> grant]]
  /\ pciStage' = "scan"
  /\ UNCHANGED <<bus, device, probed, ioapic, handlers, interrupt_line>>

------------------------------------------------------------------------------
\* Nobody answers for a function that does not exist.
pciConfigReadWord(f, offset) ==
  IF f \notin DOMAIN config THEN 65535
  ELSE CASE offset = 0 -> 32902
         [] offset = 14 -> config[f].header_type
         [] offset = 62 -> config[f].min_grant

getHeaderType(f) == pciConfigReadWord(f, 14)
checkFunction(f) == getHeaderType(f) # 65535

\* Variant with a bug: the bit for many functions is not looked at.
ReadsSingle(d) == {Function(d, 0)}

\* The functions checkDevice reads something of.
Reads(d) ==
  {Function(d, 0)} \cup
    IF checkFunction(Function(d, 0)) /\ (getHeaderType(Function(d, 0)) \div 128) % 2 = 1
    THEN {Function(d, n) : n \in 1 .. Functions - 1} ELSE {}

\* checkAllBuses, one device per step.
checkDevice ==
  /\ pciStage = "scan"
  /\ probed' = probed \cup Reads(<<bus, device>>)
  /\ IF device < DevicesPerBus - 1 THEN device' = device + 1 /\ UNCHANGED <<bus, pciStage>>
     ELSE /\ device' = 0 /\ bus' = bus + 1
          /\ pciStage' = IF bus' = Buses THEN "scanned" ELSE "scan"
  /\ UNCHANGED <<config, ioapic, handlers, interrupt_line>>

\* enablePCIInterrupts routes the interrupt, and then registers the handler: until
\* then an interrupt of the pin finds none.  The word at 0x3E is read, whose low byte is
\* the minimum grant; the interrupt line is at 0x3C.  The number of a register of the
\* I/O APIC, and a vector, are bytes, so a line of 248 is written to register 0.
writeIOAPIC(register, value) ==
  ioapic' = {write \in ioapic : write[1] # register} \cup {<<register, value>>}

enablePCIInterrupts(f) ==
  /\ pciStage = "scanned" /\ f \in DOMAIN config
  /\ interrupt_line' = pciConfigReadWord(f, 62) % 256
  /\ writeIOAPIC((interrupt_line' * 2 + 16) % 256, 32 + interrupt_line')
  /\ pciStage' = "routed"
  /\ UNCHANGED <<config, bus, device, probed, handlers>>

registerInterruptHandler ==
  /\ pciStage = "routed"
  /\ handlers' = handlers \cup {(32 + interrupt_line) % 256}
  /\ pciStage' = "scanned"
  /\ UNCHANGED <<config, bus, device, probed, ioapic, interrupt_line>>

PciNext ==
  \/ PowerOn \/ checkDevice
  \/ \E f \in DOMAIN config : enablePCIInterrupts(f)
  \/ registerInterruptHandler

PciSpec == PciInit /\ [][PciNext]_pciVars

------------------------------------------------------------------------------
PciTypeOK ==
  /\ interrupt_line \in 0 .. 255 /\ handlers \subseteq 0 .. 255
  /\ \A write \in ioapic : write[1] \in 0 .. 255 /\ write[2] \in 32 .. 287

\* The scan reads every function that exists on every bus (pci.c:66), and nothing
\* outside the buses' address space: a function number of 8 would be function 0 of
\* the next device (pci.c:56).
ScanReadsAll ==
  /\ probed \subseteq (0 .. Buses - 1) \X (0 .. DevicesPerBus - 1) \X (0 .. Functions - 1)
  /\ pciStage \notin {"power on", "scan"} => DOMAIN config \subseteq probed

==============================================================================
