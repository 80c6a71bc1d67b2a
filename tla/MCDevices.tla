------------------------------ MODULE MCDevices ------------------------------
(***************************************************************************)
(* Model-checking instance of the device drivers: the 8259s, the 8042 and  *)
(* its keyboard, the first serial port and the PCI bus.  They share no     *)
(* variable, and each property is about one of them, so a behaviour of     *)
(* this specification takes the steps of one only.                         *)
(***************************************************************************)
EXTENDS PicDriver, Ps2, Keyboard, Serial, Pci

VARIABLE part  \* the device that runs

Parts == {"pic", "ps2", "keyboard", "serial", "pci"}

Init ==
  /\ part \in Parts
  /\ DriverInit /\ Ps2Init /\ KeyboardInit /\ SerialInit /\ PciInit

PicStep ==
  /\ part = "pic" /\ DriverNext
  /\ UNCHANGED <<part, ps2Vars, keyboardVars, serialVars, pciVars>>
Ps2Step ==
  /\ part = "ps2" /\ Ps2Next
  /\ UNCHANGED <<part, driverVars, keyboardVars, serialVars, pciVars>>
KeyboardStep ==
  /\ part = "keyboard" /\ KeyboardNext
  /\ UNCHANGED <<part, driverVars, ps2Vars, serialVars, pciVars>>
SerialStep ==
  /\ part = "serial" /\ SerialNext
  /\ UNCHANGED <<part, driverVars, ps2Vars, keyboardVars, pciVars>>
PciStep ==
  /\ part = "pci" /\ PciNext
  /\ UNCHANGED <<part, driverVars, ps2Vars, keyboardVars, serialVars>>

Next == PicStep \/ Ps2Step \/ KeyboardStep \/ SerialStep \/ PciStep

MCvars == <<part, driverVars, ps2Vars, keyboardVars, serialVars, pciVars>>

\* The kernel's code runs on, and the port sends what it was given: the fairness of
\* SerialSpec.
SerialFairness ==
  /\ WF_MCvars(SerialStep /\ SerialDriver)
  /\ WF_MCvars(SerialStep /\ Transmit)

Spec == Init /\ [][Next]_MCvars /\ SerialFairness

\* Every device keeps the types of its variables.
DevicesTypeOK == DriverTypeOK /\ Ps2TypeOK /\ SerialTypeOK /\ PciTypeOK

\* What a firmware may leave: interrupts on or off, translation, ports disabled.
MCConfigurations == {{}, {0, 2, 6}, {0, 1, 2, 6}, {2, 4, 5}}
MCTestResults == {{}, {0}}
MCKeyCode == {1, 2, 3, 4}

MCMessages == {<<1, 2, 3>>, <<4>>}
==============================================================================
