------------------------------ MODULE PicDriver ------------------------------
(***************************************************************************)
(* The 8259s of Pic with a kernel that masks and unmasks lines, and serves *)
(* each interrupt with interrupts disabled and one sendEOIPIC at its end,  *)
(* as PIT_callback (kernel/devices/pit.c) does for its line, 0.  The       *)
(* handlers of other lines are taken to do the same for theirs: the line   *)
(* is the parameter of sendEOIPIC.                                         *)
(***************************************************************************)
EXTENDS Pic

CONSTANT Devices  \* the lines with a device, which the kernel uses

ASSUME DevicesAssumption == Devices \subseteq Lines \ {Cascade}

VARIABLES
  serving,  \* the line whose handler runs, NoLine if none does
  enabled   \* the lines the kernel unmasked since it last masked them

driverVars == <<imr, irr, isr, serving, enabled>>

\* The boot loader hands over with every line but the cascade masked.
DriverInit ==
  /\ imr = [c \in Chips |-> Bits \ (IF c = 1 THEN {Cascade} ELSE {})]
  /\ irr = [c \in Chips |-> {}]
  /\ isr = [c \in Chips |-> {}]
  /\ serving = NoLine
  /\ enabled = {}

Device(line) == Raise(line) /\ UNCHANGED <<serving, enabled>>

Mask(line) ==
  /\ setMaskIRQ(line)
  /\ enabled' = enabled \ {line}
  /\ UNCHANGED serving

Unmask(line) ==
  /\ clearMaskIRQ(line)
  /\ enabled' = enabled \cup {line}
  /\ UNCHANGED serving

\* enableAllIRQs also unmasks the lines no device uses; it and disableAllIRQs
\* are used while no handler runs.
UnmaskAll ==
  /\ serving = NoLine
  /\ enableAllIRQs
  /\ enabled' = Devices
  /\ UNCHANGED serving

MaskAll ==
  /\ serving = NoLine
  /\ disableAllIRQs
  /\ enabled' = {}
  /\ UNCHANGED serving

Remap ==
  /\ serving = NoLine
  /\ remapPIC
  /\ UNCHANGED <<serving, enabled>>

Serve(line) ==
  /\ serving = NoLine
  /\ Acknowledge(line)
  /\ serving' = line
  /\ UNCHANGED enabled

\* The end of the handler: the line it serves is ended.
Finish ==
  /\ serving # NoLine
  /\ sendEOIPIC(serving)
  /\ serving' = NoLine
  /\ UNCHANGED enabled

DriverNext ==
  \/ \E line \in Devices : Device(line) \/ Mask(line) \/ Unmask(line) \/ Serve(line)
  \/ UnmaskAll
  \/ MaskAll
  \/ Remap
  \/ Finish

DriverSpec == DriverInit /\ [][DriverNext]_driverVars

------------------------------------------------------------------------------
DriverTypeOK == TypeOK /\ serving \in Lines \cup {NoLine} /\ enabled \subseteq Devices

\* What sendEOIPIC ends is what the handler served: between handlers nothing is
\* in service in either chip, so no line is blocked (pic.c:28).
NothingLeftInService == serving = NoLine => \A c \in Chips : isr[c] = {}

\* A line the kernel has masked is never served, on either chip (pic.c:36).
OnlyEnabledServed == [][serving' # serving => serving' \in enabled \cup {NoLine}]_driverVars
==============================================================================
