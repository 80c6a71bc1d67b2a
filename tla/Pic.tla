--------------------------------- MODULE Pic ---------------------------------
(***************************************************************************)
(* The two cascaded 8259 interrupt controllers and the code that programs  *)
(* them (kernel/devices/pic.c).                                            *)
(*                                                                         *)
(* A line is a number in 0 .. 15.  Chip 1 has lines 0 .. 7, chip 2 has     *)
(* lines 8 .. 15 as its bits 0 .. 7 and raises line 2 of chip 1.  Each     *)
(* register of the chips is the set of its bits that are 1.                *)
(***************************************************************************)
EXTENDS Integers, FiniteSetsExt

VARIABLES
  imr,  \* imr[c]: the interrupt mask register of chip c
  irr,  \* irr[c]: the edges chip c has latched
  isr   \* isr[c]: the interrupts of chip c the CPU is serving

vars == <<imr, irr, isr>>

Chips == {1, 2}
Bits == 0 .. 7
Lines == 0 .. 15
NoLine == -1

ChipOf(line) == IF line < 8 THEN 1 ELSE 2

BitOf(line) == line % 8
Cascade == 2

TypeOK ==
  /\ imr \in [Chips -> SUBSET Bits]
  /\ irr \in [Chips -> SUBSET Bits]
  /\ isr \in [Chips -> SUBSET Bits]

------------------------------------------------------------------------------
\* The hardware.

\* A bit asks for service when it is unmasked and nothing of its priority or a
\* higher one (a lower number) is being served.
Asking(c, requests) == {b \in requests \ imr[c] : \A s \in isr[c] : b < s}
Requests2 == Asking(2, irr[2])
Requests1 == Asking(1, irr[1] \cup IF Requests2 # {} THEN {Cascade} ELSE {})

\* The line the CPU is given when it takes an interrupt.
Next8259 ==
  IF Requests1 = {} THEN NoLine
  ELSE IF Min(Requests1) = Cascade /\ Requests2 # {} THEN 8 + Min(Requests2)
  ELSE Min(Requests1)

Raise(line) ==
  /\ irr' = [irr EXCEPT ![ChipOf(line)] = @ \cup {BitOf(line)}]
  /\ UNCHANGED <<imr, isr>>

\* The CPU takes the interrupt: the edge is consumed, the bit in service.  An
\* interrupt of chip 2 is in service in both chips.
Acknowledge(line) ==
  /\ line # NoLine
  /\ line = Next8259
  /\ irr' = [irr EXCEPT ![ChipOf(line)] = @ \ {BitOf(line)}]
  /\ isr' = [c \in Chips |->
               isr[c] \cup (IF c = ChipOf(line) THEN {BitOf(line)}
                            ELSE IF c = 1 THEN {Cascade} ELSE {})]
  /\ UNCHANGED imr

\* An end of interrupt ends the one of highest priority in service.
Ended(served) == IF served = {} THEN {} ELSE served \ {Min(served)}

------------------------------------------------------------------------------
\* The driver.

\* Variant with a bug: line 8 is taken for one of chip 1.
sendEOIPICPast8(line) ==
  /\ isr' = [c \in Chips |-> IF c = 1 \/ line > 8 THEN Ended(isr[c]) ELSE isr[c]]
  /\ UNCHANGED <<imr, irr>>

\* Both chips are told when the line is on chip 2 (pic.c:28).
sendEOIPIC(line) ==
  /\ isr' = [c \in Chips |-> IF c = 1 \/ line >= 8 THEN Ended(isr[c]) ELSE isr[c]]
  /\ UNCHANGED <<imr, irr>>

\* Variant with a bug: every line is masked in chip 1.
setMaskIRQChip1(line) ==
  /\ imr' = [imr EXCEPT ![1] = @ \cup {BitOf(line)}]
  /\ UNCHANGED <<irr, isr>>

setMaskIRQ(line) ==
  /\ imr' = [imr EXCEPT ![ChipOf(line)] = @ \cup {BitOf(line)}]
  /\ UNCHANGED <<irr, isr>>

clearMaskIRQ(line) ==
  /\ imr' = [imr EXCEPT ![ChipOf(line)] = @ \ {BitOf(line)}]
  /\ UNCHANGED <<irr, isr>>

disableAllIRQs ==
  /\ imr' = [c \in Chips |-> Bits]
  /\ UNCHANGED <<irr, isr>>

enableAllIRQs ==
  /\ imr' = [c \in Chips |-> {}]
  /\ UNCHANGED <<irr, isr>>

\* Initialization forgets the edges and what is in service; the masks it clears
\* are restored from a1 and a2.  It runs with interrupts disabled.
remapPIC ==
  /\ irr' = [c \in Chips |-> {}]
  /\ isr' = [c \in Chips |-> {}]
  /\ UNCHANGED imr
==============================================================================
