--------------------------------- MODULE Apic --------------------------------
(***************************************************************************)
(* The local APIC with its timer and the I/O APIC, and the register writes *)
(* of kernel/devices/apic.c and kernel/devices/ioapic.c.                   *)
(***************************************************************************)
EXTENDS Integers, FiniteSetsExt

CONSTANT Pins  \* the input pins of the I/O APIC that are modelled

VARIABLES
  enabled,    \* bit 8 of the spurious interrupt vector register
  lvtTimer,   \* the vector in the timer's LVT entry, Masked if bit 16 is set
  counting,   \* the timer's initial count is not 0
  requested,  \* the interrupt request register: a set of vectors
  inService,  \* the in-service register: a set of vectors
  redirection \* redirection[p]: the vector of pin p, or Masked

vars == <<enabled, lvtTimer, counting, requested, inService, redirection>>

Vectors == 0 .. 255
Masked == -1
NoVector == -1

TypeOK ==
  /\ enabled \in BOOLEAN
  /\ lvtTimer \in Vectors \cup {Masked}
  /\ counting \in BOOLEAN
  /\ requested \subseteq Vectors
  /\ inService \subseteq Vectors
  /\ redirection \in [Pins -> Vectors \cup {Masked}]

\* The boot loader leaves the pins and the timer masked.  Whether firmware left
\* the local APIC enabled is not known.
Init ==
  /\ enabled \in BOOLEAN
  /\ lvtTimer = Masked
  /\ counting = FALSE
  /\ requested = {}
  /\ inService = {}
  /\ redirection = [p \in Pins |-> Masked]

------------------------------------------------------------------------------
\* The hardware.

\* A vector is delivered when its class is above that of everything in service.
Class(vector) == vector \div 16
NextVector ==
  LET ready == {v \in requested : \A s \in inService : Class(s) < Class(v)}
  IN IF ready = {} THEN NoVector ELSE Max(ready)

Request(vector) ==
  requested' = IF enabled /\ vector # Masked THEN requested \cup {vector} ELSE requested

TimerExpires ==
  /\ counting
  /\ Request(lvtTimer)
  /\ UNCHANGED <<enabled, lvtTimer, counting, inService, redirection>>

\* An edge on a pin.  The pins are edge-triggered, so an edge on a masked pin is
\* not remembered.
Edge(pin) ==
  /\ Request(redirection[pin])
  /\ UNCHANGED <<enabled, lvtTimer, counting, inService, redirection>>

Acknowledge(vector) ==
  /\ vector # NoVector
  /\ vector = NextVector
  /\ requested' = requested \ {vector}
  /\ inService' = inService \cup {vector}
  /\ UNCHANGED <<enabled, lvtTimer, counting, redirection>>

------------------------------------------------------------------------------
\* The register writes.

\* writeAPICRegister(0xF0, readAPICRegister(0xF0) | 0x1FF)
SetSpuriousVector ==
  /\ enabled' = TRUE
  /\ UNCHANGED <<lvtTimer, counting, requested, inService, redirection>>

\* writeAPICRegister(0xB0, 0)
EndOfInterrupt ==
  /\ inService' = IF inService = {} THEN {} ELSE inService \ {Max(inService)}
  /\ UNCHANGED <<enabled, lvtTimer, counting, requested, redirection>>

\* writeAPICRegister(0x320, ...)
SetTimerEntry(entry) ==
  /\ lvtTimer' = entry
  /\ UNCHANGED <<enabled, counting, requested, inService, redirection>>

\* writeAPICRegister(0x380, count), the count not 0
SetInitialCount ==
  /\ counting' = TRUE
  /\ UNCHANGED <<enabled, lvtTimer, requested, inService, redirection>>

\* writeIOAPIC(address, 0x10 + 2 * pin, vector)
SetRedirection(pin, vector) ==
  /\ redirection' = [redirection EXCEPT ![pin] = vector]
  /\ UNCHANGED <<enabled, lvtTimer, counting, requested, inService>>
==============================================================================
