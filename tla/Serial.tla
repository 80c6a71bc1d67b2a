-------------------------------- MODULE Serial -------------------------------
(***************************************************************************)
(* The driver of the first serial port (kernel/devices/serial.c) and the   *)
(* 16550 it drives, which moves bytes on its own.  initSerial is one step  *)
(* per write to a register; the loops that wait for a bit of the line      *)
(* status register are guards.                                             *)
(***************************************************************************)
EXTENDS Integers, Sequences

CONSTANTS
  FifoSize,     \* bytes each FIFO holds (16)
  LineBytes,    \* what the other end of the line sends
  MaxLine,      \* bound on the bytes it sends
  Messages,     \* the strings the kernel writes, without the NUL
  Lengths,      \* the lengths it reads
  Room,         \* how much of the memory from the reader's buffer on is modelled
  MaxCalls      \* bound on the calls after initSerial

ASSUME SerialAssumption ==
  /\ FifoSize \in Nat \ {0} /\ {MaxLine, MaxCalls} \subseteq Nat
  /\ LineBytes \subseteq 0 .. 255
  /\ Messages \subseteq Seq(0 .. 255)
  /\ Room \in Nat \ {0} /\ Lengths \subseteq 0 .. Room - 1

VARIABLES
  ier, lcr, mcr, divisor,  \* registers of the 16550
  rx, thr,                 \* its FIFOs
  wire,                    \* what it has sent on the line
  lineSent,                \* bytes the other end has sent
  serialStage,             \* what the kernel does: "init" is initSerial
  writes,                  \* writes initSerial has made
  working,                 \* what initSerial found
  calls,                   \* calls the kernel made since
  toSend,                  \* what is left of the string being written
  written,                 \* all bytes writeSerial wrote
  accepted, taken,         \* bytes that came in and bytes readSerial took since initSerial
  lookalike,               \* a byte equal to the test byte came in on the line before it
  heldRx, heldThr,         \* what the FIFOs held when initSerial found the port working
  len, index, start,       \* readSerialString's length and i, and Len(taken) at its start
  buffer                   \* its buffer, Unset where nothing was stored

uart == <<ier, lcr, mcr, divisor, rx, thr, wire, lineSent>>
kernelVars == <<writes, working, calls, toSend, written, taken, len, index, start, buffer>>
testVars == <<lookalike, heldRx, heldThr>>
serialVars == <<uart, serialStage, kernelVars, accepted, testVars>>

Unset == -1
TestByte == 174
Buffer == 0 .. Room

SerialInit ==
  /\ ier = 0 /\ lcr = 3 /\ mcr = 0 /\ divisor = 1
  /\ rx = << >> /\ thr = << >> /\ wire = << >>
  /\ lineSent = 0
  /\ serialStage = "init" /\ writes = 0
  /\ working = FALSE
  /\ calls = 0
  /\ toSend = << >> /\ written = << >> /\ accepted = << >> /\ taken = << >>
  /\ lookalike = FALSE /\ heldRx = << >> /\ heldThr = << >>
  /\ len = 0 /\ index = 0 /\ start = 0
  /\ buffer = [b \in Buffer |-> Unset]

------------------------------------------------------------------------------
\* The 16550.
Loopback == (mcr \div 16) % 2 = 1
DLAB == lcr >= 128
Put(fifo, byte) == IF Len(fifo) < FifoSize THEN Append(fifo, byte) ELSE fifo

outb(offset, value) ==
  /\ divisor' = IF DLAB /\ offset = 0 THEN 256 * (divisor \div 256) + value
                ELSE IF DLAB /\ offset = 1 THEN 256 * value + (divisor % 256)
                ELSE divisor
  /\ ier' = IF ~DLAB /\ offset = 1 THEN value ELSE ier
  /\ thr' = IF offset = 2 THEN << >> ELSE IF ~DLAB /\ offset = 0 THEN Put(thr, value) ELSE thr
  /\ rx' = IF offset = 2 THEN << >> ELSE rx
  /\ lcr' = IF offset = 3 THEN value ELSE lcr
  /\ mcr' = IF offset = 4 THEN value ELSE mcr
  /\ UNCHANGED <<wire, lineSent>>

\* A byte leaves the transmitter: for the line, or in loopback mode for the receiver.
Transmit ==
  /\ thr # << >>
  /\ thr' = Tail(thr)
  /\ IF Loopback THEN rx' = Put(rx, Head(thr)) /\ UNCHANGED wire
     ELSE wire' = Append(wire, Head(thr)) /\ UNCHANGED rx
  /\ UNCHANGED <<ier, lcr, mcr, divisor, lineSent, serialStage, kernelVars, accepted, testVars>>

\* A byte comes in from the line; none does in loopback mode.  What comes in before
\* initSerial clears the FIFOs is lost.
LineByte(byte) ==
  /\ lineSent < MaxLine /\ ~Loopback
  /\ lineSent' = lineSent + 1
  /\ rx' = Put(rx, byte)
  /\ accepted' = IF working /\ Len(rx) < FifoSize THEN Append(accepted, byte) ELSE accepted
  /\ lookalike' = (lookalike \/ (serialStage = "init" /\ writes >= 6 /\ byte = TestByte))
  /\ UNCHANGED <<ier, lcr, mcr, divisor, thr, wire, serialStage, kernelVars, heldRx, heldThr>>

------------------------------------------------------------------------------
\* initSerial: disable interrupts; divisor 3; 8 bits, no parity; clear the FIFOs;
\* RTS and DSR; loopback mode; the test byte.
InitWrites == <<
  <<1, 0>>, <<3, 128>>, <<0, 3>>, <<1, 0>>, <<3, 3>>, <<2, 199>>, <<4, 11>>, <<4, 30>>, <<0, TestByte>> >>

initSerial ==
  /\ serialStage = "init" /\ writes < Len(InitWrites)
  /\ outb(InitWrites[writes + 1][1], InitWrites[writes + 1][2])
  /\ writes' = writes + 1
  /\ UNCHANGED <<serialStage, working, calls, toSend, written, taken, len, index, start, buffer, accepted, testVars>>

\* Variant with a bug: loopback mode is not left.
testSerialStays ==
  /\ serialStage = "init" /\ writes = Len(InitWrites)
  /\ rx' = IF rx = << >> THEN rx ELSE Tail(rx)
  /\ IF rx # << >> /\ Head(rx) = TestByte
     THEN working' = TRUE /\ heldRx' = rx' /\ heldThr' = thr
     ELSE UNCHANGED <<working, heldRx, heldThr>>
  /\ serialStage' = "idle"
  /\ UNCHANGED <<ier, lcr, mcr, divisor, thr, wire, lineSent, writes, calls, toSend, written, taken, len, index, start, buffer, accepted, lookalike>>

\* The test byte is read back without a wait: the FIFO may still be empty, or hold a
\* byte of the line in front of it.  The port then stays in loopback mode, and
\* enableSerialCOM1 goes on as if it worked.  If that byte equals the test byte, the
\* test passes with the test byte still on its way.
testSerial ==
  /\ serialStage = "init" /\ writes = Len(InitWrites)
  /\ rx' = IF rx = << >> THEN rx ELSE Tail(rx)
  /\ IF rx # << >> /\ Head(rx) = TestByte
     THEN mcr' = 15 /\ working' = TRUE /\ heldRx' = rx' /\ heldThr' = thr
     ELSE UNCHANGED <<mcr, working, heldRx, heldThr>>
  /\ serialStage' = "idle"
  /\ UNCHANGED <<ier, lcr, divisor, thr, wire, lineSent, writes, calls, toSend, written, taken, len, index, start, buffer, accepted, lookalike>>

writeSerialString(message) ==
  /\ serialStage = "idle" /\ calls < MaxCalls
  /\ serialStage' = "write"
  /\ calls' = calls + 1
  /\ toSend' = message
  /\ UNCHANGED <<uart, writes, working, written, accepted, taken, len, index, start, buffer, testVars>>

\* Variant with a bug: the transmitter is not waited for.
writeSerialAtOnce ==
  /\ serialStage = "write" /\ toSend # << >>
  /\ outb(0, Head(toSend))
  /\ toSend' = Tail(toSend) /\ written' = Append(written, Head(toSend))
  /\ UNCHANGED <<serialStage, writes, working, calls, accepted, taken, len, index, start, buffer, testVars>>

\* Variant with a bug: the receiver's bit is waited for too.
writeSerialReceiver ==
  /\ serialStage = "write" /\ toSend # << >>
  /\ thr = << >> /\ rx # << >>
  /\ outb(0, Head(toSend))
  /\ toSend' = Tail(toSend) /\ written' = Append(written, Head(toSend))
  /\ UNCHANGED <<serialStage, writes, working, calls, accepted, taken, len, index, start, buffer, testVars>>

\* isTransmitEmpty: the transmitter's FIFO is empty.
writeSerial ==
  /\ serialStage = "write" /\ toSend # << >>
  /\ thr = << >>
  /\ outb(0, Head(toSend))
  /\ toSend' = Tail(toSend) /\ written' = Append(written, Head(toSend))
  /\ UNCHANGED <<serialStage, writes, working, calls, accepted, taken, len, index, start, buffer, testVars>>

writtenAll ==
  /\ serialStage = "write" /\ toSend = << >>
  /\ serialStage' = "idle"
  /\ UNCHANGED <<uart, kernelVars, accepted, testVars>>

readSerialString(length) ==
  /\ serialStage = "idle" /\ calls < MaxCalls
  /\ serialStage' = "read"
  /\ calls' = calls + 1
  /\ len' = length /\ index' = 0 /\ start' = Len(taken)
  /\ buffer' = [b \in Buffer |-> Unset]
  /\ UNCHANGED <<uart, writes, working, toSend, written, accepted, taken, testVars>>

\* Variant with a bug: the byte is taken as a signed number.
readSerialSigned ==
  /\ serialStage = "read" /\ index < len
  /\ rx # << >>
  /\ rx' = Tail(rx) /\ taken' = Append(taken, Head(rx))
  /\ IF Head(rx) # 0 THEN buffer' = [buffer EXCEPT ![index] = Head(rx) - 256] /\ index' = index + 2
     ELSE index' = index + 1 /\ UNCHANGED buffer
  /\ UNCHANGED <<ier, lcr, mcr, divisor, thr, wire, lineSent, serialStage, writes, working, calls, toSend, written, accepted, len, start, testVars>>

\* One round: both the store and the loop advance the index.
readSerial ==
  /\ serialStage = "read" /\ index < len
  /\ rx # << >>
  /\ rx' = Tail(rx) /\ taken' = Append(taken, Head(rx))
  /\ IF Head(rx) # 0 THEN buffer' = [buffer EXCEPT ![index] = Head(rx)] /\ index' = index + 2
     ELSE index' = index + 1 /\ UNCHANGED buffer
  /\ UNCHANGED <<ier, lcr, mcr, divisor, thr, wire, lineSent, serialStage, writes, working, calls, toSend, written, accepted, len, start, testVars>>

readAll ==
  /\ serialStage = "read" /\ index >= len
  /\ buffer' = [buffer EXCEPT ![index] = 0]
  /\ serialStage' = "idle"
  /\ UNCHANGED <<uart, writes, working, calls, toSend, written, accepted, taken, len, index, start, testVars>>

SerialDriver == initSerial \/ testSerial \/ writeSerial \/ writtenAll \/ readSerial \/ readAll

SerialNext ==
  \/ SerialDriver \/ Transmit
  \/ \E byte \in LineBytes : LineByte(byte)
  \/ \E message \in Messages : writeSerialString(message)
  \/ \E length \in Lengths : readSerialString(length)

SerialSpec ==
  SerialInit /\ [][SerialNext]_serialVars /\ WF_serialVars(SerialDriver) /\ WF_serialVars(Transmit)

------------------------------------------------------------------------------
\* The registers hold a byte each, the divisor two; the FIFOs hold no more than the
\* 16550 has room for.
RegisterSizes == {ier, lcr, mcr} \subseteq 0 .. 255 /\ divisor \in 0 .. 65535
FifosFit == Len(rx) <= FifoSize /\ Len(thr) <= FifoSize

SerialTypeOK ==
  /\ RegisterSizes /\ FifosFit
  /\ serialStage \in {"init", "idle", "write", "read"}
  /\ buffer \in [Buffer -> {Unset} \cup 0 .. 255]

\* When initSerial found the port working, it is in normal mode at the speed asked
\* for, with its interrupts off (serial.c:37), and its FIFOs were empty: what is read is
\* what came in on the line since.  A byte of the line that comes in during initSerial
\* makes the test fail, unless it is equal to the test byte: then what was in the FIFOs
\* is read, or sent, first (serial.c:29).
ReadyMeansNormal ==
  working => /\ mcr = 15 /\ lcr = 3 /\ divisor = 3 /\ ier = 0
             /\ taken \o rx = heldRx \o accepted
             /\ lookalike \/ (heldRx = << >> /\ heldThr = << >>)

\* What is written comes out on the line, every byte of it and in order (serial.c:75),
\* and before it at the most the test byte, which a byte of the line was taken for;
\* what readSerialString has stored are the characters that came in during the call, in
\* order, with NULs left out and places of the buffer between them: all within its len
\* bytes, and the terminator two bytes past them at the most (serial.c:61).
Came == {k \in start + 1 .. Len(taken) : taken[k] # 0}
Stored == {b \in Buffer : buffer[b] # Unset}
PlacedInOrder(place) ==
  /\ \A k \in Came : buffer[place[k]] = taken[k]
  /\ \A j, k \in Came : j < k => place[j] < place[k]
  /\ \A b \in Stored : \E k \in Came : place[k] = b
KeepsOrder ==
  /\ working => wire \o thr = heldThr \o written /\ heldThr \in {<< >>, <<TestByte>>}
  /\ serialStage = "read" =>
       /\ \E place \in [Came -> Stored] : PlacedInOrder(place)
       /\ \A b \in Stored : b < len
       /\ index <= len + 1

\* A string is written to its end, whether the port works or was left in loopback
\* mode.
WritesEnd == serialStage = "write" ~> serialStage = "idle"
==============================================================================
