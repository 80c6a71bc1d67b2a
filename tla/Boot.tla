--------------------------------- MODULE Boot --------------------------------
(***************************************************************************)
(* The kernel from the moment it sets up interrupts to its idle loop       *)
(* (kernel/kernel.c, lines 222 to 235), step by step, with the interrupts  *)
(* that arrive meanwhile: PIT ticks through the 8259, local APIC timer     *)
(* interrupts, and keys through the I/O APIC.  The task switch before the  *)
(* loop touches nothing here; see Tasks.                                   *)
(*                                                                         *)
(* The main program is the pc; a step of it runs only while no handler     *)
(* does.  A handler runs with interrupts disabled, from the stub to iretq. *)
(***************************************************************************)
EXTENDS Integers

CONSTANTS
  Frequencies,   \* arguments of enableAPICTimer, in Hz (kernel.c passes 10)
  Milliseconds,  \* the argument of PIT_sleep (10)
  KeyTimes,      \* the values of pc at which keys are pressed
  MaxKeys        \* bound on the number of keys pressed

ASSUME BootAssumption ==
  /\ Frequencies \subseteq Nat \ {0}
  /\ Milliseconds \in Nat
  /\ MaxKeys \in Nat

VARIABLES
  imr, irr, isr,           \* the 8259s, see Pic
  enabled, lvtTimer, counting, requested, inService, redirection, \* see Apic
  pc,                      \* the next step of the main program
  interruptFlag,           \* IF
  asleep,                  \* the main program is in hlt
  frequency,               \* frequency of pit.c, in Hz
  ticks,                   \* ticks of PIT_sleep: the hlts it executed
  interrupt_handlers,      \* what each vector's handler is
  frame,                   \* the interrupt being handled, NoFrame if none is
  crashed,                 \* the CPU called address 0
  typed, read, outputFull  \* keys pressed and read; the 8042 holds one of them

picVars == <<imr, irr, isr>>
apicVars == <<enabled, lvtTimer, counting, requested, inService, redirection>>
cpuVars == <<pc, interruptFlag, asleep, frequency, ticks, interrupt_handlers, frame, crashed>>
keyVars == <<typed, read, outputFull>>
vars == <<picVars, apicVars, cpuVars, keyVars>>

PIC == INSTANCE Pic
APIC == INSTANCE Apic WITH Pins <- {1}

TimerVector == 32
KeyboardVector == 33
Handled == {TimerVector, KeyboardVector}
Handlers == {"NULL", "PIT_callback", "APIC_timer_callback", "keyboardHandler"}
Sources == {"PIC", "APIC"}
Stages == {"stub", "handler", "iretq"}
NoFrame == [source |-> "none", vector |-> 0, stage |-> "none"]

\* The steps of _start and of the functions it calls, in order.
Steps == << "remapPIC", "initIdt", "disablePIC", "enableAPIC", "registerPIT",
            "unmaskPIT", "startCount", "PIT_sleep", "maskTimer", "armTimer",
            "startTimer", "registerTimer", "unmaskKeyboard", "registerKeyboard",
            "idle" >>
StepNames == {Steps[i] : i \in DOMAIN Steps}
At(step) == \E i \in DOMAIN Steps : Steps[i] = step /\ pc = i

Init ==
  /\ imr = [c \in PIC!Chips |-> PIC!Bits \ (IF c = 1 THEN {PIC!Cascade} ELSE {})]
  /\ irr \in {[c \in PIC!Chips |-> IF c = 1 THEN b ELSE {}] : b \in SUBSET {0}}
  /\ isr = [c \in PIC!Chips |-> {}]
  /\ APIC!Init
  /\ pc = 1
  /\ interruptFlag = FALSE
  /\ asleep = FALSE
  /\ frequency \in Frequencies
  /\ ticks = 0
  /\ interrupt_handlers = [v \in Handled |-> "NULL"]
  /\ frame = NoFrame
  /\ crashed = FALSE
  /\ typed = 0 /\ read = 0 /\ outputFull = FALSE

------------------------------------------------------------------------------
\* The main program.
Step(step) ==
  /\ At(step)
  /\ frame = NoFrame
  /\ ~asleep
  /\ ~crashed
  /\ UNCHANGED <<frame, frequency, crashed, keyVars>>

Advance == pc' = pc + 1

remapPIC ==
  /\ Step("remapPIC")
  /\ PIC!remapPIC
  /\ Advance
  /\ UNCHANGED <<apicVars, interruptFlag, asleep, ticks, interrupt_handlers>>

initIdt ==
  /\ Step("initIdt")
  /\ interruptFlag' = TRUE
  /\ Advance
  /\ UNCHANGED <<picVars, apicVars, asleep, ticks, interrupt_handlers>>

\* enableAPIC writes 0xFF to both mask registers and calls disableAllIRQs.
disablePIC ==
  /\ Step("disablePIC")
  /\ PIC!disableAllIRQs
  /\ Advance
  /\ UNCHANGED <<apicVars, interruptFlag, asleep, ticks, interrupt_handlers>>

enableAPIC ==
  /\ Step("enableAPIC")
  /\ APIC!SetSpuriousVector
  /\ Advance
  /\ UNCHANGED <<picVars, interruptFlag, asleep, ticks, interrupt_handlers>>

registerInterruptHandler(step, vector, handler) ==
  /\ Step(step)
  /\ interrupt_handlers' = [interrupt_handlers EXCEPT ![vector] = handler]
  /\ Advance
  /\ UNCHANGED <<picVars, apicVars, interruptFlag, asleep, ticks>>

\* Variant with a bug: the tick's vector is mistaken for the keyboard's.
registerPITAtKeyboard == registerInterruptHandler("registerPIT", KeyboardVector, "PIT_callback")

registerPIT == registerInterruptHandler("registerPIT", TimerVector, "PIT_callback")
registerTimer == registerInterruptHandler("registerTimer", TimerVector, "APIC_timer_callback")
registerKeyboard == registerInterruptHandler("registerKeyboard", KeyboardVector, "keyboardHandler")

unmaskPIT ==
  /\ Step("unmaskPIT")
  /\ PIC!clearMaskIRQ(0)
  /\ Advance
  /\ UNCHANGED <<apicVars, interruptFlag, asleep, ticks, interrupt_handlers>>

writeAPICRegister(step, write) ==
  /\ Step(step)
  /\ write
  /\ Advance
  /\ UNCHANGED <<picVars, interruptFlag, asleep, ticks, interrupt_handlers>>

\* The count is started with the timer masked, the timer masked (again), given
\* its vector, and given the count calibration found.
startCount == writeAPICRegister("startCount", APIC!SetInitialCount)
maskTimer == writeAPICRegister("maskTimer", APIC!SetTimerEntry(APIC!Masked))
armTimer == writeAPICRegister("armTimer", APIC!SetTimerEntry(TimerVector))
startTimer == writeAPICRegister("startTimer", APIC!SetInitialCount)
unmaskKeyboard == writeAPICRegister("unmaskKeyboard", APIC!SetRedirection(1, KeyboardVector))

\* PIT_sleep counts the hlts it executes: the division comes first.
TicksToSleep == (frequency \div 1000) * Milliseconds

PIT_sleep ==
  /\ Step("PIT_sleep")
  /\ IF ticks < TicksToSleep
     THEN ticks' = ticks + 1 /\ asleep' = TRUE /\ UNCHANGED pc
     ELSE Advance /\ UNCHANGED <<ticks, asleep>>
  /\ UNCHANGED <<picVars, apicVars, interruptFlag, interrupt_handlers>>

\* Variant with a bug: the idle loop ends.
hltOnce ==
  /\ Step("idle")
  /\ asleep' = TRUE
  /\ Advance
  /\ UNCHANGED <<picVars, apicVars, interruptFlag, ticks, interrupt_handlers>>

hlt ==
  /\ Step("idle")
  /\ asleep' = TRUE
  /\ UNCHANGED <<picVars, apicVars, pc, interruptFlag, ticks, interrupt_handlers>>

MainStep ==
  \/ remapPIC \/ initIdt \/ disablePIC \/ enableAPIC \/ registerPIT \/ unmaskPIT
  \/ startCount \/ PIT_sleep \/ maskTimer \/ armTimer \/ startTimer \/ registerTimer
  \/ unmaskKeyboard \/ registerKeyboard \/ hlt

------------------------------------------------------------------------------
\* Interrupts: the CPU enters the stub, which ends a hlt; the stub calls
\* irqHandler; the handler of the vector runs; iretq enables interrupts again.
Enter(source, vector) ==
  /\ interruptFlag
  /\ frame = NoFrame
  /\ interruptFlag' = FALSE
  /\ asleep' = FALSE
  /\ frame' = [source |-> source, vector |-> vector, stage |-> "stub"]
  /\ UNCHANGED <<pc, frequency, ticks, interrupt_handlers, crashed, keyVars>>

TakePIC ==
  \E line \in {0, 1} :
    PIC!Acknowledge(line) /\ Enter("PIC", 32 + line) /\ UNCHANGED apicVars

TakeAPIC ==
  \E vector \in Handled :
    APIC!Acknowledge(vector) /\ Enter("APIC", vector) /\ UNCHANGED picVars

Handling(stage) == frame # NoFrame /\ frame.stage = stage /\ ~crashed

\* The test before the call compares the address of the table entry with NULL,
\* so an entry that was never set is called too.
irqHandler ==
  /\ Handling("stub")
  /\ IF interrupt_handlers[frame.vector] = "NULL"
     THEN crashed' = TRUE /\ UNCHANGED frame
     ELSE frame' = [frame EXCEPT !.stage = "handler"] /\ UNCHANGED crashed
  /\ UNCHANGED <<picVars, apicVars, pc, interruptFlag, asleep, frequency, ticks, interrupt_handlers, keyVars>>

Runs(handler) ==
  /\ Handling("handler")
  /\ interrupt_handlers[frame.vector] = handler
  /\ frame' = [frame EXCEPT !.stage = "iretq"]
  /\ UNCHANGED <<pc, interruptFlag, asleep, frequency, ticks, interrupt_handlers, crashed>>

\* Variant with a bug: the tick is not ended.
PIT_callbackNoEOI ==
  /\ Runs("PIT_callback")
  /\ UNCHANGED <<picVars, apicVars, keyVars>>

PIT_callback ==
  /\ Runs("PIT_callback")
  /\ PIC!sendEOIPIC(0)
  /\ UNCHANGED <<apicVars, keyVars>>

\* Variant with a bug: the interrupt is ended in the 8259.
APIC_timer_callbackToPIC ==
  /\ Runs("APIC_timer_callback")
  /\ PIC!sendEOIPIC(0)
  /\ UNCHANGED <<apicVars, keyVars>>

APIC_timer_callback ==
  /\ Runs("APIC_timer_callback")
  /\ APIC!EndOfInterrupt
  /\ UNCHANGED <<picVars, keyVars>>

\* Variant with a bug: a key is not ended.
keyboardHandlerNoEOI ==
  /\ Runs("keyboardHandler")
  /\ read' = IF outputFull THEN read + 1 ELSE read
  /\ outputFull' = FALSE
  /\ UNCHANGED <<picVars, apicVars, typed>>

\* The data port is read, which empties the 8042's output buffer.
keyboardHandler ==
  /\ Runs("keyboardHandler")
  /\ read' = IF outputFull THEN read + 1 ELSE read
  /\ outputFull' = FALSE
  /\ APIC!EndOfInterrupt
  /\ UNCHANGED <<picVars, typed>>

iretq ==
  /\ Handling("iretq")
  /\ frame' = NoFrame
  /\ interruptFlag' = TRUE
  /\ UNCHANGED <<picVars, apicVars, pc, asleep, frequency, ticks, interrupt_handlers, crashed, keyVars>>

HandlerStep == irqHandler \/ PIT_callback \/ APIC_timer_callback \/ keyboardHandler \/ iretq

------------------------------------------------------------------------------
\* The devices.
PITTick == PIC!Raise(0) /\ UNCHANGED <<apicVars, cpuVars, keyVars>>

TimerExpires == APIC!TimerExpires /\ UNCHANGED <<picVars, cpuVars, keyVars>>

KeyPress ==
  /\ typed < MaxKeys
  /\ \E step \in KeyTimes : At(step)
  /\ typed' = typed + 1
  /\ UNCHANGED <<picVars, apicVars, cpuVars, read, outputFull>>

\* The next key goes to the empty output buffer, which raises line 1.
KeyReady ==
  /\ read < typed
  /\ ~outputFull
  /\ outputFull' = TRUE
  /\ PIC!Raise(1)
  /\ APIC!Edge(1)
  /\ UNCHANGED <<cpuVars, typed, read>>

Next ==
  \/ MainStep \/ HandlerStep \/ TakePIC \/ TakeAPIC
  \/ PITTick \/ TimerExpires \/ KeyPress \/ KeyReady

\* The timers and the 8042 never stop; an interrupt the controllers offer is
\* taken once interrupts are enabled; handlers finish; and the main program,
\* although interrupts preempt it, gets to run between them.
Fairness ==
  /\ WF_vars(PITTick) /\ WF_vars(TimerExpires) /\ WF_vars(KeyReady)
  /\ SF_vars(TakePIC) /\ SF_vars(TakeAPIC)
  /\ WF_vars(HandlerStep) /\ SF_vars(MainStep)

Spec == Init /\ [][Next]_vars /\ Fairness

------------------------------------------------------------------------------
TypeOK ==
  /\ PIC!TypeOK
  /\ APIC!TypeOK
  /\ pc \in DOMAIN Steps
  /\ interruptFlag \in BOOLEAN /\ asleep \in BOOLEAN /\ crashed \in BOOLEAN
  /\ frequency \in Frequencies /\ ticks \in 0 .. TicksToSleep
  /\ interrupt_handlers \in [Handled -> Handlers]
  /\ frame \in [source : Sources, vector : Handled, stage : Stages] \cup {NoFrame}
  /\ read \in 0 .. MaxKeys /\ typed \in 0 .. MaxKeys /\ outputFull \in BOOLEAN

\* No interrupt is taken before its handler is registered (isr.c:42 means to
\* check for it).
NoCallOfNULL == ~crashed

\* PIT ticks and APIC timer interrupts share vector 32 but not a controller, so
\* each of the two handlers leaves the other controller's interrupt in service.
\* Between handlers at most one controller is blocked that way, by the timer's
\* vector or line only: the other controller's next interrupt ends a blocked
\* local APIC (pit.c:9, apic.c:171).
NeverBothBlocked ==
  frame = NoFrame =>
    /\ inService \subseteq {TimerVector}
    /\ isr[1] \subseteq {0} /\ isr[2] = {}
    /\ inService = {} \/ isr[1] = {}

\* The kernel reaches its idle loop whatever interrupts arrive (kernel.c:232).
Boots == <>At("idle")

\* Every key pressed is read by keyboardHandler (ioapic.c:33).
KeysAreRead == \A n \in 1 .. MaxKeys : typed >= n ~> read >= n

\* The timer never stops being served (apic.c:171).
TimerServed == []<>(frame.source = "APIC" /\ frame.vector = TimerVector)
==============================================================================
