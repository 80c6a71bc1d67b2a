------------------------------ MODULE BootProofs -----------------------------
(***************************************************************************)
(* Proofs about Boot for every timer frequency, every sleep and keys at    *)
(* every time: between handlers at most one of the two interrupt           *)
(* controllers is blocked.                                                 *)
(*                                                                         *)
(* The argument: an interrupt is only taken from a controller that is not  *)
(* blocked, whose in-service register then is what was taken; and whatever *)
(* handler vector 32 has, it ends what one of the two has in service.      *)
(***************************************************************************)
EXTENDS Boot, TLAPS

\* Lines 1 and 3 to 7 of the first 8259, and all of the second, stay masked.
OnlyTickUnmasked ==
  /\ PIC!TypeOK
  /\ PIC!Bits \ {0, PIC!Cascade} \subseteq imr[1]
  /\ imr[2] = PIC!Bits

\* The local APIC is only ever asked for the timer's and the keyboard's vector.
OnlyHandledRequested ==
  /\ requested \subseteq Handled
  /\ lvtTimer \in {APIC!Masked, TimerVector}
  /\ redirection \in [{1} -> {APIC!Masked, KeyboardVector}]

\* Each vector has its own handlers.
HandlersFit ==
  /\ interrupt_handlers \in [Handled -> Handlers]
  /\ interrupt_handlers[TimerVector] \in {"NULL", "PIT_callback", "APIC_timer_callback"}
  /\ interrupt_handlers[KeyboardVector] \in {"NULL", "keyboardHandler"}

\* At most one controller has an interrupt in service, that of a timer.
OneBlocked ==
  /\ inService \subseteq {TimerVector}
  /\ isr[1] \subseteq {0} /\ isr[2] = {}
  /\ inService = {} \/ isr[1] = {}

\* What was taken is in service at its controller; the other may be blocked.
TakenInService ==
  /\ isr[2] = {}
  /\ frame.source = "APIC" => inService = {frame.vector} /\ isr[1] \subseteq {0}
  /\ frame.source = "PIC" =>
       frame.vector = TimerVector /\ isr[1] = {0} /\ inService \subseteq {TimerVector}

FrameOK ==
  /\ frame \in [source : Sources, vector : Handled, stage : Stages] \cup {NoFrame}
  /\ frame = NoFrame \/ frame.stage = "iretq" => OneBlocked
  /\ frame # NoFrame /\ frame.stage # "iretq" => TakenInService

BootInv == OnlyTickUnmasked /\ OnlyHandledRequested /\ HandlersFit /\ FrameOK

------------------------------------------------------------------------------
\* The lowest and the highest element of the sets the controllers choose from.
LEMMA MinOfTickAndCascade ==
  ASSUME NEW S \in SUBSET {0, 2}, S # {}
  PROVE  PIC!Min(S) \in S
<1>1. \E x \in S : \A y \in S : x =< y
  <2>1. CASE 0 \in S
    BY <2>1
  <2>2. CASE 0 \notin S
    <3>1. S = {2}
      BY <2>2
    <3> QED BY <3>1
  <2> QED BY <2>1, <2>2
<1> QED BY <1>1 DEF PIC!Min

LEMMA MaxOfOne ==
  ASSUME NEW v \in Int
  PROVE  APIC!Max({v}) = v
<1>1. v >= v
  OBVIOUS
<1> QED BY <1>1 DEF APIC!Max

LEMMA MinOfOne ==
  ASSUME NEW b \in Int
  PROVE  PIC!Ended({b}) = {} /\ PIC!Ended({}) = {}
<1>1. b =< b
  OBVIOUS
<1>2. PIC!Min({b}) = b
  BY <1>1 DEF PIC!Min
<1> QED BY <1>2 DEF PIC!Ended

\* The 8259s only offer the tick.
LEMMA OnlyTickOffered ==
  ASSUME OnlyTickUnmasked
  PROVE  PIC!Next8259 # 1
<1> USE DEF PIC!Chips
<1>1. PIC!Requests2 = {}
  BY DEF OnlyTickUnmasked, PIC!TypeOK, PIC!Requests2, PIC!Asking
<1>2. PIC!Requests1 \subseteq {0, 2}
  BY <1>1 DEF OnlyTickUnmasked, PIC!TypeOK, PIC!Requests1, PIC!Asking, PIC!Bits, PIC!Cascade
<1>3. CASE PIC!Requests1 = {}
  BY <1>3 DEF PIC!Next8259, PIC!NoLine
<1>4. CASE PIC!Requests1 # {}
  <2>1. PIC!Next8259 = PIC!Min(PIC!Requests1)
    BY <1>1, <1>4 DEF PIC!Next8259
  <2>2. PIC!Min(PIC!Requests1) \in {0, 2}
    BY <1>2, <1>4, MinOfTickAndCascade
  <2> QED BY <2>1, <2>2
<1> QED BY <1>3, <1>4

\* The local APIC offers nothing while the timer's vector is in service: the
\* keyboard's is of the same class.
LEMMA OfferedWhenIdle ==
  ASSUME OnlyHandledRequested, inService \subseteq {TimerVector},
         NEW vector \in Handled, vector = APIC!NextVector
  PROVE  inService = {}
<1> DEFINE ready == {v \in requested : \A s \in inService : APIC!Class(s) < APIC!Class(v)}
<1>1. APIC!Class(TimerVector) = 2 /\ \A v \in requested : APIC!Class(v) = 2
  BY DEF OnlyHandledRequested, APIC!Class, Handled, TimerVector, KeyboardVector
<1>2. CASE inService # {}
  <2>1. TimerVector \in inService
    BY <1>2
  <2>2. ready = {}
    BY <1>1, <2>1
  <2>3. APIC!NextVector = -1
    BY <2>2 DEF APIC!NextVector, APIC!NoVector
  <2> QED BY <2>3 DEF Handled, TimerVector, KeyboardVector
<1> QED BY <1>2

------------------------------------------------------------------------------
LEMMA BootInit == Init => BootInv
<1> SUFFICES ASSUME Init PROVE BootInv
  OBVIOUS
<1>1. OnlyTickUnmasked
  <2> USE DEF Init, PIC!Chips, PIC!Bits, PIC!Cascade
  <2>1. imr \in [PIC!Chips -> SUBSET PIC!Bits] /\ isr \in [PIC!Chips -> SUBSET PIC!Bits]
    OBVIOUS
  <2>2. irr \in [PIC!Chips -> SUBSET PIC!Bits]
    <3>1. PICK b \in SUBSET {0} : irr = [c \in PIC!Chips |-> IF c = 1 THEN b ELSE {}]
      OBVIOUS
    <3>2. b \subseteq 0 .. 7
      OBVIOUS
    <3> QED BY <3>1, <3>2
  <2> QED BY <2>1, <2>2 DEF OnlyTickUnmasked, PIC!TypeOK
<1>2. OnlyHandledRequested
  BY DEF Init, APIC!Init, OnlyHandledRequested
<1>3. HandlersFit
  BY DEF Init, HandlersFit, Handled, Handlers, TimerVector, KeyboardVector
<1>4. OneBlocked
  BY DEF Init, APIC!Init, OneBlocked, PIC!Chips
<1>5. frame = NoFrame
  BY DEF Init
<1> QED BY <1>1, <1>2, <1>3, <1>4, <1>5 DEF BootInv, FrameOK

\* The main program runs between handlers, and writes masks and entries.
LEMMA MainKeeps ==
  ASSUME BootInv, MainStep
  PROVE  BootInv'
<1>1. frame' = frame /\ frame = NoFrame
  BY DEF MainStep, remapPIC, initIdt, disablePIC, enableAPIC, registerPIT, unmaskPIT,
    startCount, PIT_sleep, maskTimer, armTimer, startTimer, registerTimer, unmaskKeyboard,
    registerKeyboard, hlt, registerInterruptHandler, writeAPICRegister, Step
<1>2. ASSUME UNCHANGED <<isr, inService>> \/ (isr' = [c \in PIC!Chips |-> {}] /\ UNCHANGED inService)
      PROVE  FrameOK'
  BY <1>1, <1>2 DEF BootInv, FrameOK, OneBlocked, NoFrame, PIC!Chips
<1>3. CASE remapPIC
  <2> USE <1>3 DEF remapPIC, PIC!remapPIC, apicVars, BootInv
  <2>1. OnlyTickUnmasked'
    BY DEF OnlyTickUnmasked, PIC!TypeOK, PIC!Chips
  <2>2. OnlyHandledRequested' /\ HandlersFit'
    BY DEF OnlyHandledRequested, HandlersFit
  <2> QED BY <1>2, <2>1, <2>2
<1>4. CASE disablePIC \/ unmaskPIT
  <2> USE <1>4 DEF disablePIC, unmaskPIT, PIC!disableAllIRQs, PIC!clearMaskIRQ, apicVars, BootInv
  <2>1. OnlyTickUnmasked'
    BY DEF OnlyTickUnmasked, PIC!TypeOK, PIC!Chips, PIC!ChipOf, PIC!BitOf, PIC!Bits, PIC!Cascade
  <2>2. OnlyHandledRequested' /\ HandlersFit'
    BY DEF OnlyHandledRequested, HandlersFit
  <2> QED BY <1>2, <2>1, <2>2
<1>5. CASE registerPIT \/ registerTimer \/ registerKeyboard
  <2> USE <1>5 DEF registerPIT, registerTimer, registerKeyboard, registerInterruptHandler,
        apicVars, picVars, BootInv
  <2>1. OnlyTickUnmasked' /\ OnlyHandledRequested'
    BY DEF OnlyTickUnmasked, OnlyHandledRequested, PIC!TypeOK
  <2>2. HandlersFit'
    BY DEF HandlersFit, Handled, Handlers, TimerVector, KeyboardVector
  <2> QED BY <1>2, <2>1, <2>2
<1>6. CASE enableAPIC \/ startCount \/ maskTimer \/ armTimer \/ startTimer \/ unmaskKeyboard
  <2> USE <1>6 DEF enableAPIC, startCount, maskTimer, armTimer, startTimer, unmaskKeyboard,
        writeAPICRegister, APIC!SetSpuriousVector, APIC!SetInitialCount, APIC!SetTimerEntry,
        APIC!SetRedirection, picVars, BootInv
  <2>1. OnlyTickUnmasked' /\ HandlersFit'
    BY DEF OnlyTickUnmasked, HandlersFit, PIC!TypeOK
  <2>2. OnlyHandledRequested'
    BY DEF OnlyHandledRequested
  <2> QED BY <1>2, <2>1, <2>2
<1>7. CASE initIdt \/ PIT_sleep \/ hlt
  <2> USE <1>7 DEF initIdt, PIT_sleep, hlt, apicVars, picVars, BootInv
  <2>1. OnlyTickUnmasked' /\ HandlersFit' /\ OnlyHandledRequested'
    BY DEF OnlyTickUnmasked, HandlersFit, OnlyHandledRequested, PIC!TypeOK
  <2> QED BY <1>2, <2>1
<1> QED BY <1>3, <1>4, <1>5, <1>6, <1>7 DEF MainStep

\* An interrupt of the 8259s is a tick, and is then in service there.
LEMMA TakePICKeeps ==
  ASSUME BootInv, TakePIC
  PROVE  BootInv'
<1>1. PICK line \in {0, 1} : PIC!Acknowledge(line) /\ Enter("PIC", 32 + line)
  BY DEF TakePIC
<1>2. line = 0
  BY <1>1, OnlyTickOffered DEF BootInv, PIC!Acknowledge
<1>3. frame = NoFrame /\ frame' = [source |-> "PIC", vector |-> TimerVector, stage |-> "stub"]
  BY <1>1, <1>2 DEF Enter, TimerVector
<1>4. isr' = [c \in PIC!Chips |-> isr[c] \cup (IF c = 1 THEN {0} ELSE {})] /\ imr' = imr
  BY <1>1, <1>2 DEF PIC!Acknowledge, PIC!ChipOf, PIC!BitOf, PIC!Chips
<1>5. OneBlocked
  BY <1>3 DEF BootInv, FrameOK
<1>6. UNCHANGED <<lvtTimer, requested, inService, redirection, interrupt_handlers>>
  BY <1>1 DEF TakePIC, apicVars, Enter
<1>7. OnlyTickUnmasked'
  <2>1. irr' \in [PIC!Chips -> SUBSET PIC!Bits]
    BY <1>1 DEF BootInv, OnlyTickUnmasked, PIC!TypeOK, PIC!Acknowledge
  <2>2. isr' \in [PIC!Chips -> SUBSET PIC!Bits]
    BY <1>4 DEF BootInv, OnlyTickUnmasked, PIC!TypeOK, PIC!Bits
  <2> QED BY <1>4, <2>1, <2>2 DEF BootInv, OnlyTickUnmasked, PIC!TypeOK
<1>8. OnlyHandledRequested' /\ HandlersFit'
  BY <1>6 DEF BootInv, OnlyHandledRequested, HandlersFit
<1>9. TakenInService'
  BY <1>3, <1>4, <1>5, <1>6 DEF OneBlocked, TakenInService, PIC!Chips
<1>10. FrameOK'
  BY <1>3, <1>9 DEF FrameOK, NoFrame, Sources, Handled, Stages
<1> QED BY <1>7, <1>8, <1>10 DEF BootInv

\* The local APIC offers an interrupt only when it has none in service.
LEMMA TakeAPICKeeps ==
  ASSUME BootInv, TakeAPIC
  PROVE  BootInv'
<1>1. PICK vector \in Handled : APIC!Acknowledge(vector) /\ Enter("APIC", vector)
  BY DEF TakeAPIC
<1>2. frame = NoFrame /\ frame' = [source |-> "APIC", vector |-> vector, stage |-> "stub"]
  BY <1>1 DEF Enter
<1>3. OneBlocked
  BY <1>2 DEF BootInv, FrameOK
<1>4. inService = {}
  BY <1>1, <1>3, OfferedWhenIdle DEF BootInv, OneBlocked, APIC!Acknowledge
<1>5. inService' = {vector} /\ requested' \subseteq requested /\ UNCHANGED <<lvtTimer, redirection>>
  BY <1>1, <1>4 DEF APIC!Acknowledge
<1>6. UNCHANGED <<imr, irr, isr, interrupt_handlers>>
  BY <1>1 DEF TakeAPIC, picVars, Enter
<1>7. OnlyTickUnmasked' /\ OnlyHandledRequested' /\ HandlersFit'
  BY <1>5, <1>6 DEF BootInv, OnlyTickUnmasked, OnlyHandledRequested, HandlersFit, PIC!TypeOK
<1>8. TakenInService'
  BY <1>2, <1>3, <1>5, <1>6 DEF OneBlocked, TakenInService
<1>9. FrameOK'
  BY <1>2, <1>8 DEF FrameOK, NoFrame, Sources, Stages
<1> QED BY <1>7, <1>9 DEF BootInv

\* A handler ends what one of the controllers has in service.
LEMMA HandlerKeeps ==
  ASSUME BootInv, HandlerStep
  PROVE  BootInv'
<1>1. CASE irqHandler
  <2>1. UNCHANGED <<picVars, apicVars, interrupt_handlers>>
    BY <1>1 DEF irqHandler
  <2>2. OnlyTickUnmasked' /\ OnlyHandledRequested' /\ HandlersFit'
    BY <2>1 DEF BootInv, OnlyTickUnmasked, OnlyHandledRequested, HandlersFit, PIC!TypeOK,
      picVars, apicVars
  <2>3. CASE frame' = frame
    BY <2>1, <2>2, <2>3 DEF BootInv, FrameOK, OneBlocked, TakenInService, picVars, apicVars
  <2>4. CASE frame' = [frame EXCEPT !.stage = "handler"]
    <3>1. frame # NoFrame /\ frame.stage = "stub"
      BY <1>1 DEF irqHandler, Handling
    <3>2. frame \in [source : Sources, vector : Handled, stage : Stages] /\ TakenInService
      BY <3>1 DEF BootInv, FrameOK
    <3>3. TakenInService'
      BY <2>1, <2>4, <3>2 DEF TakenInService, picVars, apicVars
    <3>4. frame' \in [source : Sources, vector : Handled, stage : Stages]
          /\ frame'.stage = "handler"
      BY <2>4, <3>2 DEF Stages
    <3> QED BY <2>2, <3>3, <3>4 DEF BootInv, FrameOK, NoFrame
  <2> QED BY <1>1, <2>3, <2>4 DEF irqHandler
<1>2. ASSUME NEW handler, Runs(handler), OnlyTickUnmasked', OnlyHandledRequested',
             TakenInService => OneBlocked'
      PROVE  BootInv'
  <2>1. frame # NoFrame /\ frame.stage = "handler" /\ frame' = [frame EXCEPT !.stage = "iretq"]
        /\ interrupt_handlers' = interrupt_handlers
    BY <1>2 DEF Runs, Handling
  <2>2. frame \in [source : Sources, vector : Handled, stage : Stages] /\ TakenInService
    BY <2>1 DEF BootInv, FrameOK
  <2>3. frame' \in [source : Sources, vector : Handled, stage : Stages] /\ frame'.stage = "iretq"
    BY <2>1, <2>2 DEF Stages
  <2>4. HandlersFit'
    BY <2>1 DEF BootInv, HandlersFit
  <2> QED BY <1>2, <2>2, <2>3, <2>4 DEF BootInv, FrameOK, NoFrame
<1>3. CASE PIT_callback
  <2>1. Runs("PIT_callback") /\ UNCHANGED apicVars /\ UNCHANGED <<imr, irr>>
        /\ isr' = [c \in PIC!Chips |-> IF c = 1 THEN PIC!Ended(isr[c]) ELSE isr[c]]
    BY <1>3 DEF PIT_callback, PIC!sendEOIPIC
  <2>2. frame.vector = TimerVector
    BY <2>1 DEF BootInv, FrameOK, HandlersFit, Runs, Handling, Handled, TimerVector, KeyboardVector
  <2>3. OnlyTickUnmasked' /\ OnlyHandledRequested'
    BY <2>1 DEF BootInv, OnlyTickUnmasked, OnlyHandledRequested, PIC!TypeOK, PIC!Ended, apicVars
  <2>4. ASSUME TakenInService PROVE OneBlocked'
    <3>1. isr[1] = {} \/ isr[1] = {0}
      BY <2>1, <2>4 DEF TakenInService, BootInv, FrameOK, Runs, Handling, Sources
    <3>2. isr'[1] = PIC!Ended(isr[1]) /\ isr'[2] = {}
      BY <2>1, <2>4 DEF TakenInService, PIC!Chips
    <3>3. isr'[1] = {}
      <4>1. PIC!Ended({0}) = {} /\ PIC!Ended({}) = {}
        BY MinOfOne
      <4>2. CASE isr[1] = {}
        BY <3>2, <4>1, <4>2
      <4>3. CASE isr[1] = {0}
        BY <3>2, <4>1, <4>3
      <4> QED BY <3>1, <4>2, <4>3
    <3> QED BY <2>1, <2>2, <2>4, <3>2, <3>3
      DEF TakenInService, OneBlocked, apicVars, BootInv, FrameOK, Runs, Handling, Sources
  <2> QED BY <1>2, <2>1, <2>3, <2>4
<1>4. CASE APIC_timer_callback \/ keyboardHandler
  <2>1. PICK handler : Runs(handler)
    BY <1>4 DEF APIC_timer_callback, keyboardHandler
  <2>2. UNCHANGED picVars /\ UNCHANGED <<lvtTimer, requested, redirection>>
        /\ inService' = IF inService = {} THEN {} ELSE inService \ {APIC!Max(inService)}
    BY <1>4 DEF APIC_timer_callback, keyboardHandler, APIC!EndOfInterrupt
  <2>3. OnlyTickUnmasked' /\ OnlyHandledRequested'
    BY <2>2 DEF BootInv, OnlyTickUnmasked, OnlyHandledRequested, PIC!TypeOK, picVars
  <2>4. ASSUME TakenInService PROVE OneBlocked'
    <3>1. inService = {} \/ \E v \in Handled : inService = {v}
      BY <2>1, <2>4 DEF TakenInService, BootInv, FrameOK, Runs, Handling, Sources, Handled
    <3>2. inService' = {}
      BY <2>2, <3>1, MaxOfOne DEF Handled, TimerVector, KeyboardVector
    <3>3. isr[1] \subseteq {0} /\ isr[2] = {}
      BY <2>1, <2>4 DEF TakenInService, BootInv, FrameOK, Runs, Handling, Sources
    <3> QED BY <2>2, <3>2, <3>3 DEF OneBlocked, picVars
  <2> QED BY <1>2, <2>1, <2>3, <2>4
<1>5. CASE iretq
  <2>1. frame # NoFrame /\ frame.stage = "iretq" /\ frame' = NoFrame
        /\ UNCHANGED <<picVars, apicVars, interrupt_handlers>>
    BY <1>5 DEF iretq, Handling
  <2>2. OnlyTickUnmasked' /\ OnlyHandledRequested' /\ HandlersFit'
    BY <2>1 DEF BootInv, OnlyTickUnmasked, OnlyHandledRequested, HandlersFit, PIC!TypeOK,
      picVars, apicVars
  <2>3. OneBlocked'
    BY <2>1 DEF BootInv, FrameOK, OneBlocked, picVars, apicVars
  <2> QED BY <2>1, <2>2, <2>3 DEF BootInv, FrameOK
<1> QED BY <1>1, <1>3, <1>4, <1>5 DEF HandlerStep

\* The devices raise lines.
LEMMA DeviceKeeps ==
  ASSUME BootInv, PITTick \/ TimerExpires \/ KeyPress \/ KeyReady
  PROVE  BootInv'
<1>1. UNCHANGED <<frame, isr, imr, inService, lvtTimer, redirection, interrupt_handlers>>
  BY DEF PITTick, TimerExpires, KeyPress, KeyReady, cpuVars, picVars, apicVars,
    PIC!Raise, APIC!TimerExpires, APIC!Edge
<1>2. irr' \in [PIC!Chips -> SUBSET PIC!Bits]
  BY DEF BootInv, OnlyTickUnmasked, PIC!TypeOK, PITTick, TimerExpires, KeyPress, KeyReady,
    picVars, PIC!Raise, PIC!ChipOf, PIC!BitOf, PIC!Bits
<1>3. requested' \subseteq Handled
  BY DEF BootInv, OnlyHandledRequested, PITTick, TimerExpires, KeyPress, KeyReady, apicVars,
    APIC!TimerExpires, APIC!Edge, APIC!Request, Handled
<1>4. OnlyTickUnmasked' /\ OnlyHandledRequested' /\ HandlersFit'
  BY <1>1, <1>2, <1>3 DEF BootInv, OnlyTickUnmasked, OnlyHandledRequested, HandlersFit, PIC!TypeOK
<1>5. FrameOK'
  BY <1>1 DEF BootInv, FrameOK, OneBlocked, TakenInService
<1> QED BY <1>4, <1>5 DEF BootInv

LEMMA BootNext ==
  ASSUME BootInv, [Next]_vars
  PROVE  BootInv'
<1>1. CASE UNCHANGED vars
  BY <1>1 DEF vars, picVars, apicVars, cpuVars, BootInv, OnlyTickUnmasked, OnlyHandledRequested,
    HandlersFit, FrameOK, OneBlocked, TakenInService, PIC!TypeOK
<1> QED BY <1>1, MainKeeps, TakePICKeeps, TakeAPICKeeps, HandlerKeeps, DeviceKeeps DEF Next

\* Between handlers the two controllers are never both blocked, although each of the
\* two handlers of vector 32 ends the interrupts of one controller only (pit.c:9,
\* apic.c:171).
THEOREM OneControllerRuns == Spec => []NeverBothBlocked
<1>1. BootInv => NeverBothBlocked
  BY DEF BootInv, FrameOK, OneBlocked, NeverBothBlocked
<1> QED BY <1>1, BootInit, BootNext, PTL DEF Spec

------------------------------------------------------------------------------
\* The types.  The keys are counted: the 8042 holds a key only if one was pressed that
\* is not read yet, so the handler never reads more than were pressed.
CountsFit ==
  /\ pc \in DOMAIN Steps
  /\ interruptFlag \in BOOLEAN /\ asleep \in BOOLEAN /\ crashed \in BOOLEAN
  /\ enabled \in BOOLEAN /\ counting \in BOOLEAN
  /\ frequency \in Frequencies /\ ticks \in 0 .. TicksToSleep
  /\ typed \in 0 .. MaxKeys /\ read \in 0 .. typed /\ outputFull \in BOOLEAN
  /\ outputFull => read < typed

LEMMA SleepIsNat == frequency \in Frequencies => TicksToSleep \in Nat
<1> SUFFICES ASSUME frequency \in Frequencies PROVE TicksToSleep \in Nat
  OBVIOUS
<1>1. frequency \div 1000 \in Nat /\ Milliseconds \in Nat
  BY BootAssumption
<1>2. \A a, b \in Nat : a * b \in Nat
  OBVIOUS
<1> QED BY <1>1, <1>2 DEF TicksToSleep

LEMMA CountsInit == Init => CountsFit
<1> SUFFICES ASSUME Init PROVE CountsFit
  OBVIOUS
<1>1. pc \in DOMAIN Steps
  BY DEF Init, Steps
<1>2. /\ ticks \in 0 .. TicksToSleep
      /\ typed \in 0 .. MaxKeys /\ read \in 0 .. typed
  <2>1. ticks = 0 /\ typed = 0 /\ read = 0 /\ TicksToSleep \in Nat
    BY SleepIsNat DEF Init
  <2> QED BY <2>1, BootAssumption
<1>3. /\ interruptFlag \in BOOLEAN /\ asleep \in BOOLEAN /\ crashed \in BOOLEAN
      /\ enabled \in BOOLEAN /\ counting \in BOOLEAN /\ frequency \in Frequencies
      /\ ~outputFull /\ outputFull \in BOOLEAN
  BY DEF Init, APIC!Init
<1> QED BY <1>1, <1>2, <1>3 DEF CountsFit

\* The main program goes on to the next step but from the last, where it idles.
LEMMA CountsMain == ASSUME CountsFit, MainStep PROVE CountsFit'
<1>1. UNCHANGED <<frequency, crashed, typed, read, outputFull>>
  BY DEF MainStep, remapPIC, initIdt, disablePIC, enableAPIC, registerPIT, unmaskPIT,
    startCount, PIT_sleep, maskTimer, armTimer, startTimer, registerTimer, unmaskKeyboard,
    registerKeyboard, hlt, registerInterruptHandler, writeAPICRegister, Step, keyVars
<1>2. DOMAIN Steps = 1 .. 15 /\ Steps[15] = "idle"
  BY DEF Steps
<1>3. \A step : At(step) /\ step # "idle" => pc + 1 \in DOMAIN Steps
  BY <1>2 DEF At
<1>4. pc' = pc \/ pc' \in DOMAIN Steps
  BY <1>3 DEF MainStep, remapPIC, initIdt, disablePIC, enableAPIC, registerPIT, unmaskPIT,
    startCount, PIT_sleep, maskTimer, armTimer, startTimer, registerTimer, unmaskKeyboard,
    registerKeyboard, hlt, registerInterruptHandler, writeAPICRegister, Step, Advance
<1>5. interruptFlag' \in BOOLEAN /\ asleep' \in BOOLEAN
  BY DEF CountsFit, MainStep, remapPIC, initIdt, disablePIC, enableAPIC, registerPIT, unmaskPIT,
    startCount, PIT_sleep, maskTimer, armTimer, startTimer, registerTimer, unmaskKeyboard,
    registerKeyboard, hlt, registerInterruptHandler, writeAPICRegister
<1>6. enabled' \in BOOLEAN /\ counting' \in BOOLEAN
  BY DEF CountsFit, MainStep, remapPIC, initIdt, disablePIC, enableAPIC, registerPIT, unmaskPIT,
    startCount, PIT_sleep, maskTimer, armTimer, startTimer, registerTimer, unmaskKeyboard,
    registerKeyboard, hlt, registerInterruptHandler, writeAPICRegister, apicVars,
    APIC!SetSpuriousVector, APIC!SetInitialCount, APIC!SetTimerEntry, APIC!SetRedirection
<1>7. ticks' = ticks \/ (ticks < TicksToSleep /\ ticks' = ticks + 1)
  BY DEF MainStep, remapPIC, initIdt, disablePIC, enableAPIC, registerPIT, unmaskPIT,
    startCount, PIT_sleep, maskTimer, armTimer, startTimer, registerTimer, unmaskKeyboard,
    registerKeyboard, hlt, registerInterruptHandler, writeAPICRegister
<1>8. TicksToSleep' = TicksToSleep /\ ticks' \in 0 .. TicksToSleep
  BY <1>1, <1>7, SleepIsNat DEF CountsFit, TicksToSleep
<1> QED BY <1>1, <1>4, <1>5, <1>6, <1>8 DEF CountsFit

LEMMA CountsNext == BootInv /\ CountsFit /\ [Next]_vars => CountsFit'
<1> SUFFICES ASSUME CountsFit, [Next]_vars PROVE CountsFit'
  OBVIOUS
<1>1. CASE TakePIC \/ TakeAPIC
  <2>1. /\ interruptFlag' = FALSE /\ asleep' = FALSE
        /\ UNCHANGED <<pc, frequency, ticks, crashed, typed, read, outputFull, enabled, counting>>
    BY <1>1 DEF TakePIC, TakeAPIC, Enter, APIC!Acknowledge, apicVars, keyVars
  <2> QED BY <2>1 DEF CountsFit, TicksToSleep
<1>2. CASE irqHandler \/ iretq
  <2>1. /\ interruptFlag' = interruptFlag \/ interruptFlag' = TRUE
        /\ crashed' = crashed \/ crashed' = TRUE
        /\ UNCHANGED <<pc, asleep, frequency, ticks, typed, read, outputFull, enabled, counting>>
    BY <1>2 DEF irqHandler, iretq, apicVars, keyVars
  <2> QED BY <2>1 DEF CountsFit, TicksToSleep
<1>3. CASE PIT_callback \/ APIC_timer_callback
  BY <1>3 DEF PIT_callback, APIC_timer_callback, Runs, APIC!EndOfInterrupt, apicVars, keyVars,
    CountsFit, TicksToSleep
<1>4. CASE keyboardHandler
  <2>1. read' \in 0 .. typed /\ outputFull' = FALSE /\ typed' = typed
    BY <1>4, BootAssumption DEF keyboardHandler, CountsFit
  <2> QED BY <1>4, <2>1 DEF keyboardHandler, Runs, APIC!EndOfInterrupt, CountsFit, TicksToSleep
<1>5. CASE PITTick \/ TimerExpires
  BY <1>5 DEF PITTick, TimerExpires, APIC!TimerExpires, apicVars, cpuVars, keyVars,
    CountsFit, TicksToSleep
<1>6. CASE KeyPress
  <2>1. typed' \in 0 .. MaxKeys /\ read' \in 0 .. typed' /\ (outputFull' => read' < typed')
    BY <1>6, BootAssumption DEF KeyPress, CountsFit
  <2> QED BY <1>6, <2>1 DEF KeyPress, apicVars, cpuVars, CountsFit, TicksToSleep
<1>7. CASE KeyReady
  BY <1>7 DEF KeyReady, APIC!Edge, cpuVars, CountsFit, TicksToSleep
<1>8. CASE UNCHANGED vars
  BY <1>8 DEF vars, apicVars, cpuVars, keyVars, CountsFit, TicksToSleep
<1> QED BY <1>1, <1>2, <1>3, <1>4, <1>5, <1>6, <1>7, <1>8, CountsMain DEF Next, HandlerStep

\* Both controllers hold only interrupts of the vectors and lines they have, the main
\* program is at one of its steps, the sleep ends when it should, and no more keys are
\* read than were pressed (kernel.c:104, ioapic.c:52).
THEOREM BootTypes == Spec => []TypeOK
<1>1. BootInv /\ CountsFit => TypeOK
  <2> SUFFICES ASSUME BootInv, CountsFit PROVE TypeOK
    OBVIOUS
  <2>1. inService \subseteq Handled
    BY DEF BootInv, FrameOK, OneBlocked, TakenInService, NoFrame, Sources, Handled
  <2>2. Handled \subseteq APIC!Vectors /\ {TimerVector, KeyboardVector} \subseteq APIC!Vectors
    BY DEF Handled, TimerVector, KeyboardVector, APIC!Vectors
  <2>3. APIC!TypeOK
    BY <2>1, <2>2 DEF BootInv, OnlyHandledRequested, CountsFit, APIC!TypeOK
  <2>4. typed \in 0 .. MaxKeys /\ read \in 0 .. MaxKeys
    BY BootAssumption DEF CountsFit
  <2> QED BY <2>3, <2>4 DEF BootInv, OnlyTickUnmasked, HandlersFit, FrameOK, CountsFit, TypeOK
<1> QED BY <1>1, BootInit, BootNext, CountsInit, CountsNext, PTL DEF Spec
==============================================================================
