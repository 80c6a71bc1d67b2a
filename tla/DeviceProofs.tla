----------------------------- MODULE DeviceProofs ----------------------------
(***************************************************************************)
(* Proofs about the drivers of the PCI bus, the keyboard, the first serial *)
(* port, the 8042 and the two 8259, for every size of their buses and      *)
(* queues, every set of interrupt lines and every number of calls.  Each   *)
(* part has the device's inductive invariant first: what the scan has      *)
(* behind it, which keys are down by the codes read so far, the registers  *)
(* by the writes made so far, the line of initKeyboard reached so far, and *)
(* what is in service in either 8259.  At the end, the types of all five   *)
(* drivers side by side.                                                   *)
(***************************************************************************)
EXTENDS MCDevices, SequenceTheorems, TLAPS

------------------------------------------------------------------------------
\* The PCI bus.

AllFunctions == (0 .. Buses - 1) \X (0 .. DevicesPerBus - 1) \X (0 .. Functions - 1)

\* Where the scan has been.
Behind(f) ==
  \/ pciStage \notin {"power on", "scan"}
  \/ f[1] < bus
  \/ f[1] = bus /\ f[2] < device

\* A function above 0 has a function 0 that says the device has several.
PciInv ==
  /\ pciStage \in {"power on", "scan", "scanned", "routed"}
  /\ pciStage = "power on" => DOMAIN config = {} /\ bus = 0 /\ device = 0
  /\ pciStage = "scan" => bus \in 0 .. Buses - 1 /\ device \in 0 .. DevicesPerBus - 1
  /\ \A f \in DOMAIN config :
       /\ f \in AllFunctions
       /\ f[3] # 0 => /\ <<f[1], f[2], 0>> \in DOMAIN config
                      /\ config[<<f[1], f[2], 0>>].header_type = 128
       /\ Behind(f) => f \in probed
  /\ probed \subseteq AllFunctions

\* A machine is made of functions, and one above 0 has a function 0 that says so.
LEMMA AfterPowerOn == PciInv /\ PowerOn => PciInv'
<1>. SUFFICES ASSUME PciInv, PowerOn PROVE PciInv'
  OBVIOUS
<1>1. PICK made \in [DeviceNumbers -> FunctionSets], grant \in MinGrants :
        config' = [f \in UNION {{Function(d, n) : n \in made[d].numbers} : d \in DeviceNumbers} |->
                     [header_type |-> made[<<f[1], f[2]>>].type, min_grant |-> grant]]
  BY DEF PowerOn
<1>2. \A d \in DeviceNumbers :
        /\ made[d].numbers \subseteq 0 .. Functions - 1
        /\ \A n \in made[d].numbers : n # 0 => 0 \in made[d].numbers /\ made[d].type = 128
  <2>. SUFFICES ASSUME NEW d \in DeviceNumbers
       PROVE  /\ made[d].numbers \subseteq 0 .. Functions - 1
              /\ \A n \in made[d].numbers : n # 0 => 0 \in made[d].numbers /\ made[d].type = 128
    OBVIOUS
  <2>1. made[d] \in FunctionSets /\ 0 \in 0 .. Functions - 1
    BY PciAssumption
  <2>2. CASE made[d].numbers \subseteq {0}
    BY <2>1, <2>2
  <2>3. CASE made[d] \in [type : {128}, numbers : {{0} \cup more : more \in SUBSET (1 .. Functions - 1)}]
    <3>1. made[d].type = 128 /\ \E more \in SUBSET (1 .. Functions - 1) : made[d].numbers = {0} \cup more
      BY <2>3
    <3>. QED
      BY <2>1, <3>1
  <2>4. \/ made[d].numbers \subseteq {0}
        \/ made[d] \in [type : {128}, numbers : {{0} \cup more : more \in SUBSET (1 .. Functions - 1)}]
    BY <2>1 DEF FunctionSets
  <2>. QED
    BY <2>2, <2>3, <2>4
<1>3. DOMAIN config' = UNION {{Function(d, n) : n \in made[d].numbers} : d \in DeviceNumbers}
  BY <1>1
<1>4. ASSUME NEW f \in DOMAIN config'
      PROVE  /\ f \in AllFunctions
             /\ f[3] # 0 => /\ <<f[1], f[2], 0>> \in DOMAIN config'
                            /\ config'[<<f[1], f[2], 0>>].header_type = 128
  <2>0. PICK d \in DeviceNumbers : f \in {Function(d, n) : n \in made[d].numbers}
    BY <1>3
  <2>1. PICK n \in made[d].numbers : f = Function(d, n)
    BY <2>0
  <2>2. /\ d \in (0 .. Buses - 1) \X (0 .. DevicesPerBus - 1) /\ d = <<d[1], d[2]>>
        /\ f = <<d[1], d[2], n>> /\ n \in 0 .. Functions - 1
    BY <1>2, <2>1 DEF DeviceNumbers, Function
  <2>3. f \in AllFunctions
    BY <2>2 DEF AllFunctions
  <2>4. ASSUME f[3] # 0
        PROVE  /\ <<f[1], f[2], 0>> \in DOMAIN config'
               /\ config'[<<f[1], f[2], 0>>].header_type = 128
    <3>1. 0 \in made[d].numbers /\ made[d].type = 128
      BY <1>2, <2>1, <2>2, <2>4
    <3>2. <<f[1], f[2], 0>> = Function(d, 0)
      BY <2>2 DEF Function
    <3>3. <<f[1], f[2], 0>> \in DOMAIN config'
      BY <1>3, <2>1, <3>1, <3>2
    <3>4. config'[<<f[1], f[2], 0>>].header_type = made[<<f[1], f[2]>>].type
      BY <1>1, <1>3, <3>3
    <3>. QED
      BY <2>2, <3>1, <3>3, <3>4
  <2>. QED
    BY <2>3, <2>4
<1>5. /\ pciStage' = "scan" /\ bus' = 0 /\ device' = 0
      /\ UNCHANGED probed
  BY DEF PciInv, AllFunctions, Behind, PowerOn
<1>6. \A f \in AllFunctions : f[1] \in Nat /\ f[2] \in Nat
  <2>1. 0 .. Buses - 1 \subseteq Nat /\ 0 .. DevicesPerBus - 1 \subseteq Nat
    OBVIOUS
  <2>. QED
    BY <2>1 DEF AllFunctions
<1>7. 0 \in 0 .. Buses - 1 /\ 0 \in 0 .. DevicesPerBus - 1
  BY PciAssumption
<1>8. probed \subseteq AllFunctions
  BY DEF PciInv, AllFunctions, Behind
<1>9. \A f \in DOMAIN config' : ~Behind(f)'
  <2>. SUFFICES ASSUME NEW f \in DOMAIN config' PROVE ~Behind(f)'
    OBVIOUS
  <2>1. f[1] \in Nat /\ f[2] \in Nat
    BY <1>4, <1>6
  <2>. QED
    BY <1>5, <2>1 DEF Behind
<1>. QED
  BY <1>4, <1>5, <1>7, <1>8, <1>9 DEF PciInv, AllFunctions, Behind

LEMMA AfterCheckDevice == PciInv /\ checkDevice => PciInv'
<1>. SUFFICES ASSUME PciInv, checkDevice PROVE PciInv'
  OBVIOUS
<1>. DEFINE d == <<bus, device>>
<1>1. /\ pciStage = "scan" /\ bus \in 0 .. Buses - 1 /\ device \in 0 .. DevicesPerBus - 1
      /\ UNCHANGED config
      /\ probed' = probed \cup Reads(d)
      /\ probed \subseteq AllFunctions
  BY DEF PciInv, AllFunctions, Behind, checkDevice
<1>2. Reads(d) \subseteq AllFunctions
  <2>1. \A n \in 0 .. Functions - 1 : Function(d, n) \in AllFunctions
    BY <1>1 DEF Function, AllFunctions
  <2>2. 0 \in 0 .. Functions - 1 /\ (1 .. Functions - 1) \subseteq 0 .. Functions - 1
    BY PciAssumption
  <2>3. Reads(d) \subseteq {Function(d, n) : n \in 0 .. Functions - 1}
    BY <2>2 DEF Reads
  <2>. QED
    BY <2>1, <2>3
<1>3. ASSUME NEW f \in DOMAIN config, f[1] = bus, f[2] = device PROVE f \in Reads(d)
  <2>1. /\ f \in AllFunctions
        /\ f[3] # 0 => /\ <<f[1], f[2], 0>> \in DOMAIN config
                       /\ config[<<f[1], f[2], 0>>].header_type = 128
    BY DEF PciInv, AllFunctions, Behind
  <2>2. f = Function(d, f[3]) /\ f[3] \in 0 .. Functions - 1
    BY <1>3, <2>1 DEF AllFunctions, Function
  <2>3. CASE f[3] = 0
    BY <2>2, <2>3 DEF Reads
  <2>4. CASE f[3] # 0
    <3>1. getHeaderType(Function(d, 0)) = 128
      BY <1>3, <2>1, <2>4 DEF getHeaderType, pciConfigReadWord, Function
    <3>2. checkFunction(Function(d, 0)) /\ (getHeaderType(Function(d, 0)) \div 128) % 2 = 1
      BY <3>1 DEF checkFunction
    <3>3. f[3] \in 1 .. Functions - 1
      BY <2>2, <2>4, PciAssumption
    <3>. QED
      BY <2>2, <3>2, <3>3 DEF Reads
  <2>. QED
    BY <2>3, <2>4
<1>4. /\ pciStage' \in {"scan", "scanned"}
      /\ pciStage' = "scan" => bus' \in 0 .. Buses - 1 /\ device' \in 0 .. DevicesPerBus - 1
  BY <1>1, PciAssumption DEF checkDevice
<1>5. ASSUME NEW f \in DOMAIN config, Behind(f)' PROVE f \in probed'
  <2>1. f \in AllFunctions /\ f[1] \in 0 .. Buses - 1 /\ f[2] \in 0 .. DevicesPerBus - 1
    BY DEF PciInv, AllFunctions, Behind
  <2>2. \/ f[1] < bus
        \/ f[1] = bus /\ f[2] < device
        \/ f[1] = bus /\ f[2] = device
    <3>1. CASE device < DevicesPerBus - 1
      BY <1>1, <1>5, <2>1, <3>1 DEF checkDevice, Behind
    <3>2. CASE ~(device < DevicesPerBus - 1)
      <4>1. bus' = bus + 1 /\ device' = 0 /\ device = DevicesPerBus - 1
            /\ pciStage' = IF bus' = Buses THEN "scanned" ELSE "scan"
        BY <1>1, <3>2, PciAssumption DEF checkDevice
      <4>2. f[1] <= bus
        BY <1>1, <1>5, <2>1, <4>1 DEF Behind
      <4>. QED
        BY <1>1, <2>1, <4>1, <4>2
    <3>. QED
      BY <3>1, <3>2
  <2>3. f[1] < bus \/ (f[1] = bus /\ f[2] < device) => f \in probed
    BY DEF PciInv, AllFunctions, Behind
  <2>. QED
    BY <1>1, <1>3, <2>2, <2>3
<1>6. \A f \in DOMAIN config :
        /\ f \in AllFunctions
        /\ f[3] # 0 => /\ <<f[1], f[2], 0>> \in DOMAIN config
                       /\ config[<<f[1], f[2], 0>>].header_type = 128
  BY DEF PciInv, AllFunctions, Behind
<1>. QED
  BY <1>1, <1>2, <1>4, <1>5, <1>6 DEF PciInv, AllFunctions, Behind

LEMMA PciInvariant == PciSpec => []PciInv
<1>1. PciInit => PciInv
  <2>1. << >> \in Seq(Int) /\ Len(<< >>) = 0
    BY EmptySeq
  <2>2. DOMAIN << >> = 1 .. 0
    BY <2>1, LenProperties
  <2>3. 1 .. 0 = {}
    OBVIOUS
  <2>4. PciInit => DOMAIN config = {}
    BY <2>2, <2>3, Zenon DEF PciInit
  <2>. QED
    BY <2>4, PciAssumption DEF PciInit, PciInv, AllFunctions, Behind
<1>2. PciInv /\ [PciNext]_pciVars => PciInv'
  <2>. SUFFICES ASSUME PciInv, [PciNext]_pciVars PROVE PciInv'
    OBVIOUS
  <2>1. ASSUME NEW f, enablePCIInterrupts(f) PROVE PciInv'
    BY <2>1 DEF PciInv, AllFunctions, Behind, enablePCIInterrupts
  <2>3. CASE registerInterruptHandler
    BY <2>3 DEF PciInv, AllFunctions, Behind, registerInterruptHandler
  <2>2. CASE UNCHANGED pciVars
    BY <2>2 DEF PciInv, AllFunctions, Behind, pciVars
  <2>. QED
    BY <2>1, <2>2, <2>3, AfterPowerOn, AfterCheckDevice DEF PciNext
<1>. QED
  BY <1>1, <1>2, PTL DEF PciSpec

\* However many buses, devices and functions there are, and whatever a device is made
\* of, the scan has read every function that exists when it ends, and none outside the
\* address space (pci.c:66).
THEOREM EveryFunctionRead == PciSpec => []ScanReadsAll
<1>1. PciInv => ScanReadsAll
  BY DEF PciInv, AllFunctions, Behind, ScanReadsAll
<1>. QED
  BY <1>1, PciInvariant, PTL

\* The minimum grants the firmware left, and what the kernel made of them, are bytes.
PciTypes ==
  /\ PciTypeOK
  /\ \A f \in DOMAIN config : config[f].min_grant \in 0 .. 255

LEMMA PciTypesStart == PciInit => PciTypes
<1>. SUFFICES ASSUME PciInit PROVE PciTypes
  OBVIOUS
<1>1. DOMAIN << >> = {}
  <2>1. << >> \in Seq(Int) /\ Len(<< >>) = 0
    BY EmptySeq
  <2>2. DOMAIN << >> = 1 .. 0 /\ 1 .. 0 = {}
    BY <2>1, LenProperties
  <2>. QED
    BY <2>2
<1>2. DOMAIN config = {}
  BY <1>1, Zenon DEF PciInit
<1>. QED
  <2>1. interrupt_line = 0 /\ handlers = {} /\ ioapic = {}
    BY DEF PciInit
  <2>2. PciTypeOK
    BY <2>1 DEF PciTypeOK
  <2>. HIDE DEF PciInit
  <2>3. \A f \in DOMAIN config : config[f].min_grant \in 0 .. 255
    BY <1>2, Zenon
  <2>. QED
    BY <2>2, <2>3, Zenon DEF PciTypes

LEMMA PciTypesKept == PciTypes /\ [PciNext]_pciVars => PciTypes'
<1>. SUFFICES ASSUME PciTypes, [PciNext]_pciVars PROVE PciTypes'
  OBVIOUS
<1>1. CASE PowerOn
  <2>1. \A f \in DOMAIN config' : config'[f].min_grant \in MinGrants
    <3>1. PICK made \in [DeviceNumbers -> FunctionSets], grant \in MinGrants :
            config' = [f \in UNION {{Function(d, n) : n \in made[d].numbers} : d \in DeviceNumbers} |->
                        [header_type |-> made[<<f[1], f[2]>>].type, min_grant |-> grant]]
      BY <1>1, Zenon DEF PowerOn
    <3>. DEFINE All == UNION {{Function(d, n) : n \in made[d].numbers} : d \in DeviceNumbers}
    <3>. HIDE DEF All
    <3>2. config' = [f \in All |-> [header_type |-> made[<<f[1], f[2]>>].type, min_grant |-> grant]]
      BY <3>1, Zenon DEF All
    <3>. QED
      BY <3>2
  <2>2. UNCHANGED <<interrupt_line, handlers, ioapic>>
    BY <1>1 DEF PowerOn
  <2>3. PciTypeOK'
    BY <2>2 DEF PciTypes, PciTypeOK
  <2>4. MinGrants \subseteq 0 .. 255
    BY PciAssumption
  <2>. QED
    BY <2>1, <2>3, <2>4, Zenon DEF PciTypes
<1>2. CASE checkDevice \/ UNCHANGED pciVars
  <2>1. UNCHANGED <<config, interrupt_line, handlers, ioapic>>
    BY <1>2 DEF checkDevice, pciVars
  <2>2. PciTypeOK'
    BY <2>1 DEF PciTypes, PciTypeOK
  <2>. QED
    BY <2>1, <2>2, Zenon DEF PciTypes
<1>3. ASSUME NEW f \in DOMAIN config, enablePCIInterrupts(f) PROVE PciTypes'
  <2>. DEFINE register == (interrupt_line' * 2 + 16) % 256
  <2>1. interrupt_line' = config[f].min_grant % 256 /\ UNCHANGED <<config, handlers>>
    BY <1>3 DEF enablePCIInterrupts, pciConfigReadWord
  <2>2. interrupt_line' \in 0 .. 255
    BY <2>1 DEF PciTypes
  <2>3. register \in 0 .. 255 /\ 32 + interrupt_line' \in 32 .. 287
    <3>1. \A l \in 0 .. 255 : (l * 2 + 16) % 256 \in 0 .. 255 /\ 32 + l \in 32 .. 287
      OBVIOUS
    <3>. QED
      BY <2>2, <3>1, Zenon
  <2>4. ioapic' = {write \in ioapic : write[1] # register} \cup {<<register, 32 + interrupt_line'>>}
    BY <1>3 DEF enablePCIInterrupts, writeIOAPIC
  <2>. HIDE DEF register
  <2>5. \A write \in ioapic' : write[1] \in 0 .. 255 /\ write[2] \in 32 .. 287
    BY <2>3, <2>4 DEF PciTypes, PciTypeOK
  <2>. QED
    BY <2>1, <2>2, <2>5 DEF PciTypes, PciTypeOK
<1>4. CASE registerInterruptHandler
  <2>1. (32 + interrupt_line) % 256 \in 0 .. 255
    BY DEF PciTypes, PciTypeOK
  <2>. QED
    BY <1>4, <2>1 DEF registerInterruptHandler, PciTypes, PciTypeOK
<1>. QED
  BY <1>1, <1>2, <1>3, <1>4 DEF PciNext

------------------------------------------------------------------------------
\* The keyboard.

ModifierSets == SUBSET {"shift", "caps", "ctrl"}
Codes == [key : Keys, press : BOOLEAN, form : [capital : BOOLEAN, control : BOOLEAN]]

\* The modifiers that are on in m are those of s, c and t that are true.
AreOn(m, s, c, t) == ("shift" \in m <=> s) /\ ("caps" \in m <=> c) /\ ("ctrl" \in m <=> t)

\* A code makes the modifiers next of m, and a letter its form.
Leads(m, code, next) ==
  AreOn(next, IF code.key \in Shifts THEN code.press ELSE "shift" \in m,
              IF code.key = "caps lock" /\ code.press THEN "caps" \notin m ELSE "caps" \in m,
              IF code.key = "ctrl" THEN code.press ELSE "ctrl" \in m)
FormOf(m, code) ==
  \A s, c, t \in BOOLEAN : AreOn(m, s, c, t) => code.form = Form(s # c, t)

\* m leads, one code after the other, from the handler's variables to the keys that
\* are held now, and each letter has the form that the modifiers before it make.
Explains(m) ==
  /\ AreOn(m[1], shift, caps_lock, ctrl)
  /\ AreOn(m[Len(codes) + 1], held \cap Shifts # {}, capsOn, "ctrl" \in held)
  /\ \A k \in 1 .. Len(codes) : Leads(m[k], codes[k], m[k + 1]) /\ FormOf(m[k], codes[k])

KeyboardInv ==
  /\ codes \in Seq(Codes) /\ Len(codes) <= MaxCodes
  /\ shift \in BOOLEAN /\ caps_lock \in BOOLEAN /\ ctrl \in BOOLEAN /\ capsOn \in BOOLEAN
  /\ ~uncertain =>
       /\ ~(Shifts \subseteq held)
       /\ \E m \in [1 .. Len(codes) + 1 -> ModifierSets] : Explains(m)
       /\ shown # << >> => shown[1] = shown[2]

LEMMA KeyboardStarts == KeyboardInit => KeyboardInv
<1>. SUFFICES ASSUME KeyboardInit PROVE KeyboardInv
  OBVIOUS
<1>1. codes \in Seq(Codes) /\ Len(codes) = 0
  BY EmptySeq DEF KeyboardInit
<1>2. held \cap Shifts = {} /\ ~(Shifts \subseteq held) /\ "ctrl" \notin held
  BY DEF KeyboardInit, Shifts
<1>. DEFINE m == [k \in 1 .. 1 |-> {}]
<1>3. m \in [1 .. Len(codes) + 1 -> ModifierSets]
  BY <1>1 DEF ModifierSets
<1>4. Explains(m)
  <2>1. m[1] = {} /\ Len(codes) + 1 = 1 /\ 1 .. Len(codes) = {}
    BY <1>1
  <2>2. ~shift /\ ~caps_lock /\ ~ctrl /\ ~capsOn
    BY DEF KeyboardInit
  <2>. QED
    BY <1>2, <2>1, <2>2 DEF Explains, AreOn
<1>5. \E n \in [1 .. Len(codes) + 1 -> ModifierSets] : Explains(n)
  BY <1>3, <1>4
<1>6. /\ shift \in BOOLEAN /\ caps_lock \in BOOLEAN /\ ctrl \in BOOLEAN /\ capsOn \in BOOLEAN
      /\ shown = << >> /\ MaxCodes \in Nat
  BY KeyboardAssumption DEF KeyboardInit
<1>. QED
  BY <1>1, <1>2, <1>5, <1>6 DEF KeyboardInv

\* A key goes down or up: the modifiers that are held now explain its code.
LEMMA AfterKey == ASSUME NEW key \in Keys PROVE KeyboardInv /\ Key(key) => KeyboardInv'
<1>. SUFFICES ASSUME KeyboardInv, Key(key) PROVE KeyboardInv'
  OBVIOUS
<1>. DEFINE form == Form((held \cap Shifts # {}) # capsOn, "ctrl" \in held)
            code == [key |-> key, press |-> key \notin held, form |-> form]
<1>1. codes' = IF Len(codes) < MaxCodes THEN Append(codes, code) ELSE codes
  BY DEF Key
<1>2. /\ code \in Codes
      /\ code.key = key /\ code.press = (key \notin held) /\ code.form = form
  <2>1. \A k \in Keys : \A p, c, t \in BOOLEAN : [key |-> k, press |-> p, form |-> Form(c, t)] \in Codes
    BY DEF Codes, Form
  <2>2. /\ (key \notin held) \in BOOLEAN /\ ("ctrl" \in held) \in BOOLEAN
        /\ ((held \cap Shifts # {}) # capsOn) \in BOOLEAN
    OBVIOUS
  <2>3. code \in Codes
    BY <2>1, <2>2, Zenon
  <2>. QED
    BY <2>3, Zenon
<1>. HIDE DEF code
<1>3. codes' \in Seq(Codes) /\ Len(codes') <= MaxCodes /\ capsOn' \in BOOLEAN
  <2>1. capsOn' \in BOOLEAN
    BY DEF Key, KeyboardInv
  <2>2. codes \in Seq(Codes) /\ Len(codes) <= MaxCodes /\ Len(codes) \in Nat /\ MaxCodes \in Nat
    BY KeyboardAssumption DEF KeyboardInv
  <2>. QED
    BY <1>1, <1>2, <2>1, <2>2
<1>4. ASSUME ~uncertain'
      PROVE  /\ ~uncertain /\ ~(Shifts \subseteq held')
             /\ codes' = Append(codes, code) /\ Len(codes') = Len(codes) + 1
             /\ codes'[Len(codes) + 1] = code
             /\ \A k \in 1 .. Len(codes) : codes'[k] = codes[k]
  <2>1. ~uncertain /\ Len(codes) # MaxCodes /\ ~(Shifts \subseteq held')
    BY <1>4 DEF Key
  <2>2. codes \in Seq(Codes) /\ Len(codes) <= MaxCodes /\ Len(codes) \in Nat /\ MaxCodes \in Nat
    BY KeyboardAssumption DEF KeyboardInv
  <2>3. codes' = Append(codes, code)
    BY <1>1, <2>1, <2>2
  <2>. QED
    BY <1>2, <2>1, <2>2, <2>3
<1>5. ASSUME ~uncertain' PROVE \E m \in [1 .. Len(codes') + 1 -> ModifierSets] : Explains(m)'
  <2>1. PICK m \in [1 .. Len(codes) + 1 -> ModifierSets] : Explains(m)
    BY <1>4, <1>5 DEF KeyboardInv
  <2>. DEFINE n == Len(codes) + 1
              now == {x \in {"shift", "caps", "ctrl"} :
                        \/ x = "shift" /\ held' \cap Shifts # {}
                        \/ x = "caps" /\ capsOn'
                        \/ x = "ctrl" /\ "ctrl" \in held'}
              more == [k \in 1 .. n + 1 |-> IF k = n + 1 THEN now ELSE m[k]]
  <2>2. AreOn(now, held' \cap Shifts # {}, capsOn', "ctrl" \in held')
    BY DEF AreOn
  <2>3. AreOn(m[n], held \cap Shifts # {}, capsOn, "ctrl" \in held)
    BY <2>1 DEF Explains
  <2>4. Leads(m[n], code, now)
    <3>1. held' = IF key \in held THEN held \ {key} ELSE held \cup {key}
      BY DEF Key
    <3>2. key \in Shifts => (held' \cap Shifts # {} <=> key \notin held)
      BY <1>4, <1>5, <3>1 DEF KeyboardInv, Shifts
    <3>3. key \notin Shifts => held' \cap Shifts = held \cap Shifts
      BY <3>1
    <3>4. "ctrl" \in held' <=> IF key = "ctrl" THEN key \notin held ELSE "ctrl" \in held
      BY <3>1
    <3>5. capsOn' <=> IF key = "caps lock" /\ key \notin held THEN ~capsOn ELSE capsOn
      BY DEF Key
    <3>. HIDE DEF now
    <3>6. code.press <=> key \notin held
      BY <1>2, Zenon
    <3>. QED
      BY <1>2, <2>2, <2>3, <3>2, <3>3, <3>4, <3>5, <3>6 DEF Leads, AreOn
  <2>5. FormOf(m[n], code)
    <3>. SUFFICES ASSUME NEW s \in BOOLEAN, NEW c \in BOOLEAN, NEW t \in BOOLEAN, AreOn(m[n], s, c, t)
         PROVE  code.form = Form(s # c, t)
      BY DEF FormOf
    <3>1. (s <=> held \cap Shifts # {}) /\ (t <=> "ctrl" \in held) /\ (c <=> capsOn)
      BY <2>3 DEF AreOn
    <3>2. capsOn \in BOOLEAN
      BY DEF KeyboardInv
    <3>3. s = (held \cap Shifts # {}) /\ t = ("ctrl" \in held) /\ c = capsOn
      BY <3>1, <3>2
    <3>. QED
      BY <1>2, <3>3, Zenon
  <2>. HIDE DEF now
  <2>6. more \in [1 .. n + 1 -> ModifierSets]
    <3>1. now \in ModifierSets
      BY DEF now, ModifierSets
    <3>2. Len(codes) \in Nat
      BY DEF KeyboardInv
    <3>. QED
      BY <3>1, <3>2
  <2>7. /\ more[n + 1] = now /\ \A k \in 1 .. n : more[k] = m[k]
        /\ n \in Nat /\ 1 \in 1 .. n /\ Len(codes') = n /\ codes'[n] = code
        /\ \A k \in 1 .. Len(codes) : codes'[k] = codes[k]
    BY <1>4, <1>5 DEF KeyboardInv
  <2>. HIDE DEF more
  <2>8. ASSUME NEW h, h = more PROVE Explains(h)'
    <3>1. AreOn(h[1], shift', caps_lock', ctrl')
      BY <2>1, <2>7, <2>8 DEF Explains, Key
    <3>2. AreOn(h[Len(codes') + 1], held' \cap Shifts # {}, capsOn', "ctrl" \in held')
      BY <2>2, <2>7, <2>8
    <3>3. ASSUME NEW k \in 1 .. Len(codes')
          PROVE  Leads(h[k], codes'[k], h[k + 1]) /\ FormOf(h[k], codes'[k])
      <4>1. CASE k = n
        BY <2>4, <2>5, <2>7, <2>8, <4>1
      <4>2. CASE k # n
        <5>1. k \in 1 .. Len(codes) /\ k \in 1 .. n /\ k + 1 \in 1 .. n
          BY <2>7, <3>3, <4>2
        <5>. QED
          BY <2>1, <2>7, <2>8, <5>1 DEF Explains
      <4>. QED
        BY <4>1, <4>2
    <3>. QED
      BY <3>1, <3>2, <3>3 DEF Explains
  <2>. QED
    BY <2>6, <2>7, <2>8
<1>. QED
  BY <1>3, <1>4, <1>5 DEF KeyboardInv, Key

\* The handler takes the first code: what is left is explained as before.
LEMMA AfterHandler == KeyboardInv /\ keyboardHandler => KeyboardInv'
<1>. SUFFICES ASSUME KeyboardInv, keyboardHandler PROVE KeyboardInv'
  OBVIOUS
<1>. DEFINE code == Head(codes)
            n == Len(codes)
<1>1. /\ codes \in Seq(Codes) /\ n \in Nat /\ 1 \in 1 .. n /\ code = codes[1]
      /\ code \in Codes /\ code.press \in BOOLEAN
      /\ codes' = Tail(codes) /\ codes' \in Seq(Codes) /\ Len(codes') = n - 1
      /\ \A k \in 1 .. n - 1 : codes'[k] = codes[k + 1]
  <2>1. codes \in Seq(Codes) /\ codes # << >> /\ codes' = Tail(codes)
    BY DEF keyboardHandler, KeyboardInv
  <2>2. /\ n \in Nat /\ 1 \in 1 .. n /\ code = codes[1] /\ code \in Codes
        /\ codes' \in Seq(Codes) /\ Len(codes') = n - 1
        /\ \A k \in 1 .. n - 1 : codes'[k] = codes[k + 1]
    BY <2>1
  <2>. QED
    BY <2>1, <2>2 DEF Codes
<1>. HIDE DEF code
<1>2. /\ shift' = IF code.key \in Shifts THEN code.press ELSE shift
      /\ caps_lock' = IF code.key = "caps lock" /\ code.press THEN ~caps_lock ELSE caps_lock
      /\ ctrl' = IF code.key = "ctrl" THEN code.press ELSE ctrl
      /\ shown' = IF code.key = "letter" /\ code.press
                  THEN <<Form(shift # caps_lock, ctrl), code.form>> ELSE shown
  BY DEF keyboardHandler, code
<1>3. shift' \in BOOLEAN /\ caps_lock' \in BOOLEAN /\ ctrl' \in BOOLEAN /\ capsOn' \in BOOLEAN
  BY <1>1, <1>2 DEF KeyboardInv, keyboardHandler
<1>4. ASSUME ~uncertain'
      PROVE  /\ ~(Shifts \subseteq held')
             /\ \E m \in [1 .. Len(codes') + 1 -> ModifierSets] : Explains(m)'
             /\ shown' # << >> => shown'[1] = shown'[2]
  <2>1. ~uncertain /\ ~(Shifts \subseteq held')
    BY <1>4 DEF keyboardHandler, KeyboardInv
  <2>2. PICK m \in [1 .. n + 1 -> ModifierSets] : Explains(m)
    BY <2>1 DEF KeyboardInv
  <2>3. AreOn(m[1], shift, caps_lock, ctrl) /\ Leads(m[1], code, m[2]) /\ FormOf(m[1], code)
    BY <1>1, <2>2 DEF Explains
  <2>4. PICK h : h = [k \in 1 .. n |-> m[k + 1]]
    OBVIOUS
  <2>5. h \in [1 .. Len(codes') + 1 -> ModifierSets] /\ \A k \in 1 .. n : h[k] = m[k + 1]
    BY <1>1, <2>4
  <2>6. Explains(h)'
    <3>1. AreOn(h[1], shift', caps_lock', ctrl')
      <4>1. h[1] = m[2]
        BY <1>1, <2>5
      <4>2. "shift" \in m[2] <=> shift'
        BY <1>2, <2>3 DEF AreOn, Leads
      <4>3. "caps" \in m[2] <=> caps_lock'
        BY <1>2, <2>3 DEF AreOn, Leads
      <4>4. "ctrl" \in m[2] <=> ctrl'
        BY <1>2, <2>3 DEF AreOn, Leads
      <4>. QED
        BY <4>1, <4>2, <4>3, <4>4 DEF AreOn
    <3>2. AreOn(h[Len(codes') + 1], held' \cap Shifts # {}, capsOn', "ctrl" \in held')
      <4>0. n \in 1 .. n /\ Len(codes') + 1 = n
        BY <1>1
      <4>1. h[Len(codes') + 1] = m[n + 1] /\ UNCHANGED <<held, capsOn>>
        BY <2>5, <4>0 DEF keyboardHandler
      <4>. QED
        BY <2>2, <4>1 DEF Explains
    <3>3. ASSUME NEW k \in 1 .. Len(codes')
          PROVE  Leads(h[k], codes'[k], h[k + 1]) /\ FormOf(h[k], codes'[k])
      <4>1. k + 1 \in 1 .. n /\ h[k] = m[k + 1] /\ h[k + 1] = m[(k + 1) + 1] /\ codes'[k] = codes[k + 1]
        BY <1>1, <2>5
      <4>. QED
        BY <2>2, <4>1 DEF Explains
    <3>. QED
      BY <3>1, <3>2, <3>3 DEF Explains
  <2>7. shown' # << >> => shown'[1] = shown'[2]
    <3>1. code.form = Form(shift # caps_lock, ctrl)
      BY <2>3 DEF FormOf, KeyboardInv
    <3>2. CASE code.key = "letter" /\ code.press
      BY <1>2, <3>1, <3>2
    <3>3. CASE ~(code.key = "letter" /\ code.press)
      BY <1>2, <2>1, <3>3 DEF KeyboardInv
    <3>. QED
      BY <3>2, <3>3
  <2>. QED
    BY <2>1, <2>5, <2>6, <2>7
<1>5. Len(codes') <= MaxCodes
  BY <1>1, KeyboardAssumption DEF KeyboardInv
<1>. QED
  BY <1>1, <1>3, <1>4, <1>5 DEF KeyboardInv

\* However late the handler runs and however many keys are pressed and released: as
\* long as no code was lost and the shifts were never both held, a letter is printed
\* as it was typed (ioapic.c:56).
THEOREM LettersAsTyped == KeyboardSpec => []PrintedAsTyped
<1>1. KeyboardInv /\ [KeyboardNext]_keyboardVars => KeyboardInv'
  <2>. SUFFICES ASSUME KeyboardInv, [KeyboardNext]_keyboardVars PROVE KeyboardInv'
    OBVIOUS
  <2>1. CASE UNCHANGED keyboardVars
    BY <2>1 DEF keyboardVars, KeyboardInv, Explains
  <2>. QED
    BY <2>1, AfterKey, AfterHandler DEF KeyboardNext
<1>2. KeyboardInv => PrintedAsTyped
  BY DEF KeyboardInv, PrintedAsTyped
<1>. QED
  BY <1>1, <1>2, KeyboardStarts, PTL DEF KeyboardSpec

------------------------------------------------------------------------------
\* The serial port.

Bytes == 0 .. 255

\* The registers, by the writes initSerial has made.
Registers ==
  /\ ier = 0
  /\ lcr = IF writes \in 2 .. 4 THEN 128 ELSE 3
  /\ divisor = IF writes < 3 THEN 1 ELSE 3
  /\ mcr = IF working THEN 15 ELSE IF writes < 7 THEN 0 ELSE IF writes = 7 THEN 11 ELSE 30

\* The test byte is in the transmitter until it comes back.  Once the FIFOs are cleared
\* the first byte received is equal to it only if it came back, to an empty FIFO, or
\* such a byte came in on the line.
InTest ==
  serialStage = "init" =>
    /\ wire = << >> /\ written = << >> /\ taken = << >> /\ accepted = << >> /\ ~working
    /\ writes < 9 => thr = << >>
    /\ thr # << >> => thr = <<TestByte>>
    /\ writes >= 6 /\ ~lookalike /\ rx # << >> /\ Head(rx) = TestByte =>
         writes = 9 /\ thr = << >> /\ Tail(rx) = << >>

\* What is read and sent, since the test that found the port working.
SinceTest ==
  /\ taken \o rx = heldRx \o accepted
  /\ wire \o thr = heldThr \o written
  /\ heldThr \in {<< >>, <<TestByte>>}
  /\ lookalike \/ (heldRx = << >> /\ heldThr = << >>)

SerialInv ==
  /\ rx \in Seq(Bytes) /\ thr \in Seq(Bytes) /\ wire \in Seq(Bytes) /\ toSend \in Seq(Bytes)
  /\ written \in Seq(Bytes) /\ accepted \in Seq(Bytes) /\ taken \in Seq(Bytes)
  /\ heldRx \in Seq(Bytes) /\ heldThr \in Seq(Bytes)
  /\ serialStage \in {"init", "idle", "write", "read"}
  /\ writes \in 0 .. 9 /\ (serialStage = "init" \/ writes = 9)
  /\ working \in BOOLEAN /\ lookalike \in BOOLEAN
  /\ Registers /\ InTest
  /\ working => SinceTest

LEMMA SerialStarts == SerialInit => SerialInv
<1>. SUFFICES ASSUME SerialInit PROVE SerialInv
  OBVIOUS
<1>1. << >> \in Seq(Bytes) /\ Len(<< >>) = 0
  BY EmptySeq
<1>2. Registers
  BY DEF SerialInit, Registers
<1>3. InTest
  BY DEF SerialInit, InTest
<1>4. /\ rx \in Seq(Bytes) /\ thr \in Seq(Bytes) /\ wire \in Seq(Bytes) /\ toSend \in Seq(Bytes)
      /\ written \in Seq(Bytes) /\ accepted \in Seq(Bytes) /\ taken \in Seq(Bytes)
      /\ heldRx \in Seq(Bytes) /\ heldThr \in Seq(Bytes)
  BY <1>1, Zenon DEF SerialInit
<1>5. serialStage = "init" /\ writes = 0 /\ ~working /\ working \in BOOLEAN /\ lookalike \in BOOLEAN
  BY DEF SerialInit
<1>. QED
  BY <1>2, <1>3, <1>4, <1>5 DEF SerialInv

LEMMA PutKeeps ==
  ASSUME NEW fifo \in Seq(Bytes), NEW byte \in Bytes
  PROVE  /\ Put(fifo, byte) \in Seq(Bytes)
         /\ fifo = << >> => Put(fifo, byte) = <<byte>>
         /\ fifo # << >> => Put(fifo, byte) # << >> /\ Head(Put(fifo, byte)) = Head(fifo)
         /\ Head(<<byte>>) = byte /\ Tail(<<byte>>) = << >> /\ <<byte>> # << >>
<1>1. FifoSize \in Nat \ {0}
  BY SerialAssumption
<1>2. Len(<< >>) = 0 /\ Append(<< >>, byte) = <<byte>>
  BY EmptySeq
<1>3. Put(fifo, byte) \in Seq(Bytes)
  BY DEF Put
<1>4. fifo = << >> => Put(fifo, byte) = <<byte>>
  BY <1>1, <1>2 DEF Put
<1>5. fifo # << >> => Put(fifo, byte) # << >> /\ Head(Put(fifo, byte)) = Head(fifo)
  <2>1. fifo # << >> => Append(fifo, byte) # << >> /\ Head(Append(fifo, byte)) = Head(fifo)
    OBVIOUS
  <2>. QED
    BY <2>1 DEF Put
<1>6. Head(<<byte>>) = byte /\ Tail(<<byte>>) = << >> /\ <<byte>> # << >>
  OBVIOUS
<1>. QED
  BY <1>3, <1>4, <1>5, <1>6

\* A byte that goes from the front of one sequence to the end of the one before it
\* leaves the two together as they were.
LEMMA HeadMoves ==
  ASSUME NEW s \in Seq(Bytes), NEW t \in Seq(Bytes), t # << >>
  PROVE  Append(s, Head(t)) \o Tail(t) = s \o t
<1>1. Head(t) \in Bytes /\ Tail(t) \in Seq(Bytes)
  OBVIOUS
<1>. QED
  BY <1>1

LEMMA AppendAfter ==
  ASSUME NEW s \in Seq(Bytes), NEW t \in Seq(Bytes), NEW byte \in Bytes
  PROVE  Append(s \o t, byte) = s \o Append(t, byte)
OBVIOUS

LEMMA AfterInitSerial == SerialInv /\ initSerial => SerialInv'
<1>. SUFFICES ASSUME SerialInv, initSerial PROVE SerialInv'
  OBVIOUS
<1>0. /\ serialStage = "init" /\ writes \in 0 .. 8 /\ writes' = writes + 1 /\ serialStage' = "init"
      /\ ~working /\ wire = << >> /\ written = << >> /\ taken = << >> /\ accepted = << >>
      /\ thr = << >> /\ (writes >= 6 /\ ~lookalike => ~(rx # << >> /\ Head(rx) = TestByte))
      /\ UNCHANGED <<wire, written, taken, accepted, toSend, working, lookalike, heldRx, heldThr>>
  BY DEF initSerial, SerialInv, InTest, InitWrites, outb, testVars
<1>1. /\ InitWrites[1] = <<1, 0>> /\ InitWrites[2] = <<3, 128>> /\ InitWrites[3] = <<0, 3>>
      /\ InitWrites[4] = <<1, 0>> /\ InitWrites[5] = <<3, 3>> /\ InitWrites[6] = <<2, 199>>
      /\ InitWrites[7] = <<4, 11>> /\ InitWrites[8] = <<4, 30>> /\ InitWrites[9] = <<0, TestByte>>
  BY DEF InitWrites
<1>2. outb(InitWrites[writes + 1][1], InitWrites[writes + 1][2])
  BY DEF initSerial
<1>3. /\ rx' = << >> \/ (rx' = rx /\ writes # 5)
      /\ Registers' /\ (thr' = << >> \/ (writes = 8 /\ thr' = <<TestByte>>))
  <2>1. ier = 0 /\ (lcr = IF writes \in 2 .. 4 THEN 128 ELSE 3)
        /\ (divisor = IF writes < 3 THEN 1 ELSE 3)
        /\ (mcr = IF writes < 7 THEN 0 ELSE IF writes = 7 THEN 11 ELSE 30)
    BY <1>0 DEF SerialInv, Registers
  <2>2. CASE writes = 0
    BY <1>0, <1>1, <1>2, <2>1, <2>2 DEF outb, DLAB, Registers
  <2>3. CASE writes = 1
    BY <1>0, <1>1, <1>2, <2>1, <2>3 DEF outb, DLAB, Registers
  <2>4. CASE writes = 2
    BY <1>0, <1>1, <1>2, <2>1, <2>4 DEF outb, DLAB, Registers
  <2>5. CASE writes = 3
    BY <1>0, <1>1, <1>2, <2>1, <2>5 DEF outb, DLAB, Registers
  <2>6. CASE writes = 4
    BY <1>0, <1>1, <1>2, <2>1, <2>6 DEF outb, DLAB, Registers
  <2>7. CASE writes = 5
    BY <1>0, <1>1, <1>2, <2>1, <2>7 DEF outb, DLAB, Registers
  <2>8. CASE writes = 6
    BY <1>0, <1>1, <1>2, <2>1, <2>8 DEF outb, DLAB, Registers
  <2>9. CASE writes = 7
    BY <1>0, <1>1, <1>2, <2>1, <2>9 DEF outb, DLAB, Registers
  <2>10. CASE writes = 8
    <3>0. thr \in Seq(Bytes) /\ TestByte \in Bytes
      BY DEF SerialInv, Bytes, TestByte
    <3>1. Put(thr, TestByte) = <<TestByte>>
      BY <1>0, <3>0, PutKeeps
    <3>. QED
      BY <1>0, <1>1, <1>2, <2>1, <2>10, <3>1 DEF outb, DLAB, Registers
  <2>. QED
    BY <1>0, <2>2, <2>3, <2>4, <2>5, <2>6, <2>7, <2>8, <2>9, <2>10
<1>4. << >> \in Seq(Bytes) /\ <<TestByte>> \in Seq(Bytes)
  BY EmptySeq DEF Bytes, TestByte
<1>5. rx' \in Seq(Bytes) /\ thr' \in Seq(Bytes)
  <2>1. rx \in Seq(Bytes)
    BY DEF SerialInv
  <2>. QED
    BY <1>3, <1>4, <2>1, Zenon
<1>6. InTest'
  <2>1. writes' >= 6 /\ ~lookalike => ~(rx' # << >> /\ Head(rx') = TestByte)
    BY <1>0, <1>3
  <2>. QED
    BY <1>0, <1>3, <2>1 DEF InTest
<1>. QED
  BY <1>0, <1>3, <1>5, <1>6 DEF SerialInv

LEMMA AfterTransmit == SerialInv /\ Transmit => SerialInv'
<1>. SUFFICES ASSUME SerialInv, Transmit PROVE SerialInv'
  OBVIOUS
<1>1. /\ UNCHANGED <<ier, lcr, mcr, divisor, serialStage, writes, working, toSend, written, taken, accepted,
                     lookalike, heldRx, heldThr>>
      /\ thr # << >> /\ thr \in Seq(Bytes) /\ rx \in Seq(Bytes) /\ wire \in Seq(Bytes)
      /\ thr' = Tail(thr)
  BY DEF Transmit, SerialInv, kernelVars, testVars
<1>2. Registers'
  BY <1>1 DEF SerialInv, Registers
<1>3. Head(thr) \in Bytes /\ Tail(thr) \in Seq(Bytes)
  BY <1>1
<1>4. CASE serialStage = "init"
  <2>1. thr = <<TestByte>> /\ writes = 9 /\ mcr = 30 /\ ~working
    BY <1>1, <1>4 DEF SerialInv, InTest, Registers
  <2>2. Loopback
    BY <2>1 DEF Loopback
  <2>3. TestByte \in Bytes /\ rx' = Put(rx, TestByte) /\ wire' = wire /\ thr' = << >>
    BY <1>1, <2>1, <2>2 DEF Transmit, TestByte, Bytes
  <2>4. rx' \in Seq(Bytes) /\ thr' \in Seq(Bytes)
    BY <1>1, <1>3, <2>3, PutKeeps
  <2>5. ~lookalike /\ rx' # << >> /\ Head(rx') = TestByte => Tail(rx') = << >>
    <3>1. CASE rx = << >>
      <4>1. rx' = <<TestByte>>
        BY <1>1, <2>3, <3>1, PutKeeps
      <4>. QED
        BY <2>3, <4>1, PutKeeps
    <3>2. CASE rx # << >>
      <4>1. ~lookalike => Head(rx) # TestByte
        BY <1>1, <1>4, <2>1, <3>2 DEF SerialInv, InTest
      <4>2. Head(rx') = Head(rx)
        BY <1>1, <2>3, <3>2, PutKeeps
      <4>. QED
        BY <4>1, <4>2
    <3>. QED
      BY <3>1, <3>2
  <2>6. InTest'
    BY <1>1, <1>4, <2>1, <2>3, <2>5 DEF SerialInv, InTest
  <2>. QED
    BY <1>1, <1>2, <1>4, <2>1, <2>3, <2>4, <2>6 DEF SerialInv
<1>5. CASE serialStage # "init" /\ working
  <2>1. mcr = 15
    BY <1>5 DEF SerialInv, Registers
  <2>2. ~Loopback
    BY <2>1 DEF Loopback
  <2>3. rx' = rx /\ wire' = Append(wire, Head(thr))
    BY <2>2 DEF Transmit
  <2>4. wire' \o thr' = wire \o thr
    BY <1>1, <2>3, HeadMoves
  <2>5. wire' \in Seq(Bytes)
    BY <1>1, <1>3, <2>3
  <2>. QED
    BY <1>1, <1>2, <1>3, <1>5, <2>3, <2>4, <2>5 DEF SerialInv, InTest, SinceTest
<1>6. CASE serialStage # "init" /\ ~working
  <2>1. rx' \in Seq(Bytes)
    BY <1>1, <1>3, PutKeeps DEF Transmit
  <2>2. Append(wire, Head(thr)) \in Seq(Bytes)
    BY <1>1, <1>3
  <2>3. wire' \in Seq(Bytes)
    BY <1>1, <2>2, Zenon DEF Transmit
  <2>. QED
    BY <1>1, <1>2, <1>3, <1>6, <2>1, <2>3 DEF SerialInv, InTest
<1>. QED
  BY <1>4, <1>5, <1>6

LEMMA AfterLineByte == ASSUME NEW byte \in LineBytes PROVE SerialInv /\ LineByte(byte) => SerialInv'
<1>. SUFFICES ASSUME SerialInv, LineByte(byte) PROVE SerialInv'
  OBVIOUS
<1>1. /\ UNCHANGED <<ier, lcr, mcr, divisor, thr, wire, serialStage, writes, working, toSend, written, taken,
                     heldRx, heldThr>>
      /\ rx' = Put(rx, byte) /\ rx \in Seq(Bytes) /\ byte \in Bytes
      /\ lookalike' \in BOOLEAN /\ (lookalike => lookalike')
      /\ taken \in Seq(Bytes) /\ accepted \in Seq(Bytes) /\ heldRx \in Seq(Bytes)
  BY SerialAssumption DEF LineByte, SerialInv, kernelVars, Bytes
<1>2. Registers'
  BY <1>1 DEF SerialInv, Registers
<1>3. rx' \in Seq(Bytes)
  BY <1>1, PutKeeps
<1>4. ASSUME serialStage = "init" PROVE InTest'
  <2>1. writes # 9
    <3>1. ~Loopback
      BY DEF LineByte
    <3>. QED
      BY <1>4, <3>1 DEF SerialInv, InTest, Registers, Loopback
  <2>2. writes >= 6 /\ ~lookalike' => byte # TestByte /\ ~(rx # << >> /\ Head(rx) = TestByte)
    BY <1>1, <1>4, <2>1 DEF LineByte, SerialInv, InTest
  <2>3. writes >= 6 /\ ~lookalike' => Head(rx') # TestByte
    <3>1. CASE rx = << >>
      BY <1>1, <2>2, <3>1, PutKeeps
    <3>2. CASE rx # << >>
      BY <1>1, <2>2, <3>2, PutKeeps
    <3>. QED
      BY <3>1, <3>2
  <2>. QED
    BY <1>1, <1>4, <2>3 DEF LineByte, SerialInv, InTest
<1>5. InTest'
  BY <1>1, <1>4 DEF InTest
<1>6. accepted' \in Seq(Bytes)
  <2>1. Append(accepted, byte) \in Seq(Bytes)
    BY <1>1
  <2>. QED
    BY <1>1, <2>1 DEF LineByte
<1>7. working => taken \o rx' = heldRx \o accepted'
  <2>. SUFFICES ASSUME working PROVE taken \o rx' = heldRx \o accepted'
    OBVIOUS
  <2>1. taken \o rx = heldRx \o accepted
    BY DEF SerialInv, SinceTest
  <2>2. CASE Len(rx) < FifoSize
    <3>1. accepted' = Append(accepted, byte) /\ rx' = Append(rx, byte)
      BY <1>1, <2>2 DEF LineByte, Put
    <3>2. Append(taken \o rx, byte) = taken \o Append(rx, byte)
      BY <1>1, AppendAfter
    <3>3. Append(heldRx \o accepted, byte) = heldRx \o Append(accepted, byte)
      BY <1>1, AppendAfter
    <3>. QED
      BY <2>1, <3>1, <3>2, <3>3, Zenon
  <2>3. CASE ~(Len(rx) < FifoSize)
    <3>1. accepted' = accepted /\ rx' = rx
      BY <1>1, <2>3 DEF LineByte, Put
    <3>. QED
      BY <2>1, <3>1, Zenon
  <2>. QED
    BY <2>2, <2>3
<1>8. working => SinceTest'
  BY <1>1, <1>7 DEF SerialInv, SinceTest
<1>. QED
  BY <1>1, <1>2, <1>3, <1>5, <1>6, <1>8 DEF SerialInv

LEMMA AfterTestSerial == SerialInv /\ testSerial => SerialInv'
<1>. SUFFICES ASSUME SerialInv, testSerial PROVE SerialInv'
  OBVIOUS
<1>1. /\ serialStage = "init" /\ serialStage' = "idle" /\ writes = 9 /\ ~working
      /\ wire = << >> /\ written = << >> /\ taken = << >> /\ accepted = << >>
      /\ thr \in {<< >>, <<TestByte>>}
      /\ rx \in Seq(Bytes) /\ thr \in Seq(Bytes)
      /\ UNCHANGED <<ier, lcr, divisor, thr, wire, writes, toSend, written, taken, accepted, lookalike>>
      /\ rx' = IF rx = << >> THEN rx ELSE Tail(rx)
  BY DEF testSerial, SerialInv, InTest, InitWrites
<1>2. rx' \in Seq(Bytes)
  BY <1>1
<1>3. CASE rx # << >> /\ Head(rx) = TestByte
  <2>1. mcr' = 15 /\ working' = TRUE /\ heldRx' = rx' /\ heldThr' = thr /\ rx' = Tail(rx)
    BY <1>1, <1>3 DEF testSerial
  <2>2. Registers'
    BY <1>1, <2>1 DEF SerialInv, Registers
  <2>3. lookalike \/ (thr = << >> /\ Tail(rx) = << >>)
    BY <1>1, <1>3 DEF SerialInv, InTest
  <2>4. << >> \o rx' = rx' \o << >> /\ << >> \o thr = thr \o << >>
    BY <1>1, <1>2, ConcatEmptySeq
  <2>5. SinceTest'
    BY <1>1, <2>1, <2>3, <2>4 DEF SinceTest
  <2>. QED
    BY <1>1, <1>2, <2>1, <2>2, <2>5 DEF SerialInv, InTest
<1>4. CASE ~(rx # << >> /\ Head(rx) = TestByte)
  <2>1. UNCHANGED <<mcr, working, heldRx, heldThr>>
    BY <1>4 DEF testSerial
  <2>. QED
    BY <1>1, <1>2, <2>1 DEF SerialInv, InTest, Registers
<1>. QED
  BY <1>3, <1>4

LEMMA AfterWriteSerial == SerialInv /\ writeSerial => SerialInv'
<1>. SUFFICES ASSUME SerialInv, writeSerial PROVE SerialInv'
  OBVIOUS
<1>1. /\ serialStage = "write" /\ serialStage' = "write" /\ writes = 9
      /\ toSend \in Seq(Bytes) /\ toSend # << >> /\ thr = << >>
      /\ written \in Seq(Bytes) /\ wire \in Seq(Bytes) /\ heldThr \in Seq(Bytes)
      /\ toSend' = Tail(toSend) /\ written' = Append(written, Head(toSend))
      /\ UNCHANGED <<writes, working, accepted, taken, lookalike, heldRx, heldThr>>
      /\ outb(0, Head(toSend))
  BY DEF writeSerial, SerialInv, testVars
<1>2. Head(toSend) \in Bytes /\ toSend' \in Seq(Bytes) /\ written' \in Seq(Bytes)
  BY <1>1
<1>3. ~DLAB
  BY <1>1 DEF SerialInv, Registers, DLAB
<1>4. /\ thr' = Put(thr, Head(toSend))
      /\ UNCHANGED <<ier, lcr, mcr, divisor, rx, wire>>
  BY <1>1, <1>3 DEF outb
<1>5. thr' = <<Head(toSend)>> /\ thr' \in Seq(Bytes)
  <2>1. thr \in Seq(Bytes)
    BY DEF SerialInv
  <2>. QED
    BY <1>1, <1>2, <1>4, <2>1, PutKeeps
<1>6. Registers'
  BY <1>1, <1>4 DEF SerialInv, Registers
<1>7. working => wire' \o thr' = heldThr \o written'
  <2>. SUFFICES ASSUME working PROVE wire' \o thr' = heldThr \o written'
    OBVIOUS
  <2>1. wire \o << >> = heldThr \o written
    BY <1>1 DEF SerialInv, SinceTest
  <2>2. wire = heldThr \o written
    BY <1>1, <2>1, ConcatEmptySeq
  <2>3. Append(wire, Head(toSend)) = wire \o <<Head(toSend)>>
    BY <1>1, <1>2
  <2>4. Append(heldThr \o written, Head(toSend)) = heldThr \o Append(written, Head(toSend))
    BY <1>1, <1>2, AppendAfter
  <2>. QED
    BY <1>1, <1>4, <1>5, <2>2, <2>3, <2>4, Zenon
<1>8. working => SinceTest'
  BY <1>1, <1>4, <1>7 DEF SerialInv, SinceTest
<1>. QED
  BY <1>1, <1>2, <1>4, <1>5, <1>6, <1>8 DEF SerialInv, InTest

LEMMA AfterReadSerial == SerialInv /\ readSerial => SerialInv'
<1>. SUFFICES ASSUME SerialInv, readSerial PROVE SerialInv'
  OBVIOUS
<1>1. /\ serialStage = "read" /\ serialStage' = "read"
      /\ rx \in Seq(Bytes) /\ rx # << >> /\ taken \in Seq(Bytes)
      /\ rx' = Tail(rx) /\ taken' = Append(taken, Head(rx))
      /\ UNCHANGED <<ier, lcr, mcr, divisor, thr, wire, writes, working, toSend, written, accepted,
                     lookalike, heldRx, heldThr>>
  BY DEF readSerial, SerialInv, testVars
<1>2. Head(rx) \in Bytes /\ rx' \in Seq(Bytes) /\ taken' \in Seq(Bytes)
  BY <1>1
<1>3. taken' \o rx' = taken \o rx
  BY <1>1, HeadMoves
<1>4. Registers'
  BY <1>1 DEF SerialInv, Registers
<1>. QED
  BY <1>1, <1>2, <1>3, <1>4 DEF SerialInv, InTest, SinceTest

LEMMA SerialKept == SerialInv /\ [SerialNext]_serialVars => SerialInv'
<1>. SUFFICES ASSUME SerialInv, [SerialNext]_serialVars PROVE SerialInv'
  OBVIOUS
<1>1. ASSUME NEW message \in Messages, writeSerialString(message) PROVE SerialInv'
  <2>1. message \in Seq(Bytes)
    BY SerialAssumption DEF Bytes
  <2>. QED
    BY <1>1, <2>1 DEF writeSerialString, SerialInv, Registers, InTest, SinceTest, testVars, uart
<1>2. ASSUME NEW length \in Lengths, readSerialString(length) PROVE SerialInv'
  BY <1>2 DEF readSerialString, SerialInv, Registers, InTest, SinceTest, testVars, uart
<1>3. CASE writtenAll
  BY <1>3 DEF writtenAll, SerialInv, Registers, InTest, SinceTest, testVars, uart, kernelVars
<1>4. CASE readAll
  BY <1>4 DEF readAll, SerialInv, Registers, InTest, SinceTest, testVars, uart
<1>5. CASE UNCHANGED serialVars
  BY <1>5 DEF serialVars, SerialInv, Registers, InTest, SinceTest, testVars, uart, kernelVars
<1>. QED
  BY <1>1, <1>2, <1>3, <1>4, <1>5, AfterInitSerial, AfterTransmit, AfterLineByte, AfterTestSerial,
     AfterWriteSerial, AfterReadSerial DEF SerialNext, SerialDriver

LEMMA SerialInvariant == SerialSpec => []SerialInv
BY SerialStarts, SerialKept, PTL DEF SerialSpec

\* For every FIFO size, every message and every byte on the line, the test byte among
\* them: a port that initSerial found working is set up as asked for, and its FIFOs were
\* empty unless a byte of the line was taken for the test byte (serial.c:29 and 37).
THEOREM WorkingMeansNormal == SerialSpec => []ReadyMeansNormal
<1>1. SerialInv => ReadyMeansNormal
  <2>. SUFFICES ASSUME SerialInv, working PROVE ReadyMeansNormal
    BY DEF ReadyMeansNormal
  <2>1. writes = 9
    BY DEF SerialInv, InTest
  <2>2. mcr = 15 /\ lcr = 3 /\ divisor = 3 /\ ier = 0
    BY <2>1 DEF SerialInv, Registers
  <2>3. taken \o rx = heldRx \o accepted /\ (lookalike \/ (heldRx = << >> /\ heldThr = << >>))
    BY Zenon DEF SerialInv, SinceTest
  <2>. QED
    BY <2>2, <2>3, Zenon DEF ReadyMeansNormal
<1>. QED
  BY <1>1, SerialInvariant, PTL

\* The reader's buffer.  What is stored lies below index, so the next character goes
\* after it.
ReadSoFar ==
  /\ len \in 0 .. Room - 1 /\ index \in 0 .. len + 1 /\ start \in 0 .. Len(taken)
  /\ buffer \in [Buffer -> {Unset} \cup Bytes]
  /\ serialStage = "read" =>
       /\ \A b \in Stored : b < len /\ b < index
       /\ \E place \in [Came -> Stored] : PlacedInOrder(place)

\* A step that is not the reader's.
LEMMA OthersKeepBuffer ==
  ASSUME ReadSoFar, UNCHANGED <<taken, len, index, start, buffer>>,
         serialStage' = "read" => serialStage = "read"
  PROVE  ReadSoFar'
<1>1. Stored' = Stored /\ Came' = Came
  BY DEF Stored, Came
<1>2. \A place : PlacedInOrder(place)' <=> PlacedInOrder(place)
  BY <1>1 DEF PlacedInOrder
<1>. QED
  BY <1>1, <1>2 DEF ReadSoFar

LEMMA ReaderStarts ==
  ASSUME SerialInv, ReadSoFar, NEW length \in Lengths, readSerialString(length)
  PROVE  ReadSoFar'
<1>1. /\ serialStage' = "read" /\ taken' = taken /\ taken \in Seq(Bytes)
      /\ len' = length /\ index' = 0 /\ start' = Len(taken)
      /\ buffer' = [b \in Buffer |-> Unset]
  BY DEF readSerialString, SerialInv
<1>2. len' \in 0 .. Room - 1 /\ index' \in 0 .. len' + 1 /\ start' \in 0 .. Len(taken')
  BY <1>1, SerialAssumption
<1>3. Stored' = {} /\ Came' = {}
  BY <1>1 DEF Stored, Came
<1>4. PICK place : place = [k \in {} |-> 0]
  OBVIOUS
<1>5. place \in [Came' -> Stored']
  BY <1>3, <1>4
<1>6. PlacedInOrder(place)'
  BY <1>3 DEF PlacedInOrder
<1>. QED
  BY <1>1, <1>2, <1>3, <1>5, <1>6 DEF ReadSoFar

\* A character goes after the ones that are stored, a NUL nowhere.
LEMMA ReaderStores == ASSUME SerialInv, ReadSoFar, readSerial PROVE ReadSoFar'
<1>1. /\ serialStage = "read" /\ serialStage' = "read" /\ index < len
      /\ rx \in Seq(Bytes) /\ rx # << >> /\ taken \in Seq(Bytes)
      /\ taken' = Append(taken, Head(rx)) /\ len' = len /\ start' = start
  BY DEF readSerial, SerialInv
<1>2. /\ len \in 0 .. Room - 1 /\ index \in 0 .. len + 1 /\ start \in 0 .. Len(taken)
      /\ buffer \in [Buffer -> {Unset} \cup Bytes]
      /\ \A b \in Stored : b < len /\ b < index
  BY <1>1 DEF ReadSoFar
<1>3. PICK place \in [Came -> Stored] : PlacedInOrder(place)
  BY <1>1 DEF ReadSoFar
<1> DEFINE byte == Head(rx)
           n == Len(taken) + 1
<1>4. byte \in Bytes /\ byte # Unset /\ Len(taken) \in Nat
  <2>1. byte \in Bytes /\ Len(taken) \in Nat
    BY <1>1
  <2>2. \A b \in Bytes : b # Unset
    BY DEF Bytes, Unset
  <2>. QED
    BY <2>1, <2>2
<1>5. /\ Len(taken') = n /\ taken'[n] = byte
      /\ \A k \in 1 .. Len(taken) : taken'[k] = taken[k]
  BY <1>1, <1>4
<1>6. start' \in 0 .. Len(taken')
  BY <1>1, <1>2, <1>4, <1>5
<1>7. index \in Buffer /\ index \notin Stored /\ Stored \subseteq Buffer /\ Buffer \subseteq Int
  BY <1>1, <1>2, SerialAssumption DEF Stored, Buffer
<1>8. \A k \in Came : k \in 1 .. Len(taken) /\ k < n /\ taken'[k] = taken[k]
  BY <1>2, <1>4, <1>5 DEF Came
<1> HIDE DEF n, byte
<1>9. CASE byte # 0
  <2>1. buffer' = [buffer EXCEPT ![index] = byte] /\ index' = index + 2
    BY <1>9 DEF readSerial, byte
  <2>2. index' \in 0 .. len' + 1
    BY <1>1, <1>2, <2>1
  <2>3. buffer' \in [Buffer -> {Unset} \cup Bytes]
    BY <1>2, <1>4, <2>1
  <2>4. Stored' = Stored \cup {index}
    BY <1>2, <1>4, <1>7, <2>1 DEF Stored
  <2>5. Came' = Came \cup {n}
    <3>1. \A k \in start + 1 .. n : k = n \/ k \in 1 .. Len(taken)
      BY <1>2, <1>4 DEF n
    <3>2. n \in start + 1 .. n
      BY <1>2, <1>4 DEF n
    <3>3. \A k \in start + 1 .. Len(taken) : k \in start + 1 .. n
      BY <1>2, <1>4 DEF n
    <3>4. \A k \in start + 1 .. n : k # n => k \in start + 1 .. Len(taken)
      BY <1>2, <1>4 DEF n
    <3>. QED
      BY <1>1, <1>5, <1>9, <3>1, <3>2, <3>3, <3>4, <1>8 DEF Came
  <2>0. PICK placed : placed = [k \in Came \cup {n} |-> IF k = n THEN index ELSE place[k]]
    OBVIOUS
  <2>6. n \notin Came
    BY <1>4, <1>8 DEF n
  <2>7. placed \in [Came' -> Stored'] /\ placed[n] = index
        /\ \A k \in Came : placed[k] = place[k] /\ place[k] \in Stored
    BY <2>0, <2>4, <2>5, <2>6
  <2>8. \A k \in Came' : buffer'[placed[k]] = taken'[k]
    <3>1. buffer'[placed[n]] = taken'[n]
      BY <1>2, <1>5, <1>7, <2>1, <2>7
    <3>2. ASSUME NEW k \in Came PROVE buffer'[placed[k]] = taken'[k]
      <4>1. buffer[place[k]] = taken[k] /\ taken'[k] = taken[k]
        BY <1>3, <1>8, <3>2 DEF PlacedInOrder
      <4>. QED
        BY <1>2, <1>7, <2>1, <2>7, <4>1
    <3>. QED
      BY <2>5, <3>1, <3>2
  <2>9. \A j, k \in Came' : j < k => placed[j] < placed[k]
    <3>1. \A j, k \in Came : j < k => placed[j] < placed[k]
      BY <1>3, <2>7 DEF PlacedInOrder
    <3>2. \A j \in Came : placed[j] < placed[n] /\ ~(n < j)
      BY <1>2, <1>4, <1>8, <2>7 DEF n
    <3>3. ~(n < n)
      BY <1>4 DEF n
    <3>. QED
      BY <2>5, <3>1, <3>2, <3>3
  <2>10. \A b \in Stored' : \E k \in Came' : placed[k] = b
    BY <1>3, <2>4, <2>5, <2>7 DEF PlacedInOrder
  <2>11. PlacedInOrder(placed)'
    BY <2>8, <2>9, <2>10 DEF PlacedInOrder
  <2>12. \A b \in Stored' : b < len' /\ b < index'
    BY <1>1, <1>2, <1>7, <2>1, <2>4
  <2>. QED
    BY <1>1, <1>2, <1>6, <2>2, <2>3, <2>7, <2>11, <2>12 DEF ReadSoFar
<1>10. CASE byte = 0
  <2>1. buffer' = buffer /\ index' = index + 1
    BY <1>10 DEF readSerial, byte
  <2>2. index' \in 0 .. len' + 1
    BY <1>1, <1>2, <2>1
  <2>3. Stored' = Stored
    BY <2>1 DEF Stored
  <2>4. Came' = Came
    <3>1. \A k \in start + 1 .. Len(taken) : k \in start + 1 .. n /\ taken'[k] = taken[k]
      BY <1>2, <1>4, <1>5 DEF n
    <3>2. \A k \in start + 1 .. n : k # n => k \in start + 1 .. Len(taken)
      BY <1>2, <1>4 DEF n
    <3>. QED
      BY <1>1, <1>5, <1>10, <3>1, <3>2 DEF Came
  <2>5. PlacedInOrder(place)'
    BY <1>3, <1>8, <2>1, <2>3, <2>4 DEF PlacedInOrder
  <2>6. \A b \in Stored' : b < len' /\ b < index'
    BY <1>1, <1>2, <1>7, <2>1, <2>3
  <2>. QED
    BY <1>1, <1>2, <1>6, <2>1, <2>2, <2>3, <2>4, <2>5, <2>6 DEF ReadSoFar
<1>. QED
  BY <1>9, <1>10

LEMMA ReaderEnds == ASSUME ReadSoFar, readAll PROVE ReadSoFar'
<1>1. buffer \in [Buffer -> {Unset} \cup Bytes] /\ buffer' = [buffer EXCEPT ![index] = 0]
  BY DEF ReadSoFar, readAll
<1>2. 0 \in Bytes
  BY DEF Bytes
<1>3. buffer' \in [Buffer -> {Unset} \cup Bytes]
  BY <1>1, <1>2
<1>. QED
  BY <1>3 DEF ReadSoFar, readAll

LEMMA ReaderStep == SerialInv /\ ReadSoFar /\ [SerialNext]_serialVars => ReadSoFar'
<1>. SUFFICES ASSUME SerialInv, ReadSoFar, [SerialNext]_serialVars PROVE ReadSoFar'
  OBVIOUS
<1>1. CASE initSerial \/ testSerial \/ writeSerial \/ writtenAll
  BY <1>1, OthersKeepBuffer DEF initSerial, testSerial, writeSerial, writtenAll, kernelVars
<1>2. ASSUME NEW message \in Messages, writeSerialString(message) PROVE ReadSoFar'
  BY <1>2, OthersKeepBuffer DEF writeSerialString
<1>3. ASSUME NEW byte \in LineBytes, LineByte(byte) PROVE ReadSoFar'
  BY <1>3, OthersKeepBuffer DEF LineByte, kernelVars
<1>4. CASE Transmit \/ UNCHANGED serialVars
  BY <1>4, OthersKeepBuffer DEF Transmit, serialVars, kernelVars
<1>. QED
  BY <1>1, <1>2, <1>3, <1>4, ReaderStarts, ReaderStores, ReaderEnds DEF SerialNext, SerialDriver

\* What is written comes out on the line, every byte of it and in order (serial.c:75),
\* after the test byte at the most; and the reader stores the characters that came in, each of them once and in order,
\* within its buffer's len bytes (serial.c:61).
THEOREM BytesInOrder == SerialSpec => []KeepsOrder
<1>1. SerialInit => ReadSoFar
  <2>. SUFFICES ASSUME SerialInit PROVE ReadSoFar
    OBVIOUS
  <2>1. Len(taken) = 0
    BY EmptySeq DEF SerialInit
  <2>. QED
    BY <2>1, SerialAssumption DEF SerialInit, ReadSoFar
<1>2. SerialInv /\ ReadSoFar /\ [SerialNext]_serialVars => ReadSoFar'
  BY ReaderStep
<1>3. SerialInv /\ ReadSoFar => KeepsOrder
  <2>. SUFFICES ASSUME SerialInv, ReadSoFar PROVE KeepsOrder
    OBVIOUS
  <2>1. working => wire \o thr = heldThr \o written /\ heldThr \in {<< >>, <<TestByte>>}
    BY Zenon DEF SerialInv, SinceTest
  <2>2. serialStage = "read" => (\A b \in Stored : b < len) /\ index <= len + 1
    BY DEF ReadSoFar
  <2>3. serialStage = "read" => \E place \in [Came -> Stored] : PlacedInOrder(place)
    BY Zenon DEF ReadSoFar
  <2>. QED
    BY <2>1, <2>2, <2>3, Zenon DEF KeepsOrder
<1>. QED
  BY <1>1, <1>2, <1>3, SerialStarts, SerialKept, PTL DEF SerialSpec

------------------------------------------------------------------------------
\* The 8042.

\* What readDataPort will find if it waits for the answer.
Found == IF answer = << >> THEN port ELSE answer[1]

\* The controller keeps step with the lines.
InStep ==
  /\ ~dropped
  /\ asked => line \in DOMAIN Asks \cup DOMAIN Writes
  /\ awaiting = IF asked /\ line \in DOMAIN Writes THEN Writes[line] ELSE "none"
  /\ answer # << >> => answer = <<answer[1]>> /\ asked /\ line \in DOMAIN Asks
  /\ asked /\ line \in {192, 207, 227, 244} => Found = configuration
  /\ asked /\ line = 220 => (Found = {} <=> "AB" \in passed)

\* What has been set up, by the line that is next.
SetUpSoFar ==
  /\ line \in {176, 184, 185, 188, 191, 192, 195, 198, 201, 206, 207, 220, 226, 227, 228, 244,
               276, 277, 283, 284}
  /\ line \in {185, 188, 191, 192} => 4 \in configuration
  /\ line \in {195, 198} => 4 \in configuration_byte /\ configuration_byte \cap {0, 1} = {}
  /\ line \in {195, 198, 201, 206, 207} => two_channel
  /\ line \in {201, 206, 207, 220, 226} => 4 \in configuration /\ configuration \cap {0, 1} = {}
  /\ line \in {227, 228} => configuration \cap {0, 1, 4} = {}
  /\ line = 228 => configuration_byte = configuration
  /\ line >= 220 => ~two_channel
  /\ line \in {226, 227, 228} => status = {} /\ "AB" \in passed
  /\ line > 228 => /\ 4 \notin configuration <=> "AB" \in passed
                   /\ 0 \in configuration <=> "AB" \in passed
                   /\ 1 \notin configuration

Ps2Inv == disturbed \/ (InStep /\ SetUpSoFar)

StepLines == {Steps[k] : k \in DOMAIN Steps}

LEMMA LinesAre ==
  /\ StepLines = {184, 185, 188, 191, 192, 195, 198, 201, 206, 207, 215, 220, 226, 227, 228, 244, 248,
              253, 254, 255, 257, 276, 277, 279, 280, 283, 284}
  /\ DOMAIN Steps = 1 .. 27
<1>1. DOMAIN Steps = 1 .. 27
  BY DEF Steps
<1>2. /\ Steps[1] = 184 /\ Steps[2] = 185 /\ Steps[3] = 188 /\ Steps[4] = 191 /\ Steps[5] = 192
      /\ Steps[6] = 195 /\ Steps[7] = 198 /\ Steps[8] = 201 /\ Steps[9] = 206 /\ Steps[10] = 207
      /\ Steps[11] = 215 /\ Steps[12] = 220 /\ Steps[13] = 226 /\ Steps[14] = 227
      /\ Steps[15] = 228 /\ Steps[16] = 244 /\ Steps[17] = 248 /\ Steps[18] = 253
      /\ Steps[19] = 254 /\ Steps[20] = 255 /\ Steps[21] = 257 /\ Steps[22] = 276
      /\ Steps[23] = 277 /\ Steps[24] = 279 /\ Steps[25] = 280 /\ Steps[26] = 283
      /\ Steps[27] = 284
  BY DEF Steps
<1>. DEFINE Known == {184, 185, 188, 191, 192, 195, 198, 201, 206, 207, 215, 220, 226, 227, 228,
                      244, 248, 253, 254, 255, 257, 276, 277, 279, 280, 283, 284}
<1>3. StepLines \subseteq Known
  BY <1>1, <1>2 DEF StepLines
<1>4. \A k \in 1 .. 27 : Steps[k] \in StepLines
  BY <1>1 DEF StepLines
<1>5. ASSUME NEW l \in Known PROVE \E k \in 1 .. 27 : Steps[k] = l
  BY <1>2
<1>. HIDE DEF Known
<1>6. StepLines = Known
  BY <1>3, <1>4, <1>5
<1>. QED
  BY <1>1, <1>6 DEF Known

\* GoOn takes the first later line that runs.
LEMMA NextLine ==
  ASSUME GoOn
  PROVE  /\ ~asked' /\ line' \in StepLines /\ line' > line /\ Runs(line', two_channel', status')
         /\ \A l \in StepLines : l > line /\ l < line' => ~Runs(l, two_channel', status')
BY DEF GoOn, StepLines

LEMMA SentAre ==
  /\ DOMAIN Plain = {184, 185, 195, 206, 215, 226, 253}
  /\ DOMAIN Asks = {188, 192, 201, 207, 220, 227, 244, 248, 254, 257}
  /\ DOMAIN Writes = {198, 228, 255, 276, 277, 279}
  /\ Plain[184] = "AD" /\ Plain[185] = "A7" /\ Plain[195] = "A7" /\ Plain[206] = "A8"
  /\ Plain[226] = "AE"
  /\ Asks[188] = "D0" /\ Asks[192] = "20" /\ Asks[201] = "AA" /\ Asks[207] = "20"
  /\ Asks[220] = "AB" /\ Asks[227] = "20" /\ Asks[244] = "20"
  /\ Writes[198] = "60" /\ Writes[228] = "60" /\ Writes[276] = "D1" /\ Writes[277] = "D2"
BY DEF Plain, Asks, Writes

\* The line after each line, when the second port was found not to be there.
LEMMA LineAfter ==
  ASSUME GoOn
  PROVE  /\ line = 184 => line' = 185
         /\ line = 185 => line' = 188
         /\ line = 188 => line' = 191
         /\ line = 191 => line' = 192
         /\ line = 192 /\ two_channel' => line' = 195
         /\ line = 195 => line' = 198
         /\ line = 198 => line' = 201
         /\ line = 201 /\ two_channel' => line' = 206
         /\ line = 206 /\ two_channel' => line' = 207
         /\ line = 207 /\ ~two_channel' => line' = 220
         /\ line = 220 /\ ~two_channel' => line' = IF status' = {} THEN 226 ELSE 244
         /\ line = 226 /\ status' = {} => line' = 227
         /\ line = 227 /\ status' = {} => line' = 228
         /\ line = 228 => line' = 244
         /\ line = 244 /\ ~two_channel' => line' = 276
         /\ line = 276 => line' = 277
         /\ line = 277 /\ ~two_channel' => line' = 283
         /\ line = 283 => line' = 284
<1>1. /\ line' \in {184, 185, 188, 191, 192, 195, 198, 201, 206, 207, 215, 220, 226, 227, 228, 244,
                    248, 253, 254, 255, 257, 276, 277, 279, 280, 283, 284}
      /\ line' > line
  BY NextLine, LinesAre
<1>2. /\ line' \in {195, 206, 207, 215, 248, 279, 280, 253, 254, 255, 257} => two_channel'
      /\ line' \in {226, 227, 228} => status' = {}
  BY NextLine DEF Runs
<1>3. \A l \in StepLines : l > line /\ l < line' => ~Runs(l, two_channel', status')
  BY NextLine
<1>4. /\ {184, 185, 188, 191, 192, 198, 201, 220, 244, 276, 277, 283, 284} \subseteq StepLines
      /\ \A l \in {184, 185, 188, 191, 192, 198, 201, 220, 244, 276, 277, 283, 284} :
           Runs(l, two_channel', status')
  BY LinesAre DEF Runs
<1>5. \A l \in {184, 185, 188, 191, 192, 198, 201, 220, 244, 276, 277, 283, 284} :
        l > line => ~(l < line')
  BY <1>3, <1>4
<1>6. two_channel' => \A l \in {195, 206, 207} : l > line => ~(l < line')
  BY <1>3, LinesAre DEF Runs
<1>7. status' = {} => \A l \in {226, 227, 228} : l > line => ~(l < line')
  BY <1>3, LinesAre DEF Runs
<1>8. line = 184 => line' = 185
  BY <1>1, <1>5
<1>9. line = 185 => line' = 188
  BY <1>1, <1>5
<1>10. line = 188 => line' = 191
  BY <1>1, <1>5
<1>11. line = 191 => line' = 192
  BY <1>1, <1>5
<1>12. line = 192 /\ two_channel' => line' = 195
  BY <1>1, <1>6
<1>13. line = 195 => line' = 198
  BY <1>1, <1>5
<1>14. line = 198 => line' = 201
  BY <1>1, <1>5
<1>15. line = 201 /\ two_channel' => line' = 206
  BY <1>1, <1>6
<1>16. line = 206 /\ two_channel' => line' = 207
  BY <1>1, <1>6
<1>17. line = 207 /\ ~two_channel' => line' = 220
  BY <1>1, <1>2, <1>5
<1>18. line = 220 /\ ~two_channel' => line' = IF status' = {} THEN 226 ELSE 244
  BY <1>1, <1>2, <1>5, <1>7
<1>19. line = 226 /\ status' = {} => line' = 227
  BY <1>1, <1>7
<1>20. line = 227 /\ status' = {} => line' = 228
  BY <1>1, <1>7
<1>21. line = 228 => line' = 244
  BY <1>1, <1>5
<1>22. line = 244 /\ ~two_channel' => line' = 276
  BY <1>1, <1>2, <1>5
<1>23. line = 276 => line' = 277
  BY <1>1, <1>5
<1>24. line = 277 /\ ~two_channel' => line' = 283
  BY <1>1, <1>2, <1>5
<1>25. line = 283 => line' = 284
  BY <1>1, <1>5
<1>. QED
  BY <1>8, <1>9, <1>10, <1>11, <1>12, <1>13, <1>14, <1>15, <1>16, <1>17, <1>18, <1>19, <1>20,
     <1>21, <1>22, <1>23, <1>24, <1>25


\* What a command does, unless it is a self-test that resets what was set up.
LEMMA CommandDoes ==
  ASSUME NEW c, Command(c), ~disturbed'
  PROVE  /\ ~disturbed
         /\ ~dropped /\ awaiting = "none" => ~dropped'
         /\ awaiting' = IF c \in {"60", "D1", "D2", "D3"} THEN c ELSE "none"
         /\ configuration' = CASE c = "AD" -> configuration \cup {4}
                               [] c = "AE" -> configuration \ {4}
                               [] c = "A7" -> configuration \cup {5}
                               [] c = "A8" -> configuration \ {5}
                               [] OTHER -> configuration
<1>1. ~dropped /\ awaiting = "none" => ~dropped'
  BY DEF Command
<1>2. ~disturbed /\ awaiting' = IF c \in {"60", "D1", "D2", "D3"} THEN c ELSE "none"
  BY DEF Command
<1>3. configuration' = CASE c = "AD" -> configuration \cup {4}
                         [] c = "AE" -> configuration \ {4}
                         [] c = "A7" -> configuration \cup {5}
                         [] c = "A8" -> configuration \ {5}
                         [] OTHER -> configuration
  BY DEF Command
<1>. QED
  BY <1>1, <1>2, <1>3

LEMMA CommandAnswers ==
  ASSUME NEW c, Command(c)
  PROVE  /\ c \notin {"AB", "A9", "20", "AA", "D0"} => answer' = answer
         /\ c \in {"AB", "A9", "20", "AA", "D0"} => answer' = <<answer'[1]>>
         /\ c = "20" => answer' = <<configuration>>
         /\ c = "AB" => ("AB" \in passed' <=> answer'[1] = {})
         /\ c \notin {"AB", "A9"} => passed' = passed
<1>. PICK result \in TestResults :
       /\ answer' = CASE c \in {"AB", "A9"} -> <<result>>
                      [] c = "20" -> <<configuration>>
                      [] c = "AA" -> <<SelfTestPassed>>
                      [] c = "D0" -> <<AllOnes>>
                      [] OTHER -> answer
       /\ passed' = IF c \in {"AB", "A9"}
                    THEN IF result = {} THEN passed \cup {c} ELSE passed \ {c}
                    ELSE passed
  BY DEF Command
<1>1. c \in {"AB", "A9"} => answer' = <<result>>
  OBVIOUS
<1>2. c = "20" => answer' = <<configuration>>
  OBVIOUS
<1>3. c = "AA" => answer' = <<SelfTestPassed>>
  OBVIOUS
<1>4. c = "D0" => answer' = <<AllOnes>>
  OBVIOUS
<1>5. c \notin {"AB", "A9", "20", "AA", "D0"} => answer' = answer
  OBVIOUS
<1>6. c = "AB" => ("AB" \in passed' <=> answer'[1] = {})
  BY <1>1
<1>. QED
  BY <1>1, <1>2, <1>3, <1>4, <1>5, <1>6

LEMMA AfterPlain == Ps2Inv /\ writeCommandRegister => Ps2Inv'
<1>. SUFFICES ASSUME Ps2Inv, writeCommandRegister, ~disturbed' PROVE Ps2Inv'
  BY DEF Ps2Inv
<1>1. line \in DOMAIN Plain /\ Command(Plain[line]) /\ GoOn
      /\ UNCHANGED <<port, configuration_byte, two_channel, status>>
  BY DEF writeCommandRegister
<1>2. ~disturbed /\ InStep /\ SetUpSoFar
  BY <1>1, CommandDoes DEF Ps2Inv
<1>3. line \in {184, 185, 195, 206, 226}
  BY <1>1, <1>2, SentAre DEF SetUpSoFar
<1>4. ~asked
  BY <1>2, <1>3, SentAre DEF InStep
<1>5. ~dropped /\ awaiting = "none" /\ answer = << >>
  BY <1>2, <1>4 DEF InStep
<1>6. Plain[line] \in {"AD", "A7", "A8", "AE"}
  BY <1>3, SentAre
<1>7. ~asked'
  BY <1>1, NextLine
<1>8. ~dropped' /\ awaiting' = "none" /\ answer' = << >> /\ passed' = passed
  BY <1>1, <1>5, <1>6, CommandDoes, CommandAnswers
<1>9. InStep'
  BY <1>7, <1>8 DEF InStep
<1>10. configuration' = CASE line = 184 -> configuration \cup {4}
                          [] line = 226 -> configuration \ {4}
                          [] line \in {185, 195} -> configuration \cup {5}
                          [] line = 206 -> configuration \ {5}
  BY <1>1, <1>3, CommandDoes, SentAre
<1>11. CASE line = 184
  <2>1. line' = 185
    BY <1>1, <1>11, LineAfter
  <2>2. 4 \in configuration'
    BY <1>10, <1>11
  <2>. QED
    BY <1>9, <2>1, <2>2 DEF Ps2Inv, SetUpSoFar
<1>12. CASE line = 185
  <2>1. line' = 188
    BY <1>1, <1>12, LineAfter
  <2>2. 4 \in configuration'
    BY <1>2, <1>10, <1>12 DEF SetUpSoFar
  <2>. QED
    BY <1>9, <2>1, <2>2 DEF Ps2Inv, SetUpSoFar
<1>13. CASE line = 195
  <2>1. line' = 198
    BY <1>1, <1>13, LineAfter
  <2>2. two_channel' /\ 4 \in configuration_byte' /\ configuration_byte' \cap {0, 1} = {}
    BY <1>1, <1>2, <1>13 DEF SetUpSoFar
  <2>. QED
    BY <1>9, <2>1, <2>2 DEF Ps2Inv, SetUpSoFar
<1>14. CASE line = 206
  <2>1. two_channel /\ 4 \in configuration /\ configuration \cap {0, 1} = {}
    BY <1>2, <1>14 DEF SetUpSoFar
  <2>2. line' = 207
    BY <1>1, <1>14, <2>1, LineAfter
  <2>3. two_channel' /\ 4 \in configuration' /\ configuration' \cap {0, 1} = {}
    BY <1>1, <1>10, <1>14, <2>1
  <2>. QED
    BY <1>9, <2>2, <2>3 DEF Ps2Inv, SetUpSoFar
<1>15. CASE line = 226
  <2>1. status = {} /\ "AB" \in passed /\ ~two_channel /\ configuration \cap {0, 1} = {}
    BY <1>2, <1>15 DEF SetUpSoFar
  <2>2. line' = 227
    BY <1>1, <1>15, <2>1, LineAfter
  <2>3. status' = {} /\ "AB" \in passed' /\ ~two_channel' /\ configuration' \cap {0, 1, 4} = {}
    BY <1>1, <1>8, <1>10, <1>15, <2>1
  <2>. QED
    BY <1>9, <2>2, <2>3 DEF Ps2Inv, SetUpSoFar
<1>. QED
  BY <1>3, <1>11, <1>12, <1>13, <1>14, <1>15

LEMMA AfterAsk == Ps2Inv /\ ask => Ps2Inv'
<1>. SUFFICES ASSUME Ps2Inv, ask, ~disturbed' PROVE Ps2Inv'
  BY DEF Ps2Inv
<1>1. line \in DOMAIN Asks /\ ~asked /\ Command(Asks[line]) /\ asked' = TRUE
      /\ UNCHANGED <<port, line, configuration_byte, two_channel, status>>
  BY DEF ask
<1>2. ~disturbed /\ InStep /\ SetUpSoFar
  BY <1>1, CommandDoes DEF Ps2Inv
<1>3. line \in {188, 192, 201, 207, 220, 227, 244}
  BY <1>1, <1>2, SentAre DEF SetUpSoFar
<1>4. ~dropped /\ awaiting = "none" /\ answer = << >>
  BY <1>1, <1>2 DEF InStep
<1>5. Asks[line] \in {"D0", "20", "AA", "AB"}
  BY <1>3, SentAre
<1>6. ~dropped' /\ awaiting' = "none" /\ configuration' = configuration
  BY <1>1, <1>4, <1>5, CommandDoes
<1>7. answer' = <<answer'[1]>>
  BY <1>1, <1>5, CommandAnswers
<1>8. line \in {192, 207, 227, 244} => answer' = <<configuration>> /\ passed' = passed
  BY <1>1, CommandAnswers, SentAre
<1>9. line = 220 => (answer'[1] = {} <=> "AB" \in passed')
  BY <1>1, CommandAnswers, SentAre
<1>10. line \in {188, 192, 201, 207, 227, 244} => passed' = passed
  BY <1>1, CommandAnswers, SentAre
<1>11. Found' = answer'[1]
  BY <1>7 DEF Found
<1>12. line \notin DOMAIN Writes
  BY <1>3, SentAre
<1>13. InStep'
  BY <1>1, <1>6, <1>7, <1>8, <1>9, <1>11, <1>12 DEF InStep
<1>14. SetUpSoFar'
  BY <1>1, <1>2, <1>3, <1>6, <1>10 DEF SetUpSoFar
<1>. QED
  BY <1>13, <1>14 DEF Ps2Inv

LEMMA AfterReadDataPort == Ps2Inv /\ readDataPort => Ps2Inv'
<1>. SUFFICES ASSUME Ps2Inv, readDataPort, ~disturbed' PROVE Ps2Inv'
  BY DEF Ps2Inv
<1>1. /\ line \in DOMAIN Asks /\ asked /\ GoOn /\ ~disturbed /\ answer = << >>
      /\ UNCHANGED <<configuration, awaiting, port, answer, passed, dropped>>
  BY DEF readDataPort, controller
<1>2. InStep /\ SetUpSoFar
  BY <1>1 DEF Ps2Inv
<1>3. line \in {188, 192, 201, 207, 220, 227, 244}
  BY <1>1, <1>2, SentAre DEF SetUpSoFar
<1>4. ~dropped /\ awaiting = "none"
  BY <1>2, <1>3, SentAre DEF InStep
<1>5. InStep'
  BY <1>1, <1>4, NextLine DEF InStep
<1>6. /\ line \in {192, 207, 227, 244} => port = configuration
      /\ line = 220 => (port = {} <=> "AB" \in passed)
  BY <1>1, <1>2 DEF InStep, Found
<1>7. /\ line = 192 => configuration_byte' = port \cap {2, 3, 4, 6, 7}
      /\ line \in {207, 227, 244} => configuration_byte' = port
      /\ line \in {188, 201, 220} => configuration_byte' = configuration_byte
      /\ two_channel' = CASE line = 192 -> TRUE
                          [] line = 207 -> 4 \notin port
                          [] OTHER -> two_channel
      /\ status' = IF line = 220 THEN port ELSE status
  BY <1>3, SentAre DEF readDataPort
<1>8. CASE line = 188
  <2>1. line' = 191 /\ 4 \in configuration'
    BY <1>1, <1>2, <1>8, LineAfter DEF SetUpSoFar
  <2>. QED
    BY <1>5, <2>1 DEF Ps2Inv, SetUpSoFar
<1>9. CASE line = 192
  <2>1. two_channel' /\ 4 \in configuration_byte' /\ configuration_byte' \cap {0, 1} = {}
    BY <1>2, <1>6, <1>7, <1>9 DEF SetUpSoFar
  <2>2. line' = 195
    BY <1>1, <1>9, <2>1, LineAfter
  <2>. QED
    BY <1>5, <2>1, <2>2 DEF Ps2Inv, SetUpSoFar
<1>10. CASE line = 201
  <2>1. two_channel' /\ 4 \in configuration' /\ configuration' \cap {0, 1} = {}
    BY <1>1, <1>2, <1>7, <1>10 DEF SetUpSoFar
  <2>2. line' = 206
    BY <1>1, <1>10, <2>1, LineAfter
  <2>. QED
    BY <1>5, <2>1, <2>2 DEF Ps2Inv, SetUpSoFar
<1>11. CASE line = 207
  <2>1. ~two_channel' /\ 4 \in configuration' /\ configuration' \cap {0, 1} = {}
    <3>1. port = configuration /\ 4 \in configuration /\ configuration \cap {0, 1} = {}
      BY <1>2, <1>6, <1>11 DEF SetUpSoFar
    <3>2. two_channel' = (4 \notin port)
      BY <1>7, <1>11
    <3>. QED
      BY <1>1, <3>1, <3>2
  <2>2. line' = 220
    BY <1>1, <1>11, <2>1, LineAfter
  <2>. QED
    BY <1>5, <2>1, <2>2 DEF Ps2Inv, SetUpSoFar
<1>12. CASE line = 220
  <2>1. /\ ~two_channel' /\ 4 \in configuration' /\ configuration' \cap {0, 1} = {}
        /\ status' = {} <=> "AB" \in passed'
    BY <1>1, <1>2, <1>6, <1>7, <1>12 DEF SetUpSoFar
  <2>2. line' = IF status' = {} THEN 226 ELSE 244
    BY <1>1, <1>12, <2>1, LineAfter
  <2>3. CASE status' = {}
    BY <1>5, <2>1, <2>2, <2>3 DEF Ps2Inv, SetUpSoFar
  <2>4. CASE status' # {}
    BY <1>5, <2>1, <2>2, <2>4 DEF Ps2Inv, SetUpSoFar
  <2>. QED
    BY <2>3, <2>4
<1>13. CASE line = 227
  <2>1. /\ ~two_channel' /\ status' = {} /\ "AB" \in passed' /\ configuration' \cap {0, 1, 4} = {}
        /\ configuration_byte' = configuration'
    BY <1>1, <1>2, <1>6, <1>7, <1>13 DEF SetUpSoFar
  <2>2. line' = 228
    BY <1>1, <1>13, <2>1, LineAfter
  <2>. QED
    BY <1>5, <2>1, <2>2 DEF Ps2Inv, SetUpSoFar
<1>14. CASE line = 244
  <2>1. /\ ~two_channel' /\ 1 \notin configuration'
        /\ 4 \notin configuration' <=> "AB" \in passed'
        /\ 0 \in configuration' <=> "AB" \in passed'
    BY <1>1, <1>2, <1>7, <1>14 DEF SetUpSoFar
  <2>2. line' = 276
    BY <1>1, <1>14, <2>1, LineAfter
  <2>. QED
    BY <1>5, <2>1, <2>2 DEF Ps2Inv, SetUpSoFar
<1>. QED
  BY <1>3, <1>8, <1>9, <1>10, <1>11, <1>12, <1>13, <1>14

LEMMA AfterWriteCommand == Ps2Inv /\ writeCommand => Ps2Inv'
<1>. SUFFICES ASSUME Ps2Inv, writeCommand, ~disturbed' PROVE Ps2Inv'
  BY DEF Ps2Inv
<1>1. /\ line \in DOMAIN Writes /\ ~asked /\ Command(Writes[line])
      /\ UNCHANGED <<port, configuration_byte, two_channel, status>>
  BY DEF writeCommand
<1>2. ~disturbed /\ InStep /\ SetUpSoFar
  BY <1>1, CommandDoes DEF Ps2Inv
<1>3. line \in {198, 228, 276, 277}
  BY <1>1, <1>2, SentAre DEF SetUpSoFar
<1>4. ~dropped /\ awaiting = "none" /\ answer = << >>
  BY <1>1, <1>2 DEF InStep
<1>5. Writes[line] \in {"60", "D1", "D2"}
  BY <1>3, SentAre
<1>6. ~dropped' /\ awaiting' = Writes[line] /\ configuration' = configuration
  BY <1>1, <1>4, <1>5, CommandDoes
<1>7. answer' = << >> /\ passed' = passed
  BY <1>1, <1>4, <1>5, CommandAnswers
\* The byte is never 0, so the controller gets its parameter.
<1>8. ByteOf(line) # {}
  <2>1. line = 198 => 4 \in ByteOf(line)
    BY <1>2 DEF ByteOf, SetUpSoFar
  <2>2. line # 198 => 0 \in ByteOf(line)
    BY <1>3 DEF ByteOf, AllOnes
  <2>. QED
    BY <2>1, <2>2
<1>9. asked' = TRUE /\ line' = line
  BY <1>8 DEF writeCommand
<1>10. line \notin DOMAIN Asks
  BY <1>3, SentAre
<1>11. InStep'
  BY <1>1, <1>3, <1>6, <1>7, <1>9, <1>10 DEF InStep
<1>12. SetUpSoFar'
  BY <1>1, <1>2, <1>6, <1>7, <1>9 DEF SetUpSoFar
<1>. QED
  BY <1>11, <1>12 DEF Ps2Inv

LEMMA AfterWriteDataPort == Ps2Inv /\ writeDataPort => Ps2Inv'
<1>. SUFFICES ASSUME Ps2Inv, writeDataPort, ~disturbed' PROVE Ps2Inv'
  BY DEF Ps2Inv
<1>1. /\ line \in DOMAIN Writes /\ asked /\ Parameter(awaiting, ByteOf(line)) /\ GoOn
      /\ UNCHANGED <<answer, passed, configuration_byte, two_channel, status, disturbed, dropped>>
  BY DEF writeDataPort
<1>2. InStep /\ SetUpSoFar
  BY <1>1 DEF Ps2Inv
<1>3. line \in {198, 228, 276, 277}
  BY <1>1, <1>2, SentAre DEF SetUpSoFar
<1>4. line \notin DOMAIN Asks
  BY <1>3, SentAre
<1>5. ~dropped /\ awaiting = Writes[line] /\ answer = << >>
  BY <1>1, <1>2, <1>4 DEF InStep
<1>6. InStep'
  BY <1>1, <1>5, NextLine DEF InStep, Parameter
<1>7. configuration' = CASE line = 198 -> configuration_byte
                         [] line = 228 -> configuration_byte \cup {0}
                         [] OTHER -> configuration
  BY <1>1, <1>3, <1>5, SentAre DEF Parameter, ByteOf
<1>8. CASE line = 198
  <2>1. two_channel' /\ 4 \in configuration' /\ configuration' \cap {0, 1} = {}
    BY <1>1, <1>2, <1>7, <1>8 DEF SetUpSoFar
  <2>2. line' = 201
    BY <1>1, <1>8, LineAfter
  <2>. QED
    BY <1>6, <2>1, <2>2 DEF Ps2Inv, SetUpSoFar
<1>9. CASE line = 228
  <2>1. /\ ~two_channel' /\ "AB" \in passed'
        /\ 4 \notin configuration' /\ 0 \in configuration' /\ 1 \notin configuration'
    BY <1>1, <1>2, <1>7, <1>9 DEF SetUpSoFar
  <2>2. line' = 244
    BY <1>1, <1>9, LineAfter
  <2>. QED
    BY <1>6, <2>1, <2>2 DEF Ps2Inv, SetUpSoFar
<1>10. CASE line \in {276, 277}
  <2>1. /\ ~two_channel' /\ 1 \notin configuration'
        /\ 4 \notin configuration' <=> "AB" \in passed'
        /\ 0 \in configuration' <=> "AB" \in passed'
    BY <1>1, <1>2, <1>7, <1>10 DEF SetUpSoFar
  <2>2. line' \in {277, 283}
    BY <1>1, <1>10, <2>1, LineAfter
  <2>. QED
    BY <1>6, <2>1, <2>2 DEF Ps2Inv, SetUpSoFar
<1>. QED
  BY <1>3, <1>8, <1>9, <1>10

\* The steps that send nothing.
LEMMA AfterQuiet ==
  Ps2Inv /\ (initKeyboard \/ maskKeyboard \/ discard \/ unmaskKeyboard) => Ps2Inv'
<1>. SUFFICES ASSUME Ps2Inv, initKeyboard \/ maskKeyboard \/ discard \/ unmaskKeyboard, ~disturbed'
     PROVE  Ps2Inv'
  BY DEF Ps2Inv
<1>1. /\ line \in {176, 191, 280, 283}
      /\ UNCHANGED <<awaiting, answer, passed, two_channel, status, disturbed, dropped>>
      /\ line # 176 => configuration' = configuration
  BY DEF initKeyboard, maskKeyboard, discard, unmaskKeyboard, controller
<1>2. InStep /\ SetUpSoFar
  BY <1>1 DEF Ps2Inv
<1>3. line \in {176, 191, 283} /\ line \notin DOMAIN Asks /\ line \notin DOMAIN Writes
  BY <1>1, <1>2, SentAre DEF SetUpSoFar
<1>4. ~asked /\ ~dropped /\ awaiting = "none" /\ answer = << >>
  BY <1>2, <1>3 DEF InStep
<1>5. ~asked' /\ (line = 176 => line' = 184) /\ (line # 176 => GoOn)
  BY <1>4, NextLine DEF initKeyboard, maskKeyboard, discard, unmaskKeyboard
<1>6. InStep'
  BY <1>1, <1>4, <1>5 DEF InStep
<1>7. CASE line = 176
  BY <1>5, <1>6, <1>7 DEF Ps2Inv, SetUpSoFar
<1>8. CASE line = 191
  <2>1. line' = 192 /\ 4 \in configuration'
    BY <1>1, <1>2, <1>5, <1>8, LineAfter DEF SetUpSoFar
  <2>. QED
    BY <1>6, <2>1 DEF Ps2Inv, SetUpSoFar
<1>9. CASE line = 283
  <2>1. /\ ~two_channel' /\ 1 \notin configuration'
        /\ 4 \notin configuration' <=> "AB" \in passed'
        /\ 0 \in configuration' <=> "AB" \in passed'
    BY <1>1, <1>2, <1>9 DEF SetUpSoFar
  <2>2. line' = 284
    BY <1>5, <1>9, LineAfter
  <2>. QED
    BY <1>6, <2>1, <2>2 DEF Ps2Inv, SetUpSoFar
<1>. QED
  BY <1>3, <1>7, <1>8, <1>9

\* What the controller, the keys and the interrupt do on their own.
LEMMA AfterDevice == Ps2Inv /\ (Answer \/ PressKey \/ serveKeyboard) => Ps2Inv'
<1>. SUFFICES ASSUME Ps2Inv, Answer \/ PressKey \/ serveKeyboard, ~disturbed' PROVE Ps2Inv'
  BY DEF Ps2Inv
<1>1. /\ UNCHANGED <<configuration, awaiting, passed, program, dropped>> /\ ~disturbed
  <2>1. CASE Answer
    BY <2>1 DEF Answer
  <2>2. CASE PressKey
    BY <2>2 DEF PressKey
  <2>3. CASE serveKeyboard
    BY <2>3 DEF serveKeyboard, controller
  <2>. QED
    BY <2>1, <2>2, <2>3
<1>2. InStep /\ SetUpSoFar
  BY <1>1 DEF Ps2Inv
<1>3. SetUpSoFar'
  BY <1>1, <1>2 DEF SetUpSoFar, program
<1>4. answer' = << >> \/ answer' = answer
  BY DEF Answer, PressKey, serveKeyboard, controller
<1>5. asked /\ line \in DOMAIN Asks => Found' = Found
  <2>1. CASE Answer
    BY <2>1 DEF Answer, Found
  <2>2. CASE PressKey
    BY <2>2 DEF PressKey
  <2>3. CASE serveKeyboard
    BY <2>3 DEF serveKeyboard, controller, Found
  <2>. QED
    BY <2>1, <2>2, <2>3
<1>6. {192, 207, 227, 244, 220} \subseteq DOMAIN Asks
  BY SentAre
<1>7. InStep'
  BY <1>1, <1>2, <1>4, <1>5, <1>6 DEF InStep, program
<1>. QED
  BY <1>3, <1>7 DEF Ps2Inv

\* Whatever configuration the firmware leaves and whatever the tests answer: unless an
\* answer was late, a key came before one or the self-test reset the controller, port 1
\* ends up enabled with its interrupt exactly if it passed its test (ps2.c:226), and
\* no command was sent while the controller waited for a parameter (ps2.c:58).
THEOREM EnabledOnlyIfTested == Ps2Spec => []EnabledIfTested
<1>1. Ps2Init => Ps2Inv
  <2>1. 176 \notin DOMAIN Asks /\ 176 \notin DOMAIN Writes
    BY SentAre
  <2>. QED
    BY <2>1 DEF Ps2Init, Ps2Inv, InStep, SetUpSoFar
<1>2. Ps2Inv /\ [Ps2Next]_ps2Vars => Ps2Inv'
  <2>1. Ps2Inv /\ UNCHANGED ps2Vars => Ps2Inv'
    BY DEF Ps2Inv, InStep, SetUpSoFar, Found, ps2Vars, controller, program, irq
  <2>. QED
    BY <2>1, AfterPlain, AfterAsk, AfterReadDataPort, AfterWriteCommand, AfterWriteDataPort,
       AfterQuiet, AfterDevice DEF Ps2Next
<1>3. Ps2Inv => EnabledIfTested
  BY DEF Ps2Inv, InStep, SetUpSoFar, EnabledIfTested
<1>. QED
  BY <1>1, <1>2, <1>3, PTL DEF Ps2Spec

------------------------------------------------------------------------------
\* The two 8259 and the handlers they serve.  What is in service is what the handler
\* that runs was given, in one chip or in both, so one sendEOIPIC ends all of it.

\* The interrupts in service in chip c while pin, an interrupt line, is served.
InService(c, pin) ==
  IF pin = NoLine THEN {}
  ELSE IF c = ChipOf(pin) THEN {BitOf(pin)}
  ELSE IF c = 1 THEN {Cascade}
  ELSE {}

ServesWhatIsInService == \A c \in Chips : isr[c] = InService(c, serving)

\* The devices' lines the kernel masked are masked in their chip.
MaskedUnlessEnabled ==
  \A pin \in Devices \ enabled : BitOf(pin) \in imr[ChipOf(pin)]

DriverInv ==
  /\ DriverTypeOK
  /\ serving \in Devices \cup {NoLine}
  /\ ServesWhatIsInService
  /\ MaskedUnlessEnabled

------------------------------------------------------------------------------
\* A line is known by its chip and its bit.
LEMMA LineOfBit ==
  ASSUME NEW pin \in Lines
  PROVE  /\ ChipOf(pin) \in Chips /\ BitOf(pin) \in Bits
         /\ pin < 8 => ChipOf(pin) = 1 /\ BitOf(pin) = pin
         /\ pin >= 8 => ChipOf(pin) = 2 /\ BitOf(pin) = pin - 8
         /\ pin # NoLine
BY DEF Lines, ChipOf, BitOf, Chips, Bits, NoLine

\* Two lines are the same if their chip and bit are.
LEMMA LineUnique ==
  ASSUME NEW pin \in Lines, NEW other \in Lines,
         ChipOf(pin) = ChipOf(other), BitOf(pin) = BitOf(other)
  PROVE  pin = other
BY DEF Lines, ChipOf, BitOf

LEMMA DeviceLine == \A pin \in Devices : pin \in Lines /\ pin # Cascade
BY DevicesAssumption

\* A set of bits that is not empty has a lowest one.
LEMMA MinOfBits ==
  ASSUME NEW S \in SUBSET Bits, S # {}
  PROVE  Min(S) \in S
<1>1. \E x \in S : \A y \in S : x =< y
  <2>. SUFFICES ASSUME \A x \in S : \E y \in S : y < x PROVE FALSE
    BY DEF Bits
  <2>0. 0 \notin S BY DEF Bits
  <2>1. 1 \notin S BY <2>0 DEF Bits
  <2>2. 2 \notin S BY <2>0, <2>1 DEF Bits
  <2>3. 3 \notin S BY <2>0, <2>1, <2>2 DEF Bits
  <2>4. S \cap 0 .. 3 = {} BY <2>0, <2>1, <2>2, <2>3 DEF Bits
  <2>5. 4 \notin S BY <2>4 DEF Bits
  <2>6. 5 \notin S BY <2>4, <2>5 DEF Bits
  <2>7. 6 \notin S BY <2>4, <2>5, <2>6 DEF Bits
  <2>8. 7 \notin S BY <2>4, <2>5, <2>6, <2>7 DEF Bits
  <2>9. \A x \in Bits : x \in 0 .. 3 \/ x = 4 \/ x = 5 \/ x = 6 \/ x = 7
    BY DEF Bits
  <2>10. QED BY <2>4, <2>5, <2>6, <2>7, <2>8, <2>9, Zenon
<1>2. QED BY <1>1 DEF Min

\* An end of interrupt ends a bit that is alone in service.
LEMMA EndedSingleton ==
  ASSUME NEW b \in Bits
  PROVE  Ended({b}) = {}
<1>1. Min({b}) = b
  BY MinOfBits
<1>2. QED BY <1>1 DEF Ended

\* What the CPU is given has an edge on an unmasked line of its chip.
LEMMA AcknowledgedUnmasked ==
  ASSUME TypeOK, NEW pin \in Devices, pin = Next8259
  PROVE  BitOf(pin) \notin imr[ChipOf(pin)]
<1>. USE DEF Chips
<1>1. pin \in Lines /\ pin # Cascade
  BY DeviceLine
<1>2. Requests2 \subseteq Bits /\ Requests2 \cap imr[2] = {}
  BY DEF Requests2, Asking, TypeOK
<1>3. Requests1 \subseteq Bits /\ Requests1 \cap imr[1] = {}
  BY DEF Requests1, Asking, TypeOK, Bits, Cascade
<1>4. Requests1 # {}
  BY <1>1, LineOfBit DEF Next8259
<1>5. Min(Requests1) \in Requests1
  BY <1>3, <1>4, MinOfBits
<1>6. CASE Min(Requests1) = Cascade /\ Requests2 # {}
  <2>1. Min(Requests2) \in Requests2
    BY <1>2, <1>6, MinOfBits
  <2>2. PICK b \in Bits : b = Min(Requests2)
    BY <2>1, <1>2
  <2>3. pin = 8 + b
    BY <1>4, <1>6, <2>2 DEF Next8259
  <2>4. ChipOf(pin) = 2 /\ BitOf(pin) = b
    BY <2>3, <1>1, LineOfBit DEF Bits, Lines
  <2>5. QED BY <2>1, <2>2, <2>4, <1>2
<1>7. CASE ~(Min(Requests1) = Cascade /\ Requests2 # {})
  <2>1. pin = Min(Requests1)
    BY <1>4, <1>7 DEF Next8259
  <2>2. ChipOf(pin) = 1 /\ BitOf(pin) = pin
    BY <2>1, <1>5, <1>3, <1>1, LineOfBit DEF Bits, Lines
  <2>3. QED BY <2>1, <2>2, <1>3, <1>5
<1>8. QED BY <1>6, <1>7

------------------------------------------------------------------------------
LEMMA InitInv == DriverInit => DriverInv
<1>. SUFFICES ASSUME DriverInit PROVE DriverInv
  OBVIOUS
<1>1. DriverTypeOK
  BY DEF DriverInit, DriverTypeOK, TypeOK, Chips, Bits, Lines, Cascade, NoLine
<1>2. ServesWhatIsInService
  BY DEF DriverInit, ServesWhatIsInService, InService, Chips
<1>3. MaskedUnlessEnabled
  <2>. SUFFICES ASSUME NEW pin \in Devices PROVE BitOf(pin) \in imr[ChipOf(pin)]
    BY DEF MaskedUnlessEnabled
  <2>1. ChipOf(pin) \in Chips /\ BitOf(pin) \in Bits /\ (ChipOf(pin) = 1 => BitOf(pin) # Cascade)
    BY DeviceLine, LineOfBit DEF Lines, Cascade
  <2>2. QED BY <2>1 DEF DriverInit
<1>4. QED BY <1>1, <1>2, <1>3 DEF DriverInv, DriverInit

\* A line that is masked or unmasked changes one bit of one mask.
LEMMA MaskStep ==
  ASSUME DriverInv, NEW pin \in Devices, Mask(pin)
  PROVE  DriverInv'
<1>. USE DEF Mask, setMaskIRQ
<1>1. pin \in Lines /\ ChipOf(pin) \in Chips /\ BitOf(pin) \in Bits
  BY DeviceLine, LineOfBit
<1>2. DriverTypeOK'
  BY <1>1 DEF DriverInv, DriverTypeOK, TypeOK
<1>3. ServesWhatIsInService'
  BY DEF DriverInv, ServesWhatIsInService, InService
<1>4. MaskedUnlessEnabled'
  <2>. SUFFICES ASSUME NEW other \in Devices \ enabled'
                PROVE  BitOf(other) \in imr'[ChipOf(other)]
    BY DEF MaskedUnlessEnabled
  <2>1. ChipOf(other) \in Chips /\ other \in Lines
    BY DeviceLine, LineOfBit
  <2>2. CASE other = pin
    BY <1>1, <2>2 DEF DriverInv, DriverTypeOK, TypeOK
  <2>3. CASE other # pin
    BY <1>1, <2>1, <2>3 DEF DriverInv, DriverTypeOK, TypeOK, MaskedUnlessEnabled
  <2>4. QED BY <2>2, <2>3
<1>5. QED BY <1>2, <1>3, <1>4 DEF DriverInv

LEMMA UnmaskStep ==
  ASSUME DriverInv, NEW pin \in Devices, Unmask(pin)
  PROVE  DriverInv'
<1>. USE DEF Unmask, clearMaskIRQ
<1>1. pin \in Lines /\ ChipOf(pin) \in Chips /\ BitOf(pin) \in Bits
  BY DeviceLine, LineOfBit
<1>2. DriverTypeOK'
  BY <1>1 DEF DriverInv, DriverTypeOK, TypeOK
<1>3. ServesWhatIsInService'
  BY DEF DriverInv, ServesWhatIsInService, InService
<1>4. MaskedUnlessEnabled'
  <2>. SUFFICES ASSUME NEW other \in Devices \ enabled'
                PROVE  BitOf(other) \in imr'[ChipOf(other)]
    BY DEF MaskedUnlessEnabled
  <2>1. ChipOf(other) \in Chips /\ other \in Lines /\ other # pin /\ other \notin enabled
    BY DeviceLine, LineOfBit
  <2>2. BitOf(other) \in imr[ChipOf(other)]
    BY <2>1 DEF DriverInv, MaskedUnlessEnabled
  <2>3. ChipOf(other) # ChipOf(pin) \/ BitOf(other) # BitOf(pin)
    BY <1>1, <2>1, LineUnique
  <2>4. QED BY <1>1, <2>1, <2>2, <2>3 DEF DriverInv, DriverTypeOK, TypeOK
<1>5. QED BY <1>2, <1>3, <1>4 DEF DriverInv

\* The CPU takes an interrupt while it serves none: then nothing was in service.
LEMMA ServeStep ==
  ASSUME DriverInv, NEW pin \in Devices, Serve(pin)
  PROVE  DriverInv'
<1>. USE DEF Serve, Acknowledge
<1>1. pin \in Lines /\ ChipOf(pin) \in Chips /\ BitOf(pin) \in Bits /\ pin # NoLine
  BY DeviceLine, LineOfBit
<1>2. \A c \in Chips : isr[c] = {}
  BY DEF DriverInv, ServesWhatIsInService, InService
<1>3. \A c \in Chips : isr'[c] = InService(c, pin)
  BY <1>1, <1>2 DEF InService
<1>4. \A c \in Chips : InService(c, pin) \in SUBSET Bits
  BY <1>1 DEF InService, Cascade, Bits
<1>5. DriverTypeOK'
  BY <1>1, <1>3, <1>4 DEF DriverInv, DriverTypeOK, TypeOK
<1>6. ServesWhatIsInService'
  BY <1>3 DEF ServesWhatIsInService, InService
<1>7. MaskedUnlessEnabled'
  BY DEF DriverInv, MaskedUnlessEnabled
<1>8. QED BY <1>5, <1>6, <1>7 DEF DriverInv

\* The end of the handler ends what it served, in both chips if it has to.
LEMMA FinishStep ==
  ASSUME DriverInv, Finish
  PROVE  DriverInv'
<1>. USE DEF Finish, sendEOIPIC
<1>1. serving \in Devices /\ serving \in Lines
  BY DeviceLine DEF DriverInv
<1>2. \A c \in Chips : isr[c] = InService(c, serving)
  BY DEF DriverInv, ServesWhatIsInService
<1>3. \A c \in Chips : isr'[c] = {}
  <2>. SUFFICES ASSUME NEW c \in Chips PROVE isr'[c] = {}
    OBVIOUS
  <2>1. CASE c = 1 \/ serving >= 8
    <3>1. PICK b \in Bits : isr[c] = {b}
      BY <1>1, <1>2, <2>1, LineOfBit DEF InService, Chips, Bits, Cascade
    <3>2. isr'[c] = Ended(isr[c])
      BY <2>1
    <3>3. QED BY <3>1, <3>2, EndedSingleton
  <2>2. CASE c # 1 /\ serving < 8
    <3>1. isr[c] = {}
      BY <1>1, <1>2, <2>2, LineOfBit DEF InService
    <3>2. isr'[c] = isr[c]
      BY <1>1, <2>2 DEF Lines
    <3>3. QED BY <3>1, <3>2
  <2>3. QED BY <1>1, <2>1, <2>2 DEF Lines
<1>4. DriverTypeOK'
  BY <1>3 DEF DriverInv, DriverTypeOK, TypeOK
<1>5. ServesWhatIsInService'
  BY <1>3 DEF ServesWhatIsInService, InService
<1>6. MaskedUnlessEnabled'
  BY DEF DriverInv, MaskedUnlessEnabled
<1>7. QED BY <1>4, <1>5, <1>6 DEF DriverInv

LEMMA StepInv == DriverInv /\ [DriverNext]_driverVars => DriverInv'
<1>. SUFFICES ASSUME DriverInv, [DriverNext]_driverVars PROVE DriverInv'
  OBVIOUS
<1>1. ASSUME NEW pin \in Devices, Device(pin) PROVE DriverInv'
  <2>1. pin \in Lines /\ ChipOf(pin) \in Chips /\ BitOf(pin) \in Bits
    BY DeviceLine, LineOfBit
  <2>2. QED BY <1>1, <2>1 DEF Device, Raise, DriverInv, DriverTypeOK, TypeOK,
                              ServesWhatIsInService, InService, MaskedUnlessEnabled
<1>2. ASSUME NEW pin \in Devices, Mask(pin) PROVE DriverInv'
  BY <1>2, MaskStep
<1>3. ASSUME NEW pin \in Devices, Unmask(pin) PROVE DriverInv'
  BY <1>3, UnmaskStep
<1>4. ASSUME NEW pin \in Devices, Serve(pin) PROVE DriverInv'
  BY <1>4, ServeStep
<1>5. CASE UnmaskAll
  BY <1>5 DEF UnmaskAll, enableAllIRQs, DriverInv, DriverTypeOK, TypeOK,
              ServesWhatIsInService, InService, MaskedUnlessEnabled
<1>6. CASE MaskAll
  <2>1. \A pin \in Devices : ChipOf(pin) \in Chips /\ BitOf(pin) \in Bits
    BY DeviceLine, LineOfBit
  <2>2. QED BY <1>6, <2>1 DEF MaskAll, disableAllIRQs, DriverInv, DriverTypeOK, TypeOK,
                              ServesWhatIsInService, InService, MaskedUnlessEnabled
<1>7. CASE Remap
  BY <1>7 DEF Remap, remapPIC, DriverInv, DriverTypeOK, TypeOK,
              ServesWhatIsInService, InService, MaskedUnlessEnabled
<1>8. CASE Finish
  BY <1>8, FinishStep
<1>9. CASE UNCHANGED driverVars
  BY <1>9 DEF driverVars, DriverInv, DriverTypeOK, TypeOK,
              ServesWhatIsInService, InService, MaskedUnlessEnabled
<1>10. QED BY <1>1, <1>2, <1>3, <1>4, <1>5, <1>6, <1>7, <1>8, <1>9 DEF DriverNext

\* The invariant holds of every behaviour of the driver.
LEMMA AlwaysInv == DriverSpec => []DriverInv
BY InitInv, StepInv, PTL DEF DriverSpec

------------------------------------------------------------------------------
\* With any devices, interrupts in any order, and lines masked and unmasked at any
\* moment: the registers keep their types, and when no handler runs nothing is in
\* service in either chip, so no line is blocked (sendEOIPIC, pic.c:28).
THEOREM NothingBlocked == DriverSpec => [](DriverTypeOK /\ NothingLeftInService)
<1>1. DriverInv => DriverTypeOK /\ NothingLeftInService
  BY DEF DriverInv, ServesWhatIsInService, InService, NothingLeftInService
<1>2. QED BY <1>1, AlwaysInv, PTL

\* The handler of a line the kernel has masked never starts, whichever chip the line is
\* on (setMaskIRQ, pic.c:36).
THEOREM MaskedNotServed == DriverSpec => OnlyEnabledServed
<1>. DEFINE StartsEnabled == serving' # serving => serving' \in enabled \cup {NoLine}
<1>1. ASSUME DriverInv, DriverNext PROVE StartsEnabled
  <2>1. ASSUME NEW pin \in Devices, Serve(pin) PROVE StartsEnabled
    <3>1. BitOf(pin) \notin imr[ChipOf(pin)]
      BY <1>1, <2>1, AcknowledgedUnmasked DEF Serve, Acknowledge, DriverInv, DriverTypeOK
    <3>2. pin \in enabled
      BY <1>1, <3>1 DEF DriverInv, MaskedUnlessEnabled
    <3>3. QED BY <2>1, <3>2 DEF Serve
  <2>2. CASE Finish
    BY <2>2 DEF Finish
  <2>3. CASE serving' = serving
    BY <2>3
  <2>4. QED BY <1>1, <2>1, <2>2, <2>3
           DEF DriverNext, Device, Mask, Unmask, UnmaskAll, MaskAll, Remap
<1>2. DriverInv /\ [DriverNext]_driverVars => [StartsEnabled]_driverVars
  BY <1>1
<1>3. QED BY <1>2, AlwaysInv, PTL DEF DriverSpec, OnlyEnabledServed

------------------------------------------------------------------------------
\* The types of the 8042's registers and of initKeyboard's variables.
Ps2Types ==
  /\ Ps2TypeOK
  /\ answer = << >> \/ (answer = <<answer[1]>> /\ answer[1] \subseteq 0 .. 7)

LEMMA OneByte ==
  ASSUME NEW byte, byte \subseteq 0 .. 7
  PROVE  Len(<<byte>>) <= 1 /\ <<byte>>[1] \subseteq 0 .. 7 /\ Len(<< >>) <= 1
OBVIOUS

\* What a command leaves in the controller has the right type.
LEMMA CommandTypes ==
  ASSUME NEW c, Ps2Types, Command(c)
  PROVE  /\ configuration' \subseteq 0 .. 7
         /\ awaiting' \in {"none", "60", "D1", "D2", "D3"}
         /\ answer' = << >> \/ (answer' = <<answer'[1]>> /\ answer'[1] \subseteq 0 .. 7)
         /\ Len(answer') <= 1
<1>1. configuration \subseteq 0 .. 7
  BY DEF Ps2Types, Ps2TypeOK
<1>2. configuration' \subseteq 0 .. 7
  <2>1. \/ configuration' = {}
        \/ configuration' = CASE c = "AD" -> configuration \cup {4}
                              [] c = "AE" -> configuration \ {4}
                              [] c = "A7" -> configuration \cup {5}
                              [] c = "A8" -> configuration \ {5}
                              [] OTHER -> configuration
    BY DEF Command
  <2>2. CASE c \in {"AD", "AE", "A7", "A8"}
    BY <1>1, <2>1, <2>2
  <2>3. CASE c \notin {"AD", "AE", "A7", "A8"}
    BY <1>1, <2>1, <2>3
  <2> QED BY <2>2, <2>3
<1>3. awaiting' \in {"none", "60", "D1", "D2", "D3"}
  BY DEF Command
<1>4. answer' = answer \/ \E byte : byte \subseteq 0 .. 7 /\ answer' = <<byte>>
  <2>1. PICK result \in TestResults :
          answer' = CASE c \in {"AB", "A9"} -> <<result>>
                      [] c = "20" -> <<configuration>>
                      [] c = "AA" -> <<SelfTestPassed>>
                      [] c = "D0" -> <<AllOnes>>
                      [] OTHER -> answer
    BY DEF Command
  <2>2. result \subseteq 0 .. 7 /\ SelfTestPassed \subseteq 0 .. 7 /\ AllOnes \subseteq 0 .. 7
    BY Ps2Assumption DEF SelfTestPassed, AllOnes
  <2>3. answer' \in {answer, <<result>>, <<configuration>>, <<SelfTestPassed>>, <<AllOnes>>}
    BY <2>1
  <2> QED BY <1>1, <2>2, <2>3
<1>5. CASE answer' = answer
  BY <1>2, <1>3, <1>5 DEF Ps2Types, Ps2TypeOK
<1>6. CASE \E byte : byte \subseteq 0 .. 7 /\ answer' = <<byte>>
  <2>1. PICK byte : byte \subseteq 0 .. 7 /\ answer' = <<byte>>
    BY <1>6
  <2>2. Len(answer') <= 1 /\ answer'[1] = byte
    BY <2>1, OneByte
  <2> QED BY <1>2, <1>3, <2>1, <2>2
<1> QED BY <1>4, <1>5, <1>6

LEMMA ByteTypes ==
  ASSUME Ps2Types, NEW l
  PROVE  ByteOf(l) \subseteq 0 .. 7
BY DEF Ps2Types, Ps2TypeOK, ByteOf, AllOnes

LEMMA GoOnTypes == GoOn => line' = 176 \/ \E k \in DOMAIN Steps : line' = Steps[k]
BY DEF GoOn

LEMMA Ps2TypesStart == Ps2Init => Ps2Types
BY OneByte DEF Ps2Init, Ps2Types, Ps2TypeOK

LEMMA Ps2TypesKept == Ps2Types /\ [Ps2Next]_ps2Vars => Ps2Types'
<1> SUFFICES ASSUME Ps2Types, [Ps2Next]_ps2Vars PROVE Ps2Types'
  OBVIOUS
<1> DEFINE Line == line = 176 \/ \E k \in DOMAIN Steps : line = Steps[k]
<1>0. /\ configuration \subseteq 0 .. 7 /\ port \subseteq 0 .. 7 /\ configuration_byte \subseteq 0 .. 7
      /\ awaiting \in {"none", "60", "D1", "D2", "D3"} /\ Len(answer) <= 1 /\ Line
      /\ answer = << >> \/ (answer = <<answer[1]>> /\ answer[1] \subseteq 0 .. 7)
  BY DEF Ps2Types, Ps2TypeOK
<1>1. GoOn => Line'
  BY GoOnTypes
<1>s. line' = line => Line'
  BY <1>0
<1>2. CASE initKeyboard
  <2>1. configuration' \subseteq 0 .. 7
    BY <1>2, Ps2Assumption DEF initKeyboard
  <2>2. Line'
    <3>1. 1 \in DOMAIN Steps /\ Steps[1] = 184
      BY DEF Steps
    <3> QED BY <1>2, <3>1 DEF initKeyboard
  <2> HIDE DEF Line
  <2> QED BY <1>0, <1>2, <2>1, <2>2 DEF initKeyboard, Ps2Types, Ps2TypeOK, Line
<1>3. CASE writeCommandRegister \/ ask \/ writeCommand
  <2>1. \E c : Command(c)
    BY <1>3 DEF writeCommandRegister, ask, writeCommand
  <2>2. UNCHANGED <<port, configuration_byte>> /\ (GoOn \/ line' = line)
    BY <1>3 DEF writeCommandRegister, ask, writeCommand
  <2>3. Line'
    BY <1>1, <1>s, <2>2
  <2> QED BY <1>0, <2>1, <2>2, <2>3, CommandTypes DEF Ps2Types, Ps2TypeOK
<1>4. CASE readDataPort
  <2>1. /\ UNCHANGED <<configuration, awaiting, port, answer>> /\ GoOn
        /\ configuration_byte' \in {port \cap {2, 3, 4, 6, 7}, port, configuration_byte}
    BY <1>4 DEF readDataPort, controller
  <2>2. configuration_byte' \subseteq 0 .. 7
    BY <1>0, <2>1
  <2> QED BY <1>0, <1>1, <2>1, <2>2 DEF Ps2Types, Ps2TypeOK
<1>5. CASE writeDataPort
  <2>1. /\ UNCHANGED <<answer, configuration_byte>> /\ GoOn /\ awaiting' = "none"
        /\ configuration' \in {ByteOf(line), configuration} /\ port' \in {ByteOf(line), port}
    BY <1>5 DEF writeDataPort, Parameter
  <2>2. configuration' \subseteq 0 .. 7 /\ port' \subseteq 0 .. 7
    BY <1>0, <2>1, ByteTypes
  <2> QED BY <1>0, <1>1, <2>1, <2>2 DEF Ps2Types, Ps2TypeOK
<1>6. CASE maskKeyboard \/ discard \/ unmaskKeyboard
  <2>1. UNCHANGED <<configuration, awaiting, port, answer, configuration_byte>> /\ GoOn
    BY <1>6 DEF maskKeyboard, discard, unmaskKeyboard, controller
  <2> QED BY <1>0, <1>1, <2>1 DEF Ps2Types, Ps2TypeOK
<1>7. CASE Answer
  <2>1. UNCHANGED <<configuration, awaiting, configuration_byte, line>>
        /\ port' = answer[1] /\ answer # << >> /\ answer' = << >>
    BY <1>7 DEF Answer, program
  <2>2. port' \subseteq 0 .. 7 /\ Len(answer') <= 1
    BY <1>0, <2>1, OneByte
  <2> QED BY <1>0, <1>s, <2>1, <2>2 DEF Ps2Types, Ps2TypeOK
<1>8. CASE PressKey
  <2>1. UNCHANGED <<configuration, awaiting, answer, configuration_byte, line>> /\ port' \subseteq 0 .. 7
    BY <1>8, Ps2Assumption DEF PressKey, program
  <2> QED BY <1>0, <1>s, <2>1 DEF Ps2Types, Ps2TypeOK
<1>9. CASE serveKeyboard \/ UNCHANGED ps2Vars
  <2>1. UNCHANGED <<configuration, awaiting, port, answer, configuration_byte, line>>
    BY <1>9 DEF serveKeyboard, ps2Vars, controller, program
  <2> QED BY <1>0, <1>s, <2>1 DEF Ps2Types, Ps2TypeOK
<1> QED BY <1>2, <1>3, <1>4, <1>5, <1>6, <1>7, <1>8, <1>9 DEF Ps2Next

LEMMA PutFits ==
  ASSUME NEW fifo \in Seq(Bytes), NEW byte \in Bytes, Len(fifo) <= FifoSize
  PROVE  Len(Put(fifo, byte)) <= FifoSize
BY SerialAssumption DEF Put

LEMMA ShorterFits ==
  ASSUME NEW fifo \in Seq(Bytes), Len(fifo) <= FifoSize
  PROVE  Len(<< >>) <= FifoSize /\ (fifo # << >> => Len(Tail(fifo)) <= FifoSize)
BY SerialAssumption

LEMMA FifosStep == SerialInv /\ FifosFit /\ [SerialNext]_serialVars => FifosFit'
<1> SUFFICES ASSUME SerialInv, FifosFit, [SerialNext]_serialVars PROVE FifosFit'
  OBVIOUS
<1>0. rx \in Seq(Bytes) /\ thr \in Seq(Bytes) /\ toSend \in Seq(Bytes)
      /\ Len(rx) <= FifoSize /\ Len(thr) <= FifoSize /\ writes \in 0 .. 9
  BY DEF SerialInv, FifosFit
<1>1. ASSUME NEW offset, NEW value \in Bytes, outb(offset, value) PROVE FifosFit'
  <2>1. thr' \in {<< >>, Put(thr, value), thr} /\ rx' \in {<< >>, rx}
    BY <1>1 DEF outb
  <2> QED BY <1>0, <2>1, PutFits, ShorterFits DEF FifosFit
<1>2. CASE initSerial
  <2>1. writes + 1 \in 1 .. 9
    <3>1. Len(InitWrites) = 9
      BY DEF InitWrites
    <3> QED BY <1>0, <1>2, <3>1 DEF initSerial
  <2>2. \A k \in 1 .. 9 : InitWrites[k][2] \in Bytes
    BY DEF InitWrites, TestByte, Bytes
  <2> QED BY <1>1, <1>2, <2>1, <2>2 DEF initSerial
<1>3. CASE testSerial
  <2>1. thr' = thr /\ (rx' = rx \/ (rx # << >> /\ rx' = Tail(rx)))
    BY <1>3 DEF testSerial
  <2> QED BY <1>0, <2>1, ShorterFits DEF FifosFit
<1>4. CASE writeSerial
  <2>1. Head(toSend) \in Bytes
    BY <1>0, <1>4 DEF writeSerial
  <2> QED BY <1>1, <1>4, <2>1 DEF writeSerial
<1>5. CASE readSerial
  <2>1. thr' = thr /\ rx # << >> /\ rx' = Tail(rx)
    BY <1>5 DEF readSerial
  <2> QED BY <1>0, <2>1, ShorterFits DEF FifosFit
<1>6. CASE Transmit
  <2>1. thr # << >> /\ thr' = Tail(thr) /\ rx' \in {rx, Put(rx, Head(thr))}
    BY <1>6 DEF Transmit
  <2>2. Head(thr) \in Bytes
    BY <1>0, <2>1
  <2> QED BY <1>0, <2>1, <2>2, PutFits, ShorterFits DEF FifosFit
<1>7. ASSUME NEW byte \in LineBytes, LineByte(byte) PROVE FifosFit'
  <2>1. thr' = thr /\ rx' = Put(rx, byte) /\ byte \in Bytes
    BY <1>7, SerialAssumption DEF LineByte, Bytes
  <2> QED BY <1>0, <2>1, PutFits DEF FifosFit
<1>8. ASSUME NEW message \in Messages, writeSerialString(message) PROVE FifosFit'
  BY <1>8 DEF writeSerialString, uart, FifosFit
<1>9. ASSUME NEW length \in Lengths, readSerialString(length) PROVE FifosFit'
  BY <1>9 DEF readSerialString, uart, FifosFit
<1>10. CASE writtenAll \/ readAll \/ UNCHANGED serialVars
  BY <1>10 DEF writtenAll, readAll, serialVars, uart, FifosFit
<1> QED BY <1>2, <1>3, <1>4, <1>5, <1>6, <1>7, <1>8, <1>9, <1>10 DEF SerialNext, SerialDriver

\* A behaviour of the devices side by side is one of each of them.
LEMMA StepOfEach ==
  [Next]_MCvars => [DriverNext]_driverVars /\ [Ps2Next]_ps2Vars /\ [SerialNext]_serialVars
                   /\ [KeyboardNext]_keyboardVars /\ [PciNext]_pciVars
<1> SUFFICES ASSUME [Next]_MCvars
             PROVE  /\ [DriverNext]_driverVars /\ [Ps2Next]_ps2Vars /\ [SerialNext]_serialVars
                    /\ [KeyboardNext]_keyboardVars /\ [PciNext]_pciVars
  OBVIOUS
<1>1. CASE PicStep
  BY <1>1 DEF PicStep
<1>2. CASE Ps2Step
  BY <1>2 DEF Ps2Step
<1>3. CASE KeyboardStep
  BY <1>3 DEF KeyboardStep
<1>4. CASE SerialStep
  BY <1>4 DEF SerialStep
<1>5. CASE PciStep
  BY <1>5 DEF PciStep
<1>6. CASE UNCHANGED MCvars
  BY <1>6 DEF MCvars
<1> QED BY <1>1, <1>2, <1>3, <1>4, <1>5, <1>6 DEF Next

\* What the serial driver's invariants say of its types.
LEMMA SerialTypes == SerialInv /\ FifosFit /\ ReadSoFar => SerialTypeOK
<1> SUFFICES ASSUME SerialInv, FifosFit, ReadSoFar PROVE SerialTypeOK
  OBVIOUS
<1>1. RegisterSizes
  BY DEF SerialInv, Registers, RegisterSizes
<1>2. serialStage \in {"init", "idle", "write", "read"}
  BY DEF SerialInv
<1>3. buffer \in [Buffer -> {Unset} \cup 0 .. 255]
  BY DEF ReadSoFar, Bytes
<1> QED BY <1>1, <1>2, <1>3 DEF SerialTypeOK

\* For every configuration byte, FIFO size, message and length: the registers and the
\* variables of the drivers keep their types, no FIFO holds more than it has room for,
\* no answer of the 8042 is lost behind another, the numbers of the registers of the
\* I/O APIC and of the vectors stay bytes, and what readSerialString stores lies in
\* the memory that is modelled.
THEOREM DeviceTypes == Spec => []DevicesTypeOK
<1>1. Init => DriverInv /\ Ps2Types /\ SerialInv /\ FifosFit /\ ReadSoFar /\ PciTypes
  <2>1. Init => DriverInv /\ Ps2Types /\ SerialInv /\ PciTypes
    BY InitInv, Ps2TypesStart, SerialStarts, PciTypesStart DEF Init
  <2>2. SerialInit => FifosFit /\ ReadSoFar
    <3> SUFFICES ASSUME SerialInit PROVE FifosFit /\ ReadSoFar
      OBVIOUS
    <3>1. Len(<< >>) = 0
      BY EmptySeq
    <3> QED BY <3>1, SerialAssumption DEF SerialInit, FifosFit, ReadSoFar
  <2> QED BY <2>1, <2>2 DEF Init
<1>2. DriverInv /\ Ps2Types /\ SerialInv /\ FifosFit /\ ReadSoFar /\ PciTypes /\ [Next]_MCvars
        => DriverInv' /\ Ps2Types' /\ SerialInv' /\ FifosFit' /\ ReadSoFar' /\ PciTypes'
  BY StepOfEach, StepInv, Ps2TypesKept, SerialKept, FifosStep, ReaderStep, PciTypesKept
<1>3. DriverInv /\ Ps2Types /\ SerialInv /\ FifosFit /\ ReadSoFar /\ PciTypes => DevicesTypeOK
  BY SerialTypes DEF DriverInv, Ps2Types, PciTypes, DevicesTypeOK
<1> QED BY <1>1, <1>2, <1>3, PTL DEF Spec
====
