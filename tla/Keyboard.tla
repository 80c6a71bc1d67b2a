------------------------------- MODULE Keyboard ------------------------------
(***************************************************************************)
(* What keyboardHandler (kernel/devices/ioapic.c) makes of the scan codes  *)
(* the 8042 keeps for it.  The keys are the two shifts, caps lock, a ctrl  *)
(* and one letter; a code is named as the key does, press or release.      *)
(***************************************************************************)
EXTENDS Integers, Sequences

CONSTANTS
  MaxCodes,   \* codes the 8042 keeps
  MaxTyped    \* bound on the keys pressed and released

ASSUME KeyboardAssumption == {MaxCodes, MaxTyped} \subseteq Nat

VARIABLES
  held,       \* the keys that are held
  capsOn,     \* whether whoever types has caps lock on
  typed,      \* number of presses and releases
  codes,      \* the codes in the 8042, each with what its letter should print as
  uncertain,  \* a code was lost, or both shifts have been held at once
  shift, caps_lock, ctrl,   \* the handler's variables
  shown       \* what the handler printed last and what it should have been

keyboardVars == <<held, capsOn, typed, codes, uncertain, shift, caps_lock, ctrl, shown>>

Shifts == {"left shift", "right shift"}
Keys == Shifts \cup {"caps lock", "ctrl", "letter"}

KeyboardInit ==
  /\ held = {} /\ capsOn = FALSE /\ typed = 0
  /\ codes = << >> /\ uncertain = FALSE
  /\ shift = FALSE /\ caps_lock = FALSE /\ ctrl = FALSE
  /\ shown = << >>

\* A letter's form: whether it is a capital, and whether "^" is in front of it.
Form(capital, control) == [capital |-> capital, control |-> control]

\* A key goes down or up, and its code to the 8042, which drops it when full.
Key(key) ==
  /\ typed < MaxTyped
  /\ typed' = typed + 1
  /\ held' = IF key \in held THEN held \ {key} ELSE held \cup {key}
  /\ capsOn' = IF key = "caps lock" /\ key \notin held THEN ~capsOn ELSE capsOn
  /\ LET form == Form((held \cap Shifts # {}) # capsOn, "ctrl" \in held)
         code == [key |-> key, press |-> key \notin held, form |-> form]
     IN codes' = IF Len(codes) < MaxCodes THEN Append(codes, code) ELSE codes
  /\ uncertain' = (uncertain \/ Len(codes) = MaxCodes \/ Shifts \subseteq held')
  /\ UNCHANGED <<shift, caps_lock, ctrl, shown>>

\* Variant with a bug: the release of the right shift is forgotten.
keyboardHandlerLeft ==
  /\ codes # << >>
  /\ LET code == Head(codes) IN
       /\ shift' = IF code.key = "left shift" THEN code.press
                   ELSE IF code.key = "right shift" /\ code.press THEN TRUE
                   ELSE shift
       /\ caps_lock' = IF code.key = "caps lock" /\ code.press THEN ~caps_lock ELSE caps_lock
       /\ ctrl' = IF code.key = "ctrl" THEN code.press ELSE ctrl
       /\ shown' = IF code.key = "letter" /\ code.press THEN <<Form(shift # caps_lock, ctrl), code.form>> ELSE shown
  /\ codes' = Tail(codes)
  /\ UNCHANGED <<held, capsOn, typed, uncertain>>

\* One interrupt: one code.  Releases but the shifts' and ctrl's are ignored.
keyboardHandler ==
  /\ codes # << >>
  /\ LET code == Head(codes) IN
       /\ shift' = IF code.key \in Shifts THEN code.press ELSE shift
       /\ caps_lock' = IF code.key = "caps lock" /\ code.press THEN ~caps_lock ELSE caps_lock
       /\ ctrl' = IF code.key = "ctrl" THEN code.press ELSE ctrl
       /\ shown' = IF code.key = "letter" /\ code.press THEN <<Form(shift # caps_lock, ctrl), code.form>> ELSE shown
  /\ codes' = Tail(codes)
  /\ UNCHANGED <<held, capsOn, typed, uncertain>>

KeyboardNext == keyboardHandler \/ \E key \in Keys : Key(key)

KeyboardSpec == KeyboardInit /\ [][KeyboardNext]_keyboardVars

------------------------------------------------------------------------------
\* However late the handler runs, a letter is printed as it was typed, as long as no
\* code was lost and the two shifts were never held at once: the handler has one
\* flag for both, so the release of one ends the other (ioapic.c:56).
PrintedAsTyped == ~uncertain /\ shown # << >> => shown[1] = shown[2]
==============================================================================
