---------------------------------- MODULE Ps2 --------------------------------
(***************************************************************************)
(* initKeyboard (kernel/devices/ps2.c) and the 8042 it sets up.  The step  *)
(* about to be taken is known by its line in the source.  A line that asks *)
(* the controller something takes two steps, the command and the read of   *)
(* the answer: the loops that would wait for the controller are commented  *)
(* out, so an answer may be late, or a key come before it.                 *)
(*                                                                         *)
(* A byte is the set of its bits.  The interrupt line of the keyboard is   *)
(* masked, pending or in service.                                          *)
(***************************************************************************)
EXTENDS Integers, Sequences

CONSTANTS
  Configurations,  \* configuration bytes the firmware leaves
  TestResults,     \* what a port's test can answer: {} if it passed
  KeyCode          \* the code of a key

ASSUME Ps2Assumption ==
  /\ Configurations \subseteq SUBSET (0 .. 6)
  /\ {} \in TestResults /\ TestResults \subseteq SUBSET (0 .. 7)
  /\ KeyCode \subseteq 0 .. 7

VARIABLES
  configuration,   \* the controller's configuration byte
  awaiting,        \* the command whose parameter it waits for, "none" if no
  port,            \* what the data port reads as
  answer,          \* the answer the controller has not yet put there, << >> or <<byte>>
  passed,          \* the ports whose last test passed
  line, asked,     \* the line of initKeyboard, and whether its command is sent
  configuration_byte, two_channel, status,  \* its variables
  masked, pending, inService,               \* the keyboard's interrupt
  disturbed,       \* an answer was late, a key came before it, or the self-test reset it all
  dropped          \* a command came while the controller waited for a parameter

controller == <<configuration, awaiting, port, answer, passed>>
program == <<line, asked, configuration_byte, two_channel, status>>
irq == <<masked, pending, inService>>
ps2Vars == <<controller, program, irq, disturbed, dropped>>

SelfTestPassed == {0, 2, 4, 6}
AllOnes == 0 .. 7

Ps2Init ==
  /\ configuration = {} /\ awaiting = "none" /\ port = {} /\ answer = << >> /\ passed = {}
  /\ line = 176 /\ asked = FALSE
  /\ configuration_byte = {} /\ two_channel = FALSE /\ status = {}
  /\ masked = FALSE /\ pending = FALSE /\ inService = FALSE
  /\ disturbed = FALSE /\ dropped = FALSE

------------------------------------------------------------------------------
\* The lines of initKeyboard that do something, in order.
Steps == <<184, 185, 188, 191, 192, 195, 198, 201, 206, 207, 215, 220, 226, 227, 228, 244, 248,
           253, 254, 255, 257, 276, 277, 279, 280, 283, 284>>

\* Variant with a bug: the port is enabled whatever its test said.
RunsUntested(l, two, result) ==
  CASE l \in {195, 206, 207, 215, 248, 279, 280} -> two
    [] l \in {226, 227, 228} -> TRUE
    [] l \in {253, 254, 255, 257} -> two /\ result = {}
    [] OTHER -> TRUE

\* The conditions the lines are under.
Runs(l, two, result) ==
  CASE l \in {195, 206, 207, 215, 248, 279, 280} -> two
    [] l \in {226, 227, 228} -> result = {}
    [] l \in {253, 254, 255, 257} -> two /\ result = {}
    [] OTHER -> TRUE

GoOn ==
  /\ asked' = FALSE
  /\ \E k \in DOMAIN Steps :
       /\ line' = Steps[k]
       /\ Steps[k] > line /\ Runs(Steps[k], two_channel', status')
       /\ \A j \in DOMAIN Steps : Steps[j] > line /\ Steps[j] < Steps[k] => ~Runs(Steps[j], two_channel', status')

\* What each line sends: 20 reads the configuration byte, 60 writes it; AA tests the
\* controller, AB and A9 the ports; A7, A8, AD and AE disable and enable them.
Plain == [l \in {184, 185, 195, 206, 215, 226, 253} |->
           CASE l = 184 -> "AD" [] l \in {185, 195, 215} -> "A7"
             [] l \in {206, 253} -> "A8" [] l = 226 -> "AE"]
Asks == [l \in {188, 192, 201, 207, 220, 227, 244, 248, 254, 257} |->
           CASE l = 188 -> "D0" [] l = 201 -> "AA" [] l = 220 -> "AB" [] l = 248 -> "A9"
             [] OTHER -> "20"]
Writes == [l \in {198, 228, 255, 276, 277, 279} |->
           CASE l = 276 -> "D1" [] l = 277 -> "D2" [] l = 279 -> "D3" [] OTHER -> "60"]

\* The controller takes a command, and forgets the parameter it waited for.
Command(c) ==
  /\ dropped' = (dropped \/ awaiting # "none")
  /\ awaiting' = IF c \in {"60", "D1", "D2", "D3"} THEN c ELSE "none"
  /\ \/ /\ c = "AA" /\ configuration' = {} /\ disturbed' = TRUE
     \/ /\ configuration' = CASE c = "AD" -> configuration \cup {4}
                              [] c = "AE" -> configuration \ {4}
                              [] c = "A7" -> configuration \cup {5}
                              [] c = "A8" -> configuration \ {5}
                              [] OTHER -> configuration
        /\ UNCHANGED disturbed
  /\ \E result \in TestResults :
       /\ answer' = CASE c \in {"AB", "A9"} -> <<result>>
                      [] c = "20" -> <<configuration>>
                      [] c = "AA" -> <<SelfTestPassed>>
                      [] c = "D0" -> <<AllOnes>>
                      [] OTHER -> answer
       /\ c \notin {"AB", "A9"} => result = {}
       /\ passed' = IF c \in {"AB", "A9"}
                    THEN IF result = {} THEN passed \cup {c} ELSE passed \ {c}
                    ELSE passed

\* A byte written to the data port: the parameter, or else a byte for the keyboard.
Parameter(c, byte) ==
  /\ configuration' = IF c = "60" THEN byte ELSE configuration
  /\ port' = IF c \in {"D2", "D3"} THEN byte ELSE port
  /\ pending' = (pending \/ (c = "D2" /\ 0 \in configuration))
  /\ awaiting' = "none"

\* The controller puts its answer where it can be read.
Answer ==
  /\ answer # << >>
  /\ port' = answer[1] /\ answer' = << >>
  /\ UNCHANGED <<configuration, awaiting, passed, program, irq, disturbed, dropped>>

\* A key is pressed.
PressKey ==
  /\ 4 \notin configuration /\ line # 176
  /\ port' = KeyCode
  /\ pending' = (pending \/ 0 \in configuration)
  /\ disturbed' = (disturbed \/ (line \in DOMAIN Asks /\ asked))
  /\ UNCHANGED <<configuration, awaiting, answer, passed, program, masked, inService, dropped>>

------------------------------------------------------------------------------
\* The firmware's set-up, and the call.
initKeyboard ==
  /\ line = 176
  /\ configuration' \in Configurations
  /\ line' = 184
  /\ UNCHANGED <<awaiting, port, answer, passed, asked, configuration_byte, two_channel, status, irq,
                 disturbed, dropped>>

\* Steps that send a command and go on: writeCommandRegister without a second byte.
writeCommandRegister ==
  /\ line \in DOMAIN Plain
  /\ Command(Plain[line])
  /\ UNCHANGED <<port, configuration_byte, two_channel, status, irq>>
  /\ GoOn

\* Steps that ask: first the command, ...
ask ==
  /\ line \in DOMAIN Asks /\ ~asked
  /\ Command(Asks[line])
  /\ asked' = TRUE
  /\ UNCHANGED <<port, line, configuration_byte, two_channel, status, irq>>

\* ... then readDataPort, which takes what is there.  Line 193 makes two_channel
\* true whatever the byte is: ~ of an int is never 0 in the low bits.  Line 209 looks
\* at the clock of port 1.
readDataPort ==
  /\ line \in DOMAIN Asks /\ asked
  /\ configuration_byte' = IF line = 192 THEN port \cap {2, 3, 4, 6, 7}
                           ELSE IF Asks[line] = "20" THEN port ELSE configuration_byte
  /\ two_channel' = CASE line = 192 -> TRUE
                      [] line = 207 -> 4 \notin port
                      [] OTHER -> two_channel
  /\ status' = IF line \in {220, 248} THEN port ELSE status
  /\ disturbed' = (disturbed \/ answer # << >>)
  /\ UNCHANGED <<controller, irq, dropped>>
  /\ GoOn

\* The bytes the lines write.
ByteOf(l) ==
  CASE l = 198 -> configuration_byte
    [] l = 228 -> configuration_byte \cup {0}
    [] l = 255 -> configuration_byte \cup {1}
    [] OTHER -> AllOnes

\* Steps that write: the command, and unless the byte is 0 the byte.
writeCommand ==
  /\ line \in DOMAIN Writes /\ ~asked
  /\ Command(Writes[line])
  /\ UNCHANGED <<port, irq, configuration_byte, two_channel, status>>
  /\ IF ByteOf(line) = {} THEN GoOn ELSE asked' = TRUE /\ UNCHANGED line

writeDataPort ==
  /\ line \in DOMAIN Writes /\ asked
  /\ Parameter(awaiting, ByteOf(line))
  /\ UNCHANGED <<answer, passed, configuration_byte, two_channel, status, masked, inService, disturbed, dropped>>
  /\ GoOn

\* The mask of the keyboard's interrupt, and line 280's read, whose byte is not used.
maskKeyboard ==
  /\ line = 191
  /\ masked' = TRUE
  /\ UNCHANGED <<controller, pending, inService, configuration_byte, two_channel, status, disturbed, dropped>>
  /\ GoOn
discard ==
  /\ line = 280
  /\ UNCHANGED <<controller, irq, configuration_byte, two_channel, status, disturbed, dropped>>
  /\ GoOn
unmaskKeyboard ==
  /\ line = 283
  /\ masked' = FALSE
  /\ UNCHANGED <<controller, pending, inService, configuration_byte, two_channel, status, disturbed, dropped>>
  /\ GoOn

\* The handler reads the code.  It ends interrupt 12 only, and no interrupt it is
\* registered for has that number: the keyboard's stays in service.
serveKeyboard ==
  /\ pending /\ ~masked /\ ~inService
  /\ inService' = TRUE /\ pending' = FALSE
  /\ UNCHANGED <<controller, program, masked, disturbed, dropped>>

Ps2Next ==
  \/ initKeyboard \/ writeCommandRegister \/ ask \/ readDataPort \/ writeCommand \/ writeDataPort
  \/ maskKeyboard \/ discard \/ unmaskKeyboard
  \/ serveKeyboard \/ Answer \/ PressKey

Ps2Spec == Ps2Init /\ [][Ps2Next]_ps2Vars

------------------------------------------------------------------------------
Ps2TypeOK ==
  /\ configuration \subseteq 0 .. 7 /\ port \subseteq 0 .. 7 /\ configuration_byte \subseteq 0 .. 7
  /\ awaiting \in {"none", "60", "D1", "D2", "D3"}
  /\ Len(answer) <= 1
  /\ line = 176 \/ \E k \in DOMAIN Steps : line = Steps[k]

\* As long as every answer came before it was read, no key came between, and the
\* controller's test did not reset what was set up: at the end port 1 is enabled,
\* with its interrupt, exactly if its test passed (ps2.c:226), and the controller was
\* never sent a command while it waited for a parameter, which it does after
\* writeCommandRegister was given a 0 to write (ps2.c:58).
EnabledIfTested ==
  ~disturbed =>
    /\ ~dropped
    /\ line = 284 =>
         /\ 4 \notin configuration <=> "AB" \in passed
         /\ 0 \in configuration <=> "AB" \in passed
         /\ 1 \in configuration => "A9" \in passed
==============================================================================
