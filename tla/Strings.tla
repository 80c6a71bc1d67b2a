------------------------------- MODULE Strings -------------------------------
(***************************************************************************)
(* The C library of the kernel: kernel/lib/string.c, kernel/lib/stdlib.c   *)
(* and printNumber of kernel/lib/print.c.                                  *)
(*                                                                         *)
(* A few bytes of memory, and one call of one function on them.  The loops *)
(* that copy are functions from the number of rounds to the memory after   *)
(* them.  Numbers have a few bits, so that TLC can go through all of them. *)
(***************************************************************************)
EXTENDS Integers, Sequences, FiniteSetsExt

CONSTANTS
  Size,        \* bytes of memory
  Chars,       \* the bytes it can hold before the call, 0 among them
  MemsetArgs,  \* the ints memset is called with
  MaxUint,     \* the largest uint64_t
  MaxInt,      \* the largest int
  XSize        \* bytes of x in printNumber (20)

ASSUME StringsAssumption ==
  /\ 0 \in Chars /\ Chars \subseteq 0 .. 255
  /\ MemsetArgs \subseteq Int
  /\ {MaxUint, MaxInt} \subseteq Nat
  /\ Size \in Nat /\ XSize \in 1 .. Size

Addresses == 0 .. Size - 1
MinInt == -MaxInt - 1

VARIABLES
  bytes,     \* the memory, from 0 on
  before,    \* the memory when the function was called
  libCall,   \* the function and its arguments, << >> before the call
  returned   \* what it returned, if that is a number

libVars == <<bytes, before, libCall, returned>>

LibInit ==
  /\ bytes = [a \in Addresses |-> 0] /\ before = bytes
  /\ libCall = << >>
  /\ returned = 0

\* The memory the caller has prepared.
Prepare ==
  /\ libCall = << >>
  /\ before = [a \in Addresses |-> 0]
  /\ before' \in [Addresses -> Chars] /\ bytes' = before'
  /\ UNCHANGED <<libCall, returned>>

Call(name, args) ==
  /\ libCall = << >>
  /\ libCall' = <<name>> \o args
  /\ UNCHANGED before

------------------------------------------------------------------------------
\* string.c.
Forward(m, dest, src, n) ==
  LET Rounds[i \in 0 .. n] ==
        IF i = 0 THEN m ELSE [Rounds[i - 1] EXCEPT ![dest + i - 1] = Rounds[i - 1][src + i - 1]]
  IN Rounds[n]
Backward(m, dest, src, n) ==
  LET Rounds[i \in 0 .. n] ==
        IF i = 0 THEN m ELSE [Rounds[i - 1] EXCEPT ![dest + n - i] = Rounds[i - 1][src + n - i]]
  IN Rounds[n]

InMemory(a, n) == a + n <= Size

memcpy(dest, src, n) ==
  /\ Call("memcpy", <<dest, src, n>>)
  /\ bytes' = Forward(bytes, dest, src, n)
  /\ UNCHANGED returned

memset(s, c, n) ==
  /\ Call("memset", <<s, c, n>>)
  /\ bytes' = [a \in Addresses |-> IF a \in s .. s + n - 1 THEN c % 256 ELSE bytes[a]]
  /\ UNCHANGED returned

\* Variant with a bug: the directions are swapped.
memmoveSwapped(dest, src, n) ==
  /\ Call("memmove", <<dest, src, n>>)
  /\ bytes' = IF src < dest THEN Forward(bytes, dest, src, n) ELSE Backward(bytes, dest, src, n)
  /\ UNCHANGED returned

memmove(dest, src, n) ==
  /\ Call("memmove", <<dest, src, n>>)
  /\ bytes' = IF src > dest THEN Forward(bytes, dest, src, n) ELSE Backward(bytes, dest, src, n)
  /\ UNCHANGED returned

memcmp(s1, s2, n) ==
  /\ Call("memcmp", <<s1, s2, n>>)
  /\ LET differ == {i \in 0 .. n - 1 : bytes[s1 + i] # bytes[s2 + i]}
     IN returned' = IF differ = {} THEN 0
                    ELSE IF bytes[s1 + Min(differ)] < bytes[s2 + Min(differ)] THEN -1 ELSE 1
  /\ UNCHANGED bytes

Ends(m, str) == {a \in Addresses : a >= str /\ m[a] = 0}
IsString(m, str) == Ends(m, str) # {}
strlen(m, str) == Min(Ends(m, str)) - str

SignedChar(c) == IF c < 128 THEN c ELSE c - 256

\* The first difference, which is at the end of the shorter string at the latest.
strcmp(str1, str2) ==
  /\ IsString(bytes, str1) /\ IsString(bytes, str2)
  /\ Call("strcmp", <<str1, str2>>)
  /\ LET shorter == Min({strlen(bytes, str1), strlen(bytes, str2)})
         differ == {i \in 0 .. shorter : bytes[str1 + i] # bytes[str2 + i]}
     IN returned' = IF differ = {} THEN 0
                    ELSE SignedChar(bytes[str1 + Min(differ)]) - SignedChar(bytes[str2 + Min(differ)])
  /\ UNCHANGED bytes

\* The NUL is not copied.
strcpy(destination, source) ==
  /\ IsString(bytes, source) /\ InMemory(destination, strlen(bytes, source))
  /\ Call("strcpy", <<destination, source, strlen(bytes, source)>>)
  /\ bytes' = Forward(bytes, destination, source, strlen(bytes, source))
  /\ UNCHANGED returned

reverse(m, s) ==
  LET last == s + strlen(m, s) - 1
  IN [a \in Addresses |-> IF a \in s .. last THEN m[last - (a - s)] ELSE m[a]]

------------------------------------------------------------------------------
\* stdlib.c and print.c, in base 10.
PutText(m, str, text) ==
  [a \in Addresses |-> IF a - str + 1 \in DOMAIN text THEN text[a - str + 1] ELSE m[a]]

\* The digits of a number, the last one first.
Digits(value) ==
  LET From[v \in 0 .. value] == IF v < 10 THEN <<48 + v>> ELSE <<48 + (v % 10)>> \o From[v \div 10]
  IN From[value]

\* The memory has room for every number, its sign and the NUL.
ASSUME RoomForNumbers ==
  /\ \A value \in 0 .. MaxUint : Len(Digits(value)) < Size
  /\ \A value \in 0 .. MaxInt + 1 : Len(Digits(value)) + 1 < Size

uint64toa(m, value, str) == reverse(PutText(m, str, Append(Digits(value), 0)), str)

\* -value of the smallest int overflows: either it stays negative, and one character
\* that is no digit is all the loop stores, or the compiler divides it as unsigned.
itoa(value, str) ==
  /\ Call("itoa", <<value, str>>)
  /\ \E digits \in IF value = MinInt THEN {Digits(-value), <<48 - ((-value) % 10)>>}
                   ELSE {Digits(IF value < 0 THEN -value ELSE value)} :
       bytes' = reverse(PutText(bytes, str, digits \o (IF value < 0 THEN <<45>> ELSE << >>) \o <<0>>), str)
  /\ UNCHANGED returned

\* x is at 0; what is stored past it hits what _start, or the interrupted code, has
\* on its stack.
printNumber(num) ==
  /\ Call("printNumber", <<num>>)
  /\ bytes' = uint64toa(bytes, num, 0)
  /\ returned' = strlen(bytes', 0)

LibNext ==
  \/ Prepare
  \/ \E a, b, n \in Addresses :
       InMemory(a, n) /\ InMemory(b, n) /\ (memcpy(a, b, n) \/ memmove(a, b, n) \/ memcmp(a, b, n))
  \/ \E a, n \in Addresses, c \in MemsetArgs : InMemory(a, n) /\ memset(a, c, n)
  \/ \E a, b \in Addresses : strcmp(a, b) \/ strcpy(a, b)
  \/ /\ before = [a \in Addresses |-> 0]
     /\ \/ \E value \in MinInt .. MaxInt : itoa(value, 0)
        \/ \E num \in 0 .. MaxUint : printNumber(num)

LibSpec == LibInit /\ [][LibNext]_libVars

------------------------------------------------------------------------------
LibTypeOK ==
  /\ bytes \in [Addresses -> 0 .. 255]
  /\ before \in [Addresses -> Chars]
  /\ returned \in -255 .. 255 \cup 0 .. Size - 1

Called(name) == libCall # << >> /\ libCall[1] = name

\* memmove copies as if it had taken all its bytes before it stored one, whatever
\* overlaps; memcpy and strcpy do so unless the destination starts in the source
\* behind its first byte (string.c:30).
Copies ==
  Called("memmove") \/ Called("memcpy") \/ Called("strcpy") =>
    LET dest == libCall[2]
        src == libCall[3]
        n == libCall[4]
    IN \/ ~Called("memmove") /\ dest \in src + 1 .. src + n - 1
       \/ \A a \in Addresses :
            bytes[a] = IF a \in dest .. dest + n - 1 THEN before[a - dest + src] ELSE before[a]

StringAt(m, a) == [i \in 1 .. strlen(m, a) |-> m[a + i - 1]]

\* strcmp returns 0 for equal strings and for no others, a name and a longer one that
\* starts with it included: initrd_finddir tells files by it (string.c:68).
ComparesNames ==
  Called("strcmp") =>
    (returned = 0 <=> StringAt(before, libCall[2]) = StringAt(before, libCall[3]))

\* What the digits at the start of memory say, read from the left.
NumberAt(m, a) ==
  LET Read[i \in 0 .. strlen(m, a)] == IF i = 0 THEN 0 ELSE Read[i - 1] * 10 + (m[a + i - 1] - 48)
  IN Read[strlen(m, a)]

\* A number reads back as itself, in every number of digits; a negative one starts
\* with "-", except the smallest; printNumber stores nothing past x up to
\* XSize - 1 digits (print.c:10, stdlib.c:26).
NumbersReadBack ==
  /\ Called("printNumber") =>
       /\ NumberAt(bytes, 0) = libCall[2]
       /\ returned < XSize => \A a \in XSize .. Size - 1 : bytes[a] = before[a]
  /\ Called("itoa") /\ libCall[2] > MinInt =>
       IF libCall[2] < 0 THEN bytes[0] = 45 /\ NumberAt(bytes, 1) = -libCall[2]
       ELSE NumberAt(bytes, 0) = libCall[2]

\* What the kernel relies on of its library.
LibraryContract == Copies /\ ComparesNames /\ NumbersReadBack
==============================================================================
