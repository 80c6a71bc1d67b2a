---------------------------- MODULE StringsProofs ----------------------------
(***************************************************************************)
(* Proofs about Strings, for every size of memory and of its numbers:      *)
(* memmove copies what was there, strcmp tells any two strings apart, and  *)
(* a number that is printed reads back as itself.                          *)
(*                                                                         *)
(* What a loop computes is shown without induction: of the rounds in which *)
(* it is not what it should be, or of the numbers whose digits are not     *)
(* right, the least one cannot be, since the round before it is right.     *)
(***************************************************************************)
EXTENDS Strings, SequenceTheorems, WellFoundedInduction, TLAPS

\* A set of numbers that is not empty has a least element.
LEMMA Least ==
  ASSUME NEW S \in SUBSET Nat, S # {}
  PROVE  \E n \in S : \A m \in S : n <= m
<1>1. IsWellFoundedOn(OpToRel(<, Nat), Nat)
  BY NatLessThanWellFounded
<1>2. PICK n \in S : \A m \in S : <<m, n>> \notin OpToRel(<, Nat)
  BY <1>1, WFMin
<1>3. \A m \in S : ~(m < n)
  BY <1>2 DEF OpToRel
<1> QED BY <1>3

\* Two functions that agree wherever they agree below agree everywhere.
LEMMA Agree ==
  ASSUME NEW n \in Nat, NEW f, NEW g,
         \A v \in 0 .. n : (\A w \in 0 .. v - 1 : f[w] = g[w]) => f[v] = g[v]
  PROVE  \A v \in 0 .. n : f[v] = g[v]
<1> DEFINE Bad == {v \in 0 .. n : f[v] # g[v]}
<1>1. SUFFICES ASSUME Bad # {} PROVE FALSE
  OBVIOUS
<1>2. Bad \in SUBSET Nat
  OBVIOUS
<1>3. PICK v \in Bad : \A w \in Bad : v <= w
  <2> HIDE DEF Bad
  <2> QED BY <1>1, <1>2, Least
<1>4. \A w \in 0 .. v - 1 : f[w] = g[w]
  BY <1>3
<1> QED BY <1>3, <1>4

AgreeUpTo(f, g, n) == \A v \in 0 .. n : f[v] = g[v]
AgreesNext(f, g, n) == \A v \in 0 .. n : AgreeUpTo(f, g, v - 1) => f[v] = g[v]

LEMMA AgreeByStep ==
  ASSUME NEW n \in Nat, NEW f, NEW g, AgreesNext(f, g, n)
  PROVE  AgreeUpTo(f, g, n)
BY Agree DEF AgreeUpTo, AgreesNext

------------------------------------------------------------------------------
\* The loops that copy.
Contents == [Addresses -> 0 .. 255]

\* m with n bytes from src put to dest, all of them taken from m.
Moved(m, dest, src, n) ==
  [a \in Addresses |-> IF a \in dest .. dest + n - 1 THEN m[a - dest + src] ELSE m[a]]

LEMMA MovedTypes ==
  ASSUME NEW m \in Contents, NEW dest \in Nat, NEW src \in Nat, NEW n \in Nat, src + n <= Size
  PROVE  Moved(m, dest, src, n) \in Contents
<1> SUFFICES ASSUME NEW a \in Addresses, a \in dest .. dest + n - 1
             PROVE  a - dest + src \in Addresses
  BY DEF Moved, Contents
<1> QED BY StringsAssumption DEF Addresses

\* Upwards, the i-th round reads a byte that no earlier round has stored.
LEMMA ForwardMoves ==
  ASSUME NEW m \in Contents, NEW dest \in Nat, NEW src \in Nat, NEW n \in Nat,
         dest + n <= Size, src + n <= Size, dest \notin src + 1 .. src + n - 1
  PROVE  Forward(m, dest, src, n) = Moved(m, dest, src, n)
<1> DEFINE Round(x, i) == [x EXCEPT ![dest + i - 1] = x[src + i - 1]]
           Step(g) == [i \in 0 .. n |-> IF i = 0 THEN m ELSE Round(g[i - 1], i)]
           f == [i \in 0 .. n |-> Moved(m, dest, src, i)]
<1>1. ASSUME NEW i \in 1 .. n
      PROVE  Moved(m, dest, src, i)
               = [Moved(m, dest, src, i - 1) EXCEPT
                    ![dest + i - 1] = Moved(m, dest, src, i - 1)[src + i - 1]]
  <2> DEFINE old == Moved(m, dest, src, i - 1)
             new == [old EXCEPT ![dest + i - 1] = old[src + i - 1]]
  <2>1. src + i - 1 \in Addresses /\ dest + i - 1 \in Addresses
    BY StringsAssumption DEF Addresses
  <2>2. src + i - 1 \notin dest .. dest + (i - 1) - 1
    OBVIOUS
  <2>3. old[src + i - 1] = m[src + i - 1]
    BY <2>1, <2>2 DEF Moved
  <2>4. ASSUME NEW a \in Addresses
        PROVE  Moved(m, dest, src, i)[a] = new[a]
    <3>1. a \in Int
      BY StringsAssumption DEF Addresses
    <3>2. CASE a = dest + i - 1
      <4>1. a - dest + src = src + i - 1 /\ a \in dest .. dest + i - 1
        BY <3>2
      <4>2. Moved(m, dest, src, i)[a] = m[src + i - 1]
        BY <4>1 DEF Moved
      <4>3. new[a] = old[src + i - 1]
        BY <3>2 DEF Moved
      <4> QED BY <2>3, <4>2, <4>3
    <3>3. CASE a # dest + i - 1
      <4>1. a \in dest .. dest + i - 1 <=> a \in dest .. dest + (i - 1) - 1
        BY <3>1, <3>3
      <4>2. new[a] = old[a]
        BY <3>3 DEF Moved
      <4> QED BY <4>1, <4>2 DEF Moved
    <3> QED BY <3>2, <3>3
  <2>5. DOMAIN new = Addresses /\ new = [a \in Addresses |-> new[a]]
    BY DEF Moved
  <2>6. Moved(m, dest, src, i) = [a \in Addresses |-> Moved(m, dest, src, i)[a]]
    BY DEF Moved
  <2> HIDE DEF new
  <2>7. Moved(m, dest, src, i) = new
    BY <2>4, <2>5, <2>6
  <2> QED BY <2>7 DEF new
<1>2. Moved(m, dest, src, 0) = m
  <2>1. \A a \in Addresses : a \notin dest .. dest + 0 - 1
    BY StringsAssumption DEF Addresses
  <2> QED BY <2>1 DEF Moved, Contents
<1>3. f = Step(f)
  <2> SUFFICES ASSUME NEW i \in 0 .. n PROVE f[i] = Step(f)[i]
    OBVIOUS
  <2>1. CASE i = 0
    BY <1>2, <2>1
  <2>2. CASE i # 0
    BY <1>1, <2>2
  <2> QED BY <2>1, <2>2
<1>4. ASSUME NEW g, g = Step(g) PROVE g[n] = f[n]
  <2>1. ASSUME NEW v \in 0 .. n, \A w \in 0 .. v - 1 : g[w] = f[w] PROVE g[v] = f[v]
    <3>1. g[v] = Step(g)[v] /\ f[v] = Step(f)[v]
      BY <1>3, <1>4
    <3>2. CASE v = 0
      BY <3>1, <3>2
    <3>3. CASE v # 0
      <4>1. g[v - 1] = f[v - 1]
        BY <2>1, <3>3
      <4>2. Step(g)[v] = Round(g[v - 1], v) /\ Step(f)[v] = Round(f[v - 1], v)
        <5> HIDE DEF f, Round
        <5> QED BY <3>3
      <4> HIDE DEF f, Round, Step
      <4> QED BY <3>1, <4>1, <4>2
    <3> QED BY <3>2, <3>3
  <2> HIDE DEF f
  <2> QED BY <2>1, Agree
<1>5. Forward(m, dest, src, n) = (CHOOSE g : g = Step(g))[n]
  BY DEF Forward
<1> HIDE DEF Step
<1>6. (CHOOSE g : g = Step(g)) = Step(CHOOSE g : g = Step(g))
  BY <1>3
<1>7. f[n] = Moved(m, dest, src, n)
  OBVIOUS
<1> QED BY <1>4, <1>5, <1>6, <1>7
\* Downwards the same, if the destination is not below the source.
LEMMA BackwardMoves ==
  ASSUME NEW m \in Contents, NEW dest \in Nat, NEW src \in Nat, NEW n \in Nat,
         dest + n <= Size, src + n <= Size, src <= dest
  PROVE  Backward(m, dest, src, n) = Moved(m, dest, src, n)
<1> DEFINE Round(x, i) == [x EXCEPT ![dest + n - i] = x[src + n - i]]
           Step(g) == [i \in 0 .. n |-> IF i = 0 THEN m ELSE Round(g[i - 1], i)]
           Last(i) == [a \in Addresses |->
                        IF a \in dest + n - i .. dest + n - 1 THEN m[a - dest + src] ELSE m[a]]
           f == [i \in 0 .. n |-> Last(i)]
<1>1. ASSUME NEW i \in 1 .. n
      PROVE  Last(i) = Round(Last(i - 1), i)
  <2> DEFINE old == Last(i - 1)
             new == [old EXCEPT ![dest + n - i] = old[src + n - i]]
  <2>1. src + n - i \in Addresses /\ dest + n - i \in Addresses
    BY StringsAssumption DEF Addresses
  <2>2. src + n - i \notin dest + n - (i - 1) .. dest + n - 1
    OBVIOUS
  <2>3. old[src + n - i] = m[src + n - i]
    BY <2>1, <2>2
  <2>4. ASSUME NEW a \in Addresses
        PROVE  Last(i)[a] = new[a]
    <3>1. a \in Int
      BY StringsAssumption DEF Addresses
    <3>2. CASE a = dest + n - i
      <4>1. a - dest + src = src + n - i /\ a \in dest + n - i .. dest + n - 1
        BY <3>2
      <4>2. Last(i)[a] = m[src + n - i]
        BY <4>1
      <4>3. new[a] = old[src + n - i]
        BY <3>2
      <4> QED BY <2>3, <4>2, <4>3
    <3>3. CASE a # dest + n - i
      <4>1. a \in dest + n - i .. dest + n - 1 <=> a \in dest + n - (i - 1) .. dest + n - 1
        BY <3>1, <3>3
      <4>2. new[a] = old[a]
        BY <3>3
      <4> QED BY <4>1, <4>2
    <3> QED BY <3>2, <3>3
  <2>5. DOMAIN new = Addresses /\ new = [a \in Addresses |-> new[a]]
    OBVIOUS
  <2>6. Last(i) = [a \in Addresses |-> Last(i)[a]]
    OBVIOUS
  <2> HIDE DEF new
  <2>7. Last(i) = new
    BY <2>4, <2>5, <2>6
  <2> QED BY <2>7 DEF new
<1>2. Last(0) = m
  <2>1. \A a \in Addresses : a \notin dest + n - 0 .. dest + n - 1
    BY StringsAssumption DEF Addresses
  <2> QED BY <2>1 DEF Contents
<1>3. f = Step(f)
  <2> SUFFICES ASSUME NEW i \in 0 .. n PROVE f[i] = Step(f)[i]
    OBVIOUS
  <2>1. CASE i = 0
    BY <1>2, <2>1
  <2>2. CASE i # 0
    <3> HIDE DEF Last, Round
    <3>1. Last(i) = Round(Last(i - 1), i)
      <4>1. i \in 1 .. n
        BY <2>2
      <4> QED BY <1>1, <4>1
    <3>2. f[i] = Last(i) /\ f[i - 1] = Last(i - 1)
      BY <2>2
    <3>3. Step(f)[i] = Round(f[i - 1], i)
      <4> HIDE DEF f
      <4> QED BY <2>2
    <3> QED BY <3>1, <3>2, <3>3
  <2> QED BY <2>1, <2>2
<1>4. ASSUME NEW g, g = Step(g) PROVE g[n] = f[n]
  <2>1. ASSUME NEW v \in 0 .. n, \A w \in 0 .. v - 1 : g[w] = f[w] PROVE g[v] = f[v]
    <3>1. g[v] = Step(g)[v] /\ f[v] = Step(f)[v]
      BY <1>3, <1>4
    <3>2. CASE v = 0
      BY <3>1, <3>2
    <3>3. CASE v # 0
      <4>1. g[v - 1] = f[v - 1]
        <5>1. v - 1 \in 0 .. v - 1
          BY <3>3
        <5> HIDE DEF f
        <5> QED BY <2>1, <5>1
      <4>2. Step(g)[v] = Round(g[v - 1], v) /\ Step(f)[v] = Round(f[v - 1], v)
        <5> HIDE DEF f, Round
        <5> QED BY <3>3
      <4> HIDE DEF f, Round, Step
      <4> QED BY <3>1, <4>1, <4>2
    <3> QED BY <3>2, <3>3
  <2> HIDE DEF f
  <2> QED BY <2>1, Agree
<1>5. Backward(m, dest, src, n) = (CHOOSE g : g = Step(g))[n]
  BY DEF Backward
<1> HIDE DEF Step
<1>6. (CHOOSE g : g = Step(g)) = Step(CHOOSE g : g = Step(g))
  BY <1>3
<1>7. f[n] = Moved(m, dest, src, n)
  <2>1. dest + n - n = dest
    OBVIOUS
  <2> QED BY <2>1 DEF Moved
<1> QED BY <1>4, <1>5, <1>6, <1>7

------------------------------------------------------------------------------
\* Strings.
LEMMA StringEnds ==
  ASSUME NEW m \in Contents, NEW str \in Nat, IsString(m, str)
  PROVE  /\ strlen(m, str) \in Nat /\ str + strlen(m, str) < Size
         /\ m[str + strlen(m, str)] = 0
         /\ \A k \in 0 .. strlen(m, str) - 1 : m[str + k] # 0
<1>1. Ends(m, str) \in SUBSET Nat /\ Ends(m, str) # {}
  BY StringsAssumption DEF Ends, Addresses, IsString
<1>2. PICK e \in Ends(m, str) : \A x \in Ends(m, str) : e <= x
  BY <1>1, Least
<1>3. Min(Ends(m, str)) \in Ends(m, str) /\ \A x \in Ends(m, str) : Min(Ends(m, str)) <= x
  BY <1>2 DEF Min
<1> DEFINE end == Min(Ends(m, str))
<1>4. end \in Addresses /\ end \in Nat /\ end >= str /\ m[end] = 0
  BY <1>3, <1>1 DEF Ends
<1>5. strlen(m, str) = end - str
  BY DEF strlen
<1>6. str + (end - str) = end /\ end - str \in Nat /\ end < Size
  BY <1>4, StringsAssumption DEF Addresses
<1>7. ASSUME NEW k \in 0 .. end - str - 1 PROVE m[str + k] # 0
  <2>1. str + k \in Addresses /\ str + k >= str /\ ~(end <= str + k)
    BY <1>4, <1>6, StringsAssumption DEF Addresses
  <2> QED BY <1>3, <2>1 DEF Ends
<1> HIDE DEF end
<1> QED BY <1>4, <1>5, <1>6, <1>7

LEMMA EndsThere ==
  ASSUME NEW m \in Contents, NEW str \in Nat, NEW n \in Nat, str + n < Size,
         m[str + n] = 0, \A k \in 0 .. n - 1 : m[str + k] # 0
  PROVE  IsString(m, str) /\ strlen(m, str) = n
<1>1. str + n \in Ends(m, str)
  BY StringsAssumption DEF Ends, Addresses
<1>2. IsString(m, str)
  BY <1>1 DEF IsString
<1> DEFINE l == strlen(m, str)
<1>3. l \in Nat /\ m[str + l] = 0 /\ \A k \in 0 .. l - 1 : m[str + k] # 0
  BY <1>2, StringEnds
<1> HIDE DEF l
<1>4. ~(l < n) /\ ~(n < l)
  BY <1>3
<1>5. l = n
  BY <1>3, <1>4
<1> QED BY <1>2, <1>5 DEF l

\* Comparing up to the end of the shorter string is comparing the strings.
LEMMA SameBytes ==
  ASSUME NEW m \in Contents, NEW s1 \in Nat, NEW s2 \in Nat, IsString(m, s1), IsString(m, s2)
  PROVE  LET shorter == Min({strlen(m, s1), strlen(m, s2)})
         IN  (\A x \in 0 .. shorter : m[s1 + x] = m[s2 + x]) <=> StringAt(m, s1) = StringAt(m, s2)
<1> DEFINE l1 == strlen(m, s1)
           l2 == strlen(m, s2)
           shorter == Min({l1, l2})
<1>1. /\ l1 \in Nat /\ m[s1 + l1] = 0 /\ \A k \in 0 .. l1 - 1 : m[s1 + k] # 0
      /\ l2 \in Nat /\ m[s2 + l2] = 0 /\ \A k \in 0 .. l2 - 1 : m[s2 + k] # 0
  BY StringEnds
<1>2. StringAt(m, s1) = [x \in 1 .. l1 |-> m[s1 + x - 1]] /\ StringAt(m, s2) = [x \in 1 .. l2 |-> m[s2 + x - 1]]
  BY DEF StringAt
<1> HIDE DEF l1, l2
<1>3. shorter = IF l1 <= l2 THEN l1 ELSE l2
  BY <1>1 DEF Min
<1> HIDE DEF shorter
<1>4. ASSUME \A x \in 0 .. shorter : m[s1 + x] = m[s2 + x]
      PROVE  StringAt(m, s1) = StringAt(m, s2)
  <2>1. l1 = l2
    BY <1>1, <1>3, <1>4
  <2>2. ASSUME NEW x \in 1 .. l1 PROVE m[s1 + x - 1] = m[s2 + x - 1]
    <3>1. x - 1 \in 0 .. shorter /\ s1 + x - 1 = s1 + (x - 1) /\ s2 + x - 1 = s2 + (x - 1)
      BY <1>1, <1>3, <2>1
    <3> QED BY <1>4, <3>1
  <2> QED BY <1>2, <2>1, <2>2
<1>5. ASSUME StringAt(m, s1) = StringAt(m, s2), NEW x \in 0 .. shorter
      PROVE  m[s1 + x] = m[s2 + x]
  <2>1. 1 .. l1 = 1 .. l2 /\ \A y \in 1 .. l1 : m[s1 + y - 1] = m[s2 + y - 1]
    BY <1>2, <1>5
  <2>2. l1 = l2
    BY <1>1, <2>1
  <2>3. CASE x = l1
    BY <1>1, <2>2, <2>3
  <2>4. CASE x # l1
    <3>1. x + 1 \in 1 .. l1 /\ s1 + (x + 1) - 1 = s1 + x /\ s2 + (x + 1) - 1 = s2 + x
      BY <1>1, <1>3, <2>2, <2>4
    <3> QED BY <2>1, <3>1
  <2> QED BY <2>3, <2>4
<1> QED BY <1>4, <1>5 DEF shorter, l1, l2

------------------------------------------------------------------------------
\* What a call leaves to be shown.
LEMMA CallCopies ==
  ASSUME NEW name \in {"memcpy", "memmove", "strcpy"},
         NEW dest \in Nat, NEW src \in Nat, NEW n \in Nat,
         Call(name, <<dest, src, n>>),
         name = "memmove" \/ dest \notin src + 1 .. src + n - 1 =>
           bytes' = Moved(before, dest, src, n)
  PROVE  LibraryContract'
<1>1. /\ libCall' # << >> /\ libCall'[1] = name
      /\ libCall'[2] = dest /\ libCall'[3] = src /\ libCall'[4] = n
      /\ before' = before
  BY DEF Call
<1>2. ComparesNames' /\ NumbersReadBack'
  BY <1>1 DEF ComparesNames, NumbersReadBack, Called
<1>3. Copies'
  <2>1. CASE name # "memmove" /\ dest \in src + 1 .. src + n - 1
    BY <1>1, <2>1 DEF Copies, Called
  <2>2. CASE bytes' = Moved(before, dest, src, n)
    <3>1. \A a \in Addresses :
            bytes'[a] = IF a \in dest .. dest + n - 1 THEN before'[a - dest + src] ELSE before'[a]
      BY <1>1, <2>2 DEF Moved
    <3> QED BY <1>1, <3>1 DEF Copies
  <2> QED BY <2>1, <2>2
<1> QED BY <1>2, <1>3 DEF LibraryContract

LEMMA CallOther ==
  ASSUME NEW name \in {"memset", "memcmp"},
         NEW a \in Int, NEW b \in Int, NEW c \in Int, Call(name, <<a, b, c>>)
  PROVE  LibraryContract'
<1>1. libCall' # << >> /\ libCall'[1] = name
  BY DEF Call
<1> QED BY <1>1 DEF LibraryContract, Copies, ComparesNames, NumbersReadBack, Called

LEMMA CallCompares ==
  ASSUME NEW s1 \in Nat, NEW s2 \in Nat, before \in Contents, bytes = before, strcmp(s1, s2)
  PROVE  LibraryContract'
<1>1. /\ libCall' # << >> /\ libCall'[1] = "strcmp" /\ libCall'[2] = s1 /\ libCall'[3] = s2
      /\ before' = before /\ bytes' = bytes
  BY DEF Call, strcmp
<1>2. Copies' /\ NumbersReadBack'
  BY <1>1 DEF Copies, NumbersReadBack, Called
<1> DEFINE shorter == Min({strlen(bytes, s1), strlen(bytes, s2)})
           differ == {i \in 0 .. shorter : bytes[s1 + i] # bytes[s2 + i]}
<1>3. IsString(bytes, s1) /\ IsString(bytes, s2)
  BY DEF strcmp
<1>4. (\A x \in 0 .. shorter : bytes[s1 + x] = bytes[s2 + x]) <=> StringAt(bytes, s1) = StringAt(bytes, s2)
  BY <1>3, SameBytes
<1>5. returned' = IF differ = {} THEN 0
                  ELSE SignedChar(bytes[s1 + Min(differ)]) - SignedChar(bytes[s2 + Min(differ)])
  BY DEF strcmp
<1>6. /\ strlen(bytes, s1) \in Nat /\ s1 + strlen(bytes, s1) < Size
      /\ strlen(bytes, s2) \in Nat /\ s2 + strlen(bytes, s2) < Size
  BY <1>3, StringEnds
<1>7. shorter \in Nat /\ s1 + shorter < Size /\ s2 + shorter < Size
  <2> DEFINE l1 == strlen(bytes, s1)
             l2 == strlen(bytes, s2)
  <2>1. l1 \in Nat /\ s1 + l1 < Size /\ l2 \in Nat /\ s2 + l2 < Size
    BY <1>6
  <2> HIDE DEF l1, l2
  <2>2. Min({l1, l2}) = IF l1 <= l2 THEN l1 ELSE l2
    BY <2>1 DEF Min
  <2>3. Min({l1, l2}) \in Nat /\ s1 + Min({l1, l2}) < Size /\ s2 + Min({l1, l2}) < Size
    BY <2>1, <2>2, StringsAssumption
  <2> QED BY <2>3 DEF l1, l2
<1> HIDE DEF shorter
<1>8. ASSUME differ # {} PROVE returned' # 0
  <2>1. differ \in SUBSET Nat
    OBVIOUS
  <2>2. PICK x \in differ : \A y \in differ : x <= y
    <3> HIDE DEF differ
    <3> QED BY <1>8, <2>1, Least
  <2>3. Min(differ) \in differ
    <3> HIDE DEF differ
    <3> QED BY <2>2 DEF Min
  <2> DEFINE least == Min(differ)
  <2>4. /\ least \in 0 .. shorter /\ bytes[s1 + least] # bytes[s2 + least]
        /\ returned' = SignedChar(bytes[s1 + least]) - SignedChar(bytes[s2 + least])
    BY <1>5, <1>8, <2>3
  <2> HIDE DEF least, differ
  <2>5. s1 + least \in Addresses /\ s2 + least \in Addresses
    BY <1>7, <2>4, StringsAssumption DEF Addresses
  <2>6. bytes[s1 + least] \in 0 .. 255 /\ bytes[s2 + least] \in 0 .. 255
    BY <2>5 DEF Contents
  <2>7. \A c, d \in 0 .. 255 : c # d => SignedChar(c) - SignedChar(d) # 0
    BY DEF SignedChar
  <2> QED BY <2>4, <2>6, <2>7
<1>9. returned' = 0 <=> StringAt(before', s1) = StringAt(before', s2)
  <2>1. differ = {} <=> \A x \in 0 .. shorter : bytes[s1 + x] = bytes[s2 + x]
    OBVIOUS
  <2>2. differ = {} => returned' = 0
    BY <1>5
  <2> HIDE DEF differ
  <2>3. returned' = 0 <=> StringAt(before, s1) = StringAt(before, s2)
    BY <1>4, <1>8, <2>1, <2>2
  <2>4. StringAt(before', s1) = StringAt(before, s1) /\ StringAt(before', s2) = StringAt(before, s2)
    BY <1>1
  <2> QED BY <2>3, <2>4
<1>10. ComparesNames'
  BY <1>1, <1>9 DEF ComparesNames
<1> QED BY <1>2, <1>10 DEF LibraryContract

------------------------------------------------------------------------------
\* Digits.
DigitRule(g, n) ==
  [v \in 0 .. n |-> IF v < 10 THEN <<48 + v>> ELSE <<48 + (v % 10)>> \o g[v \div 10]]

LEMMA DigitsExist == \A n \in Nat : \E g : g = DigitRule(g, n)
<1> DEFINE Bad == {n \in Nat : ~\E g : g = DigitRule(g, n)}
<1>1. SUFFICES ASSUME Bad # {} PROVE FALSE
  OBVIOUS
<1>2. PICK n \in Bad : \A m \in Bad : n <= m
  <2>1. Bad \in SUBSET Nat
    OBVIOUS
  <2> HIDE DEF Bad
  <2> QED BY <1>1, <2>1, Least
<1>3. n \in Nat /\ ~\E g : g = DigitRule(g, n)
  BY <1>2
<1>4. CASE n < 10
  <2> DEFINE g == [v \in 0 .. n |-> <<48 + v>>]
  <2>1. g = DigitRule(g, n)
    BY <1>3, <1>4 DEF DigitRule
  <2> QED BY <1>3, <2>1
<1>5. CASE n >= 10
  <2>1. n - 1 \in Nat /\ n - 1 \notin Bad
    BY <1>2, <1>3, <1>5
  <2>2. PICK h : h = DigitRule(h, n - 1)
    BY <2>1
  <2> DEFINE Digit(v) == <<48 + (v % 10)>>
             g == [v \in 0 .. n |-> IF v < n THEN h[v] ELSE Digit(n) \o h[n \div 10]]
  <2>3. ASSUME NEW v \in 0 .. n
        PROVE  g[v] = IF v < 10 THEN <<48 + v>> ELSE Digit(v) \o g[v \div 10]
    <3>1. v >= 10 => v \div 10 \in 0 .. n /\ v \div 10 < n
      BY <1>3
    <3>2. v >= 10 => g[v \div 10] = h[v \div 10]
      BY <3>1
    <3>3. CASE v = n
      BY <1>5, <3>2, <3>3
    <3>4. CASE v # n
      <4>1. v \in 0 .. n - 1 /\ v < n
        BY <1>3, <3>4
      <4>2. h[v] = IF v < 10 THEN <<48 + v>> ELSE Digit(v) \o h[v \div 10]
        BY <2>2, <4>1 DEF DigitRule
      <4>3. g[v] = h[v]
        BY <4>1
      <4> HIDE DEF g
      <4> QED BY <3>2, <4>2, <4>3
    <3> QED BY <3>3, <3>4
  <2>4. g = [v \in 0 .. n |-> g[v]]
    OBVIOUS
  <2> HIDE DEF g
  <2>5. g = DigitRule(g, n)
    BY <2>3, <2>4 DEF DigitRule
  <2> QED BY <1>3, <2>5
<1> QED BY <1>3, <1>4, <1>5

\* The last digit is followed by those of the number without it.
LEMMA DigitsOf ==
  ASSUME NEW v \in Nat
  PROVE  Digits(v) = IF v < 10 THEN <<48 + v>> ELSE <<48 + (v % 10)>> \o Digits(v \div 10)
<1> DEFINE Table(n) == CHOOSE g : g = DigitRule(g, n)
<1>1. \A n \in Nat : Digits(n) = Table(n)[n]
  BY DEF Digits, DigitRule
<1>2. \A n \in Nat : Table(n) = DigitRule(Table(n), n)
  BY DigitsExist
<1> HIDE DEF Table
<1>3. \A n \in Nat : \A w \in 0 .. n :
        Table(n)[w] = IF w < 10 THEN <<48 + w>> ELSE <<48 + (w % 10)>> \o Table(n)[w \div 10]
  BY <1>2 DEF DigitRule
<1>4. ASSUME NEW n \in Nat, NEW w \in 0 .. n
      PROVE  Table(n)[w] = Table(w)[w]
  <2>1. ASSUME NEW x \in 0 .. w, \A y \in 0 .. x - 1 : Table(n)[y] = Table(w)[y]
        PROVE  Table(n)[x] = Table(w)[x]
    <3>1. x \in 0 .. n /\ w \in Nat
      OBVIOUS
    <3>2. /\ Table(n)[x] = IF x < 10 THEN <<48 + x>> ELSE <<48 + (x % 10)>> \o Table(n)[x \div 10]
          /\ Table(w)[x] = IF x < 10 THEN <<48 + x>> ELSE <<48 + (x % 10)>> \o Table(w)[x \div 10]
      BY <1>3, <3>1
    <3>3. x >= 10 => x \div 10 \in 0 .. x - 1
      OBVIOUS
    <3>4. x >= 10 => Table(n)[x \div 10] = Table(w)[x \div 10]
      BY <2>1, <3>3
    <3> QED BY <3>2, <3>4
  <2>2. w \in Nat
    OBVIOUS
  <2> QED BY <2>1, <2>2, Agree
<1>5. v >= 10 => v \div 10 \in Nat /\ v \div 10 \in 0 .. v
  OBVIOUS
<1>6. v >= 10 => Table(v)[v \div 10] = Digits(v \div 10)
  BY <1>1, <1>4, <1>5
<1>7. Table(v)[v] = IF v < 10 THEN <<48 + v>> ELSE <<48 + (v % 10)>> \o Table(v)[v \div 10]
  BY <1>3
<1>8. Digits(v) = Table(v)[v]
  BY <1>1
<1> QED BY <1>6, <1>7, <1>8

LEMMA DigitsTypes == \A v \in Nat : Digits(v) \in Seq(48 .. 57) /\ Len(Digits(v)) \in Nat \ {0}
<1> DEFINE Bad == {v \in Nat : ~(Digits(v) \in Seq(48 .. 57) /\ Len(Digits(v)) \in Nat \ {0})}
<1>1. SUFFICES ASSUME Bad # {} PROVE FALSE
  OBVIOUS
<1>2. PICK v \in Bad : \A w \in Bad : v <= w
  <2>1. Bad \in SUBSET Nat
    OBVIOUS
  <2> HIDE DEF Bad
  <2> QED BY <1>1, <2>1, Least
<1>3. /\ v \in Nat /\ ~(Digits(v) \in Seq(48 .. 57) /\ Len(Digits(v)) \in Nat \ {0})
      /\ \A w \in Nat : w < v => Digits(w) \in Seq(48 .. 57) /\ Len(Digits(w)) \in Nat \ {0}
  BY <1>2
<1> HIDE DEF Bad
<1>4. CASE v < 10
  <2>1. Digits(v) = <<48 + v>>
    BY <1>3, <1>4, DigitsOf
  <2>2. 48 + v \in 48 .. 57
    BY <1>3, <1>4
  <2>3. Digits(v) \in Seq(48 .. 57) /\ Len(Digits(v)) = 1
    BY <2>1, <2>2
  <2> QED BY <1>3, <2>3
<1>5. CASE v >= 10
  <2>1. Digits(v) = <<48 + (v % 10)>> \o Digits(v \div 10)
    <3>1. v \in Nat /\ ~(v < 10)
      BY <1>3, <1>5
    <3>2. Digits(v) = IF v < 10 THEN <<48 + v>> ELSE <<48 + (v % 10)>> \o Digits(v \div 10)
      BY <3>1, DigitsOf
    <3> QED BY <3>1, <3>2
  <2>2. v \div 10 \in Nat /\ v \div 10 < v /\ 48 + (v % 10) \in 48 .. 57
    BY <1>3, <1>5
  <2>3. Digits(v \div 10) \in Seq(48 .. 57) /\ Len(Digits(v \div 10)) \in Nat \ {0}
    BY <1>3, <2>2
  <2>4. <<48 + (v % 10)>> \in Seq(48 .. 57) /\ Len(<<48 + (v % 10)>>) = 1
    BY <2>2
  <2>5. Digits(v) \in Seq(48 .. 57) /\ Len(Digits(v)) = 1 + Len(Digits(v \div 10))
    BY <2>1, <2>3, <2>4, ConcatProperties
  <2> QED BY <1>3, <2>3, <2>5
<1> QED BY <1>3, <1>4, <1>5

LEMMA FirstDigit ==
  ASSUME NEW v \in Nat
  PROVE  /\ Digits(v)[1] = 48 + (v % 10)
         /\ v < 10 => Len(Digits(v)) = 1
         /\ v >= 10 => /\ Len(Digits(v)) = Len(Digits(v \div 10)) + 1
                       /\ \A k \in 1 .. Len(Digits(v \div 10)) :
                            Digits(v)[k + 1] = Digits(v \div 10)[k]
<1>1. CASE v < 10
  <2>1. Digits(v) = <<48 + v>>
    BY <1>1, DigitsOf
  <2> QED BY <1>1, <2>1
<1>2. CASE v >= 10
  <2> DEFINE first == <<48 + (v % 10)>>
             rest == Digits(v \div 10)
  <2>1. Digits(v) = first \o rest
    BY <1>2, DigitsOf
  <2>2. v \div 10 \in Nat
    BY <1>2
  <2>3. /\ rest \in Seq(48 .. 57) /\ first \in Seq(48 .. 57)
        /\ Len(first) = 1 /\ first[1] = 48 + (v % 10)
    <3>1. rest \in Seq(48 .. 57)
      BY <2>2, DigitsTypes
    <3>2. 48 + (v % 10) \in 48 .. 57
      OBVIOUS
    <3> QED BY <3>1, <3>2
  <2> HIDE DEF first, rest
  <2>4. /\ Len(first \o rest) = Len(first) + Len(rest) /\ Len(rest) \in Nat
        /\ \A k \in 1 .. Len(first) + Len(rest) :
             (first \o rest)[k] = IF k <= Len(first) THEN first[k] ELSE rest[k - Len(first)]
    <3>1. Len(rest) \in Nat
      BY <2>3
    <3> QED BY <2>3, <3>1, ConcatProperties
  <2>5. (first \o rest)[1] = 48 + (v % 10)
    BY <2>3, <2>4
  <2>6. ASSUME NEW k \in 1 .. Len(rest) PROVE (first \o rest)[k + 1] = rest[k]
    <3>1. k + 1 \in 1 .. Len(first) + Len(rest) /\ ~(k + 1 <= Len(first)) /\ k + 1 - Len(first) = k
      BY <2>3, <2>4
    <3> QED BY <2>4, <3>1
  <2> QED BY <1>2, <2>1, <2>3, <2>4, <2>5, <2>6 DEF rest
<1> QED BY <1>1, <1>2

\* Read from the left, that is from the last of Digits on.
ReadRule(g, d) == [x \in 0 .. Len(d) |-> IF x = 0 THEN 0 ELSE g[x - 1] * 10 + (d[Len(d) - x + 1] - 48)]

LEMMA DigitsRead == \A v \in Nat : \E g : g = ReadRule(g, Digits(v)) /\ g[Len(Digits(v))] = v
<1> DEFINE Reads(v) == \E g : g = ReadRule(g, Digits(v)) /\ g[Len(Digits(v))] = v
           Bad == {v \in Nat : ~Reads(v)}
<1>1. SUFFICES ASSUME Bad # {} PROVE FALSE
  OBVIOUS
<1>2. PICK v \in Bad : \A w \in Bad : v <= w
  <2>1. Bad \in SUBSET Nat
    OBVIOUS
  <2> HIDE DEF Bad
  <2> QED BY <1>1, <2>1, Least
<1>3. v \in Nat /\ ~Reads(v) /\ \A w \in Nat : w < v => Reads(w)
  <2> HIDE DEF Reads
  <2> QED BY <1>2
<1> HIDE DEF Bad
<1>4. CASE v < 10
  <2> DEFINE g == [x \in 0 .. 1 |-> IF x = 0 THEN 0 ELSE v]
  <2>1. Len(Digits(v)) = 1 /\ Digits(v)[1] = 48 + v
    <3>1. v \in Nat /\ v % 10 = v
      BY <1>3, <1>4
    <3>2. Len(Digits(v)) = 1 /\ Digits(v)[1] = 48 + (v % 10)
      BY <1>4, <3>1, FirstDigit
    <3> QED BY <3>1, <3>2
  <2>2. ASSUME NEW x \in 0 .. 1
        PROVE  g[x] = IF x = 0 THEN 0 ELSE g[x - 1] * 10 + (Digits(v)[1 - x + 1] - 48)
    BY <1>3, <2>1
  <2>3. g = ReadRule(g, Digits(v))
    <3>1. g = [x \in 0 .. 1 |-> g[x]]
      OBVIOUS
    <3> HIDE DEF g
    <3> QED BY <2>1, <2>2, <3>1 DEF ReadRule
  <2>4. g[Len(Digits(v))] = v
    BY <2>1
  <2> HIDE DEF g
  <2> QED BY <1>3, <2>3, <2>4
<1>5. CASE v >= 10
  <2> DEFINE d == Digits(v)
             e == Digits(v \div 10)
             l == Len(e)
  <2>1. v \div 10 \in Nat /\ v \div 10 < v /\ (v \div 10) * 10 + (v % 10) = v /\ v % 10 \in Nat
    BY <1>3, <1>5
  <2>2. l \in Nat \ {0}
    BY <2>1, DigitsTypes
  <2>3. Len(d) = l + 1 /\ d[1] = 48 + (v % 10) /\ \A k \in 1 .. l : d[k + 1] = e[k]
    BY <1>3, <1>5, FirstDigit
  <2>4. PICK h : h = ReadRule(h, e) /\ h[l] = v \div 10
    BY <1>3, <2>1
  <2> DEFINE g == [x \in 0 .. l + 1 |-> IF x <= l THEN h[x] ELSE v]
  <2> HIDE DEF d, e, l, Reads
  <2>5. ASSUME NEW x \in 0 .. l
        PROVE  h[x] = IF x = 0 THEN 0 ELSE h[x - 1] * 10 + (e[l - x + 1] - 48)
    BY <2>4 DEF ReadRule, l
  <2>6. ASSUME NEW x \in 0 .. l + 1
        PROVE  g[x] = IF x = 0 THEN 0 ELSE g[x - 1] * 10 + (d[l + 1 - x + 1] - 48)
    <3>1. CASE x = l + 1
      <4>1. /\ g[x] = v /\ x # 0 /\ x - 1 = l /\ l + 1 - x + 1 = 1
            /\ g[l] = h[l]
        BY <2>2, <3>1
      <4> HIDE DEF g
      <4>2. d[l + 1 - x + 1] = 48 + (v % 10)
        BY <2>3, <4>1
      <4>3. g[x - 1] = v \div 10
        BY <2>4, <4>1
      <4>4. (v \div 10) * 10 + ((48 + (v % 10)) - 48) = v
        BY <2>1
      <4> QED BY <4>1, <4>2, <4>3, <4>4
    <3>2. CASE x # l + 1
      <4>1. /\ x \in 0 .. l /\ g[x] = h[x]
            /\ x # 0 => x - 1 \in 0 .. l + 1 /\ g[x - 1] = h[x - 1]
        BY <2>2, <3>2
      <4>2. x # 0 => l - x + 1 \in 1 .. l /\ l + 1 - x + 1 = (l - x + 1) + 1
        BY <2>2, <4>1
      <4>3. x # 0 => d[l + 1 - x + 1] = e[l - x + 1]
        BY <2>3, <4>2
      <4> HIDE DEF g
      <4> QED BY <2>5, <4>1, <4>3
    <3> QED BY <3>1, <3>2
  <2>7. g = [x \in 0 .. l + 1 |-> g[x]] /\ g[l + 1] = v
    BY <2>2
  <2> HIDE DEF g
  <2>8. g = ReadRule(g, d) /\ g[Len(d)] = v
    <3>1. \A x \in 0 .. Len(d) :
            g[x] = IF x = 0 THEN 0 ELSE g[x - 1] * 10 + (d[Len(d) - x + 1] - 48)
      <4> TAKE x \in 0 .. Len(d)
      <4>1. Len(d) = l + 1
        BY <2>3
      <4>2. x \in 0 .. l + 1
        BY <4>1
      <4>3. g[x] = IF x = 0 THEN 0 ELSE g[x - 1] * 10 + (d[l + 1 - x + 1] - 48)
        BY <2>6, <4>2
      <4>4. Len(d) - x + 1 = l + 1 - x + 1
        BY <2>2, <4>1, <4>2
      <4> QED BY <4>3, <4>4
    <3>2. g = [x \in 0 .. Len(d) |-> g[x]] /\ g[Len(d)] = v
      BY <2>3, <2>7
    <3> QED BY <3>1, <3>2 DEF ReadRule
  <2> QED BY <1>3, <2>8 DEF Reads, d
<1> QED BY <1>3, <1>4, <1>5

\* A number whose digits stand in memory, the last of Digits first, reads as itself.
LEMMA NumberReads ==
  ASSUME NEW v \in Nat, NEW m, NEW a \in Nat, strlen(m, a) = Len(Digits(v)),
         \A x \in 1 .. Len(Digits(v)) : m[a + x - 1] = Digits(v)[Len(Digits(v)) - x + 1]
  PROVE  NumberAt(m, a) = v
<1> DEFINE d == Digits(v)
           n == Len(d)
           Step(g) == [x \in 0 .. n |-> IF x = 0 THEN 0 ELSE g[x - 1] * 10 + (m[a + x - 1] - 48)]
<1>1. n \in Nat
  BY DigitsTypes
<1>2. PICK f : f = ReadRule(f, d) /\ f[n] = v
  BY DigitsRead
<1>3. NumberAt(m, a) = (CHOOSE g : g = Step(g))[n]
  BY DEF NumberAt
<1>4. \A x \in 1 .. n : m[a + x - 1] = d[n - x + 1]
  OBVIOUS
<1> HIDE DEF d
<1>5. f = Step(f)
  <2>1. /\ f = [x \in 0 .. n |-> f[x]]
        /\ \A x \in 0 .. n : f[x] = IF x = 0 THEN 0 ELSE f[x - 1] * 10 + (d[n - x + 1] - 48)
    BY <1>2 DEF ReadRule
  <2>2. \A x \in 0 .. n : x # 0 => x \in 1 .. n
    BY <1>1
  <2> HIDE DEF n
  <2>3. \A x \in 0 .. n : f[x] = IF x = 0 THEN 0 ELSE f[x - 1] * 10 + (m[a + x - 1] - 48)
    BY <1>4, <2>1, <2>2
  <2> QED BY <2>1, <2>3
<1>6. ASSUME NEW g, g = Step(g) PROVE g[n] = f[n]
  <2>1. ASSUME NEW x \in 0 .. n, \A w \in 0 .. x - 1 : g[w] = f[w] PROVE g[x] = f[x]
    <3>1. x # 0 => g[x - 1] = f[x - 1]
      <4>1. x # 0 => x - 1 \in 0 .. x - 1
        BY <1>1
      <4> QED BY <2>1, <4>1
    <3>2. /\ g[x] = IF x = 0 THEN 0 ELSE g[x - 1] * 10 + (m[a + x - 1] - 48)
          /\ f[x] = IF x = 0 THEN 0 ELSE f[x - 1] * 10 + (m[a + x - 1] - 48)
      <4> HIDE DEF n
      <4> QED BY <1>5, <1>6
    <3> QED BY <3>1, <3>2
  <2>2. n \in 0 .. n
    BY <1>1
  <2> HIDE DEF n, Step
  <2>3. AgreesNext(g, f, n)
    BY <2>1 DEF AgreesNext, AgreeUpTo
  <2>4. AgreeUpTo(g, f, n)
    BY <1>1, <2>3, AgreeByStep
  <2> QED BY <2>2, <2>4 DEF AgreeUpTo
<1> HIDE DEF Step
<1>7. (CHOOSE g : g = Step(g)) = Step(CHOOSE g : g = Step(g))
  BY <1>5
<1> QED BY <1>2, <1>3, <1>6, <1>7

\* text is stored from its last character on, and the NUL behind it.
StoredFromEnd(r, m, text, n) ==
  /\ r \in Contents
  /\ \A a \in 0 .. n - 1 : r[a] = text[n - a]
  /\ r[n] = 0
  /\ \A a \in n + 1 .. Size - 1 : r[a] = m[a]

LEMMA TextReversed ==
  ASSUME NEW m \in Contents, NEW n \in Nat, n < Size,
         NEW text \in [1 .. n + 1 -> 0 .. 255],
         text[n + 1] = 0, \A k \in 1 .. n : text[k] # 0,
         NEW r, r = reverse(PutText(m, 0, text), 0)
  PROVE  StoredFromEnd(r, m, text, n)
<1> DEFINE p == PutText(m, 0, text)
<1>0. r = reverse(p, 0)
  OBVIOUS
<1>1. /\ p = [a \in Addresses |-> p[a]]
      /\ \A a \in Addresses : p[a] = IF a <= n THEN text[a + 1] ELSE m[a]
  <2>1. \A a \in Addresses : a \in Nat /\ a - 0 + 1 = a + 1 /\ (a - 0 + 1 \in 1 .. n + 1 <=> a <= n)
    BY StringsAssumption DEF Addresses
  <2> QED BY <2>1 DEF PutText
<1> HIDE DEF p
<1>2. \A a \in 0 .. n : a \in Addresses
  BY StringsAssumption DEF Addresses
<1>3. p[n] = 0 /\ \A a \in 0 .. n - 1 : a + 1 \in 1 .. n /\ p[a] = text[a + 1] /\ p[a] \in 0 .. 255 /\ p[a] # 0
  <2>1. n \in 0 .. n /\ n + 1 \in 1 .. n + 1 /\ n <= n
    OBVIOUS
  <2>2. p[n] = 0
    BY <1>1, <1>2, <2>1
  <2>3. ASSUME NEW a \in 0 .. n - 1
        PROVE  a + 1 \in 1 .. n /\ p[a] = text[a + 1] /\ p[a] \in 0 .. 255 /\ p[a] # 0
    <3>1. a \in 0 .. n /\ a <= n /\ a + 1 \in 1 .. n /\ a + 1 \in 1 .. n + 1
      OBVIOUS
    <3>2. p[a] = text[a + 1]
      BY <1>1, <1>2, <3>1
    <3>3. text[a + 1] \in 0 .. 255 /\ text[a + 1] # 0
      BY <3>1
    <3> QED BY <3>1, <3>2, <3>3
  <2> QED BY <2>2, <2>3
<1>4. p \in Contents
  <2>1. \A a \in Addresses : p[a] \in 0 .. 255
    <3> TAKE a \in Addresses
    <3>1. a \in Nat
      BY StringsAssumption DEF Addresses
    <3>2. CASE a <= n
      <4>1. a \in 0 .. n - 1 \/ a = n
        BY <3>1, <3>2
      <4> QED BY <1>3, <4>1
    <3>3. CASE ~(a <= n)
      BY <1>1, <3>3 DEF Contents
    <3> QED BY <3>2, <3>3
  <2> QED BY <1>1, <2>1 DEF Contents
<1>5. strlen(p, 0) = n
  <2>1. 0 + n = n /\ \A k \in 0 .. n - 1 : 0 + k = k /\ p[k] # 0
    <3>1. ASSUME NEW k \in 0 .. n - 1 PROVE 0 + k = k /\ p[k] # 0
      <4>2. p[k] # 0
        BY <1>3
      <4>3. 0 + k = k
        OBVIOUS
      <4> QED BY <4>2, <4>3
    <3> QED BY <3>1
  <2> QED BY <1>3, <1>4, <2>1, EndsThere
<1>6. /\ r = [a \in Addresses |-> r[a]]
      /\ \A a \in Addresses : r[a] = IF a <= n - 1 THEN p[n - 1 - a] ELSE p[a]
  <2>1. \A a \in Addresses : /\ a \in Nat /\ (a \in 0 .. 0 + n - 1 <=> a <= n - 1)
                             /\ (0 + n - 1) - (a - 0) = n - 1 - a
    BY StringsAssumption DEF Addresses
  <2> QED BY <1>0, <1>5, <2>1 DEF reverse
<1>7. ASSUME NEW a \in 0 .. n - 1 PROVE r[a] = text[n - a]
  <2>1. a \in Addresses /\ n - 1 - a \in 0 .. n - 1 /\ (n - 1 - a) + 1 = n - a /\ a <= n - 1
    BY <1>2
  <2> QED BY <1>3, <1>6, <2>1
<1>8. r[n] = 0
  <2>1. n \in Addresses /\ ~(n <= n - 1)
    BY <1>2
  <2> QED BY <1>3, <1>6, <2>1
<1>9. ASSUME NEW a \in n + 1 .. Size - 1 PROVE r[a] = m[a]
  <2>1. a \in Addresses /\ ~(a <= n - 1) /\ ~(a <= n)
    BY StringsAssumption DEF Addresses
  <2> QED BY <1>1, <1>6, <2>1
<1>10. \A a \in Addresses : r[a] \in 0 .. 255
  <2> TAKE a \in Addresses
  <2>1. a \in Nat /\ (a <= n - 1 => n - 1 - a \in Addresses)
    BY StringsAssumption DEF Addresses
  <2> QED BY <1>4, <1>6, <2>1 DEF Contents
<1>11. r \in Contents
  BY <1>6, <1>10 DEF Contents
<1> QED BY <1>7, <1>8, <1>9, <1>11 DEF StoredFromEnd

LEMMA WiderSeq ==
  ASSUME NEW S, NEW T, S \subseteq T, NEW s \in Seq(S)
  PROVE  s \in Seq(T) /\ Len(s) \in Nat /\ \A k \in 1 .. Len(s) : s[k] \in S
OBVIOUS

LEMMA SeqIsFunction ==
  ASSUME NEW S, NEW s \in Seq(S), NEW n, Len(s) = n
  PROVE  s \in [1 .. n -> S]
OBVIOUS

LEMMA WithNUL ==
  ASSUME NEW t \in Seq(1 .. 255)
  PROVE  LET text == t \o <<0>>
         IN  /\ Len(t) \in Nat /\ text \in [1 .. Len(t) + 1 -> 0 .. 255] /\ text[Len(t) + 1] = 0
             /\ \A k \in 1 .. Len(t) : text[k] = t[k] /\ text[k] \in 1 .. 255
<1>1. Len(t) \in Nat /\ t \in Seq(0 .. 255) /\ <<0>> \in Seq(0 .. 255) /\ \A k \in 1 .. Len(t) : t[k] \in 1 .. 255
  <2>1. 1 .. 255 \subseteq 0 .. 255 /\ 0 \in 0 .. 255
    OBVIOUS
  <2>2. t \in Seq(0 .. 255) /\ Len(t) \in Nat /\ \A k \in 1 .. Len(t) : t[k] \in 1 .. 255
    BY <2>1, WiderSeq
  <2> QED BY <2>1, <2>2
<1> DEFINE text == t \o <<0>>
<1>2. /\ text \in Seq(0 .. 255) /\ Len(text) = Len(t) + 1
      /\ \A k \in 1 .. Len(t) + 1 : text[k] = IF k <= Len(t) THEN t[k] ELSE <<0>>[k - Len(t)]
  <2>1. Len(<<0>>) = 1
    OBVIOUS
  <2> QED BY <1>1, <2>1, ConcatProperties
<1>3. Len(t) + 1 - Len(t) = 1 /\ ~(Len(t) + 1 <= Len(t)) /\ Len(t) + 1 \in 1 .. Len(t) + 1
  BY <1>1
<1>4. text[Len(t) + 1] = 0
  BY <1>2, <1>3
<1>5. ASSUME NEW k \in 1 .. Len(t) PROVE text[k] = t[k]
  <2>1. k \in 1 .. Len(t) + 1 /\ k <= Len(t)
    BY <1>1
  <2> QED BY <1>2, <2>1
<1> HIDE DEF text
<1>6. text \in [1 .. Len(t) + 1 -> 0 .. 255]
  BY <1>2, SeqIsFunction
<1> QED BY <1>1, <1>4, <1>5, <1>6 DEF text

\* What memory holds after text was stored, and from which place on a number reads.
LEMMA NumberStored ==
  ASSUME NEW m \in Contents, NEW v \in Nat, NEW sign \in Seq({45}), Len(sign) <= 1,
         Len(Digits(v)) + Len(sign) < Size
  PROVE  LET n == Len(Digits(v)) + Len(sign)
             r == reverse(PutText(m, 0, (Digits(v) \o sign) \o <<0>>), 0)
         IN  /\ r \in Contents /\ n \in Nat
             /\ strlen(r, 0) = n
             /\ \A a \in n + 1 .. Size - 1 : r[a] = m[a]
             /\ Len(sign) = 1 => r[0] = 45
             /\ NumberAt(r, Len(sign)) = v
<1> DEFINE d == Digits(v)
           t == d \o sign
           l == Len(sign)
           n == Len(d) + l
           text == t \o <<0>>
           r == reverse(PutText(m, 0, text), 0)
<1>1. d \in Seq(48 .. 57) /\ Len(d) \in Nat \ {0} /\ \A k \in 1 .. Len(d) : d[k] \in 48 .. 57
  <2>1. d \in Seq(48 .. 57) /\ Len(d) \in Nat \ {0}
    BY DigitsTypes
  <2> HIDE DEF d
  <2> QED BY <2>1
<1>2. l \in {0, 1} /\ l \in Nat /\ \A k \in 1 .. l : sign[k] = 45
  <2>1. l \in Nat /\ l <= 1
    OBVIOUS
  <2>2. \A k \in 1 .. l : sign[k] \in {45}
    OBVIOUS
  <2>3. \A k \in 1 .. l : sign[k] = 45
    BY <2>2
  <2> HIDE DEF l
  <2>4. l \in {0, 1}
    BY <2>1
  <2> QED BY <2>1, <2>3, <2>4
<1>3. /\ t \in Seq(1 .. 255) /\ Len(t) = n
      /\ \A k \in 1 .. Len(d) : t[k] = d[k]
      /\ Len(sign) = 1 => t[n] = 45
  <2>1. d \in Seq(1 .. 255) /\ sign \in Seq(1 .. 255)
    <3>1. 48 .. 57 \subseteq 1 .. 255 /\ 45 \in 1 .. 255
      OBVIOUS
    <3>2. {45} \subseteq 1 .. 255
      OBVIOUS
    <3> HIDE DEF d
    <3> QED BY <1>1, <3>1, <3>2, WiderSeq
  <2> HIDE DEF d
  <2>2. /\ t \in Seq(1 .. 255) /\ Len(t) = Len(d) + Len(sign)
        /\ \A k \in 1 .. Len(d) + Len(sign) : t[k] = IF k <= Len(d) THEN d[k] ELSE sign[k - Len(d)]
    BY <2>1, ConcatProperties
  <2> HIDE DEF t
  <2>3. ASSUME NEW k \in 1 .. Len(d) PROVE t[k] = d[k]
    <3>1. k \in 1 .. Len(d) + Len(sign) /\ k <= Len(d)
      BY <1>1, <1>2
    <3> QED BY <2>2, <3>1
  <2>4. ASSUME Len(sign) = 1 PROVE t[n] = 45
    <3>1. n \in 1 .. Len(d) + Len(sign) /\ ~(n <= Len(d)) /\ n - Len(d) = 1 /\ sign[1] = 45
      BY <1>1, <1>2, <2>4
    <3> QED BY <2>2, <3>1
  <2> QED BY <2>2, <2>3, <2>4
<1> HIDE DEF d, l, t
<1>4. n \in Nat /\ n < Size /\ n >= Len(d) /\ n - l = Len(d)
  BY <1>1, <1>2 DEF d, l
<1>5. /\ text \in [1 .. n + 1 -> 0 .. 255] /\ text[n + 1] = 0
      /\ \A k \in 1 .. n : text[k] = t[k] /\ text[k] \in 1 .. 255
  <2> HIDE DEF n
  <2> QED BY <1>3, WithNUL
<1> HIDE DEF n, text
<1>6. /\ r \in Contents /\ r[n] = 0
      /\ \A a \in 0 .. n - 1 : r[a] = text[n - a]
      /\ \A a \in n + 1 .. Size - 1 : r[a] = m[a]
  <2>1. \A k \in 1 .. n : text[k] # 0
    <3>1. \A x \in 1 .. 255 : x # 0
      OBVIOUS
    <3> QED BY <1>5, <3>1
  <2>2. n \in Nat
    BY <1>4
  <2>4. n < Size
    BY <1>4
  <2>5. text \in [1 .. n + 1 -> 0 .. 255]
    BY <1>5
  <2>6. text[n + 1] = 0
    BY <1>5
  <2>3. r = reverse(PutText(m, 0, text), 0)
    OBVIOUS
  <2> HIDE DEF r
  <2>7. StoredFromEnd(r, m, text, n)
    BY <2>1, <2>2, <2>3, <2>4, <2>5, <2>6, TextReversed
  <2> QED BY <2>7 DEF StoredFromEnd
<1> HIDE DEF r
<1>7. ASSUME NEW a \in 0 .. n - 1 PROVE r[a] = t[n - a] /\ r[a] # 0
  <2>1. n - a \in 1 .. n
    BY <1>4
  <2>2. r[a] = t[n - a] /\ r[a] \in 1 .. 255
    BY <1>5, <1>6, <2>1
  <2>3. \A x \in 1 .. 255 : x # 0
    OBVIOUS
  <2> QED BY <2>2, <2>3
<1>8. ASSUME NEW s \in 0 .. n PROVE strlen(r, s) = n - s
  <2>1. s \in Nat /\ n - s \in Nat /\ s + (n - s) = n
    BY <1>4
  <2>2. ASSUME NEW k \in 0 .. n - s - 1 PROVE r[s + k] # 0
    <3>1. s + k \in 0 .. n - 1
      BY <1>4
    <3> QED BY <1>7, <3>1
  <2> QED BY <1>4, <1>6, <2>1, <2>2, EndsThere
<1>9. Len(sign) = 1 => r[0] = 45
  <2>1. 0 \in 0 .. n - 1 /\ n - 0 = n
    BY <1>1, <1>4
  <2> QED BY <1>3, <1>7, <2>1
<1>10. strlen(r, 0) = n
  <2>1. 0 \in 0 .. n /\ n - 0 = n
    BY <1>4
  <2> QED BY <1>8, <2>1
<1>11. NumberAt(r, l) = v
  <2>1. l \in Nat /\ l \in 0 .. n
    BY <1>1, <1>2, <1>4
  <2>2. strlen(r, l) = Len(d)
    BY <1>4, <1>8, <2>1
  <2>3. ASSUME NEW x \in 1 .. Len(d) PROVE r[l + x - 1] = d[Len(d) - x + 1]
    <3>1. /\ l + x - 1 \in 0 .. n - 1 /\ n - (l + x - 1) = Len(d) - x + 1
          /\ Len(d) - x + 1 \in 1 .. Len(d)
      BY <1>1, <1>2, <1>4
    <3>2. r[l + x - 1] = t[n - (l + x - 1)]
      BY <1>7, <3>1
    <3> QED BY <1>3, <3>1, <3>2
  <2> QED BY <2>1, <2>2, <2>3, NumberReads DEF d
<1> QED BY <1>4, <1>6, <1>9, <1>10, <1>11 DEF n, l, r, text, t, d

\* printNumber and itoa of any number but the smallest int.
LEMMA CallPrints ==
  ASSUME NEW num \in 0 .. MaxUint, before \in Contents, bytes = before, printNumber(num)
  PROVE  LibraryContract'
<1> DEFINE sign == << >>
           r == reverse(PutText(bytes, 0, (Digits(num) \o sign) \o <<0>>), 0)
           n == Len(Digits(num)) + Len(sign)
<1>1. /\ libCall' # << >> /\ libCall'[1] = "printNumber" /\ libCall'[2] = num
      /\ before' = before
  BY DEF Call, printNumber
<1>2. num \in Nat /\ Len(Digits(num)) < Size
  BY StringsAssumption, RoomForNumbers
<1>3. sign \in Seq({45}) /\ Len(sign) = 0
  OBVIOUS
<1>4. Digits(num) \in Seq(48 .. 57) /\ Len(Digits(num)) \in Nat
  BY <1>2, DigitsTypes
<1>5. (Digits(num) \o sign) \o <<0>> = Append(Digits(num), 0)
  <2> DEFINE d == Digits(num)
  <2>1. d \in Seq(Nat)
    <3>1. 48 .. 57 \subseteq Nat
      OBVIOUS
    <3> HIDE DEF d
    <3> QED BY <1>4, <3>1, WiderSeq DEF d
  <2> HIDE DEF d
  <2>2. d \o << >> = d
    BY <2>1, ConcatEmptySeq
  <2>3. d \o <<0>> = Append(d, 0)
    BY <2>1, AppendIsConcat
  <2> QED BY <2>2, <2>3 DEF d
<1>6. bytes' = r /\ returned' = strlen(bytes', 0)
  BY <1>5 DEF printNumber, uint64toa
<1>7. Len(Digits(num)) + Len(sign) < Size /\ Len(sign) <= 1 /\ n = Len(Digits(num))
  BY <1>2, <1>3, <1>4
<1> HIDE DEF sign
<1>8. /\ strlen(r, 0) = n
      /\ \A a \in n + 1 .. Size - 1 : r[a] = bytes[a]
      /\ NumberAt(r, Len(sign)) = num
  BY <1>2, <1>3, <1>7, NumberStored
<1> HIDE DEF r, n
<1>9. NumberAt(bytes', 0) = num /\ returned' = n
  BY <1>3, <1>6, <1>8
<1>10. ASSUME returned' < XSize, NEW a \in XSize .. Size - 1 PROVE bytes'[a] = before'[a]
  <2>1. a \in n + 1 .. Size - 1
    BY <1>4, <1>7, <1>9, <1>10, StringsAssumption
  <2> QED BY <1>1, <1>6, <1>8, <2>1
<1>11. NumbersReadBack'
  BY <1>1, <1>9, <1>10 DEF NumbersReadBack, Called
<1> QED BY <1>1, <1>11 DEF LibraryContract, Copies, ComparesNames, Called

LEMMA CallItoa ==
  ASSUME NEW value \in MinInt .. MaxInt, before \in Contents, bytes = before, itoa(value, 0)
  PROVE  LibraryContract'
<1>1. /\ libCall' # << >> /\ libCall'[1] = "itoa" /\ libCall'[2] = value
      /\ before' = before
  BY DEF Call, itoa
<1>2. ASSUME value > MinInt
      PROVE  IF value < 0 THEN bytes'[0] = 45 /\ NumberAt(bytes', 1) = -value
             ELSE NumberAt(bytes', 0) = value
  <2> DEFINE size == IF value < 0 THEN -value ELSE value
             sign == IF value < 0 THEN <<45>> ELSE << >>
             r == reverse(PutText(bytes, 0, (Digits(size) \o sign) \o <<0>>), 0)
  <2>1. bytes' = r
    BY <1>2 DEF itoa
  <2>2. size \in 0 .. MaxInt /\ size \in Nat /\ (value < 0 => size = -value) /\ (~(value < 0) => size = value)
    BY <1>2, StringsAssumption DEF MinInt
  <2>3. sign \in Seq({45}) /\ Len(sign) = IF value < 0 THEN 1 ELSE 0
    <3>1. <<45>> \in Seq({45}) /\ Len(<<45>>) = 1 /\ << >> \in Seq({45}) /\ Len(<< >>) = 0
      OBVIOUS
    <3>2. CASE value < 0
      BY <3>1, <3>2
    <3>3. CASE ~(value < 0)
      BY <3>1, <3>3
    <3> QED BY <3>2, <3>3
  <2> HIDE DEF size, sign
  <2>4. Len(Digits(size)) \in Nat /\ Len(Digits(size)) + 1 < Size
    <3>1. size \in 0 .. MaxInt + 1
      BY <2>2, StringsAssumption
    <3> QED BY <2>2, <3>1, DigitsTypes, RoomForNumbers
  <2>5. Len(sign) <= 1 /\ Len(Digits(size)) + Len(sign) < Size
    BY <2>3, <2>4, StringsAssumption
  <2>6. (Len(sign) = 1 => r[0] = 45) /\ NumberAt(r, Len(sign)) = size
    BY <2>2, <2>3, <2>5, NumberStored
  <2> HIDE DEF r
  <2>7. CASE value < 0
    BY <2>1, <2>2, <2>3, <2>6, <2>7
  <2>8. CASE ~(value < 0)
    BY <2>1, <2>2, <2>3, <2>6, <2>8
  <2> QED BY <2>7, <2>8
<1>3. NumbersReadBack'
  BY <1>1, <1>2 DEF NumbersReadBack, Called
<1> QED BY <1>1, <1>3 DEF LibraryContract, Copies, ComparesNames, Called

------------------------------------------------------------------------------
\* What the memory looks like, whatever is called: also after a copy that overwrites
\* what it has still to read.
CopyRule(g, m, dest, src, n) ==
  [i \in 0 .. n |-> IF i = 0 THEN m
                    ELSE [g[i - 1] EXCEPT ![dest + i - 1] = g[i - 1][src + i - 1]]]

LEMMA CopyExists ==
  ASSUME NEW m, NEW dest, NEW src
  PROVE  \A n \in Nat : \E g : g = CopyRule(g, m, dest, src, n)
<1> DEFINE Bad == {n \in Nat : ~\E g : g = CopyRule(g, m, dest, src, n)}
           Round(x, i) == [x EXCEPT ![dest + i - 1] = x[src + i - 1]]
<1>1. SUFFICES ASSUME Bad # {} PROVE FALSE
  OBVIOUS
<1>2. PICK n \in Bad : \A k \in Bad : n <= k
  <2>1. Bad \in SUBSET Nat
    OBVIOUS
  <2> HIDE DEF Bad
  <2> QED BY <1>1, <2>1, Least
<1>3. n \in Nat /\ ~\E g : g = CopyRule(g, m, dest, src, n)
  BY <1>2
<1>4. CASE n = 0
  <2>1. [i \in 0 .. n |-> m] = CopyRule([i \in 0 .. n |-> m], m, dest, src, n)
    BY <1>4 DEF CopyRule
  <2> QED BY <1>3, <2>1
<1>5. CASE n # 0
  <2>1. n - 1 \in Nat /\ n - 1 \notin Bad
    BY <1>2, <1>3, <1>5
  <2>2. PICK h : h = CopyRule(h, m, dest, src, n - 1)
    BY <2>1
  <2> DEFINE g == [i \in 0 .. n |-> IF i < n THEN h[i] ELSE Round(h[n - 1], n)]
  <2>3. \A i \in 0 .. n - 1 : h[i] = IF i = 0 THEN m ELSE Round(h[i - 1], i)
    BY <2>2 DEF CopyRule
  <2> HIDE DEF Round
  <2>4. ASSUME NEW i \in 0 .. n PROVE g[i] = IF i = 0 THEN m ELSE Round(g[i - 1], i)
    <3>1. i # 0 => g[i - 1] = h[i - 1]
      BY <1>3
    <3>2. CASE i < n
      BY <1>3, <2>3, <3>1, <3>2
    <3>3. CASE ~(i < n)
      BY <1>3, <1>5, <3>1, <3>3
    <3> QED BY <3>2, <3>3
  <2>5. g = [i \in 0 .. n |-> g[i]]
    OBVIOUS
  <2> HIDE DEF g
  <2>6. g = CopyRule(g, m, dest, src, n)
    BY <2>4, <2>5 DEF CopyRule, Round
  <2> QED BY <1>3, <2>6
<1> QED BY <1>4, <1>5

LEMMA ForwardTypes ==
  ASSUME NEW m \in Contents, NEW dest \in Nat, NEW src \in Nat, NEW n \in Nat,
         dest + n <= Size, src + n <= Size
  PROVE  Forward(m, dest, src, n) \in Contents
<1> DEFINE g == CHOOSE g : g = CopyRule(g, m, dest, src, n)
<1>1. Forward(m, dest, src, n) = g[n]
  BY DEF Forward, CopyRule
<1>2. g = CopyRule(g, m, dest, src, n)
  BY CopyExists
<1> HIDE DEF g
<1> DEFINE Bad == {i \in 0 .. n : g[i] \notin Contents}
<1>3. SUFFICES ASSUME Bad # {} PROVE FALSE
  BY <1>1
<1>4. PICK i \in Bad : \A k \in Bad : i <= k
  <2>1. Bad \in SUBSET Nat
    OBVIOUS
  <2> HIDE DEF Bad
  <2> QED BY <1>3, <2>1, Least
<1>5. g[i] = IF i = 0 THEN m ELSE [g[i - 1] EXCEPT ![dest + i - 1] = g[i - 1][src + i - 1]]
  BY <1>2 DEF CopyRule
<1>6. i # 0
  BY <1>4, <1>5
<1>7. g[i - 1] \in Contents
  BY <1>4, <1>6
<1>8. src + i - 1 \in Addresses /\ dest + i - 1 \in Addresses
  BY <1>6, StringsAssumption DEF Addresses
<1>9. g[i] \in Contents
  BY <1>5, <1>6, <1>7, <1>8 DEF Contents
<1> QED BY <1>4, <1>9

\* memcmp and strcmp.
LEMMA ComparedTypes ==
  ASSUME bytes \in Contents, NEW s1 \in Addresses, NEW s2 \in Addresses, strcmp(s1, s2)
  PROVE  returned' \in -255 .. 255
<1>0. s1 \in Nat /\ s2 \in Nat
  BY StringsAssumption DEF Addresses
<1> DEFINE l1 == strlen(bytes, s1)
           l2 == strlen(bytes, s2)
           shorter == Min({l1, l2})
           differ == {i \in 0 .. shorter : bytes[s1 + i] # bytes[s2 + i]}
<1>1. returned' = IF differ = {} THEN 0
                  ELSE SignedChar(bytes[s1 + Min(differ)]) - SignedChar(bytes[s2 + Min(differ)])
  BY DEF strcmp
<1>2. l1 \in Nat /\ s1 + l1 < Size /\ l2 \in Nat /\ s2 + l2 < Size
  BY <1>0, StringEnds DEF strcmp
<1> HIDE DEF l1, l2
<1>3. shorter = IF l1 <= l2 THEN l1 ELSE l2
  BY <1>2 DEF Min
<1> HIDE DEF shorter
<1>4. shorter \in Nat /\ s1 + shorter < Size /\ s2 + shorter < Size
  <2>1. Size \in Nat
    BY StringsAssumption
  <2> QED BY <1>0, <1>2, <1>3, <2>1
<1>5. CASE differ # {}
  <2>1. differ \in SUBSET Nat
    OBVIOUS
  <2>2. PICK x \in differ : \A y \in differ : x <= y
    <3> HIDE DEF differ
    <3> QED BY <1>5, <2>1, Least
  <2>3. Min(differ) \in differ
    <3> HIDE DEF differ
    <3> QED BY <2>2 DEF Min
  <2> DEFINE least == Min(differ)
  <2>4. least \in 0 .. shorter
    BY <2>3
  <2>5. returned' = SignedChar(bytes[s1 + least]) - SignedChar(bytes[s2 + least])
    BY <1>1, <1>5
  <2> HIDE DEF least, differ
  <2>6. s1 + least \in Addresses /\ s2 + least \in Addresses
    BY <1>0, <1>4, <2>4, StringsAssumption DEF Addresses
  <2>7. bytes[s1 + least] \in 0 .. 255 /\ bytes[s2 + least] \in 0 .. 255
    BY <2>6 DEF Contents
  <2>8. \A c, d \in 0 .. 255 : SignedChar(c) - SignedChar(d) \in -255 .. 255
    <3>1. \A c \in 0 .. 255 : SignedChar(c) \in -128 .. 127
      BY DEF SignedChar
    <3>2. \A x_, y_ \in -128 .. 127 : x_ - y_ \in -255 .. 255
      OBVIOUS
    <3> QED BY <3>1, <3>2
  <2> QED BY <2>5, <2>7, <2>8
<1> QED BY <1>1, <1>5

\* A number, or the character that stands for the smallest int, with its sign.
LEMMA PrintedTypes ==
  ASSUME bytes \in Contents, NEW num \in 0 .. MaxUint, printNumber(num)
  PROVE  bytes' \in Contents /\ returned' \in 0 .. Size - 1
<1> DEFINE sign == << >>
           r == reverse(PutText(bytes, 0, (Digits(num) \o sign) \o <<0>>), 0)
           n == Len(Digits(num)) + Len(sign)
<1>1. num \in Nat /\ Len(Digits(num)) < Size
  BY StringsAssumption, RoomForNumbers
<1>2. sign \in Seq({45}) /\ Len(sign) = 0
  OBVIOUS
<1>3. Digits(num) \in Seq(48 .. 57) /\ Len(Digits(num)) \in Nat
  BY <1>1, DigitsTypes
<1>4. (Digits(num) \o sign) \o <<0>> = Append(Digits(num), 0)
  <2> DEFINE d == Digits(num)
  <2>1. d \in Seq(Nat)
    <3>1. 48 .. 57 \subseteq Nat
      OBVIOUS
    <3> HIDE DEF d
    <3> QED BY <1>3, <3>1, WiderSeq DEF d
  <2> HIDE DEF d
  <2>2. d \o << >> = d
    BY <2>1, ConcatEmptySeq
  <2>3. d \o <<0>> = Append(d, 0)
    BY <2>1, AppendIsConcat
  <2> QED BY <2>2, <2>3 DEF d
<1>5. bytes' = r /\ returned' = strlen(bytes', 0)
  BY <1>4 DEF printNumber, uint64toa
<1>6. Len(Digits(num)) + Len(sign) < Size /\ Len(sign) <= 1 /\ n = Len(Digits(num))
  BY <1>1, <1>2, <1>3
<1> HIDE DEF sign
<1>7. r \in Contents /\ strlen(r, 0) = n
  BY <1>1, <1>2, <1>6, NumberStored
<1> HIDE DEF r, n
<1> QED BY <1>1, <1>3, <1>5, <1>6, <1>7, StringsAssumption

LEMMA ItoaTypes ==
  ASSUME bytes \in Contents, NEW value \in MinInt .. MaxInt, itoa(value, 0)
  PROVE  bytes' \in Contents
<1> DEFINE size == IF value < 0 THEN -value ELSE value
           sign == IF value < 0 THEN <<45>> ELSE << >>
           Text(digits) == (digits \o sign) \o <<0>>
<1>1. size \in 0 .. MaxInt + 1 /\ size \in Nat
  BY StringsAssumption DEF MinInt
<1>2. PICK digits \in {Digits(size), <<48 - ((-value) % 10)>>} :
        /\ value # MinInt => digits = Digits(size)
        /\ bytes' = reverse(PutText(bytes, 0, digits \o sign \o <<0>>), 0)
  <2>1. PICK digits \in IF value = MinInt THEN {Digits(-value), <<48 - ((-value) % 10)>>}
                        ELSE {Digits(IF value < 0 THEN -value ELSE value)} :
          bytes' = reverse(PutText(bytes, 0, digits \o sign \o <<0>>), 0)
    BY DEF itoa
  <2>2. value = MinInt => value < 0
    BY StringsAssumption DEF MinInt
  <2> QED BY <2>1, <2>2
<1>3. sign \in Seq({45}) /\ Len(sign) = IF value < 0 THEN 1 ELSE 0
  <2>1. <<45>> \in Seq({45}) /\ Len(<<45>>) = 1 /\ << >> \in Seq({45}) /\ Len(<< >>) = 0
    OBVIOUS
  <2>2. CASE value < 0
    BY <2>1, <2>2
  <2>3. CASE ~(value < 0)
    BY <2>1, <2>3
  <2> QED BY <2>2, <2>3
<1> HIDE DEF size
<1>4. Len(Digits(size)) \in Nat \ {0} /\ Len(Digits(size)) + 1 < Size
  BY <1>1, DigitsTypes, RoomForNumbers
<1>5. CASE digits = Digits(size)
  <2> HIDE DEF sign
  <2>1. Len(sign) <= 1 /\ Len(Digits(size)) + Len(sign) < Size
    BY <1>3, <1>4, StringsAssumption
  <2> QED BY <1>1, <1>2, <1>3, <1>5, <2>1, NumberStored
<1>6. CASE value = MinInt /\ digits = <<48 - ((-value) % 10)>>
  <2> DEFINE t == digits \o sign
             text == t \o <<0>>
             r == reverse(PutText(bytes, 0, text), 0)
  <2>1. (-value) % 10 \in 0 .. 9 /\ value < 0
    BY <1>6, StringsAssumption DEF MinInt
  <2>2. digits \in Seq(1 .. 255) /\ Len(digits) = 1 /\ sign \in Seq(1 .. 255) /\ Len(sign) = 1
    <3>1. 48 - ((-value) % 10) \in 1 .. 255
      BY <2>1
    <3> QED BY <1>6, <2>1, <3>1
  <2>3. t \in Seq(1 .. 255) /\ Len(t) = 2
    <3> HIDE DEF sign
    <3>1. t \in Seq(1 .. 255) /\ Len(t) = Len(digits) + Len(sign)
      BY <2>2, ConcatProperties
    <3> HIDE DEF t
    <3> QED BY <2>2, <3>1
  <2> HIDE DEF t
  <2>4. text \in [1 .. 2 + 1 -> 0 .. 255] /\ text[2 + 1] = 0 /\ \A k \in 1 .. 2 : text[k] \in 1 .. 255
    BY <2>3, WithNUL
  <2>5. 2 \in Nat /\ 2 < Size /\ \A k \in 1 .. 2 : text[k] # 0
    <3>1. \A x \in 1 .. 255 : x # 0
      OBVIOUS
    <3>2. 2 < Size
      BY <1>4, StringsAssumption
    <3> HIDE DEF text
    <3> QED BY <2>4, <3>1, <3>2
  <2>6. r = reverse(PutText(bytes, 0, text), 0)
    OBVIOUS
  <2>7. bytes' = r
    BY <1>2 DEF t
  <2> HIDE DEF r, text
  <2>8. StoredFromEnd(r, bytes, text, 2)
    BY <2>4, <2>5, <2>6, TextReversed
  <2> QED BY <2>7, <2>8 DEF StoredFromEnd
<1> QED BY <1>2, <1>5, <1>6

LEMMA LibTypesStart == LibInit => LibTypeOK
<1> SUFFICES ASSUME LibInit PROVE LibTypeOK
  OBVIOUS
<1>1. bytes \in [Addresses -> 0 .. 255] /\ before \in [Addresses -> Chars]
  BY StringsAssumption DEF LibInit
<1>2. returned \in -255 .. 255
  BY DEF LibInit
<1> QED BY <1>1, <1>2 DEF LibTypeOK

LEMMA LibTypesKept == LibTypeOK /\ [LibNext]_libVars => LibTypeOK'
<1> SUFFICES ASSUME LibTypeOK, [LibNext]_libVars PROVE LibTypeOK'
  OBVIOUS
<1>0. /\ bytes \in Contents /\ before \in [Addresses -> Chars]
      /\ returned \in -255 .. 255 \cup 0 .. Size - 1
      /\ \A x \in Addresses : x \in Nat
  <2>1. \A x \in Addresses : x \in Nat
    BY StringsAssumption DEF Addresses
  <2> QED BY <2>1 DEF LibTypeOK, Contents
<1>1. ASSUME bytes' \in Contents, before' = before \/ before' \in [Addresses -> Chars],
             returned' = returned \/ returned' \in -255 .. 255 \/ returned' \in 0 .. Size - 1
      PROVE  LibTypeOK'
  BY <1>0, <1>1 DEF LibTypeOK, Contents
<1>2. CASE UNCHANGED libVars
  BY <1>0, <1>1, <1>2 DEF libVars
<1>3. CASE Prepare
  <2>1. before' \in [Addresses -> Chars] /\ bytes' = before' /\ returned' = returned
    BY <1>3 DEF Prepare
  <2>2. bytes' \in Contents
    BY <2>1, StringsAssumption DEF Contents
  <2> QED BY <1>1, <2>1, <2>2
<1>4. ASSUME NEW a \in Addresses, NEW b \in Addresses, NEW n \in Addresses,
             InMemory(a, n), InMemory(b, n), memcpy(a, b, n) \/ memmove(a, b, n) \/ memcmp(a, b, n)
      PROVE  LibTypeOK'
  <2>1. a \in Nat /\ b \in Nat /\ n \in Nat /\ a + n <= Size /\ b + n <= Size
    BY <1>0, <1>4 DEF InMemory
  <2>2. Forward(bytes, a, b, n) \in Contents
    BY <1>0, <2>1, ForwardTypes
  <2>3. ~(b > a) => Backward(bytes, a, b, n) \in Contents
    <3>1. ~(b > a) => b \notin a + 1 .. a + n - 1
      BY <2>1
    <3>2. Moved(bytes, a, b, n) \in Contents
      BY <1>0, <2>1, MovedTypes
    <3> QED BY <1>0, <2>1, <3>1, <3>2, BackwardMoves
  <2>4. CASE memcpy(a, b, n)
    BY <1>1, <2>2, <2>4 DEF memcpy, Call
  <2>5. CASE memmove(a, b, n)
    BY <1>1, <2>2, <2>3, <2>5 DEF memmove, Call
  <2>6. CASE memcmp(a, b, n)
    <3>1. returned' \in {0, -1, 1} /\ bytes' = bytes /\ before' = before
      BY <2>6 DEF memcmp, Call
    <3>2. returned' \in -255 .. 255
      BY <3>1
    <3> QED BY <1>0, <1>1, <3>1, <3>2
  <2> QED BY <1>4, <2>4, <2>5, <2>6
<1>5. ASSUME NEW a \in Addresses, NEW n \in Addresses, NEW c \in MemsetArgs, memset(a, c, n)
      PROVE  LibTypeOK'
  <2>1. c % 256 \in 0 .. 255
    BY StringsAssumption
  <2>2. bytes' \in Contents
    BY <1>0, <1>5, <2>1 DEF memset, Contents
  <2> QED BY <1>1, <1>5, <2>2 DEF memset, Call
<1>6. ASSUME NEW a \in Addresses, NEW b \in Addresses, strcmp(a, b) PROVE LibTypeOK'
  <2>1. returned' \in -255 .. 255
    BY <1>0, <1>6, ComparedTypes
  <2> QED BY <1>0, <1>1, <1>6, <2>1 DEF strcmp, Call
<1>7. ASSUME NEW a \in Addresses, NEW b \in Addresses, strcpy(a, b) PROVE LibTypeOK'
  <2> DEFINE n == strlen(bytes, b)
  <2>1. IsString(bytes, b) /\ a + n <= Size /\ bytes' = Forward(bytes, a, b, n)
        /\ before' = before /\ returned' = returned
    BY <1>7 DEF strcpy, InMemory, Call
  <2>2. n \in Nat /\ b + n < Size
    BY <1>0, <2>1, StringEnds
  <2> HIDE DEF n
  <2>3. b + n <= Size /\ a \in Nat /\ b \in Nat
    BY <1>0, <2>2, StringsAssumption
  <2>4. bytes' \in Contents
    BY <1>0, <2>1, <2>2, <2>3, ForwardTypes
  <2> QED BY <1>1, <2>1, <2>4
<1>8. ASSUME NEW value \in MinInt .. MaxInt, itoa(value, 0) PROVE LibTypeOK'
  <2>1. bytes' \in Contents
    BY <1>0, <1>8, ItoaTypes
  <2> QED BY <1>1, <1>8, <2>1 DEF itoa, Call
<1>9. ASSUME NEW num \in 0 .. MaxUint, printNumber(num) PROVE LibTypeOK'
  <2>1. bytes' \in Contents /\ returned' \in 0 .. Size - 1
    BY <1>0, <1>9, PrintedTypes
  <2> QED BY <1>1, <1>9, <2>1 DEF printNumber, Call
<1> QED BY <1>2, <1>3, <1>4, <1>5, <1>6, <1>7, <1>8, <1>9 DEF LibNext

------------------------------------------------------------------------------
\* The library as a whole.  The memory a function finds is the memory that was
\* prepared for it, and no function has been called before.
LibInv ==
  /\ before \in Contents
  /\ libCall = << >> => bytes = before
  /\ LibraryContract

\* Whatever is called with whatever in memory: memmove copies what was there, strcmp
\* tells two strings apart exactly if they differ, and a number that is printed reads
\* back as itself (string.c, stdlib.c, print.c).
THEOREM LibraryKept == LibSpec => []LibraryContract
<1>1. LibInit => LibInv
  <2> SUFFICES ASSUME LibInit PROVE LibInv
    OBVIOUS
  <2>1. before \in Contents /\ bytes = before /\ libCall = << >>
    BY DEF LibInit, Contents
  <2>2. LibraryContract
    BY <2>1 DEF LibraryContract, Copies, ComparesNames, NumbersReadBack, Called
  <2> QED BY <2>1, <2>2 DEF LibInv
<1>2. LibInv /\ [LibNext]_libVars => LibInv'
  <2> SUFFICES ASSUME LibInv, [LibNext]_libVars PROVE LibInv'
    OBVIOUS
  <2>a. \A x \in Addresses : x \in Nat
    BY StringsAssumption DEF Addresses
  <2>1. CASE UNCHANGED libVars
    <3>1. UNCHANGED <<before, libCall, bytes>> /\ LibraryContract' = LibraryContract
      BY <2>1 DEF libVars, LibraryContract, Copies, ComparesNames, NumbersReadBack, Called
    <3> QED BY <3>1 DEF LibInv
  <2>2. CASE Prepare
    <3>1. libCall' = << >> /\ bytes' = before' /\ before' \in Contents
      BY <2>2, StringsAssumption DEF Prepare, Contents
    <3>2. LibraryContract'
      BY <3>1 DEF LibraryContract, Copies, ComparesNames, NumbersReadBack, Called
    <3> QED BY <3>1, <3>2 DEF LibInv
  <2>3. ASSUME NEW a \in Addresses, NEW b \in Addresses, NEW n \in Addresses,
               InMemory(a, n), InMemory(b, n), memcpy(a, b, n) \/ memmove(a, b, n) \/ memcmp(a, b, n)
        PROVE  LibInv'
    <3>1. /\ a \in Nat /\ b \in Nat /\ n \in Nat /\ a + n <= Size /\ b + n <= Size
          /\ before \in Contents
      BY <2>a, <2>3 DEF InMemory, LibInv
    <3>2. CASE memcpy(a, b, n)
      <4>1. Call("memcpy", <<a, b, n>>) /\ bytes' = Forward(bytes, a, b, n)
        BY <3>2 DEF memcpy
      <4>2. bytes = before
        BY <4>1 DEF Call, LibInv
      <4>3. a \notin b + 1 .. b + n - 1 => bytes' = Moved(before, a, b, n)
        BY <3>1, <4>1, <4>2, ForwardMoves
      <4>4. LibraryContract'
        BY <3>1, <4>1, <4>3, CallCopies
      <4> QED BY <3>1, <4>1, <4>4 DEF LibInv, Call
    <3>3. CASE memmove(a, b, n)
      <4>1. /\ Call("memmove", <<a, b, n>>)
            /\ bytes' = IF b > a THEN Forward(bytes, a, b, n) ELSE Backward(bytes, a, b, n)
        BY <3>3 DEF memmove
      <4>2. bytes = before
        BY <4>1 DEF Call, LibInv
      <4>3. bytes' = Moved(before, a, b, n)
        <5>1. CASE b > a
          <6>1. a \notin b + 1 .. b + n - 1
            BY <3>1, <5>1
          <6> QED BY <3>1, <4>1, <4>2, <5>1, <6>1, ForwardMoves
        <5>2. CASE ~(b > a)
          <6>1. b \notin a + 1 .. a + n - 1
            BY <3>1, <5>2
          <6> QED BY <3>1, <4>1, <4>2, <5>2, <6>1, BackwardMoves
        <5> QED BY <5>1, <5>2
      <4>4. LibraryContract'
        BY <3>1, <4>1, <4>3, CallCopies
      <4> QED BY <3>1, <4>1, <4>4 DEF LibInv, Call
    <3>4. CASE memcmp(a, b, n)
      <4>1. Call("memcmp", <<a, b, n>>)
        BY <3>4 DEF memcmp
      <4>2. LibraryContract'
        BY <3>1, <4>1, CallOther
      <4> QED BY <3>1, <4>1, <4>2 DEF LibInv, Call
    <3> QED BY <2>3, <3>2, <3>3, <3>4
  <2>4. ASSUME NEW a \in Addresses, NEW n \in Addresses, NEW c \in MemsetArgs, memset(a, c, n)
        PROVE  LibInv'
    <3>1. Call("memset", <<a, c, n>>)
      BY <2>4 DEF memset
    <3>2. LibraryContract' /\ libCall' # << >>
      BY <3>1 DEF Call, LibraryContract, Copies, ComparesNames, NumbersReadBack, Called
    <3> QED BY <3>1, <3>2 DEF LibInv, Call
  <2>5. ASSUME NEW a \in Addresses, NEW b \in Addresses, strcmp(a, b) PROVE LibInv'
    <3>1. Call("strcmp", <<a, b>>)
      BY <2>5 DEF strcmp
    <3>2. bytes = before /\ before \in Contents /\ a \in Nat /\ b \in Nat
      BY <2>a, <3>1 DEF Call, LibInv
    <3>3. LibraryContract'
      BY <2>5, <3>2, CallCompares
    <3> QED BY <3>1, <3>2, <3>3 DEF LibInv, Call
  <2>6. ASSUME NEW a \in Addresses, NEW b \in Addresses, strcpy(a, b) PROVE LibInv'
    <3> DEFINE n == strlen(bytes, b)
    <3>1. /\ Call("strcpy", <<a, b, n>>) /\ IsString(bytes, b) /\ a + n <= Size
          /\ bytes' = Forward(bytes, a, b, n)
      BY <2>6 DEF strcpy, InMemory
    <3>2. bytes = before /\ before \in Contents /\ a \in Nat /\ b \in Nat
      BY <2>a, <3>1 DEF Call, LibInv
    <3>3. n \in Nat /\ b + n < Size
      BY <3>1, <3>2, StringEnds
    <3> HIDE DEF n
    <3>4. a \notin b + 1 .. b + n - 1 => bytes' = Moved(before, a, b, n)
      <4>1. b + n <= Size
        BY <3>2, <3>3, StringsAssumption
      <4> QED BY <3>1, <3>2, <3>3, <4>1, ForwardMoves
    <3>5. LibraryContract'
      BY <3>1, <3>2, <3>3, <3>4, CallCopies
    <3> QED BY <3>1, <3>2, <3>5 DEF LibInv, Call
  <2>7. ASSUME NEW value \in MinInt .. MaxInt, itoa(value, 0) PROVE LibInv'
    <3>1. Call("itoa", <<value, 0>>)
      BY <2>7 DEF itoa
    <3>2. bytes = before /\ before \in Contents
      BY <3>1 DEF Call, LibInv
    <3>3. LibraryContract'
      BY <2>7, <3>2, CallItoa
    <3> QED BY <3>1, <3>2, <3>3 DEF LibInv, Call
  <2>8. ASSUME NEW num \in 0 .. MaxUint, printNumber(num) PROVE LibInv'
    <3>1. Call("printNumber", <<num>>)
      BY <2>8 DEF printNumber
    <3>2. bytes = before /\ before \in Contents
      BY <3>1 DEF Call, LibInv
    <3>3. LibraryContract'
      BY <2>8, <3>2, CallPrints
    <3> QED BY <3>1, <3>2, <3>3 DEF LibInv, Call
  <2> QED BY <2>1, <2>2, <2>3, <2>4, <2>5, <2>6, <2>7, <2>8 DEF LibNext
<1>3. LibInv => LibraryContract
  BY DEF LibInv
<1> QED BY <1>1, <1>2, <1>3, PTL DEF LibSpec
==============================================================================
