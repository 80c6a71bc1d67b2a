------------------------------ MODULE PmmProofs ------------------------------
(***************************************************************************)
(* Proofs about Pmm for every region length, block size and request.       *)
(*                                                                         *)
(* The blocks b_malloc can reach form a tree.  Two of them are apart, or   *)
(* one lies in a half of the other, or they are equal (Laminar); all the   *)
(* invariants are consequences of that and of the order of the search.     *)
(***************************************************************************)
EXTENDS Pmm, TLAPS

\* Callers ask for at least one word and for less than the whole region.
RequestsFit == Sizes \subseteq 1 .. Length - 1

In(u, t) == t.base <= u.base /\ u.base + u.len <= t.base + t.len
Apart(u, t) == u.base + u.len <= t.base \/ t.base + t.len <= u.base
Halved(t) == t.len > BLOCK_SIZE

\* The blocks the search can reach: the least set that has the root and, with
\* a block that is halved, its halves.
Closed(T) == Root \in T /\ \A t \in T : Halved(t) => Left(t) \in T /\ Right(t) \in T
Tree == {t \in Block : \A T \in SUBSET Block : Closed(T) => t \in T}

------------------------------------------------------------------------------
\* The halves of a block that is halved are blocks, and cover all of it but
\* perhaps one word.
LEMMA HalfBounds ==
  ASSUME NEW t \in Block
  PROVE  /\ Half(t) \in Nat
         /\ 2 * Half(t) <= t.len
         /\ t.len <= 2 * Half(t) + 1
         /\ Halved(t) => Half(t) > 0 /\ Left(t) \in Block /\ Right(t) \in Block
BY PmmAssumption DEF Block, Half, Left, Right, Halved

LEMMA RootBlock == Root \in Block
BY PmmAssumption DEF Root, Block

LEMMA TreeRoot == Root \in Tree
BY RootBlock DEF Tree, Closed

LEMMA TreeHalves ==
  ASSUME NEW t \in Tree, Halved(t)
  PROVE  Left(t) \in Tree /\ Right(t) \in Tree
BY HalfBounds DEF Tree, Closed

LEMMA TreeBlock == Tree \subseteq Block
BY DEF Tree

\* Induction over the tree.
LEMMA TreeInduction ==
  ASSUME NEW T \in SUBSET Tree, Closed(T)
  PROVE  T = Tree
BY DEF Tree

\* Every block of the tree lies in the region.
LEMMA TreeInRoot == \A t \in Tree : In(t, Root)
<1> DEFINE T == {t \in Tree : In(t, Root)}
<1>1. Root \in T
  BY TreeRoot, RootBlock DEF In, Block
<1>2. ASSUME NEW t \in T, Halved(t)
      PROVE  Left(t) \in T /\ Right(t) \in T
  <2>1. t \in Block /\ Left(t) \in Tree /\ Right(t) \in Tree
    BY <1>2, TreeHalves, TreeBlock
  <2>2. In(Left(t), Root) /\ In(Right(t), Root)
    BY <1>2, <2>1, HalfBounds, RootBlock DEF In, Left, Right, Block
  <2> QED BY <2>1, <2>2
<1>3. Closed(T)
  BY <1>1, <1>2 DEF Closed
<1> HIDE DEF T
<1>4. T = Tree
  BY <1>3, TreeInduction DEF T
<1> QED BY <1>4 DEF T

------------------------------------------------------------------------------
\* u is apart from t, or contains it, or lies in one of its halves.
Nested(u, t) ==
  \/ Apart(u, t)
  \/ In(t, u)
  \/ Halved(t) /\ (In(u, Left(t)) \/ In(u, Right(t)))

\* A half of p is nested with s if p is nested with s and s with p.
LEMMA NestedHalf ==
  ASSUME NEW p \in Block, NEW s \in Block, Halved(p), Nested(p, s), Nested(s, p)
  PROVE  Nested(Left(p), s) /\ Nested(Right(p), s)
<1>1. /\ Half(p) \in Nat /\ Half(p) > 0
      /\ 2 * Half(p) <= p.len /\ p.len <= 2 * Half(p) + 1
      /\ Half(s) \in Nat
      /\ 2 * Half(s) <= s.len /\ s.len <= 2 * Half(s) + 1
  BY HalfBounds
<1>2. CASE Apart(p, s)
  BY <1>1, <1>2 DEF Nested, Apart, Left, Right, Block
<1>3. CASE Halved(s) /\ (In(p, Left(s)) \/ In(p, Right(s)))
  BY <1>1, <1>3 DEF Nested, In, Left, Right, Block
<1>4. CASE In(s, p) /\ In(p, s)
  <2>1. s = p
    BY <1>4 DEF In, Block
  <2> QED BY <2>1, <1>1 DEF Nested, In, Left, Right, Block
<1>5. CASE In(s, p) /\ (In(s, Left(p)) \/ In(s, Right(p)))
  BY <1>1, <1>5 DEF Nested, In, Apart, Left, Right, Block
<1>6. In(s, p) => ~Apart(s, p)
  BY DEF In, Apart, Block
<1> QED BY <1>2, <1>3, <1>4, <1>5, <1>6 DEF Nested

\* Any two blocks of the tree are nested.
LEMMA Laminar == \A t, u \in Tree : Nested(u, t)
<1> DEFINE T == {t \in Tree : \A u \in Tree : Nested(u, t) /\ Nested(t, u)}
<1> USE TreeBlock
<1>1. Root \in T
  <2> DEFINE U == {u \in Tree : Nested(u, Root)}
  <2>1. Root \in U
    BY TreeRoot, RootBlock DEF Nested, In, Block
  <2>2. ASSUME NEW p \in U, Halved(p)
        PROVE  Left(p) \in U /\ Right(p) \in U
    <3>1. Nested(Root, p)
      BY TreeInRoot DEF Nested
    <3> QED BY <3>1, <2>2, NestedHalf, RootBlock, TreeHalves
  <2>3. Closed(U)
    BY <2>1, <2>2 DEF Closed
  <2>4. U = Tree
    <3> HIDE DEF U
    <3> QED BY <2>3, TreeInduction DEF U
  <2>5. \A u \in Tree : Nested(Root, u)
    BY TreeInRoot DEF Nested
  <2> QED BY <2>4, <2>5, TreeRoot
<1>2. ASSUME NEW t \in T, Halved(t), NEW s \in {Left(t), Right(t)}
      PROVE  s \in T
  <2>0. s \in Tree /\ s \in Block /\ t \in Tree /\ t \in Block
    BY <1>2, TreeHalves
  <2>1. ASSUME NEW u \in Tree, Nested(u, s)
        PROVE  Nested(s, u)
    <3>0. u \in Block /\ Nested(u, t) /\ Nested(t, u)
      BY <1>2
    <3>1. /\ Half(t) \in Nat /\ Half(t) > 0
          /\ 2 * Half(t) <= t.len /\ t.len <= 2 * Half(t) + 1
      BY <1>2, <2>0, HalfBounds
    <3>2. CASE Apart(u, s)
      BY <3>2 DEF Nested, Apart
    <3>3. CASE Halved(s) /\ (In(u, Left(s)) \/ In(u, Right(s)))
      <4>1. In(u, s)
        BY <3>3, <2>0, <3>0, HalfBounds DEF In, Left, Right, Block
      <4> QED BY <4>1 DEF Nested
    <3>4. CASE In(s, u)
      <4>1. In(s, t) /\ ~Apart(s, u) /\ ~Apart(t, u)
        BY <3>1, <3>4, <2>0, <3>0 DEF In, Apart, Left, Right, Block
      <4>2. CASE Halved(u) /\ (In(t, Left(u)) \/ In(t, Right(u)))
        <5>1. Half(u) \in Nat
          BY <3>0, HalfBounds
        <5> QED BY <4>1, <4>2, <5>1, <2>0, <3>0 DEF Nested, In, Left, Right, Block
      <4>3. CASE In(u, t) /\ In(t, u)
        <5>1. u = t
          BY <4>3, <2>0, <3>0 DEF In, Block
        <5> QED BY <5>1, <1>2, <2>0, <3>1 DEF Nested, In, Left, Right, Block
      <4>4. CASE In(u, Left(t)) \/ In(u, Right(t))
        <5>1. In(u, s)
          BY <4>4, <3>1, <3>4, <2>0, <3>0 DEF In, Left, Right, Block
        <5> QED BY <5>1 DEF Nested
      <4>5. Apart(u, t) <=> Apart(t, u)
        BY <2>0, <3>0 DEF Apart, Block
      <4> QED BY <3>0, <4>1, <4>2, <4>3, <4>4, <4>5 DEF Nested
    <3> QED BY <2>1, <3>2, <3>3, <3>4 DEF Nested
  <2> DEFINE U == {u \in Tree : Nested(u, s)}
  <2>2. Root \in U
    BY <2>0, TreeRoot, TreeInRoot DEF Nested
  <2>3. ASSUME NEW p \in U, Halved(p)
        PROVE  Left(p) \in U /\ Right(p) \in U
    BY <2>0, <2>1, <2>3, NestedHalf, TreeHalves
  <2>4. Closed(U)
    BY <2>2, <2>3 DEF Closed
  <2>5. U = Tree
    <3> HIDE DEF U
    <3> QED BY <2>4, TreeInduction DEF U
  <2> QED BY <2>0, <2>1, <2>5
<1>3. Closed(T)
  BY <1>1, <1>2 DEF Closed
<1>4. T = Tree
  <2> HIDE DEF T
  <2> QED BY <1>3, TreeInduction DEF T
<1> QED BY <1>4

\* A block around a half, with another base, is around the whole.
LEMMA AroundHalf ==
  ASSUME NEW t \in Tree, NEW u \in Tree, Halved(t), NEW h \in {Left(t), Right(t)},
         In(h, u), u.base # h.base
  PROVE  In(t, u)
<1>1. t \in Block /\ u \in Block /\ Nested(u, t)
  BY TreeBlock, Laminar
<1>2. Half(t) \in Nat /\ 0 < Half(t) /\ 2 * Half(t) <= t.len
  BY <1>1, HalfBounds
<1>3. CASE h = Left(t)
  <2>1. ~Apart(u, t) /\ ~In(u, Left(t)) /\ ~In(u, Right(t))
    BY <1>1, <1>2, <1>3 DEF Apart, In, Left, Right, Block
  <2> QED BY <1>1, <2>1 DEF Nested
<1>4. CASE h = Right(t)
  <2>1. ~Apart(u, t) /\ ~In(u, Left(t)) /\ ~In(u, Right(t))
    BY <1>1, <1>2, <1>4 DEF Apart, In, Left, Right, Block
  <2> QED BY <1>1, <2>1 DEF Nested
<1> QED BY <1>3, <1>4

------------------------------------------------------------------------------
\* The invariant of k_malloc alone, for requests in any order.
Span(t) == {n \in Nat : t.base <= n /\ n < t.base + t.len}

\* Each allocation was cut from a block of the tree that is longer than it and,
\* if it could have been halved, whose half is not.
GivenOK ==
  \A a \in given :
    /\ BlockOf(a) \in Tree
    /\ 0 < a.size /\ a.size < a.len
    /\ Halved(BlockOf(a)) => Half(BlockOf(a)) <= a.size + 1

\* What is still to be searched is blocks of the tree longer than the request.
SearchOK ==
  \A i \in DOMAIN todo :
    todo[i] \in Tree /\ 0 < request /\ request < todo[i].len

\* A block whose header is 0 holds the base of no allocation.
ZeroHeader ==
  \A u \in Tree : mem[u.base] = 0 => \A a \in given : a.base \notin Span(u)

\* The search went past the blocks around those it has still to search because
\* their headers are not 0, except for those it is still to look into.
Passed ==
  \A i \in DOMAIN todo, u \in Tree :
    In(todo[i], u) /\ u.base # todo[i].base =>
      \/ mem[u.base] # 0
      \/ \E j \in 1 .. i - 1 : todo[j].base = u.base

CoreInv == TypeOK /\ GivenOK /\ SearchOK /\ HeadersIntact /\ ZeroHeader /\ Passed

\* A block of the tree starts at a word of the memory and ends inside the
\* region.
LEMMA TreeBounds ==
  \A u \in Tree : /\ u \in Block
                  /\ u.base + u.len <= Length
                  /\ u.base \in Words
BY TreeBlock, TreeInRoot, PmmAssumption DEF In, Root, Block, Words

LEMMA CoreInit == RequestsFit /\ Init => CoreInv
<1> SUFFICES ASSUME Init PROVE CoreInv
  OBVIOUS
<1>1. TypeOK
  BY PmmAssumption DEF Init, TypeOK, Block, NoCall
<1>2. given = {} /\ DOMAIN todo = {}
  BY DEF Init, given
<1> QED BY <1>1, <1>2 DEF CoreInv, GivenOK, SearchOK, HeadersIntact, ZeroHeader, Passed

LEMMA CoreMalloc ==
  ASSUME RequestsFit, CoreInv, NEW size \in Sizes, Malloc(size)
  PROVE  CoreInv'
<1>1. size \in Nat /\ 0 < size /\ size < Length
  BY PmmAssumption DEF RequestsFit
<1>2. todo' = <<Root>> /\ DOMAIN todo' = {1} /\ todo'[1] = Root
  BY DEF Malloc
<1>3. mem' = mem /\ given' = given /\ request' = size
  BY DEF Malloc, given
<1>4. TypeOK'
  BY <1>1, RootBlock DEF CoreInv, TypeOK, Malloc
<1>5. SearchOK'
  BY <1>1, <1>2, <1>3, TreeRoot, PmmAssumption DEF SearchOK, Root
<1>6. Passed'
  <2>1. ASSUME NEW u \in Tree, In(Root, u)
        PROVE  u.base = Root.base
    BY <2>1, TreeBounds DEF In, Root, Block
  <2> QED BY <1>2, <2>1 DEF Passed
<1> QED BY <1>3, <1>4, <1>5, <1>6 DEF CoreInv, GivenOK, HeadersIntact, ZeroHeader

\* What taking the first block of todo does.
LEMMA TakeEffect ==
  ASSUME CoreInv, Take, NEW t, t = Head(todo)
  PROVE  /\ 1 \in DOMAIN todo /\ todo[1] = t
         /\ t \in Tree /\ t \in Block /\ mem[t.base] = 0
         /\ request \in Nat /\ 0 < request /\ request < t.len
         /\ Halved(t) => Half(t) <= request + 1
         /\ given' = given \cup {[base |-> t.base, size |-> request, len |-> t.len]}
         /\ \A a \in given : a.base \notin Span(t)
         /\ mem' \in [Words -> Nat]
         /\ mem'[t.base] = request
         /\ \A w \in Words :
              /\ w \in t.base + 1 .. t.base + request => mem'[w] = 0
              /\ w \notin t.base .. t.base + request => mem'[w] = mem[w]
<1>1. 1 \in DOMAIN todo /\ todo[1] = t
  BY DEF CoreInv, TypeOK, Take
<1>2. t \in Tree /\ 0 < request /\ request < t.len /\ request \in Nat
  BY <1>1 DEF CoreInv, TypeOK, SearchOK
<1>3. t \in Block /\ t.base \in Words
  BY <1>2, TreeBounds
<1>4. mem[t.base] = 0 /\ (Halved(t) => Half(t) <= request + 1)
  <2>1. Takes(t)
    BY DEF Take
  <2> QED BY <2>1, <1>3, PmmAssumption DEF Takes, Halved, Block
<1>5. given' = given \cup {[base |-> t.base, size |-> request, len |-> t.len]}
  BY DEF Take, given
<1>6. mem' = [w \in Words |-> IF w = t.base THEN request
                ELSE IF w \in t.base + 1 .. t.base + request THEN 0
                ELSE mem[w]]
  BY DEF Take
<1>7. /\ mem' \in [Words -> Nat]
      /\ mem'[t.base] = request
      /\ \A w \in Words :
            /\ w \in t.base + 1 .. t.base + request => mem'[w] = 0
            /\ w \notin t.base .. t.base + request => mem'[w] = mem[w]
  BY <1>2, <1>3, <1>6 DEF CoreInv, TypeOK, Block, Words
<1>8. \A a \in given : a.base \notin Span(t)
  BY <1>2, <1>4 DEF CoreInv, ZeroHeader
<1> QED BY <1>1, <1>2, <1>3, <1>4, <1>5, <1>7, <1>8

LEMMA CoreTake ==
  ASSUME CoreInv, Take
  PROVE  CoreInv'
<1> DEFINE t == Head(todo)
           new == [base |-> t.base, size |-> request, len |-> t.len]
<1>1. /\ 1 \in DOMAIN todo /\ todo[1] = t
      /\ t \in Tree /\ t \in Block /\ mem[t.base] = 0
      /\ request \in Nat /\ 0 < request /\ request < t.len
      /\ Halved(t) => Half(t) <= request + 1
      /\ given' = given \cup {new}
      /\ \A a \in given : a.base \notin Span(t)
      /\ mem' \in [Words -> Nat]
      /\ mem'[t.base] = request
      /\ \A w \in Words :
           /\ w \in t.base + 1 .. t.base + request => mem'[w] = 0
           /\ w \notin t.base .. t.base + request => mem'[w] = mem[w]
  BY TakeEffect
<1>2. todo' = << >> /\ request' = 0 /\ result' = t.base + 1
      /\ live' = live \cup {new} /\ freed' = freed
  BY DEF Take
<1> HIDE DEF t
<1>3. new \in Allocation /\ new.base = t.base /\ new.size = request
      /\ BlockOf(new) = t
  BY <1>1 DEF Allocation, Block, BlockOf
<1>4. TypeOK'
  BY <1>1, <1>2, <1>3 DEF CoreInv, TypeOK, Block
<1>5. GivenOK'
  BY <1>1, <1>3 DEF CoreInv, GivenOK
<1>6. SearchOK' /\ Passed'
  BY <1>2 DEF SearchOK, Passed
<1>7. \A a \in given : a \in Allocation /\ BlockOf(a) \in Tree /\ a.base \in Words
  BY TreeBounds DEF CoreInv, TypeOK, GivenOK, given, BlockOf
<1>8. HeadersIntact'
  <2>1. ASSUME NEW a \in given
        PROVE  mem'[a.base] = a.size
    <3>1. a.base \notin t.base .. t.base + request
      BY <1>1, <1>7 DEF Span, Block, Allocation
    <3> QED BY <3>1, <1>1, <1>7 DEF CoreInv, HeadersIntact
  <2> QED BY <2>1, <1>1, <1>3 DEF HeadersIntact
<1>9. ZeroHeader'
  <2>1. ASSUME NEW u \in Tree, mem'[u.base] = 0, NEW a \in given \cup {new}
        PROVE  a.base \notin Span(u)
    <3>0. u \in Block /\ u.base \in Words /\ u.base # t.base /\ Nested(u, t)
      BY <1>1, <2>1, TreeBounds, Laminar
    <3>h. Half(t) \in Nat /\ 2 * Half(t) <= t.len
      BY <1>1, HalfBounds
    <3>1. CASE u.base \in t.base + 1 .. t.base + request
      <4>1. In(u, Left(t)) \/ In(u, Right(t))
        BY <1>1, <3>0, <3>1 DEF Nested, Apart, In, Block
      <4>2. In(u, t) /\ t.base < u.base
        BY <1>1, <3>0, <3>1, <3>h, <4>1 DEF In, Left, Right, Block
      <4>3. a.base \in Span(u) => a.base \in Span(t)
        BY <1>1, <3>0, <4>2 DEF Span, In, Block
      <4>4. t.base \notin Span(u)
        BY <1>1, <3>0, <4>2 DEF Span, Block
      <4> QED BY <1>1, <1>3, <4>3, <4>4
    <3>2. CASE u.base \notin t.base .. t.base + request
      <4>1. mem[u.base] = 0
        BY <1>1, <2>1, <3>0, <3>2
      <4>2. \A b \in given : b.base \notin Span(u)
        BY <4>1 DEF CoreInv, ZeroHeader
      <4>3. ASSUME t.base \in Span(u)
            PROVE  FALSE
        <5>1. ~Apart(u, t) /\ ~(In(u, Left(t)) \/ In(u, Right(t)))
          BY <1>1, <3>0, <3>h, <4>3 DEF Span, Apart, In, Left, Right, Block
        <5>2. In(t, u)
          BY <3>0, <5>1 DEF Nested
        <5>3. \/ mem[u.base] # 0
              \/ \E j \in 1 .. 1 - 1 : todo[j].base = u.base
          BY <1>1, <3>0, <5>2 DEF CoreInv, Passed
        <5> QED BY <4>1, <5>3
      <4> QED BY <4>2, <4>3, <1>3
    <3> QED BY <1>1, <3>0, <3>1, <3>2 DEF Block
  <2> QED BY <2>1, <1>1 DEF ZeroHeader
<1> QED BY <1>4, <1>5, <1>6, <1>8, <1>9 DEF CoreInv

\* The stack after a block is replaced by its halves.
LEMMA SplitStack ==
  ASSUME TypeOK, Split, NEW t, t = Head(todo)
  PROVE  /\ t \in Block /\ 1 \in DOMAIN todo /\ todo[1] = t
         /\ DOMAIN todo' = 1 .. Len(todo) + 1
         /\ todo'[1] = Left(t) /\ todo'[2] = Right(t)
         /\ \A i \in 3 .. Len(todo) + 1 : todo'[i] = todo[i - 1]
         /\ DOMAIN todo = 1 .. Len(todo) /\ Len(todo) \in Nat \ {0}
         /\ Left(t) \in Block /\ Right(t) \in Block
         /\ todo' \in Seq(Block)
<1>1. todo \in Seq(Block) /\ todo # << >> /\ todo' = <<Left(t), Right(t)>> \o Tail(todo)
  BY DEF TypeOK, Split
<1>2. t \in Block /\ 1 \in DOMAIN todo /\ todo[1] = t
      /\ DOMAIN todo = 1 .. Len(todo) /\ Len(todo) \in Nat \ {0}
  BY <1>1
<1>3. Halved(t)
  BY DEF Split, Splits, Halved
<1>4. Left(t) \in Block /\ Right(t) \in Block
  BY <1>2, <1>3, HalfBounds
<1>5. Tail(todo) \in Seq(Block) /\ Len(Tail(todo)) = Len(todo) - 1
      /\ \A i \in 1 .. Len(todo) - 1 : Tail(todo)[i] = todo[i + 1]
  BY <1>1
<1>6. /\ todo' \in Seq(Block)
      /\ Len(todo') = Len(todo) + 1
      /\ todo'[1] = Left(t) /\ todo'[2] = Right(t)
      /\ \A i \in 3 .. Len(todo) + 1 : todo'[i] = Tail(todo)[i - 2]
  BY <1>1, <1>2, <1>4, <1>5
<1>7. \A i \in 3 .. Len(todo) + 1 : todo'[i] = todo[i - 1]
  BY <1>2, <1>5, <1>6
<1> QED BY <1>2, <1>4, <1>6, <1>7

LEMMA CoreSplit ==
  ASSUME CoreInv, Split
  PROVE  CoreInv'
<1> DEFINE t == Head(todo)
<1>1. /\ t \in Block /\ 1 \in DOMAIN todo /\ todo[1] = t
      /\ DOMAIN todo' = 1 .. Len(todo) + 1
      /\ todo'[1] = Left(t) /\ todo'[2] = Right(t)
      /\ \A i \in 3 .. Len(todo) + 1 : todo'[i] = todo[i - 1]
      /\ DOMAIN todo = 1 .. Len(todo) /\ Len(todo) \in Nat \ {0}
      /\ Left(t) \in Block /\ Right(t) \in Block
      /\ todo' \in Seq(Block)
  BY SplitStack DEF CoreInv
<1>2. mem' = mem /\ given' = given /\ request' = request
  BY DEF Split, given
<1>3. Halved(t) /\ Half(t) > request
  BY DEF Split, Splits, Halved
<1>4. TypeOK'
  BY <1>1 DEF CoreInv, TypeOK, Split
<1> HIDE DEF t
<1>5. t \in Tree /\ 0 < request
  BY <1>1 DEF CoreInv, SearchOK
<1>6. Left(t) \in Tree /\ Right(t) \in Tree
  BY <1>3, <1>5, TreeHalves
<1>7. Half(t) \in Nat /\ 2 * Half(t) <= t.len /\ t.len <= 2 * Half(t) + 1 /\ 0 < Half(t)
  BY <1>1, <1>3, HalfBounds
<1>8. SearchOK'
  <2>1. ASSUME NEW i \in 1 .. Len(todo) + 1
        PROVE  todo'[i] \in Tree /\ request < todo'[i].len
    <3>1. CASE i \in {1, 2}
      BY <1>1, <1>3, <1>6, <3>1 DEF Left, Right
    <3>2. CASE i \in 3 .. Len(todo) + 1
      BY <1>1, <3>2 DEF CoreInv, SearchOK
    <3> QED BY <3>1, <3>2, <1>1
  <2> QED BY <1>1, <1>2, <1>5, <2>1 DEF SearchOK
<1>9. Passed'
  <2>1. ASSUME NEW i \in 1 .. Len(todo) + 1, NEW u \in Tree,
               In(todo'[i], u), u.base # todo'[i].base
        PROVE  \/ mem[u.base] # 0
               \/ \E j \in 1 .. i - 1 : todo'[j].base = u.base
    <3>0. u \in Block /\ Nested(u, t)
      BY <1>5, TreeBounds, Laminar
    <3>1. CASE i \in {1, 2}
      <4>1. In(t, u)
        BY <1>1, <1>3, <1>5, <2>1, <3>1, AroundHalf
      <4>2. CASE u.base = t.base
        <5>1. i = 2 /\ todo'[1].base = u.base
          BY <1>1, <2>1, <3>1, <4>2 DEF Left
        <5> QED BY <5>1
      <4>3. CASE u.base # t.base
        <5>1. \/ mem[u.base] # 0
              \/ \E j \in 1 .. 1 - 1 : todo[j].base = u.base
          BY <1>1, <4>1, <4>3 DEF CoreInv, Passed
        <5> QED BY <5>1
      <4> QED BY <4>2, <4>3
    <3>2. CASE i \in 3 .. Len(todo) + 1
      <4>1. i - 1 \in DOMAIN todo /\ todo'[i] = todo[i - 1]
        BY <1>1, <3>2
      <4>2. \/ mem[u.base] # 0
            \/ \E j \in 1 .. (i - 1) - 1 : todo[j].base = u.base
        BY <2>1, <4>1 DEF CoreInv, Passed
      <4>3. ASSUME NEW j \in 1 .. (i - 1) - 1, todo[j].base = u.base
            PROVE  \E k \in 1 .. i - 1 : todo'[k].base = u.base
        <5>1. CASE j = 1
          <6>1. todo'[1].base = u.base /\ 1 \in 1 .. i - 1
            BY <1>1, <3>2, <4>3, <5>1 DEF Left
          <6> QED BY <6>1
        <5>2. CASE j # 1
          <6>1. j + 1 \in 3 .. Len(todo) + 1 /\ j + 1 \in 1 .. i - 1
            BY <1>1, <3>2, <5>2
          <6>2. todo'[j + 1] = todo[(j + 1) - 1] /\ (j + 1) - 1 = j
            BY <1>1, <6>1
          <6> QED BY <4>3, <6>1, <6>2
        <5> QED BY <5>1, <5>2
      <4> QED BY <4>2, <4>3
    <3> QED BY <3>1, <3>2, <1>1
  <2> QED BY <2>1, <1>1, <1>2 DEF Passed
<1> QED BY <1>2, <1>4, <1>8, <1>9 DEF CoreInv, GivenOK, HeadersIntact, ZeroHeader

\* A search that passes a block finds its header set.
LEMMA FailSetHeader ==
  ASSUME CoreInv, Fail
  PROVE  /\ todo # << >>
         /\ mem[todo[1].base] # 0
         /\ DOMAIN todo' = 1 .. Len(todo) - 1
         /\ todo' \in Seq(Block)
         /\ \A i \in 1 .. Len(todo) - 1 : todo'[i] = todo[i + 1]
         /\ DOMAIN todo = 1 .. Len(todo) /\ Len(todo) \in Nat \ {0}
<1>1. todo \in Seq(Block) /\ todo # << >> /\ todo' = Tail(todo)
  BY DEF CoreInv, TypeOK, Fail
<1>2. 1 \in DOMAIN todo /\ Head(todo) = todo[1] /\ todo[1] \in Block
  BY <1>1
<1>3. request < todo[1].len /\ request \in Nat
  BY <1>2 DEF CoreInv, SearchOK, TypeOK
<1>4. ~Takes(todo[1]) /\ ~Splits(todo[1]) /\ Half(todo[1]) \in Nat
  BY <1>2, HalfBounds DEF Fail
<1>5. mem[todo[1].base] # 0
  BY <1>2, <1>3, <1>4, PmmAssumption DEF Takes, Splits, Block
<1> QED BY <1>1, <1>5

LEMMA CoreFail ==
  ASSUME CoreInv, Fail
  PROVE  CoreInv'
<1>1. /\ mem[todo[1].base] # 0
      /\ DOMAIN todo' = 1 .. Len(todo) - 1
      /\ todo' \in Seq(Block)
      /\ \A i \in 1 .. Len(todo) - 1 : todo'[i] = todo[i + 1]
      /\ DOMAIN todo = 1 .. Len(todo) /\ Len(todo) \in Nat \ {0}
  BY FailSetHeader
<1>2. mem' = mem /\ given' = given
  BY DEF Fail, given
<1>3. todo' # << >> => request' = request
  BY DEF Fail
<1>4. TypeOK'
  BY <1>1 DEF CoreInv, TypeOK, Fail, NULL
<1>5. SearchOK'
  <2>1. ASSUME NEW i \in 1 .. Len(todo) - 1
        PROVE  /\ todo'[i] \in Tree /\ 0 < request /\ request < todo'[i].len
               /\ request' = request
    <3>1. i + 1 \in DOMAIN todo /\ todo'[i] = todo[i + 1] /\ todo' # << >>
      BY <1>1
    <3> QED BY <3>1, <1>3 DEF CoreInv, SearchOK
  <2> QED BY <2>1, <1>1 DEF SearchOK
<1>6. Passed'
  <2>1. ASSUME NEW i \in 1 .. Len(todo) - 1, NEW u \in Tree,
               In(todo'[i], u), u.base # todo'[i].base
        PROVE  \/ mem[u.base] # 0
               \/ \E j \in 1 .. i - 1 : todo'[j].base = u.base
    <3>1. i + 1 \in DOMAIN todo /\ todo'[i] = todo[i + 1]
      BY <1>1
    <3>2. \/ mem[u.base] # 0
          \/ \E j \in 1 .. (i + 1) - 1 : todo[j].base = u.base
      BY <2>1, <3>1 DEF CoreInv, Passed
    <3>3. ASSUME NEW j \in 1 .. (i + 1) - 1, todo[j].base = u.base
          PROVE  \/ mem[u.base] # 0
                 \/ \E k \in 1 .. i - 1 : todo'[k].base = u.base
      <4>1. CASE j = 1
        BY <1>1, <3>3, <4>1
      <4>2. CASE j # 1
        <5>1. j - 1 \in 1 .. i - 1 /\ j - 1 \in 1 .. Len(todo) - 1 /\ (j - 1) + 1 = j
          BY <1>1, <4>2
        <5>2. todo'[j - 1].base = u.base
          BY <1>1, <3>3, <5>1
        <5> QED BY <5>1, <5>2
      <4> QED BY <4>1, <4>2
    <3> QED BY <3>2, <3>3
  <2> QED BY <2>1, <1>1, <1>2 DEF Passed
<1> QED BY <1>2, <1>4, <1>5, <1>6 DEF CoreInv, GivenOK, HeadersIntact, ZeroHeader

LEMMA CoreStutter ==
  ASSUME CoreInv, UNCHANGED vars
  PROVE  CoreInv'
BY DEF CoreInv, vars, TypeOK, GivenOK, SearchOK, HeadersIntact, ZeroHeader, Passed, given

\* The parts of the invariant that the runs check.
LEMMA CoreImplies ==
  CoreInv => TypeOK /\ HeadersIntact /\ FitsBlock /\ ZeroHeaderFree
<1> SUFFICES ASSUME CoreInv
             PROVE  FitsBlock /\ ZeroHeaderFree
  BY DEF CoreInv
<1>1. FitsBlock
  BY TreeBounds DEF CoreInv, GivenOK, FitsBlock, BlockOf
<1>2. ASSUME NEW i \in 1 .. Len(todo), mem[todo[i].base] = 0, NEW a \in given
      PROVE  a.base \notin todo[i].base .. todo[i].base + todo[i].len - 1
  <2>1. i \in DOMAIN todo /\ a \in Allocation
    BY DEF CoreInv, TypeOK, given
  <2>2. todo[i] \in Tree /\ todo[i] \in Block
    BY <2>1, TreeBounds DEF CoreInv, SearchOK
  <2>3. a.base \notin Span(todo[i])
    BY <1>2, <2>2 DEF CoreInv, ZeroHeader
  <2> QED BY <2>1, <2>2, <2>3 DEF Span, Block, Allocation
<1> QED BY <1>1, <1>2 DEF ZeroHeaderFree

LEMMA CoreAlways == RequestsFit => (MallocSpec => []CoreInv)
<1> SUFFICES ASSUME RequestsFit
             PROVE  MallocSpec => []CoreInv
  OBVIOUS
<1>1. Init => CoreInv
  BY CoreInit
<1>2. CoreInv /\ [MallocNext]_vars => CoreInv'
  BY CoreMalloc, CoreTake, CoreSplit, CoreFail, CoreStutter DEF MallocNext, Search
<1> QED BY <1>1, <1>2, PTL DEF MallocSpec

\* For callers that only allocate, in any order: the word k_free reads is the one
\* k_malloc wrote for that allocation (pmm.c:118).
THEOREM AnyOrder == RequestsFit => (MallocSpec => [](TypeOK /\ HeadersIntact))
BY CoreAlways, CoreImplies, PTL

\* For such callers an allocation fits the block it was made in (b_malloc,
\* pmm.c:79).
THEOREM InsideItsBlock == RequestsFit => (MallocSpec => []FitsBlock)
BY CoreAlways, CoreImplies, PTL

\* For such callers a block whose header is 0 and that the search reaches holds no
\* allocation (b_malloc, pmm.c:91).
THEOREM ZeroMeansFree == RequestsFit => (MallocSpec => []ZeroHeaderFree)
BY CoreAlways, CoreImplies, PTL

------------------------------------------------------------------------------
\* What callers whose requests never shrink add to the invariant.

\* No search asks for less than was handed out before.
Growing == todo # << >> => \A a \in given : a.size <= request

\* What begins inside the block of an allocation, past its base, begins at the
\* block's right half or later, and the payload ends before that.
Beyond(base, a) ==
  a.base < base /\ base < a.base + a.len =>
    /\ Halved(BlockOf(a))
    /\ Half(BlockOf(a)) = a.size + 1
    /\ a.base + Half(BlockOf(a)) <= base

Apiece == \A a, b \in given : Beyond(b.base, a) /\ (a.base = b.base => a = b)

SearchBeyond == \A i \in DOMAIN todo : \A a \in given : Beyond(todo[i].base, a)

GrowInv == Growing /\ Apiece /\ SearchBeyond

\* The header and the payload of an allocation end inside its block.
LEMMA GivenBounds ==
  ASSUME CoreInv
  PROVE  \A a \in given : /\ a \in Allocation
                          /\ BlockOf(a) \in Tree /\ BlockOf(a) \in Block
                          /\ a.base \in Nat /\ a.size \in Nat /\ a.len \in Nat
                          /\ 0 < a.size /\ a.size < a.len
                          /\ a.base + a.len <= Length
                          /\ BlockOf(a).base = a.base /\ BlockOf(a).len = a.len
BY TreeBounds DEF CoreInv, TypeOK, GivenOK, given, Allocation, BlockOf

LEMMA GrowImpliesDisjoint == CoreInv /\ GrowInv => GivenDisjoint
<1> SUFFICES ASSUME CoreInv, GrowInv, NEW a \in given, NEW b \in given,
                    a # b, a.base <= b.base
             PROVE  Extent(a) \cap Extent(b) = {}
  BY GivenBounds DEF GivenDisjoint, Disjoint
<1>1. a.base < b.base /\ Beyond(b.base, a)
  BY GivenBounds DEF GrowInv, Apiece
<1>2. a.base + a.size < b.base
  <2>1. CASE b.base < a.base + a.len
    BY <1>1, <2>1, GivenBounds DEF Beyond
  <2>2. CASE a.base + a.len <= b.base
    BY <2>2, GivenBounds
  <2> QED BY <2>1, <2>2, GivenBounds
<1> QED BY <1>2, GivenBounds DEF Extent

LEMMA GrowMalloc ==
  ASSUME CoreInv, GrowInv, NEW size \in Sizes, NonDecreasing(size), Malloc(size)
  PROVE  GrowInv'
<1>1. todo' = <<Root>> /\ DOMAIN todo' = {1} /\ todo'[1] = Root
      /\ given' = given /\ request' = size
  BY DEF Malloc, given
<1>2. \A a \in given : ~(a.base < Root.base)
  BY GivenBounds DEF Root
<1> QED BY <1>1, <1>2 DEF GrowInv, Growing, Apiece, SearchBeyond, NonDecreasing, Beyond

LEMMA GrowTake ==
  ASSUME CoreInv, GrowInv, Take
  PROVE  GrowInv'
<1> DEFINE t == Head(todo)
           new == [base |-> t.base, size |-> request, len |-> t.len]
<1>1. /\ 1 \in DOMAIN todo /\ todo[1] = t /\ t \in Block
      /\ 0 < request /\ request < t.len
      /\ given' = given \cup {new}
      /\ \A a \in given : a.base \notin Span(t)
  BY TakeEffect
<1>2. todo' = << >>
  BY DEF Take
<1> HIDE DEF t
<1>3. new.base = t.base /\ new.len = t.len
  OBVIOUS
<1>4. ASSUME NEW a \in given
      PROVE  Beyond(new.base, a) /\ Beyond(a.base, new) /\ a.base # new.base
  <2>1. Beyond(new.base, a)
    BY <1>1, <1>3 DEF GrowInv, SearchBeyond
  <2>2. ~(t.base <= a.base /\ a.base < t.base + t.len)
    BY <1>1, GivenBounds DEF Span
  <2>3. t.base < t.base + t.len
    BY <1>1 DEF Block
  <2>4. ~(new.base < a.base /\ a.base < new.base + new.len) /\ a.base # new.base
    BY <1>1, <1>3, <2>2, <2>3, GivenBounds DEF Block
  <2> QED BY <2>1, <2>4 DEF Beyond
<1>5. Beyond(new.base, new)
  BY <1>1, <1>3 DEF Beyond, Block
<1>6. Apiece'
  <2> HIDE DEF new
  <2>1. \A a, b \in given \cup {new} : Beyond(b.base, a) /\ (a.base = b.base => a = b)
    BY <1>4, <1>5 DEF GrowInv, Apiece
  <2> QED BY <1>1, <2>1 DEF Apiece
<1> QED BY <1>2, <1>6 DEF GrowInv, Growing, SearchBeyond

LEMMA GrowSplit ==
  ASSUME CoreInv, GrowInv, Split
  PROVE  GrowInv'
<1> DEFINE t == Head(todo)
<1>1. /\ t \in Block /\ 1 \in DOMAIN todo /\ todo[1] = t
      /\ DOMAIN todo' = 1 .. Len(todo) + 1
      /\ todo'[1] = Left(t) /\ todo'[2] = Right(t)
      /\ \A i \in 3 .. Len(todo) + 1 : todo'[i] = todo[i - 1]
      /\ DOMAIN todo = 1 .. Len(todo) /\ Len(todo) \in Nat \ {0}
  BY SplitStack DEF CoreInv
<1>2. given' = given /\ request' = request /\ todo # << >>
  BY DEF Split, given
<1>3. Halved(t) /\ request < Half(t)
  BY <1>1, HalfBounds DEF Split, Splits, Halved, CoreInv, TypeOK
<1> HIDE DEF t
<1>4. t \in Tree /\ Right(t) \in Tree /\ Right(t) \in Block /\ request \in Nat
  BY <1>1, <1>3, TreeHalves, TreeBlock DEF CoreInv, SearchOK, TypeOK
<1>5. ASSUME NEW a \in given, a.base < Right(t).base, Right(t).base < a.base + a.len
      PROVE  /\ Halved(BlockOf(a))
             /\ Half(BlockOf(a)) = a.size + 1
             /\ a.base + Half(BlockOf(a)) <= Right(t).base
  <2> DEFINE x == BlockOf(a)
             r == Right(t)
             m == Half(x)
  <2>1. /\ x \in Tree /\ x \in Block /\ a.size \in Nat
        /\ x.base = a.base /\ x.len = a.len
    BY GivenBounds
  <2>2. Halved(x) => m <= a.size + 1
    BY DEF CoreInv, GivenOK
  <2>3. a.size <= request
    BY <1>2 DEF GrowInv, Growing
  <2>4. r.len = Half(t) /\ Half(t) \in Nat
    BY <1>1, HalfBounds DEF Right
  <2>5. m \in Nat /\ 2 * m <= x.len
    BY <2>1, HalfBounds
  <2>6. Nested(r, x)
    BY <1>4, <2>1, Laminar
  <2> HIDE DEF x, r, m
  <2>7. r \in Block
    BY <1>4 DEF r
  <2>8. x.base < r.base /\ r.base < x.base + x.len
    BY <1>5, <2>1 DEF r
  <2>9. ~Apart(r, x) /\ ~In(x, r)
    BY <2>1, <2>7, <2>8 DEF Apart, In, Block
  <2>10. Halved(x) /\ (In(r, Left(x)) \/ In(r, Right(x)))
    BY <2>6, <2>9 DEF Nested
  <2>11. m = a.size + 1 /\ r.len = m
    <3>1. r.len <= m
      BY <2>1, <2>5, <2>7, <2>10 DEF In, Left, Right, Block, m
    <3> QED BY <1>3, <1>4, <2>1, <2>2, <2>3, <2>4, <2>5, <2>10, <3>1
  <2>12. x.base + m <= r.base
    BY <2>1, <2>5, <2>7, <2>8, <2>10, <2>11 DEF In, Left, Right, Block, m
  <2> QED BY <2>1, <2>10, <2>11, <2>12 DEF x, r, m
<1>6. ASSUME NEW i \in 1 .. Len(todo) + 1, NEW a \in given
      PROVE  Beyond(todo'[i].base, a)
  <2>1. CASE i = 1
    BY <1>1, <2>1 DEF GrowInv, SearchBeyond, Left
  <2>2. CASE i = 2
    BY <1>1, <1>5, <2>2 DEF Beyond
  <2>3. CASE i \in 3 .. Len(todo) + 1
    BY <1>1, <2>3 DEF GrowInv, SearchBeyond
  <2> QED BY <2>1, <2>2, <2>3, <1>1
<1>7. SearchBeyond'
  BY <1>1, <1>2, <1>6 DEF SearchBeyond
<1> QED BY <1>2, <1>7 DEF GrowInv, Growing, Apiece

LEMMA GrowFail ==
  ASSUME CoreInv, GrowInv, Fail
  PROVE  GrowInv'
<1>1. /\ todo # << >>
      /\ DOMAIN todo' = 1 .. Len(todo) - 1
      /\ \A i \in 1 .. Len(todo) - 1 : todo'[i] = todo[i + 1]
      /\ DOMAIN todo = 1 .. Len(todo) /\ Len(todo) \in Nat \ {0}
  BY FailSetHeader
<1>2. given' = given /\ (todo' # << >> => request' = request)
  BY DEF Fail, given
<1>3. ASSUME NEW i \in 1 .. Len(todo) - 1, NEW a \in given
      PROVE  Beyond(todo'[i].base, a)
  BY <1>1 DEF GrowInv, SearchBeyond
<1> QED BY <1>1, <1>2, <1>3 DEF GrowInv, Growing, Apiece, SearchBeyond

\* Changing an allocation's payload disturbs no header a search relies on.
LEMMA PayloadChange ==
  ASSUME CoreInv, GrowInv, NEW x \in given,
         mem' \in [Words -> Nat],
         \A w \in Words \ Payload(x) : mem'[w] = mem[w],
         given' = given, UNCHANGED <<request, todo, result>>, todo = << >>,
         live' \subseteq Allocation, freed' \subseteq Allocation
  PROVE  CoreInv' /\ GrowInv'
<1>1. TypeOK'
  BY DEF CoreInv, TypeOK
<1>2. DOMAIN todo = {} /\ DOMAIN todo' = {}
  OBVIOUS
<1>3. \A a \in given : a.base \notin Payload(x)
  <2>1. ASSUME NEW a \in given, a.base \in Payload(x)
        PROVE  FALSE
    <3>1. x.base < a.base /\ a.base <= x.base + x.size /\ a.base < x.base + x.len
      BY <2>1, GivenBounds DEF Payload
    <3>2. Beyond(a.base, x)
      BY DEF GrowInv, Apiece
    <3> QED BY <3>1, <3>2, GivenBounds DEF Beyond
  <2> QED BY <2>1
<1>4. HeadersIntact'
  <2>1. \A a \in given : a.base \in Words
    BY GivenBounds, TreeBounds
  <2> QED BY <1>3, <2>1 DEF CoreInv, HeadersIntact
<1>5. ZeroHeader'
  <2>1. ASSUME NEW u \in Tree, mem'[u.base] = 0, NEW a \in given, a.base \in Span(u)
        PROVE  FALSE
    <3> DEFINE b == BlockOf(x)
               c == BlockOf(a)
    <3>1. /\ b \in Tree /\ b \in Block /\ b.base = x.base /\ b.len = x.len
          /\ c \in Tree /\ c \in Block /\ c.base = a.base /\ c.len = a.len
          /\ x.size \in Nat /\ 0 < x.size /\ x.size < x.len
      BY GivenBounds
    <3>2. u \in Block /\ u.base \in Words /\ Nested(u, b)
      BY <3>1, TreeBounds, Laminar
    <3>3. mem[u.base] # 0
      BY <2>1 DEF CoreInv, ZeroHeader
    <3>4. u.base \in Payload(x)
      BY <2>1, <3>2, <3>3
    <3>5. Half(b) \in Nat /\ 2 * Half(b) <= b.len
      BY <3>1, HalfBounds
    <3>6. u.base <= a.base /\ a.base < u.base + u.len
      BY <2>1 DEF Span
    <3> HIDE DEF b, c
    <3>7. b.base < u.base /\ u.base <= b.base + x.size /\ u.base < b.base + b.len
      BY <3>1, <3>2, <3>4 DEF Payload, Block
    <3>8. Halved(b) /\ (In(u, Left(b)) \/ In(u, Right(b)))
      BY <3>1, <3>2, <3>7 DEF Nested, Apart, In, Block
    <3>9. u.base + u.len <= b.base + b.len
      BY <3>1, <3>2, <3>5, <3>8 DEF In, Left, Right, Block
    <3>10. Half(b) = x.size + 1 /\ b.base + Half(b) <= a.base
      <4>1. x.base < a.base /\ a.base < x.base + x.len
        BY <3>1, <3>2, <3>6, <3>7, <3>9 DEF Block
      <4>2. Beyond(a.base, x)
        BY DEF GrowInv, Apiece
      <4> QED BY <3>1, <4>1, <4>2 DEF Beyond, b
    <3>11. u.base + u.len <= b.base + Half(b) \/ b.base + Half(b) <= u.base
      BY <3>1, <3>2, <3>5, <3>8 DEF In, Left, Right, Block
    <3> QED BY <3>1, <3>2, <3>5, <3>6, <3>7, <3>10, <3>11 DEF Block
  <2> QED BY <2>1 DEF ZeroHeader
<1>6. GivenOK' /\ SearchOK' /\ Passed'
  BY <1>2 DEF CoreInv, GivenOK, SearchOK, Passed
<1>7. GrowInv'
  BY <1>2 DEF GrowInv, Growing, Apiece, SearchBeyond
<1> QED BY <1>1, <1>4, <1>5, <1>6, <1>7 DEF CoreInv

\* k_free touches nothing but the payload: n bytes are no more than n words.
LEMMA BytesInWords ==
  ASSUME NEW n \in Nat, 0 < n
  PROVE  /\ n \div WordBytes \in Nat
         /\ n \div WordBytes <= n
         /\ n % WordBytes # 0 => n \div WordBytes < n
<1> DEFINE q == n \div WordBytes
<1>1. WordBytes \in Nat /\ 0 < WordBytes
  BY PmmAssumption
<1>2. q \in Nat /\ n = WordBytes * q + (n % WordBytes) /\ n % WordBytes \in 0 .. WordBytes - 1
  BY <1>1
<1>3. q <= WordBytes * q
  BY <1>1, <1>2
<1> HIDE DEF q
<1>4. q <= n /\ (n % WordBytes # 0 => q < n)
  BY <1>1, <1>2, <1>3
<1> QED BY <1>2, <1>4 DEF q

LEMMA GrowFree ==
  ASSUME CoreInv, GrowInv, NEW a \in live, Free(a)
  PROVE  CoreInv' /\ GrowInv'
<1>1. a \in given /\ given' = given
  BY DEF Free, given
<1>2. mem[a.base] = a.size /\ a.size \in Nat /\ 0 < a.size /\ a.base \in Nat
  BY <1>1, GivenBounds DEF CoreInv, HeadersIntact
<1>3. /\ a.size \div WordBytes \in Nat
      /\ a.size \div WordBytes <= a.size
      /\ a.size % WordBytes # 0 => a.size \div WordBytes < a.size
  BY <1>2, BytesInWords
<1> DEFINE whole == a.base + 1 .. a.base + a.size \div WordBytes
           partly == IF a.size % WordBytes = 0 THEN {}
                     ELSE {a.base + 1 + a.size \div WordBytes}
<1>4. PICK cleared \in SUBSET partly :
         mem' = [w \in Words |-> IF w \in whole \cup cleared THEN 0 ELSE mem[w]]
  BY <1>2 DEF Free
<1>q. PICK q \in Nat : q = a.size \div WordBytes
  BY <1>3
<1>5. whole \subseteq Payload(a) /\ partly \subseteq Payload(a)
  BY <1>2, <1>3, <1>q DEF Payload
<1> HIDE DEF whole, partly
<1>6. /\ mem' \in [Words -> Nat]
      /\ \A w \in Words \ Payload(a) : mem'[w] = mem[w]
  BY <1>4, <1>5 DEF CoreInv, TypeOK
<1>7. /\ UNCHANGED <<request, todo, result>> /\ todo = << >>
      /\ live' \subseteq Allocation /\ freed' \subseteq Allocation
  BY DEF Free, CoreInv, TypeOK
<1> QED BY <1>1, <1>6, <1>7, PayloadChange

LEMMA GrowWrite ==
  ASSUME CoreInv, GrowInv, NEW a \in live, NEW w \in Payload(a), NEW v \in Data,
         HolderWrite(a, w, v)
  PROVE  CoreInv' /\ GrowInv'
<1>1. a \in given /\ given' = given
  BY DEF HolderWrite, given
<1>2. v \in Nat
  BY PmmAssumption
<1>3. mem' \in [Words -> Nat] /\ \A n \in Words \ Payload(a) : mem'[n] = mem[n]
  BY <1>2 DEF HolderWrite, CoreInv, TypeOK
<1>4. /\ UNCHANGED <<request, todo, result>> /\ todo = << >>
      /\ live' \subseteq Allocation /\ freed' \subseteq Allocation
  BY DEF HolderWrite, CoreInv, TypeOK
<1> QED BY <1>1, <1>3, <1>4, PayloadChange

LEMMA GrowStutter ==
  ASSUME GrowInv, UNCHANGED vars
  PROVE  GrowInv'
BY DEF GrowInv, vars, Growing, Apiece, SearchBeyond, given

LEMMA GrowingInductive ==
  /\ RequestsFit /\ Init => CoreInv /\ GrowInv
  /\ RequestsFit /\ CoreInv /\ GrowInv /\ [MonotoneNext]_vars => CoreInv' /\ GrowInv'
<1>1. Init => GrowInv
  BY DEF Init, GrowInv, Growing, Apiece, SearchBeyond, given
<1>2. ASSUME RequestsFit, CoreInv, GrowInv, [MonotoneNext]_vars
      PROVE  CoreInv' /\ GrowInv'
  <2>1. CASE Search
    BY <1>2, <2>1, CoreTake, CoreSplit, CoreFail, GrowTake, GrowSplit, GrowFail DEF Search
  <2>2. CASE \E size \in Sizes : NonDecreasing(size) /\ Malloc(size)
    BY <1>2, <2>2, CoreMalloc, GrowMalloc
  <2>3. CASE Use
    BY <1>2, <2>3, GrowFree, GrowWrite DEF Use
  <2>4. CASE UNCHANGED vars
    BY <1>2, <2>4, CoreStutter, GrowStutter
  <2> QED BY <1>2, <2>1, <2>2, <2>3, <2>4 DEF MonotoneNext
<1> QED BY <1>1, <1>2, CoreInit

\* For callers whose requests never shrink, whatever they free and write, no
\* word is ever part of two allocations and every header keeps its size
\* (b_malloc and k_free, pmm.c:76 and 116).
THEOREM GrowingRequests ==
  RequestsFit => (MonotoneSpec => [](GivenDisjoint /\ HeadersIntact))
<1> SUFFICES ASSUME RequestsFit
             PROVE  MonotoneSpec => [](GivenDisjoint /\ HeadersIntact)
  OBVIOUS
<1>1. Init => CoreInv /\ GrowInv
  BY GrowingInductive
<1>2. (CoreInv /\ GrowInv) /\ [MonotoneNext]_vars => (CoreInv /\ GrowInv)'
  BY GrowingInductive
<1>3. CoreInv /\ GrowInv => GivenDisjoint /\ HeadersIntact
  BY GrowImpliesDisjoint DEF CoreInv
<1> QED BY <1>1, <1>2, <1>3, PTL DEF MonotoneSpec

\* For such callers the headers stay numbers, and neither a block the search has still
\* to look at nor one that an allocation was made in is empty (b_malloc, pmm.c:56).
THEOREM BlocksInRegion == RequestsFit => (MonotoneSpec => []TypeOK)
<1> SUFFICES ASSUME RequestsFit
             PROVE  MonotoneSpec => []TypeOK
  OBVIOUS
<1>1. Init => CoreInv /\ GrowInv
  BY GrowingInductive
<1>2. (CoreInv /\ GrowInv) /\ [MonotoneNext]_vars => (CoreInv /\ GrowInv)'
  BY GrowingInductive
<1>3. CoreInv => TypeOK
  BY CoreImplies
<1> QED BY <1>1, <1>2, <1>3, PTL DEF MonotoneSpec

------------------------------------------------------------------------------
\* Such callers get what Allocator promises: every step of the search, of
\* k_free and of a holder allocates, gives back or changes nothing.
THEOREM Refinement == RequestsFit => (MonotoneSpec => KeepsPromise)
<1> DEFINE heldNow == {Extent(a) : a \in live}
<1> SUFFICES ASSUME RequestsFit
             PROVE  MonotoneSpec => KeepsPromise
  OBVIOUS
<1>0. CoreInv' /\ GrowInv' => GivenDisjoint'
  BY GrowImpliesDisjoint, PTL
<1>1. Init => Promise!Init
  BY DEF Init, Promise!Init
<1>2. ASSUME CoreInv, GrowInv, CoreInv', GrowInv', [MonotoneNext]_vars
      PROVE  [Promise!Next]_(heldNow)
  <2>1. CASE Take
    <3> DEFINE t == Head(todo)
               new == [base |-> t.base, size |-> request, len |-> t.len]
    <3>1. live' = live \cup {new} /\ new \in given' /\ heldNow' = heldNow \cup {Extent(new)}
      BY <2>1 DEF Take, given, Extent
    <3>2. t \in Tree /\ t \in Block /\ request \in Nat /\ 0 < request /\ request < t.len
          /\ \A a \in given : a.base \notin Span(t)
      BY <1>2, <2>1, TakeEffect
    <3> DEFINE first == t.base
               last == t.base + request
    <3>3. first \in Words /\ last \in Words /\ first < last /\ Extent(new) = first .. last
      BY <3>2, TreeBounds, PmmAssumption DEF Words, Block, Extent
    <3>4. GivenDisjoint'
      BY <1>0, <1>2
    <3>5. ASSUME NEW a \in live
          PROVE  Extent(a) \cap Extent(new) = {}
      <4>1. a \in given /\ a \in given' /\ a.base \notin Span(t)
        BY <3>1, <3>2 DEF given
      <4>2. a # new
        BY <3>2, <4>1 DEF Span, Block
      <4> QED BY <3>1, <3>4, <4>1, <4>2 DEF GivenDisjoint, Disjoint, Extent
    <3> HIDE DEF first, last, new, t
    <3>6. Promise!Allocate
      BY <3>1, <3>3, <3>5 DEF Promise!Allocate
    <3> QED BY <3>6 DEF Promise!Next
  <2>2. CASE \E a \in live : Free(a)
    <3>1. PICK a \in live : Free(a)
      BY <2>2
    <3>2. live' = live \ {a}
      BY <3>1 DEF Free
    <3>3. \A b \in live \ {a} : Extent(b) # Extent(a)
      <4>1. GivenDisjoint /\ live \subseteq given
        BY <1>2, GrowImpliesDisjoint DEF given
      <4>2. a.base \in Extent(a)
        BY <1>2, <4>1, GivenBounds DEF Extent
      <4> QED BY <4>1, <4>2 DEF GivenDisjoint, Disjoint
    <3>4. heldNow' = heldNow \ {Extent(a)}
      BY <3>2, <3>3 DEF Extent
    <3>5. Promise!GiveBack
      BY <3>4 DEF Promise!GiveBack
    <3> QED BY <3>5 DEF Promise!Next
  <2>3. CASE live' = live
    BY <2>3 DEF Extent
  <2> QED BY <1>2, <2>1, <2>2, <2>3
      DEF MonotoneNext, Search, Use, Malloc, Split, Fail, HolderWrite, vars
<1>3. RequestsFit /\ Init => CoreInv /\ GrowInv
  BY GrowingInductive
<1>4. (CoreInv /\ GrowInv) /\ [MonotoneNext]_vars => (CoreInv /\ GrowInv)'
  BY GrowingInductive
<1>5. (CoreInv /\ GrowInv) /\ (CoreInv /\ GrowInv)' /\ [MonotoneNext]_vars
        => [Promise!Next]_(heldNow)
  BY <1>2
<1> HIDE DEF heldNow
<1> QED BY <1>1, <1>3, <1>4, <1>5, PTL DEF MonotoneSpec, KeepsPromise, Promise!Spec, heldNow
==============================================================================
