--------------------------------- MODULE Pmm ---------------------------------
(***************************************************************************)
(* The physical memory allocator of kernel/memory/pmm.c: k_malloc, its     *)
(* recursive search b_malloc, and k_free.                                  *)
(*                                                                         *)
(* Memory is an array of 64-bit words, addressed from the base of the      *)
(* memory-map entry that setMemoryMap selected.  A block is a piece of the *)
(* binary tree b_malloc makes by halving; the word at a block's base holds *)
(* the size of the allocation that starts there, 0 if none does.           *)
(*                                                                         *)
(* b_malloc's recursion is a depth-first search, one step per call: todo   *)
(* is the stack of the blocks still to be searched, the next one first.    *)
(* A left half is searched before its right sibling, which is reached only *)
(* if the left half returned NULL.                                         *)
(*                                                                         *)
(* Nothing else runs during a search (no interrupt handler allocates and   *)
(* tasks switch only by yield), so a call starts only when todo is empty.  *)
(***************************************************************************)
EXTENDS Integers, Sequences

CONSTANTS
  Length,      \* memmap->length: bytes in the region, used as a count of words
  BLOCK_SIZE,  \* blocks no longer than this are not halved (4096 in pmm.h)
  WordBytes,   \* bytes in a word (8)
  Sizes,       \* the sizes callers pass to k_malloc
  MaxSize,     \* bound on Sizes, for the words memory must have
  Data,        \* the values holders write in their memory
  DirtyWords   \* words that may be non-zero when the kernel starts

ASSUME PmmAssumption ==
  /\ Length \in Nat \ {0}
  /\ BLOCK_SIZE \in Nat \ {0}
  /\ WordBytes \in Nat \ {0}
  /\ MaxSize \in Nat
  /\ Sizes \subseteq 0 .. MaxSize
  /\ Data \subseteq Nat
  /\ DirtyWords \subseteq Nat

VARIABLES
  mem,      \* mem[w]: the word w words above the region's base
  live,     \* allocations handed out and not freed (history)
  freed,    \* allocations handed out and freed (history)
  request,  \* the size b_malloc is searching room for, 0 between calls
  todo,     \* the blocks b_malloc has still to search
  result    \* what the last k_malloc returned

vars == <<mem, live, freed, request, todo, result>>

\* An allocation can be as long as the largest request wherever it starts.
Words == 0 .. Length + MaxSize

NULL == 0      \* no allocation starts at word 0: its header does
NoCall == -1   \* k_malloc has not returned yet

Block == [base : Nat, len : Nat \ {0}]
Root == [base |-> 0, len |-> Length]
Half(t) == t.len \div 2
Left(t) == [base |-> t.base, len |-> Half(t)]
Right(t) == [base |-> t.base + Half(t), len |-> Half(t)]

\* What k_malloc handed out: header at base, payload in the size words after
\* it, cut from the block of len words that starts at base.
Allocation == [base : Nat, size : Nat, len : Nat \ {0}]
BlockOf(a) == [base |-> a.base, len |-> a.len]
Payload(a) == a.base + 1 .. a.base + a.size
Extent(a) == a.base .. a.base + a.size
given == live \cup freed

Init ==
  /\ \E dirty \in SUBSET (DirtyWords \cap Words) :
       mem = [w \in Words |-> IF w \in dirty THEN 1 ELSE 0]
  /\ live = {}
  /\ freed = {}
  /\ request = 0
  /\ todo = << >>
  /\ result = NoCall

------------------------------------------------------------------------------
\* k_malloc(size) calls b_malloc on the whole region.
Malloc(size) ==
  /\ todo = << >>
  /\ request' = size
  /\ todo' = <<Root>>
  /\ UNCHANGED <<mem, live, freed, result>>

\* Variant with a bug: the header is not looked at.
TakesUsed(t) ==
  IF t.len <= BLOCK_SIZE THEN request + 1 <= t.len ELSE Half(t) <= request + 1

\* b_malloc allocates block t when its header is 0 and, for a block that is
\* not halved, when the request fits; a longer block is taken when its half
\* would be too short.
Takes(t) ==
  /\ mem[t.base] = 0
  /\ IF t.len <= BLOCK_SIZE THEN request + 1 <= t.len
                            ELSE Half(t) <= request + 1

\* Variant with a bug: the halves are searched although the request, with its
\* header, is longer.
SplitsTooFar(t) ==
  /\ ~Takes(t)
  /\ t.len > BLOCK_SIZE
  /\ Half(t) >= request

\* Otherwise it searches the halves of a block they are long enough in.
Splits(t) ==
  /\ ~Takes(t)
  /\ t.len > BLOCK_SIZE
  /\ Half(t) > request

\* Variant with a bug: the header's own length is taken off the size.
TakeLessHeader ==
  /\ todo # << >>
  /\ LET t == Head(todo) IN
       /\ Takes(t)
       /\ mem' = [w \in Words |->
                    IF w = t.base THEN request - WordBytes
                    ELSE IF w \in t.base + 1 .. t.base + request THEN 0
                    ELSE mem[w]]
       /\ live' = live \cup {[base |-> t.base, size |-> request, len |-> t.len]}
       /\ result' = t.base + 1
  /\ request' = 0
  /\ todo' = << >>
  /\ UNCHANGED freed

\* Variant with a bug: the header is not written.
TakeUnmarked ==
  /\ todo # << >>
  /\ LET t == Head(todo) IN
       /\ Takes(t)
       /\ mem' = [w \in Words |-> IF w \in t.base + 1 .. t.base + request THEN 0 ELSE mem[w]]
       /\ live' = live \cup {[base |-> t.base, size |-> request, len |-> t.len]}
       /\ result' = t.base + 1
  /\ request' = 0
  /\ todo' = << >>
  /\ UNCHANGED freed

\* The header gets the size and the payload is zeroed; the calls waiting on
\* this one pass the address on.
Take ==
  /\ todo # << >>
  /\ LET t == Head(todo) IN
       /\ Takes(t)
       /\ mem' = [w \in Words |->
                    IF w = t.base THEN request
                    ELSE IF w \in t.base + 1 .. t.base + request THEN 0
                    ELSE mem[w]]
       /\ live' = live \cup {[base |-> t.base, size |-> request, len |-> t.len]}
       /\ result' = t.base + 1
  /\ request' = 0
  /\ todo' = << >>
  /\ UNCHANGED freed

\* Variant with a bug: the right half is searched first.
SplitRightFirst ==
  /\ todo # << >>
  /\ Splits(Head(todo))
  /\ todo' = <<Right(Head(todo)), Left(Head(todo))>> \o Tail(todo)
  /\ UNCHANGED <<mem, live, freed, request, result>>

Split ==
  /\ todo # << >>
  /\ Splits(Head(todo))
  /\ todo' = <<Left(Head(todo)), Right(Head(todo))>> \o Tail(todo)
  /\ UNCHANGED <<mem, live, freed, request, result>>

\* The call on this block returns NULL; with nothing left to search, so does
\* k_malloc.
Fail ==
  /\ todo # << >>
  /\ ~Takes(Head(todo))
  /\ ~Splits(Head(todo))
  /\ todo' = Tail(todo)
  /\ IF Tail(todo) = << >>
     THEN result' = NULL /\ request' = 0
     ELSE UNCHANGED <<result, request>>
  /\ UNCHANGED <<mem, live, freed>>

\* k_free zeroes as many BYTES of the payload as the header has words and
\* leaves the header.  A word only partly covered may keep a non-zero byte.
Free(a) ==
  /\ todo = << >>
  /\ LET n == mem[a.base]
         whole == a.base + 1 .. a.base + n \div WordBytes
         partly == IF n % WordBytes = 0 THEN {} ELSE {a.base + 1 + n \div WordBytes}
     IN \E cleared \in SUBSET partly :
          mem' = [w \in Words |-> IF w \in whole \cup cleared THEN 0 ELSE mem[w]]
  /\ live' = live \ {a}
  /\ freed' = freed \cup {a}
  /\ UNCHANGED <<request, todo, result>>

\* The holder of an allocation stores a value in its memory.
HolderWrite(a, w, v) ==
  /\ todo = << >>
  /\ mem' = [mem EXCEPT ![w] = v]
  /\ UNCHANGED <<live, freed, request, todo, result>>

------------------------------------------------------------------------------
Search == Take \/ Split \/ Fail

Use == \E a \in live : Free(a) \/ \E w \in Payload(a), v \in Data : HolderWrite(a, w, v)

\* Callers that only allocate: the calls the kernel makes while it boots.
MallocNext == Search \/ \E size \in Sizes : Malloc(size)
MallocSpec == Init /\ [][MallocNext]_vars

\* Callers that also free and write, in any order.
Next == MallocNext \/ Use
Spec == Init /\ [][Next]_vars

\* Callers that never ask for less than was handed out before.
NonDecreasing(size) == \A a \in given : a.size <= size
MonotoneNext ==
  \/ Search
  \/ \E size \in Sizes : NonDecreasing(size) /\ Malloc(size)
  \/ Use
MonotoneSpec == Init /\ [][MonotoneNext]_vars

------------------------------------------------------------------------------
TypeOK ==
  /\ mem \in [Words -> Nat]
  /\ live \subseteq Allocation
  /\ freed \subseteq Allocation
  /\ request \in Nat
  /\ todo \in Seq(Block)
  /\ result \in Nat \cup {NoCall}

\* Two allocations share no word.
Disjoint(as) == \A a, b \in as : a # b => Extent(a) \cap Extent(b) = {}

\* No two allocations the callers hold overlap (pmm.c:90, "if the current
\* length is enough and unallocated").
LiveDisjoint == Disjoint(live)

\* Memory is handed out at most once, even after k_free: the extents of all
\* the allocations ever made are pairwise disjoint.
GivenDisjoint == Disjoint(given)

\* The size k_free will read is the size k_malloc stored: no later allocation,
\* write or free destroys the header of an allocation.
HeadersIntact == \A a \in given : mem[a.base] = a.size

\* An allocation fits the block it was cut from and that block is in the tree
\* under the root, although b_malloc compares the request with HALF the block.
FitsBlock ==
  \A a \in given : a.size < a.len /\ a.base + a.len <= Length

\* Where a block's header is 0, no allocation starts anywhere in the block, so
\* taking it whole is safe.
ZeroHeaderFree ==
  \A i \in 1 .. Len(todo) :
    mem[todo[i].base] = 0 =>
      \A a \in given : a.base \notin todo[i].base .. todo[i].base + todo[i].len - 1

\* The allocator the callers see, with the extents of the allocations held.
Promise == INSTANCE Allocator WITH Space <- Words, held <- {Extent(a) : a \in live}

\* k_malloc and k_free keep the promise of Allocator to callers whose requests
\* never shrink (pmm.c:76): what is handed out touches nothing that is held.
KeepsPromise == Promise!Spec
==============================================================================
