------------------------------ MODULE Allocator ------------------------------
(***************************************************************************)
(* What the callers of k_malloc and k_free rely on: memory handed out is   *)
(* nobody else's until it is given back.                                   *)
(***************************************************************************)
EXTENDS Naturals

CONSTANT Space   \* the words an allocation can contain

VARIABLE held    \* the pieces of Space the callers hold

Init == held = {}

\* A piece made of a header and a payload that touches no piece held.
Allocate ==
  \E first, last \in Space :
    /\ first < last
    /\ \A piece \in held : piece \cap (first .. last) = {}
    /\ held' = held \cup {first .. last}

GiveBack == \E piece \in held : held' = held \ {piece}

Next == Allocate \/ GiveBack

Spec == Init /\ [][Next]_held
==============================================================================
