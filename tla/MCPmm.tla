-------------------------------- MODULE MCPmm --------------------------------
(***************************************************************************)
(* Model-checking instances of Pmm.  The lengths are scaled down: blocks   *)
(* of 2 words are the leaves, and a word is 2 bytes.                       *)
(***************************************************************************)
EXTENDS Pmm

MCClean == {}
MCDirty == {0, 5, 7}
MCData == {3}
==============================================================================
