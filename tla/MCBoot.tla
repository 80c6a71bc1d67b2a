-------------------------------- MODULE MCBoot -------------------------------
(***************************************************************************)
(* Model-checking instances of Boot.                                       *)
(***************************************************************************)
EXTENDS Boot

\* 10 Hz, with which PIT_sleep does not wait, and 1000 Hz, with which it does.
MCFrequencies == {10, 1000}
KernelFrequency == {10}

\* Keys pressed once the keyboard is set up, and while it is.
KeysWhenReady == {"idle"}
KeysAround == {"unmaskKeyboard", "registerKeyboard", "idle"}
==============================================================================
