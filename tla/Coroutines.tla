------------------------------ MODULE Coroutines -----------------------------
(***************************************************************************)
(* What the callers of yield rely on: a task that yields finds what it     *)
(* kept when it runs again, and nothing runs in between but the others.    *)
(***************************************************************************)
EXTENDS Sequences

CONSTANTS
  Tasks,
  Contexts   \* what a task can keep: where it goes on, its stack, its registers

VARIABLES
  running,   \* the task whose turn it is
  context,   \* what it has: << >> while it is on its way, then one context
  kept       \* what each task kept when it last yielded, or starts with

coroutineVars == <<running, context, kept>>

Init ==
  /\ running \in Tasks
  /\ context \in Seq(Contexts) /\ Len(context) = 1
  /\ kept \in [Tasks -> Contexts]

\* The running task, which has computed, keeps what it has now; another is next.
Yield ==
  /\ context # << >> /\ context' = << >>
  /\ kept'[running] \in Contexts
  /\ kept' = [kept EXCEPT ![running] = kept'[running]]
  /\ running' \in Tasks \ {running}

\* It goes on with what it kept.
Resume ==
  /\ context = << >> /\ context' = <<kept[running]>>
  /\ UNCHANGED <<running, kept>>

Next == Yield \/ Resume

Spec == Init /\ [][Next]_coroutineVars
==============================================================================
