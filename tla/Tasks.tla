-------------------------------- MODULE Tasks --------------------------------
(***************************************************************************)
(* The two tasks of kernel/process/task.c and the assembly that switches   *)
(* between them (kernel/process/switch.asm), in steps between which an     *)
(* interrupt can use the stack of whichever task rsp points into.          *)
(*                                                                         *)
(* A stack is addressed by depth: the word pushed n-th since the task's    *)
(* stack was empty has depth n.  A word is where it came from: a task's    *)
(* register at its n-th call of yield, an address, or junk.                *)
(***************************************************************************)
EXTENDS Integers

CONSTANTS
  Calls,   \* how many times the main task may call doIt (once in kernel.c)
  Depth    \* how many words of each stack are modelled

ASSUME TasksAssumption == Calls \in Nat \ {0} /\ Depth \in Nat /\ Depth > 4

VARIABLES
  runningTask, \* the task runningTask points to
  regs,        \* regs[t]: the Registers in the Task of t
  cpu,         \* the CPU's registers
  rsp,         \* which stack, and how deep
  stack,       \* stack[t][d]: the word at depth d of t's stack
  step,        \* what the CPU executes next
  yields,      \* yields[t]: how often t has called yield (history)
  held         \* held[t]: registers and rsp t had when it called yield (history)

vars == <<runningTask, regs, cpu, rsp, stack, step, yields, held>>

TaskSet == {"main", "other"}
\* Variant with a bug: the other task is linked to itself.
nextIsOther(t) == "other"

next(t) == IF t = "main" THEN "other" ELSE "main"

CalleeSaved == {"rbx", "rbp", "r12", "r13", "r14", "r15"}
CallerSaved == {"rax", "rcx", "rdx", "rsi", "rdi", "r8", "r9", "r10", "r11"}
General == CalleeSaved \cup CallerSaved

Word(kind, task, name, n) == [kind |-> kind, task |-> task, name |-> name, n |-> n]
Junk == Word("junk", "none", "none", 0)
Zero == Word("zero", "none", "none", 0)
RegsOf(t) == Word("regs", t, "none", 0)
ReturnTo(t, n) == Word("code", t, "yield", n)     \* after t's n-th call
EntryOf(t) == Word("code", t, "entry", 0)
AnyFlags == Word("flags", "main", "rflags", 0)
Words == {Junk, Zero, AnyFlags, EntryOf("other")}
         \cup {RegsOf(t) : t \in TaskSet}
         \cup {ReturnTo(t, n) : t \in TaskSet, n \in 1 .. Calls}
         \cup {Word("reg", t, r, n) : t \in TaskSet, r \in General \cup {"rflags"}, n \in 1 .. Calls}

Pointer == [stack : TaskSet, depth : 0 .. Depth]
Steps == {"task", "save", "saveFlags", "saveRip", "load", "loadFlags", "loadRsp",
          "loadRip", "ret", "idle", "off"}

\* What initTasking leaves: createTask clears the other task's registers, copies
\* the flags, and points rip at otherMain and rsp at its new stack.  The main
\* task has called nothing yet.
Init ==
  /\ runningTask = "main"
  /\ regs = [t \in TaskSet |->
               [r \in General \cup {"rflags", "rip", "rsp"} |->
                  CASE r = "rflags" -> AnyFlags
                    [] r = "rip" -> IF t = "other" THEN EntryOf("other") ELSE Zero
                    [] r = "rsp" -> [stack |-> t, depth |-> 0]
                    [] OTHER -> Zero]]
  /\ cpu = [r \in General \cup {"rflags", "rip"} |-> Zero]
  /\ rsp = [stack |-> "main", depth |-> 1]
  /\ stack = [t \in TaskSet |-> [d \in 1 .. Depth |-> Zero]]
  /\ step = "task"
  /\ yields = [t \in TaskSet |-> 0]
  /\ held = [t \in TaskSet |-> [cpu |-> cpu, rsp |-> rsp]]

------------------------------------------------------------------------------
Push(word) ==
  /\ rsp' = [rsp EXCEPT !.depth = @ + 1]
  /\ stack' = [stack EXCEPT ![rsp.stack][rsp.depth + 1] = word]

Top == stack[rsp.stack][rsp.depth]

At(name, successor) == step = name /\ step' = successor

\* A task computes, its registers take new values, and it calls yield, which
\* points rdi and rsi at the two Registers and calls switchTask.
yield(t) ==
  /\ At("task", "save")
  /\ t = runningTask
  /\ runningTask' = next(t)
  /\ LET n == yields[t] + 1 IN
       /\ cpu' = [r \in DOMAIN cpu |->
                    CASE r = "rdi" -> RegsOf(t)
                      [] r = "rsi" -> RegsOf(next(t))
                      [] r = "rip" -> Zero
                      [] OTHER -> Word("reg", t, r, n)]
       /\ yields' = [yields EXCEPT ![t] = n]
       /\ Push(ReturnTo(t, n))
       /\ held' = [held EXCEPT ![t] = [cpu |-> cpu', rsp |-> rsp]]
  /\ UNCHANGED regs

\* doIt, called at least once and at most Calls times by the main task.
doIt == runningTask = "main" /\ yields["main"] < Calls /\ yield("main")

\* otherMain calls yield once, after pushing its frame.
otherMain == runningTask = "other" /\ yields["other"] = 0 /\ yield("other")

\* A task that has nothing left to do: main halts, otherMain returns to whatever
\* lies above its stack.
Done ==
  /\ step = "task"
  /\ \/ runningTask = "main" /\ yields["main"] > 0 /\ step' = "idle"
     \/ runningTask = "other" /\ yields["other"] > 0 /\ step' = "off"
  /\ UNCHANGED <<runningTask, regs, cpu, rsp, stack, yields, held>>

From == cpu["rdi"].task
To == cpu["rsi"].task

\* Variant with a bug: the rsp saved is the one after the call.
saveRspInCall ==
  /\ At("save", "saveFlags")
  /\ regs' = [regs EXCEPT ![From] =
                [r \in DOMAIN @ |->
                   IF r \in General THEN cpu[r] ELSE IF r = "rsp" THEN rsp ELSE @[r]]]
  /\ cpu' = [cpu EXCEPT !["rax"] = Junk]
  /\ UNCHANGED <<runningTask, rsp, stack, yields, held>>

\* switch.asm:4-22.  The rsp saved is the one before the call.  The addition that
\* computes it (switch.asm:6) replaces the flags of the task's last arithmetic, which no
\* caller expects to survive: rflags stands for the others, such as direction and the
\* interrupt flag.
save ==
  /\ At("save", "saveFlags")
  /\ regs' = [regs EXCEPT ![From] =
                [r \in DOMAIN @ |->
                   IF r \in General THEN cpu[r]
                   ELSE IF r = "rsp" THEN [rsp EXCEPT !.depth = @ - 1]
                   ELSE @[r]]]
  /\ cpu' = [cpu EXCEPT !["rax"] = Junk]
  /\ UNCHANGED <<runningTask, rsp, stack, yields, held>>

\* pushfq, pop rax, store (switch.asm:24-26).
saveFlags ==
  /\ At("saveFlags", "saveRip")
  /\ regs' = [regs EXCEPT ![From]["rflags"] = cpu["rflags"]]
  /\ cpu' = [cpu EXCEPT !["rax"] = cpu["rflags"]]
  /\ stack' = [stack EXCEPT ![rsp.stack][rsp.depth + 1] = cpu["rflags"]]
  /\ UNCHANGED <<runningTask, rsp, yields, held>>

\* The return address is read from the stack and pushed again (28-30).
saveRip ==
  /\ At("saveRip", "load")
  /\ regs' = [regs EXCEPT ![From]["rip"] = Top]
  /\ cpu' = [cpu EXCEPT !["rax"] = Top]
  /\ Push(Top)
  /\ UNCHANGED <<runningTask, yields, held>>

\* Variant with a bug: rbx is not loaded.
loadNoRbx ==
  /\ At("load", "loadFlags")
  /\ cpu' = [r \in DOMAIN cpu |->
               IF r \in General \ {"rbx", "rcx", "rsi", "rbp"} THEN regs[To][r] ELSE cpu[r]]
  /\ UNCHANGED <<runningTask, regs, rsp, stack, yields, held>>

\* switch.asm:32-43; rcx, rsi, rbp and rsp are not loaded here.
load ==
  /\ At("load", "loadFlags")
  /\ cpu' = [r \in DOMAIN cpu |->
               IF r \in General \ {"rcx", "rsi", "rbp"} THEN regs[To][r] ELSE cpu[r]]
  /\ UNCHANGED <<runningTask, regs, rsp, stack, yields, held>>

\* push rax, popfq (45-48).
loadFlags ==
  /\ At("loadFlags", "loadRsp")
  /\ cpu' = [cpu EXCEPT !["rax"] = regs[To]["rflags"], !["rflags"] = regs[To]["rflags"]]
  /\ stack' = [stack EXCEPT ![rsp.stack][rsp.depth + 1] = regs[To]["rflags"]]
  /\ UNCHANGED <<runningTask, regs, rsp, yields, held>>

\* From here the CPU is on the next task's stack, above the address its call
\* pushed (50-51).
loadRsp ==
  /\ At("loadRsp", "loadRip")
  /\ cpu' = [cpu EXCEPT !["rbp"] = regs[To]["rbp"]]
  /\ rsp' = regs[To]["rsp"]
  /\ UNCHANGED <<runningTask, regs, stack, yields, held>>

\* Variant with a bug: rsp is pushed for rip.
loadRipFromRsp ==
  /\ At("loadRip", "ret")
  /\ Push(regs[To]["rsp"])
  /\ UNCHANGED <<runningTask, regs, cpu, yields, held>>

loadRip ==
  /\ At("loadRip", "ret")
  /\ Push(regs[To]["rip"])
  /\ UNCHANGED <<runningTask, regs, cpu, yields, held>>

\* rax gets the saved rcx, rsi its own, and ret pops rip (55-59).
ret ==
  /\ At("ret", "task")
  /\ cpu' = [cpu EXCEPT !["rax"] = regs[To]["rcx"], !["rsi"] = regs[To]["rsi"], !["rip"] = Top]
  /\ rsp' = [rsp EXCEPT !.depth = @ - 1]
  /\ UNCHANGED <<runningTask, regs, stack, yields, held>>

switchTask ==
  save \/ saveFlags \/ saveRip \/ load \/ loadFlags \/ loadRsp \/ loadRip \/ ret

\* An interrupt: the frame, the registers the stub saves and the handler's calls
\* overwrite the stack below rsp (perhaps not the next word: the CPU aligns the
\* frame).  The stub restores the registers it saved, C code the others.
Interrupt ==
  /\ step # "off"
  /\ \E skip \in {0, 1} :
       stack' = [stack EXCEPT ![rsp.stack] =
                   [d \in DOMAIN @ |-> IF d > rsp.depth + skip THEN Junk ELSE @[d]]]
  /\ UNCHANGED <<runningTask, regs, cpu, rsp, step, yields, held>>

Next == doIt \/ otherMain \/ Done \/ switchTask \/ Interrupt

Spec == Init /\ [][Next]_vars

\* The instructions of the tasks are executed; interrupts end.
FairSpec == Spec /\ WF_vars(doIt \/ otherMain \/ Done \/ switchTask)

------------------------------------------------------------------------------
TypeOK ==
  /\ runningTask \in TaskSet
  /\ \A t \in TaskSet : \A r \in DOMAIN regs[t] :
       regs[t][r] \in (IF r = "rsp" THEN Pointer ELSE Words)
  /\ \A r \in DOMAIN cpu : cpu[r] \in Words
  /\ rsp \in Pointer
  /\ stack \in [TaskSet -> [1 .. Depth -> Words]]
  /\ step \in Steps
  /\ yields \in [TaskSet -> 0 .. Calls]

\* A task whose yield has returned.
Resumed == step = "task" /\ yields[runningTask] > 0

\* yield returns to its caller: to the address of the task's own last call, on
\* its own stack, as deep as it was, with the flags and the registers a C caller
\* expects to survive, whatever the other task and interrupts did to the words
\* below (switch.asm:1).  Before its first yield, the other task starts in its own
\* function with its stack empty (task.c:27).
ReturnsToCaller ==
  /\ Resumed =>
       /\ cpu["rip"] = ReturnTo(runningTask, yields[runningTask])
       /\ rsp = held[runningTask].rsp
       /\ \A r \in CalleeSaved \cup {"rflags"} : cpu[r] = held[runningTask].cpu[r]
  /\ step = "task" /\ runningTask = "other" /\ yields["other"] = 0 =>
       cpu["rip"] = EntryOf("other") /\ rsp = regs["other"]["rsp"]

\* The Registers of a suspended task stay what it held when it called yield, whatever
\* the other task does and however often interrupts use the stacks: the address after
\* its own last call, its stack as deep as it was, and the flags and registers a C
\* caller expects to survive (task.c:14).
SuspendedIntact ==
  \A t \in TaskSet :
    yields[t] > 0 /\ t # runningTask /\ step \in {"task", "idle"} =>
      /\ regs[t]["rip"] = ReturnTo(t, yields[t])
      /\ regs[t]["rsp"] = held[t].rsp
      /\ \A r \in CalleeSaved \cup {"rflags"} : regs[t][r] = held[t].cpu[r]

\* What yield promises: the stack, the address to go on at, and the registers and flags
\* a C caller expects to survive.
SavedByCallee == CalleeSaved \cup {"rflags"}
Contexts == [rip : Words, rsp : Pointer, saved : [SavedByCallee -> Words]]

Context(rip, at, values) ==
  [rip |-> rip, rsp |-> at, saved |-> [r \in SavedByCallee |-> values[r]]]

\* What t held when it last called yield; before that, what createTask gave it.
KeptBy(t) ==
  IF yields[t] = 0 THEN Context(regs[t]["rip"], regs[t]["rsp"], regs[t])
  ELSE Context(ReturnTo(t, yields[t]), held[t].rsp, held[t].cpu)

\* A task has the CPU's registers, but not while switchTask runs.
OnCpu ==
  IF step \in {"task", "idle", "off"} THEN <<Context(cpu["rip"], rsp, cpu)>> ELSE << >>

Promise ==
  INSTANCE Coroutines WITH Tasks <- TaskSet, running <- runningTask, context <- OnCpu,
                           kept <- [t \in TaskSet |-> KeptBy(t)]

\* The instructions of switchTask, with interrupts between any two of them, make up a
\* yield and a return to what the next task kept, and the tasks take turns (task.c:14).
SwitchesWhole == Promise!Spec

\* otherMain never returns as long as main calls doIt once, as kernel.c does:
\* there is no caller to return to (task.c:42).
NeverReturnsFromOther == yields["main"] <= 1 => step # "off"

\* The kernel comes back from its doIt (task.c:21, "good").
MainComesBack == <>(step = "idle" \/ yields["main"] > 1)
==============================================================================
