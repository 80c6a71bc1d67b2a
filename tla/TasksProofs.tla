------------------------------ MODULE TasksProofs ----------------------------
(***************************************************************************)
(* Proofs about Tasks for every number of calls and every depth of the     *)
(* stacks: yield returns to its caller, whatever interrupts do to the      *)
(* stacks between the instructions of the switch.                          *)
(*                                                                         *)
(* The argument follows the switch: the only word of a stack it needs is   *)
(* the one rsp points to, which an interrupt leaves alone, and what else a *)
(* task needs is in its Registers before the CPU leaves its stack.  So the *)
(* instructions of the switch amount to the two steps of Coroutines.       *)
(***************************************************************************)
EXTENDS Tasks, TLAPS

\* How deep a task's stack is outside yield, and within.
BaseDepth(t) == IF t = "main" THEN 1 ELSE 0
Inside(t, pushed) == [stack |-> t, depth |-> BaseDepth(t) + pushed]

Suspended == next(runningTask)

\* Every variable has the parts the switch names.
Shapes ==
  /\ runningTask \in TaskSet
  /\ DOMAIN regs = TaskSet /\ DOMAIN stack = TaskSet /\ DOMAIN held = TaskSet
  /\ \A t \in TaskSet :
       /\ DOMAIN regs[t] = General \cup {"rflags", "rip", "rsp"}
       /\ DOMAIN stack[t] = 1 .. Depth
  /\ DOMAIN cpu = General \cup {"rflags", "rip"}
  /\ yields \in [TaskSet -> Nat]

\* The tasks take turns, and other yields at most once.
TakeTurns ==
  /\ yields["other"] <= 1
  /\ runningTask = "main" => yields["main"] = yields["other"]
  /\ runningTask = "other" => yields["main"] = yields["other"] + 1
  /\ step = "off" => runningTask = "other" /\ yields["other"] > 0

\* The Registers of t hold what t needs to go on.
Saved(t) ==
  /\ regs[t]["rsp"] = Inside(t, 0)
  /\ yields[t] = 0 => regs[t]["rip"] = EntryOf("other")
  /\ yields[t] > 0 =>
       /\ regs[t]["rip"] = ReturnTo(t, yields[t])
       /\ held[t].rsp = Inside(t, 0)
       /\ \A r \in SavedByCallee : regs[t][r] = held[t].cpu[r]

\* A task runs.
InTask ==
  step \in {"task", "idle", "off"} =>
    /\ Saved(Suspended)
    /\ rsp = Inside(runningTask, 0)
    /\ yields[runningTask] > 0 =>
         /\ cpu["rip"] = ReturnTo(runningTask, yields[runningTask])
         /\ held[runningTask].rsp = Inside(runningTask, 0)
         /\ \A r \in SavedByCallee : cpu[r] = held[runningTask].cpu[r]
    /\ runningTask = "other" /\ yields["other"] = 0 =>
         cpu["rip"] = EntryOf("other") /\ regs["other"]["rsp"] = Inside("other", 0)

\* The first half of the switch: on the stack of the task that called yield.
Saving ==
  step \in {"save", "saveFlags", "saveRip"} =>
    /\ Saved(runningTask)
    /\ cpu["rdi"] = RegsOf(Suspended) /\ cpu["rsi"] = RegsOf(runningTask)
    /\ cpu["rflags"] = held[Suspended].cpu["rflags"]
    /\ yields[Suspended] > 0 /\ held[Suspended].rsp = Inside(Suspended, 0)
    /\ rsp = Inside(Suspended, 1) /\ Top = ReturnTo(Suspended, yields[Suspended])
    /\ step = "save" => \A r \in CalleeSaved : cpu[r] = held[Suspended].cpu[r]
    /\ step # "save" =>
         /\ regs[Suspended]["rsp"] = Inside(Suspended, 0)
         /\ \A r \in CalleeSaved : regs[Suspended][r] = held[Suspended].cpu[r]
    /\ step = "saveRip" => regs[Suspended]["rflags"] = held[Suspended].cpu["rflags"]

\* The second half: the next task's Registers are loaded.
Loading ==
  step \in {"load", "loadFlags", "loadRsp", "loadRip", "ret"} =>
    /\ Saved(Suspended) /\ Saved(runningTask)
    /\ cpu["rsi"] = RegsOf(runningTask)
    /\ step # "load" => \A r \in CalleeSaved \ {"rbp"} : cpu[r] = regs[runningTask][r]
    /\ step \in {"loadRsp", "loadRip", "ret"} => cpu["rflags"] = regs[runningTask]["rflags"]
    /\ step \in {"loadRip", "ret"} => cpu["rbp"] = regs[runningTask]["rbp"]
    /\ step \in {"load", "loadFlags", "loadRsp"} => rsp = Inside(Suspended, 2)
    /\ step = "loadRip" => rsp = Inside(runningTask, 0)
    /\ step = "ret" =>
         rsp = Inside(runningTask, 1) /\ Top = regs[runningTask]["rip"]

SwitchInv ==
  /\ step \in Steps
  /\ Shapes /\ TakeTurns /\ InTask /\ Saving /\ Loading

------------------------------------------------------------------------------
\* The two tasks, and the words that name them.
LEMMA Tasks2 ==
  /\ TaskSet = {"main", "other"}
  /\ \A t \in TaskSet : next(t) \in TaskSet /\ next(t) # t /\ next(next(t)) = t
  /\ \A t \in TaskSet : RegsOf(t).task = t
  /\ \A t \in TaskSet : BaseDepth(t) \in {0, 1}
BY DEF TaskSet, next, RegsOf, Word, BaseDepth

\* A depth within yield is on the modelled part of the stack.
LEMMA InsideFits ==
  ASSUME NEW t \in TaskSet, NEW n \in 0 .. 2
  PROVE  /\ Inside(t, n).stack = t /\ Inside(t, n).depth = BaseDepth(t) + n
         /\ Inside(t, n).depth \in 0 .. Depth
         /\ Inside(t, n).depth + 1 \in 1 .. Depth
BY Tasks2, TasksAssumption DEF Inside, BaseDepth

\* The names of the registers.
LEMMA Names ==
  /\ {"rdi", "rsi", "rax", "rcx", "rbp"} \subseteq General
  /\ CalleeSaved \subseteq General
  /\ CalleeSaved \cap {"rdi", "rsi", "rax", "rcx", "rip", "rsp", "rflags"} = {}
  /\ General \cap {"rip", "rsp", "rflags"} = {}
BY DEF General, CalleeSaved, CallerSaved

\* After a push, the word rsp points to is the one pushed.
LEMMA Pushed ==
  ASSUME Shapes, NEW t \in TaskSet, NEW n \in 0 .. 1, rsp = Inside(t, n),
         NEW word, Push(word)
  PROVE  /\ rsp' = Inside(t, n + 1) /\ stack'[rsp'.stack][rsp'.depth] = word
         /\ DOMAIN stack' = TaskSet
         /\ \A u \in TaskSet : DOMAIN stack'[u] = 1 .. Depth
<1>1. Inside(t, n).stack = t /\ Inside(t, n).depth = BaseDepth(t) + n
      /\ Inside(t, n).depth + 1 \in 1 .. Depth
  BY InsideFits
<1>2. rsp' = Inside(t, n + 1)
  BY <1>1, Tasks2 DEF Push, Inside
<1>3. rsp'.stack = t /\ rsp'.depth = Inside(t, n).depth + 1
  BY <1>1, <1>2, InsideFits, Tasks2
<1>4. stack' = [stack EXCEPT ![t][Inside(t, n).depth + 1] = word]
  BY <1>1 DEF Push
<1>. QED
  BY <1>1, <1>2, <1>3, <1>4 DEF Shapes

\* The initial state: main has called nothing, other has not run.
LEMMA SwitchInit == Init => SwitchInv
<1>. SUFFICES ASSUME Init PROVE SwitchInv
  OBVIOUS
<1>1. Shapes
  BY Tasks2, Names DEF Init, Shapes
<1>2. TakeTurns /\ step \in Steps
  BY Tasks2 DEF Init, TakeTurns, Steps
<1>3. InTask
  BY Tasks2, Names DEF Init, InTask, Saved, Suspended, next, Inside, BaseDepth
<1>4. Saving /\ Loading
  BY DEF Init, Saving, Loading
<1>. QED
  BY <1>1, <1>2, <1>3, <1>4 DEF SwitchInv

\* A call of yield: what the caller held is in the registers and what the other
\* task needs in its Registers.
LEMMA YieldKeeps ==
  ASSUME SwitchInv, NEW t \in TaskSet, yield(t),
         t = "other" => yields["other"] = 0
  PROVE  SwitchInv'
<1>1. /\ step = "task" /\ step' = "save" /\ t = runningTask /\ runningTask' = next(t)
      /\ regs' = regs
  BY DEF yield, At
<1>2. /\ Suspended = next(t) /\ Suspended' = t /\ rsp = Inside(t, 0) /\ Saved(next(t))
      /\ Shapes /\ TakeTurns
  BY <1>1, Tasks2 DEF SwitchInv, Suspended, InTask
<1>3. yields[t] \in Nat /\ yields' = [yields EXCEPT ![t] = yields[t] + 1]
      /\ held' = [held EXCEPT ![t] = [cpu |-> cpu', rsp |-> rsp]]
  BY <1>2 DEF yield, Shapes
<1>4. cpu' = [r \in DOMAIN cpu |->
                    CASE r = "rdi" -> RegsOf(t)
                      [] r = "rsi" -> RegsOf(next(t))
                      [] r = "rip" -> Zero
                      [] OTHER -> Word("reg", t, r, yields[t] + 1)]
  BY DEF yield
<1>5. /\ rsp' = Inside(t, 1) /\ Top' = ReturnTo(t, yields[t] + 1)
      /\ DOMAIN stack' = TaskSet
      /\ \A u \in TaskSet : DOMAIN stack'[u] = 1 .. Depth
  BY <1>2, Pushed DEF yield, Top
<1>6. Shapes'
  BY <1>1, <1>2, <1>3, <1>4, <1>5, Tasks2 DEF Shapes
<1>7. TakeTurns'
  BY <1>1, <1>2, <1>3, Tasks2 DEF TakeTurns, Shapes, next
<1>8. Saved(next(t))'
  BY <1>1, <1>2, <1>3, Tasks2 DEF Saved, Shapes
<1>9. Saving'
  <2>1. cpu'["rdi"] = RegsOf(t) /\ cpu'["rsi"] = RegsOf(next(t))
    BY <1>2, <1>4, Names DEF Shapes
  <2>2. held'[t] = [cpu |-> cpu', rsp |-> Inside(t, 0)] /\ yields'[t] = yields[t] + 1
    BY <1>2, <1>3 DEF Shapes
  <2>3. runningTask' = next(t) /\ Saved(runningTask)'
    BY <1>1, <1>8, Tasks2 DEF Saved
  <2>. QED
    BY <1>1, <1>2, <1>3, <1>5, <2>1, <2>2, <2>3 DEF Saving
<1>. QED
  BY <1>1, <1>6, <1>7, <1>9 DEF SwitchInv, InTask, Loading, Steps

\* Nothing the invariant speaks of changes when a task is done.
LEMMA DoneKeeps == ASSUME SwitchInv, Done PROVE SwitchInv'
<1>1. Shapes' /\ TakeTurns'
  BY DEF SwitchInv, Done, Shapes, TakeTurns
<1>2. InTask'
  BY DEF SwitchInv, Done, InTask, Saved, Suspended
<1>. QED
  BY <1>1, <1>2 DEF SwitchInv, Done, Saving, Loading, Steps

\* An interrupt writes below the word rsp points to.
LEMMA InterruptKeeps == ASSUME SwitchInv, Interrupt PROVE SwitchInv'
<1>1. UNCHANGED <<runningTask, regs, cpu, rsp, step, yields, held>>
  BY DEF Interrupt
<1>2. PICK skip \in {0, 1} :
        stack' = [stack EXCEPT ![rsp.stack] =
                   [d \in DOMAIN @ |-> IF d > rsp.depth + skip THEN Junk ELSE @[d]]]
  BY DEF Interrupt
<1>3. DOMAIN stack' = TaskSet /\ \A u \in TaskSet : DOMAIN stack'[u] = 1 .. Depth
  BY <1>2 DEF SwitchInv, Shapes
<1>4. ASSUME NEW t \in TaskSet, NEW n \in 1 .. 2, rsp = Inside(t, n) PROVE Top' = Top
  <2>1. rsp.stack = t /\ rsp.depth \in 1 .. Depth
    BY <1>4, InsideFits, Tasks2
  <2>2. stack'[t] = [d \in 1 .. Depth |-> IF d > rsp.depth + skip THEN Junk ELSE stack[t][d]]
    BY <1>2, <2>1 DEF SwitchInv, Shapes
  <2>3. ~ (rsp.depth > rsp.depth + skip)
    BY <2>1
  <2>4. stack'[t][rsp.depth] = stack[t][rsp.depth]
    BY <2>1, <2>2, <2>3
  <2>. QED
    BY <1>1, <2>1, <2>4 DEF Top
<1>5. Shapes' /\ TakeTurns'
  BY <1>1, <1>3 DEF SwitchInv, Shapes, TakeTurns
<1>6. InTask'
  BY <1>1 DEF SwitchInv, InTask, Saved, Suspended
<1>7. Suspended \in TaskSet /\ runningTask \in TaskSet /\ Suspended' = Suspended
  BY <1>1, Tasks2 DEF SwitchInv, Shapes, Suspended
<1>8. (Saved(runningTask) => Saved(runningTask)') /\ (Saved(Suspended) => Saved(Suspended)')
  BY <1>1, <1>7 DEF Saved
<1>9. Saving'
  BY <1>1, <1>4, <1>7, <1>8 DEF SwitchInv, Saving
<1>10. Loading'
  BY <1>1, <1>4, <1>7, <1>8 DEF SwitchInv, Loading
<1>. QED
  BY <1>1, <1>5, <1>6, <1>9, <1>10 DEF SwitchInv

------------------------------------------------------------------------------
\* The two Registers are those of the task that called yield and of the other.
LEMMA FromTo ==
  ASSUME SwitchInv
  PROVE  /\ runningTask \in TaskSet /\ Suspended \in TaskSet /\ Suspended # runningTask
         /\ step \in {"save", "saveFlags", "saveRip"} => From = Suspended /\ To = runningTask
         /\ step \in {"load", "loadFlags", "loadRsp", "loadRip", "ret"} => To = runningTask
<1>1. runningTask \in TaskSet /\ Suspended \in TaskSet /\ Suspended # runningTask
  BY Tasks2 DEF SwitchInv, Shapes, Suspended
<1>. QED
  BY <1>1, Tasks2 DEF SwitchInv, Saving, Loading, From, To

\* The general registers are saved, and the rsp before the call.
LEMMA SaveKeeps == ASSUME SwitchInv, save PROVE SwitchInv'
<1>1. /\ step = "save" /\ step' = "saveFlags"
      /\ UNCHANGED <<runningTask, rsp, stack, yields, held>>
      /\ Suspended' = Suspended
  BY DEF save, At, Suspended
<1>2. /\ From = Suspended /\ runningTask \in TaskSet /\ Suspended \in TaskSet
      /\ Suspended # runningTask /\ Shapes /\ Saving
  BY <1>1, FromTo DEF SwitchInv
<1>3. regs' = [regs EXCEPT ![Suspended] =
                [r \in DOMAIN @ |->
                   IF r \in General THEN cpu[r]
                   ELSE IF r = "rsp" THEN [rsp EXCEPT !.depth = @ - 1]
                   ELSE @[r]]]
      /\ cpu' = [cpu EXCEPT !["rax"] = Junk]
  BY <1>2 DEF save
<1>4. regs'[runningTask] = regs[runningTask] /\ DOMAIN regs' = TaskSet
      /\ DOMAIN regs'[Suspended] = General \cup {"rflags", "rip", "rsp"}
      /\ DOMAIN cpu' = DOMAIN cpu
  BY <1>2, <1>3 DEF Shapes
<1>5. Shapes' /\ TakeTurns'
  BY <1>1, <1>2, <1>3, <1>4, FromTo DEF Shapes, TakeTurns, SwitchInv
<1>6. Saved(runningTask)'
  BY <1>1, <1>2, <1>4 DEF Saved, Saving
<1>7. [rsp EXCEPT !.depth = @ - 1] = Inside(Suspended, 0)
  BY <1>1, <1>2, Tasks2 DEF Saving, Inside
<1>8. \A r \in CalleeSaved : regs'[Suspended][r] = held[Suspended].cpu[r]
  BY <1>1, <1>2, <1>3, Names DEF Shapes, Saving
<1>9. regs'[Suspended]["rsp"] = Inside(Suspended, 0)
  BY <1>2, <1>3, <1>7, Names DEF Shapes
<1>10. /\ cpu'["rdi"] = cpu["rdi"] /\ cpu'["rsi"] = cpu["rsi"]
       /\ cpu'["rflags"] = cpu["rflags"]
  BY <1>2, <1>3, Names DEF Shapes
<1>11. Saving'
  BY <1>1, <1>2, <1>6, <1>8, <1>9, <1>10 DEF Saving, Top
<1>. QED
  BY <1>1, <1>5, <1>11 DEF SwitchInv, InTask, Loading, Steps

\* The flags are saved through the word below rsp.
LEMMA SaveFlagsKeeps == ASSUME SwitchInv, saveFlags PROVE SwitchInv'
<1>1. /\ step = "saveFlags" /\ step' = "saveRip"
      /\ UNCHANGED <<runningTask, rsp, yields, held>>
      /\ Suspended' = Suspended
  BY DEF saveFlags, At, Suspended
<1>2. /\ From = Suspended /\ runningTask \in TaskSet /\ Suspended \in TaskSet
      /\ Suspended # runningTask /\ Shapes /\ Saving
  BY <1>1, FromTo DEF SwitchInv
<1>3. regs' = [regs EXCEPT ![Suspended]["rflags"] = cpu["rflags"]]
      /\ cpu' = [cpu EXCEPT !["rax"] = cpu["rflags"]]
      /\ stack' = [stack EXCEPT ![rsp.stack][rsp.depth + 1] = cpu["rflags"]]
  BY <1>2 DEF saveFlags
<1>4. Shapes' /\ TakeTurns'
  BY <1>1, <1>2, <1>3 DEF Shapes, TakeTurns, SwitchInv
<1>5. Saved(runningTask)'
  BY <1>1, <1>2, <1>3 DEF Saved, Saving
<1>6. /\ regs'[Suspended]["rflags"] = held[Suspended].cpu["rflags"]
      /\ regs'[Suspended]["rsp"] = regs[Suspended]["rsp"]
      /\ \A r \in CalleeSaved : regs'[Suspended][r] = regs[Suspended][r]
  BY <1>1, <1>2, <1>3, Names DEF Shapes, Saving
<1>7. /\ cpu'["rdi"] = cpu["rdi"] /\ cpu'["rsi"] = cpu["rsi"]
      /\ cpu'["rflags"] = cpu["rflags"]
  BY <1>2, <1>3, Names DEF Shapes
<1>8. Top' = Top
  <2>1. /\ rsp = Inside(Suspended, 1) /\ rsp.stack = Suspended
        /\ rsp.depth = BaseDepth(Suspended) + 1 /\ rsp.depth + 1 \in 1 .. Depth
    BY <1>1, <1>2, InsideFits DEF Saving
  <2>. QED
    BY <1>1, <1>2, <1>3, <2>1, Tasks2 DEF Top, Shapes
<1>9. Saving'
  BY <1>1, <1>2, <1>5, <1>6, <1>7, <1>8 DEF Saving
<1>. QED
  BY <1>1, <1>4, <1>9 DEF SwitchInv, InTask, Loading, Steps

\* The return address is saved and pushed again: now both tasks have what they
\* need in their Registers.
LEMMA SaveRipKeeps == ASSUME SwitchInv, saveRip PROVE SwitchInv'
<1>1. /\ step = "saveRip" /\ step' = "load"
      /\ UNCHANGED <<runningTask, yields, held>>
      /\ Suspended' = Suspended
  BY DEF saveRip, At, Suspended
<1>2. /\ From = Suspended /\ runningTask \in TaskSet /\ Suspended \in TaskSet
      /\ Suspended # runningTask /\ Shapes /\ Saving
  BY <1>1, FromTo DEF SwitchInv
<1>3. regs' = [regs EXCEPT ![Suspended]["rip"] = Top]
      /\ cpu' = [cpu EXCEPT !["rax"] = Top]
  BY <1>2 DEF saveRip
<1>4. /\ rsp' = Inside(Suspended, 2) /\ DOMAIN stack' = TaskSet
      /\ \A u \in TaskSet : DOMAIN stack'[u] = 1 .. Depth
  BY <1>1, <1>2, Pushed DEF saveRip, Saving
<1>5. Shapes' /\ TakeTurns'
  BY <1>1, <1>2, <1>3, <1>4 DEF Shapes, TakeTurns, SwitchInv
<1>6. Saved(runningTask)'
  BY <1>1, <1>2, <1>3 DEF Saved, Saving
<1>7. /\ regs'[Suspended]["rip"] = ReturnTo(Suspended, yields[Suspended])
      /\ regs'[Suspended]["rsp"] = Inside(Suspended, 0)
      /\ \A r \in SavedByCallee : regs'[Suspended][r] = held[Suspended].cpu[r]
  BY <1>1, <1>2, <1>3, Names DEF Shapes, Saving, SavedByCallee
<1>8. Saved(Suspended)'
  BY <1>1, <1>2, <1>7 DEF Saved, Saving, Shapes
<1>9. cpu'["rsi"] = cpu["rsi"]
  BY <1>2, <1>3, Names DEF Shapes
<1>10. Loading'
  BY <1>1, <1>2, <1>4, <1>6, <1>8, <1>9 DEF Loading, Saving
<1>. QED
  BY <1>1, <1>5, <1>10 DEF SwitchInv, InTask, Saving, Steps

\* What the steps that load leave alone.
Kept == UNCHANGED <<runningTask, regs, yields, held>>

LEMMA KeptKeeps ==
  ASSUME SwitchInv, Kept, step # "off", step' # "off",
         DOMAIN cpu' = DOMAIN cpu, DOMAIN stack' = TaskSet,
         \A u \in TaskSet : DOMAIN stack'[u] = 1 .. Depth
  PROVE  /\ Shapes' /\ TakeTurns' /\ Suspended' = Suspended
         /\ Saved(Suspended) => Saved(Suspended)'
         /\ Saved(runningTask) => Saved(runningTask)'
BY DEF SwitchInv, Kept, Shapes, TakeTurns, Suspended, Saved

\* The general registers but rcx, rsi and rbp are loaded.
LEMMA LoadKeeps == ASSUME SwitchInv, load PROVE SwitchInv'
<1>1. /\ step = "load" /\ step' = "loadFlags" /\ Kept /\ UNCHANGED <<rsp, stack>>
  BY DEF load, At, Kept
<1>2. To = runningTask /\ Shapes /\ Loading
  BY <1>1, FromTo DEF SwitchInv
<1>3. cpu' = [r \in DOMAIN cpu |->
               IF r \in General \ {"rcx", "rsi", "rbp"} THEN regs[runningTask][r] ELSE cpu[r]]
  BY <1>2 DEF load
<1>4. /\ Shapes' /\ TakeTurns' /\ Suspended' = Suspended
      /\ Saved(Suspended) => Saved(Suspended)'
      /\ Saved(runningTask) => Saved(runningTask)'
  BY <1>1, <1>2, <1>3, KeptKeeps DEF Shapes
<1>5. /\ cpu'["rsi"] = cpu["rsi"]
      /\ \A r \in CalleeSaved \ {"rbp"} : cpu'[r] = regs[runningTask][r]
  BY <1>2, <1>3, Names DEF Shapes
<1>6. Loading'
  BY <1>1, <1>2, <1>4, <1>5 DEF Loading, Kept
<1>. QED
  BY <1>1, <1>4, <1>6 DEF SwitchInv, InTask, Saving, Steps

\* The flags go through the word below rsp.
LEMMA LoadFlagsKeeps == ASSUME SwitchInv, loadFlags PROVE SwitchInv'
<1>1. /\ step = "loadFlags" /\ step' = "loadRsp" /\ Kept /\ UNCHANGED rsp
  BY DEF loadFlags, At, Kept
<1>2. To = runningTask /\ Shapes /\ Loading
  BY <1>1, FromTo DEF SwitchInv
<1>3. /\ cpu' = [cpu EXCEPT !["rax"] = regs[runningTask]["rflags"],
                            !["rflags"] = regs[runningTask]["rflags"]]
      /\ stack' = [stack EXCEPT ![rsp.stack][rsp.depth + 1] = regs[runningTask]["rflags"]]
  BY <1>2 DEF loadFlags
<1>4. /\ Shapes' /\ TakeTurns' /\ Suspended' = Suspended
      /\ Saved(Suspended) => Saved(Suspended)'
      /\ Saved(runningTask) => Saved(runningTask)'
  <2>1. DOMAIN stack' = TaskSet /\ \A u \in TaskSet : DOMAIN stack'[u] = 1 .. Depth
    BY <1>2, <1>3 DEF Shapes
  <2>2. DOMAIN cpu' = DOMAIN cpu
    BY <1>3
  <2>. QED
    BY <1>1, <2>1, <2>2, KeptKeeps
<1>5. /\ cpu'["rsi"] = cpu["rsi"] /\ cpu'["rflags"] = regs[runningTask]["rflags"]
      /\ \A r \in CalleeSaved \ {"rbp"} : cpu'[r] = cpu[r]
  BY <1>2, <1>3, Names DEF Shapes
<1>6. Loading'
  BY <1>1, <1>2, <1>4, <1>5 DEF Loading, Kept
<1>. QED
  BY <1>1, <1>4, <1>6 DEF SwitchInv, InTask, Saving, Steps

\* The CPU moves to the other stack.
LEMMA LoadRspKeeps == ASSUME SwitchInv, loadRsp PROVE SwitchInv'
<1>1. /\ step = "loadRsp" /\ step' = "loadRip" /\ Kept /\ UNCHANGED stack
  BY DEF loadRsp, At, Kept
<1>2. To = runningTask /\ Shapes /\ Loading
  BY <1>1, FromTo DEF SwitchInv
<1>3. /\ cpu' = [cpu EXCEPT !["rbp"] = regs[runningTask]["rbp"]]
      /\ rsp' = Inside(runningTask, 0)
  BY <1>1, <1>2 DEF loadRsp, Loading, Saved
<1>4. /\ Shapes' /\ TakeTurns' /\ Suspended' = Suspended
      /\ Saved(Suspended) => Saved(Suspended)'
      /\ Saved(runningTask) => Saved(runningTask)'
  BY <1>1, <1>2, <1>3, KeptKeeps DEF Shapes
<1>5. /\ cpu'["rsi"] = cpu["rsi"] /\ cpu'["rflags"] = cpu["rflags"]
      /\ cpu'["rbp"] = regs[runningTask]["rbp"]
      /\ \A r \in CalleeSaved \ {"rbp"} : cpu'[r] = cpu[r]
  BY <1>2, <1>3, Names DEF Shapes
<1>6. Loading'
  BY <1>1, <1>2, <1>3, <1>4, <1>5 DEF Loading, Kept
<1>. QED
  BY <1>1, <1>4, <1>6 DEF SwitchInv, InTask, Saving, Steps

\* The address to return to is pushed.
LEMMA LoadRipKeeps == ASSUME SwitchInv, loadRip PROVE SwitchInv'
<1>1. /\ step = "loadRip" /\ step' = "ret" /\ Kept /\ UNCHANGED cpu
  BY DEF loadRip, At, Kept
<1>2. To = runningTask /\ runningTask \in TaskSet /\ Shapes /\ Loading
  BY <1>1, FromTo DEF SwitchInv
<1>3. /\ rsp' = Inside(runningTask, 1) /\ Top' = regs[runningTask]["rip"]
      /\ DOMAIN stack' = TaskSet
      /\ \A u \in TaskSet : DOMAIN stack'[u] = 1 .. Depth
  BY <1>1, <1>2, Pushed DEF loadRip, Loading, Top
<1>4. /\ Shapes' /\ TakeTurns' /\ Suspended' = Suspended
      /\ Saved(Suspended) => Saved(Suspended)'
      /\ Saved(runningTask) => Saved(runningTask)'
  BY <1>1, <1>2, <1>3, KeptKeeps DEF Shapes
<1>5. Loading'
  BY <1>1, <1>2, <1>3, <1>4 DEF Loading, Kept
<1>. QED
  BY <1>1, <1>4, <1>5 DEF SwitchInv, InTask, Saving, Steps

\* ret takes it from the stack.
LEMMA RetKeeps == ASSUME SwitchInv, ret PROVE SwitchInv'
<1>1. /\ step = "ret" /\ step' = "task" /\ Kept /\ UNCHANGED stack
  BY DEF ret, At, Kept
<1>2. /\ To = runningTask /\ runningTask \in TaskSet /\ Shapes /\ Loading
      /\ rsp = Inside(runningTask, 1)
  BY <1>1, FromTo DEF SwitchInv, Loading
<1>3. /\ cpu' = [cpu EXCEPT !["rax"] = regs[runningTask]["rcx"],
                            !["rsi"] = regs[runningTask]["rsi"], !["rip"] = Top]
      /\ rsp' = Inside(runningTask, 0)
  BY <1>2, Tasks2 DEF ret, Inside
<1>4. /\ Shapes' /\ TakeTurns' /\ Suspended' = Suspended
      /\ Saved(Suspended) => Saved(Suspended)'
  BY <1>1, <1>2, <1>3, KeptKeeps DEF Shapes
<1>5. /\ cpu'["rip"] = regs[runningTask]["rip"] /\ cpu'["rflags"] = cpu["rflags"]
      /\ \A r \in CalleeSaved : cpu'[r] = cpu[r]
  BY <1>1, <1>2, <1>3, Names DEF Shapes, Loading
<1>6. /\ cpu["rflags"] = regs[runningTask]["rflags"]
      /\ \A r \in CalleeSaved : cpu[r] = regs[runningTask][r]
  BY <1>1, <1>2 DEF Loading
<1>7. \A r \in SavedByCallee : cpu'[r] = regs[runningTask][r]
  BY <1>5, <1>6 DEF SavedByCallee
<1>8. InTask'
  BY <1>1, <1>2, <1>3, <1>4, <1>5, <1>7 DEF InTask, Kept, Loading, Saved, Shapes
<1>. QED
  BY <1>1, <1>4, <1>8 DEF SwitchInv, Loading, Saving, Steps

------------------------------------------------------------------------------
LEMMA SwitchStep == SwitchInv /\ [Next]_vars => SwitchInv'
<1>. SUFFICES ASSUME SwitchInv, [Next]_vars PROVE SwitchInv'
  OBVIOUS
<1>1. CASE doIt
  BY <1>1, YieldKeeps, Tasks2 DEF doIt
<1>2. CASE otherMain
  BY <1>2, YieldKeeps, Tasks2 DEF otherMain
<1>3. CASE switchTask
  BY <1>3, SaveKeeps, SaveFlagsKeeps, SaveRipKeeps, LoadKeeps, LoadFlagsKeeps,
     LoadRspKeeps, LoadRipKeeps, RetKeeps DEF switchTask
<1>4. CASE UNCHANGED vars
  <2>1. Shapes' /\ TakeTurns' /\ InTask'
    BY <1>4 DEF vars, SwitchInv, Shapes, TakeTurns, InTask, Saved, Suspended
  <2>2. Saving' /\ Loading'
    BY <1>4 DEF vars, SwitchInv, Saving, Loading, Saved, Suspended, Top
  <2>. QED
    BY <1>4, <2>1, <2>2 DEF vars, SwitchInv
<1>. QED
  BY <1>1, <1>2, <1>3, <1>4, DoneKeeps, InterruptKeeps DEF Next

LEMMA SwitchAlways == Spec => []SwitchInv
BY SwitchInit, SwitchStep, PTL DEF Spec

\* yield returns to the instruction after the call, on the caller's stack and as
\* deep, with the registers a C caller expects (switch.asm:1).
THEOREM YieldReturns == Spec => []ReturnsToCaller
<1>1. SwitchInv => ReturnsToCaller
  <2>. SUFFICES ASSUME SwitchInv, step = "task" PROVE ReturnsToCaller
    BY DEF ReturnsToCaller, Resumed
  <2>1. runningTask \in TaskSet /\ yields[runningTask] \in Nat
    BY DEF SwitchInv, Shapes
  <2>. QED
    BY <2>1 DEF SwitchInv, InTask, ReturnsToCaller, Resumed, SavedByCallee
<1>. QED
  BY <1>1, SwitchAlways, PTL

\* While a task is suspended its Registers hold its stack, where to go on, and the flags
\* and registers a C caller expects to survive (task.c:14).
THEOREM SuspendedKept == Spec => []SuspendedIntact
<1>1. SwitchInv => SuspendedIntact
  <2>. SUFFICES ASSUME SwitchInv, step \in {"task", "idle"},
                       NEW t \in TaskSet, yields[t] > 0, t # runningTask
                PROVE  /\ regs[t]["rip"] = ReturnTo(t, yields[t]) /\ regs[t]["rsp"] = held[t].rsp
                       /\ \A r \in CalleeSaved \cup {"rflags"} : regs[t][r] = held[t].cpu[r]
    BY DEF SuspendedIntact
  <2>1. t = Suspended
    BY DEF SwitchInv, Shapes, Suspended, TaskSet, next
  <2>. QED
    BY <2>1 DEF SwitchInv, InTask, Saved, SavedByCallee
<1>. QED
  BY <1>1, SwitchAlways, PTL

\* otherMain returns only if main calls doIt twice (task.c:42).
THEOREM OtherStays == Spec => []NeverReturnsFromOther
<1>1. SwitchInv => NeverReturnsFromOther
  BY Tasks2 DEF SwitchInv, TakeTurns, Shapes, NeverReturnsFromOther
<1>. QED
  BY <1>1, SwitchAlways, PTL

------------------------------------------------------------------------------
\* The types.  What the CPU reads off a stack is a word because rsp then points into
\* the part that is modelled, which the invariant of the switch says.
WordsOnly ==
  /\ \A t \in TaskSet, r \in General \cup {"rflags", "rip"} : regs[t][r] \in Words
  /\ \A t \in TaskSet : regs[t]["rsp"] \in Pointer
  /\ \A r \in General \cup {"rflags", "rip"} : cpu[r] \in Words
  /\ stack \in [TaskSet -> [1 .. Depth -> Words]]
  /\ yields \in [TaskSet -> 0 .. Calls]

LEMMA WordsAre ==
  /\ {Junk, Zero, AnyFlags, EntryOf("other")} \subseteq Words
  /\ \A t \in TaskSet : RegsOf(t) \in Words
  /\ \A t \in TaskSet, n \in 1 .. Calls : ReturnTo(t, n) \in Words
  /\ \A t \in TaskSet, r \in General \cup {"rflags"}, n \in 1 .. Calls :
       Word("reg", t, r, n) \in Words
BY DEF Words

\* Where rsp points.
LEMMA PointsInside ==
  ASSUME SwitchInv
  PROVE  /\ rsp \in Pointer
         /\ step \in {"saveRip", "ret"} => rsp.depth \in 1 .. Depth
         /\ step \in {"save", "saveFlags", "saveRip"} => rsp = Inside(Suspended, 1)
<1>1. runningTask \in TaskSet /\ Suspended \in TaskSet
  BY Tasks2 DEF SwitchInv, Shapes, Suspended
<1>2. \E t \in TaskSet, n \in 0 .. 2 :
        rsp = Inside(t, n) /\ (step \in {"saveRip", "ret"} => n = 1)
  <2>1. CASE step \in {"task", "idle", "off"}
    BY <1>1, <2>1 DEF SwitchInv, InTask
  <2>2. CASE step \in {"save", "saveFlags", "saveRip"}
    BY <1>1, <2>2 DEF SwitchInv, Saving
  <2>3. CASE step \in {"load", "loadFlags", "loadRsp"}
    BY <1>1, <2>3 DEF SwitchInv, Loading
  <2>4. CASE step = "loadRip"
    BY <1>1, <2>4 DEF SwitchInv, Loading
  <2>5. CASE step = "ret"
    BY <1>1, <2>5 DEF SwitchInv, Loading
  <2>. QED
    BY <2>1, <2>2, <2>3, <2>4, <2>5 DEF SwitchInv, Steps
<1>3. PICK t \in TaskSet, n \in 0 .. 2 :
        rsp = Inside(t, n) /\ (step \in {"saveRip", "ret"} => n = 1)
  BY <1>2
<1>4. rsp.stack = t /\ rsp.depth = BaseDepth(t) + n /\ rsp.depth \in 0 .. Depth
  BY <1>3, InsideFits
<1>5. rsp = [stack |-> rsp.stack, depth |-> rsp.depth]
  BY <1>3 DEF Inside
<1>6. rsp \in Pointer
  BY <1>4, <1>5 DEF Pointer
<1>7. step \in {"saveRip", "ret"} => rsp.depth \in 1 .. Depth
  BY <1>3, <1>4, Tasks2, TasksAssumption
<1>. QED
  BY <1>6, <1>7 DEF SwitchInv, Saving

\* A word stored on a stack leaves words there.
LEMMA StackKeeps ==
  ASSUME WordsOnly, NEW word \in Words, NEW p \in Pointer,
         stack' = [stack EXCEPT ![p.stack][p.depth + 1] = word]
  PROVE  stack' \in [TaskSet -> [1 .. Depth -> Words]]
BY DEF WordsOnly, Pointer

LEMMA WordsInit == Init => WordsOnly
<1>. SUFFICES ASSUME Init PROVE WordsOnly
  OBVIOUS
<1>1. \A t \in TaskSet, r \in General \cup {"rflags", "rip"} : regs[t][r] \in Words
  BY WordsAre, Tasks2, Names DEF Init
<1>2. \A t \in TaskSet : regs[t]["rsp"] \in Pointer
  BY TasksAssumption DEF Init, Pointer
<1>3. yields \in [TaskSet -> 0 .. Calls]
  BY TasksAssumption DEF Init
<1>. QED
  BY <1>1, <1>2, <1>3, WordsAre DEF Init, WordsOnly

LEMMA WordsYield ==
  ASSUME SwitchInv, WordsOnly, NEW t \in TaskSet, yield(t), yields[t] < Calls
  PROVE  WordsOnly'
<1>1. yields[t] + 1 \in 1 .. Calls /\ next(t) \in TaskSet
  BY Tasks2, TasksAssumption DEF WordsOnly
<1>2. yields' = [yields EXCEPT ![t] = yields[t] + 1] /\ UNCHANGED regs
  BY DEF yield
<1>3. \A r \in General \cup {"rflags", "rip"} : cpu'[r] \in Words
  BY <1>1, WordsAre DEF yield, SwitchInv, Shapes
<1>4. stack' = [stack EXCEPT ![rsp.stack][rsp.depth + 1] = ReturnTo(t, yields[t] + 1)]
  BY DEF yield, Push
<1>5. stack' \in [TaskSet -> [1 .. Depth -> Words]]
  BY <1>1, <1>4, WordsAre, PointsInside, StackKeeps DEF SwitchInv
<1>6. yields' \in [TaskSet -> 0 .. Calls]
  BY <1>1, <1>2 DEF WordsOnly
<1>. QED
  BY <1>2, <1>3, <1>5, <1>6 DEF WordsOnly

LEMMA WordsSave == ASSUME SwitchInv, WordsOnly, save PROVE WordsOnly'
<1>1. rsp = Inside(Suspended, 1) /\ Suspended \in TaskSet /\ From \in TaskSet
  BY PointsInside, Tasks2 DEF save, At, SwitchInv, Saving, Shapes, Suspended, From
<1>2. [rsp EXCEPT !.depth = @ - 1] \in Pointer
  BY <1>1, Tasks2, TasksAssumption DEF Inside, Pointer
<1>3. \A t \in TaskSet, r \in General \cup {"rflags", "rip"} : regs'[t][r] \in Words
  BY <1>1, Names DEF save, SwitchInv, Shapes, WordsOnly
<1>4. \A t \in TaskSet : regs'[t]["rsp"] \in Pointer
  BY <1>1, <1>2, Names DEF save, SwitchInv, Shapes, WordsOnly
<1>5. \A r \in General \cup {"rflags", "rip"} : cpu'[r] \in Words
  BY WordsAre DEF save, SwitchInv, Shapes, WordsOnly
<1>. QED
  BY <1>3, <1>4, <1>5 DEF save, WordsOnly

LEMMA WordsSaveRest == ASSUME SwitchInv, WordsOnly, saveFlags \/ saveRip PROVE WordsOnly'
<1>1. /\ Shapes /\ rsp \in Pointer /\ (step = "saveRip" => Top \in Words)
      /\ \A r \in General \cup {"rflags", "rip"} : cpu[r] \in Words
  BY PointsInside DEF SwitchInv, WordsOnly, Top, Pointer
<1>2. From \in TaskSet
  BY Tasks2 DEF saveFlags, saveRip, At, SwitchInv, Saving, Shapes, Suspended, From
<1>3. PICK word \in Words, r \in {"rflags", "rip"} :
        /\ regs' = [regs EXCEPT ![From][r] = word]
        /\ cpu' = [cpu EXCEPT !["rax"] = word]
        /\ stack' = [stack EXCEPT ![rsp.stack][rsp.depth + 1] = word]
        /\ UNCHANGED yields
  <2>1. CASE saveFlags
    BY <1>1, <2>1 DEF saveFlags
  <2>2. CASE saveRip
    <3>1. /\ Top \in Words
          /\ regs' = [regs EXCEPT ![From]["rip"] = Top]
          /\ cpu' = [cpu EXCEPT !["rax"] = Top]
          /\ stack' = [stack EXCEPT ![rsp.stack][rsp.depth + 1] = Top]
          /\ UNCHANGED yields
      BY <1>1, <2>2 DEF saveRip, At, Push
    <3>. QED
      BY <3>1
  <2>. QED
    BY <2>1, <2>2
<1>4. stack' \in [TaskSet -> [1 .. Depth -> Words]]
  BY <1>1, <1>3, StackKeeps
<1>5. \A t \in TaskSet, q \in General \cup {"rflags", "rip"} : regs'[t][q] \in Words
  BY <1>1, <1>2, <1>3 DEF Shapes, WordsOnly
<1>6. \A t \in TaskSet : regs'[t]["rsp"] \in Pointer
  BY <1>1, <1>2, <1>3 DEF Shapes, WordsOnly
<1>. QED
  BY <1>1, <1>3, <1>4, <1>5, <1>6 DEF Shapes, WordsOnly

LEMMA WordsLoad ==
  ASSUME SwitchInv, WordsOnly, load \/ loadFlags \/ loadRsp \/ loadRip \/ ret
  PROVE  WordsOnly'
<1>1. /\ Shapes /\ rsp \in Pointer /\ (step = "ret" => Top \in Words)
      /\ UNCHANGED <<regs, yields>>
  <2>1. Shapes /\ rsp \in Pointer /\ (step = "ret" => Top \in Words)
    BY PointsInside DEF SwitchInv, WordsOnly, Top, Pointer
  <2>2. UNCHANGED <<regs, yields>>
    BY DEF load, loadFlags, loadRsp, loadRip, ret
  <2>. QED
    BY <2>1, <2>2
<1>2. /\ To \in TaskSet
      /\ \A r \in General \cup {"rflags", "rip"} : regs[To][r] \in Words /\ cpu[r] \in Words
  BY Tasks2 DEF load, loadFlags, loadRsp, loadRip, ret, At, SwitchInv, Loading, Shapes, To, WordsOnly
<1>3. ASSUME NEW r \in General \cup {"rflags", "rip"} PROVE cpu'[r] \in Words
  <2>1. r \in DOMAIN cpu /\ {"rcx", "rsi", "rflags", "rbp"} \subseteq General \cup {"rflags"}
    BY <1>1, Names DEF Shapes
  <2>2. CASE load
    BY <1>2, <2>1, <2>2 DEF load
  <2>3. CASE loadFlags
    BY <1>2, <2>1, <2>3 DEF loadFlags
  <2>4. CASE loadRsp
    BY <1>2, <2>1, <2>4 DEF loadRsp
  <2>5. CASE loadRip
    BY <1>2, <2>5 DEF loadRip
  <2>6. CASE ret
    <3>1. Top \in Words /\ regs[To]["rcx"] \in Words /\ regs[To]["rsi"] \in Words
      BY <1>1, <1>2, <2>1, <2>6 DEF ret, At
    <3>2. cpu' = [cpu EXCEPT !["rax"] = regs[To]["rcx"], !["rsi"] = regs[To]["rsi"], !["rip"] = Top]
      BY <2>6 DEF ret
    <3>. QED
      BY <1>2, <2>1, <3>1, <3>2
  <2>. QED
    BY <2>2, <2>3, <2>4, <2>5, <2>6
<1>4. stack' \in [TaskSet -> [1 .. Depth -> Words]]
  <2>1. CASE UNCHANGED stack
    BY <2>1 DEF WordsOnly
  <2>2. CASE loadFlags
    BY <1>1, <1>2, <2>2, StackKeeps DEF loadFlags
  <2>3. CASE loadRip
    BY <1>1, <1>2, <2>3, StackKeeps DEF loadRip, Push
  <2>. QED
    BY <2>1, <2>2, <2>3 DEF load, loadRsp, ret
<1>. QED
  BY <1>1, <1>3, <1>4 DEF WordsOnly

LEMMA WordsStep == SwitchInv /\ WordsOnly /\ [Next]_vars => WordsOnly'
<1>. SUFFICES ASSUME SwitchInv, WordsOnly, [Next]_vars PROVE WordsOnly'
  OBVIOUS
<1>1. CASE doIt
  BY <1>1, WordsYield, Tasks2 DEF doIt
<1>2. CASE otherMain
  BY <1>2, WordsYield, Tasks2, TasksAssumption DEF otherMain
<1>3. CASE Interrupt
  <2>1. stack' \in [TaskSet -> [1 .. Depth -> Words]]
    <3>1. PICK skip \in {0, 1} :
            stack' = [stack EXCEPT ![rsp.stack] =
                        [d \in DOMAIN @ |-> IF d > rsp.depth + skip THEN Junk ELSE @[d]]]
      BY <1>3 DEF Interrupt
    <3>2. rsp.stack \in TaskSet /\ Junk \in Words
      BY PointsInside, WordsAre DEF Pointer
    <3>3. stack[rsp.stack] \in [1 .. Depth -> Words]
      BY <3>2 DEF WordsOnly
    <3>4. [d \in DOMAIN stack[rsp.stack] |->
             IF d > rsp.depth + skip THEN Junk ELSE stack[rsp.stack][d]] \in [1 .. Depth -> Words]
      BY <3>2, <3>3
    <3>. QED
      BY <3>1, <3>2, <3>4 DEF WordsOnly
  <2>. QED
    BY <1>3, <2>1 DEF Interrupt, WordsOnly
<1>4. CASE Done \/ UNCHANGED vars
  BY <1>4 DEF Done, vars, WordsOnly
<1>. QED
  BY <1>1, <1>2, <1>3, <1>4, WordsSave, WordsSaveRest, WordsLoad DEF Next, switchTask

\* The registers, the stacks and the Registers of the tasks hold words of the tasks,
\* and rsp points into one of the two stacks, no deeper than yield takes it
\* (switch.asm:1).
THEOREM WordsTyped == Spec => []TypeOK
<1>1. SwitchInv /\ WordsOnly => TypeOK
  <2>. SUFFICES ASSUME SwitchInv, WordsOnly PROVE TypeOK
    OBVIOUS
  <2>1. \A t \in TaskSet : \A r \in DOMAIN regs[t] :
          regs[t][r] \in (IF r = "rsp" THEN Pointer ELSE Words)
    BY DEF SwitchInv, Shapes, WordsOnly
  <2>. QED
    BY <2>1, PointsInside DEF SwitchInv, Shapes, WordsOnly, TypeOK
<1>. QED
  BY <1>1, SwitchInit, SwitchStep, WordsInit, WordsStep, PTL DEF Spec

------------------------------------------------------------------------------
\* The steps of the switch, seen by the tasks.  What a task keeps is in held and its
\* Registers, which only its own yield and the saving after it change.
KeptNow == [t \in TaskSet |-> KeptBy(t)]

LEMMA SameKept ==
  ASSUME UNCHANGED <<yields, held>>,
         \A t \in TaskSet : yields[t] = 0 => regs'[t] = regs[t]
  PROVE  KeptNow' = KeptNow
<1>1. ASSUME NEW t \in TaskSet PROVE KeptBy(t)' = KeptBy(t)
  BY <1>1 DEF KeptBy, Context
<1>. QED
  BY <1>1 DEF KeptNow

\* The caller keeps what it holds, and the other task what it kept.
LEMMA YieldsWhole ==
  ASSUME SwitchInv, WordsOnly, SwitchInv', WordsOnly', NEW t \in TaskSet, yield(t)
  PROVE  Promise!Yield
<1>1. /\ step = "task" /\ step' = "save" /\ t = runningTask /\ runningTask' = next(t)
      /\ regs' = regs
  BY DEF yield, At
<1>2. /\ yields[t] \in Nat /\ yields' = [yields EXCEPT ![t] = yields[t] + 1]
      /\ held' = [held EXCEPT ![t] = [cpu |-> cpu', rsp |-> rsp]]
      /\ DOMAIN held = TaskSet
  BY DEF yield, SwitchInv, Shapes
<1>3. OnCpu # << >> /\ OnCpu' = << >>
  BY <1>1 DEF OnCpu
<1>4. \A u \in TaskSet \ {t} : KeptBy(u)' = KeptBy(u)
  BY <1>1, <1>2 DEF KeptBy, Context, SwitchInv, Shapes
<1>5. KeptBy(t)' = Context(ReturnTo(t, yields[t] + 1), rsp, cpu')
  <2>1. yields'[t] = yields[t] + 1 /\ held'[t] = [cpu |-> cpu', rsp |-> rsp]
    BY <1>2 DEF SwitchInv, Shapes
  <2>. QED
    BY <1>2, <2>1 DEF KeptBy, Context
<1>6. KeptBy(t)' \in Contexts
  <2>1. yields[t] + 1 \in 1 .. Calls
    BY <1>2 DEF WordsOnly
  <2>2. rsp \in Pointer /\ ReturnTo(t, yields[t] + 1) \in Words
    BY <2>1, PointsInside, WordsAre
  <2>3. \A r \in SavedByCallee : cpu'[r] \in Words
    BY Names DEF WordsOnly, SavedByCallee
  <2>. QED
    BY <1>5, <2>2, <2>3 DEF Contexts, Context
<1>7. KeptNow' = [KeptNow EXCEPT ![t] = KeptNow'[t]]
  BY <1>4 DEF KeptNow
<1>8. KeptNow'[t] \in Contexts /\ next(t) \in TaskSet \ {t}
  BY <1>6, Tasks2 DEF KeptNow
<1>. QED
  BY <1>1, <1>3, <1>7, <1>8 DEF Promise!Yield, KeptNow

\* What ret leaves in the CPU is what the next task kept.
LEMMA ResumesWhole ==
  ASSUME SwitchInv, SwitchInv', ret
  PROVE  Promise!Resume
<1> DEFINE t == runningTask
<1>1. /\ step = "ret" /\ step' = "task" /\ UNCHANGED <<runningTask, regs, yields, held>>
      /\ t \in TaskSet /\ yields[t] \in Nat
  BY DEF ret, At, SwitchInv, Shapes
<1>2. Saved(t) /\ rsp = Inside(t, 1) /\ Top = regs[t]["rip"] /\ To = t
  BY <1>1, FromTo DEF SwitchInv, Loading
<1>3. cpu'["rip"] = regs[t]["rip"] /\ rsp' = regs[t]["rsp"]
  <2>1. rsp' = Inside(t, 0)
    BY <1>1, <1>2, Tasks2 DEF ret, Inside
  <2>2. cpu'["rip"] = Top
    BY Names DEF ret, SwitchInv, Shapes
  <2>. QED
    BY <1>2, <2>1, <2>2 DEF Saved
<1>4. \A r \in SavedByCallee : cpu'[r] = regs[t][r]
  <2>1. \A r \in SavedByCallee : cpu[r] = regs[t][r]
    BY <1>1 DEF SwitchInv, Loading, SavedByCallee
  <2>2. \A r \in SavedByCallee : cpu'[r] = cpu[r]
    BY Names DEF ret, SwitchInv, Shapes, SavedByCallee
  <2>. QED
    BY <2>1, <2>2
<1>5. OnCpu = << >> /\ OnCpu' = <<Context(regs[t]["rip"], regs[t]["rsp"], regs[t])>>
  BY <1>1, <1>3, <1>4 DEF OnCpu, Context
<1>6. KeptBy(t) = Context(regs[t]["rip"], regs[t]["rsp"], regs[t])
  <2>1. CASE yields[t] = 0
    BY <2>1 DEF KeptBy
  <2>2. CASE yields[t] > 0
    BY <1>2, <2>2 DEF KeptBy, Saved, Context
  <2>. QED
    BY <1>1, <2>1, <2>2
<1>7. KeptNow' = KeptNow /\ KeptNow[t] = KeptBy(t)
  BY <1>1, SameKept DEF KeptNow
<1>. QED
  BY <1>1, <1>5, <1>6, <1>7 DEF Promise!Resume, KeptNow

\* The other steps change nothing a task can tell.
LEMMA OthersStutter ==
  ASSUME SwitchInv,
         \/ Done \/ Interrupt \/ UNCHANGED vars
         \/ save \/ saveFlags \/ saveRip \/ load \/ loadFlags \/ loadRsp \/ loadRip
  PROVE  UNCHANGED <<runningTask, OnCpu, KeptNow>>
<1>1. UNCHANGED <<runningTask, yields, held>>
  BY DEF Done, Interrupt, vars, save, saveFlags, saveRip, load, loadFlags, loadRsp, loadRip
<1>2. OnCpu' = OnCpu
  <2>1. CASE Done \/ Interrupt \/ UNCHANGED vars
    BY <2>1 DEF Done, Interrupt, vars, OnCpu, Context, SwitchInv, Steps
  <2>2. CASE save \/ saveFlags \/ saveRip \/ load \/ loadFlags \/ loadRsp \/ loadRip
    BY <2>2 DEF save, saveFlags, saveRip, load, loadFlags, loadRsp, loadRip, At, OnCpu
  <2>. QED
    BY <2>1, <2>2
<1>3. ASSUME NEW t \in TaskSet, yields[t] = 0 PROVE regs'[t] = regs[t]
  <2>1. CASE save \/ saveFlags \/ saveRip
    <3>1. From = Suspended /\ yields[Suspended] > 0
      BY <2>1, FromTo DEF save, saveFlags, saveRip, At, SwitchInv, Saving
    <3>2. t # From
      BY <1>3, <3>1
    <3>. QED
      BY <2>1, <3>2 DEF save, saveFlags, saveRip, SwitchInv, Shapes
  <2>2. CASE ~(save \/ saveFlags \/ saveRip)
    BY <2>2 DEF Done, Interrupt, vars, load, loadFlags, loadRsp, loadRip
  <2>. QED
    BY <2>1, <2>2
<1>. QED
  BY <1>1, <1>2, <1>3, SameKept

\* For every number of calls, every depth of the stacks and interrupts between any two
\* instructions: all the instructions of switchTask are to the tasks one yield and one
\* return to what was kept (switch.asm:1).
THEOREM SwitchIsOneStep == Spec => SwitchesWhole
<1>1. Init => Promise!Init
  <2>. SUFFICES ASSUME Init PROVE Promise!Init
    OBVIOUS
  <2>1. SwitchInv /\ WordsOnly
    BY SwitchInit, WordsInit
  <2>2. \A r \in SavedByCallee \cup {"rip"} : cpu[r] \in Words
    BY <2>1, Names DEF WordsOnly, SavedByCallee
  <2>3. OnCpu = <<Context(cpu["rip"], rsp, cpu)>> /\ Context(cpu["rip"], rsp, cpu) \in Contexts
    BY <2>1, <2>2, PointsInside DEF Init, OnCpu, Context, Contexts
  <2>4. ASSUME NEW t \in TaskSet PROVE KeptBy(t) \in Contexts
    <3>1. \A r \in SavedByCallee \cup {"rip"} : regs[t][r] \in Words
      BY <2>1, Names DEF WordsOnly, SavedByCallee
    <3>. QED
      BY <2>1, <3>1 DEF Init, KeptBy, Context, Contexts, WordsOnly
  <2>. QED
    BY <2>3, <2>4 DEF Init, Promise!Init, TaskSet
<1>2. ASSUME SwitchInv, WordsOnly, SwitchInv', WordsOnly', [Next]_vars
      PROVE  [Promise!Next]_(Promise!coroutineVars)
  <2>1. CASE doIt \/ otherMain
    BY <1>2, <2>1, YieldsWhole, Tasks2 DEF doIt, otherMain, Promise!Next
  <2>2. CASE ret
    BY <1>2, <2>2, ResumesWhole DEF Promise!Next
  <2>3. CASE \/ Done \/ Interrupt \/ UNCHANGED vars
             \/ save \/ saveFlags \/ saveRip \/ load \/ loadFlags \/ loadRsp \/ loadRip
    BY <1>2, <2>3, OthersStutter DEF Promise!coroutineVars, KeptNow
  <2>. QED
    BY <1>2, <2>1, <2>2, <2>3 DEF Next, switchTask
<1>. QED
  BY <1>1, <1>2, SwitchInit, SwitchStep, WordsInit, WordsStep, PTL
     DEF Spec, SwitchesWhole, Promise!Spec
==============================================================================
