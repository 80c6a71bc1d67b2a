# MakenOS in TLA+

MakenOS is a small x86-64 kernel started by the Limine boot loader
(`src/README.md`, `src/kernel/`). It reads the ACPI tables, allocates physical
memory, reads a sector from an AHCI disk, lists an initial RAM disk, sets up
interrupts with both the 8259s and the APICs, switches once to a second task and
back, and halts in a loop in which interrupt handlers run. These modules model
the parts of it that keep state and can go wrong in ways a test boot in QEMU
would hardly show.

## Inventory

| Component | State it keeps | Operations | Interacts with |
|---|---|---|---|
| Physical memory allocator, `memory/pmm.c` | the header words inside the region itself; nothing else | `k_malloc` (recursive `b_malloc`), `k_free`, `setMemoryMap` | every caller of `k_malloc`: kernel, RAM disk, tasks, paging |
| 8259s, `devices/pic.c` | mask, request and in-service registers of two chips | `remapPIC`, `setMaskIRQ`, `clearMaskIRQ`, `enableAllIRQs`, `disableAllIRQs`, `sendEOIPIC` | PIT handler, `enableAPIC` |
| Local APIC, timer, PIT, `devices/apic.c`, `devices/pit.c` | APIC registers, `frequency` | `enableAPIC`, `enableAPICTimer`, `initPIT`, `PIT_sleep`, two handlers on one vector | 8259s, dispatch |
| I/O APIC and keyboard, `devices/ioapic.c` | redirection entries, `shift`, `caps_lock`, `ctrl` | `enableKeyboard`, `enableSerialCOM1`, `keyboardHandler` | 8042, local APIC, dispatch |
| Dispatch, `interrupts/` | descriptor table, `interrupt_handlers[256]` | `initIdt`, `registerInterruptHandler`, stubs, `irqHandler`, `exceptionHandler` | all handlers |
| Tasks, `process/` | two `Task`s, `runningTask`, two stacks | `createTask`, `initTasking`, `yield`, `switchTask` | interrupts, which use the running stack |
| AHCI, `devices/ahci.c` | port registers shared with the adapter, command list and tables in memory | `runCommand`, `findCMDSlot`, `portRebase`, `startCMD`, `stopCMD`, `probePort` | the adapter and drive, which run concurrently |
| ACPI tables, `interfaces/` | `madt` and seven arrays of pointers | `findHeader`, `initMADT`, `parseMADT`, `validateRSDPChecksum` | firmware's tables; `_start` reads the arrays |
| RAM disk and nodes, `filesystem/initrd.c`, `file.c` | image (edited in place), `root_nodes`, `root_dirents` | `initialise_initrd`, read, readdir, finddir | allocator; `_start` lists it into one buffer |
| Boot, `kernel.c` | the program counter | `_start` | everything |
| Paging, `memory/paging.c` | page tables, CR3, the processor's TLB | `initPML4`, `mapPage`, `allocateEntry`, `setPageTableEntry`, `flushTLB`, `getPhysicalAddress` | allocator; the processor, which walks the tables at any time |
| RAM file system, `filesystem/simplefs.c` | inode table, two bitmaps | `initRamFS`, `fopen`, `f_malloc`, `f_read`, `f_write` | allocator |
| PS/2 set-up, `devices/ps2.c` | the 8042's configuration byte, the keyboard's interrupt line | `initKeyboard`, `akeyboardHandler` | the 8042, which answers in its own time; 8259s |
| Serial port, `devices/serial.c` | registers and FIFOs of a 16550 | `initSerial`, `writeSerialString`, `readSerialString` | the line, in both directions |
| PCI, `devices/pci.c` | configuration space, I/O APIC registers | `checkAllBuses`, `checkDevice`, `enablePCIInterrupts` | I/O APIC, dispatch |
| Library, `lib/` | the caller's memory | `string.c`, `stdlib.c`, `printNumber` | everything |
| GDT, `heap.c`, `limine.h` | constants; nothing | | — |

Behaviours that are hard, and the properties that make each part correct:

* **Allocator.** There is no free list: whether a block is free is read off one
  word of it, which may just as well be another allocation's payload. Correct
  means memory handed out is nobody else's. It depends on the order of request
  sizes.
* **Interrupts.** Two timers share vector 32 but belong to different controllers,
  handlers are registered while interrupts already arrive, and each interrupt must
  be ended at the controller it came from. Correct means no controller is blocked
  for ever, no unset handler is called, the boot is not stopped in a `hlt`, and
  keys are read.
* **Task switch.** Sixteen registers saved and loaded by hand, on stacks that
  interrupts use between any two instructions. Correct means `yield` returns to
  its caller with its registers.
* **AHCI.** The driver polls registers the adapter changes; commands fail. Correct
  means a call that reports success moved what was asked, an error is the call's
  own, and calls return.
* **Paging.** `mapPage` changes tables the processor walks meanwhile, one store after
  the other, and takes new tables from an allocator with its own header word in them.
  Correct means no walk and no remembered walk of a mapped page leads elsewhere.
* **Drivers without waits.** The 8042 and the 16550 answer in their own time.
  Correct means a port is enabled only if its test passed, and bytes arrive, in order.
* **Boot tables, RAM disk, RAM file system, library.** Sequential, but full of indexes
  that must agree, of widths and of boundaries. Correct means every record is in its
  array, every file reads as its content, nothing is given out twice, and the string
  functions do what their callers take them to do.

`PROJECT.json` lists the hazards one by one, each at its line.

## Modules

| Module | Models | Extends / instantiates |
|---|---|---|
| `Allocator` | what callers of `k_malloc` rely on (abstract) | |
| `Pmm` | `pmm.c` | instance of `Allocator` as refinement target |
| `Pic` | 8259 registers and `pic.c` | used by `PicDriver`, `Boot` |
| `PicDriver` | both 8259s with handlers that end their interrupts | extends `Pic` |
| `Apic` | local APIC, I/O APIC and the register writes made to them | used by `Boot` |
| `Boot` | `kernel.c` 222–235 with everything it calls, and the interrupts | instances of `Pic` and `Apic` |
| `Coroutines` | what the callers of `yield` rely on (abstract) | |
| `Tasks` | `task.c`, `switch.asm` | instance of `Coroutines` as refinement target |
| `Ahci` | `ahci.c` with the adapter | |
| `Acpi` | the RSDP's checksums, `findHeader`, `parseMADT`, what `_start` reads of them | |
| `Initrd` | `initrd.c`, `file.c`, the listing loop of `_start` | |
| `Paging` | `paging.c` with the processor that walks the tables | |
| `SimpleFs` | `simplefs.c` | |
| `Strings` | `string.c`, `stdlib.c`, `printNumber` | |
| `Ps2` | `ps2.c` with the 8042 | |
| `Keyboard` | the modifier keys of `keyboardHandler` | |
| `Serial` | `serial.c` with the 16550 | |
| `Pci` | `pci.c`: the scan, and the routing of an interrupt in its two steps | |
| `MCPmm`, `MCBoot` | constants for TLC | extend `Pmm`, `Boot` |
| `MCDevices` | the five device drivers `PicDriver`, `Ps2`, `Keyboard`, `Serial`, `Pci` | extends them |
| `MCServices` | the five parts that run alone: `Acpi`, `Initrd`, `SimpleFs`, `Paging`, `Strings` | extends them |
| `PmmProofs`, `BootProofs`, `TasksProofs`, `AhciProofs`, `PagingProofs`, `StringsProofs` | theorems | extend the module they are about |
| `DeviceProofs` | theorems about `Pci`, `Keyboard`, `Serial`, `Ps2`, `PicDriver`, and about all five | extends `MCDevices` |
| `ServiceProofs` | theorems about `SimpleFs`, `Acpi`, `Initrd`, and about all five services | extends `MCServices`, `PagingProofs`, `StringsProofs` |

`MCDevices` and `MCServices` put parts side by side that share no variable: `part`
says which one a behaviour is about, and the others stay in their initial state. This
loses nothing, as no property relates two parts.

### Pmm

`mem` is the region as an array of words. The recursion of `b_malloc` is a
depth-first search whose stack of blocks still to search is `todo`; each step is
one call: `Take` (allocate here), `Split` (search the halves), `Fail` (return
`NULL`). `live` and `freed` are history. `k_free` is `Free`, with its length
taken as bytes while the header counts words; `HolderWrite` is a caller storing
into memory it holds. The region may start dirty (`DirtyWords`).

`Length` is the number `b_malloc` is given. The code passes a length in bytes
where words are counted, so in the kernel the tree can reach past the region; the
repository does not say which unit is meant, and the model takes the number as it
is.

Three specifications differ in what callers do: `MallocSpec` (only allocate, any
sizes), `Spec` (allocate, free, write), and `MonotoneSpec` (like `Spec`, but no
request is smaller than what was handed out before). The last is the discipline
under which the allocator is correct; `LiveDisjoint` fails without it.

### Pic, PicDriver, Apic, Boot

A register is the set of its 1 bits. `Pic` has the 8259's behaviour (priority,
cascade, edges, non-specific end of interrupt) next to one operator per function
of `pic.c`; `Apic` has the same for the two APICs. `Boot` composes them: the main
program is `pc` over the list `Steps`, an interrupt is a `frame` that goes through
the stub, the handler and `iretq`, and devices raise lines at any moment.
`PIT_callback` always ends line 0 (`pit.c:11`), the line it serves. `PicDriver`
has handlers of other lines as well, each taken to end its own through `sendEOIPIC`.

Assumed of the platform: the boot loader hands over with interrupts off, 8259
lines but the cascade masked, I/O APIC pins masked, and LINT0 passing 8259
interrupts through; an edge on a masked I/O APIC pin is lost; the value 0x60000 of
the timer entry makes it periodic, as it does in QEMU; timers expire again and
again. Counts and rates of the timers are not modelled.

Fairness: weak for the devices that never stop (`PITTick`, `TimerExpires`,
`KeyReady`) and for `HandlerStep`, because a handler runs with interrupts disabled
and contains no loop. Strong for `TakePIC`, `TakeAPIC` and `MainStep`: each of
them is disabled again and again by the other two, and the CPU does take a pending
interrupt at an instruction boundary and does execute the main program between
handlers, which are far shorter than a tick.

### Tasks

A word is where it came from (a task's register at its n-th `yield`, a return
address, junk), so that a register loaded from the wrong slot is seen. The
instructions of `switchTask` are grouped into eight actions, cut wherever `rsp`
or what lies around it changes; `Interrupt` overwrites everything below `rsp`
between any two of them, and may leave the next word alone because the CPU aligns
its frame. `cr3` is the same for both tasks. `rflags` stands for the flags a caller
expects to survive; those of the last arithmetic are replaced by the addition that computes
`rsp` (`switch.asm:6`) before the flags are saved, as any call may do.
Fairness: weak on the CPU's own steps, as interrupts end.

`SwitchesWhole` relates this to `Coroutines`, in which a task yields in one step and
goes on in the next with what it kept. While a task computes, its context is what the
CPU holds (`OnCpu`); during `switchTask` there is none. What a task keeps (`KeptBy`) is
the return address of its last call, its `rsp` and the registers a C caller expects to
survive, or what `createTask` gave it before it first runs.

### Ahci

The driver's polling loops take one test per step, and the adapter's steps come
in between. `busyWait` keeps its counter with the limit 1000000 as `SpinLimit`.
The adapter follows the AHCI specification as far as the driver depends on it: it
processes `ci` bits while it runs, a failed command leaves its bit set, sets the
task-file error bit and stops the engine until `ST` is cleared. A PRDT entry has the
place in the caller's buffer it points to and its number of sectors. `prdtl` has 16 bits,
so counts that need more entries are excluded (`AhciAssumption`). `portRebase` may
be called after a failure, but need not be (`kernel.c` never does). `FRE` and `FR`, which
start and stop the receiver of FISes along with `ST` and `CR`, are left out: they can
only make `portRebase` wait longer.
Fairness: weak on the driver and on the adapter; none on `portRebase`.

### Acpi, Initrd

`Acpi` first sums a descriptor's 36 bytes as `validateRSDPChecksum` does and sets the
result beside the two sums the ACPI specification asks for. A descriptor is any 36 bytes,
and `Kind` says what `ReadyIfValid` can promise of it: nothing of one of revision 2 with a
byte other than 0 in the upper half of the XSDT's address (`high`), where `acpi.c:40` drops
these bytes, rightly set or wrong; nor of one of revision 2 whose bytes differ in more than
one place from a valid one of that revision (`other`), as when a revision has become 2: no
sum can tell. It then reads one MADT record
per step. Records carry the offset at which they start and fill the table (`FillTable`).
A record of a type without a case leaves no step enabled, which is the code's
endless loop. The store of the first record that does not fit hits any entry of
another array, or none. `Initrd` has addresses, so that editing offsets in place and
reading through them is what the code does; the image's files may lie anywhere behind
the headers as long as they do not overlap (`LaidOut`). `buf` starts with zeros or with garbage,
and a string that has no NUL in `buf` may go on. k_malloc is taken to return zeroed
memory, as `Take` in `Pmm` does, which `strcpy` (it copies no NUL) depends on.
Fairness: weak on the parser, which is the only thing that runs.

### Paging

Each store of `mapPage` is a step: `allocateEntry` and `setFlags` store the flags,
`setAddress` the address; `flushTLB` ends the call. `Fill` is the processor, which
walks the tables for any page between any two of them and keeps the result until it is
told to forget it. A page is a path of four indices. The tables start as the boot loader
left them (`Boot`), a tree under what CR3 holds, with pages it mapped and large pages. The
code truncates the address k_malloc returns to a page, so the block's header, one word in
front of that address, may be any word of the table (`Headers`); the words in front of the
header belong to another block, and are taken to be 0 and to stay so. Without memory the
entry leads to frame 0 and the call stops there.

`mapPage` does not look whether an entry is a large page (`descend`). It then goes on in
that page as if it were a table, takes its words for entries, and may get to memory outside
the model (`"lost"`) or store into the boot loader's tables. `intoLarge` remembers that it
was called so, and `Translates` promises nothing from then on.

### SimpleFs

The table is an array of words, so that `f_write`, which copies over the pointers of
an inode and past them, can reach the next inode; `Mark` shifts an int of `IntBits`
bits. The bitmaps are sets. `f_read` copies block after block to the start of the same
buffer and one word further on in the inode, so that a read of several blocks leaves what
the last pointer that is not `NULL` gave: `ReadBack` says that these are the words last
written from there on, and that with one block and a first word other than 0 they are all
of them. Nothing in the kernel calls this file system yet, so any
order of its operations is allowed.

### Strings

One call of one function on a few bytes of memory that hold anything the caller may
have put there. Copying loops are functions from the number of rounds to the memory.
Numbers have a few bits so that all of them are tried, and `x` in `printNumber` has as
many bytes as the longest number has digits, as in the code; memory goes on behind it
(`RoomForNumbers`).

### Ps2, Keyboard

`Ps2` is `initKeyboard` by its lines. The controller's answer is a step of its own that
may come after the kernel has read the port, and a key may be pressed at any time:
the loops that would wait are commented out in the code. `disturbed` remembers that
something of the kind happened. `Keyboard` has five keys, the codes the 8042 keeps for
the handler, and next to each letter the form it should be printed in, computed from
the keys held when it was pressed.

### Serial

`initSerial` is one step per register written; the polling loops of the read and write
functions are guards. `Transmit` and `LineByte` are the 16550's own steps: a byte leaves
the transmitter (for the receiver in loopback mode), a byte comes in and is lost if the
FIFO is full. Any byte may come in, also one equal to the test byte while the test is
made: `initSerial` then takes it for its own, which is still on its way (`lookalike`), and
`heldRx` and `heldThr` are what the FIFOs held when it found the port working. Fairness:
weak on the driver and on `Transmit`, as in `SerialSpec`: the
kernel polls, and a 16550 sends what is in its FIFO. None on the other end of the line.

### Pci

`checkDevice` is one device of the scan. `enablePCIInterrupts` is called for any function,
again and again, and takes two steps: it routes the pin, and then registers the handler
(`registerInterruptHandler`). Numbers written to the I/O APIC's index register are bytes.
No property speaks of the routing: between the two steps the pin has no handler, and it is
the wrong pin, both with certainty.

## Runs

| Run | Question | Bounds | Result |
|---|---|---|---|
| `pmm_monotone` | do callers with growing requests get disjoint memory, and is the promise of `Allocator` kept? | 10 words, leaves of 2, sizes 1, 2, 5, three dirty words | holds |
| `pmm_any_order` | what holds whatever the order? | 25 words (odd halves at two levels), five sizes up to 11 | holds |
| `pmm_overlap` | are live allocations disjoint in any order? | 16 words, sizes 5 then 1 | violated |
| `devices` | is anything left in service in an 8259, is a masked line served, is a PS/2 port enabled untested, a letter printed wrongly, a serial byte lost, a PCI function missed? | five 8259 lines around the chips' boundary; four configuration bytes; six presses and releases; FIFOs of 2, three bytes in, one of them like the test byte, two calls; 2 buses of 2 devices of 3 functions | holds |
| `boot_kernel` | does the kernel boot, keep both timers alive and read keys? | 10 Hz and 1000 Hz, 3 ms, two keys | holds |
| `boot_null_call` | can a key arrive before its handler is set? | two keys around `enableKeyboard` | violated |
| `tasks_kernel` | does `yield` return to its caller intact, does a suspended task stay as it was, and is the promise of `Coroutines` kept? | two `doIt`s, stacks of 5 words | holds |
| `ahci_commands` | do calls return, report their own errors and move what they say? | 3 calls, 2 errors, counts 1, 15, 16, 17, 128, 3 slots, 2 polls | holds |
| `ahci_long_read` | does success mean all sectors moved? | one call of 17 sectors | violated |
| `ahci_no_recovery` | does every call return? | two calls, one error | violated |
| `services` | is every ACPI record in its array, does a file read and print as its content, is nothing of the RAM file system given twice, do mapped pages lead where they should, does the library do what it is called for? | tables of up to 3 records, arrays of 2; two files of up to 3 bytes, buffer of 2; 2 inodes, ints of 3 bits, bitmaps of 5; four pages, one of them in a large page, two kinds of flags, five blocks, five frames the boot loader left; 5 bytes of memory, numbers below 1024 | holds |
| `paging_flags` | is a page mapped with bits 0 and 1 present and writable? | as `services` | violated |

Why the bounds are enough: the allocator's tree has every kind of block (odd and
even, leaf, halved, taken whole) with three levels; the 8259 lines are the first
and last of each chip and one inside; each loop of `runCommand` is passed,
repeated and left; the counts are on both sides of one and of eight PRDT entries;
two tasks are all there are, and a third switch adds nothing but a larger index;
an array of two entries is overrun by a table of three records; two files are
enough for duplicate names and for one file to be printed after another. A FIFO of
two bytes is filled and overrun by a message of three; the int of three bits fills
before the five bits of its bitmap do. One page is mapped already by the boot loader, to
the frame of one of its own tables, one lies in its large page, whose first words look
like an entry, and two share a new second table and part at the third; a table that is
found not present is made anew until the five blocks run out, their headers are at either
word of a table or at none, and frame 33 is past the width of the shift. The numbers of
the library have up to four digits, one more than `x` holds with its NUL.
`CHECK_DEADLOCK FALSE` appears where the program really stops: the callers of
the allocator, the drivers, the file systems or the library have no calls left, the
tables are listed or the parser loops, `mapPage` found no memory, or a task has
returned to garbage.

## What the runs show

`GivenDisjoint` in `pmm_monotone` says more than the absence of overlap: since
`k_free` leaves the header, no word is handed out twice at all. `pmm_any_order`
shows that headers survive any order of requests, also where payloads overlap. It has no
`k_free` and no holder that writes; with them headers survive if no request is smaller than
what was handed out before, which is proved (`GrowingRequests`).

`NeverBothBlocked` is the reason the kernel works although each of the two
handlers of vector 32 ends the other controller's interrupts for a while: between
handlers at most one controller is blocked, and the other's next interrupt
unblocks a blocked local APIC. The 8259 that is blocked at the end stays blocked,
which nobody notices.

`ReportsItsOwn`, `IssuesWhole` and `RecoveredCallsReturn` are the parts of the disk
driver's promise that hold: transfers of at most 16 sectors are moved whole, an error
is the call's own, and calls return on a port that was rebased after every failure.

`SuspendedIntact` is about the task that does not run: nothing the other task or an interrupt
does reaches its `Registers`, and they are what it held at its call, not half of that.

`Translates` is the reason the order of the two stores in `setPageTableEntry` does not
matter: the processor may follow an entry with new flags and the old address, but what
it remembers of that is gone when `mapPage` returns.

`EnabledIfTested` holds because the answers came in time, and says so: it is about the
runs in which none was late. `ReadyMeansNormal` is the other way round: a port that
`initSerial` found working is set up in order, but a working port need not be found so. Its
FIFOs were empty then, unless a byte of the line was taken for the test byte: what was in
them is read, or sent, first.

`KeysAreRead` is about keys that come when the kernel idles; what happens to one that comes
while `enableKeyboard` runs is the question of `boot_null_call`. `RecoveredCallsReturn`
does not say that a call returns the right answer: at the last poll it may not.

### Known divergences

With a run, under "findings" in `PROJECT.json`: overlapping allocations
(`pmm.c:91`), the call of an unset handler (`isr.c:42`), long transfers
(`ahci.c:212`), no recovery after an error (`ahci.c:231`), page flags read one bit too
high (`paging.c:30`).

Seen while modelling, without a run of their own. In code the models cover:

* `k_free` never makes memory available again, so a long sequence of `k_malloc` and
  `k_free` exhausts the region (`pmm.c:116`); the region's length in bytes is used as
  a number of words (`pmm.c:113`); `k_malloc(0)` writes a header of 0 and returns a
  block that still counts as free (`pmm.c:92`); a request larger than the region
  is answered with the region's base when that is free (`pmm.c:91`).
* `PIT_sleep(10)` at 10 Hz returns at once (`pit.c:44`), and any interrupt counts
  as a tick. `initPIT` unmasks line 0 of the PIC that `enableAPIC` disabled
  (`pit.c:37`).
* `clearMaskIRQ` of a line of the second 8259 leaves the cascade line masked
  (`pic.c:58`).
* A key pressed before `enableKeyboard` leaves the 8042 full; its edge is lost and
  no key is ever read (`ioapic.c:84`).
* A port that becomes ready at the last poll is reported as hung (`ahci.c:221`);
  129 sectors or more overrun the command table (`ahci.c:169`).
* `switchTask` loads the saved `rcx` into `rax` (`switch.asm:55`); both are
  caller-saved, so C code does not notice.
* `parseMADT` loops for ever on a record type it has no case for (`madt.c:31`). A
  descriptor with an XSDT above 4 GiB fails its checksum, and a wrong byte in the upper
  half of the XSDT's address goes unnoticed (`acpi.c:40`).
* What the stack held can follow the text of the first file listed
  (`kernel.c:202`).
* `getPhysicalAddress` loses the bits of an address from 2^40 on (`paging.c:57`). The
  header of a table's block is one of its entries (`paging.c:62`), so a page with that index
  is mapped over it, and the block's header is gone.
* `mapPage` called for a page in a large page of the boot loader takes that page's contents
  for a table: it reads entries there and stores into them (`paging.c:81` to `93`).
* The root directory's inode is the first one `fopen` gives out (`simplefs.c:14`). Bits
  32 to 55 of `dnode_bitmap` are never given (`simplefs.c:56`), and the bit of a block
  stays set when `k_malloc` has none (`simplefs.c:57`). `f_read` of several blocks copies
  each of them over the one before (`simplefs.c:45`), and `f_write` checks no length: past
  the end of an inode it writes into the next (`simplefs.c:33`).
* `printNumber` stores the NUL of a number of 20 digits past its buffer
  (`print.c:10`).
* An untested second PS/2 port can be left enabled, as line 209 of `ps2.c` looks at
  the clock of port 1. `akeyboardHandler` ends interrupt 12 only, so the keyboard's own
  stays in service (`ps2.c:171`).
* A serial port whose test byte is read too early stays in loopback mode, and the
  kernel goes on as if it worked (`serial.c:29`, `ioapic.c:91`). A byte of the line equal
  to 174 passes for the test byte; that one is then sent on the line, or read, as if it were
  data (`serial.c:29`). `readSerialString`
  leaves every other byte of its buffer as it was (`serial.c:61`).
* The two shift keys share a flag (`ioapic.c:56`).
* A PCI interrupt is routed to twice the minimum grant plus 16 instead of to the
  interrupt line (`pci.c:84`), and before its handler is registered (`pci.c:88`).

Outside the models:

* `pciInterruptHandler` (`pci.c:77`) and `serialInterruptHandler` (`serial.c:7`) never
  end their interrupt; `checkMSI` reads its words at the wrong offsets (`pci.c:94`).
* `initIdt` leaves vector 255, the spurious vector of the local APIC, without a gate
  (`idt.c:31`).
* `createTask` does not check `k_malloc`'s result (`task.c:38`).
* A count of 0 sectors (`ahci.c:169`): whether the PRDT loop then runs depends on how
  the compiler promotes `prdtl - 1`.

## Proofs

A theorem is for every value of the constants that satisfies the module's named
assumption; the runs check the same formulas on their instances.

**`PmmProofs`**, under `RequestsFit` (every request is at least 1 and fits the region;
the first excludes a header of 0, the second the oversize case above) and
`PmmAssumption`:

* `AnyOrder`, `InsideItsBlock`, `ZeroMeansFree`: `MallocSpec` implies always `TypeOK`
  and `HeadersIntact`, `FitsBlock`, `ZeroHeaderFree`;
* `GrowingRequests`: `MonotoneSpec` implies always `GivenDisjoint` and
  `HeadersIntact`;
* `Refinement`: `MonotoneSpec` implements `Allocator`;
* `BlocksInRegion`: `MonotoneSpec` implies always `TypeOK`, whatever the callers free and
  write.

None of these is inductive by itself. The argument: the blocks the search can
reach form a laminar tree, so two of them are nested or disjoint (`Laminar`, from
the induction `TreeInduction` over levels). The inductive invariant says that
allocations are cut from blocks of the tree, that `todo` lists disjoint blocks
from left to right, and that a block with a zero header has no allocation starting
in it, because a left half is searched before its right half and the headers along
a path of left halves share one address. For growing requests it adds that a
block which holds an allocation is not entered: the search stops at blocks whose
half is too short for the request, and those are no longer than the blocks taken
by smaller requests. Disjointness then follows from laminarity, and the refinement
step for `Take` from disjointness.

**`BootProofs`**: `OneControllerRuns` (`NeverBothBlocked`) for every frequency, sleep
and time of the keys. The invariant (`BootInv`) says that only the tick's line of the
8259s is unmasked, that each vector has one of its own handlers, and that an interrupt
in progress was taken from a controller that was not blocked; whichever handler
vector 32 has then ends the interrupt of one of the two. `BootTypes` (`TypeOK`) adds that
the keys read and those in the 8042 are among the keys pressed.

**`TasksProofs`**: `YieldReturns` (`ReturnsToCaller`), `SuspendedKept`
(`SuspendedIntact`) and `OtherStays` (`NeverReturnsFromOther`) for every number of
calls and every depth of the stacks above four words. The properties speak of a task
between two switches; the invariant (`SwitchInv`) says for every instruction of the
switch what has been saved of the task that leaves (`Saving`) and loaded of the one
that comes (`Loading`). The only word of a stack it needs is the one `rsp` points to,
which an interrupt leaves alone. `WordsTyped` (`TypeOK`) needs to know where `rsp` points
at every instruction of the switch. `SwitchIsOneStep` (`SwitchesWhole`) is the refinement:
a call of `yield` maps to `Yield` (`YieldsWhole`), `ret` to `Resume` (`ResumesWhole`), and
every other instruction and every interrupt to a stutter (`OthersStutter`), since the
`Registers` of a task change only after its own `yield`.

**`AhciProofs`**: `PortTypes` (`TypeOK`) and `OwnResult` (`ReportsItsOwn`) for every
number of slots, polls, calls and errors. The invariant says that unless the adapter
has halted, the only command in `ci` is the one the running call waits for, so that
what the adapter completes or fails is that command; and that a halted adapter changes
nothing until `portRebase` has cleared `ci`. `WholeBuffer` (`IssuesWhole`) is for every
count whose entries fit `prdtl`: entry by entry, 16 sectors and then the rest, the PRDT
describes the buffer with no gap and no overlap (`PrdtWhole`).

**`PagingProofs`**: `PagesTranslate` (`Translates`) for every set of pages, frames and
flags, every tree of tables the boot loader left and every number of blocks. The invariant
(`PagingInv`) says that two pages meet in a table only if their paths agree above it
(`Ways`): so it is in the boot loader's tables, and `mapPage` points an entry only to a
block `k_malloc` has just given. The entry being set is then the only one on which
tables and calls disagree (`Progress`, `NewBlock`), and no mapped page needs it: a page
that shares it was there when it was found present, and a present entry is left alone.
The boot loader's tables are assumed to be a tree (`BootTree`); the pages of the argument
are those outside its large pages (`Small`). The whole invariant is `PagingIInv`: shapes that hold in any case
(`PagingShapes`), and `PagingInv` as long as `intoLarge` is false.

**`DeviceProofs`**, one part after the other:

* `EveryFunctionRead` (`ScanReadsAll`): what lies behind the scan (`Behind`) has been
  probed, given that a function above 0 has a function 0 that says the device has several.
* `LettersAsTyped` (`PrintedAsTyped`): the codes still in the 8042 are explained by a
  history of modifier keys (`Explains`) that starts with the handler's three variables
  and ends with the keys held now; reading a code takes the first step of that history.
* `WorkingMeansNormal` (`ReadyMeansNormal`) and `BytesInOrder` (`KeepsOrder`): the
  registers follow from the number of writes made (`Registers`). Until the test is over the
  test byte is in one FIFO at most, and a first byte equal to it is the test byte itself
  unless such a byte came in (`InTest`); since then each byte is, in order, among those
  that were held, taken, or still in a FIFO (`SinceTest`), or stored at the next place
  of the reader's buffer.
* `EnabledOnlyIfTested` (`EnabledIfTested`): unless an answer was late, the 8042 waits
  for what the next line sends it (`InStep`), and the configuration byte and the ports
  are set up as far as the line reached says (`SetUpSoFar`).
* `NothingBlocked` (`NothingLeftInService` and the types) and `MaskedNotServed`
  (`OnlyEnabledServed`) for every set of devices: what is in service is exactly what the
  running handler was given, in one chip or in both, and the masks agree with `enabled`
  (`DriverInv`); the end of interrupt then clears all of it.
* `DeviceTypes` (`DevicesTypeOK`): the types of all five drivers in `MCDevices`, where a
  step of one leaves the others alone (`StepOfEach`). It needs of the serial driver that
  a byte is only put into a FIFO with room for it, and that what was read so far ends
  inside the buffer.

**`ServiceProofs`**, one part after the other:

* `NothingTwice` (`GivenOnce`) and `ReadsWhatWasWritten` (`ReadBack`) for every size of
  the tables, of an int and of the data, as long as a write is no longer than an inode
  (`SimpleFsAssumption`). Both bitmaps are filled from bit 0 on, so the first clear bit
  is the number of bits given; a write to an inode stays between its block and the next
  inode's. What a read of several blocks leaves starts at the greatest index whose pointer
  is not `NULL` (`Greatest`).
* `ReadyMeansValid` (`ReadyIfValid`) for every set of descriptors: where the upper half of the
  XSDT's address is 0 the kernel's sum is the whole sum, and one wrong byte changes it by
  less than 256, so its low byte too. It says nothing of the descriptors `Kind` calls `high`
  and `other`.
* `RecordsCollected` (`Collected`): `length` is always the start of a record or the end of
  the table, and `found` counts the records of each type before it (`AcpiInv`); records
  grow, so those are a prefix of the records of the type.
* `FilesReadByName` (`FilesByName`), `TextPrinted` (`PrintsText`): the edited headers
  and the nodes name the files' own bytes, an address lies in one file at most, the lookup
  gives the first node of a name, and `buf` is NUL throughout from the first file on that
  was printed and cleared.
* `ServiceTypes` (`ServicesTypeOK`): the types of all five services in `MCServices`
  (`TypesInv`). For paging they need the shapes of tables and stages (`PagingShapes`), for the
  RAM file system that blocks come from the heap
  (`HeapLeft`), for the RAM disk that the node looked at is one that was made
  (`NodeKnown`), and for the library that every result is a difference of two chars or
  an address (`LibTypesKept`).

**`StringsProofs`**: `LibraryKept` (`LibraryContract`) for every content of memory, every
argument and every width of the numbers, as long as memory has room for the digits of a
number, its sign and the NUL (`RoomForNumbers`). The loops are recursive functions, and
what they compute is proved from the least element instead of by induction (`Least`):
there is no first round, and no least number, at which it goes wrong. `ForwardMoves` and
`BackwardMoves` say which overlaps either direction of a copy survives; `SameBytes` that
comparing up to the NUL of the shorter string is comparing the strings; `DigitsRead` that
the digits of a number, read from the last one stored, are the number again; and
`NumberStored` that `reverse` leaves them in that order, behind the sign.

Only model-checked are the liveness properties (`Boots`, `KeysAreRead`, `TimerServed`,
`MainComesBack`, `RecoveredCallsReturn`, `ListsAPICs`, `WritesEnd`), since the prover does
not handle fairness. Every other property that holds in a run is a theorem.

## Not modelled

* The GDT (`initGDT` is called by nothing and writes constants), `heap.c` (a stub) and
  `limine.h` (vendored).
* The exception stubs and `exceptionHandler`, which print and stop.
* `enableACPI`, `validateSDTChecksum`, `copyToStatus`, `writePS2RAM` and
  `pulseOutputLines`, which nothing calls; `sfs.h` and `vfs.h`, which nothing includes.
* `checkMSI`, `readIOREDTBLs`, `probePort` and `checkType`, which read and print.
* Interrupts of the serial port and the PCI functions: `initSerial` leaves the first
  off, and nothing makes a PCI function raise the second.
* The rate the APIC timer is calibrated to, and the text that is printed, except where
  a property is about it.

## Plan

The order was: the allocator first, because everything uses it; then interrupts, the
behaviour with the most interleavings; tasks; the disk; the boot-time tables; then
paging, the RAM file system, the remaining drivers and the library; and the proofs of
what those do in every order. Left, once the code calls for it:

1. A machine with both an AHCI error and a task switch in between: `runCommand` is
   called once and by one task today, so nothing is gained before that changes.
2. The exception handlers, once one of them returns.
