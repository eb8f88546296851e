# A TLA+ verification project for seccamp-os

seccamp-os is a small 64-bit kernel: it draws characters on a frame buffer,
reads a PS/2 keyboard through IRQ 1, runs a shell with the commands `echo`,
`lspci`, `mmap` and `xhci`, scans the PCI buses, and talks to an xHCI (USB 3)
host controller. There is one processor, one thread of control, one interrupt
handler, and no memory protection. This directory models the parts that have
state worth reasoning about, checks them with TLC on small instances, and
proves the most important results with TLAPS for every value of the constants.

## Inventory

| Component | State | Operations | Interaction |
|---|---|---|---|
| `ArrayQueue` (queue.hpp) | `data_`, `read_pos_`, `write_pos_`, `count_` | Push, Pop, Count, Front | shared by handler and loop |
| `SpinLockMutex` (mutex.hpp, asmfunc.s) | `flag_` | Lock, TryLock, Unlock | CompareExchange, LFencedWrite |
| keyboard path (main.cpp) | `keydat`, `keydat_mutex`, `num_lostkey`, the locals of the loop | Inthandler21, the loop of MyMain | interrupt, shared memory, hlt |
| interrupt stub (inthandler.s) | the registers | AsmInthandler21 | runs inside anything |
| `DebugConsole` (debug_console.cpp, graphics.cpp) | cursor, screen | PutChar, PutStr | called by the shell and by `printf` |
| `DebugShell` (debug_console.cpp) | `cur_`, `buf_` | PutChar | called by the loop and with `auto_cmd`; calls Exec |
| tokenizer (`DebugShell::Exec`) | `s`, `argc`, `argv` | one loop | calls a command |
| PCI scan (pci.cpp, command.cpp) | `pci_devices`, the recursion | ScanAllBus, Scan, ScanDev, ScanFunc | callback of lspci and xhci |
| PCI BARs (pci.cpp) | registers of a device | ReadBar, WriteBar32/64, CalcBarMapSize | configuration space |
| event ring (xhci_er.hpp) | `producer_cycle_`, `erst_index_`, ERDP, segments | Initialize, HasFront, Front, Pop | memory shared with the controller |
| command `xhci` (command.cpp, xhci.cpp) | `cr_buf`, its place in the slot loop | Xhci | doorbell, CRCR, event ring |
| search and capabilities (command.cpp, pci.cpp) | the index found, `cap_ptr` | the searches of lspci and xhci, the walk of lspci | read the table and the configuration space |
| interrupt descriptor table (desctable.cpp) | entry 0x21 | SetIDTEntry | used by the processor for IRQ 1 |
| PIC and keyboard controller set-up (main.cpp) | masks, vectors, mode | init_pic, wait_KBC_sendready, init_keyboard | port I/O, with interrupts on |
| boot (`MyMain` up to its loop) | where it is | pixel format, IDT, auto_cmd, PIC, KBC, in this order | calls all of these, and `xhci` on the way |
| `echo`, `mmap`, the printing of `lspci` | none | | read only |
| libc glue, memory, ELF | written once | | |

What is hard here: an interrupt between any two instructions of the loop, with
a lock that must never be waited for on the only processor; a sleeping `hlt`;
bounded buffers; a screen that does not scroll; a tokenizer full of boundary
tests; recursion and a list walk over hardware data; a controller that shares two
rings with the program; and a start during which keys can already be struck. `PROJECT.json` lists each hazard at its line with the properties
that would catch it; where the code goes wrong and nothing promises otherwise, a note
says what the model has of it instead.

## Modules

- `ArrayQueue`: the class as action predicates over its members; `Push(v, err)`
  and `Pop(err)` give the error code. `TakeFront(loaded)` is the second half of
  Pop, so that a client can put the read of `count_` and its write in two steps.
  `BoundedFifo` is the abstract queue, `QueueClient` a single client (as in
  test/test_queue.cpp) that remembers what the error codes told it (`items`).
  `ContentsAgree` compares that memory with the ring; the refinement `IsFifo` does
  without it: the abstract queue is what the ring holds, read from `read_pos` over the
  wrap (`Contents`), as it is for the channel of `Keyboard`.
- `Mutex`: the lock over the word `flag`. `SpinLock` runs incrementer() of
  test/test_mutex.cpp in several threads on x86: `buf[t]` is the store buffer of
  the processor of `t`, `Drain` its way to memory. A compare-exchange that finds the
  lock taken changes nothing and is tried again (`SpinAgain`). `AtomicCounter` is the
  abstract specification.
- `Keyboard`: the composition of `ArrayQueue` and `Mutex` with the handler
  (`isr`) and the loop (`pc`). One action is one call or one test; Pop is two,
  because Push can come between; the locals are `key`, `shifted`, `ascii`.
  `KeyChannel` is its abstract specification: a bounded channel and a hand.
  History variables (`dropped`, `down`, `sure`, `stamps`, `stamp`) remember what
  was struck; no guard reads them.
- `TrapFrame`: the three instructions of CompareExchange with the interrupt
  stub between them.
- `DebugConsole`: the methods as functions from console to console; a cell is
  the set of glyphs drawn in it and not wiped. `DebugShell` is the line editor;
  what a command prints is any of `Outputs`; `given` is the string of C that the last
  Enter gave to Exec, that is `buf_` up to its first 0. `LineEditor` is its abstract
  specification: a sequence that grows, loses its last character or is given to Exec as
  a whole; at `Capacity` characters it takes nothing more, newline and backspace
  included.
- `CommandLine`: the loop of Exec, one action per loop body or test; `argv` holds
  indices of `s`, the copy of the line. Its specification is `ExecSpec`, so that one
  module can hold the proofs about it and about `DebugShell`.
- `PciScan`: the scan with its recursion as an explicit `stack` of frames, one
  frame per Scan that is active; the configuration space is a constant choice.
- `PciCommands` EXTENDS it with the commands that use the table: they fill it
  (`FillTable`), search it (`Find`), and lspci with a location walks along the
  capabilities (`Walk`). `xhci`, once it has found a controller, goes on with it: that is
  the stage "xhci", from which it may come back (`XhciReturn`) or not. `caps` holds, of each function, the first pointer and the
  second byte of every word; a pointer loses its low two bits when it becomes an
  address, but ends the loop only if it is 0 as a whole.
- `PciDevice`: words are sets of bit numbers; the device keeps the bits that
  cannot be written.
- `EventRing`: the Manager and, as an external part, the controller that writes
  events; `XhciCommand` EXTENDS it with the command, its command ring and the
  part of the controller that executes commands. `NoController` is the command
  on a machine without one.
- `Boot` EXTENDS that with MyMain: each port write of `init_pic` and
  `init_keyboard` and each word of the descriptor is a step, and the command that
  `auto_cmd` runs is `XhciCommand` itself. The hardware is external: `Written` is
  a PIC after a write (which register the second port means depends on how far
  the initialisation has got), `KbcTake` the keyboard controller, `Irq1` the
  processor's dispatch, `Strike` a key.

The modules `MC...` hold constants for TLC; a run without one checks the component's
module itself. The modules `...Proofs`, and `ArrayQueueLemmas`, hold the proofs. A
definition marked `Mutant:` is a plausible bug of the definition after it; no specification
uses it, each stands for the question whether a property would notice.

Code that is not in the repository is modelled as the code relies on it and is
marked external in the map: the store buffers, the bits a PCI device keeps,
the firmware's numbering of the buses, the xHCI controller, the PICs, the keyboard
controller and the dispatch of interrupts.

## Runs, bounds and what they show

| Run | Bounds | Shows |
|---|---|---|
| QueueClient | N = 4, two values | every wrap of a ring with more than one slot between the ends; order, count, the ring as a FIFO queue |
| QueueUninit | any storage | violation: `count_` is not initialised |
| SpinLock | 3 threads, 2 iterations | exclusion and publication with store buffers, atomicity, termination |
| Keyboard | N = 2, one letter, shift pressed and released (42, 182) | all interleavings of handler and loop, full and empty queue, decoding, commands that never return |
| LostKeys | N = 2 | violation: codes dropped by a full queue are not counted |
| TrapFrame | three words | violation: the stub saves no registers |
| DebugShell | 3 x 3 cells, lines of 6 | wrapping, the end of the screen, a full line; outputs that wrap; lines after longer and after erased ones |
| CommandLine | lines of up to 6 characters | blanks before, between, after, several, alone |
| PciCommands | 3 buses, 2 devices, 3 functions, 2 commands; every list of capabilities over 4 words | nested bridges, holes, a multi-function host bridge, the second command; what is found; an `xhci` that does not return; lists with circles, dead ends, pointers that are no multiple of four |
| PciDevice | 3 BARs, words of 5 bits | 32 and 64 bit memory, I/O, nothing, the last BAR; every value and size |
| EventRing | segments of 2, 1 and 2 entries | wraps across segments, several turns, restart |
| Boot | 2 slots, 2 segments, 2 calls of `xhci` | a key struck at any point of the start; completions, port changes, a second call; the start reaches its loop |

Why these are enough. A ring shows all its boundary behaviour when it has slots
that are neither first nor last and has wrapped at least twice; runs are not
bounded in length except by `kMaxCount`, `MaxCommands` and `MaxCalls`. Three
threads are needed for a third party to overtake; two slots of the queue are
needed for order, and fullness is then two codes away. Three buses give a bridge
behind a bridge. Four words give a list that is longer than its shortest circle,
and one that uses every word. Two slots are enough for the second one to hang the
command, and two calls for the command ring to be used twice. Word widths: five bits hold the four flag bits and one address
bit, and two words give a window of each size. The proofs below remove the bounds
for what they cover. Where a counter of the code has a width the model keeps it
finite: `SizeT` for `size_t`, `UIntMod` for `num_lostkey`.

The run DebugShell has no bound on the number of lines; on its small screen every
prompt can be the one at the bottom. Deadlock is checked, except where the
program may stop: all threads done (SpinLock), the tokenizer returned
(CommandLine), the commands all entered or `xhci` with its controller (PciCommands), the call returned
(TrapFrame), or MyMain returned, in its loop, or in a command that waits for an
event that never comes (Boot).

### The three violations

`QueueUninit`, `LostKeys` and `TrapFrame` check what the repository says of the
code and find it violated; `PROJECT.json` "findings" quotes the lines. The only
queue of the kernel is in static storage, and the registers a handler changes
are not those the loop needs at every point, so a running kernel can get by.

## Fairness

- `SpinLock`: weak fairness of every thread; the test's threads are scheduled by
  a preemptive system, and a store buffer drains. No fairness between the
  contenders is needed, since every thread does a finite number of iterations.
- `Keyboard`: weak fairness of the handler, which runs to its end; strong
  fairness of the steps of the loop (`LoopStep`), because an interrupt disables them for
  a moment again and again, and a keyboard is far slower than the processor. There is
  none for the return of `shell.PutChar` (`MainPutChar`): it executes commands, and `xhci`
  (command.cpp 222, 309, 319) or the walk of `lspci` over a circle (command.cpp 113) may
  never return. Nobody has to strike a key. `QueuedIsDecoded` says that a queued code is
  decoded or the loop stays in PutChar for ever. It has as a premise that keys keep
  being struck, which is the point: without it, a code that arrives just before `hlt`
  waits.
- `CommandLine`: weak fairness of the running program. `PciCommands`: the same for
  a command once it is entered, up to where `xhci` goes on with a controller it found;
  nobody has to enter one, and nothing says that `XhciReturn` happens.
- `Boot`: weak fairness of MyMain with the command that it runs, of the processor
  taking IRQ 1 when it is enabled, of the keyboard controller taking the bytes it
  is sent, and of the xHCI controller executing commands. Nobody has to strike a
  key, type a command or plug in a device, and the controller owes no other event.
- `DebugShell` has none: all its properties are about safety, and nobody has to type.

## What is proved

TLAPS checks, for every value of the constants that satisfies the named
assumptions:

- `QueueClientProofs` (with `ArrayQueueLemmas`): `TypeOK`, `CountAgrees` (which the
  run QueueUninit shows violated in other storage),
  `ContentsAgree` and the refinement of `BoundedFifo`, under `StorageCounts = {0}`,
  that is, for a queue in zeroed storage. The invariant is that the members are
  consistent and `Contents = items`; the refinement is of the ring itself, with
  `Contents` for the abstract queue. The lemmas `PushAppends` and
  `TakeDropsOldest` say what the ring spells after each operation, across the
  wrap, and `Keyboard` uses them again.
- `SpinLockProofs`: `MutualExclusion`, `ClearPublishes`, `TypeOK`, and the
  refinement of `AtomicCounter`, for any set of threads. Exclusion alone is not
  inductive: a thread that has left the critical section still owns the lock
  while its clear is in its store buffer. The invariant speaks of owners (in the
  section, or with a clear waiting), says that there is at most one, that the
  flag is set exactly if there is one, and what each buffer can look like at
  each place (`Shape`); only then is a drained clear known to be the last store.
  Two more results follow. `TestAsserts` is the last assertion of the test, for any
  finite number of threads: when all are through, the counter in memory is the
  number of threads times `kMaxCount`. It comes from the refinement, by counting the
  set of increments made (`Made`). `SomebodyGoes`: until then one of the threads can go on, so
  the lock is never left set.
- `KeyboardProofs`: `TypeOK`, `MutualExclusion`, `LoopNeverSpins`, `LossExcused`,
  `ShiftAtStroke`, and the refinement of `KeyChannel`. The invariant ties the flag to the places of
  both parties (`LockWord`), adds that a failed TryLock means the loop is in its
  critical section, what the loop knows of the count between its steps
  (`LoopKnows`), and that there is a stamp for each queued code. For
  `ShiftAtStroke` a second invariant (`SInv`) follows the shift state along the path: each
  stamp agrees with the one before it or belongs to a shift code (`Link`), from the
  decoder's `shifted` through the code in hand and the queue to the key that the
  handler holds.
- `ShellProofs`: of the shell `TypeOK`, `OneCursor`, `NoOverstrike` and `LineShown`, for
  screens of every size and every output of the commands. The invariant
  (`ShellInv`) says that the console is settled (at most one glyph in a cell, the
  cursor nowhere but in its place), that the cursor is drawn there, and that prompt and line
  stand before it unless the line ran over the end of the screen. What a command
  prints is a string of any length: that each character of it keeps the
  console settled is carried through the whole output by a least counterexample
  (`Upwards`, `PutsStays`). On top of it the refinement of `LineEditor`
  (`ShellIsEditor`): the 0 that Enter writes is the first one in `buf_` (`FirstZero`), so the
  string given to Exec is the typed line, all of it and nothing of an earlier one
  (`EnterGives`). Assumed are a row that is wider than the prompt,
  outputs that are empty or end in a newline, and no typed 0.
  Of the tokenizer `ExecTypeOK`, `WritesInside`, `ArgcBounded` and
  `ArgumentsAreWords`, for lines of any length. One invariant bounds `2 * argc` by the
  index, one unit more in a word. The other (`WordInv`) says what has been copied, and that
  every word that begins before the index has its argument, in order (`Found`). Every turn
  of the loops leaves fewer of them (`LoopComesCloser`), which is what termination
  rests on.
- `PciScanProofs`: `TypeOK` and `StackBounded`: the buses on the stack strictly
  increase, from the assumption that firmware numbers a bus higher than
  the bus of the bridge before it. `ReportedOnce`: what is in the table of a bus
  under scan lies behind its frame (`Passed`), and a bus gets a frame only when its
  one bridge is reported (`LedBy`). `ScanComplete`: every visible function of a bus
  that a scan was started on is in the table or ahead of a frame of that bus
  (`Covered`), no bus is scanned that bus 0 does not lead to (`WithinClosed`), and the
  step to the next slot skips nothing (`NextSlotSkips`). `ScanComesCloser`: each step of
  a scan leaves fewer slots to look at (those of buses nothing has led to
  yet, and those that the frames have not passed), and `ScanGoesOn`: as long as a scan is
  under way it has a step to take. With weak fairness this is why a scan ends.
  `CommandsKeepScan`:
  `PciCommands` implements the specification of `PciScan`, so all this holds there;
  on top of it `FindsReachable`, and `CapsShown`: the words shown are a path from
  the first capability, and a word that came back would close a circle (`NewWord`);
  for the same reason every round of the walk leaves fewer words
  (`WalkComesCloser`).
- `XhciProofs`: `TypeOK` and `FrontIsOldest` of `EventRing`, for any number and size of
  segments. The invariant says what the cycle bits are, phase by phase (`Bits`), that
  the cycle states of the two sides differ exactly while the controller is a turn
  ahead (`Turns`), and that the events that wait lie one after the other from the
  dequeue pointer on (`Chained`). `RingIsFifo`: between two calls of Initialize every
  step of the ring is one of `BoundedFifo` or leaves the queue alone, and what is
  taken is what Front showed. The ring holds one event less than it has entries, because the
  entries of a chain are all different (`ChainApart`, from the chain having an end) and
  none is the enqueue pointer. `BootKeepsRing`: the command and MyMain use the ring
  only as `EventRing` allows; `OwnCompletion`, from an invariant about the one command
  that is pending (`Pending`); `HandlerReady`, from what PIC 0 is set to at each
  write (`Lines`). Two theorems are the part of the liveness of the start that is not
  about fairness. `RequestIsKept`: in the loop, a code that was struck in time has its
  request latched at PIC 0, unmasked, its handler in place, or will have it when the keyboard
  controller takes the mode byte; the invariant says which bytes of init_keyboard are
  still on their way (`Told`) and that nothing but ICW1 and the handler takes a
  request back (`Latched`). `StartIsNotStuck`: with a halted controller and at most
  one slot in use, each wait of auto_cmd's `xhci` is over, or the controller can take
  the step it waits for, up to the room in the event ring for the completion; the
  invariant says how far the controller is at each place of the command (`FirstRun`).
- `PciDeviceProofs`: `TypeOK`, `BarsKept` and `SizeRight`, for any width and number of BARs. The
  invariant says what each register holds between the write of all ones and the
  restore, and that `bar` is what the firmware left, split as WriteBar64 will
  split it (`JoinSplit`). For `SizeRight` a second invariant (`SizeInv`) says that the size
  returned is the lowest bit of the mask that can be written, for the kind of
  BAR that the flag bits tell (`FlagTellsKind`); the lemmas on windows show that this bit
  is the window's size (`OnesTellSize`, `LowestIsSize`).

Every safety invariant and action property that the runs check is a theorem. Only
model-checked is the liveness (`Termination`, `HandlerReturns`,
`QueuedIsDecoded`, `Terminates`, `SearchEnds`, `KeyboardComesUp`, `CodeIsRead`), since the
prover knows neither fairness nor
ENABLED. Where a loop or a recursion has to end, the safe half of that is proved: a
quantity that each step makes smaller (`LoopComesCloser`, `ScanComesCloser`,
`WalkComesCloser`), and that there is a step to take (`ScanGoesOn`, `SomebodyGoes`,
`StartIsNotStuck`, `RequestIsKept`).

The library's induction theorems take a predicate as a parameter, which the
provers cannot instantiate. Where a proof goes by induction over a sequence (an
output, the words of a line, the entries of a chain) it takes instead the least element of
the set of counterexamples, with `NatLessThanWellFounded` and `WFMin`.

## Limits

- `Keyboard` takes the handler to give the loop its registers back. `TrapFrame`
  shows that the stub does not see to that. The rest of the project says
  what holds once it does.
- No line of the repository enables interrupts, and the loop needs them, so they
  are taken to be on from the beginning, with every line of the PICs masked by
  the firmware. Only IRQ 1 is modelled.
- The cursor is a glyph of its own, although on the screen it looks like a typed or
  printed underscore: `OneCursor` is about where DrawCursor drew. `LineShown` needs a row that is wider than the prompt, and
  outputs that end in a newline, as all of the commands' do.
- `ArgcBounded` gives the exact bound, which for lines of 255 characters and more
  exceeds the 128 entries of `argv`; the write past them is not modelled.
- Likewise more than 32 functions overrun `pci_devices`; the table of `PciScan` is
  unbounded.
- `PciCommands`: what lspci reads before the walk is only printed; the sizing of
  BAR 0 among it writes to the device and is in `PciDevice`. `SearchEnds` says that
  scan, search and walk come to their end for a device whose capabilities are not a
  circle (on one, lspci never returns). That is the end of `lspci`, and of an `xhci` that
  finds no controller; what `xhci` does with a controller is in `XhciCommand`, and may
  wait for ever.
- `PciScan` assumes that bridges are numbered. With a bridge whose secondary bus
  is still 0, Scan would call itself without end.
- `ScanComplete` is about host bridges with one function. With several, the
  test of pci.cpp 156 is inverted and nothing is found; `HostBreak` and `HostScan`
  model it.
- `SizeRight` excludes I/O windows of four and eight ports, which CalcBarMapSize
  gets wrong: ClearBits drops four bits, and bit 2 of an I/O BAR is read as a
  flag. The device is not taken off the bus while its BAR is sized.
- A full line is a dead end of the shell (debug_console.cpp 163): neither newline nor
  backspace is taken any more. `LineEditor` has it so; no property says that it should
  be otherwise.
- `FrontIsOldest` excludes a run in which Initialize erased an event of a
  controller that was running (`wiped`); the model has such runs.
- `KeyboardComesUp` is stated for a halted controller and at most one slot. In the
  other cases `xhci` hangs in the model as in the code: the drain loop does not
  pop, every command goes to entry 0 of the ring, and CRCR is ignored while the
  ring runs. `auto_cmd` enters `xhci` before the PIC and the keyboard are set up, so
  the kernel then never takes a key. The other ways not to get to the loop are an
  unknown pixel format, for which MyMain returns, and a key that goes `astray`, which
  only a descriptor table that is too short allows (`refused`). The two calls of lspci before it are taken to
  return.
- `HandlerReady` and `CodeIsRead` except a descriptor table without room for entry
  0x21 (`refused`): MyMain prints the error, goes on and unmasks IRQ 1 all the same.
  `CodeIsRead` also excepts a key struck before ICW1 with the keyboard controller
  already raising IRQ 1 (`early`): the request is forgotten and, until somebody
  reads the code, no new edge comes.
- The comment at main.cpp 129 spells the mask of PIC 0 as 11111011; the value
  written is 0xf9, which leaves IRQ 1 open as the code needs. With the mask of the
  comment no key would be taken (the mutant `InitPicAsCommented`).
- Memory-mapped registers are plain (not volatile) in register.hpp; the
  Makefile's flags do not optimise, so each poll reads again.

## Not modelled

- The pixels and the font: a character cell is the finest unit, and what
  DrawAscii and DrawRect do to it is in `DebugConsole`.
- `echo`, `mmap` and the printing of `lspci`: they read and print; `DebugShell` lets a
  command print anything.
- Device contexts and the input context of `xhci`: data that is filled in and handed
  to the controller, which the repository never reads back.
- The bit layouts of registers, TRBs and descriptors; the structures of elf.h and
  the linker script, which are shared with a loader that is not in the repository.
- The C library glue: stubs whose answers nothing looks at.

## Plan

Written so far, in the order of their importance: the queue, the lock, the
keyboard path, the shell and its tokenizer, the PCI scan and BARs, the event ring,
the command, the commands on the PCI table, and the start of the kernel, which
composes the last but one of them with the interrupt set-up. What is left:

1. Keyboard, shell and command in one module, to say that keys struck during a
   long command are lost only beyond the size of the queue; `LossExcused` says so
   for any PutChar, whatever it executes.
2. The refinement `RingIsFifo` as a property of the run EventRing, in place of a weaker
   one.
3. A rank for the start of the kernel, which every step of MyMain makes smaller, to go
   with `StartIsNotStuck` as `ScanComesCloser` goes with `ScanGoesOn`.
