# NapalmOS in TLA+

NapalmOS is a small 32-bit operating system for the PC: a kernel in C and
assembler (`src/Kernel`), a host tool in C# that writes the RAM disk image
(`src/RAMFS`) and a build script (`src/Builder`). This directory models the
parts of it whose correctness depends on interleavings, on long sequences of
operations or on arithmetic, checks them with TLC on small instances, and
proves what matters most for every value of the constants with TLAPS.

Line numbers are those of the files under `src/Kernel/Source` unless another
directory is named.

## 1. The system

| component | state | operations | talks to |
|---|---|---|---|
| Task manager (`core/threading`) | task list `_threads`, `_index`, `_timer`, `_lock`, `_ready`, `THIS_THREAD`, `NEXT_THREAD`; per thread state, lock, saved registers | load, start, kill, unload, schedule, timer callback, `lock`/`unlock`, `thread_create`, `thread_return`, `_context_switch` | heap (records, stacks, list arrays), PIT interrupt, shell |
| Heap (`core/memory/heap.c`) | table of `HEAP_COUNT` blocks, `_freecount` | alloc, free, collect_dead, collect (merge), init_kthread | task list (who is alive), physical memory |
| Collector thread (`memmgr_gcmain`) | two counters | one collection every 250 ms or 50 frees | heap, scheduler (lock, yield), RTC |
| Physical memory (`core/memory/memmgr.c`) | table of 2048 ranges | scan of the boot loader's map and modules, map, unmap, alloc, amounts | boot loader, heap, VFS |
| RAM file system (`core/fs/ramfs.c`, `src/RAMFS/RAMFS.cs`) | one image: header, table, data | write an image (host), open, list (kernel) | VFS |
| VFS (`core/fs/virtfs.c`) | list of mounted file systems; open files on the heap | open, read, close, exists, list | RAM file system, heap, shell |
| Device manager (`hal/devmgr.c`) | table of devices, next uid | register, unregister, start, stop, lookups | every driver |
| Keyboard, PS/2 (`hal/devices/kbd.c`, `hal/ps2.c`) | key map, current consumer, its modifiers and buffer | scan code interrupt, set consumer, polls | shell, editor |
| Command host, commands (`core/cmdhost.c`, `core/commands.c`) | line buffer, directory, `_process` | poll Enter, execute, 11 commands | keyboard, VFS, scheduler, console |
| Text editor (`userland/utils/txtedit.c`) | a record, a data buffer, a keyboard consumer | create, main loop, key handler, free | scheduler, keyboard, heap |
| Timers (`pit.c`, `rtc.c`, `lib/time.c`) | counters, time of day | interrupt handlers, reads | scheduler, collector, shell |
| ATA (`hal/devices/ata.c`) | `identified` | identify, read, write | nobody calls read and write |
| Console and display (`vga.c`, `vbe.c`, `core/display.c`, `lib/ansi.c`) | cursor, colours, frame buffer | put, scroll, delete, escape sequences | everyone who prints |
| Strings (`lib/string.c`, `lib/stdlib.c`, `lib/stdio.c`) | none | copies, splits, conversions, formatting | everyone |
| Interrupts, PCI, UART, ports, boot, graphics tables, image builder | set once at boot, or none | | |

**What is hard here.** There is one CPU and no memory protection. Concurrency
is preemption by the PIT (every 30th tick ends a thread's turn) and interrupt
handlers on top of whatever code runs. Mutual exclusion is of three kinds that
mix: `cli`, the scheduler's own flag `_lock`, and `lock()`, which only tells
the scheduler not to preempt the caller. The heap's collector decides who owns
a block by looking for a record's address on the task list. Errors end in
`debug_exception`, which halts the machine.

**What the code reaches today.** At this commit `boot_sequence` ends in
`while (true);` (`core/kernel.c:29`), so the loop of `kernel_main` behind it,
and with it the shell, is not entered. The models take the operations as the
code offers them, with the callers it has: the shell's commands are called with
the kernel thread's lock held, as `kernel_main` does.

### What makes each component correct

* Task manager: the list holds the allocated records, each once, and never a
  freed one; THIS_THREAD is who runs; a switch restores the right stack; locks
  exclude; nobody starves while the CPU changes hands; the dead are reclaimed.
* Heap: blocks never overlap and account for all memory; what the program holds
  is what the table says is used; the collector takes the blocks of dead threads
  and nobody else's; a merge joins neighbours only.
* Physical memory: mapped ranges stay inside the machine's memory and apart.
* RAM file system: what the host wrote is what the kernel reads.
* Devices: a uid names at most one device, a registered one can be found, and
  the interrupts of one that runs reach its handler.
* Keyboard and shell: each line typed is executed once, in order; the key map
  and the modifiers are those of the keys that are down; the heap, which has no
  lock, is used by one at a time.
* Disk: driver and drive stay in step, and calls end.
* Timers and clock: counters count what they say, the time is never behind.
* PCI: every function of every card is found with its own header.
* Console and display: what is written is what a terminal would show, and what
  is drawn is cut off at the edges of the screen.
* Strings and numbers: a buffer reads as the text that was built in it; what is
  printed of an integer reads back as it, of a float but for what is cut off.

## 2. Plan

1. `TaskMgr` (with the abstract `Dispatch`), its proofs. *Done.*
2. `Heap` with the collector (with the abstract `Allocator`), its proofs. *Done.* Who can be inside a heap
   operation at the same time is a property of `Shell` (`HeapAlone`); what the
   table looks like after such an overlap is open (`HeapRace`: the operations of
   `Heap` cut between any two of their assignments).
3. `MemMgr`: the scan of the memory map and the modules, alloc, map, zero-fill;
   its proofs. *Done.*
4. `RamFs`: the writer, the image, and the kernel's files over it (with the
   abstract `FileMap`), its proofs. *Done*, without the text of paths.
5. `Keyboard`, and `Shell` over it: interrupt, key map, line buffer, command
   host, editor; its proofs. *Done.*
6. `DevMgr`, `Ata`, `Ticks`, `Pci`, `Clock`, `Console`, `Display`, and the pure
   functions of `lib` against reference definitions: `Strings` (with the abstract
   `Text`) and `Numbers`; their proofs. *Done.*
7. A composition of the boot order over the components. *Open.*

Abstract specifications: `Dispatch` for `TaskMgr`, `Allocator` for `Heap`, `FileMap`
for `RamFs`, `Text` for `Strings`. *Done.*

## 3. The modules

| module | models |
|---|---|
| `Dispatch` | the promise: the CPU moves between live threads of a pool, never away from a thread that holds its lock, and dead threads leave the pool |
| `TaskMgr` | `scheduler.c`, `thread.c`, `contextsw.asm`, the list operations of `ptrlist.c`, the scheduler's part of the PIT interrupt |
| `MCTaskMgr` | three threads, for TLC |
| `TaskMgrProofs` | inductive invariant, theorems, refinement |
| `Allocator` | the promise: a thread is given ranges nobody else holds, keeps them until it gives them back or is gone, and giving back never stops the system; a damaged heap promises nothing |
| `Heap` | `heap.c` and the collector's use of it |
| `MCHeap` | four slots, five units, for TLC |
| `HeapProofs` | inductive invariant, theorems about the block table, refinement |
| `MemMgr` | `memmgr.c` at boot, with the two allocations of `heap_init` |
| `MCMemMgr` | maps of a small PC in every order, module places, for TLC |
| `MemMgrProofs` | inductive invariant and theorems about blocks, modules and the zero-fill |
| `FileMap` | the promise: files are put in, the collection is published as a whole, readers get the first file of the name |
| `RamFs` | the writer (`src/RAMFS`), what the builder does with its image, `ramfs.c`, `virtfs.c`, and `cd`, `ls`, `view` and the editor's question whether a file exists |
| `MCRamFs` | two names, three contents, three entries, for TLC |
| `RamFsProofs` | inductive invariant, theorems, refinement |
| `Keyboard` | `ps2.c`'s keyboard interrupt, `kbd.c`: key map, consumers, modifiers, line buffers |
| `Shell` | extends `Keyboard`: the loop of `kernel_main`, `cmdhost.c`, `txtedit.c`, the collector and the timer's unloads as users of the heap |
| `MCShell` | six keys, two editors, for TLC |
| `ShellProofs` | inductive invariant and theorems |
| `DevMgr` | `devmgr.c`, the handler table of `idt.c`, start and stop of the drivers |
| `DevMgrProofs` | inductive invariant and theorems |
| `Ata` | `ata.c` and a drive that answers when it likes, fails or is absent |
| `Ticks` | the counters of `pit.c` and `rtc.c`, and the collector that reads them |
| `Pci` | `pci.c`: addresses, probe, table, names and lines |
| `Drivers` | the four above in one specification |
| `MCDrivers` | small instances of them, for TLC |
| `DriversProofs` | inductive invariants and theorems of `Ata`, `Ticks` and `Pci` |
| `Console` | `stdio.c`'s printf, `vga.c`, `ansi.c`, with the keyboard interrupt that prints too |
| `Display` | `display.c`, `vbe.c`, `font.c`, `color.c` |
| `Text` | the promise: a text is a sequence of characters, each call changes it as its name says |
| `Strings` | `string.c` and `ctype.c` on a buffer, and the copy of a command's name |
| `Numbers` | the conversions of `stdlib.c`, `memalign`, `timestr` |
| `Clock` | the time of day between the CMOS clock, the RTC interrupt and `time()` |
| `Screen` | the five above in one specification |
| `MCScreen` | small instances of them, for TLC |
| `ScreenProofs` | inductive invariants, theorems, refinement |

An operator whose name ends in a suffix (`WalkPick_AnyState`) is the operator
before the underscore with one plausible mistake in it: it is what the property
that guards against this mistake is tried on, and is used nowhere else.

### TaskMgr

The state is the code's static variables under their own names, the fields of
the thread records, and the machine: `cpu` is the thread whose stack the CPU is
on, `phase` what it does. That THIS_THREAD and `cpu` agree is a property, not a
definition.

* Thread code runs in phase `"code"` with interrupts enabled, and the timer can
  come between any two of its steps. `at` is where the code of each thread is:
  an operation that is not atomic in C is not atomic here. `taskmgr_start` and
  `taskmgr_kill` are two steps each (set `_lock`; write the state and clear
  `_lock`), `ptrlist_add` copies and then publishes, a voluntary
  `taskmgr_schedule` tests and then disables interrupts.
* Once `taskmgr_schedule` has interrupts off it walks the list, phase `"walk"`,
  one action for each way through the loop's body, then `_context_switch`, phase
  `"switch"`. `Saved` is the save of the registers into THIS_THREAD's record.
* A thread that runs for the first time has eflags 0x202, so `popf`
  (`contextsw.asm:26`) turns interrupts on before `mov esp` (line 31): phase
  `"popf"`. The window is five instructions and a tick takes 0.5 ms, so at most
  one tick fits (`inPopf`). If that tick ends the interval, the scheduler saves
  the old stack into the new thread's record: phase `"torn"`, where the model
  ends. The model shows when this can happen: only after a voluntary switch,
  since a switch by the timer has just reset `_timer`.
* Fairness of the walk is stated step by step too (`NearerTurn`): `Pos` is a
  thread's place in the list, `Wait` the rounds of the loop until the walk looks at
  it. An unload in the walk makes the entry behind it wait for another round
  (`_index++` passes over it), but moves it up by one place, so the pair gets
  smaller in every round.
* `taskmgr_load` and `taskmgr_kill` are called by the boot code and the shell,
  in the kernel thread, with its lock held or the scheduler not ready (`Alone`).
  Without it the list could be corrupted; with it `ListSound` holds.
* A free record is a record whose state is `"FREE"`; `Create` takes any of them,
  so addresses are used again.

Left out: names and uids (a record's address stands for both), `THREAD_WAITING`
(never assigned), printing, and `malloc` failing, which halts.

### Heap

A slot is a record like `heapblk_t`; sizes are in units of `HEAP_ALIGN`.
`AllocExact`, `AllocSplit`, `AllocTableFull` and `AllocRefused` are the four
ways through `heap_request`; `FreeBlock` is `heap_free`, used by the program
(`Free`) and by the collector (`DeadFree`). The collector is a pair of loops,
one action for each way through a body. It runs under its thread's lock, so
other operations wait (`Mutator`). `UnloadTask` and `LoadTask` are what the
scheduler does to the list the collector asks; the frees of a dead thread's
record and stack are `Free` steps of the thread that created it.

`live`, `broken` and `haltBy` are history. `broken` is the set of the ways in
which the table was damaged: `"gap"` (a merge of two blocks that do not touch,
`heap.c:168`), `"used"` (the last merge applied to a used block in slot 0,
`heap.c:96-97`) and `"full"` (no INVALID slot, `heap.c:177-178`). All three
happen; the properties say that nothing else ever goes wrong.

`Allocator` is the heap as its users see it. What they hold is `live`; the threads
that are there are the list, and before `heap_init_kthread` the kernel thread alone;
a free or a collection that changes no holding, the merges and the searches are
stutters. A halt on a request is `Stop`; a halt on a free has no counterpart, so the
refinement says that none happens.

### MemMgr

The state is `_memblks`, `_fblk` (a slot number), the loader's map and module
list, and the loop variables of the function that runs (`pc`, `i`, `upto` for
`end`, `sum` for `sz`). Nothing runs concurrently at this point of the boot;
what makes the code hard is the variety of what the loader may hand over, and
that is where the model has its nondeterminism: it starts from any map of
`Maps` and any list of `ModLists` that fit together (`Loaded`). One action per
way through each loop's body; `goto _do_memscan` is `ScanKernel`'s `i' = 1`.
`_count` is left out: it is only printed.

The zero-fill of `memmgr_init` goes over each free block in eight steps
(`Parts`). The inner loop's counter hides the outer one, so that the k-th step is
as long as an eighth of the block in slot k, whatever block is being cleared.
`Steps` is the sum of these lengths, and `wiped` what has been cleared, in
eighths of a unit.

Assumed of the loader: the entries of a map do not overlap; one of them is usable
memory, larger than the kernel, that starts with the kernel (the linker script
puts it at 1 MB); and there is a module, in the same entry behind the kernel, and
none is empty. `limine.cfg` names one module; without one `virtfs_init` would read
through NULL.

### RamFs

The state is the writer's memory (`table`, `pos` for `Header.DataPosition`,
`area`), its exit code, the image file `disk`, and what each reader has: its
open file, what it read, and the allocations it has not freed (`held`).

* `AddFile` is the call that succeeds. `AddFileNoRoom` is the one whose copy of
  the data throws after the entry is written; `ImportRefused` stands for every
  `Debug.Error`: a missing source, an empty file, a full table, a long name.
  Both end the program, and its memory with it. `Restart` is the next build.
  The C# main program imports five files; the model imports any number of any.
* `Boot` is what the builder does when the exit code is 0 and an image file is
  there: pack it and start the machine. From then on nobody writes.
* The shell runs its commands under its thread's lock, so an editor thread does
  nothing until the command is over (`MayRun`); an editor is outside its lock
  when it asks whether its file exists (`txtedit.c:78`) and may be overtaken
  there. Each library call of a command is a step; the list of `ls` and the
  directory of `cd` are built in one.
* A path is a name in the root directory, or none (`Nothing`): `virtfs_fopen`
  finds nothing for it. `LsOther` is `ls` of any path but the root.
* `want`, `disk.want` and `fresh` are history: what was asked for in this run of
  the writer, in the run that wrote the image, and whether that is the last one.

Left out: the hidden flag, the layout of an entry (both sides declare the same
packed one), the text of paths, and the boot loader, which is taken to load the
file as it is.

### Keyboard and Shell

A code is a key and whether it went down or up. The person presses and releases
keys as they like; `queue` is what keyboard and controller hold, and a code that
finds it full is lost (`lost` remembers of which keys). `KeyIrq` is
`ps2_callback` with `kbd_handle`: the key map, then the modifiers and the line of
the consumer that `_kbd.state` points to. `missed` remembers which shift keys
moved while somebody else had the keyboard.

`Shell` adds the threads. `cpu`, `locked` and `pc` are what `TaskMgr` shows of the
scheduler: a thread that holds its lock is not preempted, any other may be, and
the walk in the timer's interrupt may unload any of the dead (`Preempt`,
`GcYield`). The loop of `kernel_main` is a sequence of places: lock, set the
consumer, poll Enter, split the line, run a command, free the parts, clear the
line, poll again, unlock. Between any two of them the keyboard interrupt may
come. The commands that matter here are those that change threads: `RunTxtedit`
and `RunKill`, which may hit a thread anywhere; the others are `RunOther`.
`EditorExists` is an editor that looks for its file before it takes its lock, and
if the file is there its key handlers are never set, because `txtedit_load` is
empty.

History: the characters executed (`ran`), removed (`erased`), or typed while a
command ran (`late`); how often Enter went down and a line was executed
(`enters`, `runs`); who was inside a heap operation when the keyboard's handler
(`clash`) or the timer's (`ticked`) began one of its own, or when it was killed
(`halved`). Characters carry the number of their delivery, so that "executed
twice" can be said of them.

What the properties say of the code:

* the bits of `kbd_state_t` are per consumer and `kbd_setstate` does not bring
  them up to date; the release of F12 (0xD8) is excluded by `kbd.c:70`
  (`KeyboardFollows` states both exceptions);
* `memset` of the line after a command wipes what was typed meanwhile, and that
  is the only loss (`WipedOnlyLate`);
* a new editor's `virtfs_fexists` runs without a lock: it is the only code on top
  of which somebody else's heap operation can begin, or that can be killed in the
  middle of one (`HeapAlone`);
* an editor never gives the keyboard back (`EditorKeeps`), and then the shell
  never polls again (`ShellPolls` states the exception).

### DevMgr, Ata, Ticks, Pci

`DevMgr` has the table, the uids, and what `devmgr_start` does in the driver's
start function: `Connect` registers the interrupt handler, `Result` says whether
the device is there. The driver of the keyboard is connected by `ps2_init`
(`Bus`). `Raise` and `Handle` are an interrupt that may come between any two steps
and is acknowledged with or without a handler. The calls come in any order,
more of them than the code makes today, and with any uid or name: `Stop`,
`Unregister` and `Restart` (a call of `devmgr_start` that does not follow a
registration) take uids that were never given, those that were taken off, and some
out of range, and `LookUp` (`devmgr_from_name`) any device's name. Where no device on
the table has it, `debug_exception` halts the machine (`HaltUnknown`). uids are not
used again, so the machine halts after `DEVICE_COUNT` registrations as well.
`asked` and `named` are history, the argument of the thread's last call;
`HaltsForReason` says that a halt has one of these causes, or is that of a key typed
after the keyboard was taken off the table, and no other.

`Ata` counts in halves of a sector, since the buffer advances by 256 bytes for a
sector of 512 (`ata.c:125`): `FirstHalves` and `SecondHalvesRepeated` say exactly
what is lost by it. The drive may be busy, ready, failing or absent at every
command; `count` 0 stands for the full range, and the `uint8_t` index of
`ata_write` wraps, so that a write of more than 255 sectors does not end.

`Ticks` has a float of `P` bits: `seconds` grows by 1/1024 until a tick is less
than its last bit, after four and a half hours with 24 bits, and stands still from
then on. The PIT's counter wraps after 1001 milliseconds, not 1000 (`pit.c:68`).
The collector counts the changes of `millis` that it sees, never too many.

`Pci` takes every mixture of cards: empty slots, bridges, cards with several
functions, cards that answer for all functions alike. An address is a set of bits,
so that `pci_write`'s shift of the slot number by 1 instead of 11 (`pci.c:79`) is
what the code makes of it: it always names slot 0. `Offsets` are the registers that
it is called for; the two lowest bits of one are cut off, and `port_outl` writes 32
bits, the 16 of the data and zeros above (`Stored`). `WritesAstray` says what comes
of it: for a register at a multiple of 4 the one beside it is zeroed, and for any
other the data goes to the register before it and zeros to the one named
(`pci.c:81`). `pci_write` has no caller at this commit.

### Console, Display, Strings, Numbers, Clock

`Console` goes from character to character, in the buffer as well as on the screen,
and is cut at the assignments of `vga_putc`, `vga_setpos` and `vga_scroll`,
because the keyboard's interrupt handler prints the character that was typed
through the same buffer and cursor. In `vsprintf` each piece is added by `stradd` or
`strcat`, whose `strlen` (`Length`) and stores (`Store`) are steps of their own; which
characters make a piece, and so where `strlen` is run again, is left open. In
`vga_write` each look at the next character is a step; a character that was looked at is
not read again (`vga.c` is compiled with `-O2`). An escape sequence is read as the
code reads it: the test for its `[` and for an `m` within the next four characters
(`Escape`), the copy of the code one character after the other as far as an `m`
(`CopyCode`), and the colour (`SetColour`). The test is one step: a key inside it
has the effect of one before or after it, since what it reads of a cleared buffer
is no `m` (the keys have one character, which is at index 0). If a key clears the
buffer while the code is copied there is no `m` any more, and the fifth character is
stored behind `code[4]`: `"overrun"`, where the model ends, for what a
write into the function's own frame does is undefined. `OverrunsWhenCut` says that
this is the only way to it: a key in the copy always leads there (`cut`), and no
text, however malformed its sequences, does without one. In the other cases the
cursor comes back onto the screen and the colours to what they were.
`paper` is what a terminal with endless paper
would show; the screen shows the lower end of it unless a key came while a
character was put (`torn`), and a text comes out whole unless a key came before its
end (`hit`). Of the colours there is the one that the console starts with and any
other; the texts of the run have sequences of three digits, of two, the reset, and one
that is none because it lacks its `m`.

`Display` takes calls with rectangles, frames and strings at every place around
the edges and compares the pixels with the area that is meant. The VBE device is
registered before `display_init`, so the branches for the text screen are not
taken. `DrawStr` has characters for which there is no glyph.

`Strings` is one buffer that was cleared once. `strcpy` and `strcat` write no
terminator; `BufferIsText` says that the buffer implements `Text` nevertheless, as
long as it is only changed by these functions, and `ZerosBehind` is why.
`CopyName` is `cmdhost_execute`'s copy of a word into `cmd[128]`, which a word of
exactly that size leaves without a terminator (`Terminated`).

`Numbers` converts every word of 16 bits and reads the text back. Floats are the
numbers `x / u`, `x` of at most 24 bits and `u` a power of two of `Units`, which are
all those that are not negative, below 2^24 and have no bit under the last of `u`: the
float's own 24 bits make `num - (float)ipart` exact, and the product with 1000 is
exact in the x87 registers in which the build computes it (`i686-elf-gcc` without SSE,
`src/Builder/Builder.cs:15`), so that the only loss is the conversion to int, which cuts off (`stdlib.c:119-127`).
`FloatCutOff` therefore does not say that the number is read back: it says that what
is written is less than a thousandth below it, and never above (`4.35f` is written as
4.349), and that a number below 1 begins with the point. `TimeReadsBack` reads hour,
minute and second back from `timestr`'s text for every time of a day. `Clock` reads
the registers one by one without a look at the clock's update flag, and copies the
result in two halves; a time that was torn is ahead, by what was carried, and is
behind only when the copy's high half is taken first.

### Drivers and Screen

`Drivers` extends `DevMgr` and instantiates `Ata`, `Ticks` and `Pci`; `Screen`
extends `Console` and instantiates `Display`, `Strings`, `Numbers` and `Clock`.
The parts share no state. The variable `unit` says which part a behaviour is about;
the others stay where one of their initial states has them. The properties of a part
are conditions on its own `unit`, so a theorem about it first shows that a behaviour
of the composition is one of the part (`AtaMoves`, `ConsoleAlone` and the like). The
assumptions on the constants of the instantiated modules are definitions there, and
assumed together as `DriversAssumption` and `ScreenAssumption`, which TLC evaluates
for the values of the runs.

## 4. Runs

| run | asks | size |
|---|---|---|
| `taskmgr` | safety of the scheduler, that it implements `Dispatch`, that every round of the walk brings each thread nearer to its turn, that no runnable thread starves and every dead one is reclaimed | 3 threads, interval 3: 48 428 states |
| `heap` | the table's invariants, that it implements `Allocator` | 4 slots, 5 units, 2 threads: 442 336 states |
| `heap_merge` | are merged free blocks nobody's memory? No | as `heap` |
| `memmgr` | the boot scan, the zero-fill and the heap's memory for every order of the map | 12 MB of map, 5 slots, 1 or 2 modules: 63 736 states |
| `memmgr_wipe` | is what `memmgr_init` zeroes unused? No | as `memmgr` |
| `ramfs` | images are complete, readers get them right and give memory back, `FileMap` | 2 names, 3 entries, 4 bytes of room, 1 editor: 7 375 states |
| `ramfs_free` | is `free` given memory only? No | as `ramfs` |
| `ramfs_room` | is there room for the announced size? No | as `ramfs` |
| `ramfs_stale` | does the machine start with the image of its own build? No | as `ramfs` |
| `shell` | keys, lines, heap and keyboard among interrupt, shell, editors, collector | 6 keys, 2 editors: 603 214 states |
| `drivers` | devices are found and served, transfers and counters right, calls end, PCI complete | four parts: 492 296 states |
| `screen` | terminal, pixels, texts, numbers and time | five parts: 4 394 586 states |

Each property is also tried on a mutated definition (a name with a suffix, section
3) and found violated there, so that none holds whatever the code does.

**Bounds.** Three threads are the kernel's and two others: enough for an unload
to pass over an entry behind it, for two neighbours to die together, for a
record to be used again while another is in the list. The interval matters only
in relation to the window after `popf`: with 3 a tick in the window may or may
not end the interval. With `Interval >= 2` (an assumption; the code has 30)
the tick in the window after a timer switch cannot end it. Four slots and five
units allow a merge across a used block, a merge of a used first slot, and a
full table. Exploration of `heap` stops at the first damage (`Intact`), since
nothing is promised afterwards. In `ramfs` three entries and four bytes let two
files have the same name, a file run over the end behind others and the table
fill up; an announced area of five bytes with a header of one gives the header's
28 missing bytes their effect. In `memmgr` a kernel's region of six or seven megabytes has room for gaps of
every size in front of one or two modules, the region is followed directly or
at a distance by ACPI tables, more memory or reserved memory, and five slots
run full in the scan of the map, of the modules and in the allocations. The
heap leaves a half there, not an eighth (`Share`), so that small memories boot,
and the zero-fill has four steps, not eight, since `Parts` cannot exceed the slots.
One editor is enough to overtake the shell
between two commands and to be overtaken while a file is open.

In `shell` a letter, a shift key, caps lock, Enter, backspace and F12 are one key
of each kind that the code tells apart. Six key movements (a letter's and Enter's
count once, the others twice, `Cost`) are enough for two lines, for a letter
that is typed during a command, for a shift key held over a change of consumer, and
a queue of two for a code that is lost. Of two editors one can be killed while the
other starts.

In `drivers` there are four devices for a table of three slots and three uids, so
that both run out; an index of two bits and a count of three with calls of up to
nine sectors, so that a write that does not end and a count that is cut off both
happen; a PIT that wraps after two counts and a collector that waits for three;
floats of seven bits, which are full after 128 ticks; one bus with two slots of two
functions, a table of three entries, which cards can overrun, and writes to both
halves of a dword.
In `screen` three rows of two columns wrap and scroll, and two texts of up to eight
characters and two keys meet in every order, also inside an escape sequence; a screen of five by four pixels has rectangles and glyphs
across each edge; a buffer of five bytes can be filled exactly; numbers are all
words of 16 bits (of 32 in the proof), and floats with 0, 3, 8 and 16 bits behind the
point; the clock has eleven seconds, so that BCD matters, two months
for the carry into the high half, and one value of every other field.

**Deadlock** is not checked in these runs: a torn dispatch, a halt by
`debug_exception`, the end of the boot in `memmgr`, the end of the probe and the
driver's endless waiting in `drivers`, and the end of what is typed, printed and
converted end the models.

**Fairness.** `FairSpec` assumes weak fairness of the walk and of the switch
only: they run with interrupts disabled, so nothing can stop them half-way. No
fairness of threads or of the timer is assumed. A thread may keep its lock for
ever (`txtedit.c:95` does), therefore the liveness properties are about
executions in which schedules keep happening (`[]<>(phase = "walk")`).

`Shell`'s `FairSpec` builds on that result. A turn lasts `SCHEDULER_INTERVAL`
ticks, far longer than any step, so a thread that has the CPU goes on: weak
fairness of the collector's and the editors' steps, strong fairness of the
shell's, which is interrupted by preemption again and again. The scheduler is
round robin (`RoundRobin` of `TaskMgr`), so the shell gets the CPU again if
preemption is possible again and again: strong fairness of `Preempt` to the
shell. Nothing is assumed of the person, who may stop or go on typing. In `Ata`
the driver's thread goes on and a busy drive gets done; in `Ticks` the RTC ticks
and the collector's thread is dispatched; `Console`, `Display`, `Clock`, `Pci`
and `DevMgr` have safety properties only.

**Findings.** `heap_merge`: `heap_nearest` (`heap.c:168`) looks for a lower
neighbour by subtracting the block's own size. A free block of two units with a
free block of one unit two units below it is merged with that one, and the used
unit between them becomes part of a free block. `memmgr.c:128` reports this as
merging free blocks. The memory is then handed out a second time.

`memmgr_wipe`: the inner loop of the zero-fill declares an `i` of its own
(`memmgr.c:69`), so `_memblks[i].sz / 8` (lines 71 and 72) is the size of other blocks
than the one at `addr`. Even an empty free block right behind the module is
"zero-filled", over the ACPI tables that follow it, under the message
"Zero-filling unused memory" (`memmgr.c:63`), while of a large block only a part
may be. That it still spares kernel and modules, whatever the lengths, is part of
`HeapClear`.

`ramfs_free`: `cmd_ls` of a path that is not a root prints "No files found." and
then frees the array of an empty list, which is NULL; `heap_free` answers that
with `debug_exception` and the machine stops (`commands.c:103`, `heap.c:68`).

`ramfs_room`: the image is allocated without the 28 bytes of its header
(`src/RAMFS/RAMFS.cs:133`), so the data area is 28 bytes shorter than announced
at line 136.

`ramfs_stale`: `Debug.Error` of the writer exits with code 0
(`src/RAMFS/Debug.cs:46`), which the builder takes for success
(`src/Builder/Builder.cs:147`); it packs whatever image an earlier build left.

**Deviations that passing properties state.** Where the code does something else
than one would expect and no text of the repository says otherwise, the property
says exactly what it does: the free block overreaches its region by the gap in front
of the modules, no more (`BlocksApart`, `memmgr.c:49-50`); the PIT's counter has
1001 values (`PitPeriod`); the RTC's milliseconds stop when the float is full
(`MillisUntilFull`); a sector overwrites half of the one before (`FirstHalves`), a
long write does not end (`WriteEnds`, `ata.c:146`), nor does the identification of a
drive that is busy at the first look (`IdentifyEnds`, `ata.c:81`); `pci_write` reaches
slot 0 only and destroys a register with each write (`WritesAstray`, `pci.c:79-81`); an
escape sequence that loses its end to a key overruns an array (`OverrunsWhenCut`,
`vga.c:142`); a fraction is cut off (`FloatCutOff`); an unknown uid or name halts the
machine (`HaltsForReason`); PCI's table is written beyond its end
(`TableComplete` holds until then, `pci.c:49`); a name of exactly 128 characters has no
terminator (`Terminated`); and the exceptions of `Shell` listed in section 3.

## 5. Proofs

`TaskMgrProofs` proves the safety properties of `TaskMgr` and the refinement of
`Dispatch` for every set of threads and every interval of at least 2
(`TaskMgrAssumption`).

None of the properties is inductive alone. `IInv` adds to them:

* the CPU is on THIS_THREAD's stack in every phase but the window, where it is
  on the previous thread's, and THIS_THREAD is the entry at `_index`
  (`Bookkeeping`);
* in the middle of a walk the current thread is not locked, which is why the
  switch never leaves a lock behind;
* the kernel thread is inside an operation only with its lock set or with the
  scheduler not ready, so that only it runs (`KernelAlone`), and `copy` equals
  the list while `ptrlist_add` is between copy and publication;
* after a switch by the timer `_timer` is 0 in the window.

`KernelAlwaysSound` puts list, bookkeeping and the records in use together as the
property of the run; the last item is why only a voluntary switch can be torn
(`ContextsIntact`).

The argument is one step per action; the list lemmas (`RemoveAtFacts`,
`UnloadFacts`, `PublishFacts`) say what removing and appending does to an
injective sequence. `Implements` follows `IInv` through each action: a walk
and a first dispatch are stutters, the change of `cpu` is `Switch`.

`TurnsComeNearer` is the part of round robin that needs no fairness. In each round of
the walk a listed thread is the one that is looked at, and then it is dispatched if it
is runnable and taken off the list if it is dead, or its place and wait (`Pos`,
`Wait`, compared in this order) get smaller: `RoundNearer` for the rounds that leave
the list alone, `UnloadNearer` for the one that does not. Between two walks nothing
changes a waiting thread's place or wait; the only step that touches the list then is
a load, which appends, and which happens with the kernel thread, first of the list, on
the CPU (`LoadKeeps`). The pair is well-founded, so a walk that goes on, and walks
that go on happening, reach every thread: `RoundRobin` and `DeadReclaimed`, which
TLC checks, add to this only that walks do go on. It also follows that each walk ends,
as the kernel thread's own wait gets smaller in it.

`HeapProofs` proves every property of `heap`, for any number
of slots, any size and any set of threads (`HeapAssumption`: at least one slot,
a heap that is not empty and not at address 0, a kernel thread among the
threads, NULL not among them). Here too `IInv` adds to the properties:

* `OwnersListed`: what is held is held by listed threads, and by the kernel
  thread only while `THIS_THREAD` is still NULL. It is why the collector, which
  frees what belongs to nobody on the list, frees nothing that is held, and why
  two holders of equal blocks are the same one.
* `DeadBehind`: the slots the first loop has passed hold no orphan; at the end
  of the loop this becomes `OrphansFreed`.

* `NothingLost` says that every address of the heap is in a block. It outlives
  a merge onto a used first slot, so it is proved beside the other invariants and
  not as a part of `Sound` (`NoAddressLost`). With `BlocksApart` it means that the
  blocks tile the heap, without a sum over the table.

The step is proved for the transitions that leave `broken` empty (`Sound` is
what `IInv` says then; `SoundStep`), since after a damage nothing is promised
and damage is never repaired (`BrokenGrows`). The arithmetic is in three
lemmas about a table whose blocks lie apart: `SplitApart` (a block is cut in
two), `MergeFacts` (two free neighbours become one) and `FreeFacts` (an address
names one block, so `heap_free`, which searches by address, frees the one that
was meant).

`Implements` is the refinement of `Allocator`. While nothing is damaged it follows
`Sound` and the step's own guard: the low end of a free block is clear of everything
that is held, because what is held is a used block of the table and the blocks lie
apart (`FreeIsClear`, `GrantedIsGiven`); a free and the collector never halt, since
`Sound` holds after the step as well. The step that does the first damage
changes no holding, but for the request that finds the table full (`DamageSpoils`).

`RamFsProofs` proves every property of `ramfs`, the refinement included, for any
names and contents, any sizes of the table, the data area and the header, and
any set of editors (`RamFsAssumption`: there is a byte, contents are sequences
of bytes, the header is not larger than the data area, NULL is none of the
other values). `IInv` adds to the properties:

* `Built`: the writer's memory holds every import so far, and all of them lie
  in front of `DataPosition`. It is why a later file harms no earlier one
  (`StoredFacts`) and why `GetNextIndex` gives the slot behind the last
  (`NextIndexFact`), so that order in the table is order of import.
* `ReadersRight`: nobody reads before the machine has started, and what
  `cmd_view` has open points at the bytes of the first file under its name.
* `HeldRight`: what a reader has allocated is determined by where it is.

Every step of the writer maps to `Put`, `Discard` or `Publish`, `ViewRead` and
`ViewDone` to `Answer` and `Forget`, and everything else to a stutter.

`DevMgrProofs` proves `DevicesServed` and each of its parts for any devices, lines
and size of the table (`DevMgrAssumption`: a line is connected by at most one
driver, and the keyboard's by none). `IInv` adds that uids are below `_duid`,
which counts registrations (`Counted`), where a device that is being started
stands (`Starting`), that the keyboard's line is only ever the keyboard's
(`KbdOnly`), and which controllers wait while a handler runs (`Acks`). Why the
machine halted must be remembered when it has, hence `HaltsForReason` is part of the
invariant: the device that is being started is on the table, so its uid is found as
long as `_duid` has not run past the valid ones, and any other uid or name that is
not found is in `asked` or `named`.

`ShellProofs` proves `TypeOK`, `KeyboardFollows`, `LinesRunOnce`, `HeapAlone` and
`EditorKeeps` for any keys, editors, queue length and number of key strokes.
`IInv` has three parts, and the argument is

* for the threads: whoever holds a lock is the one that runs (`LocksHeld`), and
  shell and collector are inside heap operations only with their locks. So whoever
  is interrupted or killed there is an editor in front of its own lock; and an
  editor that has the keyboard is in its loop with its lock (`OwnerLoops`), so
  that nobody can take it away;
* for the keys: of the codes that are on their way the last one of each key says
  what the key does now (`LastCodes`). When none is left, the key map agrees;
* for the lines: the numbers of the characters in the line grow and are larger than
  those executed (`LineGrows`), except while a command runs, when all that is in the
  line was executed or came late (`WipeIsSafe`); and while Enter is down and has
  not been noticed, there is one line less than there were Enters (`EntersLeft`).

`MemMgrProofs` proves every property of `memmgr`, for any map, any modules and any
sizes (`MemMgrAssumption`). `IInv` says of every point of the boot

* which entries of the map are still as given: an entry stays so until it is
  cleared, and then its region is mapped (`Done`). That is why starting the scan
  again maps nothing twice (`ScanInv`);
* what each block in use is (`BlockIs`): the kernel, the free block, a module, a
  region of the map, or the heap's. The wanted regions other than the kernel's do
  not overlap it and therefore lie behind it;
* how far the modules reach (`Reach`) and what was skipped in front of them
  (`Skipped`): the sum of their sizes is the distance from the kernel's end to the last
  module's less the skipped memory. From this follows the overreach of the free
  block, exactly;
* after the modules every free block and the heap's lie at or above `upto`, the
  kernel and the modules at or below it, and the zeros start at or above it. No
  length occurs in this argument, so it does not matter which lengths the
  zero-fill takes.

`DriversProofs` proves the safety properties of the other three parts of `drivers`,
for every value of the constants that `DriversAssumption` allows.

* `Ata` (`AtaIInv`), for an index and a count of any size: what the drive still
  has to give and what the driver still waits for make up what was asked for
  (`Transfer`), so neither is ever ahead of the other. `mem` is `Got(n)`, the memory
  after n overlapping sectors, at every point. A drive that is absent never becomes
  `identified` (`Known`), and `DriveSays` bounds what an answer of the drive can mean.
* `Ticks` (`TicksIInv`), for a mantissa of any length from seven bits: `seconds`
  equals `ticks` until the float is full, and is full from then on (`RtcOK`). What
  the clock shows of such a float is right to one (`FloatMillisIs`), and the next
  tick is lost when it is full (`FloatSumIs`). `GcOK` bounds what the
  collector has counted by what has passed since it began to count.
* `Pci` (`PciIInv`), for any cards, buses, slots and functions that fit the
  address: an address is a set of bits, and reading one gives back the place it was
  made from (`BytesRead`). Until an entry is lost, the table has as many entries as
  there are devices among the functions probed so far, and the n-th function is in
  the entry behind those of the devices before it (`TableKept`).

`ScreenProofs` proves all five properties of `screen`, for every value of the
constants that `ScreenAssumption` allows.

* The console (`ConsoleIInv`), for any width, any height of at least two and any
  messages. `Follows` says where the end of the endless paper is on the screen for
  every place the cursor can be in, the places beyond the last column and the last row
  included in which it is for a moment; `Mirrored` says it for each point of
  `vga_putc` and `vga_scroll`. A key that comes there may put the cursor out by
  no more than `CursorNear`. `Printed` says of a text that no key has torn that the
  buffer and what `vsprintf` has still to add make it up, and that what `vga_write` took is
  the buffer's beginning, `MoreLeft` where `vsprintf` and `vga_write` can be in
  the text, and `Coloured` that outside of printf both colours
  are white. `Coded` is about escape sequences: while a code is copied and no key has
  come, the `m` that the test saw is still ahead, near enough for the array; after a
  key the buffer holds one character and the copy has gone past it.
* The clock (`ClockIInv`), for any six fields of up to a hundred values: what the
  registers show of an update is `Mixed(k, began)`, the fields below the k-th of the
  second `began` and the others of the next one, where k is the first register read
  after the tick. By cases on the carry, a mixed time is at or ahead of the old one
  (`Ahead`). When the low half was copied first, that half is good enough for every
  high half that can still come: put together, they are at or ahead of the time that
  the copy should show (`Copying`). That needs a clock
  that ticks once in an update at most and does not run past its last year, as the
  model's does (`Tick`).
* The buffer (`StringsIInv`), for any set of characters that contains the other case
  of each (part of `StringsAssumption`), any words and any size: it is at any time
  the `Image` of a text, its characters and then zeros only. `BufferHoldsText` is the
  refinement: the steps of `Strings` are those of `Text` on the text that is read
  from the buffer. That `strcmp` and `strsplit` are right is proved of all texts.
* The display (`DisplayIInv`), for any screen, font and rectangles: while a string
  is drawn, every earlier character lies `Before` the pen, to the left in the same
  line or in a line above. A character is painted inside its cell only, and the cell
  of the next one overlaps none of those before, so they stay `Readable`. A point on
  the screen has an offset in the frame buffer to itself (`PixelOnly`). The search of
  the nearest colour is by induction over the palette.
* The numbers have no invariant but their type: `TextsReadBack` proves
  `NumbersRight` of every word of 8, 16, 24 or 32 bits, the code's own 32 included,
  which TLC cannot count. `LoopWritten` says that the digits of a number are read as
  that number, `LoopShort` bounds their count, `NegativeDigits` is about the
  characters that `itoa` makes of the least number, whose `abs` is negative (the one
  word whose text in base 10 does not read back), `Nibbles` about the digits of
  `xtoa`, `AlignDivides` about `memalign`, `TimeIs` about the time of day as text.

The operators of `Strings`, `Numbers`, `Clock` and `Ticks` include functions that are
defined recursively over numbers or sequences. The library's induction theorems take an operator, which the provers cannot
instantiate, so two lemmas without one stand in their place: `Induct` (a set that
contains 0 and with each number the next one contains all), and `Recursion` (a
function that calls itself once, on an argument with a smaller measure, exists and
satisfies its equation). What a definition computes for every input is then
proved by `Induct` on the set of those measures for which it is right.

**Only model-checked.** Every safety property and every refinement (`Dispatch`,
`Allocator`, `FileMap`, `Text`) that a passing run checks is a theorem. Liveness is not, since fairness and
ENABLED are beyond the prover: `RoundRobin` and `DeadReclaimed` of `taskmgr`,
`ShellPolls` of `shell`, `Progress` of `drivers`; of the first two `NearerTurn` is the
proved core. The runs that expect a violation are
counterexamples on one instance, which is all that they need to be.

## 6. Not modelled

`PROJECT.json` lists every component with its state and what it leaves out. In
short:

* What the heap's table looks like after two operations overlapped (`HeapRace`). The
  models say who can overlap, not what remains.
* The composition of the boot order over the components. Each module starts in the
  states in which the order of `boot_sequence` leaves its component.
* The 12-hour mode of the clock; printf's directives, among them `%f`, whose
  `va_arg(args, float)` is undefined (`stdio.c:74`); what the machine does after
  `vga_write` has stored behind its array; what is written of a negative float (the
  sign of the fraction, too, is passed to `_ftoa_conv`);
  `strncmp` and other functions that nothing calls; PCI names beyond their maker and
  length; the branches of `display.c` for a text screen.
* The size of a line buffer: `stradd` appends without a look at it (`kbd.c:106`).
  At 64 KB of typing without Enter it is out of reach of a small model that has
  anything else in it.
* The installed memory at exactly 4 GB, whose product with `MEGABYTE` is 0
  (`memmgr.c:274`), is in `Installed` (`% Limit`) but not in an instance.
* Descriptor tables, segments, the real-mode calls, register code, ports and
  UART: they are written once or are pure I/O. The tables of glyphs and the image
  helpers are data. The build script starts tools one after the other.

Noted while reading, and not the subject of a run: an unknown Broadcom card is
printed as "Unrecognized Realtek Device" (`pci.c:230`, `GetName`); an editor of a
file that exists has no key handlers, for `txtedit_load` is empty; `memset` stores
whole dwords, so that `display_clear` keeps the colour it is given.
