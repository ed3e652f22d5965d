# A TLA+ model of the turnix kernel

This directory holds TLA+ modules for turnix, from the UEFI loader over the
kernel to its user library, TLC configurations that check them on small
instances, and TLAPS proofs that need no bounds: about the scheduler and the
spin locks for any number of tasks, the heap and the frame allocator for any size
and any memory map a firmware may hand over (`MapOK`), the ELF parsers for any
file, the file system calls for any ramdisk and the shell for any input.
`PROJECT.json` lists the runs, which source lines each
definition translates, the hazards, the findings and the theorems.

    tlc -workers 2 -config scheduler.cfg SchedulerRefinement
    tlc -workers 2 -config boot.cfg MCBoot
    tlapm SchedulerProofs.tla
    tlapm PolicyProofs.tla
    tlapm FramesProofs.tla
    tlapm ElfProofs.tla
    tlapm HeapProofs.tla
    tlapm LocksProofs.tla
    tlapm SyscallsProofs.tla
    tlapm ShellProofs.tla

## The system

turnix runs on one CPU. The UEFI loader (`boot/uefi-loader`) copies the kernel
and the ramdisk to memory, builds page tables, leaves the boot services and
enters `early_boot` (`kernel/src/boot.rs`), which sets up the heap, the GDT, the interrupt
controllers and system calls, fills the file system from a ramdisk, creates the
tasks (init, shell and fault-tester in ring 3; heartbeat, worker and idle in
ring 0), enables interrupts and jumps into the first task. From then on code
runs only because of

* the LAPIC timer (vector 0x20), which calls `timer_tick`;
* `int 0x81`, the yield, which calls `timer_tick` too;
* the keyboard (vector 0x21), which feeds the terminal;
* `syscall`, which runs a handler with interrupts masked;
* faults in ring 3, which end the task.

| part | state | operations | interacts with |
|---|---|---|---|
| scheduler (`task/scheduler.rs`) | ready queue, current task, ids, count | `add_task`, `start_scheduling`, `timer_tick`, `exit_current_task` | stacks, TSS, CR3, GS, interrupts |
| tasks (`task/mod.rs`) | state, saved stack pointer, process | `Task::new`, `new_user`, `switch_to` | frame allocator, paging |
| entry code (`interrupts/mod.rs`, `syscall/mod.rs`) | frames on kernel stacks, IF, GS base | timer and yield entries, `syscall_entry`, fault handlers | scheduler, GDT |
| spin locks | holder of each lock | lock, try_lock, drop | all |
| file system (`vfs.rs`) | entries, one table of open files | open, close, read, write, seek, stat, ls, mkdir, unlink | terminal, system calls |
| terminal (`tty/mod.rs`, `input/mod.rs`) | line under edit, completed lines, raw buffer | handle_input, read_line, add_char | keyboard interrupt, file system |
| system calls (`syscall/handler.rs`, `libturnix`) | results in rax | the handlers and their wrappers | file system, scheduler |
| shell (`userland/shell`) | descriptor, line buffer | the read loop | system calls |
| heap (`memory/allocator`) | free lists | alloc, dealloc | all kernel code |
| frame allocator (`memory.rs`) | next address | allocate_physical_frame | memory map, paging |
| paging, processes (`memory/paging.rs`, `process.rs`) | page tables | create, map, clone, load segments | frame allocator, ELF |
| ELF (`kernel/src/elf.rs`, loader's `elf.rs`) | none | header and segment checks | processes, loader |
| console (`drivers/video`) | cursor, pixels | write_char, backspace, newline, scroll | terminal |
| ramdisk (`xtask`, `vfs.rs`) | the image, an offset | add_file, init_from_ramdisk | loader, file system |
| loader (`uefi-loader/src/main.rs`) | firmware allocations, page tables, `BootInfo` | load_kernel, setup_mappings, handoff | firmware, ELF, kernel |
| SMP (`smp.rs`), ACPI (`acpi.rs`) | ready counters, tables | start_aps, wait_for_aps | LAPIC; not reached, since `rsdp_addr` is 0 |

What is hard about it: a tick can fall between any two instructions that run
with interrupts enabled, including the jump into the first task; contexts are
saved on stacks that the hardware reuses from the top on every entry from ring
3; `swapgs` must be paired with every change of ring; spin locks are shared
between interrupt handlers, system calls and preemptible kernel code on one
CPU; every process has a copy of the kernel's top-level page table taken at one
moment; the loader sizes buffers before it knows what goes into them, and the
kernel trusts the memory it was left; descriptors are global and resolved by name at every use; lines typed
arrive in an interrupt while the shell reads.

## Modules

**`Scheduler`** models the scheduler with the part of the CPU it relies on. A
kernel stack is the sequence of frames on it; a frame records whose code it
resumes, the ring, IF and a program point. `TickSwitch`, `TickStay`, `TickHalt`
and `TickIdle` are the branches of `timer_tick`; `Interrupt` is entry code,
`timer_tick` and restore as one step, because interrupts are masked throughout.
`start_scheduling` is four steps, since its jump runs with interrupts enabled
(`without_interrupts` has ended before the `asm!` block). System calls are
entry, one of {other, yield, exit}, and return. `UserFault` is the user branch
of the page fault and protection fault handlers. A system call that meets the
wrong GS base stops the model (`panic`): `syscall_entry` stores through GS.

**`RoundRobin`** is the abstract policy: threads are admitted, take turns first
in first out, and leave for good. **`SchedulerRefinement`** maps the scheduler
to it.

**`KernelLocks`** reduces every context to its sequence of lock operations
(`With(lock, body)`), from `interrupts::init` on, with the interrupt flag the
code runs with. A context whose next operation is the acquisition of a held
lock takes no step; an interrupt may still arrive if it waits with interrupts
enabled. The locks only the boot code takes on their own (the PIC's, AHCI's and those of
ACPI) and the one-time initialisation of `lazy_static` values are left out.

**`Tty`**, **`Vfs`**, **`Syscalls`**, **`Shell`**, each extending the one before:
line editing and the queue of lines; the entries and the table of open files;
the handlers with the encoding of results and its decoding in `libturnix`; the
shell's loop against the keyboard. Two history variables of `Shell` record the
lines completed (`submitted`) and what the shell made of each (`handled`: the
trimmed line, empty when it was blank). File contents are sequences over a small set
of bytes, and names are strings compared as a whole.

**`Heap`** is the kernel allocator: lists of free blocks per size over a linked
list of free regions, first fit, without merging. Addresses count units of eight
bytes, the smallest block and the alignment of a node.

The boot path is a tower of modules, each extending the ones below:

* **`Machine`**: page size, the width of an address, the idiom of a list of
  checks with early returns.
* **`Frames`**: the firmware's memory map and `allocate_physical_frame`.
* **`Paging`**: four-level page tables. A table is a function on the indices in
  use, and operations are operators on a record of tables, bytes and allocator,
  so that one action can chain as many as its code does (`Then` goes on unless
  there was an error). `MapTo` and the walk
  are the x86_64 crate and the CPU (external), `CreateProcessPml4` and the
  clones are `paging.rs`. The record says which allocator a mapping draws its
  tables from, the kernel's or the loader's in its scratchpad.
* **`Elf`**, **`Ramdisk`**: the two ELF parsers and the layout of `load_kernel`;
  the writer and the reader of the ramdisk, on bytes.
* **`Loader`**: `main` of the loader. Each call of the firmware's allocator is an
  action, since each changes the memory map that later calls and the kernel
  see. The firmware is a type per frame, an allocator that answers from the low
  or the high end, and an identity mapping of the lower half.
* **`Process`**: `init_heap`, the region of kernel stacks, `Task::new` and
  `new_user`, `map_user_region`, `new_from_elf`, `fork`.
* **`Boot`**: the loader, then `early_boot` with one action per stage, then the
  running system as far as address spaces go: `SwitchTo`, `Draw` (a character on
  the console) and `ForkProcess`. Contents of memory are symbolic: a byte is zero
  or the byte at an offset of a file.

**`Console`** extends `Tty` by the echo: the framebuffer as linear memory,
`write_char`, `newline`, `scroll`, `backspace`. **`Terminal`** is what it
promises: a list of at most so many rows of at most so many characters.
`Console!Lines` reads the rows off the pixels, and `ImplementsTerminal` says that
this reading behaves like `Terminal`. `above` is a history variable that
remembers where finished lines were drawn.

The `MC...` modules only define values for constants.

## Runs

| run | instance | shows |
|---|---|---|
| `scheduler` | 3 user, 2 kernel tasks, no faults | the current task runs on its own stack and address space; saved contexts survive; GS is inverted only while the jump of `start_scheduling` is suspended after its `swapgs`; the scheduler implements `RoundRobin`; every ready task runs |
| `scheduler_exit` | 3 user tasks, one faulting | no task is lost or queued twice; an exited task never runs; the proofs' invariant holds |
| `locks` | 2 user tasks, heartbeat, worker, boot, both interrupts | whoever spins waits for interrupted boot code or for heartbeat; `try_lock` in `timer_tick` never fails; once heartbeat has left its critical section every ready task runs |
| `files` | 2 descriptors, files of up to 2 bytes | descriptors resolve to an entry of their type; reads are contiguous; a file only grows |
| `shell` | lines of up to 2 characters, 3 lines, a 2-byte buffer | commands are executed as typed, once, in order; every line is read |
| `heap` | 12 units, blocks of 1, 2 and 4, five layouts | blocks never overlap each other or a free list; free regions hold their nodes; blocks are aligned; a freed block serves the next request of its layout |
| `boot` | 30 machines and boot media (below) | the loader's buffers hold what is written to them and its allocations are never handed out; the kernel image, the ramdisk's files and the programs are in memory byte for byte; both parsers agree; every page of a program has exactly the rights of its segment; every process shares the kernel's half, including stacks created later, and no frame with another program or with the kernel's heap and stacks; a fork can write none of the frames it shares; kernel stacks have unmapped guards; a sufficient machine boots |
| `console` | 5 by 7 pixels, lines of 6, glyphs of 2 by 2, one without a glyph | the pixels show what a terminal of 3 rows and 2 columns shows; nothing is left where text was erased or scrolled away; the cursor stays on the screen |

Four runs show where the code departs from what a comment or document says (the
findings in `PROJECT.json`): `gs_fault`, `locks_monopoly`, `abi` and
`framebuffer`. In the last a character is drawn while a process's page tables are
active, and the framebuffer's physical address is not mapped there. A related
window needs no run of its own: a tick between `swapgs` and `iretq` of
`start_scheduling` inverts the GS base for the tasks that run meanwhile, and
`GsPaired` describes exactly when (`Skewed`).

`UserIsolation` states a further departure. `fork` is to clone an address space "with
Copy-on-Write" (`process.rs:194`, `paging.rs:141`), but `clone_table_level` takes
the writable bit from the clone alone. So a fork can write none of the frames it
shares, while the program it was forked from still writes them, and the fork sees
it. The invariant says both: a fork has every page of its program on the same
frame, without write access, and the program keeps its own. Nothing in the kernel
calls `fork` yet.

`ImageLoaded` states the rights of a program's pages in both directions: a page is
writable if and only if its segment is, and executable if and only if its segment
is. Where segments meet in a page, the rights are those of the first one, because
`map_user_region` skips a page that is mapped; a variable behind the text in one
page is read-only. A fork has no writable page.

**Bounds.** Three to five tasks give every relation between a preempted task,
the next one and one that waits. `UptimeMod` is 2 (the counter only wraps).
Two descriptors are enough for two readers of one file, and for a full table.
`MaxSize` 2 allows writes past, at and before the end. `files` types no lines,
because it opens no terminal; `shell` does. A two-byte buffer truncates a line
of two characters and its newline. Twelve units of heap leave room for three or
four blocks with gaps between them. In `scheduler_exit` there is no kernel task,
which lets the queue run empty; the three kernel tasks of `early_boot` never
exit, so the halt in `timer_tick` is out of reach in the system as built.

`boot` scales the machine down and keeps its relations: pages of 4 bytes, tables
of 6 entries, one PML4 entry each for the direct map, the ramdisk, the heap, the
stacks and the kernel image, as in the code, and a direct map that fills whole
directories (2048 huge pages there, 36 here). A directory of the direct map is
written in one step of its loop. `MCBoot` has a base scenario that
boots, with three programs, a font and a text file, and varies one thing at a
time: the memory (seven sizes that run out at different stages, a map that is
rotated so that its ranges are out of order, a firmware that allocates low, high
or either), the kernel (data before text; seven images the loader or the kernel
refuses), the programs (text and data sharing a page, a segment that starts inside
a page, an empty one, four that are refused) and the ramdisk (empty, without
init, with a name too long for its field, an empty file, a name twice). `boots`
marks the scenarios that must not panic. Forks stop at `MaxProcesses` 4. The
firmware keeps the page at address zero and its page table in reserved frames;
that boot services memory, which the kernel takes for free, may hold firmware page
tables still in use is a hazard no property covers.

`console` has a screen that is neither a whole number of glyphs wide nor high, so
that the last line after a scroll lies off the grid of the first ones, and lines
longer than a row. `MaxLine` 1 and `MaxLines` 1 bound the terminal's input, not
the screen: the two strings tasks write, one with a newline, fill and scroll it.

**Deadlock** is checked except where the system may stop: a panic or halt in the
scheduler runs and in `boot`, a spin with interrupts masked in the lock runs, a shell that has
exited.

**Fairness.** The CPU executes what it has begun (weak fairness of kernel
steps). The timer is periodic and stays pending while interrupts are masked, so
it is taken if interrupts are enabled again and again (strong fairness). The
shell runs again and again because the scheduler is fair, which
`scheduler` checks. No key has to be typed and no system call has to be made.
`boot` and `console` state no fairness: their properties are safety. The boot is
one sequence of steps, so `BootSucceeds` says that it cannot fail where it should
not, and TLC's coverage shows that it reaches the running system.

## Proofs

`SchedulerProofs` proves, for any number of user and kernel tasks, any set of
yielding kernel tasks and any set of faulting user tasks (`SchedulerAssumption`
only says that these are such sets, that there is a task, and that the uptime
counter has a positive modulus):

* `TypeCorrect`: `TypeOK`;
* `TasksConserved`: no task is lost or queued twice;
* `CurrentRuns`: what runs is the current task in its address space, with its
  kernel stack installed;
* `SavedContextsIntact`: every ready task resumes its own context from the top
  of a stack no other ready task uses;
* `ExitedNeverRuns`: a task that exited never runs again;
* `SwapGsPaired`: `GsPaired`, provided no user task faults.

None of these is inductive. `timer_tick` resumes whatever lies on the next
task's stack, so the proof has to know what lies on every stack. `IInv`
(theorem `Invariance`) adds that a queued task is suspended in one of four
shapes (`Saved`: in its program, in a yielding system call, in the jump of
`start_scheduling` on its own stack, or in that jump still on the boot stack)
and that the CPU is in one of six situations (`Booting`, `Jumping`,
`InProgram`, `InSyscall`, `InExit`, `AtRest`), each of which fixes the frames of
the current stack. `SwitchPreserves` is the core: resuming a suspended task
leads to one of the situations and leaves the other suspended tasks alone. One
lemma per action follows, and `NextIInv` combines them.

`SwapGsPaired` needs `Faulting = {}`, because the fault handlers run without
`swapgs` (the finding of `gs_fault`). On top of `IInv` it needs that the jump of
`start_scheduling` is one activity (`Lone`): at most one frame of it lies on the
stacks, none while it runs, and only such a frame continues before `iretq`.
`GsPaired` then says on which side of `swapgs` the machine is, and every
switch, push and pop either keeps the suspended jump where it is or moves it
together with GS (`SaveAndResume`).

`PolicyProofs` proves `SchedulerImplementsPolicy`: `Spec` implies
`ImplementsPolicy`, that is, every behaviour of the scheduler is one of
`RoundRobin`. `IInv` supplies what the step simulation needs (the head of the
queue is ready and not current; the current task runs or has exited); a switch
maps to `Rotate` or `Retire` by the state of the preempted task, the halt to
`Retire`, `exit_current_task` to `Leave`, `add_task` to `Admit`, the first half of
`start_scheduling` to `Start`, and all other steps to stuttering.

`FramesProofs` proves `FramesFresh` and `NothingSkipped` of the allocator by itself
(`FramesSpec`) for every memory map whose descriptors are page-aligned and end a
page below the top of the address space (`MapOK`), and for every page size and
cutoff. The invariant adds that all frames handed out lie below `next_address`,
and that a sorted map has no usable frame below it that was not. The arithmetic
is in a few lemmas about multiples (`AlignedStep`, `AlignUpLeast`).

`ElfProofs` proves `ParsersAgreeOnEveryFile`: what `ParsersAgree` checks on the
images of the instance (`AgreeOn`) holds of every file (`ElfFile`: any length, any
fields, any program headers at any offset). A parser accepts when no check of
its sequence fails (`PassesAll`, by the least failing check), so the order of the
checks and the loader's additional one do not matter (`PassesBoth`). The kernel
also compares the start of a program header with the file size; that this refuses
nothing more (`EndsInside`) needs that an accepted file header makes program
headers non-empty, which is why `AgreeOn` asks about program headers only then.

`HeapProofs` proves all properties of the `heap` run for every heap size, every
size of a node, every list of block sizes and every set of layouts, provided
the heap holds a node and a block size that reaches an alignment is a multiple of
it (`HeapAssumption`; both are powers of two in the code). The invariant `Sound`
says that regions, free blocks and allocations lie in the heap, are aligned for
their class, and are pairwise disjoint, across the three kinds too. An operation
moves one piece of memory between the kinds: a lemma takes a piece out of each
kind and shows that it is then `Clear` of all others, another adds a clear piece.
That a carved rest holds its node (`HeapRegionsHoldNodes`) comes from the test in
`alloc_from_region`, that a freed block does from `SizeAlign`. `HeapReusedAtOnce`
is an action property: a block is pushed where the next request of its layout
looks first.

`LocksProofs` proves the safety properties of the `locks` run for any number of
user tasks in any order (`LocksAssumption`: the contexts are distinct, and a task
is added before the scheduler starts). The invariant reads who holds a lock off
what is left of the programs: a context holds exactly the locks whose next
operation in its program is a release (`Held`). With it go where a context can
be interrupted: system calls run masked until their last lock operation is done
(`UsersMasked`), and whatever boot holds the scheduler's lock for is masked
(`Masks`). `LocksTick` follows from the latter; `LocksCulprit` by elimination,
since a system call cannot be interrupted with a lock and a handler runs to its
end. That the programs are balanced is proved along their construction: one lemma
each for concatenation, for `Hold` and for `cli` to `sti`, then one line per
handler, system call and stage of `early_boot`.

`SyscallsProofs` proves the properties of the `files` run for every ramdisk, any
number of descriptors, all names, contents and sizes. `VfsAssumption` says that the
ramdisk holds regular files and that the files `early_boot` opens are in it, under
names other than the four entries the code makes itself. A descriptor records a
name and every call searches for it again, so the invariant is about what a search
finds: an entry of the recorded type (`Resolved`), whose bytes up to the offset
end with what was read since the last seek (`Contiguous`). `Kept` says that a step
leaves what a name finds in place up to growth; it has one lemma for each way the
list changes (appending, writing, removing), and removal leaves every
name but its own alone, which is enough because `unlink` closes the descriptors of
that name. `FilesGrow` is the same fact as an action
property.

`ShellProofs` proves `CommandsAsTyped` for every input and every interleaving of
keyboard interrupts with the shell's calls. The invariant says where each line
is: the first ones handled, at most one in the shell's buffer, the rest in the
terminal's queue, in the order typed. `ShellAssumption` says that buffer and
descriptors are below the sign bit of rax, where a result decodes as itself
(`SuccessDecodes`), and that a descriptor is free when the shell starts:
`early_boot` opens at most five files and the table has sixteen slots. Without a
free one, open fails with an error that decodes as descriptor 1 (the finding of
`abi`), and the shell would read from whatever is open there.

Only model-checked, by TLC on the instances above:

* all liveness (`ReadyRuns`, `TurnsAfterHeartbeat`, `LinesConsumed`), which needs
  reasoning about fairness and `ENABLED` that the prover does not have;
* `Console`: drawing and the reading of the screen fold over strings and rows, and
  what a fold computes for every input is an induction over data, which the
  installed provers cannot do;
* `Boot` with `Loader`, `Paging`, `Process` and `Ramdisk`, for the same reason
  (folds over page ranges, segments and the bytes of the image), except that
  `FramesFresh`, `NothingSkipped` and the agreement of the parsers are proved of the
  components by themselves.

## Not modelled

* SMP and ACPI: the loader hands over `rsdp_addr` 0, so no table is found and
  `start_aps` is never called; `signal_ap_ready` is called by `ap_entry` alone,
  which would run on the processors it starts.
* The PCI scan and the AHCI controller it sets up, serial output, LAPIC and I/O
  APIC registers: port and memory-mapped I/O. Nothing uses the controller
  afterwards (`read_blocks` is a stub).
* Code that is not compiled, since no `mod` names it: `kernel/src/shell.rs`,
  `context.rs`. Code nothing calls: `net.rs`, `ext2.rs`, `security`,
  `memory/user.rs`, `clone_user_mappings`
  without copy-on-write, `map_kernel_region`, `set_user_accessible`, `chdir`,
  `getcwd`, `read_char`. `fork` has no caller either, but is modelled, since it
  shares `create_process_pml4` with the programs.
* Colours, glyph bits and the checks on the font file; log messages; what the
  shell's commands print.
* That `scroll` fills with the background colour as it is, while `set_pixel`
  encodes it for the pixel format.
* Fragmentation of the heap (freed regions are never merged), about which the
  code promises nothing, and the contents of `KEYBOARD_BUFFER`, which has no
  reader.
* Faults of the kernel on user pointers, which panic.
* Limits that nothing in the code relates: frames above the 4 GiB of the direct
  map, ramdisk files against the size of the heap, page tables against the
  scratchpad for images larger than the instance's.
