-------------------------------- MODULE Boot --------------------------------
(***************************************************************************)
(* From the firmware to the first tasks: the loader of module Loader, then *)
(* early_boot of kernel/src/boot.rs in the order of its code, then the     *)
(* tasks that run in the address spaces it built.                          *)
(*                                                                         *)
(* Each stage of early_boot is an action.  A panic ends the boot.          *)
(***************************************************************************)
EXTENDS Loader, Process

CONSTANTS
    NameOf,       \* the bytes of the names of files the kernel opens
    KernelTasks,  \* Task::new calls of early_boot (3)
    MaxProcesses  \* bound: forks stop here

VARIABLES
    mounted,   \* the regular files of Vfs.entries
    offset,    \* offset of init_from_ramdisk
    console,   \* CONSOLE is Some
    processes, \* the processes in order of creation
    tasks      \* the tasks in order of their ids

bootVars == <<mounted, offset, console, processes, tasks>>
vars == <<loaderVars, frameVars, bootVars>>

kernel_pml4 == placed.scratchpad

\* The memory as the kernel finds it, and as an operation leaves it.
Now == Memory(tables, bytes, next_address, handed, "kernel")

Commit(mem, next) ==
    /\ tables' = mem.tables
    /\ bytes' = mem.bytes
    /\ next_address' = mem.next
    /\ handed' = mem.handed
    /\ phase' = IF mem.err = "none" THEN next ELSE "panic"
    /\ UNCHANGED <<scenario, ftype, placed, boot_info, memory_map>>

Stage(from, next) ==
    /\ phase = from
    /\ phase' = next
    /\ UNCHANGED <<scenario, ftype, placed, tables, bytes, boot_info, cr3, frameVars>>

-----------------------------------------------------------------------------
(* validate_boot_info, the memory of the kernel and the console *)

ValidateBootInfo ==
    FirstError(
      << <<boot_info.abi_version # ABI_VERSION, "Unsupported ABI version">>,
         <<boot_info.descriptors = 0, "descriptors pointer is null">>,
         <<boot_info.descriptors % DescAlign # 0, "descriptors not aligned">>,
         <<memory_map.map_size = 0, "Memory map is empty">>,
         <<memory_map.desc_size < DescSize, "descriptor size is too small">>,
         <<boot_info.physical_memory_offset < HIGHER_HALF, "offset too low">>,
         <<boot_info.kernel_image_base < KERNEL_REGION, "image base too low">>,
         <<boot_info.kernel_image_size = 0, "image size cannot be zero">>,
         <<boot_info.ramdisk_size > 0 /\ boot_info.ramdisk_addr = 0,
           "ramdisk address is null">>,
         <<boot_info.ramdisk_addr # 0 /\ boot_info.ramdisk_size = 0,
           "ramdisk size is null">> >>)

Validate ==
    /\ Stage("validate", IF ValidateBootInfo = "ok" THEN "heap" ELSE "panic")
    /\ UNCHANGED bootVars

SetupHeap ==
    /\ phase = "heap"
    /\ Commit(InitHeap(Now, kernel_pml4), "stack_region")
    /\ UNCHANGED <<cr3, bootVars>>

SetupStackRegion ==
    /\ phase = "stack_region"
    /\ Commit(InitKernelStackRegion(Now, kernel_pml4), "vfs")
    /\ UNCHANGED <<cr3, bootVars>>

-----------------------------------------------------------------------------
(* Vfs::init_from_ramdisk, one round of its loop at a time *)

\* The ramdisk as the kernel reads it through its page tables.
KernelReads(address) ==
    LET content == bytes[Phys(tables, cr3, address)]
    IN  IF content[1] = "ramdisk" THEN RamdiskImage[content[2] + 1] ELSE 0

RamdiskData ==
    [k \in 1..boot_info.ramdisk_size |->
        KernelReads(boot_info.ramdisk_addr + k - 1)]

ReadEntry ==
    /\ phase = "vfs"
    /\ LET data == RamdiskData
       IN  IF boot_info.ramdisk_addr # 0 /\ HasHeader(data, offset)
              /\ FileFits(data, offset)
           THEN /\ mounted' = Append(mounted, FileAt(data, offset))
                /\ offset' = NextOffset(data, offset)
                /\ UNCHANGED phase
           ELSE phase' = "console" /\ UNCHANGED <<mounted, offset>>
    /\ UNCHANGED <<scenario, ftype, placed, tables, bytes, boot_info, cr3,
                   frameVars, console, processes, tasks>>

\* The files of that name; open takes the first.
Found(name) == {k \in DOMAIN mounted : mounted[k].name = NameOf[name]}

\* A font that parses turns the console on.
InitConsole ==
    /\ Stage("console", "init")
    /\ console' = (Found("font") # {} /\ scenario.font)
    /\ UNCHANGED <<mounted, offset, processes, tasks>>

-----------------------------------------------------------------------------
(* Processes and tasks *)

\* The file as the ELF parser sees it.
NotElf(data) == [len |-> Len(data), magic |-> FALSE, class |-> 0,
                 endian |-> "other", type |-> "other", machine |-> "other",
                 version |-> 0, phentsize |-> 0, phoff |-> 0, phnum |-> 0,
                 headers |-> <<>>]
ElfOf(data) ==
    IF data \in DOMAIN scenario.elf THEN scenario.elf[data] ELSE NotElf(data)

\* Process::new_from_elf(...).expect(...), Task::new_user and add_task.
LoadProgram(name, next) ==
    LET image == ElfOf(mounted[Min(Found(name))].data)
    IN  /\ \E process \in {NewFromElf(Now, cr3, image, name)} :
           \E mem \in {Then(process.mem, LAMBDA m :
                           NewUserTask(m, kernel_pml4, process.pml4, Len(tasks) + 1))} :
              /\ Commit(mem, next)
              /\ IF mem.err # "none" THEN UNCHANGED <<processes, tasks>>
                 ELSE /\ processes' = Append(processes,
                           [pml4 |-> process.pml4, image |-> image, name |-> name])
                      /\ tasks' = Append(tasks, process.pml4)
        /\ UNCHANGED <<cr3, mounted, offset, console>>

\* Without init the other programs are not looked for.
LoadInit ==
    /\ phase = "init"
    /\ IF Found("init") = {}
       THEN Stage("init", "tasks") /\ UNCHANGED bootVars
       ELSE LoadProgram("init", "shell")

LoadShell ==
    /\ phase = "shell"
    /\ IF Found("shell") = {}
       THEN Stage("shell", "fault-tester") /\ UNCHANGED bootVars
       ELSE LoadProgram("shell", "fault-tester")

LoadFaultTester ==
    /\ phase = "fault-tester"
    /\ IF Found("fault-tester") = {}
       THEN Stage("fault-tester", "tasks") /\ UNCHANGED bootVars
       ELSE LoadProgram("fault-tester", "tasks")

\* heartbeat, worker and idle.
AddKernelTask ==
    /\ phase = "tasks"
    /\ LET added == Cardinality({k \in DOMAIN tasks : tasks[k] = kernel_pml4}) + 1
       IN  \E mem \in {NewTask(Now, kernel_pml4, Len(tasks) + 1)} :
              /\ Commit(mem, IF added = KernelTasks THEN "running" ELSE "tasks")
              /\ tasks' = IF mem.err = "none" THEN Append(tasks, kernel_pml4) ELSE tasks
    /\ UNCHANGED <<cr3, mounted, offset, console, processes>>

-----------------------------------------------------------------------------
(* The running system, as far as address spaces go *)

\* Task::switch_to of whichever task the scheduler picks.
SwitchTo ==
    /\ phase = "running"
    /\ \E k \in DOMAIN tasks : cr3' = tasks[k]
    /\ UNCHANGED <<phase, scenario, ftype, placed, tables, bytes, boot_info,
                   frameVars, bootVars>>

\* The current address space maps these physical addresses at themselves.
Identity(addresses) ==
    \A a \in addresses : /\ Mapped(tables, cr3, PageOf(a))
                         /\ Phys(tables, cr3, a) = a

\* The kernel draws a character: an interrupt echoes a key, or a task writes to
\* the terminal.  The framebuffer is addressed by its physical address.
Draw ==
    /\ phase = "running" /\ console
    /\ phase' = IF Identity({scenario.framebuffer}) THEN "running" ELSE "kernel_fault"
    /\ UNCHANGED <<scenario, ftype, placed, tables, bytes, boot_info, cr3,
                   frameVars, bootVars>>

\* Process::fork.  The frame allocator reads BootInfo and the memory map at
\* their physical addresses.
ForkProcess ==
    /\ phase = "running"
    /\ Len(processes) < MaxProcesses
    /\ \E k \in DOMAIN processes :
          IF Identity({placed.boot_info, boot_info.descriptors})
          THEN \E child \in {Fork(Now, cr3, processes[k].pml4)} :
                 /\ Commit(child.mem, "running")
                 /\ processes' =
                      IF child.mem.err # "none" THEN processes
                      ELSE Append(processes, [processes[k] EXCEPT !.pml4 = child.pml4])
          ELSE /\ phase' = "kernel_fault"
               /\ UNCHANGED <<scenario, ftype, placed, tables, bytes, boot_info,
                              frameVars, processes>>
    /\ UNCHANGED <<cr3, mounted, offset, console, tasks>>

-----------------------------------------------------------------------------
Init ==
    /\ LoaderInit
    /\ mounted = <<>>
    /\ offset = 0
    /\ console = FALSE
    /\ processes = <<>>
    /\ tasks = <<>>

EarlyBoot ==
    \/ Validate \/ SetupHeap \/ SetupStackRegion \/ ReadEntry \/ InitConsole
    \/ LoadInit \/ LoadShell \/ LoadFaultTester \/ AddKernelTask

Next ==
    \/ LoaderNext /\ UNCHANGED bootVars
    \/ EarlyBoot
    \/ SwitchTo \/ Draw \/ ForkProcess

Spec == Init /\ [][Next]_vars

-----------------------------------------------------------------------------
(* Properties of the loader *)

\* The frames of an allocation of the loader.
Span(start, pages) == {start + k * PageSize : k \in 0..(pages - 1)}

Allocations ==
    << Span(placed.kernel, PageCount(scenario.kernel)),
       Span(placed.ramdisk, PagesFor(Len(RamdiskImage))),
       Span(placed.boot_info, 1),
       Span(placed.scratchpad, ScratchPages),
       Span(placed.map_buffer, placed.map_pages) >>

InKernel == memory_map.map_size # 0

\* The variables have their types; the reader of the ramdisk stays inside it,
\* and processes and tasks have page tables.
TypeOK ==
    /\ phase \in {"load_kernel", "load_ramdisk", "boot_info", "scratchpad",
                  "map_buffer", "setup_mappings", "exit", "handoff", "validate",
                  "heap", "stack_region", "vfs", "console", "init", "shell",
                  "fault-tester", "tasks", "running", "panic", "kernel_fault"}
    /\ ftype \in [PhysFrames -> MemoryType \cup {"none"}]
    /\ memory_map \in MemoryMap
    /\ next_address \in 0..MaxAddress
    /\ offset \in 0..Len(RamdiskImage)
    /\ \A t \in DOMAIN tables : \A i \in DOMAIN tables[t] :
          tables[t][i].flags \subseteq Flags
    /\ \A k \in DOMAIN processes : processes[k].pml4 \in DOMAIN tables
    /\ \A k \in DOMAIN tasks : tasks[k] \in DOMAIN tables

\* What the loader leaves for the kernel (its image, the ramdisk, BootInfo, the
\* page tables and the memory map) never overlaps, and the frame allocator of
\* the kernel never hands a frame of it out (allocate_physical_frame treats
\* LOADER_DATA as taken).
LoaderDataKept ==
    InKernel =>
        /\ \A i, j \in DOMAIN Allocations :
              i # j => Allocations[i] \cap Allocations[j] = {}
        /\ HandedSet \cap UNION {Allocations[k] : k \in DOMAIN Allocations} = {}

\* The buffers the loader sized beforehand hold what is written to them later:
\* the memory map, which grew by the allocations made after it was measured,
\* and the page tables of setup_mappings, whose allocator checks no limit.
BuffersHold ==
    /\ InKernel => memory_map.map_size <= placed.map_pages * PageSize
    /\ placed.scratch_end <= placed.scratchpad + ScratchPages * PageSize

\* The loader's parser and the kernel's accept the same files, but for the
\* version and the alignment only the loader asks for: a program header that
\* one takes to be inside the file is inside for the other.
ParsersAgree ==
    \A image \in {scenario.kernel} \cup {scenario.elf[d] : d \in DOMAIN scenario.elf} :
        AgreeOn(image)

\* Behind every virtual address of the kernel image is, in the page tables the
\* loader hands over, the byte the ELF file puts there: the file's, or zero
\* (load_kernel and setup_mappings).
KernelPlaced ==
    phase = "validate" =>
        \A v \in VirtualBase(scenario.kernel)..(VirtualEnd(scenario.kernel) - 1) :
            LET holders == {k \in Loads(scenario.kernel) :
                    LET ph == SegmentAt(scenario.kernel, k)
                    IN  v - ph.virtual_address \in 0..(ph.file_size - 1)}
                content == bytes[Phys(tables, cr3, v)]
            IN  IF holders = {} THEN content = ZeroByte
                ELSE LET ph == SegmentAt(scenario.kernel, Max(holders))
                     IN  content = FileByte("kernel",
                                     ph.file_offset + v - ph.virtual_address)

-----------------------------------------------------------------------------
(* Properties of the kernel's memory *)

\* The files the kernel mounts are the files packed into the ramdisk, in order
\* and byte for byte, a name cut to what its field holds beside a zero.
RamdiskFaithful ==
    phase \in {"console", "init"} =>
        mounted = [k \in DOMAIN scenario.files |->
            [name |-> SubSeq(scenario.files[k].name, 1,
                             Min({Len(scenario.files[k].name), NameField - 1})),
             data |-> scenario.files[k].data]]

\* The pages of the kernel that every address space must see.
KernelPages ==
    {PageOf(boot_info.kernel_image_base) + k : k \in 0..(PageCount(scenario.kernel) - 1)}
    \cup ToSet(PageRange(HEAP_START, HEAP_SIZE))
    \cup {PageOf(PHYSICAL_MEMORY_OFFSET) + k * Radix : k \in 0..(DirectPages - 1)}
    \cup UNION {ToSet(StackPagesOf(id)) : id \in DOMAIN tasks}

\* Every process sees the kernel as the kernel does: its image, heap, direct map
\* and the kernel stacks of all tasks, those created after the process
\* included, and may not touch any of it from user mode.
KernelHalfShared ==
    \A k \in DOMAIN processes : \A page \in KernelPages :
        /\ Mapped(tables, kernel_pml4, page)
        /\ Walk(tables, processes[k].pml4, page) = Walk(tables, kernel_pml4, page)
        /\ ~Allows(tables, kernel_pml4, page, "USER")

\* A kernel stack overflows into an unmapped page: the guard below each stack
\* is mapped in no address space, and no two stacks share a frame.
StacksGuarded ==
    /\ \A id \in DOMAIN tasks : \A root \in ToSet(tasks) :
          ~Mapped(tables, root, PageOf(UsableStackStart(id)) - 1)
    /\ \A i, j \in DOMAIN tasks : \A p \in ToSet(StackPagesOf(i)), q \in ToSet(StackPagesOf(j)) :
          p # q => FrameOf(tables, kernel_pml4, p) # FrameOf(tables, kernel_pml4, q)

\* The pages of the lower half of an address space.
UserPages(root) ==
    LET Below(entries) ==
            UNION {{<<e[1] * Radix + i, tables[e[2]][i].frame>> :
                        i \in DOMAIN tables[e[2]]} : e \in entries}
        p3 == {<<i, tables[root][i].frame>> : i \in LowerHalf \cap DOMAIN tables[root]}
    IN  {e[1] : e \in Below(Below(Below(p3)))}

\* The frames a process reaches from user mode, and those it may write.
Reached(root) == {FrameOf(tables, root, page) : page \in UserPages(root)}
Writable(root) ==
    {FrameOf(tables, root, page) : page \in
        {p \in UserPages(root) : Allows(tables, root, p, "WRITABLE")}}

\* The frames the kernel allocated for its heap, its stacks and the page at the
\* base of their region.
KernelFrames ==
    {FrameOf(tables, kernel_pml4, page) : page \in
        ToSet(PageRange(HEAP_START, HEAP_SIZE))
        \cup {PageOf(KERNEL_STACK_REGION_BASE)}
        \cup UNION {ToSet(StackPagesOf(id)) : id \in DOMAIN tasks}}

\* One program is loaded per name; the later processes of that name are forks.
SameProgram(j, k) == processes[j].name = processes[k].name
Forked(k) == \E j \in 1..(k - 1) : SameProgram(j, k)

\* Address spaces are isolated.  What a process reaches from user mode is
\* neither a page table, nor loader data, nor a frame of the kernel's heap and
\* stacks, and processes of different programs share no frame.  A fork has the
\* pages of its program on the same frames and may write none of them.  The
\* program it was forked from still may: clone_table_level takes WRITABLE from
\* the clone alone, so a fork is no snapshot and sees what its parent writes
\* later, although the comments there speak of copy-on-write.
UserIsolation ==
    \A k \in DOMAIN processes :
        LET root == processes[k].pml4
        IN  /\ Reached(root) \subseteq HandedSet
            /\ Reached(root) \cap (DOMAIN tables \cup KernelFrames) = {}
            /\ \A j \in 1..(k - 1) :
                  LET earlier == processes[j].pml4
                  IN  IF SameProgram(j, k)
                      THEN /\ UserPages(root) = UserPages(earlier)
                           /\ \A page \in UserPages(root) :
                                 FrameOf(tables, root, page) = FrameOf(tables, earlier, page)
                           /\ Writable(root) = {}
                           /\ ~Forked(j) => Writable(earlier) # {}
                      ELSE Reached(root) \cap Reached(earlier) = {}

\* No entry on the way to the page forbids to execute it.
Executable(root, page) ==
    \A k \in DOMAIN Walk(tables, root, page) : "NX" \notin Walk(tables, root, page)[k].flags

\* A process finds its program in memory: the bytes of every segment are those
\* of the file and zeros behind them, also where segments meet inside a page.
\* Every page has exactly the rights of its segment, of the first one if
\* segments meet in it (map_user_region skips a page that is mapped): it is open
\* to user mode, it is writable if the segment is and the process is no fork,
\* and it is executable if the segment is.
ImageLoaded ==
    \A k \in DOMAIN processes :
        LET image == processes[k].image
            root == processes[k].pml4
            PagesOf(i) == ToSet(PageRange(SegmentAt(image, i).virtual_address,
                                          SegmentAt(image, i).memory_size))
            filled == {i \in Loads(image) : SegmentAt(image, i).memory_size > 0}
            Rights(page) ==
                SegmentAt(image, Min({i \in filled : page \in PagesOf(i)})).flags
        IN  phase # "panic" => \A i \in filled :
              LET ph == SegmentAt(image, i)
              IN  /\ \A b \in 0..(ph.memory_size - 1) :
                        bytes[Phys(tables, root, ph.virtual_address + b)] =
                            IF b < ph.file_size
                            THEN FileByte(processes[k].name, ph.file_offset + b)
                            ELSE ZeroByte
                  /\ \A page \in PagesOf(i) :
                        /\ Allows(tables, root, page, "USER")
                        /\ Allows(tables, root, page, "WRITABLE")
                              <=> "W" \in Rights(page) /\ ~Forked(k)
                        /\ Executable(root, page) <=> "X" \in Rights(page)

\* A machine with enough memory, booting well-formed files, does not panic on
\* its way: no mapping of the loader or the kernel collides with another, also
\* where two segments share a page, and every buffer and table is there when it
\* is used.
BootSucceeds == scenario.boots => phase # "panic"

\* The kernel reaches what it uses in whichever address space it runs.
KernelNeverFaults == phase # "kernel_fault"

=============================================================================
