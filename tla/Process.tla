------------------------------ MODULE Process ------------------------------
(***************************************************************************)
(* Address spaces of processes and kernel stacks of tasks:                 *)
(* kernel/src/process.rs, the constructors of kernel/src/task/mod.rs and   *)
(* init_heap of kernel/src/memory/heap.rs, as operators on the memory of   *)
(* module Paging.  An operator whose code panics leaves the reason in err. *)
(***************************************************************************)
EXTENDS Paging, Elf

CONSTANTS
    USER_STACK,               \* 0x7000_0000_0000
    UserStackPages,           \* 8
    KERNEL_STACK_REGION_BASE,
    STACK_PAGES,              \* 8
    GUARD_PAGES,              \* 1
    HEAP_START,
    HEAP_SIZE

\* The steps of a loop that the first failure ends.
Each(Step(_, _), mem, items) ==
    FoldLeft(LAMBDA m, x : IF m.err = "none" THEN Step(m, x) ELSE m, mem, items)

-----------------------------------------------------------------------------
(* Kernel memory *)

\* init_heap: every page of the heap gets a frame.
InitHeap(mem, root) ==
    Each(LAMBDA m, page : MapFresh(m, root, page, KernelPage), mem,
         PageRange(HEAP_START, HEAP_SIZE))

\* Mutant: the region is left to the first stack.
InitKernelStackRegionNone(mem, root) == mem

\* init_kernel_stack_region: a page at the base, so that the PML4 entry of the
\* region exists before the first process copies it.
InitKernelStackRegion(mem, root) ==
    LET anchor == PageOf(KERNEL_STACK_REGION_BASE)
    IN  IF Mapped(mem.tables, root, anchor) THEN mem
        ELSE Then(Allocate(mem), LAMBDA a :
                 Ignoring(MapTo(a, root, anchor, a.got, KernelPage)))

\* Mutant: no room for the guard between the stacks.
StrideTight == STACK_PAGES * PageSize

STACK_STRIDE == (STACK_PAGES + GUARD_PAGES + 1) * PageSize

UsableStackStart(id) ==
    KERNEL_STACK_REGION_BASE + id * STACK_STRIDE + GUARD_PAGES * PageSize
StackTop(id) == UsableStackStart(id) + STACK_PAGES * PageSize
StackPagesOf(id) == PageRange(UsableStackStart(id), STACK_PAGES * PageSize)

\* The initial frame is written below the top of the stack.
WriteFrame(mem, root, id) ==
    IF mem.err = "none" /\ ~Mapped(mem.tables, root, PageOf(StackTop(id) - 1))
    THEN Fail(mem, "page fault") ELSE mem

\* Task::new.
NewTask(mem, root, id) ==
    WriteFrame(Each(LAMBDA m, page : MapFresh(m, root, page, KernelPage), mem,
                    StackPagesOf(id)),
               root, id)

\* Task::new_user: one frame, mapped in the kernel's tables and again in the
\* process's.  Errors of map_to are taken to mean that the page is mapped.
NewUserTask(mem, root, pml4, id) ==
    LET Map(m, table, page, frame) ==
            Ignoring(MapTo(m, table, page, frame, KernelPage))
        Step(m, page) ==
            Then(Allocate(m), LAMBDA a :
                Map(Map(a, root, page, a.got), pml4, page, a.got))
    IN  WriteFrame(Each(Step, mem, StackPagesOf(id)), root, id)

-----------------------------------------------------------------------------
(* Process::map_user_region and Process::new_from_elf *)

\* Mutant: every page gets a frame, mapped or not.
MapUserRegionAlways(mem, pml4, virt, size, extra) ==
    Each(LAMBDA m, page : MapFresh(m, pml4, page, {"PRESENT", "USER"} \cup extra),
         mem, PageRange(virt, size))

\* Pages that are mapped already keep their frame and their flags.
MapUserRegion(mem, pml4, virt, size, extra) ==
    LET flags == {"PRESENT", "USER"} \cup extra
        Step(m, page) == IF Mapped(m.tables, pml4, page) THEN m
                         ELSE MapFresh(m, pml4, page, flags)
        top == Indices(PageOf(virt))[1]
    IN  Then(Each(Step, mem, PageRange(virt, size)), LAMBDA region :
            [region EXCEPT !.tables[pml4][top].flags = @ \cup {"USER"}])

\* The physical address behind a virtual one: translate_addr.
Phys(tables, root, virt) ==
    FrameOf(tables, root, PageOf(virt)) + (virt % PageSize)

\* The contents, a function on offsets from virt, are written page by page.
Store(mem, root, virt, contents) ==
    [mem EXCEPT !.bytes =
        [a \in {Phys(mem.tables, root, virt + k) : k \in DOMAIN contents} |->
            contents[CHOOSE k \in DOMAIN contents :
                        Phys(mem.tables, root, virt + k) = a]] @@ @]

\* n bytes of a file, and n zeros.
FromFile(name, start, n) == [k \in 0..(n - 1) |-> FileByte(name, start + k)]
Zeros(n) == [k \in 0..(n - 1) |-> ZeroByte]

SegmentFlags(ph) ==
    (IF "W" \in ph.flags THEN {"WRITABLE"} ELSE {})
    \cup (IF "X" \in ph.flags THEN {} ELSE {"NX"})

\* Mutant: the pages of a segment are zeroed before its bytes are copied.
LoadSegmentZeroing(mem, pml4, image, name, index) ==
    LET ph == SegmentAt(image, index)
        pages == PageRange(ph.virtual_address, ph.memory_size)
        mapped == MapUserRegion(mem, pml4, ph.virtual_address, ph.memory_size,
                                SegmentFlags(ph))
        zeroed == Store(mapped, pml4, pages[1] * PageSize,
                        Zeros(Len(pages) * PageSize))
    IN  IF ParseProgramHeader(image, index) # "ok"
        THEN Fail(mem, ParseProgramHeader(image, index))
        ELSE IF ~IsLoad(image, index) \/ ph.memory_size = 0 THEN mem
        ELSE IF PastFile(image, ph) THEN Fail(mem, "ProgramHeaderOutOfBounds")
        ELSE IF mapped.err # "none" THEN mapped
        ELSE Store(zeroed, pml4, ph.virtual_address,
                   FromFile(name, ph.file_offset, ph.file_size))

\* One round of the loop over the program headers.
LoadSegment(mem, pml4, image, name, index) ==
    LET ph == SegmentAt(image, index)
        Copied(m) == Store(m, pml4, ph.virtual_address,
                           FromFile(name, ph.file_offset, ph.file_size))
        Zeroed(m) == Store(m, pml4, ph.virtual_address + ph.file_size,
                           Zeros(ph.memory_size - ph.file_size))
    IN  IF ParseProgramHeader(image, index) # "ok"
        THEN Fail(mem, ParseProgramHeader(image, index))
        ELSE IF ~IsLoad(image, index) THEN mem
        ELSE IF ph.memory_size = 0 THEN mem
        ELSE IF PastFile(image, ph) THEN Fail(mem, "ProgramHeaderOutOfBounds")
        ELSE Then(MapUserRegion(mem, pml4, ph.virtual_address, ph.memory_size,
                                SegmentFlags(ph)),
                  LAMBDA mapped : Zeroed(Copied(mapped)))

\* The stack and the segments of a process whose PML4 has been created.
FillProcess(created, image, name) ==
    LET pml4 == created.got
        Segments(m) ==
            Each(LAMBDA n, k : LoadSegment(n, pml4, image, name, k), m,
                 Range0(image.phnum))
    IN  IF created.err # "none" THEN [mem |-> created, pml4 |-> NoFrame]
        ELSE [mem |-> Then(MapUserRegion(created, pml4, USER_STACK,
                                         UserStackPages * PageSize, {"WRITABLE"}),
                           Segments),
              pml4 |-> pml4]

\* The process is the memory and its root; current is the root in CR3.
NewFromElf(mem, current, image, name) ==
    IF ParseHeader(image) # "ok"
    THEN [mem |-> Fail(mem, ParseHeader(image)), pml4 |-> NoFrame]
    ELSE FillProcess(CreateProcessPml4(mem, current), image, name)

ForkInto(created, parent) ==
    IF created.err # "none" THEN [mem |-> created, pml4 |-> NoFrame]
    ELSE [mem |-> CloneUserMappingsCow(created, parent, created.got),
          pml4 |-> created.got]

\* Process::fork.
Fork(mem, current, parent) == ForkInto(CreateProcessPml4(mem, current), parent)

=============================================================================
