------------------------------- MODULE Loader -------------------------------
(***************************************************************************)
(* The UEFI boot loader: main and setup_mappings of                        *)
(* boot/uefi-loader/src/main.rs and load_kernel of its elf.rs.             *)
(*                                                                         *)
(* The firmware is a type for every physical frame, an allocator that may  *)
(* answer from either end of the free memory, and the identity mapping it  *)
(* leaves behind.  Every allocate_pages is an action, because each changes *)
(* the memory map the next ones and the kernel see.                        *)
(***************************************************************************)
EXTENDS Paging, Elf, Ramdisk

CONSTANTS
    FrameCount,             \* physical frames, devices included
    ScratchPages,           \* scratchpad_pages (256)
    DirectPages,            \* huge pages of the direct map (2048)
    DescAlign,              \* alignment of the descriptors (8)
    PHYSICAL_MEMORY_OFFSET,
    RAMDISK_VIRTUAL_BASE,
    KERNEL_REGION,          \* 0xffff_ffff_8000_0000
    HIGHER_HALF,            \* 0xffff_8000_0000_0000
    Scenarios               \* machines and boot media

\* The direct map fills whole directories.
ASSUME LoaderAssumption == DirectPages % Radix = 0

ABI_VERSION == 3

VARIABLES
    phase,     \* the step of the boot that comes next
    scenario,  \* the machine and the medium it boots from
    ftype,     \* the firmware's type of every frame
    placed,    \* the addresses of the loader's allocations
    tables,    \* every page table, by the address of its frame
    bytes,     \* contents of the bytes the loader and the kernel wrote
    boot_info, \* BootInfo, but for the memory map
    cr3        \* the root in use

loaderVars == <<phase, scenario, ftype, placed, tables, bytes, boot_info, cr3>>

Panic == phase' = "panic"

-----------------------------------------------------------------------------
(* The firmware *)

PhysFrames == 0..(FrameCount - 1)
Address(frame) == frame * PageSize

\* The places where n free frames lie side by side.
Gaps(n) ==
    {f \in PhysFrames : \A k \in 0..(n - 1) :
        f + k \in PhysFrames /\ ftype[f + k] = "conventional"}

\* allocate_pages(AnyPages, LOADER_DATA, n) from one end of the memory or the
\* other, as the firmware of the scenario chooses.
Answers(n) ==
    IF Gaps(n) = {} THEN {}
    ELSE {IF end = "low" THEN Min(Gaps(n)) ELSE Max(Gaps(n)) : end \in scenario.ends}

Take(f, n) ==
    ftype' = [k \in PhysFrames |-> IF k \in f..(f + n - 1) THEN "loader_data"
                                   ELSE ftype[k]]

\* One descriptor for every run of frames of one type, in address order or
\* with the first ones last.
Runs ==
    LET Starts(f) == ftype[f] # "none" /\ (f > 0 => ftype[f - 1] # ftype[f])
        Size(f) == Cardinality({g \in f..(FrameCount - 1) :
                                  \A k \in f..g : ftype[k] = ftype[f]})
        starts == SelectSeq(Range0(FrameCount), Starts)
        map == [k \in DOMAIN starts |->
                  [ty |-> ftype[starts[k]], phys_start |-> Address(starts[k]),
                   page_count |-> Size(starts[k])]]
        n == scenario.rotate
    IN  SubSeq(map, n + 1, Len(map)) \o SubSeq(map, 1, n)

\* The firmware maps the low half by an identity of its own.
FirmwareTables ==
    (scenario.firmware :>
        [i \in 0..(Radix - 1) |->
            Entry(Address(i * Radix * Radix), KernelPage \cup {"HUGE"})])

-----------------------------------------------------------------------------
(* load_kernel and the ramdisk *)

\* Bytes start to start + n - 1 are those of a file from offset on.
CopyFile(memory, start, file, offset, n) ==
    [a \in start..(start + n - 1) |-> FileByte(file, offset + a - start)] @@ memory

\* write_bytes(start, 0, n).
ZeroBytes(memory, start, n) == [a \in start..(start + n - 1) |-> ZeroByte] @@ memory

\* Mutant: a segment is placed at its offset in the file.
DestinationByOffset(image, base, ph) == base + ph.file_offset

\* Where a segment goes in the image at base.
Destination(image, base, ph) == base + ph.virtual_address - VirtualBase(image)

\* The second loop of load_kernel.
CopySegments(image, base) ==
    LET Step(memory, k) ==
            LET ph == SegmentAt(image, k)
            IN  IF ~IsLoad(image, k) THEN memory
                ELSE CopyFile(memory, Destination(image, base, ph), "kernel",
                              ph.file_offset, ph.file_size)
    IN  FoldLeft(Step, ZeroBytes(bytes, base, PageCount(image) * PageSize),
                 Range0(image.phnum))

LoadKernel ==
    /\ phase = "load_kernel"
    /\ LET image == scenario.kernel
       IN  IF LayoutError(image) # "ok" \/ Answers(PageCount(image)) = {}
           THEN Panic /\ UNCHANGED <<ftype, placed, bytes>>
           ELSE \E f \in Answers(PageCount(image)) :
                  /\ Take(f, PageCount(image))
                  /\ IF CopyError(image) # "ok"
                     THEN Panic /\ UNCHANGED <<placed, bytes>>
                     ELSE /\ placed' = [placed EXCEPT !.kernel = Address(f)]
                          /\ bytes' = CopySegments(image, Address(f))
                          /\ phase' = "load_ramdisk"
    /\ UNCHANGED <<scenario, tables, boot_info, cr3, frameVars>>

\* The bytes of the ramdisk file; a file that cannot be read counts as empty.
RamdiskImage == Pack(scenario.files)

LoadRamdisk ==
    /\ phase = "load_ramdisk"
    /\ LET size == Len(RamdiskImage)
       IN  IF size = 0
           THEN phase' = "boot_info" /\ UNCHANGED <<ftype, placed, bytes>>
           ELSE IF Answers(PagesFor(size)) = {}
           THEN Panic /\ UNCHANGED <<ftype, placed, bytes>>
           ELSE \E f \in Answers(PagesFor(size)) :
                  /\ Take(f, PagesFor(size))
                  /\ placed' = [placed EXCEPT !.ramdisk = Address(f)]
                  /\ bytes' = CopyFile(bytes, Address(f), "ramdisk", 0, size)
                  /\ phase' = "boot_info"
    /\ UNCHANGED <<scenario, tables, boot_info, cr3, frameVars>>

-----------------------------------------------------------------------------
(* The allocations that outlive the loader *)

\* allocate_pages(...).expect(...) of n pages, remembered as item.
Allocation(item, n, next) ==
    /\ IF Answers(n) = {}
       THEN Panic /\ UNCHANGED <<ftype, placed>>
       ELSE \E f \in Answers(n) :
              /\ Take(f, n)
              /\ placed' = [placed EXCEPT ![item] = Address(f)]
              /\ phase' = next
    /\ UNCHANGED <<scenario, tables, bytes, boot_info, cr3, frameVars>>

AllocateBootInfo == phase = "boot_info" /\ Allocation("boot_info", 1, "scratchpad")

AllocateScratchpad ==
    phase = "scratchpad" /\ Allocation("scratchpad", ScratchPages, "map_buffer")

\* Mutant: the buffer holds the map as it is now.
MapBufferPagesExact == PagesFor(Len(Runs) * scenario.desc_size)

\* The map of this moment and a page more.
MapBufferPages == PagesFor(Len(Runs) * scenario.desc_size) + 1

AllocateMapBuffer ==
    /\ phase = "map_buffer"
    /\ IF Answers(MapBufferPages) = {}
       THEN Panic /\ UNCHANGED <<ftype, placed>>
       ELSE \E f \in Answers(MapBufferPages) :
              /\ Take(f, MapBufferPages)
              /\ placed' = [placed EXCEPT !.map_buffer = Address(f),
                                          !.map_pages = MapBufferPages]
              /\ phase' = "setup_mappings"
    /\ UNCHANGED <<scenario, tables, bytes, boot_info, cr3, frameVars>>

-----------------------------------------------------------------------------
(* setup_mappings *)

\* Where the scratch allocator starts: behind the PML4.
ScratchStart == placed.scratchpad + PageSize

\* size bytes from virt on, mapped to the frames from phys on.
MapLinear(mem, root, virt, phys, size) ==
    LET Step(m, i) ==
            IF m.err # "none" THEN m
            ELSE MapTo(m, root, PageOf(virt) + i,
                       phys + i * PageSize, KernelPage)
    IN  FoldLeft(Step, mem, Range0(PagesFor(size)))

\* The huge pages of the direct map.  They fill whole directories, so that the
\* tables are looked up once for each.
MapDirect(mem, root) ==
    LET Step(m, d) ==
            LET index == Indices(PageOf(PHYSICAL_MEMORY_OFFSET) + d * Radix * Radix)
                Descend(n, level) ==
                    CreateNextTable(n, index[level], KernelPage)
                directory == [k \in 0..(Radix - 1) |->
                    Entry(Address((d * Radix + k) * Radix), KernelPage \cup {"HUGE"})]
            IN  IF m.err # "none" THEN m
                ELSE Then(Descend(Descend([m EXCEPT !.at = root], 1), 2), LAMBDA p2 :
                         [p2 EXCEPT !.tables[p2.at] = directory])
    IN  FoldLeft(Step, mem, Range0(DirectPages \div Radix))

SetupMappings ==
    LET root == placed.scratchpad
        cloned == (root :> (0 :> Entry(scenario.firmware, KernelPage)))
                  @@ FirmwareTables
        image == scenario.kernel
        MapKernel(m) == MapLinear(m, root, VirtualBase(image), placed.kernel,
                                  ImageSize(image))
        MapRamdisk(m) == MapLinear(m, root, RAMDISK_VIRTUAL_BASE, placed.ramdisk,
                                   Len(RamdiskImage))
    IN  Then(Then(MapKernel(Memory(cloned, bytes, ScratchStart, <<>>, "scratchpad")), MapRamdisk),
             LAMBDA m : MapDirect(m, root))

BuildMappings ==
    /\ phase = "setup_mappings"
    /\ \E mem \in {SetupMappings} :
          /\ tables' = mem.tables
          /\ placed' = [placed EXCEPT !.scratch_end = mem.next]
          /\ phase' = IF mem.err = "none" THEN "exit" ELSE "panic"
    /\ UNCHANGED <<scenario, ftype, bytes, boot_info, cr3, frameVars>>

-----------------------------------------------------------------------------
(* exit_boot_services, BootInfo and the jump *)

\* The library keeps the final map in a page of its own, then the firmware is
\* gone.
ExitBootServices ==
    /\ phase = "exit"
    /\ IF Answers(1) = {} THEN Panic /\ UNCHANGED ftype
       ELSE /\ \E f \in Answers(1) : Take(f, 1)
            /\ phase' = "handoff"
    /\ UNCHANGED <<scenario, placed, tables, bytes, boot_info, cr3, frameVars>>

RamdiskAddress ==
    IF Len(RamdiskImage) > 0 THEN RAMDISK_VIRTUAL_BASE ELSE 0

Handoff ==
    /\ phase = "handoff"
    /\ memory_map' = [null |-> FALSE, map_size |-> Len(Runs) * scenario.desc_size,
                      desc_size |-> scenario.desc_size, at |-> Runs]
    /\ boot_info' = [abi_version |-> ABI_VERSION,
                     descriptors |-> placed.map_buffer,
                     kernel_image_base |-> VirtualBase(scenario.kernel),
                     kernel_image_size |-> ImageSize(scenario.kernel),
                     physical_memory_offset |-> PHYSICAL_MEMORY_OFFSET,
                     ramdisk_addr |-> RamdiskAddress,
                     ramdisk_size |-> Len(RamdiskImage),
                     framebuffer |-> scenario.framebuffer]
    /\ cr3' = placed.scratchpad
    /\ phase' = "validate"
    /\ UNCHANGED <<scenario, ftype, placed, tables, bytes, next_address, handed>>

LoaderInit ==
    /\ phase = "load_kernel"
    /\ scenario \in Scenarios
    /\ ftype = scenario.layout
    /\ placed = [kernel |-> 0, ramdisk |-> 0, boot_info |-> 0, scratchpad |-> 0,
                 map_buffer |-> 0, map_pages |-> 0, scratch_end |-> 0]
    /\ tables = FirmwareTables
    /\ bytes = <<>>
    /\ boot_info = [abi_version |-> 0]
    /\ cr3 = 0
    /\ memory_map = [null |-> TRUE, map_size |-> 0, desc_size |-> 0, at |-> <<>>]
    /\ next_address = LowMemoryCutoff
    /\ handed = <<>>

LoaderNext ==
    \/ LoadKernel \/ LoadRamdisk
    \/ AllocateBootInfo \/ AllocateScratchpad \/ AllocateMapBuffer
    \/ BuildMappings \/ ExitBootServices \/ Handoff

=============================================================================
