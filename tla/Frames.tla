------------------------------- MODULE Frames -------------------------------
(***************************************************************************)
(* The physical frame allocator of the kernel over the memory map of the   *)
(* firmware: kernel/src/memory.rs and BootMemoryMap of                     *)
(* shared/abi/src/boot.rs.                                                 *)
(*                                                                         *)
(* The allocator is a bump pointer: every request walks the map from its   *)
(* first descriptor and takes the first usable range that reaches past     *)
(* next_address.  Frames are never given back.  Addresses are in bytes.    *)
(***************************************************************************)
EXTENDS Machine

CONSTANTS
    LowMemoryCutoff, \* LOW_MEMORY_CUTOFF (1 MiB in the code)
    DescSize         \* size_of::<BootMemoryDescriptor>()

ASSUME FramesAssumption ==
    /\ LowMemoryCutoff \in Nat
    /\ DescSize \in Nat \ {0}

MemoryType == {"conventional", "boot_services", "loader_data", "reserved"}
Descriptor == [ty: MemoryType, phys_start: Nat, page_count: Nat]

\* BootMemoryMap: the descriptors lie desc_size bytes apart in the buffer, so
\* that number i of the firmware's table is at index i.
MemoryMap == [null: BOOLEAN, map_size: Nat, desc_size: Nat, at: Seq(Descriptor)]

VARIABLES
    memory_map,   \* FrameAllocator.boot_info.memory_map
    next_address, \* FrameAllocator.next_address
    handed        \* the frames returned so far, oldest first

frameVars == <<memory_map, next_address, handed>>

-----------------------------------------------------------------------------
(* The memory map *)

EntryCount(map) ==
    IF map.desc_size = 0 THEN 0 ELSE map.map_size \div map.desc_size

\* The indices for which BootMemoryMap::get answers, which are those iter visits.
Entries(map) ==
    IF map.null \/ map.desc_size < DescSize THEN {} ELSE 1..EntryCount(map)

\* Mutant: what the loader allocated counts as free.
UsableLoader(d) == d.ty \in {"conventional", "boot_services", "loader_data"}

\* CONVENTIONAL, BOOT_SERVICES_CODE and BOOT_SERVICES_DATA.
Usable(d) == d.ty \in {"conventional", "boot_services"}

RangeEnd(d) == d.phys_start + d.page_count * PageSize

-----------------------------------------------------------------------------
(* Allocation *)

AlignUp(value) ==
    LET adjusted == value + PageSize - 1
    IN  IF adjusted > MaxAddress THEN value ELSE adjusted - (adjusted % PageSize)

Candidate(d, next) ==
    AlignUp(IF next > d.phys_start THEN next ELSE d.phys_start)

\* Mutant: the last frame of a range is taken to lie inside when it begins at
\* the end of the range.
ServesLate(d, next) == Usable(d) /\ Candidate(d, next) <= RangeEnd(d)

Serves(d, next) == Usable(d) /\ Candidate(d, next) < RangeEnd(d)

\* usable_range(descriptor).unwrap(): the request panics at such a descriptor.
Overflows(d) == Usable(d) /\ RangeEnd(d) > MaxAddress

\* The descriptor that serves the request: the first in map order.
Serving(map, next) ==
    {i \in Entries(map) :
        /\ Serves(map.at[i], next)
        /\ ~Overflows(map.at[i])
        /\ \A j \in 1..(i - 1) :
              ~Serves(map.at[j], next) /\ ~Overflows(map.at[j])}

\* What allocate_physical_frame returns: one frame, or none when the memory is
\* exhausted or the addition that advances next_address overflows.
Granted(map, next) ==
    {f \in {Candidate(map.at[i], next) : i \in Serving(map, next)} :
        f + PageSize <= MaxAddress}

AllocatePhysicalFrame ==
    /\ \E f \in Granted(memory_map, next_address) :
          /\ next_address' = f + PageSize
          /\ handed' = Append(handed, f)
    /\ UNCHANGED memory_map

-----------------------------------------------------------------------------
(* The allocator by itself, over any map a firmware may hand over.  UEFI      *)
(* memory descriptors describe whole pages and do not overflow.               *)

MapOK(map) ==
    /\ map \in MemoryMap
    /\ Entries(map) \subseteq DOMAIN map.at
    /\ \A i \in Entries(map) :
          /\ map.at[i].phys_start % PageSize = 0
          /\ RangeEnd(map.at[i]) + PageSize <= MaxAddress

FramesInit ==
    /\ MapOK(memory_map)
    /\ next_address = LowMemoryCutoff
    /\ handed = <<>>

FramesSpec == FramesInit /\ [][AllocatePhysicalFrame]_frameVars

-----------------------------------------------------------------------------
(* Properties *)

HandedSet == {handed[i] : i \in DOMAIN handed}

\* The frames that lie wholly inside a usable range.
UsableFrames(map) ==
    UNION {{f \in map.at[i].phys_start..(RangeEnd(map.at[i]) - PageSize) :
                f % PageSize = 0} :
           i \in {k \in Entries(map) : Usable(map.at[k])}}

\* The frames handed out never overlap, and each lies wholly inside one usable
\* range, above the low memory (allocate_physical_frame).
FramesFresh ==
    /\ \A i, j \in DOMAIN handed : i < j => handed[i] + PageSize <= handed[j]
    /\ \A f \in HandedSet :
          LowMemoryCutoff <= f /\ f \in UsableFrames(memory_map)

\* The usable ranges come in ascending order.
Sorted(map) ==
    \A i, j \in Entries(map) :
        i < j /\ Usable(map.at[i]) /\ Usable(map.at[j]) =>
            RangeEnd(map.at[i]) <= map.at[j].phys_start

\* Over a sorted map the single pass loses nothing: every usable frame between
\* the cutoff and next_address has been handed out, and when a request fails,
\* every usable frame has.  Out-of-order ranges are skipped, so the property
\* claims nothing for other maps.
NothingSkipped ==
    Sorted(memory_map) =>
        \A f \in UsableFrames(memory_map) :
            /\ LowMemoryCutoff <= f
            /\ f < next_address \/ Granted(memory_map, next_address) = {}
            => f \in HandedSet

=============================================================================
