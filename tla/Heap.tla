-------------------------------- MODULE Heap --------------------------------
(***************************************************************************)
(* The kernel heap: lists of free blocks of fixed sizes over a linked list *)
(* of free regions, kernel/src/memory/allocator/fixed_size_block.rs and    *)
(* linked_list.rs.  Each call runs under the allocator's lock, so it is    *)
(* one action.                                                             *)
(*                                                                         *)
(* Addresses and sizes are counted in units of eight bytes from            *)
(* HEAP_START, which is page aligned.  Nothing is lost by that: the        *)
(* smallest block and the alignment of a ListNode are eight bytes, so a    *)
(* request is served as if its size and alignment were rounded up to it.   *)
(***************************************************************************)
EXTENDS Naturals, Sequences

CONSTANTS
    HeapSize,       \* HEAP_SIZE
    NodeSize,       \* size_of::<ListNode>() in linked_list.rs: two units
    BlockSizes,     \* BLOCK_SIZES: powers of two in increasing order
    Layouts         \* the layouts requested: size and alignment

\* Sizes of blocks and alignments are powers of two, so the smaller of the two
\* divides the other.
ASSUME HeapAssumption ==
    /\ HeapSize \in Nat /\ NodeSize \in Nat \ {0} /\ HeapSize >= NodeSize
    /\ BlockSizes \in Seq(Nat \ {0})
    /\ Layouts \subseteq [size: Nat \ {0}, align: Nat \ {0}]
    /\ \A c \in DOMAIN BlockSizes, l \in Layouts :
          BlockSizes[c] >= l.align => BlockSizes[c] % l.align = 0

VARIABLES
    free,           \* the regions of the linked list, head first
    list_heads,     \* the free blocks of each size, head first
    live            \* what callers hold: address and layout

vars == <<free, list_heads, live>>

Class == DOMAIN BlockSizes
Addr == 0..(HeapSize - 1)

\* FixedSizeBlockAllocator::init: one region.
Init ==
    /\ free = << [start |-> 0, size |-> HeapSize] >>
    /\ list_heads = [c \in Class |-> <<>>]
    /\ live = {}

-----------------------------------------------------------------------------
(* The linked-list allocator *)

AtLeast(a, b) == IF a >= b THEN a ELSE b
AlignUp(a, align) == ((a + align - 1) \div align) * align

\* size_align: room for a node when the block is freed.
SizeAlign(l) == [size |-> AtLeast(AlignUp(l.size, l.align), NodeSize),
                 align |-> l.align]

End(r) == r.start + r.size
AllocStart(r, l) == AlignUp(r.start, l.align)

\* Mutants: any rest will do; the padding before the block is not counted.
FitsAnyRest(r, l) == AllocStart(r, l) + l.size <= End(r)
FitsBeforePadding(r, l) == l.size = r.size \/ l.size + NodeSize <= r.size

\* alloc_from_region: the rest behind the block is empty or can hold a node.
\* What lies before the aligned start is given up.
Fits(r, l) ==
    LET end == AllocStart(r, l) + l.size
    IN  end = End(r) \/ end + NodeSize <= End(r)

\* find_region: the first region that fits.
Fitting(l) == {i \in DOMAIN free : Fits(free[i], l)}
FindRegion(l) == CHOOSE i \in Fitting(l) : \A j \in Fitting(l) : i <= j

\* Mutant: an empty rest becomes a region, too.
CarveAlways(l) ==
    LET i == FindRegion(l)
        end == AllocStart(free[i], l) + l.size
    IN  << [start |-> end, size |-> End(free[i]) - end] >>
            \o SubSeq(free, 1, i - 1) \o SubSeq(free, i + 1, Len(free))

\* allocate takes the region out of the list and puts the rest of it in front.
Carve(l) ==
    LET i == FindRegion(l)
        end == AllocStart(free[i], l) + l.size
        rest == IF end < End(free[i])
                THEN << [start |-> end, size |-> End(free[i]) - end] >> ELSE <<>>
    IN  rest \o SubSeq(free, 1, i - 1) \o SubSeq(free, i + 1, Len(free))

-----------------------------------------------------------------------------
(* The fixed-size blocks *)

\* Mutant: the alignment is not considered.
ListIndexBySize(l) == {c \in Class : BlockSizes[c] >= l.size}

\* list_index: the classes that can serve a layout; the code takes the first.
ListIndex(l) == {c \in Class : BlockSizes[c] >= AtLeast(l.size, l.align)}
Index(l) == CHOOSE c \in ListIndex(l) : \A d \in ListIndex(l) : c <= d
Pooled(l) == ListIndex(l) # {}

\* What the linked list is asked for when no block of the class is free, or
\* there is no such class.
Fallback(l) ==
    SizeAlign(IF Pooled(l) THEN [size |-> BlockSizes[Index(l)],
                                 align |-> BlockSizes[Index(l)]] ELSE l)

HasBlock(l) == Pooled(l) /\ list_heads[Index(l)] # <<>>

CanAlloc(l) == HasBlock(l) \/ Fitting(Fallback(l)) # {}

\* The address alloc returns when it does not return null.
AllocResult(l) ==
    IF HasBlock(l) THEN Head(list_heads[Index(l)])
    ELSE AllocStart(free[FindRegion(Fallback(l))], Fallback(l))

\* A request that finds nothing gets null and changes nothing.
Alloc(l) ==
    /\ CanAlloc(l)
    /\ live' = live \cup {[addr |-> AllocResult(l), layout |-> l]}
    /\ IF HasBlock(l)
       THEN /\ list_heads' = [list_heads EXCEPT ![Index(l)] = Tail(@)]
            /\ UNCHANGED free
       ELSE /\ free' = Carve(Fallback(l))
            /\ UNCHANGED list_heads

\* Mutant: a freed block goes to the back of its list.
DeallocBack(b) ==
    /\ live' = live \ {b}
    /\ IF Pooled(b.layout)
       THEN /\ list_heads' = [list_heads EXCEPT ![Index(b.layout)] = Append(@, b.addr)]
            /\ UNCHANGED free
       ELSE /\ free' = Append(free, [start |-> b.addr, size |-> SizeAlign(b.layout).size])
            /\ UNCHANGED list_heads

Dealloc(b) ==
    /\ live' = live \ {b}
    /\ IF Pooled(b.layout)
       THEN /\ list_heads' = [list_heads EXCEPT ![Index(b.layout)] = <<b.addr>> \o @]
            /\ UNCHANGED free
       ELSE /\ free' = << [start |-> b.addr, size |-> SizeAlign(b.layout).size] >>
                           \o free
            /\ UNCHANGED list_heads

Next == (\E l \in Layouts : Alloc(l)) \/ (\E b \in live : Dealloc(b))

Spec == Init /\ [][Next]_vars

-----------------------------------------------------------------------------
(* Properties *)

\* The variables have their types.
TypeOK ==
    /\ free \in Seq([start: Addr, size: 1..HeapSize])
    /\ list_heads \in [Class -> Seq(Addr)]
    /\ live \subseteq [addr: Addr, layout: Layouts]

\* The assertion of add_free_region never fails: a free region can hold the
\* node that is written to it, after any history of carving and freeing.
RegionsHoldNodes == \A i \in DOMAIN free : free[i].size >= NodeSize

Extent(l) == IF Pooled(l) THEN BlockSizes[Index(l)] ELSE SizeAlign(l).size

\* Everything the heap consists of, as spans: regions, free blocks, and what
\* callers may write to.
Spans ==
    { [kind |-> <<"region", i>>, from |-> free[i].start, to |-> End(free[i])] :
        i \in DOMAIN free }
    \cup (UNION { { [kind |-> <<"block", c, i>>, from |-> list_heads[c][i],
                     to |-> list_heads[c][i] + BlockSizes[c]] :
                    i \in DOMAIN list_heads[c] } : c \in Class })
    \cup { [kind |-> <<"live", b>>, from |-> b.addr,
            to |-> b.addr + Extent(b.layout)] : b \in live }

\* No two callers share memory, no node of a free list lies in a caller's
\* block, no block is on a list twice, and everything is in the heap.
NoOverlap ==
    /\ \A s \in Spans : s.to <= HeapSize
    /\ \A s, t \in Spans : s # t => s.to <= t.from \/ t.to <= s.from

\* A caller gets a block of the alignment and at least the size it asked for,
\* also when the block served a request of another layout before.
Suitable ==
    \A b \in live :
        b.addr % b.layout.align = 0 /\ Extent(b.layout) >= b.layout.size

\* What is freed can be had again at once: the next request of that layout
\* gets the same block, however fragmented the heap is.
ReusedAtOnce ==
    [][\A b \in live \ live' : CanAlloc(b.layout)' /\ AllocResult(b.layout)' = b.addr]_vars

=============================================================================
