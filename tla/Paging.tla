------------------------------- MODULE Paging -------------------------------
(***************************************************************************)
(* Four-level page tables, as the boot loader and the kernel build them:   *)
(* kernel/src/memory/paging.rs and the parts of the x86_64 crate it uses.  *)
(*                                                                         *)
(* The operations are operators on a record that holds the page tables and *)
(* the state of a frame allocator, so that a caller can chain as many of   *)
(* them as its code does in one step; the allocator is a parameter,        *)
(* because the loader maps with the pages of its scratchpad.  A table is a *)
(* function on the indices in use.                                         *)
(***************************************************************************)
EXTENDS Frames, FiniteSets, SequencesExt

CONSTANTS
    Radix,  \* entries of a table below the PML4 (512 in the code)
    Half    \* PML4 entries of the lower half (256), and of the upper half

ASSUME PagingAssumption ==
    /\ Radix \in Nat \ {0}
    /\ Half \in Nat \ {0}

\* The bits of a page table entry the code sets.
Flags == {"PRESENT", "WRITABLE", "USER", "NX", "COW", "HUGE"}
Entry(frame, flags) == [frame |-> frame, flags |-> flags]

\* A mapping only the kernel may use.
KernelPage == {"PRESENT", "WRITABLE"}

\* The contents of a byte: zero, or the byte at an offset of a file.
ZeroByte == <<"zero", 0>>
FileByte(file, offset) == <<file, offset>>

LowerHalf == 0..(Half - 1)
UpperHalf == Half..(2 * Half - 1)

\* p4_index, p3_index, p2_index and p1_index of a page number.
Indices(page) ==
    <<page \div (Radix * Radix * Radix), (page \div (Radix * Radix)) % Radix,
      (page \div Radix) % Radix, page % Radix>>

PageOf(address) == address \div PageSize

\* The pages of size bytes from address on: Page::range_inclusive over the pages
\* of the first and of the last byte, in order.
PageRange(address, size) ==
    [k \in 1..(PageOf(address + size - 1) - PageOf(address) + 1) |->
        PageOf(address) + k - 1]

NoFrame == -1

\* A computation on the memory: its tables and the contents of its bytes; next
\* and handed belong to the allocator, the kernel's or the loader's; err is what
\* stopped it, got the frame allocated last, at the table reached.
Memory(tables, bytes, next, frames, allocator) ==
    [tables |-> tables, bytes |-> bytes, next |-> next, handed |-> frames,
     allocator |-> allocator, err |-> "none", got |-> NoFrame, at |-> NoFrame]

Fail(mem, why) == [mem EXCEPT !.err = why]

\* The caller ignores an error.
Ignoring(mem) == Fail(mem, "none")

\* A write of one entry.
SetEntry(mem, table, i, entry) ==
    [mem EXCEPT !.tables[table] = (i :> entry) @@ @]

\* The next step of a computation that an error ends.
Then(mem, Op(_)) == IF mem.err # "none" THEN mem ELSE Op(mem)

\* Mutant: the pointer moves on by a page too many.
HandOutSkipping(mem, f) ==
    [mem EXCEPT !.next = f + 2 * PageSize, !.handed = Append(@, f), !.got = f]

HandOut(mem, f) ==
    [mem EXCEPT !.next = f + PageSize, !.handed = Append(@, f), !.got = f]

AnswerWith(mem, granted) ==
    IF granted = {} THEN Fail(mem, "oom")
    ELSE HandOut(mem, CHOOSE f \in granted : TRUE)

\* allocate_frame of the kernel's allocator.
Allocate(mem) == AnswerWith(mem, Granted(memory_map, mem.next))

\* That of the loader, in its scratchpad, knows no end.
ScratchAlloc(mem) == [mem EXCEPT !.next = @ + PageSize, !.got = mem.next]

\* allocate_frame of whichever allocator the mapper is given.
AllocateFrame(mem) ==
    IF mem.allocator = "scratchpad" THEN ScratchAlloc(mem) ELSE Allocate(mem)

\* The frame allocated last becomes an empty table.
ZeroTable(mem) == [mem EXCEPT !.tables = (mem.got :> <<>>) @@ @]

-----------------------------------------------------------------------------
(* Translation *)

\* The entries the CPU reads for a page, as far as the walk goes.
Walk(tables, root, page) ==
    LET Step(path, level) ==
            LET table == IF path = <<>> THEN root ELSE Last(path).frame
                i == Indices(page)[level]
            IN  IF \/ Len(path) # level - 1
                   \/ path # <<>> /\ "HUGE" \in Last(path).flags
                   \/ i \notin DOMAIN tables[table]
                THEN path ELSE Append(path, tables[table][i])
    IN  FoldLeft(Step, <<>>, <<1, 2, 3, 4>>)

Translates(path) ==
    path # <<>> /\ (Len(path) = 4 \/ "HUGE" \in Last(path).flags)

Mapped(tables, root, page) == Translates(Walk(tables, root, page))

\* The frame behind a page that is mapped: translate_addr.
FrameOf(tables, root, page) ==
    LET path == Walk(tables, root, page)
        span == CASE Len(path) = 4 -> 1
                  [] Len(path) = 3 -> Radix
                  [] OTHER -> Radix * Radix
    IN  Last(path).frame + (page % span) * PageSize

\* What a mapped page allows: a right needs the bit at every level.
Allows(tables, root, page, flag) ==
    LET path == Walk(tables, root, page)
    IN  Translates(path) /\ \A k \in DOMAIN path : flag \in path[k].flags

-----------------------------------------------------------------------------
(* The x86_64 crate: MappedPageTable::map_to *)

\* create_next_table: descend from mem.at through entry i, making the table if
\* the entry is unused and adding the flags to the entry otherwise.
CreateNextTable(mem, i, flags) ==
    IF mem.err # "none" THEN mem
    ELSE IF i \in DOMAIN mem.tables[mem.at]
    THEN LET entry == mem.tables[mem.at][i]
         IN  IF "HUGE" \in entry.flags THEN Fail(mem, "huge")
             ELSE [SetEntry(mem, mem.at, i,
                            [entry EXCEPT !.flags = @ \cup flags])
                   EXCEPT !.at = entry.frame]
    ELSE Then(AllocateFrame(mem), LAMBDA a :
                  [SetEntry(ZeroTable(a), mem.at, i, Entry(a.got, flags))
                   EXCEPT !.at = a.got])

MapTo(mem, root, page, frame, flags) ==
    LET index == Indices(page)
        Descend(m, level) ==
            CreateNextTable(m, index[level],
                            flags \cap {"PRESENT", "WRITABLE", "USER"})
        Place(m) ==
            IF index[4] \in DOMAIN m.tables[m.at] THEN Fail(m, "mapped")
            ELSE SetEntry(m, m.at, index[4], Entry(frame, flags))
    IN  Then(Descend(Descend(Descend([mem EXCEPT !.at = root], 1), 2), 3), Place)

\* A page mapped to a frame the kernel allocates for it.
MapFresh(mem, root, page, flags) ==
    Then(Allocate(mem), LAMBDA a : MapTo(a, root, page, a.got, flags))

-----------------------------------------------------------------------------
(* Address spaces: kernel/src/memory/paging.rs *)

\* create_process_pml4: the entries of the upper half are copied by value, so
\* the tables below them are shared; the new root is mem.got.
CreateProcessPml4(mem, kernel) ==
    Then(Allocate(mem), LAMBDA a :
        [a EXCEPT !.tables =
            (a.got :> [i \in UpperHalf \cap DOMAIN @[kernel] |-> @[kernel][i]]) @@ @])

\* The clone of an entry is written to a table.
Attach(clone, table, i) == SetEntry(clone.mem, table, i, clone.entry)

\* A table is cloned into the frame just allocated, its entries in order by
\* CloneEntry; the result is the memory and the entry that points to the clone.
CloneInto(CloneEntry(_, _), a, entry) ==
    LET source == a.tables[entry.frame]
        Step(m, i) ==
            IF m.err # "none" \/ i \notin DOMAIN source THEN m
            ELSE Attach(CloneEntry(m, source[i]), a.got, i)
    IN  IF a.err # "none" THEN [mem |-> a, entry |-> entry]
        ELSE [mem |-> FoldLeft(Step, ZeroTable(a), Range0(Radix)),
              entry |-> Entry(a.got, entry.flags)]

CloneTable(CloneEntry(_, _), mem, entry) == CloneInto(CloneEntry, Allocate(mem), entry)

\* Mutant: the entry of the child stays writable.
CloneLeafWritable(mem, entry) ==
    [mem |-> mem, entry |-> Entry(entry.frame, entry.flags \cup {"COW"})]

\* clone_table_level at level 0, with cow.
CloneLeaf(mem, entry) ==
    [mem |-> mem,
     entry |-> Entry(entry.frame, (entry.flags \ {"WRITABLE"}) \cup {"COW"})]

\* clone_table_level at levels 1 to 3.
CloneP1(mem, entry) == CloneTable(CloneLeaf, mem, entry)
CloneP2(mem, entry) == CloneTable(CloneP1, mem, entry)
CloneP3(mem, entry) == CloneTable(CloneP2, mem, entry)

\* clone_user_mappings_cow: the lower half is cloned level by level, the upper
\* half copied by value.  The entries of the source stay as they are.
CloneUserMappingsCow(mem, src, dst) ==
    LET Step(m, i) ==
            IF m.err # "none" \/ i \notin DOMAIN mem.tables[src] THEN m
            ELSE Attach(CloneP3(m, mem.tables[src][i]), dst, i)
        lower == FoldLeft(Step, mem, Range0(Half))
        upper == UpperHalf \cap DOMAIN mem.tables[src]
    IN  [lower EXCEPT !.tables[dst] =
            [i \in (LowerHalf \cap DOMAIN @) \cup upper |->
                IF i \in upper THEN mem.tables[src][i] ELSE @[i]]]

=============================================================================
