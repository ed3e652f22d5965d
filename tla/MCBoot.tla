------------------------------- MODULE MCBoot -------------------------------
(***************************************************************************)
(* Machines and boot media for module Boot.  The base boots; every other   *)
(* scenario varies one thing: the memory, the kernel, a program or the     *)
(* ramdisk.                                                                *)
(***************************************************************************)
EXTENDS Boot

MCPage == 4
MCRadix == 6
MCHalf == 5
MCAddress(slot) == slot * MCRadix * MCRadix * MCRadix * MCPage

MCUserStack == MCAddress(4)
MCHigherHalf == MCAddress(5)
MCRamdisk == MCAddress(6)
MCHeap == MCAddress(7)
MCStacks == MCAddress(8)
MCKernel == MCAddress(9)

MCNameOf == [init |-> <<1>>, shell |-> <<2>>, font |-> <<3>>] @@
            ("fault-tester" :> <<4>>)

-----------------------------------------------------------------------------
(* Memory: reserved frames at the ends of the low memory and in the middle,   *)
(* boot services between free frames, the framebuffer above the memory.  The  *)
(* firmware's page table is in reserved frame 3.                              *)

Layout(top) ==
    [f \in 0..(FrameCount - 1) |->
        CASE f \in {0, 3, 70, 71} -> "reserved"
          [] f \in 40..45 \cup {top - 1, top} -> "boot_services"
          [] f > top -> "none"
          [] OTHER -> "conventional"]

-----------------------------------------------------------------------------
(* Files: the header of an image, then its program headers, then the rest.    *)

Load(off, virt, fsize, msize, flags) ==
    [type |-> "LOAD",
     segment |-> [file_offset |-> off, virtual_address |-> virt,
                  file_size |-> fsize, memory_size |-> msize, flags |-> flags]]
Note == [type |-> "NOTE"]

Image(len, headers) ==
    [len |-> len, magic |-> TRUE, class |-> 64, endian |-> "little",
     version |-> 1, type |-> "EXEC", machine |-> "x86_64", phentsize |-> 1,
     phoff |-> 2, phnum |-> Len(headers),
     headers |-> [k \in 2..(Len(headers) + 1) |-> headers[k - 1]]]

\* Text in the first page, data and a BSS that reaches into a third.
BaseKernel ==
    Image(11, <<Load(5, MCKernel, 3, 3, {"R", "X"}), Note,
                Load(8, MCKernel + 4, 3, 6, {"R", "W"})>>)

Kernels ==
    { \* the data before the text
      Image(11, <<Load(8, MCKernel + 4, 3, 6, {"R", "W"}),
                  Load(5, MCKernel, 3, 3, {"R", "X"})>>),
      \* refused by the loader
      [BaseKernel EXCEPT !.version = 0],
      [BaseKernel EXCEPT !.phnum = 0],
      [BaseKernel EXCEPT !.phnum = 10],
      [BaseKernel EXCEPT !.headers[4].segment.file_size = 7],
      [BaseKernel EXCEPT !.headers[4].segment.file_size = 5],
      [BaseKernel EXCEPT !.headers[4].segment.virtual_address = MCKernel + 5],
      \* refused by the kernel
      Image(9, <<Load(5, MCKernel - 4, 3, 3, {"R", "X"})>>) }

Code == 8

\* Text and data in pages of their own.
BaseProgram ==
    Image(9, <<Load(4, Code, 3, 3, {"R", "X"}), Load(7, Code + 4, 2, 2, {"R", "W"})>>)

\* Programs of the same length.
Programs ==
    { \* text and data meet in a page, as the linker scripts of userland lay
      \* them out; the BSS reaches into the next
      Image(9, <<Load(4, Code, 3, 3, {"R", "X"}), Load(7, Code + 3, 2, 4, {"R", "W"})>>),
      \* a BSS alone, an empty segment and a segment that starts inside a page
      Image(9, <<Load(5, Code + 1, 2, 2, {"R"}), Load(0, Code, 0, 0, {"R"}),
                 Load(7, Code + 5, 0, 5, {"R", "W"})>>),
      \* refused by new_from_elf
      [BaseProgram EXCEPT !.magic = FALSE],
      [BaseProgram EXCEPT !.phentsize = 2, !.phnum = 4,
                          !.headers = [k \in {2, 4, 6, 8} |-> Note]],
      [BaseProgram EXCEPT !.headers[3].segment.file_offset = 8],
      [BaseProgram EXCEPT !.headers[3].segment.file_size = 3] }

\* The data of three programs.
Data(n) == [k \in 1..9 |-> IF k = 1 THEN n ELSE k % 8]

File(name, data) == [name |-> name, data |-> data]

BaseFiles ==
    <<File(<<5>>, <<7>>), File(MCNameOf.init, Data(1)), File(MCNameOf.shell, Data(2)),
      File(MCNameOf["fault-tester"], Data(3)), File(MCNameOf.font, <<6, 0>>)>>

\* Missing files, a long name, an empty file, a name twice.
FileLists ==
    { <<>>,
      <<File(MCNameOf.shell, Data(2))>>,
      <<File(MCNameOf.init, Data(1))>>,
      <<File(<<5, 5, 6>>, <<>>), File(MCNameOf.init, Data(1)),
        File(MCNameOf.init, Data(2)), File(MCNameOf.shell, Data(3))>>,
      <<File(MCNameOf.init, <<1, 2>>)>> }

Base0 ==
    [layout |-> Layout(150), rotate |-> 0, desc_size |-> 1, ends |-> {"low"},
     firmware |-> 3 * MCPage, framebuffer |-> 700, kernel |-> BaseKernel,
     files |-> BaseFiles, font |-> TRUE,
     elf |-> [d \in {Data(n) : n \in 1..3} |-> BaseProgram], boots |-> TRUE]

Accepted(kernel) == kernel \in {k \in Kernels : LayoutError(k) = "ok" /\ CopyError(k) = "ok"
                                  /\ VirtualBase(k) >= KERNEL_REGION}
WellFormed(program) ==
    /\ ParseHeader(program) = "ok"
    /\ FirstBad(ParseProgramHeader, program) = "ok"
    /\ \A k \in Loads(program) : ~PastFile(program, SegmentAt(program, k))

MCScenarios ==
    {Base0, [Base0 EXCEPT !.ends = {"low", "high"}, !.files = <<BaseFiles[2], BaseFiles[5]>>]}
    \cup {[Base0 EXCEPT !.layout = Layout(top), !.boots = FALSE,
                        !.ends = {"low", "high"}, !.files = <<BaseFiles[2]>>] :
          top \in {46, 50, 54, 58, 64, 72, 76}}
    \cup {[Base0 EXCEPT !.rotate = n, !.ends = {"high"}, !.boots = (n = 1)] : n \in {1, 4}}
    \cup {[Base0 EXCEPT !.kernel = k, !.boots = Accepted(k)] : k \in Kernels}
    \cup {[Base0 EXCEPT !.elf = [d \in DOMAIN @ |-> p], !.boots = WellFormed(p)] :
          p \in Programs}
    \cup {[Base0 EXCEPT !.files = fs, !.boots = (Len(fs) = 0 \/ Len(fs[1].data) # 2)] :
          fs \in FileLists}

=============================================================================
