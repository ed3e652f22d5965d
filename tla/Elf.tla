-------------------------------- MODULE Elf --------------------------------
(***************************************************************************)
(* The two ELF parsers of the repository as pure operators: the boot       *)
(* loader's (boot/uefi-loader/src/elf.rs), which loads the kernel, and the *)
(* kernel's (kernel/src/elf.rs), which process.rs uses for user programs.  *)
(*                                                                         *)
(* A file is a record: its length, the fields of the header, and the       *)
(* program header that the bytes at an offset of the table form.  Sizes    *)
(* and offsets are in bytes, and overflow at MaxAddress as u64 and usize   *)
(* do.  A parser answers the first error it meets, "ok" otherwise.         *)
(***************************************************************************)
EXTENDS Machine, FiniteSetsExt

CONSTANTS
    EhdrSize,  \* bytes of the file header (64)
    PhdrSize   \* least size of a program header (56)

ASSUME ElfAssumption ==
    /\ EhdrSize \in Nat \ {0}
    /\ PhdrSize \in Nat \ {0}

Segment == [file_offset: 0..MaxAddress, virtual_address: 0..MaxAddress,
            file_size: 0..MaxAddress, memory_size: 0..MaxAddress,
            flags: SUBSET {"R", "W", "X"}]

-----------------------------------------------------------------------------
(* The file header *)

IdentChecks(image) ==
    << <<image.len < EhdrSize, "FileTooSmall">>,
       <<~image.magic, "BadMagic">>,
       <<image.class # 64, "UnsupportedClass">>,
       <<image.endian # "little", "UnsupportedEndian">> >>

KindChecks(image) ==
    << <<image.type \notin {"EXEC", "DYN"}, "UnsupportedType">>,
       <<image.machine # "x86_64", "UnsupportedMachine">>,
       <<image.phentsize < PhdrSize, "InvalidProgramHeaderSize">> >>

\* parse_header of kernel/src/elf.rs.
ParseHeader(image) ==
    FirstError(IdentChecks(image) \o KindChecks(image))

\* parse_header of boot/uefi-loader/src/elf.rs.
LoaderParseHeader(image) ==
    FirstError(IdentChecks(image)
               \o << <<image.version # 1, "UnsupportedVersion">> >>
               \o KindChecks(image))

-----------------------------------------------------------------------------
(* Program headers *)

HeaderStart(image, index) == image.phoff + index * image.phentsize
HeaderEnd(image, index) == HeaderStart(image, index) + image.phentsize

\* The bytes at an offset of the file, read as a program header: the headers
\* the linker wrote, and padding elsewhere.
At(image, start) ==
    IF start \in DOMAIN image.headers THEN image.headers[start]
    ELSE [type |-> "NULL"]

IsLoad(image, index) == At(image, HeaderStart(image, index)).type = "LOAD"

SegmentAt(image, index) == At(image, HeaderStart(image, index)).segment

\* Mutant: only the start of the header is compared with the file size.
OutOfFileStart(image, index) ==
    \/ HeaderEnd(image, index) > MaxAddress
    \/ HeaderStart(image, index) >= image.len

\* The checked additions overflow or the header reaches past the file.
OutOfFile(image, index) ==
    \/ HeaderEnd(image, index) > MaxAddress
    \/ HeaderStart(image, index) >= image.len
    \/ HeaderEnd(image, index) > image.len

\* parse_program_header of kernel/src/elf.rs.
ParseProgramHeader(image, index) ==
    IF OutOfFile(image, index) THEN "ProgramHeaderOutOfBounds"
    ELSE IF ~IsLoad(image, index) THEN "ok"
    ELSE LET ph == SegmentAt(image, index)
         IN  IF ph.file_size > ph.memory_size
             THEN "ProgramHeaderOutOfBounds" ELSE "ok"

\* parse_program_header of boot/uefi-loader/src/elf.rs.
LoaderParseProgramHeader(image, index) ==
    IF HeaderEnd(image, index) > MaxAddress \/ HeaderEnd(image, index) > image.len
    THEN "ProgramHeaderOutOfBounds"
    ELSE IF ~IsLoad(image, index) THEN "ok"
    ELSE LET ph == SegmentAt(image, index)
         IN  FirstError(
                << <<ph.virtual_address % PageSize # 0, "SegmentAlignment">>,
                   <<ph.memory_size < ph.file_size, "SegmentOutOfBounds">> >>)

\* The indices of the loadable segments.
Loads(image) == {k \in 0..(image.phnum - 1) : IsLoad(image, k)}

\* The first program header a parser refuses, if any.
FirstBad(Parse(_, _), image) ==
    FirstError([k \in 1..image.phnum |->
                  <<Parse(image, k - 1) # "ok", Parse(image, k - 1)>>])

-----------------------------------------------------------------------------
(* load_kernel of boot/uefi-loader/src/elf.rs: the layout of the image *)

SegmentEnd(ph) == ph.virtual_address + ph.memory_size

VirtualBase(image) ==
    Min({SegmentAt(image, k).virtual_address : k \in Loads(image)})
VirtualEnd(image) ==
    Max({SegmentEnd(SegmentAt(image, k)) : k \in Loads(image)} \cup {0})
ImageSize(image) == VirtualEnd(image) - VirtualBase(image)

PageCount(image) == PagesFor(ImageSize(image))

\* The first loop: the headers in order, each followed by the addition of its
\* end.  A sum that overflows stops it like a bad header.
LayoutError(image) ==
    LET Parse(im, k) ==
            IF LoaderParseProgramHeader(im, k) # "ok"
            THEN LoaderParseProgramHeader(im, k)
            ELSE IF IsLoad(im, k) /\ SegmentEnd(SegmentAt(im, k)) > MaxAddress
            THEN "SegmentAddressOverflow" ELSE "ok"
    IN  IF LoaderParseHeader(image) # "ok" THEN LoaderParseHeader(image)
        ELSE IF FirstBad(Parse, image) # "ok" THEN FirstBad(Parse, image)
        ELSE IF Loads(image) = {} THEN "NoLoadSegments" ELSE "ok"

\* The file range of a segment reaches past the file.
PastFile(image, ph) ==
    \/ ph.file_offset + ph.file_size > MaxAddress
    \/ ph.file_offset + ph.file_size > image.len

\* The second loop copies the segments in order until one is out of the file.
CopyError(image) ==
    IF \E k \in Loads(image) : PastFile(image, SegmentAt(image, k))
    THEN "SegmentOutOfBounds" ELSE "ok"

-----------------------------------------------------------------------------
(* Properties *)

\* The two parsers accept a file alike, but for the version and the alignment
\* only the loader asks for; program headers are read after the file header has
\* been accepted, so none is empty.
AgreeOn(image) ==
    /\ LoaderParseHeader(image) = "ok" <=>
          ParseHeader(image) = "ok" /\ image.version = 1
    /\ ParseHeader(image) = "ok" =>
          \A k \in 0..(image.phnum - 1) :
            LoaderParseProgramHeader(image, k) = "ok" <=>
              /\ ParseProgramHeader(image, k) = "ok"
              /\ IsLoad(image, k) =>
                    SegmentAt(image, k).virtual_address % PageSize = 0

=============================================================================
