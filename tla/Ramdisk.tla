------------------------------ MODULE Ramdisk ------------------------------
(***************************************************************************)
(* The format of the initial ramdisk: add_file of tools/xtask/src/main.rs  *)
(* writes it, Vfs::init_from_ramdisk of kernel/src/vfs.rs reads it.  A     *)
(* file is a name field, a little-endian size and the data, with nothing   *)
(* between files.  Bytes are numbers; names are ASCII.                     *)
(***************************************************************************)
EXTENDS Integers, Sequences, SequencesExt

CONSTANTS
    NameField,  \* bytes of the name field (64)
    SizeField,  \* bytes of the size (8)
    Base        \* values of a byte (256)

ASSUME RamdiskAssumption ==
    /\ NameField \in Nat \ {0}
    /\ SizeField \in Nat \ {0}
    /\ Base \in Nat \ {0, 1}

\* u64::to_le_bytes and u64::from_le_bytes.
ToLeBytes(n) == [k \in 1..SizeField |-> (n \div Base^(k - 1)) % Base]
FromLeBytes(bytes) ==
    FoldLeft(LAMBDA n, k : n + bytes[k] * Base^(k - 1), 0,
             [k \in 1..Len(bytes) |-> k])

-----------------------------------------------------------------------------
(* tools/xtask: add_file *)

\* Mutant: a name may fill the whole field.
StoredNameWhole(name) == SubSeq(name, 1, Min({Len(name), NameField}))

\* What is kept of a name: the field always ends in a zero byte.
StoredName(name) == SubSeq(name, 1, Min({Len(name), NameField - 1}))

NameBytes(name) ==
    LET stored == StoredName(name)
    IN  [k \in 1..NameField |-> IF k <= Len(stored) THEN stored[k] ELSE 0]

AddFile(ramdisk, file) ==
    ramdisk \o NameBytes(file.name) \o ToLeBytes(Len(file.data)) \o file.data

\* The image of a sequence of files.
Pack(files) == FoldLeft(AddFile, <<>>, files)

-----------------------------------------------------------------------------
(* kernel: one round of the loop of init_from_ramdisk *)

HeaderSize == NameField + SizeField

\* The condition of the loop.
HasHeader(data, offset) == offset + HeaderSize <= Len(data)

\* The name up to the first zero byte.
NameAt(data, offset) ==
    LET field == SubSeq(data, offset + 1, offset + NameField)
        zeros == {k \in DOMAIN field : field[k] = 0}
    IN  IF zeros = {} THEN field ELSE SubSeq(field, 1, Min(zeros) - 1)

SizeAt(data, offset) ==
    FromLeBytes(SubSeq(data, offset + NameField + 1, offset + HeaderSize))

FileFits(data, offset) ==
    offset + HeaderSize + SizeAt(data, offset) <= Len(data)

FileAt(data, offset) ==
    [name |-> NameAt(data, offset),
     data |-> SubSeq(data, offset + HeaderSize + 1,
                     offset + HeaderSize + SizeAt(data, offset))]

\* Mutant: the next file is looked for at an even offset.
NextOffsetAligned(data, offset) ==
    LET end == offset + HeaderSize + SizeAt(data, offset)
    IN  end + (end % 2)

NextOffset(data, offset) == offset + HeaderSize + SizeAt(data, offset)

=============================================================================
