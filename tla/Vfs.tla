-------------------------------- MODULE Vfs --------------------------------
(***************************************************************************)
(* The in-memory file system: one flat list of entries and one table of    *)
(* open files for the whole kernel.  kernel/src/vfs.rs; every method runs  *)
(* under the VFS lock, so each is one action.  The working directory is   *)
(* left out: nothing calls chdir or getcwd.                                *)
(*                                                                         *)
(* A method is an operator for its result, a function of the state before  *)
(* the call, and an action for its effect.  Option values are sequences of *)
(* length at most one.                                                     *)
(***************************************************************************)
EXTENDS Tty

CONSTANTS
    Byte,               \* file contents; the terminal's characters are bytes too
    Zero,               \* the byte a file is extended with
    MAX_OPEN_FILES,     \* 16 in the code
    Ramdisk,            \* the files of the ramdisk, as a sequence of entries
    BootFiles,          \* what early_boot opens, in order
    Path,               \* the names processes use
    MaxSize             \* bound: the length of a file, and offsets

FileType == {"Regular", "Directory", "Device", "Pipe"}
Fd == 0..(MAX_OPEN_FILES - 1)

\* The names there are: the defaults', the ramdisk's, those processes use, and
\* the empty one.
FileName ==
    {".", "dev", "null", "tty", ""} \cup Path
        \cup {Ramdisk[i].name : i \in DOMAIN Ramdisk}

Entry == [name: FileName, file_type: FileType, data: Seq(Seq(Byte))]
FileDescriptor == [name: FileName, file_type: FileType, offset: Nat]

ASSUME VfsAssumption ==
    /\ MAX_OPEN_FILES \in Nat
    /\ Zero \in Byte
    /\ MaxSize \in Nat
    /\ Ramdisk \in Seq(Entry)
    /\ \A i \in DOMAIN Ramdisk :
          /\ Ramdisk[i].file_type = "Regular"
          /\ Len(Ramdisk[i].data) = 1
    /\ BootFiles \in Seq(FileName)
    /\ Len(BootFiles) <= MAX_OPEN_FILES
    /\ \A j \in DOMAIN BootFiles :
          /\ BootFiles[j] \notin {".", "dev", "null", "tty"}
          /\ \E i \in DOMAIN Ramdisk : Ramdisk[i].name = BootFiles[j]

VARIABLES
    entries,            \* Vfs.entries
    open_files          \* Vfs.open_files

vfsVars == <<entries, open_files>>

-----------------------------------------------------------------------------
(* Start-up *)

\* init_defaults.
Defaults ==
    << [name |-> ".", file_type |-> "Directory", data |-> None],
       [name |-> "dev", file_type |-> "Directory", data |-> None],
       [name |-> "null", file_type |-> "Device", data |-> None],
       [name |-> "tty", file_type |-> "Device", data |-> None] >>

\* The entries called path, and the one a search from the front finds.
Matches(es, path) == {i \in DOMAIN es : es[i].name = path}
First(es, path) ==
    CHOOSE i \in Matches(es, path) : \A j \in Matches(es, path) : i <= j

\* The state early_boot leaves: each file it opens has been read to its end,
\* and is not closed.
VfsInit ==
    /\ entries = Defaults \o Ramdisk
    /\ open_files = [j \in Fd |->
            IF j < Len(BootFiles)
            THEN LET path == BootFiles[j + 1]
                     e == entries[First(entries, path)]
                 IN  Some([name |-> path, file_type |-> e.file_type,
                           offset |-> Len(e.data[1])])
            ELSE None]

-----------------------------------------------------------------------------
(* The methods *)

FreeSlots == {j \in Fd : open_files[j] = None}

OpenResult(path) ==
    IF Matches(entries, path) # {} /\ FreeSlots # {}
    THEN Some(CHOOSE j \in FreeSlots : \A k \in FreeSlots : j <= k)
    ELSE None

Open(path) ==
    /\ open_files' =
          IF OpenResult(path) = None THEN open_files
          ELSE [open_files EXCEPT ![OpenResult(path)[1]] =
                  Some([name |-> path, offset |-> 0, file_type |->
                        entries[First(entries, path)].file_type])]
    /\ UNCHANGED <<entries, ttyVars>>

IsOpen(fd) == fd \in Fd /\ open_files[fd] # None
Name(fd) == open_files[fd][1].name
Offset(fd) == open_files[fd][1].offset
SetOffset(fd, o) == open_files' = [open_files EXCEPT ![fd][1].offset = o]

CloseResult(fd) == IsOpen(fd)

Close(fd) ==
    /\ open_files' = IF IsOpen(fd) THEN [open_files EXCEPT ![fd] = None]
                     ELSE open_files
    /\ UNCHANGED <<entries, ttyVars>>

AtMost(a, b) == IF a <= b THEN a ELSE b
Bytes(s, start, n) == SubSeq(s, start + 1, AtMost(start + n, Len(s)))

\* The data of the entry an open descriptor resolves to, if it has any.
DataOf(fd) ==
    IF Matches(entries, Name(fd)) = {} THEN None
    ELSE entries[First(entries, Name(fd))].data

IsTty(fd) == IsOpen(fd) /\ Name(fd) = "tty"
IsFile(fd) == IsOpen(fd) /\ ~IsTty(fd) /\ DataOf(fd) # None

\* read into a buffer of n bytes; the result is what the buffer receives.  A
\* line longer than the buffer loses its rest.
ReadResult(fd, n) ==
    CASE IsTty(fd) -> IF ReadLineResult = None THEN Some(<<>>)
                      ELSE Some(Bytes(ReadLineResult[1], 0, n))
      [] IsFile(fd) -> Some(Bytes(DataOf(fd)[1], Offset(fd), n))
      [] OTHER -> None

\* Mutant: the offset advances by the size of the buffer.
ReadOverruns(fd, n) ==
    /\ IsFile(fd)
    /\ SetOffset(fd, Offset(fd) + n)
    /\ UNCHANGED <<entries, ttyVars>>

Read(fd, n) ==
    \/ /\ IsTty(fd)
       /\ ReadLine
       /\ UNCHANGED vfsVars
    \/ /\ IsFile(fd)
       /\ SetOffset(fd, Offset(fd) + Len(ReadResult(fd, n)[1]))
       /\ UNCHANGED <<entries, ttyVars>>
    \/ /\ ReadResult(fd, n) = None
       /\ UNCHANGED <<vfsVars, ttyVars>>

Zeros(n) == [i \in 1..n |-> Zero]

\* Mutant: the file is cut at the offset.
ExtendedCut(data, start, buf) ==
    (IF start > Len(data) THEN data \o Zeros(start - Len(data))
     ELSE SubSeq(data, 1, start)) \o buf

\* What write makes of the data: zeros up to the offset when it lies past the
\* end, then buf at the end.
Extended(data, start, buf) ==
    (IF start > Len(data) THEN data \o Zeros(start - Len(data)) ELSE data) \o buf

\* write: the result is the number of bytes; the terminal takes UTF-8 only.
WriteResult(fd, buf, utf8) ==
    IF IsFile(fd) \/ (IsTty(fd) /\ utf8) THEN Some(Len(buf)) ELSE None

Write(fd, buf) ==
    /\ IF IsFile(fd)
       THEN LET data == Extended(DataOf(fd)[1], Offset(fd), buf)
            IN  /\ Len(data) <= MaxSize /\ Offset(fd) + Len(buf) <= MaxSize
                /\ entries' = [entries EXCEPT
                                 ![First(entries, Name(fd))].data = Some(data)]
                /\ SetOffset(fd, Offset(fd) + Len(buf))
       ELSE UNCHANGED <<entries, open_files>>
    /\ UNCHANGED ttyVars

SeekResult(fd) == IsOpen(fd)

Seek(fd, offset) ==
    /\ IF IsOpen(fd) THEN SetOffset(fd, offset) ELSE UNCHANGED open_files
    /\ UNCHANGED <<entries, ttyVars>>

StatResult(path) ==
    IF Matches(entries, path) = {} THEN None
    ELSE LET e == entries[First(entries, path)]
         IN  Some([size |-> IF e.data = None THEN 0 ELSE Len(e.data[1]),
                   file_type |-> e.file_type])

ListDirResult == [i \in DOMAIN entries |-> entries[i].name]

MkdirResult(path) == Matches(entries, path) = {}

Mkdir(path) ==
    /\ entries' = IF MkdirResult(path)
                  THEN Append(entries, [name |-> path, file_type |-> "Directory",
                                        data |-> Some(<<>>)])
                  ELSE entries
    /\ UNCHANGED <<open_files, ttyVars>>

\* Mutant: the entry before it is removed.
WithoutPrevious(s, i) == SubSeq(s, 1, i - 2) \o SubSeq(s, i, Len(s))

\* Vec::remove.
Without(s, i) == SubSeq(s, 1, i - 1) \o SubSeq(s, i + 1, Len(s))

UnlinkResult(path) == Matches(entries, path) # {}

\* unlink also closes the descriptors of that name.
Unlink(path) ==
    /\ IF UnlinkResult(path)
       THEN /\ entries' = Without(entries, First(entries, path))
            /\ open_files' = [j \in Fd |->
                  IF IsOpen(j) /\ Name(j) = path THEN None ELSE open_files[j]]
       ELSE UNCHANGED <<entries, open_files>>
    /\ UNCHANGED ttyVars

=============================================================================
