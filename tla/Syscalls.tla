------------------------------ MODULE Syscalls ------------------------------
(***************************************************************************)
(* User processes calling the kernel's file system calls through libturnix *)
(* while the keyboard feeds the terminal: kernel/src/syscall/handler.rs,   *)
(* syscall_dispatch in kernel/src/syscall/mod.rs and the wrappers of       *)
(* userland/libturnix/src/lib.rs.  A system call runs with interrupts      *)
(* masked and so is one action; calls of different processes, and those of *)
(* heartbeat_task, interleave.                                             *)
(***************************************************************************)
EXTENDS Vfs, Integers

CONSTANT
    Width       \* bits of a register (64 in the code)

ASSUME SyscallsAssumption == Width \in Nat \ {0, 1}

VARIABLES
    ret,        \* the last system call: did the handler succeed, and rax
    seen        \* ghost: what each descriptor delivered since it was positioned

vars == <<vfsVars, ttyVars, ret, seen>>

\* A path that is not UTF-8 is taken for the empty one.
NotUtf8 == "not utf-8"
Utf8(path) == IF path = NotUtf8 THEN "" ELSE path
Arg == Path \cup {NotUtf8}

Success(v) == [ok |-> TRUE, value |-> v]
Error(e) == [ok |-> FALSE, value |-> e]

\* syscall_dispatch: "err as u64" keeps the bits.
Rax(result) == result.value % 2^Width

\* libturnix: a result that is negative as an i64 is a failure.
Decode(rax) == IF rax >= 2^(Width - 1) THEN None ELSE Some(rax)

Return(result) == ret' = [ok |-> result.ok, rax |-> Rax(result)]

Positioned(at) == [base |-> at, bytes |-> <<>>]

Init ==
    /\ VfsInit
    /\ TtyInit
    /\ ret = [ok |-> TRUE, rax |-> 0]
    /\ seen = [j \in Fd |->
          Positioned(IF open_files[j] = None THEN 0 ELSE Offset(j))]

-----------------------------------------------------------------------------
(* The handlers *)

HandleOpen(arg) ==
    LET path == Utf8(arg)
        fd == OpenResult(path)
    IN  /\ Open(path)
        /\ IF fd = None
           THEN Return(Error(1)) /\ UNCHANGED seen
           ELSE /\ Return(Success(fd[1]))
                /\ seen' = [seen EXCEPT ![fd[1]] = Positioned(0)]

\* close reports success whatever vfs.close answers.
HandleClose(fd) ==
    /\ Close(fd)
    /\ Return(Success(0))
    /\ seen' = [seen EXCEPT ![fd] = Positioned(0)]

HandleRead(fd, n) ==
    LET r == ReadResult(fd, n)
    IN  /\ Read(fd, n)
        /\ Return(IF r = None THEN Error(1) ELSE Success(Len(r[1])))
        /\ seen' = IF IsFile(fd) THEN [seen EXCEPT ![fd].bytes = @ \o r[1]]
                   ELSE seen

HandleWriteFile(fd, buf, utf8) ==
    LET r == WriteResult(fd, buf, utf8)
    IN  /\ Write(fd, buf)
        /\ Return(IF r = None THEN Error(1) ELSE Success(r[1]))
        /\ seen' = IF IsFile(fd)
                   THEN [seen EXCEPT ![fd] = Positioned(Offset(fd) + Len(buf))]
                   ELSE seen

HandleSeek(fd, offset) ==
    /\ Seek(fd, offset)
    /\ Return(IF SeekResult(fd) THEN Success(0) ELSE Error(1))
    /\ seen' = IF IsOpen(fd) THEN [seen EXCEPT ![fd] = Positioned(offset)]
               ELSE seen

HandleMkdir(arg) ==
    /\ Mkdir(Utf8(arg))
    /\ Return(IF MkdirResult(Utf8(arg)) THEN Success(0) ELSE Error(1))
    /\ UNCHANGED seen

HandleUnlink(arg) ==
    /\ Unlink(Utf8(arg))
    /\ Return(IF UnlinkResult(Utf8(arg)) THEN Success(0) ELSE Error(1))
    /\ seen' = [j \in Fd |-> IF open_files'[j] = None THEN Positioned(0)
                             ELSE seen[j]]

\* The calls that leave the file system as it is: stat, ls (the names that fit
\* the buffer, each taken for one unit), the ones that always succeed (write
\* to the serial line, getuid, getgid, yielder), the ones that always fail
\* (brk, fork, wait), null or empty arguments, and an unknown number.
HandleOther ==
    /\ \/ \E arg \in Arg :
             Return(IF StatResult(Utf8(arg)) = None THEN Error(1) ELSE Success(0))
       \/ \E room \in 0..1 : Return(Success(AtMost(room, Len(ListDirResult))))
       \/ Return(Success(0))
       \/ Return(Error(1))
       \/ Return(Error(-1))
    /\ UNCHANGED <<vfsVars, ttyVars, seen>>

\* A key is pressed.
Keyboard ==
    /\ \E k \in Key : KeyPress(k)
    /\ UNCHANGED <<vfsVars, ret, seen>>

Next ==
    \/ \E arg \in Arg : HandleOpen(arg)
    \/ \E fd \in Fd : HandleClose(fd)
    \/ \E fd \in Fd, n \in 1..2 : HandleRead(fd, n)
    \/ \E fd \in Fd, b \in Byte \ {Zero}, utf8 \in BOOLEAN : HandleWriteFile(fd, <<b>>, utf8)
    \/ \E fd \in Fd, offset \in 0..MaxSize : HandleSeek(fd, offset)
    \/ \E arg \in Arg : HandleMkdir(arg)
    \/ \E arg \in Arg : HandleUnlink(arg)
    \/ HandleOther
    \/ Keyboard

Spec == Init /\ [][Next]_vars

-----------------------------------------------------------------------------
(* Properties *)

\* The variables have their types.
TypeOK ==
    /\ \A i \in DOMAIN entries :
          /\ entries[i].name \in FileName
          /\ entries[i].file_type \in FileType
          /\ Len(entries[i].data) <= 1
          /\ \A k \in DOMAIN entries[i].data : entries[i].data[k] \in Seq(Byte)
    /\ DOMAIN open_files = Fd
    /\ \A j \in Fd : open_files[j] # None => open_files[j] \in Seq(FileDescriptor)
    /\ line_buffer \in Seq(Char)
    /\ input_queue \in Seq(Seq(Char \cup {"newline"}))
    /\ keyboard_buffer \in 0..KeyboardBufferSize
    /\ ret \in [ok: BOOLEAN, rax: 0..(2^Width - 1)]

\* Every open descriptor resolves: an entry of its name exists, and the first
\* one is of the type recorded when the file was opened, whatever has been
\* created and unlinked since.  So stat cannot fail on an open file, which
\* early_boot's unwrap() relies on.
DescriptorsResolve ==
    \A j \in Fd : IsOpen(j) =>
        /\ StatResult(Name(j)) # None
        /\ StatResult(Name(j))[1].file_type = open_files[j][1].file_type

\* Successive reads of a descriptor deliver consecutive bytes of one file, from
\* where it was opened or positioned, while other processes write to the file,
\* and create and unlink others.
ReadsAreContiguous ==
    \A j \in Fd : IsFile(j) =>
        /\ seen[j].bytes = Bytes(DataOf(j)[1], seen[j].base, Offset(j) - seen[j].base)
        /\ seen[j].base + Len(seen[j].bytes) = Offset(j)

Prefix(s, t) == Len(s) <= Len(t) /\ s = SubSeq(t, 1, Len(s))

\* While a descriptor stays open its file only grows: a write appends, and
\* never changes or drops a byte, wherever the offset is.
GrowsOnly ==
    [][\A j \in Fd : IsFile(j) /\ IsFile(j)' /\ Name(j)' = Name(j) =>
          Prefix(DataOf(j)[1], DataOf(j)'[1])]_vars

\* "Negative values (in the range `-1` to `-4095`) represent error codes"
\* (docs/decisions/0002-user-mode-syscalls.md:28): libturnix reports a failed
\* call as a failure.
FailuresDecode ==
    ~ret.ok => Decode(ret.rax) = None

=============================================================================
