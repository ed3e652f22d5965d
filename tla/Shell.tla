------------------------------- MODULE Shell -------------------------------
(***************************************************************************)
(* The interactive shell reading commands from the terminal while the      *)
(* keyboard interrupt adds keys: userland/shell/src/main.rs over the       *)
(* system calls.  What the commands print is left out: a write to the      *)
(* terminal changes neither the file system nor its input.                 *)
(***************************************************************************)
EXTENDS Syscalls

CONSTANTS
    LineBuf,        \* the size of the shell's line buffer (256 in the code)
    White,          \* the characters trim() removes besides the newline
    ExitCommand     \* the command that ends the shell

\* Descriptors and lengths fit a register, and early_boot leaves a descriptor
\* free (it opens at most five files of sixteen).
ASSUME ShellAssumption ==
    /\ LineBuf \in Nat \ {0}
    /\ LineBuf < 2^(Width - 1)
    /\ MAX_OPEN_FILES <= 2^(Width - 1)
    /\ Len(BootFiles) < MAX_OPEN_FILES
    /\ White \subseteq Char

VARIABLES
    pc,             \* "start", "read", "handle", "exited"
    tty_fd,         \* the descriptor of the terminal
    line_buf,       \* the buffer, as far as it has been filled
    len,            \* what read returned
    submitted,      \* ghost: the lines completed with a newline
    handled         \* ghost: what it made of each line, <<>> where that was blank

shellVars == <<pc, tty_fd, line_buf, len, handled>>
allVars == <<vars, shellVars, submitted>>

ShellInit ==
    /\ Init
    /\ pc = "start"
    /\ tty_fd = 0
    /\ line_buf = <<>>
    /\ len = 0
    /\ submitted = <<>>
    /\ handled = <<>>

\* open("tty").expect(...): the panic handler exits.
ShellOpen ==
    /\ pc = "start"
    /\ HandleOpen("tty")
    /\ LET fd == Decode(ret'.rax)
       IN  /\ tty_fd' = IF fd = None THEN tty_fd ELSE fd[1]
           /\ pc' = IF fd = None THEN "exited" ELSE "read"
    /\ UNCHANGED <<line_buf, len, submitted, handled>>

\* buf[..len].copy_from_slice: the rest of the buffer keeps its bytes.
Filled(buf, bytes) == bytes \o SubSeq(buf, Len(bytes) + 1, Len(buf))

\* read(tty_fd, &mut line_buf): nothing to read is tried again.
ShellRead ==
    /\ pc = "read"
    /\ HandleRead(tty_fd, LineBuf)
    /\ LET bytes == ReadResult(tty_fd, LineBuf)
           n == Decode(ret'.rax)
       IN  /\ line_buf' = IF bytes = None THEN line_buf
                          ELSE Filled(line_buf, bytes[1])
           /\ len' = IF n = None THEN 0 ELSE n[1]
           /\ pc' = IF len' > 0 THEN "handle" ELSE "read"
    /\ UNCHANGED <<tty_fd, submitted, handled>>

\* str::trim.
Trim(s) ==
    LET kept == {i \in DOMAIN s : s[i] \notin White \cup {"newline"}}
        first == CHOOSE i \in kept : \A j \in kept : i <= j
        last == CHOOSE i \in kept : \A j \in kept : j <= i
    IN  IF kept = {} THEN <<>> ELSE SubSeq(s, first, last)

\* Mutant: a blank line is never done with.
ShellHandleStuck ==
    /\ pc = "handle"
    /\ LET line == Trim(SubSeq(line_buf, 1, len))
       IN  /\ line # <<>>
           /\ handled' = Append(handled, line)
           /\ pc' = IF line = ExitCommand THEN "exited" ELSE "read"
    /\ UNCHANGED <<vars, tty_fd, line_buf, len, submitted>>

\* handle_command, unless the line is blank.
ShellHandle ==
    /\ pc = "handle"
    /\ LET line == Trim(SubSeq(line_buf, 1, len))
       IN  /\ handled' = Append(handled, line)
           /\ pc' = IF line = ExitCommand THEN "exited" ELSE "read"
    /\ UNCHANGED <<vars, tty_fd, line_buf, len, submitted>>

\* A key, while the bound on the lines typed is not reached.
Typing ==
    /\ Len(submitted) < MaxLines
    /\ Keyboard
    /\ submitted' = IF Len(input_queue') > Len(input_queue)
                    THEN Append(submitted, input_queue'[Len(input_queue')])
                    ELSE submitted
    /\ UNCHANGED shellVars

ShellStep == ShellOpen \/ ShellRead \/ ShellHandle

ShellNext == ShellStep \/ Typing

\* The scheduler runs the shell again and again; nobody has to type.
ShellSpec == ShellInit /\ [][ShellNext]_allVars /\ WF_allVars(ShellStep)

-----------------------------------------------------------------------------
(* Properties *)

\* What the shell is to execute for the lines typed: the first LineBuf bytes
\* of each, without the white space around them; nothing for a blank one.
Commands ==
    [i \in DOMAIN submitted |-> Trim(Bytes(submitted[i], 0, LineBuf))]

\* The shell executes the lines as they were typed, each once and in order,
\* however the keyboard interrupt and the shell's reads interleave.
CommandsAsTyped == Prefix(handled, Commands)

\* Every line submitted is read, unless the shell has exited.
LinesConsumed ==
    \A n \in 1..MaxLines :
        Len(submitted) >= n ~>
            Len(submitted) - Len(input_queue) >= n \/ pc = "exited"

=============================================================================
