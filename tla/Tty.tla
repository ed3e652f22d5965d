-------------------------------- MODULE Tty --------------------------------
(***************************************************************************)
(* The terminal's line discipline and the raw keyboard buffer, as the      *)
(* keyboard interrupt handler feeds them: kernel/src/tty/mod.rs,           *)
(* kernel/src/input/mod.rs and keyboard_interrupt_handler in               *)
(* kernel/src/interrupts/mod.rs.  Module Console adds the echo.            *)
(***************************************************************************)
EXTENDS Naturals, Sequences

CONSTANTS
    Char,               \* the printable characters
    KeyboardBufferSize, \* the capacity of KEYBOARD_BUFFER (128 in the code)
    MaxLine,            \* bound: characters typed on one line
    MaxLines            \* bound: lines waiting to be read

ASSUME TtyAssumption ==
    /\ KeyboardBufferSize \in Nat
    /\ MaxLine \in Nat
    /\ MaxLines \in Nat

VARIABLES
    line_buffer,        \* Tty.line_buffer
    input_queue,        \* Tty.input_queue
    keyboard_buffer     \* the length of KEYBOARD_BUFFER, which nothing reads

ttyVars == <<line_buffer, input_queue, keyboard_buffer>>

Key == Char \cup {"newline", "backspace", "control"}

\* Option<T>
None == <<>>
Some(v) == <<v>>

TtyInit ==
    /\ line_buffer = <<>>
    /\ input_queue = <<>>
    /\ keyboard_buffer = 0

\* Mutant: a completed line goes to the front of the queue.
HandleInputFront(k) ==
    \/ /\ k = "newline"
       /\ input_queue' = <<Append(line_buffer, k)>> \o input_queue
       /\ line_buffer' = <<>>
    \/ /\ k \in Char
       /\ line_buffer' = Append(line_buffer, k)
       /\ UNCHANGED input_queue

\* Tty::handle_input.
HandleInput(k) ==
    \/ /\ k = "newline"
       /\ input_queue' = Append(input_queue, Append(line_buffer, k))
       /\ line_buffer' = <<>>
    \/ /\ k = "backspace"
       /\ line_buffer' = IF line_buffer = <<>> THEN <<>>
                         ELSE SubSeq(line_buffer, 1, Len(line_buffer) - 1)
       /\ UNCHANGED input_queue
    \/ /\ k = "control"
       /\ UNCHANGED <<line_buffer, input_queue>>
    \/ /\ k \in Char
       /\ line_buffer' = Append(line_buffer, k)
       /\ UNCHANGED input_queue

\* Mutant: the capacity is not checked.
AddCharAlways == keyboard_buffer' = keyboard_buffer + 1

\* add_char: a full buffer drops the character.
AddChar ==
    keyboard_buffer' = IF keyboard_buffer < KeyboardBufferSize
                       THEN keyboard_buffer + 1 ELSE keyboard_buffer

\* keyboard_interrupt_handler, for a key that decodes to a character.
KeyPress(k) ==
    /\ k \in Char => Len(line_buffer) < MaxLine
    /\ k = "newline" => Len(input_queue) < MaxLines
    /\ HandleInput(k)
    /\ AddChar

\* Tty::read_line: its result and what it does.
ReadLineResult == IF input_queue = <<>> THEN None ELSE Some(Head(input_queue))

ReadLine ==
    /\ input_queue' = IF input_queue = <<>> THEN <<>> ELSE Tail(input_queue)
    /\ UNCHANGED <<line_buffer, keyboard_buffer>>

=============================================================================
