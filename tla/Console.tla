------------------------------ MODULE Console ------------------------------
(***************************************************************************)
(* The text console on the framebuffer and the terminal that echoes on it: *)
(* kernel/src/drivers/video (mod.rs, psf.rs) and the echo of               *)
(* kernel/src/tty/mod.rs.                                                  *)
(*                                                                         *)
(* The framebuffer is the linear memory of the code, pitch pixels to a     *)
(* line.  A pixel of a glyph is known by its character and its place in    *)
(* the glyph; colours are left out.  Module Terminal says what the screen  *)
(* shows.                                                                  *)
(***************************************************************************)
EXTENDS Tty, Integers, SequencesExt

CONSTANTS
    Width, Height, Pitch,    \* of the framebuffer, in pixels
    FontWidth, FontHeight,   \* of a glyph
    GlyphCount,              \* length of the font
    CodePoint,               \* the code point of every character
    Outputs                  \* the strings tasks write

ASSUME ConsoleAssumption ==
    /\ {Width, Height, Pitch, FontWidth, FontHeight, GlyphCount} \subseteq Nat \ {0}
    /\ Width <= Pitch
    /\ FontWidth <= Width
    /\ FontHeight <= Height

VARIABLES
    fb,      \* the memory of the framebuffer
    cursor,  \* cursor_x and cursor_y
    above    \* history: where the lines above the cursor's are, and their lengths

consoleVars == <<fb, cursor, above>>
vars == <<ttyVars, consoleVars>>

Pixels == 0..(Pitch * Height - 1)
Logo == <<"logo", 0, 0>>
Background == <<"background", 0, 0>>

-----------------------------------------------------------------------------
(* The font: get_glyph *)

\* get_glyph returns Some.
HasGlyph(c) == CodePoint[c] < GlyphCount

-----------------------------------------------------------------------------
(* Framebuffer and TextConsole, on a record of fb, cursor and above *)

\* The place of a pixel in the memory.
At(x, y) == y * Pitch + x

\* set_pixel for the pixels of a glyph, clipped to the screen.
Fill(s, x, y, glyph) ==
    LET inside == {p \in DOMAIN glyph : x + p[1] < Width /\ y + p[2] < Height}
        written == {At(x + p[1], y + p[2]) : p \in inside}
    IN  [s EXCEPT !.fb = [a \in Pixels |->
            IF a \in written
            THEN glyph[<<(a % Pitch) - x, (a \div Pitch) - y>>] ELSE @[a]]]

Cell == (0..(FontWidth - 1)) \X (0..(FontHeight - 1))
Glyph(c) == [p \in Cell |-> <<c, p[1], p[2]>>]
Blank == [p \in Cell |-> Background]

\* Mutant: the last line keeps what it showed.
ScrollKeepsLast(s) ==
    LET line_size == Pitch * FontHeight
        total_size == Pitch * Height
    IN  [fb |-> [a \in Pixels |-> IF a < total_size - line_size
                                  THEN s.fb[a + line_size] ELSE s.fb[a]],
         x |-> 0, y |-> Height - FontHeight, above |-> s.above]

\* scroll: the memory moves up by a line of text and the last lines are cleared.
Scroll(s) ==
    LET line_size == Pitch * FontHeight
        total_size == Pitch * Height
    IN  [fb |-> [a \in Pixels |-> IF a < total_size - line_size
                                  THEN s.fb[a + line_size] ELSE Background],
         x |-> 0, y |-> Height - FontHeight, above |-> s.above]

\* What becomes of the lines above: they move up, and out of the screen.
MoveUp(lines) ==
    SelectSeq([k \in DOMAIN lines |-> [lines[k] EXCEPT !.y = @ - FontHeight]],
              LAMBDA l : l.y >= 0)

\* Mutant: the screen scrolls only when the next line is below it altogether.
NewlineLate(s) ==
    LET done == Append(s.above, [y |-> s.y, len |-> s.x \div FontWidth])
    IN  IF s.y + FontHeight > Height
        THEN Scroll([s EXCEPT !.above = MoveUp(done)])
        ELSE [s EXCEPT !.x = 0, !.y = @ + FontHeight, !.above = done]

\* newline_locked.
NewlineLocked(s) ==
    LET done == Append(s.above, [y |-> s.y, len |-> s.x \div FontWidth])
    IN  IF s.y + 2 * FontHeight > Height
        THEN Scroll([s EXCEPT !.above = MoveUp(done)])
        ELSE [s EXCEPT !.x = 0, !.y = @ + FontHeight, !.above = done]

\* Mutant: a character without a glyph takes its place.
WriteCharBlank(s, c) ==
    IF c = "newline" THEN NewlineLocked(s)
    ELSE LET t == IF s.x + FontWidth > Width THEN NewlineLocked(s) ELSE s
         IN  IF ~HasGlyph(c) THEN [t EXCEPT !.x = @ + FontWidth]
             ELSE [Fill(t, t.x, t.y, Glyph(c)) EXCEPT !.x = @ + FontWidth]

\* write_char.
WriteChar(s, c) ==
    IF c = "newline" THEN NewlineLocked(s)
    ELSE IF ~HasGlyph(c) THEN s
    ELSE LET t == IF s.x + FontWidth > Width THEN NewlineLocked(s) ELSE s
         IN  [Fill(t, t.x, t.y, Glyph(c)) EXCEPT !.x = @ + FontWidth]

\* backspace.
Backspace(s) ==
    IF s.x >= FontWidth
    THEN Fill([s EXCEPT !.x = @ - FontWidth], s.x - FontWidth, s.y, Blank)
    ELSE s

-----------------------------------------------------------------------------
(* Actions *)

Screen == [fb |-> fb, x |-> cursor[1], y |-> cursor[2], above |-> above]

Show(s) ==
    /\ fb' = s.fb
    /\ cursor' = <<s.x, s.y>>
    /\ above' = s.above

\* keyboard_interrupt_handler: Tty::handle_input with its echo.
TypeKey(k) ==
    /\ KeyPress(k)
    /\ Show(CASE k = "newline" -> WriteChar(Screen, k)
              [] k = "backspace" /\ line_buffer # <<>> -> Backspace(Screen)
              [] k \in Char -> WriteChar(Screen, k)
              [] OTHER -> Screen)

\* Tty::write and write_str.
Write(str) ==
    /\ Show(FoldLeft(WriteChar, Screen, str))
    /\ UNCHANGED ttyVars

\* A task reads a line, which shows nothing.
Read == ReadLine /\ UNCHANGED consoleVars

\* video::init clears the screen and draws its squares; init_console starts at
\* the top.
Init ==
    /\ TtyInit
    /\ fb = [a \in Pixels |-> IF a \in {At(1, 1), At(2, 1)} THEN Logo ELSE Background]
    /\ cursor = <<0, 0>>
    /\ above = <<>>

Next ==
    \/ \E k \in Key : TypeKey(k)
    \/ \E str \in Outputs : Write(str)
    \/ Read

Spec == Init /\ [][Next]_vars

-----------------------------------------------------------------------------
(* Properties *)

\* The variables have their types, and the cursor is on the screen.
TypeOK ==
    /\ fb \in [Pixels -> {Background, Logo} \cup
                         (Char \X (0..(FontWidth - 1)) \X (0..(FontHeight - 1)))]
    /\ cursor \in (0..Width) \X (0..(Height - FontHeight))
    /\ keyboard_buffer \in 0..KeyboardBufferSize

\* The character whose whole glyph is at a place, if any.
CharAt(x, y) ==
    LET shown == {c \in Char : \A i \in 0..(FontWidth - 1), j \in 0..(FontHeight - 1) :
                    fb[At(x + i, y + j)] = <<c, i, j>>}
    IN  IF shown = {} THEN "garbled" ELSE CHOOSE c \in shown : TRUE

LineAt(y, len) == [k \in 1..len |-> CharAt((k - 1) * FontWidth, y)]

\* The lines one reads on the screen.
Lines ==
    Append([k \in DOMAIN above |-> LineAt(above[k].y, above[k].len)],
           LineAt(cursor[2], cursor[1] \div FontWidth))

Abstract ==
    INSTANCE Terminal WITH
        Rows <- Height \div FontHeight, Cols <- Width \div FontWidth,
        Shown <- {c \in Char : HasGlyph(c)},
        Strings <- Outputs \cup {<<k>> : k \in Char \cup {"newline"}},
        lines <- Lines

\* The pixels show what a terminal of that many rows and columns shows, also
\* when the screen is no whole number of glyphs wide or high, the memory has
\* padding, and the lines have scrolled.
ImplementsTerminal == Abstract!Spec

\* Nothing is left behind: right of the cursor and below its line no pixel
\* belongs to a character (backspace erases, scroll clears).
NoRemains ==
    \A x \in 0..(Pitch - 1), y \in 0..(Height - 1) :
        y >= cursor[2] + FontHeight \/ (y >= cursor[2] /\ x >= cursor[1]) =>
            fb[At(x, y)] \in {Background, Logo}

=============================================================================
