------------------------------ MODULE Terminal ------------------------------
(***************************************************************************)
(* What the text console promises: a screen of Rows lines of Cols columns  *)
(* that keeps the last lines written.  Characters go to the end of the     *)
(* last line, a full line wraps, a full screen scrolls, and backspace      *)
(* erases within the last line.  Characters without a glyph leave no       *)
(* trace.                                                                  *)
(***************************************************************************)
EXTENDS Integers, Sequences, SequencesExt

CONSTANTS
    Rows, Cols,
    Shown,    \* the characters that have a glyph
    Strings   \* what may be written at once, as sequences of characters

VARIABLE lines

NewLine(ls) == Append(IF Len(ls) = Rows THEN Tail(ls) ELSE ls, <<>>)

PutAtEnd(ls, c) == [ls EXCEPT ![Len(ls)] = Append(@, c)]

Put(ls, c) ==
    CASE c = "newline" -> NewLine(ls)
      [] c \in Shown -> PutAtEnd(IF Len(Last(ls)) = Cols THEN NewLine(ls) ELSE ls, c)
      [] OTHER -> ls

Init == lines = << <<>> >>

Write == \E s \in Strings : lines' = FoldLeft(Put, lines, s)

Erase ==
    /\ Last(lines) # <<>>
    /\ lines' = [lines EXCEPT ![Len(lines)] = Front(@)]

Next == Write \/ Erase

Spec == Init /\ [][Next]_lines

=============================================================================
