------------------------------- MODULE MCHeap -------------------------------
(***************************************************************************)
(* A heap of twelve units with blocks of one, two and four units.  Two     *)
(* layouts of different alignment share a class, two are served by the     *)
(* linked list directly, and one of these needs padding.                   *)
(***************************************************************************)
EXTENDS Heap

Layout(size, align) == [size |-> size, align |-> align]

MCBlockSizes == << 1, 2, 4 >>
MCLayouts == { Layout(1, 1), Layout(1, 2), Layout(3, 1), Layout(5, 1), Layout(5, 2) }

=============================================================================
