------------------------------ MODULE MCShell ------------------------------
(***************************************************************************)
(* The shell with a two-byte line buffer, so that lines of one and two     *)
(* characters fit with and without their newline.                          *)
(***************************************************************************)
EXTENDS Shell

MCRamdisk ==
    << [name |-> "init", file_type |-> "Regular", data |-> << <<"x">> >>] >>
MCBootFiles == << "init" >>
MCExitCommand == << "x", "x" >>

=============================================================================
