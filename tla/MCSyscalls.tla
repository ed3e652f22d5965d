----------------------------- MODULE MCSyscalls -----------------------------
(***************************************************************************)
(* Syscalls over a ramdisk of one file, which early_boot has opened.       *)
(* Processes name that file, or pass a name that is taken for the empty one*)
(***************************************************************************)
EXTENDS Syscalls

MCRamdisk ==
    << [name |-> "init", file_type |-> "Regular", data |-> << <<"x">> >>] >>
MCBootFiles == << "init" >>

=============================================================================
