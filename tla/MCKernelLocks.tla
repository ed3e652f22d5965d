--------------------------- MODULE MCKernelLocks ---------------------------
(***************************************************************************)
(* KernelLocks with two user tasks, added before the kernel tasks as in    *)
(* early_boot.                                                             *)
(***************************************************************************)
EXTENDS KernelLocks

CONSTANTS u1, u2

MCUser == {u1, u2}
MCTaskOrder == <<u1, u2, Heartbeat, Worker>>

=============================================================================
