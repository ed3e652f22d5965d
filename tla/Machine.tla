------------------------------ MODULE Machine ------------------------------
(***************************************************************************)
(* What the modules of the boot path share: the width of an integer, the   *)
(* size of a page, and two idioms of the code.                             *)
(***************************************************************************)
EXTENDS Integers, Sequences

CONSTANTS
    PageSize,   \* PAGE_SIZE (4096 in the code)
    MaxAddress  \* u64::MAX and usize::MAX

ASSUME MachineAssumption ==
    /\ PageSize \in Nat \ {0}
    /\ MaxAddress \in Nat

\* The range 0..n of the code, in order.
Range0(n) == [k \in 1..n |-> k - 1]

\* u64::div_ceil by a page.
PagesFor(bytes) == (bytes + PageSize - 1) \div PageSize

\* A sequence of checks <<fails, error>> in program order, each ending in an
\* early return: the error of the first that fails, "ok" if none does.
FirstError(checks) ==
    LET failed == {k \in DOMAIN checks : checks[k][1]}
    IN  IF failed = {} THEN "ok"
        ELSE checks[CHOOSE k \in failed : \A j \in failed : k <= j][2]

=============================================================================
