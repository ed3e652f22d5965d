------------------------ MODULE SchedulerRefinement ------------------------
(***************************************************************************)
(* The scheduler with its stacks, frames and entry code implements the     *)
(* abstract round-robin policy.                                            *)
(***************************************************************************)
EXTENDS Scheduler

Leaving == current_task # None /\ state[current_task] = "Zombie"

Policy == INSTANCE RoundRobin WITH
    Threads <- Tasks,
    Nobody <- None,
    ready <- tasks,
    running <- current_task,
    leaving <- Leaving,
    gone <- {t \in Tasks : state[t] = "Zombie" /\ t # current_task}

\* Every step of the kernel is a step of the policy or leaves the queue, the
\* running task and the set of exited tasks alone: timer_tick takes tasks in
\* first-in first-out order and drops exactly those that exited.
ImplementsPolicy == Policy!Spec

=============================================================================
