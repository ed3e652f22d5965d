----------------------------- MODULE RoundRobin -----------------------------
(***************************************************************************)
(* What the scheduler promises, without stacks, frames and registers: the  *)
(* tasks that can run take turns in first-in first-out order, and a task   *)
(* that leaves is gone for good.  Scheduler implements it (see             *)
(* SchedulerRefinement).                                                   *)
(***************************************************************************)
EXTENDS Naturals, Sequences

CONSTANTS
    Threads,    \* what can be scheduled
    Nobody      \* not a thread

VARIABLES
    ready,      \* the threads waiting for the CPU, first to run first
    running,    \* the thread that has the CPU, or Nobody
    leaving,    \* the running thread has announced its exit
    gone        \* the threads that have left

vars == <<ready, running, leaving, gone>>

Waiting == {ready[i] : i \in DOMAIN ready}

Init ==
    /\ ready = <<>>
    /\ running = Nobody
    /\ leaving = FALSE
    /\ gone = {}

\* A new thread queues up; all come before the first one runs.
Admit(t) ==
    /\ t \notin Waiting \cup gone
    /\ running = Nobody
    /\ ready' = Append(ready, t)
    /\ UNCHANGED <<running, leaving, gone>>

\* The first thread gets the CPU.
Start ==
    /\ running = Nobody
    /\ ready # <<>>
    /\ running' = Head(ready)
    /\ ready' = Tail(ready)
    /\ UNCHANGED <<leaving, gone>>

\* The running thread goes to the back of the queue and the first one runs.
Rotate ==
    /\ running # Nobody
    /\ ~leaving
    /\ ready # <<>>
    /\ running' = Head(ready)
    /\ ready' = Append(Tail(ready), running)
    /\ UNCHANGED <<leaving, gone>>

\* The running thread announces its exit.
Leave ==
    /\ running # Nobody
    /\ ~leaving
    /\ leaving' = TRUE
    /\ UNCHANGED <<ready, running, gone>>

\* It loses the CPU: to the first thread in the queue, or to nobody.
Retire ==
    /\ leaving
    /\ leaving' = FALSE
    /\ gone' = gone \cup {running}
    /\ IF ready # <<>>
       THEN running' = Head(ready) /\ ready' = Tail(ready)
       ELSE running' = Nobody /\ ready' = ready

Next == (\E t \in Threads : Admit(t)) \/ Start \/ Rotate \/ Leave \/ Retire

Spec == Init /\ [][Next]_vars

=============================================================================
