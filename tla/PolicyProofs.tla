---------------------------- MODULE PolicyProofs ----------------------------
(***************************************************************************)
(* The scheduler implements the round-robin policy, for any number of      *)
(* tasks: every step of the kernel is a step of module RoundRobin or       *)
(* leaves its variables alone.  The invariant of SchedulerProofs supplies  *)
(* what the steps need to know of the queue and of the current task.       *)
(***************************************************************************)
EXTENDS SchedulerRefinement, SchedulerProofs

\* Zenon first: it needs no encoding of the context.
USE ZenonT(3), SMTT(20)

-----------------------------------------------------------------------------
(* The abstract state *)

\* The tasks that have left, as SchedulerRefinement maps them.
Gone == {t \in Tasks : state[t] = "Zombie" /\ t # current_task}

\* A step that leaves the queue, the current task and the states alone is a
\* stuttering step of the policy.
LEMMA AbstractStutter ==
    ASSUME UNCHANGED <<tasks, current_task, state>>
    PROVE  UNCHANGED Policy!vars
<1>1. tasks' = tasks /\ current_task' = current_task /\ state' = state
  OBVIOUS
<1>2. Leaving' = Leaving
  BY <1>1 DEF Leaving
<1>3. {t \in Tasks : state[t] = "Zombie" /\ t # current_task}'
        = {t \in Tasks : state[t] = "Zombie" /\ t # current_task}
  BY <1>1
<1> QED BY <1>1, <1>2, <1>3 DEF Policy!vars

\* Between tasks there is no current task; otherwise it runs or has exited.
LEMMA CurrentState ==
    ASSUME IInv, ~Stopped
    PROVE  \/ current_task = None
           \/ /\ current_task \in Tasks
              /\ state[current_task] \in {"Running", "Zombie"}
<1>1. ~AtRest
  BY DEF AtRest, Stopped
<1> QED BY <1>1 DEF IInv, Situation, Booting, Jumping, InProgram, InSyscall, InExit,
           Installed

\* The head of the queue: a task that is ready and not the current one.
LEMMA HeadOfQueue ==
    ASSUME IInv, tasks # <<>>
    PROVE  /\ Head(tasks) \in Tasks
           /\ Head(tasks) # current_task
           /\ state[Head(tasks)] = "Ready"
<1>1. tasks \in Seq(Tasks)
  BY DEF IInv, TypeOK
<1>2. 1 \in DOMAIN tasks /\ Head(tasks) = tasks[1] /\ Head(tasks) \in Tasks
  BY <1>1
<1>3. Head(tasks) \in Queued
  BY <1>2 DEF Queued
<1> QED BY <1>2, <1>3 DEF IInv, TaskConservation

-----------------------------------------------------------------------------
(* timer_tick *)

\* What a switch does to the states: a running task becomes ready, a zombie
\* stays one, the next task runs, and nothing else changes.
LEMMA SwitchedStates ==
    ASSUME IInv, tasks # <<>>, current_task \in Tasks,
           state[current_task] \in {"Running", "Zombie"},
           state' = SwitchStates(current_task, Head(tasks))
    PROVE  /\ state'[Head(tasks)] = "Running"
           /\ state'[current_task] =
                (IF state[current_task] = "Running" THEN "Ready" ELSE "Zombie")
           /\ \A t \in Tasks : t # current_task /\ t # Head(tasks) => state'[t] = state[t]
<1>1. state \in [Tasks -> TaskState]
  BY DEF IInv, TypeOK
<1>2. Head(tasks) \in Tasks /\ Head(tasks) # current_task
  BY HeadOfQueue
<1>3. CASE state[current_task] = "Running"
  <2>1. state' = [[state EXCEPT ![current_task] = "Ready"] EXCEPT ![Head(tasks)] = "Running"]
    BY <1>3 DEF SwitchStates
  <2> QED BY <1>1, <1>2, <1>3, <2>1
<1>4. CASE state[current_task] = "Zombie"
  <2>1. state' = [state EXCEPT ![Head(tasks)] = "Running"]
    BY <1>4 DEF SwitchStates
  <2> QED BY <1>1, <1>2, <1>4, <2>1
<1> QED BY <1>3, <1>4

\* A switch rotates the queue, or retires a task that has exited.
LEMMA SwitchRefines ==
    ASSUME IInv, ~Stopped, NEW stacks, NEW here, NEW g, TickSwitch(stacks, here, g)
    PROVE  Policy!Rotate \/ Policy!Retire
<1> DEFINE prev == current_task
           next == Head(tasks)
<1>1. /\ prev # None /\ tasks # <<>> /\ tasks' = Requeue(prev)
      /\ state' = SwitchStates(prev, next) /\ current_task' = next
  BY DEF TickSwitch
<1>2. prev \in Tasks /\ state[prev] \in {"Running", "Zombie"}
  BY <1>1, CurrentState
<1>3. next \in Tasks /\ next # prev /\ state[next] = "Ready" /\ next # None
  BY <1>1, HeadOfQueue, Ids
<1>4. /\ state'[next] = "Running"
      /\ state'[prev] = (IF state[prev] = "Running" THEN "Ready" ELSE "Zombie")
      /\ \A t \in Tasks : t # prev /\ t # next => state'[t] = state[t]
  BY <1>1, <1>2, SwitchedStates
<1>5. Leaving' = FALSE
  BY <1>1, <1>4 DEF Leaving
<1>6. CASE state[prev] = "Running"
  <2>1. Leaving = FALSE
    BY <1>6 DEF Leaving
  <2>2. tasks' = Append(Tail(tasks), prev)
    BY <1>1, <1>6 DEF Requeue
  <2>3. Gone' = Gone
    <3>1. ASSUME NEW t \in Tasks
          PROVE  (state'[t] = "Zombie" /\ t # next) <=> (state[t] = "Zombie" /\ t # prev)
      BY <1>3, <1>4, <1>6
    <3> QED BY <1>1, <3>1, Zenon DEF Gone
  <2> QED BY <1>1, <1>5, <2>1, <2>2, <2>3 DEF Policy!Rotate, Gone
<1>7. CASE state[prev] = "Zombie"
  <2>1. Leaving = TRUE
    BY <1>1, <1>7 DEF Leaving
  <2>2. tasks' = Tail(tasks)
    BY <1>1, <1>7 DEF Requeue
  <2>3. Gone' = Gone \cup {prev}
    <3>1. ASSUME NEW t \in Tasks
          PROVE  (state'[t] = "Zombie" /\ t # next)
                   <=> (state[t] = "Zombie" /\ t # prev) \/ t = prev
      BY <1>3, <1>4, <1>7
    <3> QED BY <1>1, <1>2, <3>1, Zenon DEF Gone
  <2> QED BY <1>1, <1>5, <2>1, <2>2, <2>3 DEF Policy!Retire, Gone
<1> QED BY <1>2, <1>6, <1>7

\* The last task leaves: nobody runs.
LEMMA HaltRefines ==
    ASSUME IInv, NEW stacks, NEW here, NEW g, TickHalt(stacks, here, g)
    PROVE  Policy!Retire
<1>1. /\ current_task # None /\ tasks = <<>> /\ state[current_task] = "Zombie"
      /\ current_task' = None /\ tasks' = tasks /\ state' = state
  BY DEF TickHalt
<1>2. current_task \in Tasks
  BY <1>1 DEF IInv, TypeOK
<1>3. Leaving = TRUE /\ Leaving' = FALSE
  BY <1>1 DEF Leaving
<1>4. Gone' = Gone \cup {current_task}
  BY <1>1, <1>2, Ids DEF Gone
<1> QED BY <1>1, <1>3, <1>4 DEF Policy!Retire, Gone

\* Every interrupt that runs timer_tick is a step of the policy or none.
LEMMA InterruptRefines ==
    ASSUME IInv, ~Stopped, NEW point, Interrupt(point)
    PROVE  [Policy!Next]_(Policy!vars)
<1>1. PICK stacks, here, g :
         \/ TickSwitch(stacks, here, g) \/ TickStay(stacks, here, g)
         \/ TickHalt(stacks, here, g) \/ TickIdle(stacks, here, g)
  BY DEF Interrupt
<1>2. CASE TickSwitch(stacks, here, g)
  BY <1>2, SwitchRefines DEF Policy!Next
<1>3. CASE TickHalt(stacks, here, g)
  BY <1>3, HaltRefines DEF Policy!Next
<1>4. CASE TickStay(stacks, here, g) \/ TickIdle(stacks, here, g)
  BY <1>4, AbstractStutter DEF TickStay, TickIdle
<1> QED BY <1>1, <1>2, <1>3, <1>4

-----------------------------------------------------------------------------
(* Creation, start and exit *)

\* add_task admits a task the policy has not seen.
LEMMA AddTaskRefines ==
    ASSUME IInv, AddTask
    PROVE  Policy!Admit(next_id) /\ next_id \in Tasks
<1>1. /\ cpu.pc = "boot" /\ next_id \in Tasks /\ tasks' = Append(tasks, next_id)
      /\ current_task' = current_task /\ state' = state
  BY DEF AddTask
<1>2. current_task = None /\ state[next_id] = "Ready"
  BY <1>1, SituationAt DEF Booting
<1>3. next_id \notin Queued
  <2>1. ~(next_id < next_id)
    BY <1>1, Ids
  <2> QED BY <2>1 DEF IInv, TaskConservation, Created
<1>4. next_id \notin Policy!Waiting
  BY <1>3 DEF Policy!Waiting, Queued
<1>5. Leaving' = Leaving /\ Gone' = Gone
  BY <1>1 DEF Leaving, Gone
<1> QED BY <1>1, <1>2, <1>4, <1>5 DEF Policy!Admit, Gone

\* start_scheduling starts the first task, or panics without one.
LEMMA StartPickRefines ==
    ASSUME IInv, StartPick
    PROVE  [Policy!Next]_(Policy!vars)
<1>1. CASE tasks = <<>>
  BY <1>1, AbstractStutter DEF StartPick
<1>2. CASE tasks # <<>>
  <2> DEFINE next == Head(tasks)
  <2>1. /\ cpu.pc = "start" /\ tasks' = Tail(tasks) /\ current_task' = next
        /\ state' = [state EXCEPT ![next] = "Running"]
    BY <1>2 DEF StartPick
  <2>2. current_task = None /\ \A t \in Tasks : state[t] = "Ready"
    BY <2>1, SituationAt DEF Booting
  <2>3. next \in Tasks /\ state \in [Tasks -> TaskState]
    BY <1>2, HeadOfQueue DEF IInv, TypeOK
  <2>4. \A t \in Tasks : state'[t] \in {"Ready", "Running"}
    BY <2>1, <2>2, <2>3
  <2>5. Leaving = FALSE /\ Leaving' = FALSE
    BY <2>1, <2>2, <2>3, <2>4 DEF Leaving
  <2>6. Gone' = Gone
    BY <2>1, <2>2, <2>4 DEF Gone
  <2> QED BY <1>2, <2>1, <2>2, <2>5, <2>6 DEF Policy!Start, Policy!Next, Gone
<1> QED BY <1>1, <1>2

\* exit_current_task announces the exit of the running task, which keeps the
\* CPU until its yield.
LEMMA ExitRefines ==
    ASSUME IInv, SyscallExit \/ UserFault
    PROVE  Policy!Leave
<1>1. MarkZombie /\ tasks' = tasks /\ current_task' = current_task
  BY DEF SyscallExit, UserFault, queueVars
<1>2. Installed("Running")
  BY SituationAt DEF SyscallExit, UserFault, InSyscall, InProgram
<1>3. /\ current_task \in Tasks /\ current_task # None
      /\ state[current_task] = "Running"
  BY <1>2, Ids DEF Installed
<1>4. state' = [state EXCEPT ![current_task] = "Zombie"] /\ state \in [Tasks -> TaskState]
  BY <1>1, <1>3 DEF MarkZombie, IInv, TypeOK
<1>5. /\ state'[current_task] = "Zombie"
      /\ \A t \in Tasks : t # current_task => state'[t] = state[t]
  BY <1>3, <1>4
<1>6. Leaving = FALSE /\ Leaving' = TRUE
  BY <1>1, <1>3, <1>5 DEF Leaving
<1>7. Gone' = Gone
  BY <1>1, <1>5 DEF Gone
<1> QED BY <1>1, <1>3, <1>6, <1>7 DEF Policy!Leave, Gone

-----------------------------------------------------------------------------
(* The theorem *)

\* The initial states of the kernel are those of the policy.
LEMMA InitRefines == Init => Policy!Init
<1> SUFFICES ASSUME Init PROVE Policy!Init
  OBVIOUS
<1>1. tasks = <<>> /\ current_task = None /\ \A t \in Tasks : state[t] = "Ready"
  BY DEF Init
<1>2. Leaving = FALSE /\ Gone = {}
  BY <1>1 DEF Leaving, Gone
<1> QED BY <1>1, <1>2 DEF Policy!Init, Gone

\* Every step of the kernel is one of the policy, or stutters.
LEMMA StepRefines == IInv /\ [Next]_vars => [Policy!Next]_(Policy!vars)
<1> SUFFICES ASSUME IInv, [Next]_vars PROVE [Policy!Next]_(Policy!vars)
  OBVIOUS
<1>1. CASE AddTask
  BY <1>1, AddTaskRefines DEF Policy!Next
<1>2. CASE StartPick
  BY <1>2, StartPickRefines
<1>3. CASE TimerInterrupt
  BY <1>3, InterruptRefines DEF TimerInterrupt
<1>4. CASE KernelYield \/ SyscallYield \/ ExitYield
  <2>1. ~Stopped /\ \E point \in {"body", "sysret", "hlt"} : Interrupt(point)
    BY <1>4 DEF KernelYield, SyscallYield, ExitYield, Stopped
  <2> QED BY <2>1, InterruptRefines
<1>5. CASE SyscallExit \/ UserFault
  BY <1>5, ExitRefines DEF Policy!Next
<1>6. CASE EnableInterrupts \/ StartLoad \/ StartSwapGs \/ StartIretq
  <2>1. UNCHANGED <<tasks, current_task, state>>
    BY <1>6 DEF EnableInterrupts, StartLoad, StartSwapGs, StartIretq, queueVars, taskVars
  <2> QED BY <2>1, AbstractStutter
<1>7. CASE SyscallEntry \/ SyscallOther \/ SyscallReturn
  <2>1. UNCHANGED <<tasks, current_task, state>>
    BY <1>7 DEF SyscallEntry, SyscallOther, SyscallReturn, queueVars, taskVars
  <2> QED BY <2>1, AbstractStutter
<1>8. CASE UNCHANGED vars
  BY <1>8, AbstractStutter DEF vars
<1> QED BY <1>1, <1>2, <1>3, <1>4, <1>5, <1>6, <1>7, <1>8 DEF Next

\* The scheduler implements the round-robin policy: timer_tick takes tasks in
\* first-in first-out order, drops exactly those that exited, and nothing else
\* touches the order, for any number of tasks.
THEOREM SchedulerImplementsPolicy == Spec => ImplementsPolicy
<1>1. Spec => []IInv
  BY Invariance
<1>2. Init => Policy!Init
  BY InitRefines
<1>3. IInv /\ [Next]_vars => [Policy!Next]_(Policy!vars)
  BY StepRefines
<1> QED BY <1>1, <1>2, <1>3, PTL DEF Spec, ImplementsPolicy, Policy!Spec

=============================================================================
