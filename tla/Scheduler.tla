----------------------------- MODULE Scheduler -----------------------------
(***************************************************************************)
(* The preemptive round-robin scheduler of the kernel together with the    *)
(* part of the CPU it depends on: the saved frames on the kernel stacks,   *)
(* the privilege level and interrupt flag, the GS base that swapgs         *)
(* exchanges, CR3, and the stack the CPU takes on entry from ring 3.       *)
(*                                                                         *)
(* Sources: kernel/src/task/scheduler.rs, kernel/src/task/mod.rs,          *)
(* kernel/src/interrupts/mod.rs (entry code and fault handlers),           *)
(* kernel/src/syscall/mod.rs (syscall_entry), kernel/src/gdt.rs and the    *)
(* task creation in kernel/src/boot.rs.                                    *)
(*                                                                         *)
(* One CPU.  An interrupt handler runs with interrupts masked from its     *)
(* first instruction to its iretq, so entry code, timer_tick and restore   *)
(* are one action.  SCHEDULER.try_lock succeeds in every such action: all  *)
(* holders of that lock (add_task, start_scheduling, exit_current_task,    *)
(* and getpid inside a system call) hold it with interrupts masked.        *)
(***************************************************************************)
EXTENDS Integers, Sequences, FiniteSets

CONSTANTS
    NumUser,    \* user tasks: early_boot creates them first, so their ids are 1..NumUser
    NumKernel,  \* kernel tasks: the ids after them
    Yielders,   \* the kernel tasks that call yield_task (heartbeat_task)
    Faulting,   \* the user tasks whose program can raise a page fault or a GPF
    UptimeMod   \* UPTIME_TICKS wraps at this value (2^64 in the code)

Tasks == 1..(NumUser + NumKernel)
UserTasks == 1..NumUser

ASSUME SchedulerAssumption ==
    /\ NumUser \in Nat
    /\ NumKernel \in Nat
    /\ NumUser + NumKernel > 0
    /\ Yielders \subseteq Tasks \ UserTasks
    /\ Faulting \subseteq UserTasks
    /\ UptimeMod \in Nat \ {0}

None == 0                       \* Option::None for a task
Boot == 0                       \* the boot context and its stack (boot_stack)
KernelSpace == 0                \* the PML4 the loader built
Stacks == Tasks \cup {Boot}

TaskState == {"Ready", "Running", "Blocked", "Zombie"}

\* Where a context continues: still booting, about to enter
\* start_scheduling, in its jump before rsp is loaded, before and after swapgs,
\* in the task's own program, in a system call, at the end of a system call,
\* in exit_current_task before and after its yield, and the two ways the
\* machine stops.
Points == {"boot", "start", "picked", "loaded", "iretq", "body", "syscall",
           "sysret", "exiting", "hlt", "halted", "panic"}

Frame == [code: Stacks, cs: {"user", "kernel"}, iflag: BOOLEAN, pc: Points]
Cpu == [code: Stacks, cs: {"user", "kernel"}, iflag: BOOLEAN, pc: Points,
        stk: Stacks]
Pointer == [stk: Stacks, depth: Nat]

VARIABLES
    next_id,          \* TaskId::new: the next id handed out
    tasks,            \* Scheduler.tasks
    current_task,     \* Scheduler.current_task
    current_task_id,  \* Scheduler.current_task_id
    task_count,       \* Scheduler.task_count
    state,            \* Task.state
    stack_ptr,        \* Task.stack_ptr: a frame, by stack and depth
    next_ptr,         \* the local variable of start_scheduling
    kstack,           \* the frames lying on each kernel stack, oldest first
    cpu,              \* what executes: whose code, ring, IF, continuation, stack
    gs,               \* GS base: "percpu" or "user" (KernelGsBase is the other)
    cr3,              \* the active address space
    rsp0,             \* TSS.rsp0 and PER_CPU.kernel_stack_ptr
    uptime            \* UPTIME_TICKS

queueVars == <<tasks, current_task, current_task_id, task_count>>
taskVars == <<next_id, state, stack_ptr>>
hwVars == <<kstack, cpu, gs, cr3, rsp0>>
vars == <<next_id, tasks, current_task, current_task_id, task_count, state,
          stack_ptr, next_ptr, kstack, cpu, gs, cr3, rsp0, uptime>>

-----------------------------------------------------------------------------
(* Task creation *)

\* Mutant: kernel tasks get an address space of their own.
SpaceOwn(t) == t

Space(t) == IF t \in UserTasks THEN t ELSE KernelSpace

\* The frame Task::new and Task::new_user write: RFLAGS 0x202 sets IF.
InitialFrame(t) ==
    [code |-> t, cs |-> IF t \in UserTasks THEN "user" ELSE "kernel",
     iflag |-> TRUE, pc |-> "body"]

Init ==
    /\ next_id = 1
    /\ tasks = <<>>
    /\ current_task = None
    /\ current_task_id = None
    /\ task_count = 0
    /\ state = [t \in Tasks |-> "Ready"]
    /\ stack_ptr = [t \in Tasks |-> [stk |-> t, depth |-> 0]]
    /\ next_ptr = [stk |-> Boot, depth |-> 0]
    /\ kstack = [s \in Stacks |-> <<>>]
    /\ \E i \in BOOLEAN :       \* the loader does not touch the firmware's IF
          cpu = [code |-> Boot, cs |-> "kernel", iflag |-> i, pc |-> "boot",
                 stk |-> Boot]
    /\ gs = "percpu"
    /\ cr3 = KernelSpace
    /\ rsp0 = Boot
    /\ uptime = 0

\* early_boot: Task::new or Task::new_user, then add_task.
AddTask ==
    /\ cpu.pc = "boot"
    /\ next_id \in Tasks
    /\ next_id' = next_id + 1
    /\ kstack' = [kstack EXCEPT ![next_id] = <<InitialFrame(next_id)>>]
    /\ stack_ptr' = [stack_ptr EXCEPT ![next_id] = [stk |-> next_id, depth |-> 1]]
    /\ tasks' = Append(tasks, next_id)
    /\ task_count' = task_count + 1
    /\ UNCHANGED <<current_task, current_task_id, state, next_ptr, cpu, gs,
                   cr3, rsp0, uptime>>

\* early_boot: interrupts::enable once every task has been added.
EnableInterrupts ==
    /\ cpu.pc = "boot"
    /\ next_id \notin Tasks
    /\ cpu' = [cpu EXCEPT !.iflag = TRUE, !.pc = "start"]
    /\ UNCHANGED <<queueVars, taskVars, next_ptr, kstack, gs, cr3, rsp0, uptime>>

-----------------------------------------------------------------------------
(* Entering and leaving the kernel *)

SwapGs(g) == IF g = "percpu" THEN "user" ELSE "percpu"

\* The stack the CPU pushes the interrupt frame on.
EntryStack == IF cpu.cs = "user" THEN rsp0 ELSE cpu.stk

\* The frames on the entry stack once the interrupted context is saved.  From
\* ring 3 the CPU starts at the top of the stack, over whatever lies there.
Pushed(s, point) ==
    LET frame == [code |-> cpu.code, cs |-> cpu.cs, iflag |-> cpu.iflag,
                  pc |-> point]
    IN  IF cpu.cs = "user" THEN <<frame>> ELSE Append(kstack[s], frame)

\* Mutant: the entry code leaves GS alone.
EntryGsKept == gs

\* timer_interrupt_entry and yield_interrupt_entry swap on entry from ring 3.
EntryGs == IF cpu.cs = "user" THEN SwapGs(gs) ELSE gs

\* The restore half of the entry code: rsp := ptr, pop the registers, swapgs
\* when the frame returns to ring 3, iretq.
Resume(stacks, ptr, g) ==
    LET frame == stacks[ptr.stk][ptr.depth]
    IN  /\ kstack' = [stacks EXCEPT ![ptr.stk] = SubSeq(@, 1, ptr.depth - 1)]
        /\ cpu' = [code |-> frame.code, cs |-> frame.cs, iflag |-> frame.iflag,
                   pc |-> frame.pc, stk |-> ptr.stk]
        /\ gs' = IF frame.cs = "user" THEN SwapGs(g) ELSE g

\* Mutant: set_interrupt_stack is not called.
SwitchToSameStack(t) ==
    /\ rsp0' = rsp0
    /\ cr3' = Space(t)

\* Task::switch_to with gdt::set_interrupt_stack.
SwitchTo(t) ==
    /\ rsp0' = t
    /\ cr3' = Space(t)

-----------------------------------------------------------------------------
(* timer_tick *)

\* Mutants: the preempted task is dropped; it goes to the front.
RequeueDrops(prev) == Tail(tasks)

RequeueFront(prev) ==
    IF state[prev] = "Running" THEN <<prev>> \o Tail(tasks) ELSE Tail(tasks)

\* The ready queue after its head has been taken: a task that was running goes
\* to the back, a zombie (or a blocked task) is dropped.
Requeue(prev) ==
    IF state[prev] = "Running" THEN Append(Tail(tasks), prev) ELSE Tail(tasks)

\* The states after the switch.
SwitchStates(prev, next) ==
    LET saved == IF state[prev] = "Running"
                 THEN [state EXCEPT ![prev] = "Ready"] ELSE state
    IN  [saved EXCEPT ![next] = "Running"]

\* Mutant: the stack pointer of the preempted task is not saved.
TickSwitchUnsaved(stacks, here, g) ==
    LET prev == current_task
        next == Head(tasks)
    IN  /\ prev # None
        /\ tasks # <<>>
        /\ tasks' = Requeue(prev)
        /\ state' = SwitchStates(prev, next)
        /\ UNCHANGED stack_ptr
        /\ current_task' = next
        /\ current_task_id' = next
        /\ SwitchTo(next)
        /\ Resume(stacks, stack_ptr[next], g)

\* Another task is ready: switch to it.
TickSwitch(stacks, here, g) ==
    LET prev == current_task
        next == Head(tasks)
    IN  /\ prev # None
        /\ tasks # <<>>
        /\ tasks' = Requeue(prev)
        /\ state' = SwitchStates(prev, next)
        /\ stack_ptr' = [stack_ptr EXCEPT ![prev] = here]
        /\ current_task' = next
        /\ current_task_id' = next
        /\ SwitchTo(next)
        /\ Resume(stacks, stack_ptr'[next], g)

\* Nothing else is ready and the current task can go on.
TickStay(stacks, here, g) ==
    /\ current_task # None
    /\ tasks = <<>>
    /\ state[current_task] # "Zombie"
    /\ stack_ptr' = [stack_ptr EXCEPT ![current_task] = here]
    /\ current_task_id' = current_task
    /\ Resume(stacks, here, g)
    /\ UNCHANGED <<tasks, current_task, state, rsp0, cr3>>

\* Nothing else is ready and the current task has exited: the machine halts in
\* timer_tick, with current_task taken and interrupts masked.
TickHalt(stacks, here, g) ==
    /\ current_task # None
    /\ tasks = <<>>
    /\ state[current_task] = "Zombie"
    /\ stack_ptr' = [stack_ptr EXCEPT ![current_task] = here]
    /\ current_task' = None
    /\ kstack' = stacks
    /\ cpu' = [cpu EXCEPT !.cs = "kernel", !.iflag = FALSE, !.pc = "halted",
                          !.stk = here.stk]
    /\ gs' = g
    /\ UNCHANGED <<tasks, current_task_id, state, rsp0, cr3>>

\* No task has been started yet: return to the interrupted context.
TickIdle(stacks, here, g) ==
    /\ current_task = None
    /\ Resume(stacks, here, g)
    /\ UNCHANGED <<tasks, current_task, current_task_id, state, stack_ptr, rsp0,
                   cr3>>

\* An interrupt that runs timer_tick; the interrupted context is to continue
\* at point.  The IDT gates are interrupt gates, so IF is clear throughout.
Interrupt(point) ==
    LET s == EntryStack
        stacks == [kstack EXCEPT ![s] = Pushed(s, point)]
        here == [stk |-> s, depth |-> Len(stacks[s])]
    IN  /\ \/ TickSwitch(stacks, here, EntryGs)
           \/ TickStay(stacks, here, EntryGs)
           \/ TickHalt(stacks, here, EntryGs)
           \/ TickIdle(stacks, here, EntryGs)
        /\ uptime' = (uptime + 1) % UptimeMod
        /\ UNCHANGED <<next_id, task_count, next_ptr>>

Stopped == cpu.pc \in {"halted", "panic"}

\* timer_interrupt_entry: the LAPIC timer, whenever interrupts are enabled.
TimerInterrupt ==
    /\ cpu.iflag
    /\ ~Stopped
    /\ Interrupt(cpu.pc)

-----------------------------------------------------------------------------
(* start_scheduling *)

\* Its first half, inside without_interrupts.
StartPick ==
    /\ cpu.pc = "start"
    /\ IF tasks # <<>>
       THEN LET next == Head(tasks)
            IN  /\ tasks' = Tail(tasks)
                /\ SwitchTo(next)
                /\ state' = [state EXCEPT ![next] = "Running"]
                /\ current_task' = next
                /\ current_task_id' = next
                /\ next_ptr' = stack_ptr[next]
                /\ cpu' = [cpu EXCEPT !.pc = "picked"]
       ELSE /\ cpu' = [cpu EXCEPT !.iflag = FALSE, !.pc = "panic"]
            /\ UNCHANGED <<tasks, rsp0, cr3, state, current_task,
                           current_task_id, next_ptr>>
    /\ UNCHANGED <<next_id, task_count, stack_ptr, kstack, gs, uptime>>

\* Its second half, the jump, runs with interrupts enabled again, so a tick
\* may fall between its instructions.  First rsp := next_ptr and the pops.
StartLoad ==
    /\ cpu.pc = "picked"
    /\ cpu' = [cpu EXCEPT !.pc = "loaded", !.stk = next_ptr.stk]
    /\ UNCHANGED <<queueVars, taskVars, next_ptr, kstack, gs, cr3, rsp0, uptime>>

TopFrame(s) == kstack[s][Len(kstack[s])]

\* swapgs when the frame returns to ring 3,
StartSwapGs ==
    /\ cpu.pc = "loaded"
    /\ cpu' = [cpu EXCEPT !.pc = "iretq"]
    /\ gs' = IF TopFrame(cpu.stk).cs = "user" THEN SwapGs(gs) ELSE gs
    /\ UNCHANGED <<queueVars, taskVars, next_ptr, kstack, cr3, rsp0, uptime>>

\* The CPU pops the frame on top of the stack in use.
Iretq ==
    LET frame == TopFrame(cpu.stk)
    IN  /\ kstack' = [kstack EXCEPT ![cpu.stk] = SubSeq(@, 1, Len(@) - 1)]
        /\ cpu' = [code |-> frame.code, cs |-> frame.cs, iflag |-> frame.iflag,
                   pc |-> frame.pc, stk |-> cpu.stk]

\* and iretq.
StartIretq ==
    /\ cpu.pc = "iretq"
    /\ Iretq
    /\ UNCHANGED <<queueVars, taskVars, next_ptr, gs, cr3, rsp0, uptime>>

-----------------------------------------------------------------------------
(* System calls, exit and faults *)

\* syscall_entry: swapgs, then switch to the stack gs:[0] names.  With the
\* wrong GS base the store to gs:[8] faults in ring 0, which panics.
SyscallEntry ==
    /\ cpu.cs = "user"
    /\ gs' = SwapGs(gs)
    /\ IF gs' = "percpu"
       THEN /\ kstack' = [kstack EXCEPT ![rsp0] = Pushed(rsp0, cpu.pc)]
            /\ cpu' = [cpu EXCEPT !.cs = "kernel", !.iflag = FALSE,
                                  !.pc = "syscall", !.stk = rsp0]
       ELSE /\ cpu' = [cpu EXCEPT !.cs = "kernel", !.iflag = FALSE,
                                  !.pc = "panic"]
            /\ UNCHANGED kstack
    /\ UNCHANGED <<queueVars, taskVars, next_ptr, cr3, rsp0, uptime>>

\* A system call that leaves the scheduler alone returns.
SyscallOther ==
    /\ cpu.pc = "syscall"
    /\ cpu' = [cpu EXCEPT !.pc = "sysret"]
    /\ UNCHANGED <<queueVars, taskVars, next_ptr, kstack, gs, cr3, rsp0, uptime>>

\* exit_current_task marks the current task.
MarkZombie ==
    state' = IF current_task # None
             THEN [state EXCEPT ![current_task] = "Zombie"] ELSE state

\* handle_exit calls exit_current_task.
SyscallExit ==
    /\ cpu.pc = "syscall"
    /\ MarkZombie
    /\ cpu' = [cpu EXCEPT !.pc = "exiting"]
    /\ UNCHANGED <<queueVars, next_id, stack_ptr, next_ptr, kstack, gs, cr3,
                   rsp0, uptime>>

\* page_fault_handler and gpf_handler, raised in ring 3: the handlers do not
\* execute swapgs, and call exit_current_task.
UserFault ==
    /\ cpu.cs = "user"
    /\ cpu.code \in Faulting
    /\ kstack' = [kstack EXCEPT ![rsp0] = Pushed(rsp0, cpu.pc)]
    /\ MarkZombie
    /\ cpu' = [cpu EXCEPT !.cs = "kernel", !.iflag = FALSE, !.pc = "exiting",
                          !.stk = rsp0]
    /\ UNCHANGED <<queueVars, next_id, stack_ptr, next_ptr, gs, cr3, rsp0, uptime>>

\* yield_task (int 0x81): from a kernel task's loop, from handle_yielder, and
\* from exit_current_task, whose hlt loop would follow.
KernelYield ==
    /\ cpu.cs = "kernel"
    /\ cpu.pc = "body"
    /\ cpu.code \in Yielders
    /\ Interrupt("body")

SyscallYield ==
    /\ cpu.pc = "syscall"
    /\ Interrupt("sysret")

\* Mutant: no yield before the hlt loop.
ExitHlt ==
    /\ cpu.pc = "exiting"
    /\ cpu' = [cpu EXCEPT !.pc = "hlt"]
    /\ UNCHANGED <<queueVars, taskVars, next_ptr, kstack, gs, cr3, rsp0, uptime>>

ExitYield ==
    /\ cpu.pc = "exiting"
    /\ Interrupt("hlt")

\* The end of syscall_entry: pop the frame, swapgs, iretq.
SyscallReturn ==
    /\ cpu.pc = "sysret"
    /\ Iretq
    /\ gs' = SwapGs(gs)
    /\ UNCHANGED <<queueVars, taskVars, next_ptr, cr3, rsp0, uptime>>

Next ==
    \/ AddTask \/ EnableInterrupts
    \/ StartPick \/ StartLoad \/ StartSwapGs \/ StartIretq
    \/ TimerInterrupt
    \/ KernelYield \/ SyscallYield \/ ExitYield
    \/ SyscallEntry \/ SyscallOther \/ SyscallExit \/ SyscallReturn
    \/ UserFault

Spec == Init /\ [][Next]_vars

\* Kernel code that cannot be interrupted, or that is interrupted only by
\* ticks that return to it.
KernelStep ==
    \/ AddTask \/ EnableInterrupts \/ StartPick
    \/ SyscallOther \/ SyscallExit \/ SyscallYield \/ SyscallReturn
    \/ ExitYield

\* The CPU goes on with the kernel code it has begun.  The jump of
\* start_scheduling can be preempted, but a tick is many instructions away
\* when the jump is resumed, so each of its steps is taken at some resumption:
\* strong fairness.  The LAPIC timer is periodic and its interrupt stays
\* pending while IF is clear, so it is taken once interrupts are enabled:
\* strong fairness again.  A program need not call the kernel, fault or yield:
\* no fairness.
Fairness ==
    /\ WF_vars(KernelStep)
    /\ SF_vars(StartLoad) /\ SF_vars(StartSwapGs) /\ SF_vars(StartIretq)
    /\ SF_vars(TimerInterrupt)

FairSpec == Spec /\ Fairness

-----------------------------------------------------------------------------
(* Properties *)

Queued == {tasks[i] : i \in DOMAIN tasks}
Created == {t \in Tasks : t < next_id}

\* The variables have their types.
TypeOK ==
    /\ next_id \in Tasks \cup {NumUser + NumKernel + 1}
    /\ tasks \in Seq(Tasks)
    /\ current_task \in Tasks \cup {None}
    /\ current_task_id \in Tasks \cup {None}
    /\ task_count \in Nat
    /\ state \in [Tasks -> TaskState]
    /\ stack_ptr \in [Tasks -> Pointer]
    /\ next_ptr \in Pointer
    /\ kstack \in [Stacks -> Seq(Frame)]
    /\ cpu \in Cpu
    /\ gs \in {"percpu", "user"}
    /\ cr3 \in UserTasks \cup {KernelSpace}
    /\ rsp0 \in Stacks
    /\ uptime \in 0..(UptimeMod - 1)

\* No task is lost and none is scheduled twice: the ready queue has no
\* duplicates, the current task is not in it, what is in it is Ready, and a
\* created task that is neither queued nor current has exited (timer_tick moves
\* a Task between the queue, current_task and a local variable, and drops it
\* only when it is a zombie).
TaskConservation ==
    /\ \A i, j \in DOMAIN tasks : i # j => tasks[i] # tasks[j]
    /\ current_task \notin Queued
    /\ \A t \in Queued : t \in Created /\ state[t] = "Ready"
    /\ \A t \in Created :
          t \in Queued \/ t = current_task \/ state[t] = "Zombie"

\* Whatever executes on behalf of a task is the scheduler's current task, in
\* its own address space and with its own kernel stack installed for the next
\* entry from ring 3, so that getpid answers the caller's id (switch_to and
\* the two ids timer_tick assigns agree with the frame it returns).
RunsCurrent ==
    cpu.pc \in {"body", "syscall", "sysret", "exiting", "hlt"} =>
        /\ cpu.code = current_task
        /\ current_task_id = current_task
        /\ cr3 = Space(current_task)
        /\ rsp0 = current_task
        /\ cpu.cs = "kernel" => cpu.stk = current_task

\* A saved context of t: t itself on its own stack, or the jump of
\* start_scheduling, interrupted on the boot stack or on t's, with the initial
\* frame of t still in place below it.
Continues(t, p) ==
    LET frame == kstack[p.stk][p.depth]
    IN  \/ p.stk = t /\ frame.code = t
        \/ /\ frame.code = Boot
           /\ kstack[t][1] = InitialFrame(t)
           /\ \/ /\ frame.pc = "picked" /\ p.stk = Boot
                 /\ next_ptr = [stk |-> t, depth |-> 1]
                 /\ Len(kstack[t]) = 1
              \/ frame.pc \in {"loaded", "iretq"} /\ p = [stk |-> t, depth |-> 2]

\* A ready task resumes from the top of a stack no other ready task uses, and
\* what it resumes is its own context; user code runs over an empty kernel
\* stack, so the next entry from ring 3 overwrites nothing.
FramesIntact ==
    /\ cpu.cs = "user" => kstack[rsp0] = <<>>
    /\ \A t \in Queued :
          /\ stack_ptr[t].depth > 0
          /\ stack_ptr[t].depth = Len(kstack[stack_ptr[t].stk])
          /\ Continues(t, stack_ptr[t])
    /\ \A t, u \in Queued : t # u => stack_ptr[t].stk # stack_ptr[u].stk

\* A task that has called exit_current_task gives up the CPU at its next step
\* and is never resumed: the hlt loop behind the yield is dead code.
ExitIsFinal ==
    /\ cpu.pc # "hlt"
    /\ \A t \in Tasks :
          state[t] = "Zombie" =>
              /\ t \notin Queued
              /\ cpu.code = t => cpu.pc \in {"exiting", "halted"}

\* start_scheduling is interrupted between its swapgs and its iretq.
Skewed ==
    \E t \in Tasks : \E i \in DOMAIN kstack[t] :
        kstack[t][i].pc = "iretq" /\ t \in UserTasks

\* While no user program faults, every swapgs is paired with a change of ring:
\* GS is the user's exactly in ring 3 and just before the iretq that enters it.
\* The one exception is a tick in that last window: the sense of GS is then
\* inverted for all contexts, exactly until the interrupted jump is resumed.
GsPaired ==
    LET userSide == \/ cpu.cs = "user"
                    \/ cpu.pc = "iretq" /\ current_task \in UserTasks
    IN  ~Stopped => (gs = "user" <=> userSide # Skewed)

\* Every task waiting in the ready queue gets the CPU, unless the kernel panics.
ReadyRuns ==
    \A t \in Tasks :
        t \in Queued ~> (cpu.code = t /\ cpu.pc = "body") \/ cpu.pc = "panic"

\* "Kernel mode runs with GS pointing at PER_CPU" (kernel/src/gdt.rs:85), here
\* for the code that serves a system call or ends a task after a fault.
KernelGs ==
    cpu.pc \in {"syscall", "sysret", "exiting"} => gs = "percpu"

=============================================================================
