---------------------------- MODULE KernelLocks ----------------------------
(***************************************************************************)
(* The spin locks of the kernel on one CPU: who takes which lock, in what  *)
(* nesting, and with interrupts enabled or masked.  A context is reduced   *)
(* to the sequence of lock operations it has still to perform; what the    *)
(* critical sections compute is the business of other modules.             *)
(*                                                                         *)
(* Sources: kernel/src/boot.rs (early_boot, heartbeat_task),               *)
(* kernel/src/interrupts/mod.rs (handlers), kernel/src/syscall/            *)
(* (handlers), kernel/src/vfs.rs, tty/mod.rs, input/mod.rs,                *)
(* drivers/video/mod.rs, task/scheduler.rs, memory/allocator/.             *)
(*                                                                         *)
(* A waiting spin::Mutex::lock() is a context whose next operation is      *)
(* "acquire" on a held lock: it takes no step, but an interrupt may still  *)
(* arrive when it waits with interrupts enabled.                           *)
(***************************************************************************)
EXTENDS Naturals, Sequences

CONSTANTS
    User,       \* the user tasks
    Heartbeat,  \* the kernel task that reads a file through the VFS
    Worker,     \* a kernel task that takes no lock (worker_task, idle_task)
    Boot,       \* the context of early_boot
    Irq,        \* an interrupt handler, on whatever stack it runs
    Free,       \* no holder
    TaskOrder   \* the order in which early_boot adds the tasks

Task == User \cup {Heartbeat, Worker}
Context == Task \cup {Boot}

\* early_boot adds the tasks before it starts the scheduler.
ASSUME LocksAssumption ==
    /\ Heartbeat \notin User /\ Worker \notin User /\ Heartbeat # Worker
    /\ Boot \notin Task /\ Irq \notin Context /\ Free \notin Context \cup {Irq}
    /\ TaskOrder \in Seq(Task) /\ TaskOrder # <<>>

Lock == {"VFS", "ALLOCATOR", "TTY", "CONSOLE", "FRAMEBUFFER", "KEYBOARD",
         "KEYBOARD_BUFFER", "LAPIC", "IOAPIC", "SCHEDULER", "PROCESS",
         "FRAME_ALLOCATOR"}

VARIABLES
    holder,     \* the holder of each lock
    prog,       \* what each context has still to do in the kernel
    irq,        \* what the interrupt handler in progress has still to do
    iflag,      \* the interrupt flag each context runs with
    running,    \* the context that has the CPU
    queue,      \* the ready queue
    exited,     \* the tasks that have exited
    armed       \* the interrupts that can arrive: "timer", "keyboard"

vars == <<holder, prog, irq, iflag, running, queue, exited, armed>>

-----------------------------------------------------------------------------
(* What the code does, as sequences of operations *)

Op(name) == [op |-> name, lock |-> "none"]
On(name, l) == [op |-> name, lock |-> l]

\* A guard, taken by lock or try_lock, that lives while body runs.
Hold(o, l, body) == <<On(o, l)>> \o body \o <<On("release", l)>>
With(l, body) == Hold("acquire", l, body)

\* Any number of allocations and deallocations in a row.
Alloc == With("ALLOCATOR", <<>>)

\* TextConsole::write_char for a glyph, for a newline, and backspace.
DrawGlyph == Alloc \o With("FRAMEBUFFER", <<>>) \o Alloc
Redraw == With("FRAMEBUFFER", <<>>)

\* Tty::handle_input: a character, the end of a line, a backspace with
\* something to erase, and a key that changes nothing.
HandleInput ==
    { Alloc \o With("CONSOLE", DrawGlyph),
      Alloc \o With("CONSOLE", Redraw),
      With("CONSOLE", Redraw),
      <<>> }

\* timer_tick: switch_to reads the PML4 frame through the process lock, and a
\* task that has exited is dropped.
Tick(drop) ==
    Hold("try", "SCHEDULER", With("PROCESS", <<>>) \o drop) \o <<Op("switch")>>

TimerHandler == With("LAPIC", <<>>) \o Tick(<<>>)
YieldHandler == Tick(<<>>)
ExitHandler == Tick(Alloc)

\* keyboard_interrupt_handler: a decoded character, or a key without one.
KeyboardHandlers ==
    { With("KEYBOARD", With("TTY", i) \o With("KEYBOARD_BUFFER", <<>>)
                           \o With("LAPIC", <<>>)) \o <<Op("iret")>> :
        i \in HandleInput }
    \cup { With("KEYBOARD", With("LAPIC", <<>>)) \o <<Op("iret")>> }

\* The system calls, by the locks they take: read, seek and stat of a file;
\* open, close, write, mkdir, unlink and ls; read and write of the terminal;
\* getpid; the ones that touch no lock; yielder; exit.
Syscalls ==
    { With("VFS", <<>>) \o <<Op("sysret")>>,
      With("VFS", Alloc) \o <<Op("sysret")>>,
      With("VFS", With("TTY", Alloc)) \o <<Op("sysret")>>,
      With("VFS", With("TTY", With("CONSOLE", DrawGlyph))) \o <<Op("sysret")>>,
      With("SCHEDULER", <<>>) \o <<Op("sysret")>>,
      <<Op("sysret")>>,
      <<Op("yield"), Op("sysret")>>,
      With("SCHEDULER", <<>>) \o <<Op("exit")>> }

\* Mutant: heartbeat_task reads the terminal as well.
HeartbeatStartTty == With("VFS", Alloc \o With("TTY", Alloc))

\* The beginning of heartbeat_task: open and read under one VFS guard.
HeartbeatStart == With("VFS", Alloc)

\* Mutant: add_task without without_interrupts.
AddTaskUnmasked(enabled) == With("SCHEDULER", Alloc)

\* add_task, inside without_interrupts; enabled is the flag it restores.
AddTask(enabled) ==
    <<Op("cli")>> \o With("SCHEDULER", Alloc)
        \o (IF enabled THEN <<Op("sti")>> ELSE <<>>)

\* early_boot from interrupts::init on.  The guard of the frame allocator is a
\* temporary of the call of add_task, so it lives until that call returns.
EarlyBoot(enabled) ==
    With("LAPIC", <<On("arm", "timer")>>)
    \o With("IOAPIC", <<On("arm", "keyboard")>>)
    \o With("FRAMEBUFFER", <<>>)
    \o With("VFS", Alloc)
    \o With("VFS", Alloc \o With("CONSOLE", <<>>))
    \o With("VFS", Alloc \o With("FRAME_ALLOCATOR", Alloc)
                         \o With("FRAME_ALLOCATOR",
                                 With("PROCESS", Alloc) \o AddTask(enabled)))
    \o With("FRAME_ALLOCATOR", Alloc \o AddTask(enabled))
    \o <<Op("sti")>> \o (<<Op("cli")>> \o With("SCHEDULER", With("PROCESS", <<>>)))
    \o <<Op("start")>>

-----------------------------------------------------------------------------
(* Execution *)

Init ==
    /\ holder = [l \in Lock |-> Free]
    /\ \E enabled \in BOOLEAN :     \* as the firmware left the flag
          /\ prog = [c \in Context |->
                        CASE c = Boot -> EarlyBoot(enabled)
                          [] c = Heartbeat -> HeartbeatStart
                          [] OTHER -> <<>>]
          /\ iflag = [c \in Context |-> c = Boot => enabled]
    /\ irq = <<>>
    /\ running = Boot
    /\ queue = TaskOrder
    /\ exited = {}
    /\ armed = {}

\* The code the CPU executes, and on whose behalf.
Active == IF irq # <<>> THEN irq ELSE prog[running]
Self == IF irq # <<>> THEN Irq ELSE running

\* The next operation is o.
At(o) == Active # <<>> /\ Head(Active).op = o
Its == Head(Active).lock

Advance ==
    IF irq # <<>>
    THEN irq' = Tail(irq) /\ prog' = prog
    ELSE prog' = [prog EXCEPT ![running] = Tail(@)] /\ irq' = irq

Acquire ==
    /\ At("acquire")
    /\ holder[Its] = Free
    /\ holder' = [holder EXCEPT ![Its] = Self]
    /\ Advance
    /\ UNCHANGED <<iflag, running, queue, exited, armed>>

Release ==
    /\ At("release")
    /\ holder' = [holder EXCEPT ![Its] = Free]
    /\ Advance
    /\ UNCHANGED <<iflag, running, queue, exited, armed>>

\* SCHEDULER.try_lock in timer_tick: without the lock, the interrupted context
\* continues.
TryLock ==
    /\ At("try")
    /\ IF holder[Its] = Free
       THEN holder' = [holder EXCEPT ![Its] = Self] /\ Advance
       ELSE irq' = <<>> /\ UNCHANGED <<holder, prog>>
    /\ UNCHANGED <<iflag, running, queue, exited, armed>>

\* Mutants: the boot context is queued like a task; the preempted task goes to
\* the front of the queue.
SwitchBoot ==
    /\ At("switch")
    /\ irq' = <<>>
    /\ IF queue # <<>>
       THEN /\ running' = Head(queue)
            /\ queue' = IF running \in exited THEN Tail(queue)
                        ELSE Append(Tail(queue), running)
       ELSE UNCHANGED <<running, queue>>
    /\ UNCHANGED <<holder, prog, iflag, exited, armed>>

SwitchFront ==
    /\ At("switch")
    /\ irq' = <<>>
    /\ IF running # Boot /\ queue # <<>>
       THEN /\ running' = Head(queue)
            /\ queue' = IF running \in exited THEN Tail(queue)
                        ELSE <<running>> \o Tail(queue)
       ELSE UNCHANGED <<running, queue>>
    /\ UNCHANGED <<holder, prog, iflag, exited, armed>>

\* timer_tick returns: to the next task when there is one and a task was
\* running, else to the interrupted context.
Switch ==
    /\ At("switch")
    /\ irq' = <<>>
    /\ IF running # Boot /\ queue # <<>>
       THEN /\ running' = Head(queue)
            /\ queue' = IF running \in exited THEN Tail(queue)
                        ELSE Append(Tail(queue), running)
       ELSE UNCHANGED <<running, queue>>
    /\ UNCHANGED <<holder, prog, iflag, exited, armed>>

\* The end of start_scheduling.  Its jump, which enables interrupts and takes
\* no lock, belongs to the task it jumps to.
Start ==
    /\ At("start")
    /\ running' = Head(queue)
    /\ queue' = Tail(queue)
    /\ Advance
    /\ UNCHANGED <<holder, iflag, exited, armed>>

IretKeyboard ==
    /\ At("iret")
    /\ Advance
    /\ UNCHANGED <<holder, iflag, running, queue, exited, armed>>

\* interrupts::enable and the two halves of without_interrupts.
SetFlag ==
    /\ At("cli") \/ At("sti")
    /\ iflag' = [iflag EXCEPT ![running] = At("sti")]
    /\ Advance
    /\ UNCHANGED <<holder, running, queue, exited, armed>>

\* lapic.start_timer and ioapic.route_irq.
Arm ==
    /\ At("arm")
    /\ armed' = armed \cup {Its}
    /\ Advance
    /\ UNCHANGED <<holder, iflag, running, queue, exited>>

\* int 0x81 in a system call; for exit, the task has just become a zombie.
Yield ==
    /\ At("yield") \/ At("exit")
    /\ irq' = IF At("exit") THEN ExitHandler ELSE YieldHandler
    /\ exited' = IF At("exit") THEN exited \cup {running} ELSE exited
    /\ prog' = [prog EXCEPT ![running] = Tail(@)]
    /\ UNCHANGED <<holder, iflag, running, queue, armed>>

Sysret ==
    /\ At("sysret")
    /\ iflag' = [iflag EXCEPT ![running] = TRUE]
    /\ Advance
    /\ UNCHANGED <<holder, running, queue, exited, armed>>

\* SFMask clears IF, so a system call runs with interrupts masked.
SyscallEntry ==
    /\ irq = <<>>
    /\ running \in User \ exited
    /\ prog[running] = <<>>
    /\ \E p \in Syscalls : prog' = [prog EXCEPT ![running] = p]
    /\ iflag' = [iflag EXCEPT ![running] = FALSE]
    /\ UNCHANGED <<holder, irq, running, queue, exited, armed>>

\* The loop of heartbeat_task.
HeartbeatYield ==
    /\ irq = <<>>
    /\ running = Heartbeat
    /\ prog[Heartbeat] = <<>>
    /\ irq' = YieldHandler
    /\ UNCHANGED <<holder, prog, iflag, running, queue, exited, armed>>

Interruptible == irq = <<>> /\ iflag[running]

TimerInterrupt ==
    /\ "timer" \in armed
    /\ Interruptible
    /\ irq' = TimerHandler
    /\ UNCHANGED <<holder, prog, iflag, running, queue, exited, armed>>

KeyboardInterrupt ==
    /\ "keyboard" \in armed
    /\ Interruptible
    /\ irq' \in KeyboardHandlers
    /\ UNCHANGED <<holder, prog, iflag, running, queue, exited, armed>>

Step ==
    \/ Acquire \/ Release \/ TryLock \/ Switch \/ Start \/ IretKeyboard
    \/ SetFlag \/ Arm \/ Yield \/ Sysret

Next ==
    \/ Step
    \/ SyscallEntry \/ HeartbeatYield
    \/ TimerInterrupt \/ KeyboardInterrupt

Spec == Init /\ [][Next]_vars

\* The CPU goes on with the kernel code it has begun.  The timer is periodic
\* and stays pending while interrupts are masked.
FairSpec == Spec /\ WF_vars(Step) /\ SF_vars(TimerInterrupt)

-----------------------------------------------------------------------------
(* Properties *)

Queued == {queue[i] : i \in DOMAIN queue}

Ops == {"acquire", "release", "try", "switch", "start", "iret", "cli", "sti",
        "arm", "yield", "exit", "sysret"}
Operation == [op: Ops, lock: Lock \cup {"none", "timer", "keyboard"}]

\* The variables have their types.
TypeOK ==
    /\ holder \in [Lock -> Context \cup {Irq, Free}]
    /\ prog \in [Context -> Seq(Operation)]
    /\ irq \in Seq(Operation)
    /\ iflag \in [Context -> BOOLEAN]
    /\ running \in Context
    /\ queue \in Seq(Task)
    /\ exited \subseteq User
    /\ armed \subseteq {"timer", "keyboard"}

\* What waits for a lock waits for code that was interrupted while it held the
\* lock: early_boot, when the firmware left interrupts enabled, or
\* heartbeat_task, and from the latter only for the VFS and the allocator.  No
\* system call and no handler ever holds a lock that another context waits for.
SpinCulprit ==
    At("acquire") /\ holder[Its] # Free =>
        \/ Self = Irq /\ holder[Its] = Boot
        \/ /\ Self # Heartbeat
           /\ holder[Its] = Heartbeat
           /\ Its \in {"VFS", "ALLOCATOR"}

\* timer_tick always gets the scheduler: its try_lock never fails, so no tick
\* and no yield is skipped.
TickFindsScheduler ==
    At("try") => holder["SCHEDULER"] = Free

\* Once heartbeat_task has left its critical section, every ready task gets
\* the CPU, whatever the system calls and the keyboard do.
TurnsAfterHeartbeat ==
    \A t \in Task :
        prog[Heartbeat] = <<>> /\ t \in Queued ~> running = t

\* "ensures that no task can monopolize the CPU"
\* (docs/decisions/0003-scheduler-design.md:11), for the started system.
NoMonopoly ==
    \A t \in Task :
        running # Boot /\ t \in Queued ~> running = t

=============================================================================
