-------------------------- MODULE SchedulerProofs --------------------------
(***************************************************************************)
(* Proofs of the safety invariants of Scheduler for any number of tasks,   *)
(* any set of yielding kernel tasks and any set of faulting user tasks.    *)
(*                                                                         *)
(* None of the invariants is inductive: what timer_tick resumes is read    *)
(* from a stack, so the proof must know what lies on every stack.  IInv    *)
(* says it exactly: there are four shapes of a suspended task (Saved) and  *)
(* six situations of the CPU.                                              *)
(*                                                                         *)
(* GsPaired is proved on top of IInv, where no user task faults: GsInv     *)
(* adds that the jump of start_scheduling is on at most one stack.         *)
(***************************************************************************)
EXTENDS Scheduler, SequenceTheorems, TLAPS

\* Zenon first: it needs no encoding of the context.
USE ZenonT(3), SMTT(20)

-----------------------------------------------------------------------------
(* The inductive invariant *)

\* The frame handle_yielder leaves when its system call is preempted.
YieldFrame(t) == [code |-> t, cs |-> "kernel", iflag |-> FALSE, pc |-> "sysret"]

\* The frame a tick leaves when it interrupts the jump of start_scheduling.
JumpFrame(point) ==
    [code |-> Boot, cs |-> "kernel", iflag |-> TRUE, pc |-> point]

At(s, d) == [stk |-> s, depth |-> d]

\* Task t, with saved stack pointer p, is suspended on the stacks ks: in its own
\* program (that frame equals the initial one), in a yielding system call, or
\* in the jump of start_scheduling.
Saved(ks, t, p) ==
    \/ p = At(t, 1) /\ ks[t] = <<InitialFrame(t)>>
    \/ /\ p = At(t, 2) /\ t \in UserTasks
       /\ ks[t] = <<InitialFrame(t), YieldFrame(t)>>
    \/ /\ p = At(t, 2)
       /\ \/ ks[t] = <<InitialFrame(t), JumpFrame("loaded")>>
          \/ ks[t] = <<InitialFrame(t), JumpFrame("iretq")>>
    \/ /\ p = At(Boot, 1) /\ next_ptr = At(t, 1)
       /\ ks[t] = <<InitialFrame(t)>>
       /\ ks[Boot] = <<JumpFrame("picked")>>

\* The hardware is set up for the current task, which is in state s.
Installed(s) ==
    /\ next_id \notin Tasks
    /\ current_task \in Tasks
    /\ state[current_task] = s
    /\ current_task_id = current_task
    /\ rsp0 = current_task
    /\ cr3 = Space(current_task)

Context(c, ring, i, point, s) ==
    [code |-> c, cs |-> ring, iflag |-> i, pc |-> point, stk |-> s]

\* The situations of the CPU.
Booting ==
    /\ current_task = None
    /\ \A t \in Tasks : state[t] = "Ready"
    /\ \A t \in Queued : stack_ptr[t] = At(t, 1)
    /\ kstack[Boot] = <<>>
    /\ \/ \E i \in BOOLEAN : cpu = Context(Boot, "kernel", i, "boot", Boot)
       \/ cpu = Context(Boot, "kernel", TRUE, "start", Boot) /\ next_id \notin Tasks

Jumping ==
    /\ Installed("Running")
    /\ kstack[current_task] = <<InitialFrame(current_task)>>
    /\ \/ /\ cpu = Context(Boot, "kernel", TRUE, "picked", Boot)
          /\ next_ptr = At(current_task, 1)
          /\ kstack[Boot] = <<>>
       \/ cpu = Context(Boot, "kernel", TRUE, "loaded", current_task)
       \/ cpu = Context(Boot, "kernel", TRUE, "iretq", current_task)

InProgram ==
    /\ Installed("Running")
    /\ kstack[current_task] = <<>>
    /\ cpu = Context(current_task, InitialFrame(current_task).cs, TRUE, "body",
                     current_task)

InSyscall ==
    /\ Installed("Running")
    /\ current_task \in UserTasks
    /\ kstack[current_task] = <<InitialFrame(current_task)>>
    /\ \/ cpu = Context(current_task, "kernel", FALSE, "syscall", current_task)
       \/ cpu = Context(current_task, "kernel", FALSE, "sysret", current_task)

InExit ==
    /\ Installed("Zombie")
    /\ kstack[current_task] = <<InitialFrame(current_task)>>
    /\ cpu = Context(current_task, "kernel", FALSE, "exiting", current_task)

AtRest ==
    /\ next_id \notin Tasks
    /\ cpu.cs = "kernel"
    /\ \/ cpu.pc = "halted"
       \/ cpu.pc = "panic" /\ state[cpu.code] = "Running"

Situation == Booting \/ Jumping \/ InProgram \/ InSyscall \/ InExit \/ AtRest

IInv ==
    /\ TypeOK
    /\ TaskConservation
    /\ \A t \in Queued : Saved(kstack, t, stack_ptr[t])
    /\ Situation

-----------------------------------------------------------------------------
(* Short stacks *)

\* What pushing and popping does to a stack of at most two frames.
LEMMA ShortStacks ==
    ASSUME NEW a, NEW b
    PROVE  /\ Len(<<a>>) = 1 /\ <<a>>[1] = a /\ SubSeq(<<a>>, 1, 0) = <<>>
           /\ Len(<<a, b>>) = 2 /\ <<a, b>>[2] = b
           /\ SubSeq(<<a, b>>, 1, 1) = <<a>>
           /\ Append(<<>>, a) = <<a>>
           /\ Append(<<a>>, b) = <<a, b>>
<1>1. Len(<<a>>) = 1 /\ <<a>>[1] = a /\ Len(<<a, b>>) = 2 /\ <<a, b>>[2] = b
  OBVIOUS
<1>2. SubSeq(<<a>>, 1, 0) = <<>>
  OBVIOUS
<1> DEFINE S == {a, b}
<1>3. SubSeq(<<a, b>>, 1, 1) = <<a>>
  <2>1. \A i \in 1..1 : <<a, b>>[i] \in S
    OBVIOUS
  <2>2. /\ SubSeq(<<a, b>>, 1, 1) \in Seq(S) /\ <<a>> \in Seq(S)
        /\ Len(SubSeq(<<a, b>>, 1, 1)) = 1
        /\ SubSeq(<<a, b>>, 1, 1)[1] = a
    BY <2>1, SubSeqProperties
  <2>3. \A i \in 1..1 : i = 1
    OBVIOUS
  <2> HIDE DEF S
  <2> QED BY <1>1, <2>2, <2>3, SeqEqual, Zenon
<1>4. Append(<<>>, a) = <<a>>
  OBVIOUS
<1>5. Append(<<a>>, b) = <<a, b>>
  <2>1. /\ Append(<<a>>, b) \in Seq(S) /\ <<a, b>> \in Seq(S)
        /\ Len(Append(<<a>>, b)) = 2
        /\ Append(<<a>>, b)[1] = a /\ Append(<<a>>, b)[2] = b
        /\ <<a, b>>[1] = a
    OBVIOUS
  <2>2. \A i \in 1..2 : i = 1 \/ i = 2
    OBVIOUS
  <2> HIDE DEF S
  <2> QED BY <1>1, <2>1, <2>2, SeqEqual, Zenon
<1> QED BY <1>1, <1>2, <1>3, <1>4, <1>5

-----------------------------------------------------------------------------
(* The ready queue *)

Elements(s) == {s[i] : i \in DOMAIN s}
Distinct(s) == \A i, j \in DOMAIN s : i # j => s[i] # s[j]

\* Queueing a new element at the back.
LEMMA PushBack ==
    ASSUME NEW S, NEW s \in Seq(S), Distinct(s), NEW x \in S, x \notin Elements(s)
    PROVE  /\ Append(s, x) \in Seq(S)
           /\ Distinct(Append(s, x))
           /\ Elements(Append(s, x)) = Elements(s) \cup {x}
<1> DEFINE r == Append(s, x)
<1>1. /\ r \in Seq(S) /\ Len(s) \in Nat /\ Len(r) = Len(s) + 1
      /\ DOMAIN r = 1..(Len(s) + 1) /\ DOMAIN s = 1..Len(s)
      /\ \A i \in 1..Len(s) : r[i] = s[i]
      /\ r[Len(s) + 1] = x
  OBVIOUS
<1> HIDE DEF r
<1>2. Distinct(r)
  BY <1>1 DEF Distinct, Elements
<1>3. Elements(r) = Elements(s) \cup {x}
  BY <1>1 DEF Elements
<1> QED BY <1>1, <1>2, <1>3 DEF r

\* Taking the element at the front.
LEMMA PopFront ==
    ASSUME NEW S, NEW s \in Seq(S), Distinct(s), s # <<>>
    PROVE  /\ Head(s) \in S /\ Head(s) \in Elements(s)
           /\ Tail(s) \in Seq(S)
           /\ Distinct(Tail(s))
           /\ Elements(Tail(s)) = Elements(s) \ {Head(s)}
<1> DEFINE r == Tail(s)
<1>1. /\ r \in Seq(S) /\ Len(s) \in Nat /\ Len(s) > 0 /\ Len(r) = Len(s) - 1
      /\ DOMAIN r = 1..(Len(s) - 1) /\ DOMAIN s = 1..Len(s)
      /\ \A i \in 1..(Len(s) - 1) : r[i] = s[i + 1]
      /\ Head(s) = s[1]
  OBVIOUS
<1> HIDE DEF r
<1>2. Distinct(r)
  <2>1. SUFFICES ASSUME NEW i \in 1..(Len(s) - 1), NEW j \in 1..(Len(s) - 1), i # j
                 PROVE  r[i] # r[j]
    BY <1>1 DEF Distinct
  <2> DEFINE n == Len(s)
  <2>2. n \in Nat /\ i \in 1..(n - 1) /\ j \in 1..(n - 1) /\ DOMAIN s = 1..n
    BY <1>1
  <2> HIDE DEF n
  <2>3. i + 1 \in DOMAIN s /\ j + 1 \in DOMAIN s /\ i + 1 # j + 1
    BY <2>1, <2>2
  <2>4. r[i] = s[i + 1] /\ r[j] = s[j + 1]
    BY <1>1
  <2>5. s[i + 1] # s[j + 1]
    BY <2>3, Zenon DEF Distinct
  <2> QED BY <2>4, <2>5
<1>3. Head(s) \in S /\ Head(s) \in Elements(s)
  BY <1>1 DEF Elements
<1>4. ASSUME NEW e \in Elements(r) PROVE e \in Elements(s) \ {Head(s)}
  BY <1>1 DEF Elements, Distinct
<1>5. ASSUME NEW e \in Elements(s) \ {Head(s)} PROVE e \in Elements(r)
  <2>1. PICK i \in 1..Len(s) : e = s[i]
    BY <1>1 DEF Elements
  <2>2. i - 1 \in 1..(Len(s) - 1) /\ r[i - 1] = e
    BY <1>1, <2>1
  <2> QED BY <1>1, <2>2 DEF Elements
<1> QED BY <1>1, <1>2, <1>3, <1>4, <1>5 DEF r

-----------------------------------------------------------------------------
(* Types of the building blocks *)

\* The ids of tasks are natural numbers other than None and Boot (TaskId::new
\* starts at 1).
LEMMA Ids ==
    /\ Boot \notin Tasks /\ None \notin Tasks
    /\ UserTasks \subseteq Tasks /\ Tasks \subseteq Stacks /\ Boot \in Stacks
    /\ Tasks \subseteq Nat /\ NumUser + NumKernel + 1 \notin Tasks
BY SchedulerAssumption DEF Boot, None, Tasks, UserTasks, Stacks

\* The frames the entry code and task creation write have the type of a
\* frame.
LEMMA FrameTypes ==
    ASSUME NEW t \in Tasks
    PROVE  /\ InitialFrame(t) \in Frame /\ YieldFrame(t) \in Frame
           /\ \A point \in Points : JumpFrame(point) \in Frame
           /\ Space(t) \in UserTasks \cup {KernelSpace}
BY Ids DEF InitialFrame, YieldFrame, JumpFrame, Frame, Points, Space

\* swapgs leaves one of the two GS bases.
LEMMA SwapGsType ==
    ASSUME NEW g \in {"percpu", "user"}
    PROVE  SwapGs(g) \in {"percpu", "user"}
BY DEF SwapGs

-----------------------------------------------------------------------------
(* Resuming a suspended task *)

\* What Resume does, by the frame it pops and the frames it leaves.
LEMMA ResumePops ==
    ASSUME NEW ks, NEW s, NEW d, NEW g, Resume(ks, At(s, d), g),
           NEW frame, ks[s][d] = frame,
           NEW e, d - 1 = e, NEW rest, SubSeq(ks[s], 1, e) = rest
    PROVE  /\ kstack' = [ks EXCEPT ![s] = rest]
           /\ cpu' = Context(frame.code, frame.cs, frame.iflag, frame.pc, s)
<1>1. At(s, d).stk = s /\ At(s, d).depth = d
  BY DEF At
<1> QED BY <1>1, Zenon DEF Resume, Context

\* The situation the CPU is in when a suspended task is resumed.
LEMMA ResumeSaved ==
    ASSUME NEW ks \in [Stacks -> Seq(Frame)], NEW t \in Tasks, NEW p,
           NEW g \in {"percpu", "user"},
           Saved(ks, t, p), Resume(ks, p, g), UNCHANGED next_ptr,
           Installed("Running")', current_task' = t
    PROVE  /\ kstack' \in [Stacks -> Seq(Frame)]
           /\ cpu' \in Cpu
           /\ gs' \in {"percpu", "user"}
           /\ p.stk \in {t, Boot}
           /\ p.stk = Boot => next_ptr = At(t, 1)
           /\ \A s \in Stacks : s # p.stk => kstack'[s] = ks[s]
           /\ (Jumping \/ InProgram \/ InSyscall)'
<1> DEFINE I == InitialFrame(t)
           Y == YieldFrame(t)
<1>1. t \in Stacks /\ Boot \in Stacks /\ t # Boot
  BY Ids
<1>2. I \in Frame /\ I.code = t /\ I.iflag = TRUE /\ I.pc = "body"
  BY FrameTypes DEF InitialFrame
<1>3. gs' \in {"percpu", "user"}
  BY SwapGsType DEF Resume
<1>4. CASE p = At(t, 1) /\ ks[t] = <<I>>
  <2>1. p.stk = t /\ p.depth = 1 /\ p.stk # Boot
    BY <1>1, <1>4 DEF At
  <2>2. <<I>>[1] = I /\ SubSeq(<<I>>, 1, 0) = <<>>
    BY ShortStacks, Zenon
  <2>3. ks[t][1] = I /\ SubSeq(ks[t], 1, 0) = <<>>
    BY <1>4, <2>2, Zenon
  <2>r. Resume(ks, At(t, 1), g) /\ 1 - 1 = 0
    BY <1>4
  <2>a. /\ kstack' = [ks EXCEPT ![t] = <<>>]
        /\ cpu' = Context(I.code, I.cs, I.iflag, I.pc, t)
    BY <2>3, <2>r, ResumePops, Zenon
  <2>b. /\ kstack' = [ks EXCEPT ![t] = <<>>]
        /\ cpu' = Context(t, I.cs, TRUE, "body", t)
    BY <1>2, <2>a, Zenon
  <2>4. kstack' \in [Stacks -> Seq(Frame)] /\ kstack'[t] = <<>>
    BY <1>1, <2>b
  <2>5. InProgram'
    BY <2>b, <2>4 DEF InProgram
  <2>6. cpu' \in Cpu
    BY <1>1, <1>2, <2>b DEF Cpu, Context, Frame, Points
  <2> QED BY <1>1, <1>3, <2>1, <2>b, <2>4, <2>5, <2>6, Zenon
<1>5. CASE p = At(t, 2) /\ t \in UserTasks /\ ks[t] = <<I, Y>>
  <2>1. p.stk = t /\ p.depth = 2 /\ p.stk # Boot
    BY <1>1, <1>5 DEF At
  <2>2. <<I, Y>>[2] = Y /\ SubSeq(<<I, Y>>, 1, 1) = <<I>>
    BY ShortStacks, Zenon
  <2>3. ks[t][2] = Y /\ SubSeq(ks[t], 1, 1) = <<I>>
    BY <1>5, <2>2, Zenon
  <2>r. Resume(ks, At(t, 2), g) /\ 2 - 1 = 1
    BY <1>5
  <2>a. /\ kstack' = [ks EXCEPT ![t] = <<I>>]
        /\ cpu' = Context(Y.code, Y.cs, Y.iflag, Y.pc, t)
    BY <2>3, <2>r, ResumePops, Zenon
  <2>b. /\ kstack' = [ks EXCEPT ![t] = <<I>>]
        /\ cpu' = Context(t, "kernel", FALSE, "sysret", t)
    BY <2>a DEF YieldFrame
  <2>4. kstack' \in [Stacks -> Seq(Frame)] /\ kstack'[t] = <<I>>
    BY <1>1, <1>2, <2>b
  <2>5. InSyscall'
    BY <1>5, <2>b, <2>4 DEF InSyscall
  <2>6. cpu' \in Cpu
    BY <1>1, <2>b DEF Cpu, Context, Points
  <2> QED BY <1>1, <1>3, <2>1, <2>b, <2>4, <2>5, <2>6, Zenon
<1>6. ASSUME NEW point, point \in {"loaded", "iretq"}, p = At(t, 2),
             ks[t] = <<I, JumpFrame(point)>>
      PROVE  /\ kstack' \in [Stacks -> Seq(Frame)]
             /\ cpu' \in Cpu
             /\ p.stk = t
             /\ \A s \in Stacks : s # p.stk => kstack'[s] = ks[s]
             /\ Jumping'
  <2> DEFINE K == JumpFrame(point)
  <2>1. p.stk = t /\ p.depth = 2
    BY <1>6 DEF At
  <2>2. <<I, K>>[2] = K /\ SubSeq(<<I, K>>, 1, 1) = <<I>>
    BY ShortStacks, Zenon
  <2>3. ks[t][2] = K /\ SubSeq(ks[t], 1, 1) = <<I>>
    BY <1>6, <2>2, Zenon
  <2>r. Resume(ks, At(t, 2), g) /\ 2 - 1 = 1
    BY <1>6
  <2>a. /\ kstack' = [ks EXCEPT ![t] = <<I>>]
        /\ cpu' = Context(K.code, K.cs, K.iflag, K.pc, t)
    BY <2>3, <2>r, ResumePops, Zenon
  <2>b. /\ kstack' = [ks EXCEPT ![t] = <<I>>]
        /\ cpu' = Context(Boot, "kernel", TRUE, point, t)
    BY <2>a DEF JumpFrame
  <2>4. kstack' \in [Stacks -> Seq(Frame)] /\ kstack'[t] = <<I>>
    BY <1>1, <1>2, <2>b
  <2>5. Jumping'
    BY <1>6, <2>b, <2>4, Zenon DEF Jumping
  <2>6. cpu' \in Cpu
    BY <1>1, <1>6, <2>b DEF Cpu, Context, Points
  <2> QED BY <1>1, <2>1, <2>b, <2>4, <2>5, <2>6, Zenon
<1>7. CASE /\ p = At(Boot, 1) /\ next_ptr = At(t, 1)
           /\ ks[t] = <<I>> /\ ks[Boot] = <<JumpFrame("picked")>>
  <2>1. p.stk = Boot /\ p.depth = 1
    BY <1>7 DEF At
  <2>2. <<JumpFrame("picked")>>[1] = JumpFrame("picked") /\ SubSeq(<<JumpFrame("picked")>>, 1, 0) = <<>>
    BY ShortStacks, Zenon
  <2>3. ks[Boot][1] = JumpFrame("picked") /\ SubSeq(ks[Boot], 1, 0) = <<>>
    BY <1>7, <2>2, Zenon
  <2>r. Resume(ks, At(Boot, 1), g) /\ 1 - 1 = 0
    BY <1>7
  <2>a. /\ kstack' = [ks EXCEPT ![Boot] = <<>>]
        /\ cpu' = Context(JumpFrame("picked").code, JumpFrame("picked").cs, JumpFrame("picked").iflag,
                         JumpFrame("picked").pc, Boot)
    BY <2>3, <2>r, ResumePops, Zenon
  <2>b. /\ kstack' = [ks EXCEPT ![Boot] = <<>>]
        /\ cpu' = Context(Boot, "kernel", TRUE, "picked", Boot)
    BY <2>a DEF JumpFrame
  <2>4. /\ kstack' \in [Stacks -> Seq(Frame)]
        /\ kstack'[Boot] = <<>> /\ kstack'[t] = <<I>>
    BY <1>1, <1>7, <2>b
  <2>5. Jumping'
    BY <1>7, <2>b, <2>4, Zenon DEF Jumping
  <2>6. cpu' \in Cpu
    BY <1>1, <2>b DEF Cpu, Context, Points
  <2> QED BY <1>1, <1>3, <1>7, <2>1, <2>b, <2>4, <2>5, <2>6, Zenon
<1> QED BY <1>1, <1>3, <1>4, <1>5, <1>6, <1>7 DEF Saved

-----------------------------------------------------------------------------
(* timer_tick *)

\* Switching to the next task, whether the previous one is suspended or dropped.
LEMMA SwitchPreserves ==
    ASSUME TypeOK, TaskConservation, next_id \notin Tasks, current_task \in Tasks,
           NEW ks \in [Stacks -> Seq(Frame)], NEW here \in Pointer,
           NEW g \in {"percpu", "user"},
           \/ state[current_task] = "Running" /\ Saved(ks, current_task, here)
           \/ state[current_task] = "Zombie",
           \A t \in Queued : Saved(ks, t, stack_ptr[t]),
           TickSwitch(ks, here, g),
           UNCHANGED <<next_id, task_count, next_ptr>>,
           uptime' \in 0..(UptimeMod - 1)
    PROVE  IInv'
<1> DEFINE prev == current_task
           next == Head(tasks)
           p == stack_ptr[next]
<1>1. tasks \in Seq(Tasks) /\ tasks # <<>> /\ Distinct(tasks) /\ prev \notin Elements(tasks)
  BY DEF TypeOK, TaskConservation, TickSwitch, Distinct, Elements, Queued
<1>2. /\ next \in Tasks /\ next \in Queued /\ next # prev
      /\ Tail(tasks) \in Seq(Tasks) /\ Distinct(Tail(tasks))
      /\ Elements(Tail(tasks)) = Queued \ {next}
  BY <1>1, PopFront DEF Elements, Queued
<1>3. /\ tasks' = Requeue(prev) /\ state' = SwitchStates(prev, next)
      /\ stack_ptr' = [stack_ptr EXCEPT ![prev] = here]
      /\ current_task' = next /\ current_task_id' = next
      /\ rsp0' = next /\ cr3' = Space(next)
      /\ Resume(ks, stack_ptr'[next], g)
  BY DEF TickSwitch, SwitchTo
<1>4. /\ state \in [Tasks -> TaskState] /\ stack_ptr \in [Tasks -> Pointer]
      /\ state[prev] \in {"Running", "Zombie"}
  BY DEF TypeOK
<1>5. /\ stack_ptr' \in [Tasks -> Pointer] /\ stack_ptr'[prev] = here
      /\ \A t \in Tasks : t # prev => stack_ptr'[t] = stack_ptr[t]
  BY <1>3, <1>4
<1>6. /\ state' \in [Tasks -> TaskState] /\ state'[next] = "Running"
      /\ \A t \in Tasks \ {prev, next} : state'[t] = state[t]
      /\ state[prev] = "Running" => state'[prev] = "Ready"
      /\ state[prev] = "Zombie" => state'[prev] = "Zombie"
  BY <1>2, <1>3, <1>4, Zenon DEF SwitchStates, TaskState
<1>7. /\ tasks' \in Seq(Tasks) /\ Distinct(tasks')
      /\ state[prev] = "Running" => Queued' = (Queued \ {next}) \cup {prev}
      /\ state[prev] = "Zombie" => Queued' = Queued \ {next}
  <2>1. CASE state[prev] = "Running"
    <3>1. tasks' = Append(Tail(tasks), prev)
      BY <1>3, <2>1 DEF Requeue
    <3>2. prev \notin Elements(Tail(tasks))
      BY <1>1, <1>2 DEF Elements, Queued
    <3>3. Queued' = Elements(tasks')
      BY DEF Elements, Queued
    <3> QED BY <1>2, <2>1, <3>1, <3>2, <3>3, PushBack, ZenonT(40)
  <2>2. CASE state[prev] = "Zombie"
    <3>1. tasks' = Tail(tasks)
      BY <1>3, <2>2 DEF Requeue
    <3>2. Queued' = Elements(tasks')
      BY DEF Elements, Queued
    <3> QED BY <1>2, <2>2, <3>1, <3>2
  <2> QED BY <1>4, <2>1, <2>2
<1>8. Queued \subseteq Tasks /\ Queued' \subseteq Tasks
  BY <1>1, <1>7 DEF Queued
<1>9. \A t \in Queued' \cup {next} : Saved(ks, t, stack_ptr'[t])
  BY <1>1, <1>2, <1>5, <1>7, <1>4, <1>8, Zenon DEF Elements, Queued
<1>10. Installed("Running")'
  BY <1>2, <1>3, <1>6 DEF Installed
<1>11. /\ kstack' \in [Stacks -> Seq(Frame)] /\ cpu' \in Cpu
       /\ gs' \in {"percpu", "user"}
       /\ p.stk \in {next, Boot}
       /\ p.stk = Boot => next_ptr = At(next, 1)
       /\ \A s \in Stacks : s # p.stk => kstack'[s] = ks[s]
       /\ (Jumping \/ InProgram \/ InSyscall)'
  <2>1. Saved(ks, next, p) /\ Resume(ks, p, g)
    BY <1>2, <1>3, <1>5
  <2> HIDE DEF next, p
  <2> QED BY <1>2, <1>3, <1>10, <2>1, ResumeSaved DEF next
<1>12. \A t \in Queued' : Saved(kstack, t, stack_ptr[t])'
  <2> SUFFICES ASSUME NEW t \in Queued' PROVE Saved(kstack, t, stack_ptr[t])'
    OBVIOUS
  <2>1. t \in Tasks /\ t # next /\ t # Boot /\ t \in Stacks /\ Boot \in Stacks
    BY <1>2, <1>4, <1>7, <1>8, Ids
  <2> DEFINE q == stack_ptr'[t]
  <2>2. Saved(ks, t, q)
    BY <1>9
  <2> HIDE DEF q
  <2>3. kstack'[t] = ks[t]
    BY <1>11, <2>1
  <2>4. q.stk = Boot => kstack'[Boot] = ks[Boot]
    <3>1. SUFFICES ASSUME q.stk = Boot, p.stk = Boot PROVE FALSE
      BY <1>11, <2>1
    <3>2. next_ptr = At(next, 1) /\ next_ptr = At(t, 1)
      BY <1>11, <2>1, <2>2, <3>1 DEF Saved, At
    <3> QED BY <2>1, <3>2 DEF At
  <2>5. q = At(Boot, 1) => kstack'[Boot] = ks[Boot]
    BY <2>4 DEF At
  <2>6. next_ptr' = next_ptr
    OBVIOUS
  <2> QED BY <2>2, <2>3, <2>5, <2>6, ZenonT(40) DEF Saved, q
<1>13. TypeOK'
  BY <1>2, <1>3, <1>5, <1>6, <1>7, <1>11, FrameTypes, Ids, Zenon DEF TypeOK
<1>14. TaskConservation'
  <2>1. next \notin Queued'
    BY <1>2, <1>4, <1>7
  <2>2. \A t \in Queued' : t \in Created' /\ state'[t] = "Ready"
    <3>1. Created' = Created /\ prev \in Created
      BY SchedulerAssumption DEF Created, TypeOK, Tasks
    <3>2. \A t \in Queued : t \in Created /\ state[t] = "Ready"
      BY DEF TaskConservation
    <3> QED BY <1>2, <1>4, <1>6, <1>7, <1>8, <2>1, <3>1, <3>2
  <2>3. ASSUME NEW t \in Created'
        PROVE  t \in Queued' \/ t = next \/ state'[t] = "Zombie"
    <3>1. t \in Tasks /\ (t \in Queued \/ t = prev \/ state[t] = "Zombie")
      BY <2>3 DEF TaskConservation, Created
    <3> QED BY <1>4, <1>6, <1>7, <3>1
  <2>4. Distinct(tasks)'
    BY <1>7 DEF Distinct
  <2> HIDE DEF next
  <2> QED BY <1>3, <2>1, <2>2, <2>3, <2>4, Zenon DEF TaskConservation, Distinct
<1> QED BY <1>11, <1>12, <1>13, <1>14 DEF IInv, Situation

\* Returning to the interrupted task when no other is ready.
LEMMA StayPreserves ==
    ASSUME TypeOK, TaskConservation, Installed("Running"),
           NEW ks \in [Stacks -> Seq(Frame)], NEW here \in Pointer,
           NEW g \in {"percpu", "user"},
           Saved(ks, current_task, here),
           TickStay(ks, here, g),
           UNCHANGED <<next_id, task_count, next_ptr>>,
           uptime' \in 0..(UptimeMod - 1)
    PROVE  IInv'
<1>1. /\ tasks' = <<>> /\ tasks = <<>> /\ current_task' = current_task
      /\ current_task_id' = current_task /\ current_task \in Tasks
      /\ stack_ptr' = [stack_ptr EXCEPT ![current_task] = here]
      /\ UNCHANGED <<state, rsp0, cr3, next_ptr, next_id, task_count>>
      /\ Resume(ks, here, g)
  BY DEF TickStay, Installed
<1>2. Installed("Running")'
  BY <1>1 DEF Installed
<1>3. /\ kstack' \in [Stacks -> Seq(Frame)] /\ cpu' \in Cpu
      /\ gs' \in {"percpu", "user"}
      /\ (Jumping \/ InProgram \/ InSyscall)'
  BY <1>1, <1>2, ResumeSaved
<1>4. Queued = {} /\ Queued' = {}
  BY <1>1 DEF Queued
<1>5. TypeOK'
  BY <1>1, <1>3 DEF TypeOK
<1>6. TaskConservation'
  BY <1>1, <1>4 DEF TaskConservation, Created
<1> QED BY <1>3, <1>4, <1>5, <1>6 DEF IInv, Situation

\* Pushing the interrupted context of the current task leaves the frames of the
\* tasks in the queue alone.
LEMMA PushKeepsOthers ==
    ASSUME IInv, current_task \in Tasks, NEW s,
           s = current_task \/ (s = Boot /\ next_ptr = At(current_task, 1)),
           NEW f \in Seq(Frame), NEW ks, ks = [kstack EXCEPT ![s] = f]
    PROVE  /\ ks \in [Stacks -> Seq(Frame)] /\ ks[s] = f
           /\ \A u \in Stacks : u # s => ks[u] = kstack[u]
           /\ \A t \in Queued : Saved(ks, t, stack_ptr[t])
<1>1. /\ kstack \in [Stacks -> Seq(Frame)] /\ s \in Stacks
      /\ current_task \notin Queued /\ Queued \subseteq Tasks
  BY Ids DEF IInv, TypeOK, TaskConservation, Created
<1>2. /\ ks \in [Stacks -> Seq(Frame)] /\ ks[s] = f
      /\ \A u \in Stacks : u # s => ks[u] = kstack[u]
  BY <1>1
<1>3. ASSUME NEW t \in Queued PROVE Saved(ks, t, stack_ptr[t])
  <2> DEFINE q == stack_ptr[t]
  <2>1. Saved(kstack, t, q)
    BY DEF IInv
  <2> HIDE DEF q
  <2>2. t \in Tasks /\ t # current_task /\ t # Boot /\ t \in Stacks /\ Boot \in Stacks
    BY <1>1, Ids
  <2>3. ks[t] = kstack[t]
    BY <1>2, <2>2
  <2>4. next_ptr = At(t, 1) => ks[Boot] = kstack[Boot]
    <3>1. At(t, 1).stk = t /\ At(current_task, 1).stk = current_task
      BY DEF At
    <3>2. next_ptr = At(t, 1) => s # Boot
      BY <2>2, <3>1, Ids
    <3> QED BY <1>2, <2>2, <3>2
  <2> QED BY <2>1, <2>3, <2>4, Zenon DEF Saved, q
<1> QED BY <1>2, <1>3, Zenon

\* So does the conditional swapgs of the interrupt entry code.
LEMMA EntryGsType ==
    ASSUME TypeOK PROVE EntryGs \in {"percpu", "user"}
BY SwapGsType DEF TypeOK, EntryGs

\* The wrapping increment of UPTIME_TICKS stays in range.
LEMMA UptimeType ==
    ASSUME TypeOK PROVE (uptime + 1) % UptimeMod \in 0..(UptimeMod - 1)
BY SchedulerAssumption DEF TypeOK

\* An interrupt of the current task, once the pushed frames are known.
LEMMA TickPreserves ==
    ASSUME IInv, Installed("Running"), NEW point, Interrupt(point),
           NEW s, EntryStack = s,
           s = current_task \/ (s = Boot /\ next_ptr = At(current_task, 1)),
           NEW f \in Seq(Frame), Pushed(s, point) = f,
           Saved([kstack EXCEPT ![s] = f], current_task, At(s, Len(f)))
    PROVE  IInv'
<1> DEFINE ks == [kstack EXCEPT ![s] = f]
           here == At(s, Len(f))
<1>1. TypeOK /\ TaskConservation /\ current_task \in Tasks /\ next_id \notin Tasks
  BY DEF IInv, Installed
<1>2. /\ ks \in [Stacks -> Seq(Frame)] /\ ks[s] = f
      /\ \A t \in Queued : Saved(ks, t, stack_ptr[t])
  <2>1. ks = [kstack EXCEPT ![s] = f]
    OBVIOUS
  <2> HIDE DEF ks
  <2> QED BY <1>1, <2>1, PushKeepsOthers, ZenonT(40)
<1>3. here \in Pointer
  BY <1>1, Ids DEF At, Pointer
<1>4. [stk |-> s, depth |-> Len(ks[s])] = here
  BY <1>2 DEF At
<1>5. /\ \/ TickSwitch(ks, here, EntryGs)
         \/ TickStay(ks, here, EntryGs)
         \/ TickHalt(ks, here, EntryGs)
         \/ TickIdle(ks, here, EntryGs)
      /\ uptime' = (uptime + 1) % UptimeMod
      /\ UNCHANGED <<next_id, task_count, next_ptr>>
  BY <1>4 DEF Interrupt
<1>6. uptime' \in 0..(UptimeMod - 1) /\ EntryGs \in {"percpu", "user"}
  BY <1>1, <1>5, UptimeType, EntryGsType
<1> DEFINE g == EntryGs
<1> HIDE DEF ks, here, g
<1>7. ~TickHalt(ks, here, g) /\ ~TickIdle(ks, here, g)
  BY Ids DEF TickHalt, TickIdle, Installed
<1>8. Saved(ks, current_task, here) /\ state[current_task] = "Running"
  BY DEF ks, here, Installed
<1>9. ASSUME TickSwitch(ks, here, g) PROVE IInv'
  BY <1>1, <1>2, <1>3, <1>5, <1>6, <1>8, <1>9, SwitchPreserves DEF g
<1>10. ASSUME TickStay(ks, here, g) PROVE IInv'
  BY <1>1, <1>2, <1>3, <1>5, <1>6, <1>8, <1>10, StayPreserves DEF g
<1> QED BY <1>5, <1>7, <1>9, <1>10 DEF g

\* A tick, or a yield, in a task's own program.
LEMMA TickInProgram ==
    ASSUME IInv, InProgram, Interrupt("body") PROVE IInv'
<1> DEFINE t == current_task
           f == InitialFrame(t)
<1>1. /\ Installed("Running") /\ t \in Tasks /\ kstack[t] = <<>> /\ rsp0 = t
      /\ cpu = Context(t, f.cs, TRUE, "body", t)
  BY DEF InProgram, Installed
<1>2. f \in Frame /\ f.code = t /\ f.iflag = TRUE /\ f.pc = "body"
  BY <1>1, FrameTypes DEF InitialFrame
<1>3. [code |-> cpu.code, cs |-> cpu.cs, iflag |-> cpu.iflag, pc |-> "body"] = f
  BY <1>1 DEF Context, InitialFrame
<1>4. EntryStack = t
  BY <1>1 DEF EntryStack, Context
<1>5. Pushed(t, "body") = <<f>>
  BY <1>1, <1>3, ShortStacks, Zenon DEF Pushed
<1>6. <<f>> \in Seq(Frame) /\ Len(<<f>>) = 1
  BY <1>2
<1>7. Saved([kstack EXCEPT ![t] = <<f>>], t, At(t, 1))
  <2>1. t \in DOMAIN kstack
    BY <1>1, Ids DEF IInv, TypeOK
  <2> QED BY <2>1 DEF Saved
<1> HIDE DEF f
<1> QED BY <1>1, <1>4, <1>5, <1>6, <1>7, TickPreserves, ZenonT(40)

\* A yielding system call.
LEMMA TickInSyscall ==
    ASSUME IInv, InSyscall, cpu.pc = "syscall", Interrupt("sysret") PROVE IInv'
<1> DEFINE t == current_task
           f == <<InitialFrame(t), YieldFrame(t)>>
<1>1. /\ Installed("Running") /\ t \in Tasks /\ t \in UserTasks
      /\ kstack[t] = <<InitialFrame(t)>>
      /\ cpu = Context(t, "kernel", FALSE, "syscall", t)
  BY DEF InSyscall, Installed, Context
<1>3. [code |-> cpu.code, cs |-> cpu.cs, iflag |-> cpu.iflag, pc |-> "sysret"]
        = YieldFrame(t)
  BY <1>1 DEF Context, YieldFrame
<1>4. EntryStack = t /\ cpu.cs # "user"
  BY <1>1 DEF EntryStack, Context
<1>5. Pushed(t, "sysret") = f
  <2>1. Pushed(t, "sysret") = Append(<<InitialFrame(t)>>, YieldFrame(t))
    BY <1>1, <1>3, <1>4, Zenon DEF Pushed
  <2> QED BY <2>1, ShortStacks, Zenon
<1>6. f \in Seq(Frame) /\ Len(f) = 2
  BY <1>1, FrameTypes
<1>7. Saved([kstack EXCEPT ![t] = f], t, At(t, 2))
  <2>1. t \in DOMAIN kstack
    BY <1>1, Ids DEF IInv, TypeOK
  <2> QED BY <1>1, <2>1 DEF Saved
<1> HIDE DEF f
<1> QED BY <1>1, <1>4, <1>5, <1>6, <1>7, TickPreserves, Zenon

\* A tick in the jump of start_scheduling.
LEMMA TickInJump ==
    ASSUME IInv, Jumping, Interrupt(cpu.pc) PROVE IInv'
<1> DEFINE t == current_task
           I == InitialFrame(t)
           k == JumpFrame(cpu.pc)
<1>1. /\ Installed("Running") /\ t \in Tasks /\ kstack[t] = <<I>>
      /\ t \in DOMAIN kstack /\ Boot \in DOMAIN kstack /\ t # Boot
  BY Ids DEF Jumping, Installed, IInv, TypeOK
<1>2. I \in Frame /\ k \in Frame
  BY <1>1, FrameTypes DEF IInv, TypeOK, Cpu
<1>3. /\ [code |-> cpu.code, cs |-> cpu.cs, iflag |-> cpu.iflag, pc |-> cpu.pc] = k
      /\ cpu.cs # "user"
  <2>1. cpu.code = Boot /\ cpu.cs = "kernel" /\ cpu.iflag = TRUE
    BY DEF Jumping, Context
  <2> QED BY <2>1, Zenon DEF JumpFrame
<1>4. EntryStack = cpu.stk
  BY <1>3 DEF EntryStack
<1>5. CASE /\ cpu = Context(Boot, "kernel", TRUE, "picked", Boot)
           /\ next_ptr = At(t, 1) /\ kstack[Boot] = <<>>
  <2>1. Pushed(Boot, cpu.pc) = <<k>>
    <3>1. Pushed(Boot, cpu.pc) = Append(<<>>, k)
      BY <1>3, <1>5 DEF Pushed
    <3> QED BY <3>1, ShortStacks, Zenon
  <2>2. EntryStack = Boot /\ cpu.pc = "picked"
    BY <1>4, <1>5 DEF Context
  <2>3. <<k>> \in Seq(Frame) /\ Len(<<k>>) = 1
    BY <1>2
  <2>4. Saved([kstack EXCEPT ![Boot] = <<k>>], t, At(Boot, 1))
    BY <1>1, <1>5, <2>2, Zenon DEF Saved
  <2> HIDE DEF k
  <2> QED BY <1>1, <1>5, <2>1, <2>2, <2>3, <2>4, TickPreserves, Zenon
<1>6. CASE \/ cpu = Context(Boot, "kernel", TRUE, "loaded", t)
           \/ cpu = Context(Boot, "kernel", TRUE, "iretq", t)
  <2> DEFINE f == <<I, k>>
  <2>1. Pushed(t, cpu.pc) = f
    <3>1. Pushed(t, cpu.pc) = Append(<<I>>, k)
      BY <1>1, <1>3 DEF Pushed
    <3> QED BY <3>1, ShortStacks, Zenon
  <2>2. EntryStack = t /\ (cpu.pc = "loaded" \/ cpu.pc = "iretq")
    BY <1>4, <1>6 DEF Context
  <2>3. f \in Seq(Frame) /\ Len(f) = 2
    BY <1>2
  <2>4. Saved([kstack EXCEPT ![t] = f], t, At(t, 2))
    BY <1>1, <2>2 DEF Saved
  <2> HIDE DEF f
  <2> QED BY <1>1, <2>1, <2>2, <2>3, <2>4, TickPreserves, ZenonT(40)
<1> QED BY <1>5, <1>6, Zenon DEF Jumping

\* The yield at the end of exit_current_task.
LEMMA TickInExit ==
    ASSUME IInv, InExit, Interrupt("hlt") PROVE IInv'
<1> DEFINE t == current_task
           frame == [code |-> cpu.code, cs |-> cpu.cs, iflag |-> cpu.iflag,
                     pc |-> "hlt"]
           f == <<InitialFrame(t), frame>>
           ks == [kstack EXCEPT ![t] = f]
           here == At(t, 2)
<1>1. /\ Installed("Zombie") /\ t \in Tasks /\ kstack[t] = <<InitialFrame(t)>>
      /\ cpu = Context(t, "kernel", FALSE, "exiting", t)
      /\ state[t] = "Zombie" /\ next_id \notin Tasks /\ t # None
  BY Ids DEF InExit, Installed
<1>2. TypeOK /\ TaskConservation
  BY DEF IInv
<1>3. EntryStack = t /\ cpu.cs = "kernel"
  BY <1>1 DEF EntryStack, Context
<1>4. Pushed(t, "hlt") = f
  <2>1. Pushed(t, "hlt") = Append(<<InitialFrame(t)>>, frame)
    BY <1>1, <1>3, Zenon DEF Pushed
  <2> QED BY <2>1, ShortStacks, Zenon
<1>5. f \in Seq(Frame) /\ Len(f) = 2
  <2>1. frame \in Frame
    BY <1>2 DEF TypeOK, Cpu, Frame, Points
  <2> QED BY <1>1, <2>1, FrameTypes
<1>6. /\ ks \in [Stacks -> Seq(Frame)] /\ ks[t] = f
      /\ \A u \in Queued : Saved(ks, u, stack_ptr[u])
  <2>1. ks = [kstack EXCEPT ![t] = f]
    OBVIOUS
  <2> HIDE DEF ks, f
  <2> QED BY <1>1, <1>5, <2>1, PushKeepsOthers, ZenonT(40)
<1>7. here \in Pointer /\ [stk |-> t, depth |-> Len(ks[t])] = here
  <2> HIDE DEF f, ks
  <2> QED BY <1>1, <1>5, <1>6, Ids, Zenon DEF At, Pointer
<1>8. /\ \/ TickSwitch(ks, here, EntryGs)
         \/ TickStay(ks, here, EntryGs)
         \/ TickHalt(ks, here, EntryGs)
         \/ TickIdle(ks, here, EntryGs)
      /\ uptime' = (uptime + 1) % UptimeMod
      /\ UNCHANGED <<next_id, task_count, next_ptr>>
  <2>1. [kstack EXCEPT ![EntryStack] = Pushed(EntryStack, "hlt")] = ks
    BY <1>3, <1>4, Zenon
  <2> HIDE DEF ks, f
  <2> QED BY <1>3, <1>7, <2>1, ZenonT(40) DEF Interrupt
<1>9. uptime' \in 0..(UptimeMod - 1) /\ EntryGs \in {"percpu", "user"}
  BY <1>2, <1>8, UptimeType, EntryGsType
<1> DEFINE g == EntryGs
<1> HIDE DEF ks, here, g, f, frame
<1>10. ASSUME TickSwitch(ks, here, g) PROVE IInv'
  BY <1>1, <1>2, <1>6, <1>7, <1>8, <1>9, <1>10, SwitchPreserves, Zenon DEF g
<1>11. ASSUME TickHalt(ks, here, g) PROVE IInv'
  <2>1. /\ tasks = <<>> /\ tasks' = <<>> /\ current_task' = None /\ kstack' = ks
        /\ stack_ptr' = [stack_ptr EXCEPT ![t] = here]
        /\ cpu' = [cpu EXCEPT !.cs = "kernel", !.iflag = FALSE, !.pc = "halted",
                              !.stk = here.stk]
        /\ gs' = g /\ UNCHANGED <<current_task_id, state, rsp0, cr3>>
    BY <1>11 DEF TickHalt
  <2>2. here.stk = t /\ t \in Stacks
    BY <1>1, Ids DEF here, At
  <2>3. cpu' \in Cpu /\ cpu'.cs = "kernel" /\ cpu'.pc = "halted"
    BY <1>2, <2>1, <2>2, Zenon DEF TypeOK, Cpu, Points
  <2>4. TypeOK'
    BY <1>1, <1>2, <1>6, <1>7, <1>8, <1>9, <2>1, <2>3 DEF TypeOK, g
  <2>5. Queued = {} /\ Queued' = {}
    BY <2>1 DEF Queued
  <2>6. TaskConservation'
    BY <1>1, <1>2, <1>8, <2>1, <2>5 DEF TaskConservation, Created
  <2> QED BY <1>1, <1>8, <2>3, <2>4, <2>5, <2>6, Zenon DEF IInv, Situation, AtRest
<1>12. ~TickStay(ks, here, g) /\ ~TickIdle(ks, here, g)
  BY <1>1, Zenon DEF TickStay, TickIdle
<1> QED BY <1>8, <1>10, <1>11, <1>12 DEF g

\* A tick before any task runs returns to the boot code.
LEMMA TickInBoot ==
    ASSUME IInv, Booting, Interrupt(cpu.pc) PROVE IInv'
<1> DEFINE f == [code |-> cpu.code, cs |-> cpu.cs, iflag |-> cpu.iflag,
                 pc |-> cpu.pc]
           ks == [kstack EXCEPT ![Boot] = <<f>>]
           here == At(Boot, 1)
<1>1. /\ TypeOK /\ TaskConservation /\ current_task = None
      /\ kstack[Boot] = <<>> /\ kstack \in [Stacks -> Seq(Frame)]
      /\ cpu.code = Boot /\ cpu.cs = "kernel" /\ cpu.stk = Boot
  BY DEF IInv, Booting, Context, TypeOK
<1>2. EntryStack = Boot /\ EntryGs = gs
  BY <1>1 DEF EntryStack, EntryGs
<1>3. Pushed(Boot, cpu.pc) = <<f>>
  <2>1. Pushed(Boot, cpu.pc) = Append(<<>>, f)
    BY <1>1 DEF Pushed
  <2> QED BY <2>1, ShortStacks, ZenonT(40)
<1>4. ks[Boot] = <<f>> /\ Boot \in Stacks
  BY <1>1, Ids
<1>5. [stk |-> Boot, depth |-> Len(ks[Boot])] = here
  <2>1. Len(<<f>>) = 1
    BY ShortStacks
  <2> HIDE DEF f, ks
  <2> QED BY <1>4, <2>1 DEF At
<1>6. /\ \/ TickSwitch(ks, here, gs)
         \/ TickStay(ks, here, gs)
         \/ TickHalt(ks, here, gs)
         \/ TickIdle(ks, here, gs)
      /\ uptime' = (uptime + 1) % UptimeMod
      /\ UNCHANGED <<next_id, task_count, next_ptr>>
  <2>1. [kstack EXCEPT ![EntryStack] = Pushed(EntryStack, cpu.pc)] = ks
    BY <1>2, <1>3, Zenon
  <2> HIDE DEF ks, f
  <2> QED BY <1>2, <1>5, <2>1, Zenon DEF Interrupt
<1>7. TickIdle(ks, here, gs)
  <2> HIDE DEF ks, here
  <2> QED BY <1>1, <1>6 DEF TickSwitch, TickStay, TickHalt
<1>8. /\ Resume(ks, here, gs)
      /\ UNCHANGED <<tasks, current_task, current_task_id, state, stack_ptr, rsp0,
                     cr3>>
  <2> HIDE DEF ks, here
  <2> QED BY <1>7 DEF TickIdle
<1>9. kstack' = kstack /\ cpu' = cpu /\ gs' = gs
  <2>1. <<f>>[1] = f /\ SubSeq(<<f>>, 1, 0) = <<>>
    BY ShortStacks, Zenon
  <2>2. ks[Boot][1] = f /\ SubSeq(ks[Boot], 1, 0) = <<>> /\ 1 - 1 = 0
    <3> HIDE DEF ks, f
    <3> QED BY <1>4, <2>1
  <2>3. /\ kstack' = [ks EXCEPT ![Boot] = <<>>]
        /\ cpu' = Context(f.code, f.cs, f.iflag, f.pc, Boot)
    <3>1. Resume(ks, At(Boot, 1), gs)
      BY <1>8, Zenon
    <3>2. At(Boot, 1).stk = Boot /\ At(Boot, 1).depth = 1
      BY DEF At
    <3> HIDE DEF ks, f, here
    <3> QED BY <2>2, <3>1, <3>2, Zenon DEF Resume, Context
  <2>4. kstack' = kstack
    BY <1>1, <1>4, <2>3
  <2>5. cpu' = cpu
    BY <1>1, <2>3 DEF Context, TypeOK, Cpu
  <2>6. gs' = gs
    <3>1. ks[here.stk][here.depth].cs # "user"
      <4> HIDE DEF ks
      <4> QED BY <1>1, <2>2 DEF At
    <3> HIDE DEF ks, here
    <3> QED BY <1>8, <3>1, ZenonT(40) DEF Resume
  <2> QED BY <2>4, <2>5, <2>6
<1>10. uptime' \in 0..(UptimeMod - 1)
  BY <1>1, <1>6, UptimeType
<1> HIDE DEF ks, here, f
<1>11. TypeOK' /\ TaskConservation'
  BY <1>1, <1>6, <1>8, <1>9, <1>10 DEF TypeOK, TaskConservation, Created, Queued
<1>12. Booting'
  BY <1>6, <1>8, <1>9, Zenon DEF Booting, Queued
<1>13. \A t \in Queued' : Saved(kstack, t, stack_ptr[t])'
  BY <1>6, <1>8, <1>9, ZenonT(40) DEF IInv, Saved, Queued
<1> QED BY <1>11, <1>12, <1>13 DEF IInv, Situation

-----------------------------------------------------------------------------
(* The invariant is inductive *)

\* The initial states satisfy it.
LEMMA InitIInv == Init => IInv
<1> SUFFICES ASSUME Init PROVE IInv
  OBVIOUS
<1>1. /\ next_id = 1 /\ tasks = <<>> /\ current_task = None
      /\ current_task_id = None /\ task_count = 0
      /\ state = [t \in Tasks |-> "Ready"]
      /\ stack_ptr = [t \in Tasks |-> At(t, 0)] /\ next_ptr = At(Boot, 0)
      /\ kstack = [s \in Stacks |-> <<>>]
      /\ gs = "percpu" /\ cr3 = KernelSpace /\ rsp0 = Boot /\ uptime = 0
  BY DEF Init, At
<1>2. PICK i \in BOOLEAN : cpu = Context(Boot, "kernel", i, "boot", Boot)
  BY DEF Init, Context
<1>3. cpu \in Cpu
  BY <1>2, Ids DEF Cpu, Context, Points
<1>4. Queued = {} /\ Created = {}
  BY <1>1 DEF Queued, Created, Tasks
<1>5. TypeOK
  <2>1. next_id \in Tasks /\ uptime \in 0..(UptimeMod - 1)
    BY <1>1, SchedulerAssumption DEF Tasks
  <2>2. stack_ptr \in [Tasks -> Pointer] /\ next_ptr \in Pointer
    BY <1>1, Ids DEF At, Pointer
  <2>3. kstack \in [Stacks -> Seq(Frame)] /\ state \in [Tasks -> TaskState]
    BY <1>1 DEF TaskState
  <2> QED BY <1>1, <1>3, <2>1, <2>2, <2>3, Ids DEF TypeOK
<1>6. TaskConservation
  BY <1>1, <1>4 DEF TaskConservation
<1>7. Booting
  BY <1>1, <1>2, <1>4, Ids, ZenonT(40) DEF Booting
<1> QED BY <1>4, <1>5, <1>6, <1>7 DEF IInv, Situation

\* early_boot adds a task.
LEMMA AddTaskPreserves == ASSUME IInv, AddTask PROVE IInv'
<1> DEFINE n == next_id
<1>1. /\ n \in Tasks /\ n \in Stacks /\ n # Boot /\ next_id' = n + 1
      /\ kstack' = [kstack EXCEPT ![n] = <<InitialFrame(n)>>]
      /\ stack_ptr' = [stack_ptr EXCEPT ![n] = At(n, 1)]
      /\ tasks' = Append(tasks, n) /\ task_count' = task_count + 1
      /\ UNCHANGED <<current_task, current_task_id, state, next_ptr, cpu, gs, cr3,
                     rsp0, uptime>>
      /\ cpu.pc = "boot"
  BY Ids DEF AddTask, At
<1>2. TypeOK /\ TaskConservation
  BY DEF IInv
<1>3. Booting
  BY <1>1 DEF IInv, Situation, Jumping, InProgram, InSyscall, InExit, AtRest,
              Context, Installed
<1>4. /\ tasks \in Seq(Tasks) /\ Distinct(tasks) /\ n \notin Elements(tasks)
      /\ Queued = Elements(tasks) /\ Queued' = Elements(tasks')
  <2>1. Queued = Elements(tasks) /\ Queued' = Elements(tasks')
    BY DEF Elements, Queued
  <2>2. n \notin Created
    BY <1>1, Ids DEF Created
  <2> QED BY <1>2, <2>1, <2>2 DEF TypeOK, TaskConservation, Distinct
<1>5. tasks' \in Seq(Tasks) /\ Distinct(tasks') /\ Queued' = Queued \cup {n}
  <2>1. /\ Append(tasks, n) \in Seq(Tasks)
        /\ Distinct(Append(tasks, n))
        /\ Elements(Append(tasks, n)) = Elements(tasks) \cup {n}
    <3>1. /\ n \in Tasks /\ tasks \in Seq(Tasks)
          /\ Distinct(tasks) /\ n \notin Elements(tasks)
      BY <1>1, <1>4
    <3> HIDE DEF n
    <3> QED BY <3>1, PushBack
  <2> QED BY <1>1, <1>4, <2>1, Zenon
<1>6. /\ kstack' \in [Stacks -> Seq(Frame)] /\ kstack'[n] = <<InitialFrame(n)>>
      /\ \A s \in Stacks : s # n => kstack'[s] = kstack[s]
      /\ stack_ptr' \in [Tasks -> Pointer] /\ stack_ptr'[n] = At(n, 1)
      /\ \A t \in Tasks : t # n => stack_ptr'[t] = stack_ptr[t]
  <2>1. InitialFrame(n) \in Frame /\ At(n, 1) \in Pointer
    BY <1>1, FrameTypes DEF At, Pointer
  <2> QED BY <1>1, <1>2, <2>1 DEF TypeOK
<1>7. TypeOK'
  BY <1>1, <1>2, <1>5, <1>6, SchedulerAssumption DEF TypeOK, Tasks
<1>8. TaskConservation'
  <2>1. Created' = Created \cup {n}
    BY <1>1, <1>2 DEF Created, TypeOK, Tasks
  <2>2. state[n] = "Ready" /\ current_task = None
    BY <1>1, <1>3, Zenon DEF Booting
  <2> QED BY <1>1, <1>2, <1>5, <2>1, <2>2, Ids, ZenonT(40) DEF TaskConservation, Distinct
<1>9. ASSUME NEW t \in Queued' PROVE Saved(kstack, t, stack_ptr[t])'
  <2>1. CASE t = n
    BY <1>6, <2>1 DEF Saved
  <2>2. CASE t # n
    <3>1. t \in Queued /\ t \in Tasks /\ t \in Stacks /\ Boot \in Stacks
      BY <1>2, <1>5, <2>2, Ids, Zenon DEF TaskConservation, Created
    <3>2. /\ Saved(kstack, t, stack_ptr[t]) /\ stack_ptr'[t] = stack_ptr[t]
          /\ kstack'[t] = kstack[t] /\ kstack'[Boot] = kstack[Boot]
          /\ next_ptr' = next_ptr
      BY <1>1, <1>6, <2>2, <3>1 DEF IInv
    <3> QED BY <3>2, Zenon DEF Saved
  <2> QED BY <2>1, <2>2
<1>10. Booting'
  <2>1. kstack'[Boot] = <<>>
    BY <1>1, <1>3, <1>6, Ids DEF Booting
  <2>2. PICK i \in BOOLEAN : cpu = Context(Boot, "kernel", i, "boot", Boot)
    BY <1>1, <1>3 DEF Booting, Context
  <2>3. \A t \in Queued' : stack_ptr'[t] = At(t, 1)
    BY <1>3, <1>5, <1>6, <1>7, <1>8 DEF Booting, TaskConservation, Created
  <2> QED BY <1>1, <1>3, <2>1, <2>2, <2>3, Zenon DEF Booting
<1> QED BY <1>7, <1>8, <1>9, <1>10 DEF IInv, Situation

\* The program point determines the situation.
LEMMA SituationAt ==
    ASSUME IInv
    PROVE  /\ cpu.pc \in {"boot", "start"} => Booting
           /\ cpu.pc \in {"picked", "loaded", "iretq"} => Jumping
           /\ cpu.pc = "body" => InProgram
           /\ cpu.pc \in {"syscall", "sysret"} => InSyscall
           /\ cpu.pc = "exiting" => InExit
           /\ cpu.pc # "hlt"
           /\ cpu.cs = "user" => InProgram
<1>1. Booting => cpu.pc \in {"boot", "start"} /\ cpu.cs = "kernel"
  BY DEF Booting, Context
<1>2. Jumping => cpu.pc \in {"picked", "loaded", "iretq"} /\ cpu.cs = "kernel"
  BY DEF Jumping, Context
<1>3. InProgram => cpu.pc = "body"
  BY DEF InProgram, Context
<1>4. InSyscall => cpu.pc \in {"syscall", "sysret"} /\ cpu.cs = "kernel"
  BY DEF InSyscall, Context
<1>5. InExit => cpu.pc = "exiting" /\ cpu.cs = "kernel"
  BY DEF InExit, Context
<1>6. AtRest => cpu.pc \in {"halted", "panic"} /\ cpu.cs = "kernel"
  BY DEF AtRest
<1> QED BY <1>1, <1>2, <1>3, <1>4, <1>5, <1>6 DEF IInv, Situation

\* Steps of the current task that touch at most its own stack and state.
LEMMA LocalStep ==
    ASSUME IInv, current_task \in Tasks, next_id \notin Tasks,
           NEW f \in Seq(Frame), kstack' = [kstack EXCEPT ![current_task] = f],
           UNCHANGED <<queueVars, next_id, stack_ptr, next_ptr, cr3, rsp0, uptime>>,
           cpu' \in Cpu, gs' \in {"percpu", "user"},
           \/ UNCHANGED state
           \/ state' = [state EXCEPT ![current_task] = "Zombie"]
    PROVE  /\ TypeOK' /\ TaskConservation'
           /\ \A t \in Queued' : Saved(kstack, t, stack_ptr[t])'
           /\ kstack'[current_task] = f
           /\ \A u \in Stacks : u # current_task => kstack'[u] = kstack[u]
<1> DEFINE ks == [kstack EXCEPT ![current_task] = f]
<1>1. ks = [kstack EXCEPT ![current_task] = f] /\ kstack' = ks
  OBVIOUS
<1>2. /\ ks \in [Stacks -> Seq(Frame)] /\ ks[current_task] = f
      /\ \A u \in Stacks : u # current_task => ks[u] = kstack[u]
      /\ \A t \in Queued : Saved(ks, t, stack_ptr[t])
  <2>1. ks = [kstack EXCEPT ![current_task] = f]
    OBVIOUS
  <2>2. kstack \in [Stacks -> Seq(Frame)] /\ current_task \in Stacks
    BY Ids DEF IInv, TypeOK
  <2> HIDE DEF ks
  <2>3. \A t \in Queued : Saved(ks, t, stack_ptr[t])
    BY <2>1, PushKeepsOthers, Zenon
  <2> QED BY <2>1, <2>2, <2>3, Zenon
<1> HIDE DEF ks
<1>3. TypeOK /\ TaskConservation
  BY DEF IInv
<1>4. /\ state' \in [Tasks -> TaskState]
      /\ \A t \in Tasks : t # current_task => state'[t] = state[t]
  BY <1>3, ZenonT(40) DEF TypeOK, TaskState
<1>5. /\ UNCHANGED <<tasks, current_task, current_task_id, task_count, next_id,
                     stack_ptr, next_ptr, cr3, rsp0, uptime>>
      /\ Queued' = Queued /\ Created' = Created
  BY DEF queueVars, Queued, Created
<1>6. TypeOK'
  BY <1>1, <1>2, <1>3, <1>4, <1>5 DEF TypeOK
<1>7. TaskConservation'
  <2>1. Queued \subseteq Tasks \ {current_task} /\ Created \subseteq Tasks
    BY <1>3 DEF TaskConservation, Created
  <2> QED BY <1>3, <1>4, <1>5, <2>1, ZenonT(40) DEF TaskConservation
<1>8. ASSUME NEW t \in Queued' PROVE Saved(kstack, t, stack_ptr[t])'
  <2>1. /\ Saved(ks, t, stack_ptr[t]) /\ kstack' = ks
        /\ stack_ptr' = stack_ptr /\ next_ptr' = next_ptr
    BY <1>1, <1>2, <1>5, ZenonT(40)
  <2> QED BY <2>1, Zenon DEF Saved
<1> QED BY <1>1, <1>2, <1>6, <1>7, <1>8, Zenon

\* A stack that keeps its frames.
LEMMA SameStack ==
    ASSUME IInv, current_task \in Tasks, UNCHANGED kstack
    PROVE  /\ kstack[current_task] \in Seq(Frame)
           /\ kstack' = [kstack EXCEPT ![current_task] = kstack[current_task]]
BY Ids DEF IInv, TypeOK

\* A timer interrupt, at any point where interrupts are enabled, preserves
\* IInv.
LEMMA TimerPreserves == ASSUME IInv, TimerInterrupt PROVE IInv'
<1>1. cpu.iflag /\ ~Stopped /\ Interrupt(cpu.pc)
  BY DEF TimerInterrupt
<1>2. Booting \/ Jumping \/ InProgram
  BY <1>1 DEF IInv, Situation, InSyscall, InExit, AtRest, Context, Stopped
<1>3. InProgram => cpu.pc = "body"
  BY DEF InProgram, Context
<1> QED BY <1>1, <1>2, <1>3, TickInBoot, TickInJump, TickInProgram

\* int 0x81 from a kernel task, a yielding system call or an exiting task
\* preserves IInv.
LEMMA YieldPreserves ==
    ASSUME IInv, KernelYield \/ SyscallYield \/ ExitYield PROVE IInv'
<1>1. CASE KernelYield
  BY <1>1, SituationAt, TickInProgram DEF KernelYield
<1>2. CASE SyscallYield
  BY <1>2, SituationAt, TickInSyscall DEF SyscallYield
<1>3. CASE ExitYield
  BY <1>3, SituationAt, TickInExit DEF ExitYield
<1> QED BY <1>1, <1>2, <1>3

\* early_boot enables interrupts.
LEMMA EnablePreserves == ASSUME IInv, EnableInterrupts PROVE IInv'
<1>1. /\ cpu.pc = "boot" /\ next_id \notin Tasks
      /\ cpu' = [cpu EXCEPT !.iflag = TRUE, !.pc = "start"]
      /\ UNCHANGED <<tasks, current_task, current_task_id, task_count, next_id,
                     state, stack_ptr, next_ptr, kstack, gs, cr3, rsp0, uptime>>
  BY DEF EnableInterrupts, queueVars, taskVars
<1>2. TypeOK /\ TaskConservation /\ Booting
  BY <1>1, SituationAt DEF IInv
<1>3. PICK i \in BOOLEAN : cpu = Context(Boot, "kernel", i, "boot", Boot)
  BY <1>1, <1>2 DEF Booting, Context
<1>4. cpu' = Context(Boot, "kernel", TRUE, "start", Boot)
  BY <1>1, <1>3, Zenon DEF Context
<1>5. cpu' \in Cpu
  BY <1>4, Ids DEF Cpu, Context, Points
<1>6. TypeOK' /\ TaskConservation'
  BY <1>1, <1>2, <1>5 DEF TypeOK, TaskConservation, Created, Queued
<1>7. Booting'
  <2>1. /\ current_task' = None /\ \A t \in Tasks : state'[t] = "Ready"
        /\ kstack'[Boot] = <<>> /\ next_id' \notin Tasks
    BY <1>1, <1>2 DEF Booting
  <2>2. \A t \in Queued' : stack_ptr'[t] = At(t, 1)
    BY <1>1, <1>2 DEF Booting, Queued
  <2> QED BY <1>4, <2>1, <2>2, Zenon DEF Booting
<1>8. \A t \in Queued' : Saved(kstack, t, stack_ptr[t])'
  BY <1>1, Zenon DEF IInv, Saved, Queued
<1> QED BY <1>6, <1>7, <1>8 DEF IInv, Situation

\* start_scheduling, first half: there is a task to pick.
LEMMA StartPickPreserves == ASSUME IInv, StartPick PROVE IInv'
<1> DEFINE next == Head(tasks)
<1>1. TypeOK /\ TaskConservation /\ Booting /\ cpu.pc = "start"
  BY SituationAt DEF IInv, StartPick
<1>2. /\ next_id \notin Tasks /\ current_task = None /\ kstack[Boot] = <<>>
      /\ \A t \in Tasks : state[t] = "Ready"
      /\ \A t \in Queued : stack_ptr[t] = At(t, 1)
  BY <1>1 DEF Booting, Context
<1>3. tasks # <<>>
  <2>1. 1 \in Created /\ 1 \in Tasks
    BY <1>1, <1>2, SchedulerAssumption DEF TypeOK, Tasks, Created
  <2>2. 1 \in Queued
    BY <1>1, <1>2, <2>1, Ids DEF TaskConservation
  <2> QED BY <2>2 DEF Queued
<1>4. /\ tasks' = Tail(tasks) /\ rsp0' = next /\ cr3' = Space(next)
      /\ state' = [state EXCEPT ![next] = "Running"]
      /\ current_task' = next /\ current_task_id' = next
      /\ next_ptr' = stack_ptr[next] /\ cpu' = [cpu EXCEPT !.pc = "picked"]
      /\ UNCHANGED <<next_id, task_count, stack_ptr, kstack, gs, uptime>>
  BY <1>3 DEF StartPick, SwitchTo
<1>5. /\ next \in Tasks /\ next \in Queued /\ tasks' \in Seq(Tasks)
      /\ Distinct(tasks') /\ Queued' = Queued \ {next}
  <2>1. tasks \in Seq(Tasks) /\ Distinct(tasks)
    BY <1>1 DEF TypeOK, TaskConservation, Distinct
  <2>2. Queued = Elements(tasks) /\ Queued' = Elements(tasks')
    BY DEF Elements, Queued
  <2> QED BY <1>3, <1>4, <2>1, <2>2, PopFront
<1> HIDE DEF next
<1>6. \A t \in Queued : t \in Tasks /\ kstack[t] = <<InitialFrame(t)>>
  <2> SUFFICES ASSUME NEW t \in Queued
               PROVE  t \in Tasks /\ kstack[t] = <<InitialFrame(t)>>
    OBVIOUS
  <2>1. t \in Tasks /\ t # Boot
    BY <1>1, Ids DEF TaskConservation, Created
  <2>2. Saved(kstack, t, At(t, 1))
    BY <1>2 DEF IInv
  <2>3. At(t, 1) # At(t, 2)
    BY DEF At
  <2> QED BY <2>1, <2>2, <2>3 DEF Saved
<1>7. state' \in [Tasks -> TaskState] /\ state'[next] = "Running"
      /\ \A t \in Tasks : t # next => state'[t] = "Ready"
  BY <1>1, <1>2, <1>4, <1>5 DEF TypeOK, TaskState
<1>8. cpu' = Context(Boot, "kernel", TRUE, "picked", Boot)
  <2>1. cpu = Context(Boot, "kernel", TRUE, "start", Boot)
    BY <1>1 DEF Booting, Context
  <2> QED BY <1>4, <2>1, Zenon DEF Context
<1>9. cpu' \in Cpu
  BY <1>8, Ids DEF Cpu, Context, Points
<1>10. stack_ptr[next] = At(next, 1)
  BY <1>2, <1>5
<1>11. TypeOK'
  <2>1. next_ptr' \in Pointer /\ rsp0' \in Stacks /\ cr3' \in UserTasks \cup {KernelSpace}
    BY <1>1, <1>4, <1>5, FrameTypes, Ids DEF TypeOK
  <2> QED BY <1>1, <1>4, <1>5, <1>7, <1>9, <2>1 DEF TypeOK
<1>12. TaskConservation'
  <2>1. Created' = Created /\ Created \subseteq Tasks
    BY <1>4 DEF Created
  <2>2. \A t \in Created : t \in Queued
    BY <1>1, <1>2, <2>1, Ids, Zenon DEF TaskConservation
  <2>3. \A t \in Queued' : t \in Created' /\ state'[t] = "Ready"
    BY <1>1, <1>5, <1>6, <1>7, <2>1 DEF TaskConservation
  <2>4. \A t \in Created' : t \in Queued' \/ t = next
    BY <1>5, <2>1, <2>2
  <2>5. next \notin Queued'
    BY <1>5
  <2> QED BY <1>4, <1>5, <2>3, <2>4, <2>5 DEF TaskConservation, Distinct
<1>13. ASSUME NEW t \in Queued' PROVE Saved(kstack, t, stack_ptr[t])'
  <2>1. t \in Queued
    BY <1>5
  <2>2. stack_ptr'[t] = At(t, 1) /\ kstack'[t] = <<InitialFrame(t)>>
    BY <1>2, <1>4, <1>6, <2>1
  <2> QED BY <2>2, Zenon DEF Saved
<1>14. Jumping'
  <2>1. Installed("Running")'
    BY <1>2, <1>4, <1>5, <1>7 DEF Installed
  <2>2. /\ kstack'[next] = <<InitialFrame(next)>> /\ kstack'[Boot] = <<>>
        /\ next_ptr' = At(next, 1) /\ current_task' = next
    BY <1>2, <1>4, <1>5, <1>6, <1>10
  <2> QED BY <1>8, <2>1, <2>2, Zenon DEF Jumping
<1> QED BY <1>11, <1>12, <1>13, <1>14 DEF IInv, Situation

\* start_scheduling, the jump.
LEMMA StartLoadPreserves == ASSUME IInv, StartLoad PROVE IInv'
<1> DEFINE t == current_task
           f == kstack[t]
<1>1. /\ cpu.pc = "picked" /\ cpu' = [cpu EXCEPT !.pc = "loaded", !.stk = next_ptr.stk]
      /\ UNCHANGED <<queueVars, next_id, state, stack_ptr, next_ptr, kstack, gs, cr3,
                     rsp0, uptime>>
  BY DEF StartLoad, taskVars
<1>2. /\ Jumping /\ Installed("Running") /\ t \in Tasks /\ next_id \notin Tasks
      /\ kstack[t] = <<InitialFrame(t)>>
      /\ cpu = Context(Boot, "kernel", TRUE, "picked", Boot)
      /\ next_ptr = At(t, 1)
  BY <1>1, SituationAt DEF Jumping, Installed, Context
<1>3. cpu' = Context(Boot, "kernel", TRUE, "loaded", t)
  BY <1>1, <1>2, Zenon DEF Context, At
<1>4. cpu' \in Cpu /\ gs' \in {"percpu", "user"}
  <2>1. cpu' \in Cpu
    BY <1>2, <1>3, Ids DEF Cpu, Context, Points
  <2>2. gs' \in {"percpu", "user"}
    BY <1>1 DEF IInv, TypeOK
  <2> QED BY <2>1, <2>2
<1>5. f \in Seq(Frame) /\ kstack' = [kstack EXCEPT ![t] = f]
  BY <1>1, <1>2, SameStack
<1>6. /\ TypeOK' /\ TaskConservation'
      /\ \A u \in Queued' : Saved(kstack, u, stack_ptr[u])'
  <2> HIDE DEF f
  <2> QED BY <1>1, <1>2, <1>4, <1>5, LocalStep, Zenon
<1>7. Jumping'
  BY <1>1, <1>2, <1>3 DEF Jumping, Installed, queueVars
<1> QED BY <1>6, <1>7 DEF IInv, Situation

\* The swapgs of start_scheduling preserves IInv.
LEMMA StartSwapGsPreserves == ASSUME IInv, StartSwapGs PROVE IInv'
<1> DEFINE t == current_task
           f == kstack[t]
<1>1. /\ cpu.pc = "loaded" /\ cpu' = [cpu EXCEPT !.pc = "iretq"]
      /\ gs' = IF TopFrame(cpu.stk).cs = "user" THEN SwapGs(gs) ELSE gs
      /\ UNCHANGED <<queueVars, next_id, state, stack_ptr, next_ptr, kstack, cr3,
                     rsp0, uptime>>
  BY DEF StartSwapGs, taskVars
<1>2. /\ Jumping /\ Installed("Running") /\ t \in Tasks /\ next_id \notin Tasks
      /\ kstack[t] = <<InitialFrame(t)>>
      /\ cpu = Context(Boot, "kernel", TRUE, "loaded", t)
  BY <1>1, SituationAt DEF Jumping, Installed, Context
<1>3. cpu' = Context(Boot, "kernel", TRUE, "iretq", t)
  BY <1>1, <1>2, Zenon DEF Context
<1>4. cpu' \in Cpu /\ gs' \in {"percpu", "user"}
  BY <1>1, <1>2, <1>3, Ids, SwapGsType, Zenon DEF Cpu, Context, Points, IInv, TypeOK
<1>5. f \in Seq(Frame) /\ kstack' = [kstack EXCEPT ![t] = f]
  BY <1>1, <1>2, SameStack
<1>6. /\ TypeOK' /\ TaskConservation'
      /\ \A u \in Queued' : Saved(kstack, u, stack_ptr[u])'
  <2> HIDE DEF f
  <2> QED BY <1>1, <1>2, <1>4, <1>5, LocalStep, Zenon
<1>7. Jumping'
  BY <1>1, <1>2, <1>3, Zenon DEF Jumping, Installed, queueVars
<1> QED BY <1>6, <1>7 DEF IInv, Situation

\* What iretq does over a stack that holds one frame.
LEMMA IretqPops ==
    ASSUME Iretq, NEW t, cpu.stk = t, NEW frame, kstack[t] = <<frame>>
    PROVE  /\ kstack' = [kstack EXCEPT ![t] = <<>>]
           /\ cpu' = Context(frame.code, frame.cs, frame.iflag, frame.pc, t)
<1>1. /\ Len(kstack[t]) = 1 /\ kstack[t][1] = frame
      /\ SubSeq(kstack[t], 1, 0) = <<>> /\ 1 - 1 = 0
  <2>1. Len(<<frame>>) = 1 /\ <<frame>>[1] = frame /\ SubSeq(<<frame>>, 1, 0) = <<>>
    BY ShortStacks, Zenon
  <2> QED BY <2>1
<1>2. TopFrame(cpu.stk) = frame
  BY <1>1 DEF TopFrame
<1> QED BY <1>1, <1>2, Zenon DEF Iretq, Context

\* Both ways of entering a task's program with iretq.
LEMMA IretqPreserves ==
    ASSUME IInv, Iretq, Installed("Running"), cpu.stk = current_task,
           kstack[current_task] = <<InitialFrame(current_task)>>,
           gs' \in {"percpu", "user"},
           UNCHANGED <<queueVars, taskVars, next_ptr, cr3, rsp0, uptime>>
    PROVE  IInv'
<1> DEFINE t == current_task
           f == InitialFrame(t)
<1>1. t \in Tasks /\ next_id \notin Tasks
  BY DEF Installed
<1>2. f \in Frame /\ f.code = t /\ f.iflag = TRUE /\ f.pc = "body"
  BY <1>1, FrameTypes, ZenonT(40) DEF InitialFrame
<1>3. /\ kstack' = [kstack EXCEPT ![t] = <<>>]
      /\ cpu' = Context(f.code, f.cs, f.iflag, f.pc, t)
  BY IretqPops
<1>4. cpu' = Context(t, f.cs, TRUE, "body", t)
  BY <1>2, <1>3, Zenon
<1>5. cpu' \in Cpu
  BY <1>1, <1>2, <1>4, Ids DEF Cpu, Context, Points, Frame
<1>6. /\ TypeOK' /\ TaskConservation'
      /\ \A u \in Queued' : Saved(kstack, u, stack_ptr[u])'
      /\ kstack'[t] = <<>>
  <2>1. <<>> \in Seq(Frame) /\ UNCHANGED <<next_id, state, stack_ptr>>
    BY DEF taskVars
  <2> QED BY <1>1, <1>3, <1>5, <2>1, LocalStep, ZenonT(40)
<1>7. InProgram'
  BY <1>4, <1>6, Zenon DEF InProgram, Installed, queueVars, taskVars
<1> QED BY <1>6, <1>7 DEF IInv, Situation

\* The iretq of start_scheduling, which enters the first task, preserves
\* IInv.
LEMMA StartIretqPreserves == ASSUME IInv, StartIretq PROVE IInv'
<1>1. /\ cpu.pc = "iretq" /\ Iretq
      /\ UNCHANGED <<queueVars, taskVars, next_ptr, gs, cr3, rsp0, uptime>>
  BY DEF StartIretq
<1>2. /\ Installed("Running") /\ cpu.stk = current_task
      /\ kstack[current_task] = <<InitialFrame(current_task)>>
  BY <1>1, SituationAt DEF Jumping, Context
<1>3. gs' \in {"percpu", "user"}
  BY <1>1 DEF IInv, TypeOK
<1> QED BY <1>1, <1>2, <1>3, IretqPreserves

\* The return of a system call to ring 3 preserves IInv.
LEMMA SyscallReturnPreserves == ASSUME IInv, SyscallReturn PROVE IInv'
<1>1. /\ cpu.pc = "sysret" /\ Iretq /\ gs' = SwapGs(gs)
      /\ UNCHANGED <<queueVars, taskVars, next_ptr, cr3, rsp0, uptime>>
  BY DEF SyscallReturn
<1>2. /\ Installed("Running") /\ cpu.stk = current_task
      /\ kstack[current_task] = <<InitialFrame(current_task)>>
  BY <1>1, SituationAt DEF InSyscall, Context
<1>3. gs' \in {"percpu", "user"}
  BY <1>1, SwapGsType DEF IInv, TypeOK
<1> QED BY <1>1, <1>2, <1>3, IretqPreserves

\* What the CPU finds when it enters the kernel from ring 3.
LEMMA EntryFromUser ==
    ASSUME IInv, cpu.cs = "user"
    PROVE  /\ Installed("Running") /\ current_task \in UserTasks
           /\ rsp0 = current_task
           /\ cpu = Context(current_task, "user", TRUE, "body", current_task)
           /\ Pushed(rsp0, cpu.pc) = <<InitialFrame(current_task)>>
           /\ <<InitialFrame(current_task)>> \in Seq(Frame)
<1> DEFINE t == current_task
<1>1. /\ Installed("Running") /\ t \in Tasks /\ rsp0 = t
      /\ cpu = Context(t, InitialFrame(t).cs, TRUE, "body", t)
  BY SituationAt DEF InProgram, Installed
<1>2. InitialFrame(t).cs = "user"
  BY <1>1 DEF Context
<1>3. t \in UserTasks
  BY <1>2 DEF InitialFrame
<1>4. /\ cpu.code = t /\ cpu.iflag = TRUE /\ cpu.pc = "body"
  BY <1>1 DEF Context
<1>5. [code |-> cpu.code, cs |-> cpu.cs, iflag |-> cpu.iflag, pc |-> cpu.pc]
        = InitialFrame(t)
  BY <1>3, <1>4, Zenon DEF InitialFrame
<1>6. Pushed(rsp0, cpu.pc) = <<InitialFrame(t)>>
  BY <1>5 DEF Pushed
<1>7. <<InitialFrame(t)>> \in Seq(Frame)
  BY <1>1, FrameTypes
<1> QED BY <1>1, <1>2, <1>3, <1>6, <1>7, ZenonT(40)

\* The entry of a system call preserves IInv.
LEMMA SyscallEntryPreserves == ASSUME IInv, SyscallEntry PROVE IInv'
<1> DEFINE t == current_task
           f == <<InitialFrame(t)>>
<1>1. /\ cpu.cs = "user" /\ gs' = SwapGs(gs)
      /\ UNCHANGED <<queueVars, next_id, state, stack_ptr, next_ptr, cr3, rsp0, uptime>>
  BY DEF SyscallEntry, taskVars
<1>2. /\ Installed("Running") /\ t \in UserTasks /\ t \in Tasks /\ rsp0 = t
      /\ cpu = Context(t, "user", TRUE, "body", t)
      /\ Pushed(rsp0, cpu.pc) = f /\ f \in Seq(Frame)
      /\ next_id \notin Tasks
  BY <1>1, EntryFromUser, Zenon DEF Installed
<1>3. gs' \in {"percpu", "user"}
  BY <1>1, SwapGsType DEF IInv, TypeOK
<1>4. CASE gs' = "percpu"
  <2>1. /\ kstack' = [kstack EXCEPT ![t] = f]
        /\ cpu' = [cpu EXCEPT !.cs = "kernel", !.iflag = FALSE, !.pc = "syscall",
                              !.stk = rsp0]
    BY <1>2, <1>4, Zenon DEF SyscallEntry
  <2>2. cpu' = Context(t, "kernel", FALSE, "syscall", t)
    BY <1>2, <2>1, Zenon DEF Context
  <2>3. cpu' \in Cpu
    BY <1>2, <2>2, Ids DEF Cpu, Context, Points
  <2>4. /\ TypeOK' /\ TaskConservation' /\ kstack'[t] = f
        /\ \A u \in Queued' : Saved(kstack, u, stack_ptr[u])'
    <3> HIDE DEF f
    <3> QED BY <1>1, <1>2, <1>3, <2>1, <2>3, LocalStep, Zenon
  <2>5. InSyscall'
    BY <1>1, <1>2, <2>2, <2>4, Zenon DEF InSyscall, Installed, queueVars
  <2> QED BY <2>4, <2>5 DEF IInv, Situation
<1>5. CASE gs' # "percpu"
  <2>1. /\ kstack' = kstack
        /\ cpu' = [cpu EXCEPT !.cs = "kernel", !.iflag = FALSE, !.pc = "panic"]
    BY <1>5 DEF SyscallEntry
  <2>2. cpu' = Context(t, "kernel", FALSE, "panic", t)
    BY <1>2, <2>1, Zenon DEF Context
  <2>3. cpu' \in Cpu
    BY <1>2, <2>2, Ids DEF Cpu, Context, Points
  <2>4. /\ TypeOK' /\ TaskConservation'
        /\ \A u \in Queued' : Saved(kstack, u, stack_ptr[u])'
    <3> DEFINE h == kstack[t]
    <3>1. h \in Seq(Frame) /\ kstack' = [kstack EXCEPT ![t] = h]
      BY <1>2, <2>1, SameStack
    <3> HIDE DEF h
    <3> QED BY <1>1, <1>2, <1>3, <2>3, <3>1, LocalStep, Zenon
  <2>5. AtRest'
    BY <1>1, <1>2, <2>2 DEF AtRest, Installed, Context
  <2> QED BY <2>4, <2>5 DEF IInv, Situation
<1> QED BY <1>4, <1>5

\* A handler that neither yields nor exits preserves IInv.
LEMMA SyscallOtherPreserves == ASSUME IInv, SyscallOther PROVE IInv'
<1> DEFINE t == current_task
           f == kstack[t]
<1>1. /\ cpu.pc = "syscall" /\ cpu' = [cpu EXCEPT !.pc = "sysret"]
      /\ UNCHANGED <<queueVars, next_id, state, stack_ptr, next_ptr, kstack, gs, cr3,
                     rsp0, uptime>>
  BY DEF SyscallOther, taskVars
<1>2. /\ InSyscall /\ Installed("Running") /\ t \in Tasks /\ next_id \notin Tasks
      /\ cpu = Context(t, "kernel", FALSE, "syscall", t)
  BY <1>1, SituationAt DEF InSyscall, Installed, Context
<1>3. cpu' = Context(t, "kernel", FALSE, "sysret", t)
  BY <1>1, <1>2, Zenon DEF Context
<1>4. cpu' \in Cpu
  BY <1>2, <1>3, Ids DEF Cpu, Context, Points
<1>5. gs' \in {"percpu", "user"}
  BY <1>1 DEF IInv, TypeOK
<1>6. f \in Seq(Frame) /\ kstack' = [kstack EXCEPT ![t] = f]
  BY <1>1, <1>2, SameStack
<1>7. /\ TypeOK' /\ TaskConservation'
      /\ \A u \in Queued' : Saved(kstack, u, stack_ptr[u])'
  <2> HIDE DEF f
  <2> QED BY <1>1, <1>2, <1>4, <1>5, <1>6, LocalStep, Zenon
<1>8. InSyscall'
  BY <1>1, <1>2, <1>3, ZenonT(40) DEF InSyscall, Installed, queueVars
<1> QED BY <1>7, <1>8 DEF IInv, Situation

\* exit_current_task, called by a system call or by a fault handler.
LEMMA ExitPreserves == ASSUME IInv, SyscallExit \/ UserFault PROVE IInv'
<1> DEFINE t == current_task
           f == <<InitialFrame(t)>>
<1>1. /\ Installed("Running") /\ t \in Tasks /\ t # None /\ next_id \notin Tasks
      /\ kstack' = [kstack EXCEPT ![t] = f] /\ f \in Seq(Frame)
      /\ cpu' = Context(t, "kernel", FALSE, "exiting", t)
      /\ MarkZombie
      /\ UNCHANGED <<queueVars, next_id, stack_ptr, next_ptr, gs, cr3, rsp0, uptime>>
  <2>1. CASE SyscallExit
    <3>1. /\ cpu.pc = "syscall" /\ cpu' = [cpu EXCEPT !.pc = "exiting"] /\ MarkZombie
          /\ UNCHANGED <<queueVars, next_id, stack_ptr, next_ptr, kstack, gs, cr3,
                         rsp0, uptime>>
      BY <2>1 DEF SyscallExit
    <3>2. /\ Installed("Running") /\ t \in Tasks /\ next_id \notin Tasks
          /\ kstack[t] = f
          /\ cpu = Context(t, "kernel", FALSE, "syscall", t)
      BY <3>1, SituationAt DEF InSyscall, Installed, Context
    <3>3. cpu' = Context(t, "kernel", FALSE, "exiting", t)
      BY <3>1, <3>2, Zenon DEF Context
    <3>4. f \in Seq(Frame) /\ kstack' = [kstack EXCEPT ![t] = f]
      BY <3>1, <3>2, SameStack, FrameTypes
    <3> QED BY <3>1, <3>2, <3>3, <3>4, Ids, Zenon
  <2>2. CASE UserFault
    <3>1. /\ cpu.cs = "user" /\ kstack' = [kstack EXCEPT ![rsp0] = Pushed(rsp0, cpu.pc)]
          /\ MarkZombie
          /\ cpu' = [cpu EXCEPT !.cs = "kernel", !.iflag = FALSE, !.pc = "exiting",
                                !.stk = rsp0]
          /\ UNCHANGED <<queueVars, next_id, stack_ptr, next_ptr, gs, cr3, rsp0, uptime>>
      BY <2>2 DEF UserFault
    <3>2. /\ Installed("Running") /\ t \in Tasks /\ next_id \notin Tasks /\ rsp0 = t
          /\ cpu = Context(t, "user", TRUE, "body", t)
          /\ Pushed(rsp0, cpu.pc) = f /\ f \in Seq(Frame)
      BY <3>1, EntryFromUser, Zenon DEF Installed
    <3>3. cpu' = Context(t, "kernel", FALSE, "exiting", t)
      BY <3>1, <3>2, ZenonT(40) DEF Context
    <3> QED BY <3>1, <3>2, <3>3, Ids, Zenon
  <2> QED BY <2>1, <2>2, Zenon
<1>2. state' = [state EXCEPT ![t] = "Zombie"]
  BY <1>1 DEF MarkZombie
<1>3. cpu' \in Cpu
  BY <1>1, Ids DEF Cpu, Context, Points
<1>4. gs' \in {"percpu", "user"}
  BY <1>1 DEF IInv, TypeOK
<1>5. /\ TypeOK' /\ TaskConservation' /\ kstack'[t] = f
      /\ \A u \in Queued' : Saved(kstack, u, stack_ptr[u])'
  <2> HIDE DEF f
  <2> QED BY <1>1, <1>2, <1>3, <1>4, LocalStep, ZenonT(40)
<1>6. state'[t] = "Zombie"
  BY <1>1, <1>2 DEF IInv, TypeOK
<1>7. InExit'
  BY <1>1, <1>5, <1>6 DEF InExit, Installed, queueVars
<1> QED BY <1>5, <1>7, Zenon DEF IInv, Situation

\* A step that changes nothing preserves IInv.
LEMMA StutterPreserves == ASSUME IInv, UNCHANGED vars PROVE IInv'
<1>1. UNCHANGED <<next_id, tasks, current_task, current_task_id, task_count, state,
                  stack_ptr, next_ptr, kstack, cpu, gs, cr3, rsp0, uptime>>
  BY DEF vars
<1>2. TypeOK' /\ TaskConservation'
  BY <1>1, ZenonT(40) DEF IInv, TypeOK, TaskConservation, Queued, Created
<1>3. \A t \in Queued' : Saved(kstack, t, stack_ptr[t])'
  BY <1>1, Zenon DEF IInv, Saved, Queued
<1>4. /\ Booting => Booting'
      /\ Jumping => Jumping'
      /\ InProgram => InProgram'
      /\ InSyscall => InSyscall'
      /\ InExit => InExit'
      /\ AtRest => AtRest'
  BY <1>1, Zenon DEF Queued, Booting, Jumping, InProgram, InSyscall, InExit, AtRest,
                     Installed
<1> QED BY <1>2, <1>3, <1>4 DEF IInv, Situation

\* Every step preserves it.
LEMMA NextIInv == IInv /\ [Next]_vars => IInv'
<1> SUFFICES ASSUME IInv, [Next]_vars PROVE IInv'
  OBVIOUS
<1>1. CASE AddTask
  BY <1>1, AddTaskPreserves
<1>2. CASE EnableInterrupts
  BY <1>2, EnablePreserves
<1>3. CASE StartPick
  BY <1>3, StartPickPreserves
<1>4. CASE StartLoad
  BY <1>4, StartLoadPreserves
<1>5. CASE StartSwapGs
  BY <1>5, StartSwapGsPreserves
<1>6. CASE StartIretq
  BY <1>6, StartIretqPreserves
<1>7. CASE TimerInterrupt
  BY <1>7, TimerPreserves
<1>8. CASE KernelYield \/ SyscallYield \/ ExitYield
  BY <1>8, YieldPreserves
<1>9. CASE SyscallEntry
  BY <1>9, SyscallEntryPreserves
<1>10. CASE SyscallOther
  BY <1>10, SyscallOtherPreserves
<1>11. CASE SyscallExit \/ UserFault
  BY <1>11, ExitPreserves
<1>12. CASE SyscallReturn
  BY <1>12, SyscallReturnPreserves
<1>13. CASE UNCHANGED vars
  BY <1>13, StutterPreserves
<1> QED BY <1>1, <1>2, <1>3, <1>4, <1>5, <1>6, <1>7, <1>8, <1>9, <1>10, <1>11,
           <1>12, <1>13 DEF Next

\* The inductive invariant holds in every reachable state.
THEOREM Invariance == Spec => []IInv
BY InitIInv, NextIInv, PTL DEF Spec

-----------------------------------------------------------------------------
(* The theorems *)

\* The kernel's variables keep their types; in particular no saved stack
\* pointer is ever followed to a frame that is not there.
THEOREM TypeCorrect == Spec => []TypeOK
<1>1. IInv => TypeOK
  BY DEF IInv
<1> QED BY <1>1, Invariance, PTL

\* timer_tick, add_task and exit_current_task never lose a task and never
\* schedule one twice, for any number of tasks.
THEOREM TasksConserved == Spec => []TaskConservation
<1>1. IInv => TaskConservation
  BY DEF IInv
<1> QED BY <1>1, Invariance, PTL

\* Code runs as the scheduler's current task, in its address space and with
\* its kernel stack installed.
THEOREM CurrentRuns == Spec => []RunsCurrent
<1>1. ASSUME IInv PROVE RunsCurrent
  <2> SUFFICES ASSUME cpu.pc \in {"body", "syscall", "sysret", "exiting", "hlt"}
               PROVE  /\ cpu.code = current_task
                      /\ current_task_id = current_task
                      /\ cr3 = Space(current_task)
                      /\ rsp0 = current_task
                      /\ cpu.cs = "kernel" => cpu.stk = current_task
    BY DEF RunsCurrent
  <2>1. InProgram \/ InSyscall \/ InExit
    BY <1>1, SituationAt
  <2>2. /\ current_task_id = current_task /\ cr3 = Space(current_task)
        /\ rsp0 = current_task
    BY <2>1, Zenon DEF InProgram, InSyscall, InExit, Installed
  <2>3. cpu.code = current_task /\ cpu.stk = current_task
    BY <2>1 DEF InProgram, InSyscall, InExit, Context
  <2> QED BY <2>2, <2>3
<1> QED BY <1>1, Invariance, PTL

\* What a ready task resumes from is its own context, on top of a stack no
\* other ready task uses.
LEMMA SavedIsIntact ==
    ASSUME IInv, NEW t \in Queued
    PROVE  /\ stack_ptr[t].depth > 0
           /\ stack_ptr[t].depth = Len(kstack[stack_ptr[t].stk])
           /\ Continues(t, stack_ptr[t])
           /\ stack_ptr[t].stk = t
              \/ (stack_ptr[t].stk = Boot /\ next_ptr.stk = t)
<1> DEFINE p == stack_ptr[t]
           I == InitialFrame(t)
           Y == YieldFrame(t)
<1>1. Saved(kstack, t, p)
  BY DEF IInv
<1> HIDE DEF p
<1>2. \A s, d : At(s, d).stk = s /\ At(s, d).depth = d
  BY DEF At
<1>3. CASE p = At(t, 1) /\ kstack[t] = <<I>>
  <2>1. /\ p.stk = t /\ p.depth = 1 /\ Len(kstack[t]) = 1
        /\ kstack[t][1] = I /\ I.code = t
    BY <1>2, <1>3, ShortStacks DEF InitialFrame
  <2> QED BY <2>1 DEF Continues, p
<1>4. CASE p = At(t, 2) /\ kstack[t] = <<I, Y>>
  <2>1. Len(<<I, Y>>) = 2 /\ <<I, Y>>[2] = Y
    BY ShortStacks, Zenon
  <2>2. Y.code = t
    BY DEF YieldFrame
  <2>3. p.stk = t /\ p.depth = 2 /\ Len(kstack[t]) = 2 /\ kstack[t][2].code = t
    BY <1>2, <1>4, <2>1, <2>2, ZenonT(40)
  <2> QED BY <2>3 DEF Continues, p
<1>5. ASSUME NEW point, point = "loaded" \/ point = "iretq", p = At(t, 2),
             kstack[t] = <<I, JumpFrame(point)>>
      PROVE  /\ p.stk = t /\ p.depth = 2 /\ Len(kstack[t]) = 2
             /\ Continues(t, p)
  <2> DEFINE J == JumpFrame(point)
  <2>1. Len(<<I, J>>) = 2 /\ <<I, J>>[1] = I /\ <<I, J>>[2] = J
    OBVIOUS
  <2>2. J.code = Boot /\ J.pc = point
    BY DEF JumpFrame
  <2>0. kstack[t] = <<I, J>> /\ p.stk = t /\ p.depth = 2
    BY <1>2, <1>5
  <2> HIDE DEF J, I
  <2>3. /\ p.stk = t /\ p.depth = 2 /\ Len(kstack[t]) = 2
        /\ kstack[t][1] = I /\ kstack[t][2].code = Boot /\ kstack[t][2].pc = point
    BY <2>0, <2>1, <2>2
  <2> USE DEF I
  <2> QED BY <1>5, <2>3 DEF Continues, At
<1>6. CASE /\ p = At(Boot, 1) /\ next_ptr = At(t, 1)
           /\ kstack[t] = <<I>> /\ kstack[Boot] = <<JumpFrame("picked")>>
  <2>1. /\ p.stk = Boot /\ p.depth = 1 /\ Len(kstack[Boot]) = 1
        /\ Len(kstack[t]) = 1 /\ kstack[t][1] = I /\ next_ptr.stk = t
        /\ kstack[Boot][1] = JumpFrame("picked")
    BY <1>2, <1>6, ShortStacks
  <2>2. kstack[Boot][1].code = Boot /\ kstack[Boot][1].pc = "picked"
    BY <2>1 DEF JumpFrame
  <2>3. Continues(t, p)
    BY <1>6, <2>1, <2>2 DEF Continues, At
  <2> QED BY <2>1, <2>3 DEF p
<1>7. \/ p = At(t, 1) /\ kstack[t] = <<I>>
      \/ p = At(t, 2) /\ kstack[t] = <<I, Y>>
      \/ p = At(t, 2) /\ kstack[t] = <<I, JumpFrame("loaded")>>
      \/ p = At(t, 2) /\ kstack[t] = <<I, JumpFrame("iretq")>>
      \/ /\ p = At(Boot, 1) /\ next_ptr = At(t, 1)
         /\ kstack[t] = <<I>> /\ kstack[Boot] = <<JumpFrame("picked")>>
  BY <1>1, ZenonT(40) DEF Saved
<1>8. CASE \/ p = At(t, 2) /\ kstack[t] = <<I, JumpFrame("loaded")>>
           \/ p = At(t, 2) /\ kstack[t] = <<I, JumpFrame("iretq")>>
  <2>1. p.stk = t /\ p.depth = 2 /\ Len(kstack[t]) = 2 /\ Continues(t, p)
    BY <1>5, <1>8
  <2> QED BY <2>1 DEF p
<1> QED BY <1>3, <1>4, <1>6, <1>7, <1>8, Zenon

\* No saved context is ever overwritten or resumed in another's place.
THEOREM SavedContextsIntact == Spec => []FramesIntact
<1>1. ASSUME IInv PROVE FramesIntact
  <2>1. cpu.cs = "user" => kstack[rsp0] = <<>>
    BY <1>1, SituationAt DEF InProgram, Installed
  <2>2. \A t, u \in Queued : t # u => stack_ptr[t].stk # stack_ptr[u].stk
    <3>1. \A t \in Queued : t # Boot
      BY <1>1, Ids DEF IInv, TaskConservation, Created
    <3> QED BY <1>1, <3>1, SavedIsIntact
  <2> QED BY <1>1, <2>1, <2>2, SavedIsIntact DEF FramesIntact
<1> QED BY <1>1, Invariance, PTL

\* A task that exited, or was ended by a fault, never executes again.
THEOREM ExitedNeverRuns == Spec => []ExitIsFinal
<1>1. ASSUME IInv PROVE ExitIsFinal
  <2>1. cpu.pc # "hlt"
    BY <1>1, SituationAt
  <2>2. ASSUME NEW t \in Tasks, state[t] = "Zombie" PROVE t \notin Queued
    BY <1>1, <2>2 DEF IInv, TaskConservation
  <2>3. ASSUME NEW t \in Tasks, state[t] = "Zombie", cpu.code = t
        PROVE  cpu.pc \in {"exiting", "halted"}
    <3>1. ~Booting /\ ~Jumping
      BY <2>3, Ids DEF Booting, Jumping, Context
    <3>2. ~InProgram /\ ~InSyscall
      BY <2>3 DEF InProgram, InSyscall, Installed, Context
    <3>3. InExit => cpu.pc = "exiting"
      BY DEF InExit, Context
    <3>4. AtRest => cpu.pc = "halted"
      BY <2>3 DEF AtRest
    <3> QED BY <1>1, <3>1, <3>2, <3>3, <3>4 DEF IInv, Situation
  <2> QED BY <2>1, <2>2, <2>3 DEF ExitIsFinal
<1> QED BY <1>1, Invariance, PTL

-----------------------------------------------------------------------------
(* swapgs *)

\* The jump of start_scheduling is one activity: while code c runs, at most one
\* frame of it lies on the stacks, none when c is the jump itself, and only
\* its frames continue before iretq.
Lone(ks, c) ==
    /\ \A s \in Stacks : \A i \in DOMAIN ks[s] :
          ks[s][i].pc = "iretq" => ks[s][i].code = Boot
    /\ \A s, u \in Stacks : \A i \in DOMAIN ks[s], j \in DOMAIN ks[u] :
          ks[s][i].code = Boot /\ ks[u][j].code = Boot => s = u /\ i = j
    /\ c = Boot => \A s \in Stacks : \A i \in DOMAIN ks[s] : ks[s][i].code # Boot

SkewedIn(ks) == \E t \in UserTasks : \E i \in DOMAIN ks[t] : ks[t][i].pc = "iretq"

GsInv == Lone(kstack, cpu.code) /\ GsPaired

\* Skewed is what it says of the stacks there are.
LEMMA SkewedIs == Skewed <=> SkewedIn(kstack)
BY Ids DEF Skewed, SkewedIn

\* While the jump runs, no stack is skewed.
LEMMA JumpNotSkewed ==
    ASSUME NEW ks, Lone(ks, Boot)
    PROVE  ~SkewedIn(ks)
BY Ids DEF Lone, SkewedIn

\* The stacks kt are ks with frame f on top of stack s: they agree on every
\* frame but that one.
OnTop(ks, s, f, kt) ==
    \E n \in DOMAIN kt[s] :
        /\ kt[s][n] = f
        /\ \A u \in Stacks : \A i \in DOMAIN ks[u] :
              i \in DOMAIN kt[u] /\ kt[u][i] = ks[u][i] /\ ~(u = s /\ i = n)
        /\ \A u \in Stacks : \A i \in DOMAIN kt[u] :
              (i \in DOMAIN ks[u] /\ kt[u][i] = ks[u][i]) \/ (u = s /\ i = n)

\* Pushing a frame.
LEMMA PushOnTop ==
    ASSUME NEW ks \in [Stacks -> Seq(Frame)], NEW f \in Frame, NEW s \in Stacks
    PROVE  OnTop(ks, s, f, [ks EXCEPT ![s] = Append(ks[s], f)])
<1> DEFINE n == Len(ks[s])
           kt == [ks EXCEPT ![s] = Append(ks[s], f)]
<1>1. /\ n \in Nat /\ DOMAIN ks[s] = 1..n
      /\ DOMAIN kt[s] = 1..(n + 1)
      /\ kt[s][n + 1] = f
      /\ \A i \in 1..n : kt[s][i] = ks[s][i]
      /\ \A u \in Stacks : u # s => kt[u] = ks[u]
  OBVIOUS
<1> HIDE DEF n, kt
<1>2. \A i \in 1..(n + 1) : i \in 1..n \/ i = n + 1
  BY <1>1
<1>3. n + 1 \in 1..(n + 1) /\ n + 1 \notin 1..n /\ \A i \in 1..n : i \in 1..(n + 1)
  BY <1>1
<1>4. OnTop(ks, s, f, kt)
  <2> DEFINE m == n + 1
  <2>1. m \in DOMAIN kt[s] /\ kt[s][m] = f
    BY <1>1, <1>3
  <2>2. \A u \in Stacks : \A i \in DOMAIN ks[u] :
           i \in DOMAIN kt[u] /\ kt[u][i] = ks[u][i] /\ ~(u = s /\ i = m)
    BY <1>1, <1>3, Zenon
  <2>3. \A u \in Stacks : \A i \in DOMAIN kt[u] :
           (i \in DOMAIN ks[u] /\ kt[u][i] = ks[u][i]) \/ (u = s /\ i = m)
    BY <1>1, <1>2, Zenon
  <2> HIDE DEF m
  <2> QED BY <2>1, <2>2, <2>3, ZenonT(40) DEF OnTop
<1> QED BY <1>4 DEF kt

\* Popping one.
LEMMA PopOnTop ==
    ASSUME NEW ks \in [Stacks -> Seq(Frame)], NEW s \in Stacks, Len(ks[s]) > 0
    PROVE  OnTop([ks EXCEPT ![s] = SubSeq(ks[s], 1, Len(ks[s]) - 1)], s,
                 ks[s][Len(ks[s])], ks)
<1> DEFINE n == Len(ks[s])
           r == SubSeq(ks[s], 1, n - 1)
           kt == [ks EXCEPT ![s] = r]
<1>1. n \in Nat /\ n > 0 /\ DOMAIN ks[s] = 1..n /\ ks[s] \in Seq(Frame)
  OBVIOUS
<1>2. r \in Seq(Frame) /\ Len(r) = n - 1 /\ \A i \in 1..(n - 1) : r[i] = ks[s][i]
  BY <1>1, SubSeqProperties
<1>3. DOMAIN r = 1..(n - 1)
  BY <1>2
<1>4. kt[s] = r /\ \A u \in Stacks : u # s => kt[u] = ks[u]
  OBVIOUS
<1> HIDE DEF n, r, kt
<1>5. /\ n \in 1..n /\ \A i \in 1..(n - 1) : i \in 1..n /\ i # n
      /\ \A i \in 1..n : i \in 1..(n - 1) \/ i = n
  BY <1>1
<1>6. \A u \in Stacks : \A i \in DOMAIN kt[u] :
         i \in DOMAIN ks[u] /\ ks[u][i] = kt[u][i] /\ ~(u = s /\ i = n)
  BY <1>1, <1>2, <1>3, <1>4, <1>5, Zenon
<1>7. \A u \in Stacks : \A i \in DOMAIN ks[u] :
         (i \in DOMAIN kt[u] /\ ks[u][i] = kt[u][i]) \/ (u = s /\ i = n)
  BY <1>1, <1>2, <1>3, <1>4, <1>5, Zenon
<1>8. OnTop(kt, s, ks[s][n], ks)
  <2>1. n \in DOMAIN ks[s]
    BY <1>1, <1>5
  <2> QED BY <1>6, <1>7, <2>1, Zenon DEF OnTop
<1> QED BY <1>8 DEF kt, r, n

\* Saving a context.
LEMMA PushLone ==
    ASSUME NEW ks, NEW f, NEW s \in Stacks, NEW kt, OnTop(ks, s, f, kt),
           Lone(ks, f.code), f.pc = "iretq" => f.code = Boot
    PROVE  /\ \A c : c # Boot => Lone(kt, c)
           /\ SkewedIn(kt) <=> SkewedIn(ks) \/ (f.pc = "iretq" /\ s \in UserTasks)
<1>1. PICK n \in DOMAIN kt[s] :
         /\ kt[s][n] = f
         /\ \A u \in Stacks : \A i \in DOMAIN ks[u] :
               i \in DOMAIN kt[u] /\ kt[u][i] = ks[u][i] /\ ~(u = s /\ i = n)
         /\ \A u \in Stacks : \A i \in DOMAIN kt[u] :
               (i \in DOMAIN ks[u] /\ kt[u][i] = ks[u][i]) \/ (u = s /\ i = n)
  BY ZenonT(40) DEF OnTop
<1>4. ASSUME NEW c, c # Boot PROVE Lone(kt, c)
  <2>1. \A u \in Stacks : \A i \in DOMAIN kt[u] :
           kt[u][i].pc = "iretq" => kt[u][i].code = Boot
    BY <1>1 DEF Lone
  <2>2. ASSUME NEW u \in Stacks, NEW v \in Stacks, NEW i \in DOMAIN kt[u],
               NEW j \in DOMAIN kt[v], kt[u][i].code = Boot, kt[v][j].code = Boot
        PROVE  u = v /\ i = j
    <3>1. CASE f.code = Boot
      <4>1. \A w \in Stacks : \A k \in DOMAIN ks[w] : ks[w][k].code # Boot
        BY <3>1 DEF Lone
      <4> QED BY <1>1, <2>2, <4>1
    <3>2. CASE f.code # Boot
      <4>1. i \in DOMAIN ks[u] /\ ks[u][i].code = Boot
            /\ j \in DOMAIN ks[v] /\ ks[v][j].code = Boot
        BY <1>1, <2>2, <3>2
      <4> QED BY <4>1 DEF Lone
    <3> QED BY <3>1, <3>2
  <2> QED BY <1>4, <2>1, <2>2 DEF Lone
<1>5. SkewedIn(kt) <=> SkewedIn(ks) \/ (f.pc = "iretq" /\ s \in UserTasks)
  <2>1. UserTasks \subseteq Stacks
    BY Ids
  <2>2. SkewedIn(kt) => SkewedIn(ks) \/ (f.pc = "iretq" /\ s \in UserTasks)
    BY <1>1, <2>1 DEF SkewedIn
  <2>3. SkewedIn(ks) => SkewedIn(kt)
    BY <1>1, <2>1 DEF SkewedIn
  <2>4. f.pc = "iretq" /\ s \in UserTasks => SkewedIn(kt)
    BY <1>1 DEF SkewedIn
  <2> QED BY <2>2, <2>3, <2>4
<1> QED BY <1>4, <1>5

\* Resuming the context on top of a stack.
LEMMA PopLone ==
    ASSUME NEW ks, NEW f, NEW s \in Stacks, NEW kt, OnTop(kt, s, f, ks),
           NEW c, Lone(ks, c)
    PROVE  /\ Lone(kt, f.code)
           /\ f.pc = "iretq" => ~SkewedIn(kt) /\ (SkewedIn(ks) <=> s \in UserTasks)
           /\ f.pc # "iretq" => (SkewedIn(kt) <=> SkewedIn(ks))
<1>1. PICK n \in DOMAIN ks[s] :
         /\ ks[s][n] = f
         /\ \A u \in Stacks : \A i \in DOMAIN kt[u] :
               i \in DOMAIN ks[u] /\ ks[u][i] = kt[u][i] /\ ~(u = s /\ i = n)
         /\ \A u \in Stacks : \A i \in DOMAIN ks[u] :
               (i \in DOMAIN kt[u] /\ ks[u][i] = kt[u][i]) \/ (u = s /\ i = n)
  BY ZenonT(40) DEF OnTop
<1>5. Lone(kt, f.code)
  <2>1. \A u \in Stacks : \A i \in DOMAIN kt[u] :
           kt[u][i].pc = "iretq" => kt[u][i].code = Boot
    BY <1>1 DEF Lone
  <2>2. \A u, v \in Stacks : \A i \in DOMAIN kt[u], j \in DOMAIN kt[v] :
           kt[u][i].code = Boot /\ kt[v][j].code = Boot => u = v /\ i = j
    BY <1>1 DEF Lone
  <2>3. ASSUME f.code = Boot, NEW u \in Stacks, NEW i \in DOMAIN kt[u]
        PROVE  kt[u][i].code # Boot
    <3>1. kt[u][i].code = Boot => u = s /\ i = n
      BY <1>1, <2>3 DEF Lone
    <3> QED BY <1>1, <3>1, ZenonT(40)
  <2> QED BY <2>1, <2>2, <2>3, ZenonT(40) DEF Lone
<1>6. ASSUME f.pc = "iretq"
      PROVE  ~SkewedIn(kt) /\ (SkewedIn(ks) <=> s \in UserTasks)
  <2>1. f.code = Boot
    BY <1>1, <1>6 DEF Lone
  <2>2. Lone(kt, Boot)
    BY <1>5, <2>1
  <2>3. ~SkewedIn(kt)
    BY <2>2, JumpNotSkewed
  <2>4. s \in UserTasks => SkewedIn(ks)
    BY <1>1, <1>6 DEF SkewedIn
  <2>5. SkewedIn(ks) => s \in UserTasks
    <3>1. ASSUME NEW t \in UserTasks, NEW i \in DOMAIN ks[t], ks[t][i].pc = "iretq"
          PROVE  t = s
      <4>1. t \in Stacks
        BY Ids
      <4>2. ~(i \in DOMAIN kt[t] /\ ks[t][i] = kt[t][i])
        BY <2>3, <3>1 DEF SkewedIn
      <4> QED BY <1>1, <4>1, <4>2
    <3> QED BY <3>1 DEF SkewedIn
  <2> QED BY <2>3, <2>4, <2>5
<1>7. ASSUME f.pc # "iretq" PROVE SkewedIn(kt) <=> SkewedIn(ks)
  <2>1. UserTasks \subseteq Stacks
    BY Ids
  <2>2. SkewedIn(kt) => SkewedIn(ks)
    BY <1>1, <2>1 DEF SkewedIn
  <2>3. SkewedIn(ks) => SkewedIn(kt)
    BY <1>1, <1>7, <2>1 DEF SkewedIn
  <2> QED BY <2>2, <2>3
<1> QED BY <1>5, <1>6, <1>7

\* Where an interrupt saves the context it interrupts.
LEMMA EntryPoint ==
    ASSUME IInv, ~Stopped
    PROVE  /\ EntryStack \in Stacks
           /\ current_task \in Tasks =>
                 \/ EntryStack = current_task
                 \/ EntryStack = Boot /\ next_ptr = At(current_task, 1)
           /\ cpu.cs = "user" => kstack[EntryStack] = <<>>
           /\ cpu.pc = "iretq" =>
                 /\ EntryStack = current_task /\ current_task \in Tasks
                 /\ cpu.code = Boot /\ cpu.cs = "kernel"
           /\ state[current_task] = "Zombie" /\ current_task \in Tasks =>
                 cpu.code = current_task
<1>1. CASE Booting
  BY <1>1, Ids DEF Booting, Context, EntryStack, None
<1>2. CASE Jumping
  BY <1>2, Ids DEF Jumping, Installed, Context, EntryStack
<1>3. CASE InProgram
  BY <1>3, Ids DEF InProgram, Installed, Context, EntryStack
<1>4. CASE InSyscall
  BY <1>4, Ids DEF InSyscall, Installed, Context, EntryStack
<1>5. CASE InExit
  BY <1>5, Ids DEF InExit, Installed, Context, EntryStack
<1>6. ~AtRest
  BY DEF AtRest, Stopped
<1> QED BY <1>1, <1>2, <1>3, <1>4, <1>5, <1>6, Zenon DEF IInv, Situation

\* An interrupt saves one frame; timer_tick then resumes the frame on top of
\* some stack, or halts the machine after the last exit.
LEMMA SaveAndResume ==
    ASSUME IInv, ~Stopped, NEW point \in Points, Interrupt(point),
           NEW f, f = [code |-> cpu.code, cs |-> cpu.cs, iflag |-> cpu.iflag,
                       pc |-> point],
           NEW s, s = EntryStack,
           NEW ks, ks = [kstack EXCEPT ![s] = Append(kstack[s], f)]
    PROVE  /\ f \in Frame
           /\ \/ \E p \in Pointer :
                    /\ p.depth = Len(ks[p.stk]) /\ p.depth > 0
                    /\ Resume(ks, p, EntryGs)
              \/ /\ kstack' = ks /\ cpu'.pc = "halted" /\ cpu'.code = cpu.code
                 /\ cpu.code \in Tasks
<1>1. /\ TypeOK /\ kstack \in [Stacks -> Seq(Frame)] /\ s \in Stacks
      /\ stack_ptr \in [Tasks -> Pointer] /\ cpu \in Cpu /\ tasks \in Seq(Tasks)
      /\ current_task \in Tasks \cup {None}
  BY EntryPoint, ZenonT(40) DEF IInv, TypeOK
<1>2. f \in Frame
  BY <1>1 DEF Cpu, Frame
<1>3. Pushed(s, point) = Append(kstack[s], f)
  BY EntryPoint, ShortStacks, Zenon DEF Pushed
<1> DEFINE here == [stk |-> s, depth |-> Len(ks[s])]
<1>4. /\ ks[s] = Append(kstack[s], f)
      /\ \A u \in Stacks : u # s => ks[u] = kstack[u]
      /\ Len(ks[s]) = Len(kstack[s]) + 1 /\ Len(kstack[s]) \in Nat
  BY <1>1, <1>2
<1>5. here \in Pointer /\ here.depth = Len(ks[here.stk]) /\ here.depth > 0
  BY <1>1, <1>4 DEF Pointer
<1>6. \/ TickSwitch(ks, here, EntryGs) \/ TickStay(ks, here, EntryGs)
      \/ TickHalt(ks, here, EntryGs) \/ TickIdle(ks, here, EntryGs)
  BY <1>3, Zenon DEF Interrupt
<1> HIDE DEF here
<1>7. CASE TickStay(ks, here, EntryGs) \/ TickIdle(ks, here, EntryGs)
  BY <1>2, <1>5, <1>7, Zenon DEF TickStay, TickIdle
<1>8. CASE TickHalt(ks, here, EntryGs)
  <2>1. /\ kstack' = ks /\ current_task \in Tasks /\ state[current_task] = "Zombie"
        /\ cpu' = [cpu EXCEPT !.cs = "kernel", !.iflag = FALSE, !.pc = "halted",
                              !.stk = here.stk]
    BY <1>1, <1>8 DEF TickHalt
  <2>2. cpu'.pc = "halted" /\ cpu'.code = cpu.code
    BY <1>1, <2>1 DEF Cpu
  <2> QED BY <1>2, <2>1, <2>2, EntryPoint
<1>9. CASE TickSwitch(ks, here, EntryGs)
  <2> DEFINE next == Head(tasks)
             p == stack_ptr[next]
  <2>1. /\ current_task \in Tasks /\ tasks # <<>>
        /\ stack_ptr' = [stack_ptr EXCEPT ![current_task] = here]
        /\ Resume(ks, stack_ptr'[next], EntryGs)
    BY <1>1, <1>9 DEF TickSwitch
  <2>2. next \in Queued /\ next \in Tasks
    BY <1>1, <2>1 DEF Queued
  <2>3. next # current_task
    BY <2>2 DEF IInv, TaskConservation
  <2>4. stack_ptr'[next] = p /\ p \in Pointer /\ p.stk \in Stacks
    BY <1>1, <2>1, <2>2, <2>3 DEF Pointer
  <2>5. /\ p.depth > 0 /\ p.depth = Len(kstack[p.stk])
        /\ p.stk = next \/ (p.stk = Boot /\ next_ptr.stk = next)
    BY <2>2, SavedIsIntact
  <2>6. p.stk # s
    BY <2>1, <2>2, <2>3, <2>5, EntryPoint, Ids DEF At
  <2>7. ks[p.stk] = kstack[p.stk]
    BY <1>4, <2>4, <2>6, Zenon
  <2> QED BY <1>2, <2>1, <2>4, <2>5, <2>7, ZenonT(40)
<1> QED BY <1>6, <1>7, <1>8, <1>9, ZenonT(40)

\* GsPaired without the comparison of truth values.
LEMMA PairedIs ==
    ASSUME NEW g, NEW u \in BOOLEAN, NEW ks
    PROVE  (g = "user" <=> (u # SkewedIn(ks))) <=> (g = "user" <=> ~(u <=> SkewedIn(ks)))
<1>1. SkewedIn(ks) \in BOOLEAN
  BY Zenon DEF SkewedIn
<1>2. (u # SkewedIn(ks)) <=> ~(u <=> SkewedIn(ks))
  BY <1>1, Zenon
<1> QED BY <1>2, Zenon

\* The two senses of GS, as a pair of truth values.
LEMMA PairedNow ==
    ASSUME GsInv, ~Stopped
    PROVE  gs = "user" <=> ~((\/ cpu.cs = "user"
                              \/ cpu.pc = "iretq" /\ current_task \in UserTasks)
                             <=> SkewedIn(kstack))
<1> DEFINE U == cpu.cs = "user" \/ (cpu.pc = "iretq" /\ current_task \in UserTasks)
<1>1. gs = "user" <=> (U # Skewed)
  BY Zenon DEF GsInv, GsPaired
<1>2. Skewed = SkewedIn(kstack) /\ U \in BOOLEAN
  BY SkewedIs, Zenon DEF Skewed, SkewedIn
<1>3. gs = "user" <=> ~(U <=> SkewedIn(kstack))
  <2> HIDE DEF U
  <2>1. gs = "user" <=> (U # SkewedIn(kstack))
    BY <1>1, <1>2, Zenon
  <2> QED BY <1>2, <2>1, PairedIs, Zenon
<1> QED BY <1>3, Zenon

\* The same of the next state, with what its stacks are.
LEMMA PairedNext ==
    ASSUME Lone(kstack', cpu'.code),
           Stopped' \/ (gs' = "user" <=>
                          ~((\/ cpu'.cs = "user"
                             \/ cpu'.pc = "iretq" /\ current_task' \in UserTasks)
                            <=> SkewedIn(kstack')))
    PROVE  GsInv'
<1> DEFINE W == cpu'.cs = "user" \/ (cpu'.pc = "iretq" /\ current_task' \in UserTasks)
<1>1. CASE Stopped'
  BY <1>1, Zenon DEF GsInv, GsPaired
<1>2. CASE ~Stopped'
  <2>1. gs' = "user" <=> ~(W <=> SkewedIn(kstack'))
    BY <1>2, Zenon
  <2>2. Skewed' = SkewedIn(kstack') /\ W \in BOOLEAN
    BY Ids, Zenon DEF Skewed, SkewedIn
  <2>3. gs' = "user" <=> (W # Skewed')
    <3> HIDE DEF W
    <3>1. gs' = "user" <=> (W # SkewedIn(kstack'))
      BY <2>1, <2>2, PairedIs, ZenonT(40)
    <3> QED BY <2>2, <3>1, Zenon
  <2> QED BY <2>3, Zenon DEF GsInv, GsPaired
<1> QED BY <1>1, <1>2

\* Interrupts keep swapgs paired.
LEMMA InterruptPaired ==
    ASSUME IInv, IInv', GsInv, ~Stopped, NEW point \in Points, Interrupt(point),
           point = "iretq" <=> cpu.pc = "iretq"
    PROVE  GsInv'
<1> DEFINE f == [code |-> cpu.code, cs |-> cpu.cs, iflag |-> cpu.iflag, pc |-> point]
           s == EntryStack
           ks == [kstack EXCEPT ![s] = Append(kstack[s], f)]
           g == EntryGs
           U == cpu.cs = "user" \/ (cpu.pc = "iretq" /\ current_task \in UserTasks)
<1>1. /\ kstack \in [Stacks -> Seq(Frame)] /\ s \in Stacks /\ f.code = cpu.code
      /\ f.pc = point /\ f.cs = cpu.cs
      /\ gs \in {"percpu", "user"} /\ cpu.cs \in {"user", "kernel"}
  BY EntryPoint DEF IInv, TypeOK, Cpu
<1>2. Lone(kstack, f.code) /\ (f.pc = "iretq" => f.code = Boot)
  BY <1>1, EntryPoint, Zenon DEF GsInv
<1>3. gs = "user" <=> ~(U <=> SkewedIn(kstack))
  BY PairedNow, ZenonT(40)
<1>4. /\ f \in Frame
      /\ \/ \E p \in Pointer :
               /\ p.depth = Len(ks[p.stk]) /\ p.depth > 0
               /\ Resume(ks, p, g)
         \/ /\ kstack' = ks /\ cpu'.pc = "halted" /\ cpu'.code = cpu.code
            /\ cpu.code \in Tasks
  BY SaveAndResume, Zenon
<1> HIDE DEF f, ks, s
<1>5. /\ ks \in [Stacks -> Seq(Frame)]
      /\ \A c : c # Boot => Lone(ks, c)
      /\ SkewedIn(ks) <=> SkewedIn(kstack) \/ (f.pc = "iretq" /\ s \in UserTasks)
  <2>1. ks \in [Stacks -> Seq(Frame)]
    BY <1>1, <1>4 DEF ks
  <2>2. OnTop(kstack, s, f, ks)
    BY <1>1, <1>4, PushOnTop, ZenonT(40) DEF ks
  <2> QED BY <1>1, <1>2, <2>1, <2>2, PushLone, ZenonT(40)
<1>6. g \in {"percpu", "user"} /\ (g = "user" <=> SkewedIn(ks))
  <2>1. g \in {"percpu", "user"}
    BY EntryGsType DEF IInv
  <2>2. CASE cpu.cs = "user"
    <3>1. cpu.pc # "iretq" /\ U
      BY <2>2, EntryPoint
    <3>2. g = "user" <=> gs # "user"
      BY <1>1, <2>2 DEF EntryGs, SwapGs
    <3> HIDE DEF g, U
    <3> QED BY <1>1, <1>3, <1>5, <2>1, <3>1, <3>2
  <2>3. CASE cpu.cs # "user" /\ cpu.pc # "iretq"
    <3>1. ~U
      BY <2>3
    <3>2. g = gs
      BY <2>3 DEF EntryGs
    <3> HIDE DEF g, U
    <3> QED BY <1>1, <1>3, <1>5, <2>1, <2>3, <3>1, <3>2
  <2>4. CASE cpu.pc = "iretq"
    <3>1. /\ s = current_task /\ cpu.code = Boot /\ cpu.cs = "kernel"
      BY <2>4, EntryPoint DEF s
    <3>2. g = gs /\ (U <=> s \in UserTasks)
      BY <2>4, <3>1 DEF EntryGs
    <3>3. ~SkewedIn(kstack)
      BY <1>1, <1>2, <3>1, JumpNotSkewed
    <3> HIDE DEF g, U
    <3> QED BY <1>1, <1>3, <1>5, <2>1, <2>4, <3>2, <3>3
  <2> QED BY <2>2, <2>3, <2>4
<1> HIDE DEF g
<1>7. CASE /\ kstack' = ks /\ cpu'.pc = "halted" /\ cpu'.code = cpu.code
           /\ cpu.code \in Tasks
  <2>1. cpu'.code # Boot /\ Stopped'
    BY <1>7, Ids DEF Stopped
  <2>2. Lone(kstack', cpu'.code)
    BY <1>5, <1>7, <2>1
  <2> QED BY <2>1, <2>2 DEF GsInv, GsPaired
<1>8. ASSUME NEW p \in Pointer, p.depth = Len(ks[p.stk]), p.depth > 0,
             Resume(ks, p, g)
      PROVE  GsInv'
  <2> DEFINE u == p.stk
             fr == ks[u][Len(ks[u])]
  <2>1. /\ u \in Stacks /\ Len(ks[u]) > 0
        /\ kstack' = [ks EXCEPT ![u] = SubSeq(ks[u], 1, Len(ks[u]) - 1)]
        /\ cpu' = Context(fr.code, fr.cs, fr.iflag, fr.pc, u)
        /\ gs' = IF fr.cs = "user" THEN SwapGs(g) ELSE g
    BY <1>8 DEF Resume, Context, Pointer
  <2>2. /\ cpu'.code = fr.code /\ cpu'.cs = fr.cs /\ cpu'.pc = fr.pc /\ cpu'.stk = u
    BY <2>1 DEF Context
  <2>3. Lone(ks, Boot + 1)
    <3>1. Boot + 1 # Boot
      BY DEF Boot
    <3> QED BY <1>5, <3>1
  <2>4. /\ Lone(kstack', fr.code)
        /\ fr.pc = "iretq" => ~SkewedIn(kstack') /\ (SkewedIn(ks) <=> u \in UserTasks)
        /\ fr.pc # "iretq" => (SkewedIn(kstack') <=> SkewedIn(ks))
    <3>1. OnTop(kstack', u, fr, ks)
      BY <1>5, <2>1, PopOnTop, ZenonT(40)
    <3> HIDE DEF u, fr
    <3>2. u \in Stacks
      BY <2>1
    <3> QED BY <2>3, <3>1, <3>2, PopLone, Zenon
  <2> HIDE DEF u, fr
  <2>5. Lone(kstack', cpu'.code)
    BY <2>2, <2>4
  <2> DEFINE W == \/ cpu'.cs = "user"
                  \/ cpu'.pc = "iretq" /\ current_task' \in UserTasks
  <2>6. (gs' = "user") <=> ~(W <=> SkewedIn(kstack'))
    <3>1. CASE fr.pc = "iretq"
      <4>1. /\ cpu'.stk = current_task' /\ cpu'.cs = "kernel"
        <5>1. Booting' \/ Jumping' \/ InProgram' \/ InSyscall' \/ InExit' \/ AtRest'
          BY DEF IInv, Situation
        <5>2. cpu'.pc = "iretq"
          BY <2>2, <3>1
        <5>3. Jumping'
          BY <5>1, <5>2 DEF Booting, InProgram, InSyscall, InExit, AtRest, Context
        <5> QED BY <5>2, <5>3 DEF Jumping, Context
      <4>2. gs' = g /\ (cpu'.pc = "iretq") /\ u = current_task' /\ cpu'.cs # "user"
        BY <2>1, <2>2, <3>1, <4>1
      <4> QED BY <1>6, <2>4, <3>1, <4>2
    <3>2. CASE fr.pc # "iretq" /\ fr.cs = "user"
      <4>1. (gs' = "user" <=> g # "user") /\ cpu'.cs = "user"
        BY <1>6, <2>1, <2>2, <3>2 DEF SwapGs
      <4> QED BY <1>6, <2>4, <3>2, <4>1
    <3>3. CASE fr.pc # "iretq" /\ fr.cs # "user"
      <4>1. gs' = g /\ cpu'.cs # "user" /\ cpu'.pc # "iretq"
        BY <2>1, <2>2, <3>3
      <4> QED BY <1>6, <2>4, <3>3, <4>1
    <3> QED BY <3>1, <3>2, <3>3
  <2> QED BY <2>5, <2>6, PairedNext, ZenonT(40)
<1> QED BY <1>4, <1>7, <1>8

\* Initially nothing lies on a stack.
LEMMA InitPaired == Init => GsInv
<1> SUFFICES ASSUME Init PROVE GsInv
  OBVIOUS
<1>1. /\ \A s \in Stacks : DOMAIN kstack[s] = {}
      /\ cpu.cs = "kernel" /\ cpu.pc = "boot" /\ gs = "percpu"
  BY DEF Init
<1>2. Lone(kstack, cpu.code)
  BY <1>1 DEF Lone
<1>3. Skewed = FALSE
  BY <1>1, Ids, Zenon DEF Skewed
<1>4. gs # "user" /\ cpu.cs # "user" /\ cpu.pc # "iretq"
  BY <1>1
<1> QED BY <1>2, <1>3, <1>4, ZenonT(40) DEF GsInv, GsPaired

\* Creating a task.
LEMMA AddTaskPaired == ASSUME IInv, GsInv, AddTask PROVE GsInv'
<1>1. /\ kstack' = [kstack EXCEPT ![next_id] = <<InitialFrame(next_id)>>]
      /\ next_id \in Tasks /\ cpu.pc = "boot"
      /\ UNCHANGED <<current_task, cpu, gs>>
  BY DEF AddTask
<1>2. cpu.code = Boot /\ cpu.cs = "kernel" /\ kstack \in [Stacks -> Seq(Frame)]
  BY <1>1, SituationAt DEF Booting, Context, IInv, TypeOK
<1>3. \A s \in Stacks : \A i \in DOMAIN kstack'[s] :
         kstack'[s][i].code # Boot /\ kstack'[s][i].pc # "iretq"
  <2>1. \A s \in Stacks : \A i \in DOMAIN kstack[s] :
           kstack[s][i].code # Boot /\ kstack[s][i].pc # "iretq"
    BY <1>2 DEF GsInv, Lone
  <2>2. /\ InitialFrame(next_id).code # Boot /\ InitialFrame(next_id).pc # "iretq"
    BY <1>1, Ids DEF InitialFrame
  <2>3. /\ kstack'[next_id] = <<InitialFrame(next_id)>>
        /\ \A s \in Stacks : s # next_id => kstack'[s] = kstack[s]
    BY <1>1, <1>2, Ids
  <2>4. \A i \in DOMAIN <<InitialFrame(next_id)>> :
           <<InitialFrame(next_id)>>[i] = InitialFrame(next_id)
    OBVIOUS
  <2> QED BY <2>1, <2>2, <2>3, <2>4, ZenonT(40)
<1>4. Lone(kstack', cpu'.code)
  BY <1>3 DEF Lone
<1>5. ~SkewedIn(kstack) /\ ~SkewedIn(kstack')
  BY <1>2, <1>3, JumpNotSkewed, Ids DEF SkewedIn, GsInv
<1>6. ~Stopped
  BY <1>1 DEF Stopped
<1> QED BY <1>1, <1>2, <1>4, <1>5, <1>6, PairedNow, PairedNext

\* The steps of start_scheduling before its swapgs, and the ends of a system
\* call: no stack, no ring and no GS changes.
LEMMA QuietPaired ==
    ASSUME GsInv, ~Stopped, UNCHANGED <<kstack, gs>>, cpu'.code = cpu.code,
           cpu'.cs = cpu.cs, cpu.pc # "iretq", cpu'.pc # "iretq"
    PROVE  GsInv'
<1>1. Lone(kstack', cpu'.code)
  BY DEF GsInv
<1> QED BY <1>1, PairedNow, PairedNext

\* The swapgs of start_scheduling.
LEMMA StartSwapGsPaired == ASSUME IInv, GsInv, StartSwapGs PROVE GsInv'
<1> DEFINE t == current_task
<1>1. /\ cpu.pc = "loaded" /\ cpu' = [cpu EXCEPT !.pc = "iretq"]
      /\ gs' = IF TopFrame(cpu.stk).cs = "user" THEN SwapGs(gs) ELSE gs
      /\ kstack' = kstack /\ current_task' = t
  BY DEF StartSwapGs, queueVars
<1>2. /\ t \in Tasks /\ kstack[t] = <<InitialFrame(t)>>
      /\ cpu = Context(Boot, "kernel", TRUE, "loaded", t) /\ gs \in {"percpu", "user"}
  BY <1>1, SituationAt DEF Jumping, Installed, Context, IInv, TypeOK
<1>3. /\ cpu.code = Boot /\ cpu.cs = "kernel" /\ cpu.stk = t
      /\ cpu'.code = Boot /\ cpu'.cs = "kernel" /\ cpu'.pc = "iretq"
  BY <1>1, <1>2 DEF Context
<1>4. TopFrame(t) = InitialFrame(t)
  BY <1>2, ShortStacks, ZenonT(40) DEF TopFrame
<1>5. InitialFrame(t).cs = "user" <=> t \in UserTasks
  BY DEF InitialFrame
<1>6. Lone(kstack', cpu'.code) /\ ~SkewedIn(kstack) /\ ~SkewedIn(kstack')
  BY <1>1, <1>3, JumpNotSkewed DEF GsInv
<1>7. gs = "percpu"
  BY <1>1, <1>2, <1>3, <1>6, PairedNow, Zenon DEF Stopped
<1>8. gs' = "user" <=> t \in UserTasks
  BY <1>1, <1>3, <1>4, <1>5, <1>7 DEF SwapGs
<1> HIDE DEF t
<1> QED BY <1>1, <1>3, <1>6, <1>8, PairedNext

\* The iretq into a task's own program, from the jump or from a system call.
LEMMA IretqPaired ==
    ASSUME IInv, GsInv, NEW t \in Tasks, Iretq, cpu.stk = t, cpu.cs = "kernel",
           current_task = t, kstack[t] = <<InitialFrame(t)>>,
           \/ cpu.pc = "iretq" /\ cpu.code = Boot /\ gs' = gs
           \/ cpu.pc = "sysret" /\ t \in UserTasks /\ gs' = SwapGs(gs)
    PROVE  GsInv'
<1> DEFINE f == InitialFrame(t)
<1>1. /\ kstack' = [kstack EXCEPT ![t] = <<>>]
      /\ cpu' = Context(f.code, f.cs, f.iflag, f.pc, t)
  BY IretqPops, ZenonT(40)
<1>2. /\ kstack \in [Stacks -> Seq(Frame)] /\ t \in Stacks /\ gs \in {"percpu", "user"}
  BY Ids DEF IInv, TypeOK
<1>3. /\ cpu'.code = t /\ cpu'.pc = "body" /\ (cpu'.cs = "user" <=> t \in UserTasks)
      /\ f.code = t /\ f.pc = "body"
  BY <1>1 DEF Context, InitialFrame
<1>4. OnTop(kstack', t, f, kstack)
  <2>1. /\ Len(kstack[t]) = 1 /\ kstack[t][1] = f /\ SubSeq(kstack[t], 1, 0) = <<>>
        /\ 1 - 1 = 0 /\ Len(kstack[t]) > 0
    <3>1. Len(kstack[t]) = 1 /\ kstack[t][1] = f /\ SubSeq(kstack[t], 1, 0) = <<>>
      BY ShortStacks, ZenonT(40)
    <3> QED BY <3>1
  <2>2. OnTop([kstack EXCEPT ![t] = SubSeq(kstack[t], 1, Len(kstack[t]) - 1)], t,
              kstack[t][Len(kstack[t])], kstack)
    BY <1>2, <2>1, PopOnTop, Zenon
  <2> HIDE DEF f
  <2> QED BY <1>1, <2>1, <2>2, ZenonT(40)
<1> HIDE DEF f
<1>5. Lone(kstack, cpu.code)
  BY DEF GsInv
<1>6. Lone(kstack', f.code) /\ (SkewedIn(kstack') <=> SkewedIn(kstack))
  BY <1>2, <1>3, <1>4, <1>5, PopLone, ZenonT(40)
<1>7. gs = "user" <=> ~((cpu.pc = "iretq" /\ t \in UserTasks) <=> SkewedIn(kstack))
  BY PairedNow DEF Stopped
<1>8. gs' = "user" <=> ~(t \in UserTasks <=> SkewedIn(kstack'))
  <2>1. CASE cpu.pc = "iretq" /\ gs' = gs
    BY <1>6, <1>7, <2>1
  <2>2. CASE cpu.pc = "sysret" /\ t \in UserTasks /\ gs' = SwapGs(gs)
    <3>1. gs' = "user" <=> gs # "user"
      BY <1>2, <2>2 DEF SwapGs
    <3> QED BY <1>6, <1>7, <2>2, <3>1
  <2> QED BY <2>1, <2>2
<1>9. Lone(kstack', cpu'.code)
  BY <1>3, <1>6
<1> QED BY <1>3, <1>8, <1>9, PairedNext

\* The entry of a system call.
LEMMA SyscallEntryPaired == ASSUME IInv, GsInv, SyscallEntry PROVE GsInv'
<1> DEFINE t == current_task
           f == InitialFrame(t)
<1>1. /\ cpu.cs = "user" /\ gs' = SwapGs(gs) /\ current_task' = t
      /\ \/ /\ kstack' = [kstack EXCEPT ![rsp0] = Pushed(rsp0, cpu.pc)]
            /\ cpu' = [cpu EXCEPT !.cs = "kernel", !.iflag = FALSE,
                                  !.pc = "syscall", !.stk = rsp0]
         \/ /\ kstack' = kstack
            /\ cpu' = [cpu EXCEPT !.cs = "kernel", !.iflag = FALSE, !.pc = "panic"]
  BY DEF SyscallEntry, queueVars
<1>2. /\ rsp0 = t /\ t \in UserTasks /\ t \in Tasks /\ t \in Stacks
      /\ cpu = Context(t, "user", TRUE, "body", t)
      /\ Pushed(rsp0, cpu.pc) = <<f>> /\ kstack[t] = <<>>
      /\ kstack \in [Stacks -> Seq(Frame)] /\ gs \in {"percpu", "user"} /\ f \in Frame
  BY <1>1, EntryFromUser, SituationAt, FrameTypes, Ids, Zenon DEF IInv, TypeOK, InProgram
<1>3. cpu.code = t /\ cpu.pc = "body" /\ cpu'.code = t /\ cpu'.cs = "kernel"
  BY <1>1, <1>2, Zenon DEF Context
<1>4. gs = "user" <=> ~SkewedIn(kstack)
  BY <1>1, <1>3, PairedNow DEF Stopped
<1>5. gs' = "user" <=> SkewedIn(kstack)
  BY <1>1, <1>2, <1>4 DEF SwapGs
<1>6. t # Boot /\ Lone(kstack, t)
  BY <1>2, <1>3, Ids, Zenon DEF GsInv
<1>7. CASE /\ kstack' = kstack
           /\ cpu' = [cpu EXCEPT !.cs = "kernel", !.iflag = FALSE, !.pc = "panic"]
  <2>1. Stopped'
    BY <1>2, <1>7 DEF Stopped, Context
  <2> QED BY <1>3, <1>6, <1>7, <2>1, PairedNext
<1>8. CASE /\ kstack' = [kstack EXCEPT ![rsp0] = Pushed(rsp0, cpu.pc)]
           /\ cpu' = [cpu EXCEPT !.cs = "kernel", !.iflag = FALSE,
                                 !.pc = "syscall", !.stk = rsp0]
  <2>1. f.code = t /\ f.pc = "body" /\ cpu'.pc = "syscall"
    BY <1>2, <1>8 DEF InitialFrame, Context
  <2> HIDE DEF f
  <2>2. Append(kstack[t], f) = <<f>>
    BY <1>2, ShortStacks
  <2>3. kstack' = [kstack EXCEPT ![t] = Append(kstack[t], f)]
    BY <1>2, <1>8, <2>2, Zenon
  <2>4. OnTop(kstack, t, f, kstack')
    BY <1>2, <2>3, PushOnTop, Zenon
  <2>5. /\ \A c : c # Boot => Lone(kstack', c)
        /\ SkewedIn(kstack') <=> SkewedIn(kstack)
                                 \/ (f.pc = "iretq" /\ t \in UserTasks)
    <3>1. Lone(kstack, f.code) /\ (f.pc = "iretq" => f.code = Boot)
      BY <1>6, <2>1
    <3> HIDE DEF t
    <3> QED BY <1>2, <2>4, <3>1, PushLone, ZenonT(40)
  <2>6. Lone(kstack', cpu'.code) /\ (SkewedIn(kstack') <=> SkewedIn(kstack))
    BY <1>3, <1>6, <2>1, <2>5
  <2> QED BY <1>3, <1>5, <2>1, <2>6, PairedNext
<1> QED BY <1>1, <1>7, <1>8

\* Every step keeps swapgs paired, as long as no user program faults.
LEMMA NextPaired ==
    ASSUME Faulting = {}, IInv, IInv', GsInv, [Next]_vars
    PROVE  GsInv'
<1>t. cpu \in Cpu
  BY DEF IInv, TypeOK
<1>1. CASE AddTask
  BY <1>1, AddTaskPaired
<1>2. CASE EnableInterrupts \/ StartPick \/ StartLoad \/ SyscallOther \/ SyscallExit
  <2>1. /\ cpu.pc \in {"boot", "start", "picked", "syscall"}
        /\ UNCHANGED <<kstack, gs>>
    BY <1>2 DEF EnableInterrupts, StartPick, StartLoad, SyscallOther, SyscallExit
  <2>2. /\ cpu'.code = cpu.code /\ cpu'.cs = cpu.cs
        /\ cpu'.pc \in {"start", "picked", "panic", "loaded", "sysret", "exiting"}
    <3>1. CASE EnableInterrupts
      BY <1>t, <3>1 DEF EnableInterrupts, Cpu
    <3>2. CASE StartPick
      BY <1>t, <3>2, Zenon DEF StartPick, Cpu
    <3>3. CASE StartLoad
      BY <1>t, <3>3 DEF StartLoad, Cpu
    <3>4. CASE SyscallOther
      BY <1>t, <3>4 DEF SyscallOther, Cpu
    <3>5. CASE SyscallExit
      BY <1>t, <3>5 DEF SyscallExit, Cpu
    <3> QED BY <1>2, <3>1, <3>2, <3>3, <3>4, <3>5
  <2>3. ~Stopped /\ cpu.pc # "iretq" /\ cpu'.pc # "iretq"
    BY <2>1, <2>2 DEF Stopped
  <2> QED BY <2>1, <2>2, <2>3, QuietPaired
<1>3. CASE StartSwapGs
  BY <1>3, StartSwapGsPaired
<1>4. CASE StartIretq
  <2>1. cpu.pc = "iretq" /\ Iretq /\ gs' = gs
    BY <1>4 DEF StartIretq
  <2>2. /\ current_task \in Tasks /\ cpu.stk = current_task /\ cpu.cs = "kernel"
        /\ cpu.code = Boot /\ kstack[current_task] = <<InitialFrame(current_task)>>
    BY <2>1, SituationAt DEF Jumping, Installed, Context
  <2> QED BY <2>1, <2>2, IretqPaired, Zenon
<1>5. CASE SyscallReturn
  <2>1. cpu.pc = "sysret" /\ Iretq /\ gs' = SwapGs(gs)
    BY <1>5 DEF SyscallReturn
  <2>2. /\ current_task \in Tasks /\ cpu.stk = current_task /\ cpu.cs = "kernel"
        /\ current_task \in UserTasks
        /\ kstack[current_task] = <<InitialFrame(current_task)>>
    BY <2>1, SituationAt DEF InSyscall, Installed, Context
  <2> QED BY <2>1, <2>2, IretqPaired
<1>6. CASE TimerInterrupt
  <2>1. ~Stopped /\ Interrupt(cpu.pc) /\ cpu.pc \in Points
    BY <1>t, <1>6 DEF TimerInterrupt, Cpu
  <2> QED BY <2>1, InterruptPaired
<1>7. CASE KernelYield \/ SyscallYield \/ ExitYield
  <2>1. PICK point \in {"body", "sysret", "hlt"} :
           Interrupt(point) /\ cpu.pc \in {"body", "syscall", "exiting"}
    BY <1>7 DEF KernelYield, SyscallYield, ExitYield
  <2>2. ~Stopped /\ cpu.pc # "iretq" /\ point # "iretq" /\ point \in Points
    BY <2>1 DEF Stopped, Points
  <2> QED BY <2>1, <2>2, InterruptPaired
<1>8. CASE SyscallEntry
  BY <1>8, SyscallEntryPaired
<1>9. ~UserFault
  BY DEF UserFault
<1>10. CASE UNCHANGED vars
  BY <1>10 DEF vars, GsInv, GsPaired, Stopped, Skewed
<1> QED BY <1>1, <1>2, <1>3, <1>4, <1>5, <1>6, <1>7, <1>8, <1>9, <1>10 DEF Next

\* While no user program faults, every swapgs of the entry code, of
\* start_scheduling and of syscall_entry is paired with a change of ring, for
\* any number of tasks: GS is the user's exactly in ring 3 and just before the
\* iretq into it, or exactly elsewhere while a tick that hit that window has
\* the jump of start_scheduling suspended.
THEOREM SwapGsPaired == Faulting = {} => (Spec => []GsPaired)
<1>1. Faulting = {} /\ IInv /\ IInv' /\ GsInv /\ [Next]_vars => GsInv'
  BY NextPaired
<1>2. GsInv => GsPaired
  BY DEF GsInv
<1>3. SUFFICES ASSUME Faulting = {} PROVE Spec => []GsPaired
  OBVIOUS
<1>4. IInv /\ IInv' /\ GsInv /\ [Next]_vars => GsInv'
  BY <1>1, <1>3
<1> QED BY <1>2, <1>4, InitPaired, Invariance, PTL DEF Spec

=============================================================================
