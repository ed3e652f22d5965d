---------------------------- MODULE LocksProofs ----------------------------
(***************************************************************************)
(* The kernel's locks for any number of user tasks, in any order: who can  *)
(* wait for whom, and that timer_tick always gets the scheduler.           *)
(*                                                                         *)
(* What is left of a program tells which locks its context holds: those    *)
(* whose next operation in it is a release.  The invariant says that the   *)
(* holders are exactly these, and where in its program a context can be    *)
(* interrupted.  That the programs begin and end without a lock is proved  *)
(* along their construction, not by running them.                          *)
(***************************************************************************)
EXTENDS KernelLocks, SequenceTheorems, TLAPS

\* Zenon first: it needs no encoding of the context.
USE ZenonT(3), SMTT(20)

\* The operations that occur in what each kind of context does.
LockOp(L) == [op: {"acquire", "release"}, lock: L]
HeartbeatOp == LockOp({"VFS", "ALLOCATOR"})
UserOp == LockOp(Lock) \cup [op: {"yield", "exit", "sysret"}, lock: {"none"}]
IrqOp == LockOp(Lock) \cup [op: {"try"}, lock: {"SCHEDULER"}]
            \cup [op: {"switch", "iret"}, lock: {"none"}]
BootOp == LockOp(Lock) \cup [op: {"arm"}, lock: {"timer", "keyboard"}]
            \cup [op: {"cli", "sti", "start"}, lock: {"none"}]

\* After the first i operations of p, the next one on l is a release.
HeldAfter(p, i, l) ==
    \E k \in DOMAIN p :
        /\ i < k /\ p[k].op = "release" /\ p[k].lock = l
        /\ \A j \in DOMAIN p : i < j /\ j < k => p[j].lock # l

Held(p, l) == HeldAfter(p, 0, l)

\* The operations on a lock alternate, and the last is a release.
Alternates(p) ==
    \A i \in DOMAIN p :
        p[i].lock \in Lock => (p[i].op # "release" <=> HeldAfter(p, i, p[i].lock))

\* A program that begins and ends without a lock.
Balanced(p) == Alternates(p) /\ \A l \in Lock : ~Held(p, l)

\* Operation o is the last of p.
OnlyLast(p, o) == \A i \in DOMAIN p : p[i].op = o => i = Len(p)

\* No lock is touched from the end of a system call on.
LocksFirst(p) ==
    \A i, k \in DOMAIN p :
        p[i].op \in {"yield", "exit", "sysret"} /\ i <= k => p[k].lock \notin Lock

\* Interrupts are masked before operation i of p, when flag is what the
\* program is entered with.
MaskedAt(p, flag, i) ==
    \/ ~flag /\ \A j \in DOMAIN p : j < i => p[j].op # "sti"
    \/ \E k \in DOMAIN p : /\ k < i /\ p[k].op = "cli"
                           /\ \A j \in DOMAIN p : k < j /\ j < i => p[j].op # "sti"

\* The scheduler's lock is only held with interrupts masked.
Masks(p, flag) ==
    \A i \in DOMAIN p : HeldAfter(p, i - 1, "SCHEDULER") => MaskedAt(p, flag, i)

-----------------------------------------------------------------------------
(* The invariant *)

Types ==
    /\ holder \in [Lock -> Context \cup {Irq, Free}]
    /\ prog \in [Context -> Seq(Operation)]
    /\ iflag \in [Context -> BOOLEAN]
    /\ running \in Context
    /\ queue \in Seq(Task)
    /\ exited \subseteq User
    /\ armed \subseteq {"timer", "keyboard"}

Programs ==
    /\ prog[Boot] \in Seq(BootOp) /\ OnlyLast(prog[Boot], "start")
    /\ prog[Heartbeat] \in Seq(HeartbeatOp)
    /\ prog[Worker] = <<>>
    /\ \A u \in User : prog[u] \in Seq(UserOp) /\ LocksFirst(prog[u])
    /\ irq \in Seq(IrqOp) /\ OnlyLast(irq, "switch") /\ Alternates(irq)
    /\ \A c \in Context : Alternates(prog[c])

Holders ==
    \A l \in Lock :
        /\ \A c \in Context : holder[l] = c <=> Held(prog[c], l)
        /\ holder[l] = Irq <=> Held(irq, l)

\* Boot leaves nothing behind when it starts the scheduler; before that, it is
\* interrupted only where it has interrupts enabled.
BootFlow ==
    /\ running = Boot => queue = TaskOrder
    /\ running # Boot => prog[Boot] = <<>>
    /\ running = Boot /\ irq # <<>> => iflag[Boot]
    /\ Masks(prog[Boot], iflag[Boot])

\* A system call that has still to do with locks has the CPU, masked.
UsersMasked ==
    \A u \in User :
        (\E i \in DOMAIN prog[u] : prog[u][i].lock \in Lock) =>
            running = u /\ irq = <<>> /\ ~iflag[u]

IInv == Types /\ Programs /\ Holders /\ BootFlow /\ UsersMasked

-----------------------------------------------------------------------------
(* What is left after one operation *)

\* A context with nothing left to do holds nothing.
LEMMA NothingHeld == \A l : ~Held(<<>>, l)
  BY DEF Held, HeldAfter

\* Tail moves every operation one place forward.
LEMMA TailItems ==
    ASSUME NEW S, NEW p \in Seq(S), p # <<>>
    PROVE  /\ Tail(p) \in Seq(S)
           /\ Len(p) \in Nat \ {0} /\ DOMAIN p = 1..Len(p)
           /\ Head(p) = p[1] /\ 1 \in DOMAIN p
           /\ Len(Tail(p)) = Len(p) - 1 /\ DOMAIN Tail(p) = 1..(Len(p) - 1)
           /\ \A i \in DOMAIN Tail(p) : i + 1 \in DOMAIN p /\ Tail(p)[i] = p[i + 1]
  OBVIOUS

\* What is held after the head of a program was performed.
LEMMA TailHeldAfter ==
    ASSUME NEW S, NEW p \in Seq(S), p # <<>>, NEW i \in Nat, NEW l
    PROVE  HeldAfter(Tail(p), i, l) <=> HeldAfter(p, i + 1, l)
  <1> DEFINE q == Tail(p)
  <1>1. /\ DOMAIN p = 1..Len(p) /\ Len(p) \in Nat /\ DOMAIN q = 1..(Len(p) - 1)
        /\ \A j \in DOMAIN q : j + 1 \in DOMAIN p /\ q[j] = p[j + 1]
    BY TailItems
  <1> HIDE DEF q
  <1>2. ASSUME HeldAfter(q, i, l) PROVE HeldAfter(p, i + 1, l)
    <2>1. PICK k \in DOMAIN q : /\ i < k /\ q[k].op = "release" /\ q[k].lock = l
                                /\ \A j \in DOMAIN q : i < j /\ j < k => q[j].lock # l
      BY <1>2 DEF HeldAfter
    <2>2. k + 1 \in DOMAIN p /\ i + 1 < k + 1 /\ p[k + 1].op = "release" /\ p[k + 1].lock = l
      BY <1>1, <2>1
    <2>3. ASSUME NEW j \in DOMAIN p, i + 1 < j, j < k + 1 PROVE p[j].lock # l
      <3>1. j - 1 \in DOMAIN q /\ i < j - 1 /\ j - 1 < k /\ (j - 1) + 1 = j
        BY <1>1, <2>3
      <3>2. QED
        BY <1>1, <2>1, <3>1
    <2>4. QED
      BY <2>2, <2>3 DEF HeldAfter
  <1>3. ASSUME HeldAfter(p, i + 1, l) PROVE HeldAfter(q, i, l)
    <2>1. PICK k \in DOMAIN p : /\ i + 1 < k /\ p[k].op = "release" /\ p[k].lock = l
                                /\ \A j \in DOMAIN p : i + 1 < j /\ j < k => p[j].lock # l
      BY <1>3 DEF HeldAfter
    <2>2. k - 1 \in DOMAIN q /\ i < k - 1 /\ (k - 1) + 1 = k
      BY <1>1, <2>1
    <2>3. q[k - 1].op = "release" /\ q[k - 1].lock = l
      BY <1>1, <2>1, <2>2
    <2>4. ASSUME NEW j \in DOMAIN q, i < j, j < k - 1 PROVE q[j].lock # l
      <3>1. j + 1 \in DOMAIN p /\ i + 1 < j + 1 /\ j + 1 < k /\ q[j] = p[j + 1]
        BY <1>1, <2>1, <2>4
      <3>2. QED
        BY <2>1, <3>1
    <2>5. QED
      BY <2>2, <2>3, <2>4 DEF HeldAfter
  <1>4. QED
    BY <1>2, <1>3 DEF q

\* One operation on a lock decides whether it is held afterwards; the locks it
\* does not name stay as they are.
LEMMA StepHeld ==
    ASSUME NEW S, NEW p \in Seq(S), p # <<>>, Alternates(p), NEW l \in Lock
    PROVE  /\ Head(p).lock = l => /\ Held(Tail(p), l) <=> Head(p).op # "release"
                                  /\ Held(p, l) <=> Head(p).op = "release"
           /\ Head(p).lock # l => (Held(Tail(p), l) <=> Held(p, l))
  <1>1. /\ Head(p) = p[1] /\ 1 \in DOMAIN p /\ DOMAIN p = 1..Len(p) /\ Len(p) \in Nat
    BY TailItems
  <1>2. Held(Tail(p), l) <=> HeldAfter(p, 1, l)
    <2>1. HeldAfter(Tail(p), 0, l) <=> HeldAfter(p, 0 + 1, l)
      BY TailHeldAfter
    <2>2. QED
      BY <2>1 DEF Held
  <1>3. ASSUME Head(p).lock = l
        PROVE  /\ Held(Tail(p), l) <=> Head(p).op # "release"
               /\ Held(p, l) <=> Head(p).op = "release"
    <2>1. Held(Tail(p), l) <=> Head(p).op # "release"
      BY <1>1, <1>2, <1>3 DEF Alternates
    <2>2. ASSUME Held(p, l) PROVE Head(p).op = "release"
      <3>1. PICK k \in DOMAIN p : /\ 0 < k /\ p[k].op = "release" /\ p[k].lock = l
                                  /\ \A j \in DOMAIN p : 0 < j /\ j < k => p[j].lock # l
        BY <2>2 DEF Held, HeldAfter
      <3>2. ~(1 < k)
        BY <1>1, <1>3, <3>1
      <3>3. k = 1
        BY <1>1, <3>1, <3>2
      <3>4. QED
        BY <1>1, <3>1, <3>3
    <2>3. ASSUME Head(p).op = "release" PROVE Held(p, l)
      BY <1>1, <1>3, <2>3 DEF Held, HeldAfter
    <2>4. QED
      BY <2>1, <2>2, <2>3
  <1>4. ASSUME Head(p).lock # l PROVE HeldAfter(p, 1, l) <=> Held(p, l)
    <2>1. ASSUME HeldAfter(p, 1, l) PROVE Held(p, l)
      <3>1. PICK k \in DOMAIN p : /\ 1 < k /\ p[k].op = "release" /\ p[k].lock = l
                                  /\ \A j \in DOMAIN p : 1 < j /\ j < k => p[j].lock # l
        BY <2>1 DEF HeldAfter
      <3>2. \A j \in DOMAIN p : 0 < j /\ j < k => p[j].lock # l
        BY <1>1, <1>4, <3>1
      <3>3. 0 < k
        BY <1>1
      <3>4. QED
        BY <3>1, <3>2, <3>3 DEF Held, HeldAfter
    <2>2. ASSUME Held(p, l) PROVE HeldAfter(p, 1, l)
      <3>1. PICK k \in DOMAIN p : /\ 0 < k /\ p[k].op = "release" /\ p[k].lock = l
                                  /\ \A j \in DOMAIN p : 0 < j /\ j < k => p[j].lock # l
        BY <2>2 DEF Held, HeldAfter
      <3>2. k # 1
        BY <1>1, <1>4, <3>1
      <3>3. 1 < k /\ \A j \in DOMAIN p : 1 < j /\ j < k => p[j].lock # l
        BY <1>1, <3>1, <3>2
      <3>4. QED
        BY <3>1, <3>3 DEF HeldAfter
    <2>3. QED
      BY <2>1, <2>2
  <1>5. QED
    BY <1>2, <1>3, <1>4

\* What is true of a program's order is true of what is left of it.
LEMMA TailOrder ==
    ASSUME NEW S, NEW p \in Seq(S), p # <<>>
    PROVE  /\ Alternates(p) => Alternates(Tail(p))
           /\ \A o : OnlyLast(p, o) => OnlyLast(Tail(p), o)
           /\ LocksFirst(p) => LocksFirst(Tail(p))
           /\ (\E i \in DOMAIN Tail(p) : Tail(p)[i].lock \in Lock) =>
                  \E i \in DOMAIN p : p[i].lock \in Lock
  <1> DEFINE q == Tail(p)
  <1>1. /\ DOMAIN p = 1..Len(p) /\ Len(p) \in Nat /\ Len(q) = Len(p) - 1
        /\ DOMAIN q = 1..(Len(p) - 1)
        /\ \A j \in DOMAIN q : j + 1 \in DOMAIN p /\ q[j] = p[j + 1]
    BY TailItems
  <1>2. \A i \in Nat, l \in Lock : HeldAfter(q, i, l) <=> HeldAfter(p, i + 1, l)
    BY TailHeldAfter
  <1> HIDE DEF q
  <1>3. ASSUME Alternates(p), NEW i \in DOMAIN q, q[i].lock \in Lock
        PROVE  q[i].op # "release" <=> HeldAfter(q, i, q[i].lock)
    <2>1. i + 1 \in DOMAIN p /\ q[i] = p[i + 1] /\ i \in Nat
      BY <1>1
    <2>2. p[i + 1].op # "release" <=> HeldAfter(p, i + 1, p[i + 1].lock)
      BY <1>3, <2>1 DEF Alternates
    <2>3. HeldAfter(q, i, q[i].lock) <=> HeldAfter(p, i + 1, q[i].lock)
      BY <1>2, <1>3, <2>1
    <2>4. QED
      BY <2>1, <2>2, <2>3
  <1>4. ASSUME NEW o, OnlyLast(p, o), NEW i \in DOMAIN q, q[i].op = o
        PROVE  i = Len(q)
    BY <1>1, <1>4 DEF OnlyLast
  <1>5. ASSUME LocksFirst(p), NEW i \in DOMAIN q, NEW k \in DOMAIN q,
               q[i].op \in {"yield", "exit", "sysret"}, i <= k
        PROVE  q[k].lock \notin Lock
    <2>1. /\ i + 1 \in DOMAIN p /\ k + 1 \in DOMAIN p /\ i + 1 <= k + 1
          /\ q[i] = p[i + 1] /\ q[k] = p[k + 1]
      BY <1>1, <1>5
    <2>2. QED
      BY <1>5, <2>1, Zenon DEF LocksFirst
  <1>6. (\E i \in DOMAIN q : q[i].lock \in Lock) => \E i \in DOMAIN p : p[i].lock \in Lock
    BY <1>1
  <1>7. QED
    BY <1>3, <1>4, <1>5, <1>6 DEF q, Alternates, OnlyLast, LocksFirst

\* What is left masks as the whole did, entered with the flag as the head
\* leaves it.
LEMMA TailMasks ==
    ASSUME NEW S, NEW p \in Seq(S), p # <<>>,
           NEW flag \in BOOLEAN, NEW left \in BOOLEAN, Masks(p, flag),
           Head(p).op = "cli" => ~left,
           Head(p).op # "cli" /\ Head(p).op # "sti" => left = flag
    PROVE  Masks(Tail(p), left)
  <1> DEFINE q == Tail(p)
  <1>1. /\ DOMAIN p = 1..Len(p) /\ Len(p) \in Nat /\ DOMAIN q = 1..(Len(p) - 1)
        /\ \A j \in DOMAIN q : j + 1 \in DOMAIN p /\ q[j] = p[j + 1]
        /\ Head(p) = p[1] /\ 1 \in DOMAIN p
    BY TailItems
  <1>2. \A i \in Nat : HeldAfter(q, i, "SCHEDULER") <=> HeldAfter(p, i + 1, "SCHEDULER")
    BY TailHeldAfter
  <1> HIDE DEF q
  <1> SUFFICES ASSUME NEW i \in DOMAIN q, HeldAfter(q, i - 1, "SCHEDULER")
               PROVE  MaskedAt(q, left, i)
    BY DEF Masks, q
  <1>3. i + 1 \in DOMAIN p /\ i - 1 \in Nat /\ (i - 1) + 1 = i /\ (i + 1) - 1 = i /\ i \in Nat
    BY <1>1
  <1>4. MaskedAt(p, flag, i + 1)
    BY <1>2, <1>3 DEF Masks
  <1>5. CASE ~flag /\ \A j \in DOMAIN p : j < i + 1 => p[j].op # "sti"
    <2>1. p[1].op # "sti"
      BY <1>1, <1>3, <1>5
    <2>2. ~left
      BY <1>1, <1>5, <2>1
    <2>3. \A j \in DOMAIN q : j < i => q[j].op # "sti"
      BY <1>1, <1>3, <1>5
    <2>4. QED
      BY <2>2, <2>3 DEF MaskedAt
  <1>6. ASSUME NEW k \in DOMAIN p, k < i + 1, p[k].op = "cli",
               \A j \in DOMAIN p : k < j /\ j < i + 1 => p[j].op # "sti"
        PROVE  MaskedAt(q, left, i)
    <2>1. \A j \in DOMAIN q : k - 1 < j /\ j < i => q[j].op # "sti"
      <3> SUFFICES ASSUME NEW j \in DOMAIN q, k - 1 < j, j < i PROVE q[j].op # "sti"
        OBVIOUS
      <3>1. j + 1 \in DOMAIN p /\ k < j + 1 /\ j + 1 < i + 1 /\ q[j] = p[j + 1]
        BY <1>1
      <3>2. QED
        BY <1>6, <3>1
    <2>2. CASE k = 1
      <3>1. ~left
        BY <1>1, <1>6, <2>2
      <3>2. \A j \in DOMAIN q : j < i => q[j].op # "sti"
        BY <1>1, <2>1, <2>2
      <3>3. QED
        BY <3>1, <3>2 DEF MaskedAt
    <2>3. CASE k # 1
      <3>1. k - 1 \in DOMAIN q /\ (k - 1) + 1 = k /\ k - 1 < i
        BY <1>1, <1>6, <2>3
      <3>2. q[k - 1].op = "cli"
        BY <1>1, <1>6, <3>1
      <3>3. QED
        BY <2>1, <3>1, <3>2 DEF MaskedAt
    <2>4. QED
      BY <2>2, <2>3
  <1>7. QED
    BY <1>4, <1>5, <1>6 DEF MaskedAt

\* Whoever holds the scheduler's lock now runs masked.
LEMMA HeldMasked ==
    ASSUME NEW S, NEW p \in Seq(S), NEW flag \in BOOLEAN, Masks(p, flag),
           Held(p, "SCHEDULER")
    PROVE  ~flag
  <1>1. p # <<>>
    BY DEF Held, HeldAfter
  <1>2. 1 \in DOMAIN p /\ DOMAIN p = 1..Len(p) /\ Len(p) \in Nat
    BY <1>1
  <1>3. HeldAfter(p, 1 - 1, "SCHEDULER")
    <2>1. 1 - 1 = 0
      OBVIOUS
    <2>2. QED
      BY <2>1 DEF Held
  <1>4. MaskedAt(p, flag, 1)
    BY <1>2, <1>3 DEF Masks
  <1>5. \A k \in DOMAIN p : ~(k < 1)
    BY <1>2
  <1>6. QED
    BY <1>4, <1>5 DEF MaskedAt

-----------------------------------------------------------------------------
(* Programs put together *)

\* The operations of p \o q.
LEMMA ConcatItems ==
    ASSUME NEW S, NEW p \in Seq(S), NEW q \in Seq(S)
    PROVE  /\ p \o q \in Seq(S)
           /\ Len(p) \in Nat /\ Len(q) \in Nat /\ Len(p \o q) = Len(p) + Len(q)
           /\ DOMAIN p = 1..Len(p) /\ DOMAIN q = 1..Len(q)
           /\ DOMAIN (p \o q) = 1..(Len(p) + Len(q))
           /\ \A i \in DOMAIN p : i \in DOMAIN (p \o q) /\ (p \o q)[i] = p[i]
           /\ \A i \in DOMAIN q : /\ i + Len(p) \in DOMAIN (p \o q)
                                  /\ (p \o q)[i + Len(p)] = q[i]
           /\ \A i \in DOMAIN (p \o q) :
                 i \in DOMAIN p \/ (i - Len(p) \in DOMAIN q /\ i > Len(p))
  <1>1. /\ p \o q \in Seq(S) /\ Len(p \o q) = Len(p) + Len(q)
        /\ \A i \in 1..(Len(p) + Len(q)) :
              (p \o q)[i] = IF i <= Len(p) THEN p[i] ELSE q[i - Len(p)]
    BY ConcatProperties
  <1>2. /\ Len(p) \in Nat /\ Len(q) \in Nat
        /\ DOMAIN p = 1..Len(p) /\ DOMAIN q = 1..Len(q)
    OBVIOUS
  <1>3. DOMAIN (p \o q) = 1..(Len(p) + Len(q))
    BY <1>1
  <1>4. \A i \in DOMAIN p : i \in DOMAIN (p \o q) /\ (p \o q)[i] = p[i]
    BY <1>1, <1>2, <1>3
  <1>5. \A i \in DOMAIN q : /\ i + Len(p) \in DOMAIN (p \o q)
                            /\ (p \o q)[i + Len(p)] = q[i]
    <2> SUFFICES ASSUME NEW i \in DOMAIN q
                 PROVE  /\ i + Len(p) \in DOMAIN (p \o q)
                        /\ (p \o q)[i + Len(p)] = q[i]
      OBVIOUS
    <2>1. /\ i + Len(p) \in 1..(Len(p) + Len(q)) /\ ~(i + Len(p) <= Len(p))
          /\ (i + Len(p)) - Len(p) = i
      BY <1>2
    <2>2. QED
      BY <1>1, <1>3, <2>1
  <1>6. \A i \in DOMAIN (p \o q) : i \in DOMAIN p \/ (i - Len(p) \in DOMAIN q /\ i > Len(p))
    BY <1>2, <1>3
  <1>7. QED
    BY <1>1, <1>2, <1>3, <1>4, <1>5, <1>6

\* What is held within p \o q, when q does not begin with a release.
LEMMA ConcatHeldAfter ==
    ASSUME NEW S, NEW p \in Seq(S), NEW q \in Seq(S), NEW l, NEW i \in Nat
    PROVE  /\ HeldAfter(p \o q, i + Len(p), l) <=> HeldAfter(q, i, l)
           /\ i <= Len(p) /\ ~Held(q, l) =>
                 (HeldAfter(p \o q, i, l) <=> HeldAfter(p, i, l))
  <1> DEFINE r == p \o q
             n == Len(p)
  <1>1. /\ n \in Nat /\ Len(q) \in Nat
        /\ DOMAIN p = 1..n /\ DOMAIN q = 1..Len(q) /\ DOMAIN r = 1..(n + Len(q))
        /\ \A j \in DOMAIN p : j \in DOMAIN r /\ r[j] = p[j]
        /\ \A j \in DOMAIN q : j + n \in DOMAIN r /\ r[j + n] = q[j]
        /\ \A j \in DOMAIN r : j \in DOMAIN p \/ (j - n \in DOMAIN q /\ j > n)
    BY ConcatItems
  <1> HIDE DEF r, n
  <1>2. ASSUME HeldAfter(r, i + n, l) PROVE HeldAfter(q, i, l)
    <2>1. PICK k \in DOMAIN r : /\ i + n < k /\ r[k].op = "release" /\ r[k].lock = l
                                /\ \A j \in DOMAIN r : i + n < j /\ j < k => r[j].lock # l
      BY <1>2 DEF HeldAfter
    <2>2. k - n \in DOMAIN q /\ i < k - n /\ (k - n) + n = k
      BY <1>1, <2>1
    <2>3. q[k - n] = r[k]
      BY <1>1, <2>2
    <2>4. ASSUME NEW j \in DOMAIN q, i < j, j < k - n PROVE q[j].lock # l
      <3>1. j + n \in DOMAIN r /\ i + n < j + n /\ j + n < k /\ r[j + n] = q[j]
        BY <1>1, <2>1, <2>4
      <3>2. QED
        BY <2>1, <3>1
    <2>5. QED
      BY <2>1, <2>2, <2>3, <2>4 DEF HeldAfter
  <1>3. ASSUME HeldAfter(q, i, l) PROVE HeldAfter(r, i + n, l)
    <2>1. PICK k \in DOMAIN q : /\ i < k /\ q[k].op = "release" /\ q[k].lock = l
                                /\ \A j \in DOMAIN q : i < j /\ j < k => q[j].lock # l
      BY <1>3 DEF HeldAfter
    <2>2. k + n \in DOMAIN r /\ i + n < k + n /\ r[k + n] = q[k]
      BY <1>1, <2>1
    <2>3. ASSUME NEW j \in DOMAIN r, i + n < j, j < k + n PROVE r[j].lock # l
      <3>1. j - n \in DOMAIN q /\ i < j - n /\ j - n < k /\ (j - n) + n = j
        BY <1>1, <2>1, <2>3
      <3>2. r[j] = q[j - n]
        BY <1>1, <3>1
      <3>3. QED
        BY <2>1, <3>1, <3>2
    <2>4. QED
      BY <2>1, <2>2, <2>3 DEF HeldAfter
  <1>4. ASSUME HeldAfter(p, i, l) PROVE HeldAfter(r, i, l)
    <2>1. PICK k \in DOMAIN p : /\ i < k /\ p[k].op = "release" /\ p[k].lock = l
                                /\ \A j \in DOMAIN p : i < j /\ j < k => p[j].lock # l
      BY <1>4 DEF HeldAfter
    <2>2. k \in DOMAIN r /\ r[k] = p[k]
      BY <1>1
    <2>3. ASSUME NEW j \in DOMAIN r, i < j, j < k PROVE r[j].lock # l
      <3>1. j \in DOMAIN p /\ r[j] = p[j]
        BY <1>1, <2>3
      <3>2. QED
        BY <2>1, <2>3, <3>1
    <2>4. QED
      BY <2>1, <2>2, <2>3 DEF HeldAfter
  <1>5. ASSUME HeldAfter(r, i, l), i <= n, ~Held(q, l) PROVE HeldAfter(p, i, l)
    <2>1. PICK k \in DOMAIN r : /\ i < k /\ r[k].op = "release" /\ r[k].lock = l
                                /\ \A j \in DOMAIN r : i < j /\ j < k => r[j].lock # l
      BY <1>5 DEF HeldAfter
    <2>2. k \in DOMAIN p
      <3> SUFFICES ASSUME k \notin DOMAIN p PROVE FALSE
        OBVIOUS
      <3>1. k - n \in DOMAIN q /\ 0 < k - n /\ (k - n) + n = k
        BY <1>1
      <3>2. q[k - n] = r[k]
        BY <1>1, <3>1
      <3>3. ASSUME NEW j \in DOMAIN q, 0 < j, j < k - n PROVE q[j].lock # l
        <4>1. j + n \in DOMAIN r /\ i < j + n /\ j + n < k /\ r[j + n] = q[j]
          BY <1>1, <1>5, <3>3
        <4>2. QED
          BY <2>1, <4>1
      <3>4. Held(q, l)
        BY <2>1, <3>1, <3>2, <3>3 DEF Held, HeldAfter
      <3>5. QED
        BY <1>5, <3>4
    <2>3. p[k] = r[k] /\ \A j \in DOMAIN p : i < j /\ j < k => p[j].lock # l
      BY <1>1, <2>1, <2>2
    <2>4. QED
      BY <2>1, <2>2, <2>3 DEF HeldAfter
  <1>6. QED
    BY <1>2, <1>3, <1>4, <1>5 DEF r, n

\* Balanced programs one after the other are balanced.
LEMMA ConcatBalanced ==
    ASSUME NEW S, NEW p \in Seq(S), NEW q \in Seq(S), Balanced(p), Balanced(q)
    PROVE  Balanced(p \o q)
  <1> DEFINE r == p \o q
             n == Len(p)
  <1>1. /\ n \in Nat /\ DOMAIN p = 1..n
        /\ \A j \in DOMAIN p : r[j] = p[j]
        /\ \A j \in DOMAIN q : r[j + n] = q[j]
        /\ DOMAIN q = 1..Len(q) /\ Len(q) \in Nat
        /\ \A j \in DOMAIN r : j \in DOMAIN p \/ (j - n \in DOMAIN q /\ j > n)
        /\ DOMAIN r = 1..(n + Len(q))
    BY ConcatItems
  <1>2. \A l \in Lock, i \in Nat : HeldAfter(r, i + n, l) <=> HeldAfter(q, i, l)
    BY ConcatHeldAfter
  <1>3. \A l \in Lock, i \in Nat :
           i <= n => (HeldAfter(r, i, l) <=> HeldAfter(p, i, l))
    BY ConcatHeldAfter DEF Balanced
  <1> HIDE DEF r, n
  <1>4. ASSUME NEW i \in DOMAIN r, r[i].lock \in Lock
        PROVE  r[i].op # "release" <=> HeldAfter(r, i, r[i].lock)
    <2>1. CASE i \in DOMAIN p
      <3>1. r[i] = p[i] /\ i \in Nat /\ i <= n
        BY <1>1, <2>1
      <3>2. p[i].op # "release" <=> HeldAfter(p, i, p[i].lock)
        BY <1>4, <2>1, <3>1 DEF Balanced, Alternates
      <3>3. QED
        BY <1>3, <1>4, <3>1, <3>2
    <2>2. CASE i - n \in DOMAIN q /\ i > n
      <3> DEFINE k == i - n
      <3>1. k \in Nat /\ k + n = i /\ k \in DOMAIN q
        BY <1>1, <2>2
      <3>2. r[i] = q[k]
        BY <1>1, <3>1
      <3> HIDE DEF k
      <3>3. q[k].op # "release" <=> HeldAfter(q, k, q[k].lock)
        BY <1>4, <3>1, <3>2 DEF Balanced, Alternates
      <3>4. HeldAfter(r, k + n, r[i].lock) <=> HeldAfter(q, k, r[i].lock)
        BY <1>2, <1>4, <3>1
      <3>5. QED
        BY <3>1, <3>2, <3>3, <3>4
    <2>3. QED
      BY <1>1, <2>1, <2>2
  <1>5. ASSUME NEW l \in Lock PROVE ~Held(r, l)
    <2>1. HeldAfter(r, 0, l) <=> HeldAfter(p, 0, l)
      BY <1>1, <1>3
    <2>2. QED
      BY <2>1 DEF Held, Balanced
  <1>6. QED
    BY <1>4, <1>5 DEF r, Balanced, Alternates

\* The operations of a guarded body.
LEMMA HoldItems ==
    ASSUME NEW O, NEW body \in Seq(O), NEW o, NEW l, On(o, l) \in O, On("release", l) \in O
    PROVE  /\ Hold(o, l, body) \in Seq(O)
           /\ Len(body) \in Nat /\ DOMAIN body = 1..Len(body)
           /\ DOMAIN Hold(o, l, body) = 1..(Len(body) + 2)
           /\ Hold(o, l, body)[1] = On(o, l)
           /\ \A i \in DOMAIN body : Hold(o, l, body)[i + 1] = body[i]
           /\ Hold(o, l, body)[Len(body) + 2] = On("release", l)
  <1> DEFINE a == <<On(o, l)>>
             z == <<On("release", l)>>
             h == a \o body
             n == Len(body)
  <1>1. /\ a \in Seq(O) /\ Len(a) = 1 /\ a[1] = On(o, l) /\ DOMAIN a = {1}
        /\ z \in Seq(O) /\ Len(z) = 1 /\ z[1] = On("release", l) /\ DOMAIN z = {1}
    OBVIOUS
  <1>2. n \in Nat /\ DOMAIN body = 1..n
    OBVIOUS
  <1> HIDE DEF a, z, n
  <1>3. /\ h \in Seq(O) /\ Len(h) = n + 1 /\ DOMAIN h = 1..(n + 1)
        /\ h[1] = On(o, l) /\ \A i \in DOMAIN body : i + 1 \in DOMAIN h /\ h[i + 1] = body[i]
    <2>1. /\ h \in Seq(O) /\ Len(h) = Len(a) + Len(body)
          /\ \A i \in DOMAIN a : h[i] = a[i]
          /\ \A i \in DOMAIN body : i + Len(a) \in DOMAIN h /\ h[i + Len(a)] = body[i]
          /\ DOMAIN h = 1..(Len(a) + Len(body))
      BY <1>1, ConcatItems
    <2> HIDE DEF h
    <2>2. Len(h) = n + 1 /\ DOMAIN h = 1..(n + 1)
      BY <1>1, <1>2, <2>1 DEF n
    <2>3. QED
      BY <1>1, <2>1, <2>2
  <1> HIDE DEF h
  <1>4. /\ h \o z \in Seq(O) /\ DOMAIN (h \o z) = 1..(n + 2)
        /\ \A i \in DOMAIN h : (h \o z)[i] = h[i]
        /\ (h \o z)[n + 2] = z[1]
    <2>1. /\ h \o z \in Seq(O)
          /\ \A i \in DOMAIN h : (h \o z)[i] = h[i]
          /\ \A i \in DOMAIN z : (h \o z)[i + Len(h)] = z[i]
          /\ DOMAIN (h \o z) = 1..(Len(h) + Len(z))
      <3>1. h \in Seq(O) /\ z \in Seq(O)
        BY <1>1, <1>3
      <3>2. QED
        BY <3>1, ConcatItems
    <2>2. Len(h) + Len(z) = n + 2 /\ 1 + Len(h) = n + 2
      BY <1>1, <1>2, <1>3
    <2>3. (h \o z)[1 + Len(h)] = z[1]
      BY <1>1, <2>1
    <2>4. QED
      BY <2>1, <2>2, <2>3
  <1>5. Hold(o, l, body) = h \o z
    BY DEF Hold, h, a, z
  <1>6. 1 \in DOMAIN h
    BY <1>2, <1>3
  <1>7. QED
    BY <1>1, <1>2, <1>3, <1>4, <1>5, <1>6 DEF n

\* A body that leaves the lock alone, under a guard.
LEMMA HoldBalanced ==
    ASSUME NEW O, NEW body \in Seq(O), Balanced(body),
           NEW o \in {"acquire", "try"}, NEW l \in Lock,
           On(o, l) \in O, On("release", l) \in O,
           \A i \in DOMAIN body : body[i].lock # l
    PROVE  Balanced(Hold(o, l, body))
  <1> DEFINE p == Hold(o, l, body)
             n == Len(body)
  <1>1. /\ p \in Seq(O) /\ n \in Nat /\ DOMAIN body = 1..n /\ DOMAIN p = 1..(n + 2)
        /\ p[1] = On(o, l) /\ p[n + 2] = On("release", l)
        /\ \A i \in DOMAIN body : p[i + 1] = body[i]
    BY HoldItems
  <1>2. /\ p[1].op = o /\ p[1].lock = l /\ p[n + 2].op = "release" /\ p[n + 2].lock = l
        /\ o # "release"
    BY <1>1 DEF On
  <1> HIDE DEF p, n
  <1>3. \A i \in DOMAIN p : i = 1 \/ i = n + 2 \/ (i - 1 \in DOMAIN body /\ p[i] = body[i - 1])
    <2> SUFFICES ASSUME NEW i \in DOMAIN p, i # 1, i # n + 2
                 PROVE  i - 1 \in DOMAIN body /\ p[i] = body[i - 1]
      OBVIOUS
    <2>1. i - 1 \in DOMAIN body /\ (i - 1) + 1 = i
      BY <1>1
    <2>2. QED
      BY <1>1, <2>1
  <1>4. \A i \in DOMAIN p : i # 1 /\ i # n + 2 => p[i].lock # l
    BY <1>3
  \* Another lock is held where it is held in the body.
  <1>5. ASSUME NEW m \in Lock, m # l, NEW i \in Nat, HeldAfter(p, i + 1, m)
        PROVE  HeldAfter(body, i, m)
    <2>1. PICK k \in DOMAIN p : /\ i + 1 < k /\ p[k].op = "release" /\ p[k].lock = m
                                /\ \A j \in DOMAIN p : i + 1 < j /\ j < k => p[j].lock # m
      BY <1>5 DEF HeldAfter
    <2>2. k # 1 /\ k # n + 2
      BY <1>1, <1>2, <1>5, <2>1
    <2>3. k - 1 \in DOMAIN body /\ p[k] = body[k - 1] /\ i < k - 1
      BY <1>1, <1>3, <2>1, <2>2
    <2>4. ASSUME NEW j \in DOMAIN body, i < j, j < k - 1 PROVE body[j].lock # m
      <3>1. j + 1 \in DOMAIN p /\ i + 1 < j + 1 /\ j + 1 < k /\ p[j + 1] = body[j]
        BY <1>1, <2>1, <2>4
      <3>2. QED
        BY <2>1, <3>1
    <2>5. QED
      BY <2>1, <2>3, <2>4 DEF HeldAfter
  <1>6. ASSUME NEW m \in Lock, m # l, NEW i \in Nat, HeldAfter(body, i, m)
        PROVE  HeldAfter(p, i + 1, m)
    <2>1. PICK k \in DOMAIN body : /\ i < k /\ body[k].op = "release" /\ body[k].lock = m
                                   /\ \A j \in DOMAIN body : i < j /\ j < k => body[j].lock # m
      BY <1>6 DEF HeldAfter
    <2>2. k + 1 \in DOMAIN p /\ i + 1 < k + 1 /\ p[k + 1] = body[k]
      BY <1>1, <2>1
    <2>3. ASSUME NEW j \in DOMAIN p, i + 1 < j, j < k + 1 PROVE p[j].lock # m
      <3>1. j # 1 /\ j # n + 2
        BY <1>1, <2>1, <2>3
      <3>2. j - 1 \in DOMAIN body /\ p[j] = body[j - 1] /\ i < j - 1 /\ j - 1 < k
        BY <1>1, <1>3, <2>1, <2>3, <3>1
      <3>3. QED
        BY <2>1, <3>2
    <2>4. QED
      BY <2>1, <2>2, <2>3 DEF HeldAfter
  <1>7. ASSUME NEW i \in DOMAIN p, p[i].lock \in Lock
        PROVE  p[i].op # "release" <=> HeldAfter(p, i, p[i].lock)
    <2>1. CASE i = 1
      <3>1. n + 2 \in DOMAIN p /\ 1 < n + 2
        BY <1>1
      <3>2. \A j \in DOMAIN p : 1 < j /\ j < n + 2 => p[j].lock # l
        BY <1>1, <1>4
      <3>3. HeldAfter(p, 1, l)
        BY <1>2, <3>1, <3>2 DEF HeldAfter
      <3>4. QED
        BY <1>2, <2>1, <3>3
    <2>2. CASE i = n + 2
      <3>1. \A k \in DOMAIN p : ~(n + 2 < k)
        BY <1>1
      <3>2. QED
        BY <1>2, <2>2, <3>1 DEF HeldAfter
    <2>3. CASE i # 1 /\ i # n + 2
      <3> DEFINE k == i - 1
      <3>1. k \in DOMAIN body /\ p[i] = body[k] /\ k \in Nat /\ k + 1 = i
        BY <1>1, <1>3, <2>3
      <3> HIDE DEF k
      <3>2. body[k].op # "release" <=> HeldAfter(body, k, body[k].lock)
        BY <1>7, <3>1 DEF Balanced, Alternates
      <3>3. p[i].lock # l
        BY <1>4, <2>3
      <3>4. HeldAfter(p, k + 1, p[i].lock) <=> HeldAfter(body, k, p[i].lock)
        BY <1>5, <1>6, <1>7, <3>1, <3>3
      <3>5. QED
        BY <3>1, <3>2, <3>4
    <2>4. QED
      BY <2>1, <2>2, <2>3
  <1>8. ASSUME NEW m \in Lock, Held(p, m) PROVE FALSE
    <2>1. PICK k \in DOMAIN p : /\ 0 < k /\ p[k].op = "release" /\ p[k].lock = m
                                /\ \A j \in DOMAIN p : 0 < j /\ j < k => p[j].lock # m
      BY <1>8 DEF Held, HeldAfter
    <2>2. k # 1 /\ 1 \in DOMAIN p /\ 1 < k
      BY <1>1, <1>2, <2>1
    <2>3. m # l
      BY <1>2, <2>1, <2>2
    <2>4. HeldAfter(p, 0 + 1, m)
      <3>1. \A j \in DOMAIN p : 0 + 1 < j /\ j < k => p[j].lock # m
        BY <1>1, <2>1
      <3>2. 0 + 1 < k
        BY <2>2
      <3>3. QED
        BY <2>1, <3>1, <3>2 DEF HeldAfter
    <2>5. HeldAfter(body, 0, m)
      BY <1>5, <2>3, <2>4
    <2>6. QED
      BY <2>5 DEF Balanced, Held
  <1>9. QED
    BY <1>7, <1>8 DEF p, Balanced, Alternates

\* A balanced program of operations in O on what is in L.
Piece(p, O, L) == p \in Seq(O) /\ Balanced(p) /\ \A i \in DOMAIN p : p[i].lock \in L

\* Nothing, and one operation that is not on a lock.
LEMMA SmallPieces ==
    ASSUME NEW O, NEW L
    PROVE  /\ Piece(<<>>, O, L)
           /\ \A x \in O : x.lock \in L \ Lock => Piece(<<x>>, O, L)
  <1>1. Piece(<<>>, O, L)
    BY DEF Piece, Balanced, Alternates, Held, HeldAfter
  <1>2. ASSUME NEW x \in O, x.lock \in L \ Lock PROVE Piece(<<x>>, O, L)
    <2>1. <<x>> \in Seq(O) /\ DOMAIN <<x>> = {1} /\ <<x>>[1] = x
      OBVIOUS
    <2> DEFINE p == <<x>>
    <2> HIDE DEF p
    <2>2. p \in Seq(O) /\ DOMAIN p = {1} /\ p[1] = x
      BY <2>1 DEF p
    <2>3. \A l \in Lock : ~HeldAfter(p, 0, l)
      BY <1>2, <2>2 DEF HeldAfter
    <2>4. Alternates(p)
      BY <1>2, <2>2 DEF Alternates
    <2>5. Piece(p, O, L)
      BY <1>2, <2>2, <2>3, <2>4 DEF Piece, Balanced, Held
    <2>6. QED
      BY <2>5 DEF p
  <1>3. QED
    BY <1>1, <1>2

\* Two pieces one after the other.
LEMMA ConcatPiece ==
    ASSUME NEW O, NEW L, NEW p, NEW q, Piece(p, O, L), Piece(q, O, L)
    PROVE  Piece(p \o q, O, L)
  <1>1. p \in Seq(O) /\ q \in Seq(O)
    BY DEF Piece
  <1>2. Balanced(p \o q)
    BY <1>1, ConcatBalanced DEF Piece
  <1>3. /\ p \o q \in Seq(O) /\ Len(p) \in Nat
        /\ \A i \in DOMAIN p : (p \o q)[i] = p[i]
        /\ \A i \in DOMAIN q : (p \o q)[i + Len(p)] = q[i]
        /\ \A i \in DOMAIN (p \o q) :
              i \in DOMAIN p \/ (i - Len(p) \in DOMAIN q /\ i > Len(p))
        /\ DOMAIN (p \o q) \subseteq Nat
    BY <1>1, ConcatItems
  <1>4. ASSUME NEW i \in DOMAIN (p \o q) PROVE (p \o q)[i].lock \in L
    <2>1. CASE i \in DOMAIN p
      BY <1>3, <2>1 DEF Piece
    <2>2. CASE i - Len(p) \in DOMAIN q
      <3>1. (i - Len(p)) + Len(p) = i
        BY <1>3
      <3>2. (p \o q)[i] = q[i - Len(p)]
        BY <1>3, <2>2, <3>1
      <3>3. QED
        BY <2>2, <3>2 DEF Piece
    <2>3. QED
      BY <1>3, <2>1, <2>2
  <1>5. QED
    BY <1>2, <1>3, <1>4 DEF Piece

\* A guard around a piece that leaves its lock alone.
LEMMA HoldPiece ==
    ASSUME NEW O, NEW L, NEW M, NEW body, Piece(body, O, L),
           NEW o \in {"acquire", "try"}, NEW l \in Lock \ L,
           On(o, l) \in O, On("release", l) \in O, L \subseteq M, l \in M
    PROVE  Piece(Hold(o, l, body), O, M)
  <1> DEFINE p == Hold(o, l, body)
             n == Len(body)
  <1>1. body \in Seq(O) /\ Balanced(body) /\ \A i \in DOMAIN body : body[i].lock # l
    BY DEF Piece
  <1>2. Balanced(p)
    BY <1>1, HoldBalanced
  <1>3. /\ p \in Seq(O) /\ n \in Nat /\ DOMAIN body = 1..n /\ DOMAIN p = 1..(n + 2)
        /\ p[1] = On(o, l) /\ p[n + 2] = On("release", l)
        /\ \A i \in DOMAIN body : p[i + 1] = body[i]
    BY <1>1, HoldItems
  <1> HIDE DEF p, n
  <1>4. ASSUME NEW i \in DOMAIN p PROVE p[i].lock \in M
    <2>1. CASE i = 1 \/ i = n + 2
      BY <1>3, <2>1 DEF On
    <2>2. CASE i # 1 /\ i # n + 2
      <3>1. i - 1 \in DOMAIN body /\ (i - 1) + 1 = i
        BY <1>3, <2>2
      <3>2. p[i] = body[i - 1]
        BY <1>3, <3>1
      <3>3. QED
        BY <3>1, <3>2 DEF Piece
    <2>3. QED
      BY <2>1, <2>2
  <1>5. QED
    BY <1>2, <1>3, <1>4 DEF Piece, p

-----------------------------------------------------------------------------
(* Masking, put together *)

\* Where the scheduler's lock does not occur there is nothing to mask.
LEMMA NoScheduler ==
    ASSUME NEW p, \A i \in DOMAIN p : p[i].lock # "SCHEDULER"
    PROVE  Masks(p, TRUE) /\ ~Held(p, "SCHEDULER")
  BY DEF Masks, Held, HeldAfter

\* Two programs that mask what they do.
LEMMA ConcatMasks ==
    ASSUME NEW S, NEW p \in Seq(S), NEW q \in Seq(S), Masks(p, TRUE), Masks(q, TRUE),
           ~Held(q, "SCHEDULER")
    PROVE  Masks(p \o q, TRUE)
  <1> DEFINE r == p \o q
             n == Len(p)
  <1>1. /\ n \in Nat /\ Len(q) \in Nat
        /\ DOMAIN p = 1..n /\ DOMAIN q = 1..Len(q) /\ DOMAIN r = 1..(n + Len(q))
        /\ \A j \in DOMAIN p : j \in DOMAIN r /\ r[j] = p[j]
        /\ \A j \in DOMAIN q : j + n \in DOMAIN r /\ r[j + n] = q[j]
        /\ \A j \in DOMAIN r : j \in DOMAIN p \/ (j - n \in DOMAIN q /\ j > n)
    BY ConcatItems
  <1>2. \A i \in Nat : /\ HeldAfter(r, i + n, "SCHEDULER") <=> HeldAfter(q, i, "SCHEDULER")
                       /\ i <= n => (HeldAfter(r, i, "SCHEDULER") <=> HeldAfter(p, i, "SCHEDULER"))
    BY ConcatHeldAfter
  <1> HIDE DEF r, n
  <1> SUFFICES ASSUME NEW i \in DOMAIN r, HeldAfter(r, i - 1, "SCHEDULER")
               PROVE  MaskedAt(r, TRUE, i)
    BY DEF Masks, r
  <1>3. CASE i \in DOMAIN p
    <2>1. i - 1 \in Nat /\ i - 1 <= n
      BY <1>1, <1>3
    <2>2. MaskedAt(p, TRUE, i)
      BY <1>2, <1>3, <2>1 DEF Masks
    <2>3. PICK k \in DOMAIN p : /\ k < i /\ p[k].op = "cli"
                                /\ \A j \in DOMAIN p : k < j /\ j < i => p[j].op # "sti"
      BY <2>2 DEF MaskedAt
    <2>4. k \in DOMAIN r /\ r[k].op = "cli"
      BY <1>1, <2>3
    <2>5. \A j \in DOMAIN r : k < j /\ j < i => j \in DOMAIN p /\ r[j] = p[j]
      BY <1>1, <1>3
    <2>6. QED
      BY <2>3, <2>4, <2>5 DEF MaskedAt
  <1>4. CASE i - n \in DOMAIN q /\ i > n
    <2> DEFINE m == i - n
    <2>1. m \in DOMAIN q /\ m - 1 \in Nat /\ (m - 1) + n = i - 1 /\ m + n = i
      BY <1>1, <1>4
    <2> HIDE DEF m
    <2>2. HeldAfter(q, m - 1, "SCHEDULER")
      BY <1>2, <2>1
    <2>3. MaskedAt(q, TRUE, m)
      BY <2>1, <2>2 DEF Masks
    <2>4. PICK k \in DOMAIN q : /\ k < m /\ q[k].op = "cli"
                                /\ \A j \in DOMAIN q : k < j /\ j < m => q[j].op # "sti"
      BY <2>3 DEF MaskedAt
    <2>5. k + n \in DOMAIN r /\ k + n < i /\ r[k + n].op = "cli"
      BY <1>1, <2>1, <2>4
    <2>6. ASSUME NEW j \in DOMAIN r, k + n < j, j < i PROVE r[j].op # "sti"
      <3>1. j - n \in DOMAIN q /\ k < j - n /\ j - n < m /\ (j - n) + n = j
        BY <1>1, <2>1, <2>6
      <3>2. r[j] = q[j - n]
        BY <1>1, <3>1
      <3>3. QED
        BY <2>4, <3>1, <3>2
    <2>7. QED
      BY <2>5, <2>6 DEF MaskedAt
  <1>5. QED
    BY <1>1, <1>3, <1>4

\* without_interrupts: what follows a cli and has no sti is masked.
LEMMA CliMasks ==
    ASSUME NEW S, NEW p \in Seq(S), Op("cli") \in S, ~Held(p, "SCHEDULER"),
           \A i \in DOMAIN p : p[i].op # "sti"
    PROVE  Masks(<<Op("cli")>> \o p, TRUE)
  <1> DEFINE a == <<Op("cli")>>
             r == a \o p
  <1>1. a \in Seq(S) /\ Len(a) = 1 /\ DOMAIN a = {1} /\ a[1].op = "cli" /\ a[1].lock = "none"
    BY DEF Op
  <1> HIDE DEF a
  <1>2. /\ Len(p) \in Nat /\ DOMAIN p = 1..Len(p)
        /\ \A j \in DOMAIN a : j \in DOMAIN r /\ r[j] = a[j]
        /\ \A j \in DOMAIN p : j + Len(a) \in DOMAIN r /\ r[j + Len(a)] = p[j]
        /\ DOMAIN r = 1..(Len(a) + Len(p))
    BY <1>1, ConcatItems
  <1>3. HeldAfter(r, 0, "SCHEDULER") <=> HeldAfter(a, 0, "SCHEDULER")
    BY <1>1, ConcatHeldAfter
  <1>4. ~HeldAfter(r, 0, "SCHEDULER")
    BY <1>1, <1>3 DEF HeldAfter
  <1> HIDE DEF r
  <1> SUFFICES ASSUME NEW i \in DOMAIN r, HeldAfter(r, i - 1, "SCHEDULER")
               PROVE  MaskedAt(r, TRUE, i)
    BY DEF Masks, r, a
  <1>5. i # 1
    <2>1. i = 1 => i - 1 = 0
      OBVIOUS
    <2>2. QED
      BY <1>4, <2>1
  <1>6. 1 \in DOMAIN r /\ 1 < i /\ r[1].op = "cli"
    BY <1>1, <1>2, <1>5
  <1>7. ASSUME NEW j \in DOMAIN r, 1 < j PROVE r[j].op # "sti"
    <2>1. j - 1 \in DOMAIN p /\ (j - 1) + Len(a) = j
      BY <1>1, <1>2, <1>7
    <2>2. r[j] = p[j - 1]
      BY <1>2, <2>1
    <2>3. QED
      BY <2>1, <2>2
  <1>8. QED
    BY <1>6, <1>7 DEF MaskedAt

-----------------------------------------------------------------------------
(* The programs of the kernel *)

\* Taking and releasing a lock are operations on it.
LEMMA LockOps ==
    ASSUME NEW L, NEW l \in L
    PROVE  On("acquire", l) \in LockOp(L) /\ On("release", l) \in LockOp(L)
  BY DEF On, LockOp

\* With around a piece, for a set of operations that has those on all locks.
LEMMA WithPiece ==
    ASSUME NEW O, LockOp(Lock) \subseteq O, NEW L, NEW M, NEW body, Piece(body, O, L),
           NEW l \in Lock \ L, L \subseteq M, l \in M
    PROVE  Piece(With(l, body), O, M)
  <1>1. On("acquire", l) \in O /\ On("release", l) \in O
    BY LockOps
  <1>2. Piece(Hold("acquire", l, body), O, M)
    BY <1>1, HoldPiece
  <1>3. QED
    BY <1>2 DEF With

\* Allocations, and drawing a glyph.
LEMMA DrawPieces ==
    ASSUME NEW O, LockOp(Lock) \subseteq O
    PROVE  /\ Piece(Alloc, O, {"ALLOCATOR"})
           /\ Piece(Alloc, O, {"ALLOCATOR", "FRAMEBUFFER"})
           /\ Piece(Redraw, O, {"ALLOCATOR", "FRAMEBUFFER"})
           /\ Piece(DrawGlyph, O, {"ALLOCATOR", "FRAMEBUFFER"})
  <1> DEFINE D == {"ALLOCATOR", "FRAMEBUFFER"}
  <1>1. Piece(<<>>, O, {})
    BY SmallPieces
  <1>2. "ALLOCATOR" \in Lock \ {} /\ "FRAMEBUFFER" \in Lock \ {}
    BY DEF Lock
  <1>3. Piece(Alloc, O, {"ALLOCATOR"})
    BY <1>1, <1>2, WithPiece DEF Alloc
  <1>4. Piece(Alloc, O, D)
    BY <1>1, <1>2, WithPiece DEF Alloc
  <1>5. Piece(Redraw, O, D)
    BY <1>1, <1>2, WithPiece DEF Redraw
  <1>6. Piece(Alloc \o Redraw, O, D)
    BY <1>4, <1>5, ConcatPiece
  <1>7. Piece((Alloc \o Redraw) \o Alloc, O, D)
    BY <1>4, <1>6, ConcatPiece
  <1>8. QED
    BY <1>3, <1>4, <1>5, <1>7 DEF DrawGlyph, Redraw

\* Tty::handle_input.
LEMMA InputPieces ==
    ASSUME NEW O, LockOp(Lock) \subseteq O, NEW i \in HandleInput
    PROVE  Piece(i, O, {"ALLOCATOR", "FRAMEBUFFER", "CONSOLE"})
  <1> DEFINE D == {"ALLOCATOR", "FRAMEBUFFER"}
             C == {"ALLOCATOR", "FRAMEBUFFER", "CONSOLE"}
  <1>1. /\ Piece(<<>>, O, {}) /\ Piece(<<>>, O, C)
        /\ Piece(Redraw, O, D) /\ Piece(DrawGlyph, O, D)
    BY SmallPieces, DrawPieces
  <1>2. /\ "CONSOLE" \in Lock \ D /\ D \subseteq C /\ "CONSOLE" \in C
        /\ "ALLOCATOR" \in Lock \ {} /\ {} \subseteq C /\ "ALLOCATOR" \in C
    BY DEF Lock
  <1> HIDE DEF C, D
  <1>3. Piece(Alloc, O, C)
    BY <1>1, <1>2, WithPiece DEF Alloc
  <1>4. Piece(With("CONSOLE", DrawGlyph), O, C) /\ Piece(With("CONSOLE", Redraw), O, C)
    BY <1>1, <1>2, WithPiece
  <1>5. /\ Piece(Alloc \o With("CONSOLE", DrawGlyph), O, C)
        /\ Piece(Alloc \o With("CONSOLE", Redraw), O, C)
    BY <1>3, <1>4, ConcatPiece
  <1>6. QED
    BY <1>1, <1>4, <1>5, Zenon DEF HandleInput, C

\* What an interrupt handler and a system call are.
Handler(p) == Piece(p, IrqOp, Lock \cup {"none"}) /\ OnlyLast(p, "switch")
Call(p) == Piece(p, UserOp, Lock \cup {"none"}) /\ LocksFirst(p)

\* A piece that only takes and releases locks, before the operation that ends
\* a handler.
LEMMA EndHandler ==
    ASSUME NEW p, Piece(p, IrqOp, Lock), NEW x \in [op: {"switch", "iret"}, lock: {"none"}]
    PROVE  Handler(p \o <<x>>)
  <1> DEFINE z == <<x>>
  <1>1. x \in IrqOp /\ x.lock = "none" /\ "none" \notin Lock
    BY DEF IrqOp, Lock
  <1>2. Piece(z, IrqOp, Lock \cup {"none"})
    BY <1>1, SmallPieces
  <1>3. Piece(p, IrqOp, Lock \cup {"none"})
    BY DEF Piece
  <1>4. Piece(p \o z, IrqOp, Lock \cup {"none"})
    BY <1>2, <1>3, ConcatPiece
  <1>5. z \in Seq(IrqOp) /\ Len(z) = 1 /\ p \in Seq(IrqOp)
    BY <1>1 DEF Piece
  <1> HIDE DEF z
  <1>6. /\ Len(p) \in Nat /\ Len(p \o z) = Len(p) + Len(z)
        /\ \A i \in DOMAIN p : (p \o z)[i] = p[i]
        /\ DOMAIN (p \o z) = 1..(Len(p) + Len(z)) /\ DOMAIN p = 1..Len(p)
    <2>1. ASSUME NEW v \in Seq(IrqOp), NEW w \in Seq(IrqOp)
          PROVE  /\ Len(v) \in Nat /\ Len(v \o w) = Len(v) + Len(w)
                 /\ \A i \in DOMAIN v : (v \o w)[i] = v[i]
                 /\ DOMAIN (v \o w) = 1..(Len(v) + Len(w)) /\ DOMAIN v = 1..Len(v)
      BY ConcatItems
    <2>2. QED
      BY <1>5, <2>1, Zenon
  <1>7. ASSUME NEW i \in DOMAIN p PROVE p[i].op # "switch"
    <2>1. p[i] \in IrqOp /\ p[i].lock \in Lock
      BY <1>5 DEF Piece
    <2>2. QED
      BY <2>1 DEF IrqOp, LockOp, Lock
  <1>8. OnlyLast(p \o z, "switch")
    BY <1>5, <1>6, <1>7 DEF OnlyLast
  <1>9. QED
    BY <1>4, <1>8 DEF Handler, z

\* The part of timer_tick under the scheduler's lock.
LEMMA TickPiece ==
    ASSUME NEW drop \in {<<>>, Alloc}
    PROVE  Piece(Hold("try", "SCHEDULER", With("PROCESS", <<>>) \o drop), IrqOp, Lock)
  <1> DEFINE L == {"PROCESS", "ALLOCATOR"}
  <1>1. LockOp(Lock) \subseteq IrqOp
    BY DEF IrqOp
  <1>2. /\ "PROCESS" \in Lock \ {} /\ "ALLOCATOR" \in Lock \ {} /\ {} \subseteq L
        /\ "PROCESS" \in L /\ "ALLOCATOR" \in L
        /\ "SCHEDULER" \in Lock \ L /\ L \subseteq Lock /\ "SCHEDULER" \in Lock
    BY DEF Lock
  <1>3. Piece(<<>>, IrqOp, {}) /\ Piece(<<>>, IrqOp, L)
    BY SmallPieces
  <1> HIDE DEF L
  <1>4. Piece(Alloc, IrqOp, L) /\ Piece(With("PROCESS", <<>>), IrqOp, L)
    BY <1>1, <1>2, <1>3, WithPiece DEF Alloc
  <1>5. Piece(drop, IrqOp, L)
    BY <1>3, <1>4, Zenon
  <1>6. Piece(With("PROCESS", <<>>) \o drop, IrqOp, L)
    BY <1>4, <1>5, ConcatPiece
  <1>7. On("try", "SCHEDULER") \in IrqOp /\ On("release", "SCHEDULER") \in IrqOp
    BY <1>2 DEF IrqOp, LockOp, On
  <1>8. QED
    BY <1>2, <1>6, <1>7, HoldPiece

\* Every interrupt handler begins and ends without a lock and ends with its
\* return.
LEMMA Handlers ==
    /\ Handler(TimerHandler) /\ Handler(YieldHandler) /\ Handler(ExitHandler)
    /\ \A p \in KeyboardHandlers : Handler(p)
  <1> DEFINE sw == <<Op("switch")>>
             held(drop) == Hold("try", "SCHEDULER", With("PROCESS", <<>>) \o drop)
             lapic == With("LAPIC", <<>>)
             T == {"ALLOCATOR", "FRAMEBUFFER", "CONSOLE", "TTY", "KEYBOARD_BUFFER", "LAPIC"}
             C == {"ALLOCATOR", "FRAMEBUFFER", "CONSOLE"}
  <1>1. LockOp(Lock) \subseteq IrqOp
    BY DEF IrqOp
  <1>2. /\ Op("switch") \in [op: {"switch", "iret"}, lock: {"none"}]
        /\ Op("iret") \in [op: {"switch", "iret"}, lock: {"none"}]
    BY DEF Op
  <1>3. Piece(<<>>, IrqOp, {})
    BY SmallPieces
  <1>4. /\ "LAPIC" \in Lock \ {} /\ "LAPIC" \in Lock /\ {} \subseteq Lock
        /\ {} \subseteq T /\ "LAPIC" \in T
        /\ "KEYBOARD_BUFFER" \in Lock \ {} /\ "KEYBOARD_BUFFER" \in T
        /\ "TTY" \in Lock \ C /\ C \subseteq T /\ "TTY" \in T
        /\ "KEYBOARD" \in Lock \ T /\ T \subseteq Lock /\ "KEYBOARD" \in Lock
    BY DEF Lock
  <1>5. Piece(held(<<>>), IrqOp, Lock) /\ Piece(held(Alloc), IrqOp, Lock)
    BY TickPiece, Zenon
  <1>6. ASSUME NEW i \in HandleInput PROVE Piece(i, IrqOp, C)
    BY <1>1, <1>6, InputPieces
  <1> HIDE DEF C, T, held
  <1>7. Piece(lapic, IrqOp, Lock) /\ Piece(lapic, IrqOp, T)
    BY <1>1, <1>3, <1>4, WithPiece
  <1>8. Handler(YieldHandler) /\ Handler(ExitHandler)
    <2>1. Handler(held(<<>>) \o sw) /\ Handler(held(Alloc) \o sw)
      BY <1>2, <1>5, EndHandler
    <2>2. QED
      BY <2>1 DEF YieldHandler, ExitHandler, Tick, held
  <1>9. Handler(TimerHandler)
    <2>1. Piece(lapic \o held(<<>>), IrqOp, Lock)
      BY <1>5, <1>7, ConcatPiece
    <2>2. Handler((lapic \o held(<<>>)) \o sw)
      BY <1>2, <2>1, EndHandler
    <2>3. lapic \in Seq(IrqOp) /\ held(<<>>) \in Seq(IrqOp)
      BY <1>5, <1>7 DEF Piece
    <2>4. sw \in Seq(IrqOp)
      BY <1>2 DEF IrqOp
    <2> HIDE DEF lapic, sw
    <2>5. (lapic \o held(<<>>)) \o sw = lapic \o (held(<<>>) \o sw)
      BY <2>3, <2>4, ConcatAssociative
    <2>6. QED
      BY <2>2, <2>5 DEF TimerHandler, Tick, lapic, sw, held
  <1>10. ASSUME NEW i \in HandleInput
         PROVE  Handler(With("KEYBOARD", With("TTY", i) \o With("KEYBOARD_BUFFER", <<>>)
                                             \o lapic) \o <<Op("iret")>>)
    <2> DEFINE tty == With("TTY", i)
               buf == With("KEYBOARD_BUFFER", <<>>)
    <2>1. Piece(tty, IrqOp, T)
      BY <1>1, <1>4, <1>6, WithPiece
    <2>2. Piece(buf, IrqOp, T)
      BY <1>1, <1>3, <1>4, WithPiece
    <2> HIDE DEF tty, buf, lapic
    <2>3. Piece(tty \o buf, IrqOp, T)
      BY <2>1, <2>2, ConcatPiece
    <2>4. Piece(tty \o buf \o lapic, IrqOp, T)
      BY <1>7, <2>3, ConcatPiece
    <2>5. Piece(With("KEYBOARD", tty \o buf \o lapic), IrqOp, Lock)
      BY <1>1, <1>4, <2>4, WithPiece
    <2>6. QED
      BY <1>2, <2>5, EndHandler DEF tty, buf
  <1>11. Handler(With("KEYBOARD", lapic) \o <<Op("iret")>>)
    <2> HIDE DEF lapic
    <2>1. Piece(With("KEYBOARD", lapic), IrqOp, Lock)
      BY <1>1, <1>4, <1>7, WithPiece
    <2>2. QED
      BY <1>2, <2>1, EndHandler
  <1>12. \A p \in KeyboardHandlers : Handler(p)
    <2> HIDE DEF Handler
    <2>1. QED
      BY <1>10, <1>11, Zenon DEF KeyboardHandlers
  <1>13. QED
    BY <1>8, <1>9, <1>12

\* A piece that only takes and releases locks, before the operation that ends
\* a system call.
LEMMA EndCall ==
    ASSUME NEW p, Piece(p, LockOp(Lock), Lock), NEW o \in {"sysret", "exit"}
    PROVE  Call(p \o <<Op(o)>>)
  <1> DEFINE z == <<Op(o)>>
  <1>1. Op(o) \in UserOp /\ Op(o).lock = "none" /\ Op(o).op = o /\ "none" \notin Lock
    BY DEF UserOp, Lock, Op
  <1>2. Piece(z, UserOp, Lock \cup {"none"})
    BY <1>1, SmallPieces
  <1>3. p \in Seq(LockOp(Lock)) /\ p \in Seq(UserOp)
    BY DEF Piece, UserOp
  <1>4. Piece(p, UserOp, Lock \cup {"none"})
    BY <1>3 DEF Piece
  <1>5. Piece(p \o z, UserOp, Lock \cup {"none"})
    BY <1>2, <1>4, ConcatPiece
  <1>6. z \in Seq(UserOp) /\ Len(z) = 1 /\ DOMAIN z = {1} /\ z[1].lock = "none"
    BY <1>1
  <1> HIDE DEF z
  <1>7. /\ Len(p) \in Nat
        /\ \A i \in DOMAIN p : (p \o z)[i] = p[i]
        /\ \A i \in DOMAIN z : (p \o z)[i + Len(p)] = z[i]
        /\ DOMAIN (p \o z) = 1..(Len(p) + Len(z)) /\ DOMAIN p = 1..Len(p)
    BY <1>3, <1>6, ConcatItems
  <1>8. ASSUME NEW i \in DOMAIN p PROVE p[i].op \notin {"yield", "exit", "sysret"}
    <2>1. p[i] \in LockOp(Lock)
      BY <1>3
    <2>2. QED
      BY <2>1 DEF LockOp
  <1>9. LocksFirst(p \o z)
    <2> SUFFICES ASSUME NEW i \in DOMAIN (p \o z), NEW k \in DOMAIN (p \o z),
                        (p \o z)[i].op \in {"yield", "exit", "sysret"}, i <= k
                 PROVE  (p \o z)[k].lock \notin Lock
      BY DEF LocksFirst
    <2>1. i \notin DOMAIN p
      BY <1>7, <1>8
    <2>2. k = 1 + Len(p)
      BY <1>6, <1>7, <2>1
    <2>3. (p \o z)[1 + Len(p)] = z[1]
      BY <1>6, <1>7
    <2>4. QED
      BY <1>1, <1>6, <2>2, <2>3
  <1>10. QED
    BY <1>5, <1>9 DEF Call, z

\* Every system call begins and ends without a lock, and is done with locks
\* before it yields or returns.
LEMMA Calls == \A p \in Syscalls : Call(p)
  <1> DEFINE O == LockOp(Lock)
             A == {"ALLOCATOR"}
             D == {"ALLOCATOR", "FRAMEBUFFER"}
             C == {"ALLOCATOR", "FRAMEBUFFER", "CONSOLE"}
             T == {"ALLOCATOR", "FRAMEBUFFER", "CONSOLE", "TTY"}
  <1>1. LockOp(Lock) \subseteq O
    OBVIOUS
  <1>2. Piece(<<>>, O, {}) /\ Piece(<<>>, O, Lock)
    BY SmallPieces
  <1>3. Piece(Alloc, O, A) /\ Piece(DrawGlyph, O, D)
    BY <1>1, DrawPieces
  <1>4. /\ {} \subseteq Lock /\ A \subseteq Lock /\ T \subseteq Lock
        /\ A \subseteq T /\ C \subseteq T /\ D \subseteq C
        /\ "VFS" \in Lock \ {} /\ "VFS" \in Lock \ A /\ "VFS" \in Lock \ T /\ "VFS" \in Lock
        /\ "TTY" \in Lock \ A /\ "TTY" \in Lock \ C /\ "TTY" \in T
        /\ "CONSOLE" \in Lock \ D /\ "CONSOLE" \in C
        /\ "SCHEDULER" \in Lock \ {} /\ "SCHEDULER" \in Lock
    BY DEF Lock
  <1> HIDE DEF O, A, C, D, T
  <1>5. /\ Piece(With("VFS", <<>>), O, Lock) /\ Piece(With("VFS", Alloc), O, Lock)
        /\ Piece(With("SCHEDULER", <<>>), O, Lock)
    BY <1>1, <1>2, <1>3, <1>4, WithPiece
  <1>6. Piece(With("VFS", With("TTY", Alloc)), O, Lock)
    <2>1. Piece(With("TTY", Alloc), O, T)
      BY <1>1, <1>3, <1>4, WithPiece
    <2>2. QED
      BY <1>1, <1>4, <2>1, WithPiece
  <1>7. Piece(With("VFS", With("TTY", With("CONSOLE", DrawGlyph))), O, Lock)
    <2>1. Piece(With("CONSOLE", DrawGlyph), O, C)
      BY <1>1, <1>3, <1>4, WithPiece
    <2>2. Piece(With("TTY", With("CONSOLE", DrawGlyph)), O, T)
      BY <1>1, <1>4, <2>1, WithPiece
    <2>3. QED
      BY <1>1, <1>4, <2>2, WithPiece
  <1>8. /\ Call(With("VFS", <<>>) \o <<Op("sysret")>>)
        /\ Call(With("VFS", Alloc) \o <<Op("sysret")>>)
        /\ Call(With("VFS", With("TTY", Alloc)) \o <<Op("sysret")>>)
        /\ Call(With("VFS", With("TTY", With("CONSOLE", DrawGlyph))) \o <<Op("sysret")>>)
        /\ Call(With("SCHEDULER", <<>>) \o <<Op("sysret")>>)
        /\ Call(With("SCHEDULER", <<>>) \o <<Op("exit")>>)
    BY <1>5, <1>6, <1>7, EndCall DEF O
  <1>9. Call(<<Op("sysret")>>)
    <2>1. Call(<<>> \o <<Op("sysret")>>)
      BY <1>2, EndCall DEF O
    <2>2. <<>> \o <<Op("sysret")>> = <<Op("sysret")>>
      OBVIOUS
    <2>3. QED
      BY <2>1, <2>2
  <1>10. Call(<<Op("yield"), Op("sysret")>>)
    <2> DEFINE p == <<Op("yield"), Op("sysret")>>
    <2>1. /\ Op("yield") \in UserOp /\ Op("sysret") \in UserOp /\ "none" \notin Lock
          /\ Op("yield").lock = "none" /\ Op("sysret").lock = "none"
      BY DEF Op, UserOp, Lock
    <2>2. p \in Seq(UserOp) /\ DOMAIN p = {1, 2} /\ p[1] = Op("yield") /\ p[2] = Op("sysret")
      BY <2>1
    <2> HIDE DEF p
    <2>3. \A i \in DOMAIN p : p[i].lock = "none"
      BY <2>1, <2>2
    <2>4. Balanced(p)
      BY <2>1, <2>3 DEF Balanced, Alternates, Held, HeldAfter
    <2>5. LocksFirst(p)
      BY <2>1, <2>3 DEF LocksFirst
    <2>6. QED
      BY <2>2, <2>3, <2>4, <2>5 DEF p, Call, Piece
  <1>11. QED
    BY <1>8, <1>9, <1>10, Zenon DEF Syscalls

\* heartbeat_task's first reading.
LEMMA HeartbeatPiece == Piece(HeartbeatStart, HeartbeatOp, {"VFS", "ALLOCATOR"})
  <1> DEFINE V == {"VFS", "ALLOCATOR"}
             A == {"ALLOCATOR"}
             N == {}
  <1>1. /\ On("acquire", "VFS") \in HeartbeatOp /\ On("release", "VFS") \in HeartbeatOp
        /\ On("acquire", "ALLOCATOR") \in HeartbeatOp
        /\ On("release", "ALLOCATOR") \in HeartbeatOp
    BY LockOps DEF HeartbeatOp
  <1>2. /\ "ALLOCATOR" \in Lock \ N /\ N \subseteq A /\ "ALLOCATOR" \in A
        /\ "VFS" \in Lock \ A /\ A \subseteq V /\ "VFS" \in V
    BY DEF Lock
  <1>3. Piece(<<>>, HeartbeatOp, N)
    BY SmallPieces
  <1> HIDE DEF V, A, N
  <1>4. Piece(Hold("acquire", "ALLOCATOR", <<>>), HeartbeatOp, A)
    BY <1>1, <1>2, <1>3, HoldPiece
  <1>5. Piece(Alloc, HeartbeatOp, A)
    BY <1>4 DEF Alloc, With
  <1>6. Piece(Hold("acquire", "VFS", Alloc), HeartbeatOp, V)
    BY <1>1, <1>2, <1>5, HoldPiece
  <1>7. QED
    BY <1>6 DEF HeartbeatStart, With, V

-----------------------------------------------------------------------------
(* early_boot *)

\* What early_boot does before it starts the scheduler.
QuietOp == BootOp \ {Op("start")}

\* A piece of it that holds the scheduler's lock only masked.
BootPiece(p, L) == Piece(p, QuietOp, L) /\ Masks(p, TRUE)

\* Pieces without the scheduler's lock.
LEMMA PlainBoot ==
    ASSUME NEW p, NEW L, Piece(p, QuietOp, L), "SCHEDULER" \notin L
    PROVE  BootPiece(p, L)
  <1>1. \A i \in DOMAIN p : p[i].lock # "SCHEDULER"
    BY DEF Piece
  <1>2. QED
    BY <1>1, NoScheduler DEF BootPiece

\* One piece after the other.
LEMMA ConcatBoot ==
    ASSUME NEW p, NEW q, NEW L, BootPiece(p, L), BootPiece(q, L)
    PROVE  BootPiece(p \o q, L)
  <1>1. Piece(p \o q, QuietOp, L)
    BY ConcatPiece DEF BootPiece
  <1>2. p \in Seq(QuietOp) /\ q \in Seq(QuietOp) /\ ~Held(q, "SCHEDULER")
    BY DEF BootPiece, Piece, Balanced, Lock
  <1>3. Masks(p \o q, TRUE)
    BY <1>2, ConcatMasks DEF BootPiece
  <1>4. QED
    BY <1>1, <1>3 DEF BootPiece

\* A guard of another lock around a piece.
LEMMA WithBoot ==
    ASSUME NEW body, NEW L, NEW M, BootPiece(body, L),
           NEW l \in Lock \ L, L \subseteq M, l \in M, l # "SCHEDULER"
    PROVE  BootPiece(With(l, body), M)
  <1> DEFINE a == <<On("acquire", l)>>
             z == <<On("release", l)>>
  <1>1. LockOp(Lock) \subseteq QuietOp
    BY DEF QuietOp, BootOp, LockOp, Op
  <1>2. Piece(With(l, body), QuietOp, M)
    BY <1>1, WithPiece DEF BootPiece
  <1>3. /\ body \in Seq(QuietOp) /\ Masks(body, TRUE) /\ ~Held(body, "SCHEDULER")
    BY DEF BootPiece, Piece, Balanced, Lock
  <1>4. a \in Seq(QuietOp) /\ z \in Seq(QuietOp)
    BY <1>1, LockOps
  <1>5. /\ \A i \in DOMAIN a : a[i].lock # "SCHEDULER"
        /\ \A i \in DOMAIN z : z[i].lock # "SCHEDULER"
    BY DEF On
  <1> HIDE DEF a, z
  <1>6. Masks(a, TRUE) /\ Masks(z, TRUE) /\ ~Held(z, "SCHEDULER")
    BY <1>5, NoScheduler
  <1>7. Masks(a \o body, TRUE) /\ a \o body \in Seq(QuietOp)
    <2>1. a \o body \in Seq(QuietOp)
      BY <1>3, <1>4, ConcatItems
    <2>2. Masks(a \o body, TRUE)
      BY <1>3, <1>4, <1>6, ConcatMasks
    <2>3. QED
      BY <2>1, <2>2
  <1>8. Masks((a \o body) \o z, TRUE)
    BY <1>4, <1>6, <1>7, ConcatMasks
  <1>9. QED
    BY <1>2, <1>8 DEF BootPiece, With, Hold, a, z

\* The scheduler's lock inside without_interrupts, as in add_task and
\* start_scheduling.
LEMMA MaskedBoot ==
    ASSUME NEW body, NEW L, NEW M, Piece(body, LockOp(Lock), L), "SCHEDULER" \notin L,
           L \subseteq Lock, L \subseteq M, "SCHEDULER" \in M, "none" \in M
    PROVE  BootPiece(<<Op("cli")>> \o With("SCHEDULER", body), M)
  <1> DEFINE p == With("SCHEDULER", body)
             a == <<Op("cli")>>
  <1>1. Piece(p, LockOp(Lock), M)
    BY WithPiece DEF Lock
  <1>2. LockOp(Lock) \subseteq QuietOp /\ Op("cli") \in QuietOp /\ "none" \notin Lock
    BY DEF QuietOp, BootOp, LockOp, Op, Lock
  <1>3. p \in Seq(LockOp(Lock)) /\ p \in Seq(QuietOp)
    BY <1>1, <1>2 DEF Piece
  <1>4. ~Held(p, "SCHEDULER")
    BY <1>1 DEF Piece, Balanced, Lock
  <1>5. \A i \in DOMAIN p : p[i].op # "sti"
    <2> HIDE DEF p
    <2> SUFFICES ASSUME NEW i \in DOMAIN p PROVE p[i].op # "sti"
      OBVIOUS
    <2>1. p[i] \in LockOp(Lock)
      BY <1>3
    <2>2. QED
      BY <2>1 DEF LockOp
  <1>6. Piece(p, QuietOp, M)
    BY <1>1, <1>3 DEF Piece
  <1>7. Piece(a, QuietOp, M)
    <2>1. Op("cli").lock = "none"
      BY DEF Op
    <2>2. QED
      BY <1>2, <2>1, SmallPieces
  <1> HIDE DEF p
  <1>8. Masks(a \o p, TRUE)
    BY <1>2, <1>3, <1>4, <1>5, CliMasks
  <1> HIDE DEF a
  <1>9. Piece(a \o p, QuietOp, M)
    BY <1>6, <1>7, ConcatPiece
  <1>10. QED
    BY <1>8, <1>9 DEF BootPiece, a, p

\* One operation that is not on a lock.
LEMMA SingleBoot ==
    ASSUME NEW x \in QuietOp, NEW L, x.lock \in L \ Lock
    PROVE  BootPiece(<<x>>, L)
  <1>1. Piece(<<x>>, QuietOp, L)
    BY SmallPieces
  <1>2. \A i \in DOMAIN <<x>> : <<x>>[i].lock # "SCHEDULER"
    BY DEF Lock
  <1>3. QED
    BY <1>1, <1>2, NoScheduler DEF BootPiece

\* add_task, and an allocation in early_boot.
LEMMA AddTaskBoot ==
    ASSUME NEW enabled \in BOOLEAN, NEW M, "SCHEDULER" \in M, "ALLOCATOR" \in M, "none" \in M
    PROVE  BootPiece(AddTask(enabled), M) /\ BootPiece(Alloc, M)
  <1> DEFINE A == {"ALLOCATOR"}
             w == <<Op("cli")>> \o With("SCHEDULER", Alloc)
  <1>1. /\ "SCHEDULER" \notin A /\ A \subseteq Lock /\ A \subseteq M
    BY DEF Lock
  <1>2. Piece(Alloc, LockOp(Lock), A)
    BY DrawPieces
  <1>3. LockOp(Lock) \subseteq QuietOp
    BY DEF QuietOp, BootOp, LockOp, Op
  <1>4. Piece(Alloc, QuietOp, A)
    BY <1>3, DrawPieces
  <1> HIDE DEF A
  <1>5. BootPiece(w, M)
    BY <1>1, <1>2, MaskedBoot
  <1>6. BootPiece(Alloc, M)
    BY <1>1, <1>4, PlainBoot DEF BootPiece, Piece
  <1>7. BootPiece(<<Op("sti")>>, M) /\ BootPiece(<<>>, M)
    <2>1. Op("sti") \in QuietOp /\ Op("sti").lock = "none" /\ "none" \notin Lock
      BY DEF QuietOp, BootOp, Op, Lock
    <2>2. BootPiece(<<Op("sti")>>, M)
      BY <2>1, SingleBoot
    <2>3. Piece(<<>>, QuietOp, M)
      BY SmallPieces
    <2>4. Masks(<<>>, TRUE)
      BY DEF Masks
    <2>5. QED
      BY <2>2, <2>3, <2>4 DEF BootPiece
  <1> HIDE DEF w
  <1>8. BootPiece(w \o <<Op("sti")>>, M) /\ BootPiece(w \o <<>>, M)
    BY <1>5, <1>7, ConcatBoot
  <1>9. CASE enabled
    BY <1>6, <1>8, <1>9 DEF AddTask, w
  <1>10. CASE ~enabled
    BY <1>6, <1>8, <1>10 DEF AddTask, w
  <1>11. QED
    BY <1>9, <1>10

\* early_boot begins and ends without a lock, holds the scheduler's lock only
\* masked, and ends with the start of the scheduler.
LEMMA EarlyBootSound ==
    ASSUME NEW enabled \in BOOLEAN
    PROVE  /\ EarlyBoot(enabled) \in Seq(BootOp)
           /\ Balanced(EarlyBoot(enabled))
           /\ Masks(EarlyBoot(enabled), enabled)
           /\ OnlyLast(EarlyBoot(enabled), "start")
  <1> DEFINE W == Lock \cup {"none", "timer", "keyboard"}
             N == {}
             A == {"ALLOCATOR"}
             C == {"ALLOCATOR", "CONSOLE"}
             S == {"SCHEDULER", "ALLOCATOR", "none"}
             P == {"SCHEDULER", "ALLOCATOR", "none", "PROCESS"}
             F == {"SCHEDULER", "ALLOCATOR", "none", "PROCESS", "FRAME_ALLOCATOR"}
             add == AddTask(enabled)
  <1>1. /\ N \subseteq W /\ A \subseteq W /\ C \subseteq W /\ S \subseteq W /\ F \subseteq W
        /\ P \subseteq F /\ A \subseteq F /\ A \subseteq P /\ N \subseteq C
        /\ {"timer"} \subseteq W /\ {"keyboard"} \subseteq W
        /\ "LAPIC" \in Lock \ {"timer"} /\ "LAPIC" \in W
        /\ "IOAPIC" \in Lock \ {"keyboard"} /\ "IOAPIC" \in W
        /\ "FRAMEBUFFER" \in Lock \ N /\ "FRAMEBUFFER" \in W
        /\ "VFS" \in Lock \ A /\ "VFS" \in Lock \ C /\ "VFS" \in Lock \ F /\ "VFS" \in W
        /\ "CONSOLE" \in Lock \ N /\ "CONSOLE" \in C
        /\ "PROCESS" \in Lock \ A /\ "PROCESS" \in P
        /\ "FRAME_ALLOCATOR" \in Lock \ A /\ "FRAME_ALLOCATOR" \in Lock \ P
        /\ "FRAME_ALLOCATOR" \in Lock \ S /\ "FRAME_ALLOCATOR" \in F
        /\ "FRAME_ALLOCATOR" \in W
        /\ "SCHEDULER" \notin N /\ "SCHEDULER" \notin A /\ "SCHEDULER" \notin C
    BY DEF Lock
  <1>2. /\ "SCHEDULER" \in S /\ "ALLOCATOR" \in S /\ "none" \in S
        /\ "SCHEDULER" \in P /\ "ALLOCATOR" \in P /\ "none" \in P
        /\ "SCHEDULER" \in F /\ "ALLOCATOR" \in F /\ "none" \in F
        /\ "SCHEDULER" \in W /\ "none" \in W /\ "none" \notin Lock
        /\ "ALLOCATOR" \in Lock \ N /\ "ALLOCATOR" \in C /\ "ALLOCATOR" \in A
        /\ N \subseteq A /\ N \subseteq Lock
    BY DEF Lock
  <1>3. LockOp(Lock) \subseteq QuietOp
    BY DEF QuietOp, BootOp, LockOp, Op
  <1>4. BootPiece(<<On("arm", "timer")>>, {"timer"}) /\ BootPiece(<<On("arm", "keyboard")>>, {"keyboard"})
    <2>1. /\ On("arm", "timer") \in QuietOp /\ On("arm", "timer").lock \in {"timer"} \ Lock
          /\ On("arm", "keyboard") \in QuietOp
          /\ On("arm", "keyboard").lock \in {"keyboard"} \ Lock
      BY DEF QuietOp, BootOp, On, Op, Lock
    <2>2. QED
      BY <2>1, SingleBoot
  <1>5. /\ BootPiece(<<>>, N) /\ BootPiece(Alloc, A) /\ BootPiece(Alloc, C)
    <2>1. Piece(<<>>, QuietOp, N)
      BY SmallPieces
    <2> HIDE DEF N, A, C
    <2>2. Piece(Alloc, QuietOp, A) /\ Piece(Alloc, QuietOp, C)
      BY <1>1, <1>2, <1>3, <2>1, WithPiece DEF Alloc
    <2>3. QED
      BY <1>1, <2>1, <2>2, PlainBoot
  <1>6. BootPiece(add, S) /\ BootPiece(Alloc, S) /\ BootPiece(add, P) /\ BootPiece(Alloc, F)
    <2> HIDE DEF S, P, F
    <2>1. QED
      BY <1>2, AddTaskBoot
  <1>7. BootPiece(<<Op("sti")>>, W)
    <2>1. Op("sti") \in QuietOp /\ Op("sti").lock = "none"
      BY DEF QuietOp, BootOp, Op
    <2> HIDE DEF W
    <2>2. QED
      BY <1>2, <2>1, SingleBoot
  <1> DEFINE b1 == With("LAPIC", <<On("arm", "timer")>>)
             b2 == With("IOAPIC", <<On("arm", "keyboard")>>)
             b3 == With("FRAMEBUFFER", <<>>)
             b4 == With("VFS", Alloc)
             b5 == With("VFS", Alloc \o With("CONSOLE", <<>>))
             f1 == With("FRAME_ALLOCATOR", Alloc)
             f2 == With("FRAME_ALLOCATOR", With("PROCESS", Alloc) \o add)
             b6 == With("VFS", Alloc \o f1 \o f2)
             b7 == With("FRAME_ALLOCATOR", Alloc \o add)
             b8 == <<Op("sti")>>
             b9 == <<Op("cli")>> \o With("SCHEDULER", With("PROCESS", <<>>))
             all == b1 \o b2 \o b3 \o b4 \o b5 \o b6 \o b7 \o b8 \o b9
             z == <<Op("start")>>
  <1>8. BootPiece(b9, W)
    <2> DEFINE R == {"PROCESS"}
    <2>1. Piece(<<>>, LockOp(Lock), N)
      BY SmallPieces
    <2>2. /\ "PROCESS" \in Lock \ N /\ N \subseteq R /\ "PROCESS" \in R
          /\ R \subseteq Lock /\ R \subseteq W /\ "SCHEDULER" \notin R
      BY DEF Lock
    <2> HIDE DEF N, R, W
    <2>3. Piece(With("PROCESS", <<>>), LockOp(Lock), R)
      BY <2>1, <2>2, WithPiece
    <2>4. QED
      BY <1>2, <2>2, <2>3, MaskedBoot
  <1> HIDE DEF W, N, A, C, S, P, F, add
  <1>9. BootPiece(b1, W) /\ BootPiece(b2, W)
    BY <1>1, <1>4, WithBoot
  <1>10. BootPiece(b3, W) /\ BootPiece(b4, W)
    BY <1>1, <1>5, WithBoot
  <1>11. BootPiece(b5, W)
    <2>1. BootPiece(With("CONSOLE", <<>>), C)
      BY <1>1, <1>5, WithBoot
    <2>2. BootPiece(Alloc \o With("CONSOLE", <<>>), C)
      BY <1>5, <2>1, ConcatBoot
    <2>3. QED
      BY <1>1, <2>2, WithBoot
  <1>12. BootPiece(b6, W)
    <2>1. BootPiece(f1, F)
      BY <1>1, <1>5, WithBoot
    <2>2. BootPiece(With("PROCESS", Alloc), P)
      BY <1>1, <1>5, WithBoot
    <2>3. BootPiece(With("PROCESS", Alloc) \o add, P)
      BY <1>6, <2>2, ConcatBoot
    <2>4. BootPiece(f2, F)
      BY <1>1, <2>3, WithBoot
    <2> HIDE DEF f1, f2
    <2>5. BootPiece(Alloc \o f1, F)
      BY <1>6, <2>1, ConcatBoot
    <2>6. BootPiece(Alloc \o f1 \o f2, F)
      BY <2>4, <2>5, ConcatBoot
    <2>7. QED
      BY <1>1, <2>6, WithBoot
  <1>13. BootPiece(b7, W)
    <2>1. BootPiece(Alloc \o add, S)
      BY <1>6, ConcatBoot
    <2>2. QED
      BY <1>1, <2>1, WithBoot
  <1>14. EarlyBoot(enabled) = all \o z
    BY DEF EarlyBoot, add
  <1>15. BootPiece(all, W)
    <2> HIDE DEF b1, b2, b3, b4, b5, b6, b7, b8, b9
    <2>1. BootPiece(b1 \o b2, W)
      BY <1>9, ConcatBoot
    <2>2. BootPiece(b1 \o b2 \o b3, W)
      BY <1>10, <2>1, ConcatBoot
    <2>3. BootPiece(b1 \o b2 \o b3 \o b4, W)
      BY <1>10, <2>2, ConcatBoot
    <2>4. BootPiece(b1 \o b2 \o b3 \o b4 \o b5, W)
      BY <1>11, <2>3, ConcatBoot
    <2>5. BootPiece(b1 \o b2 \o b3 \o b4 \o b5 \o b6, W)
      BY <1>12, <2>4, ConcatBoot
    <2>6. BootPiece(b1 \o b2 \o b3 \o b4 \o b5 \o b6 \o b7, W)
      BY <1>13, <2>5, ConcatBoot
    <2>7. BootPiece(b1 \o b2 \o b3 \o b4 \o b5 \o b6 \o b7 \o b8, W)
      BY <1>7, <2>6, ConcatBoot DEF b8
    <2>8. QED
      BY <1>8, <2>7, ConcatBoot
  <1> HIDE DEF all
  <1>16. all \in Seq(QuietOp) /\ all \in Seq(BootOp) /\ Balanced(all) /\ Masks(all, TRUE)
    <2>1. all \in Seq(QuietOp) /\ Balanced(all) /\ Masks(all, TRUE)
      BY <1>15 DEF BootPiece, Piece
    <2>2. QuietOp \subseteq BootOp
      BY DEF QuietOp
    <2>3. all \in Seq(BootOp)
      BY <2>1, <2>2
    <2>4. QED
      BY <2>1, <2>3
  <1>17. /\ z \in Seq(BootOp) /\ Len(z) = 1 /\ Balanced(z)
         /\ \A i \in DOMAIN z : z[i].lock # "SCHEDULER"
    <2>1. Op("start") \in BootOp /\ Op("start").lock = "none"
      BY DEF BootOp, Op
    <2>2. Op("start").lock \in {"none"} \ Lock
      BY <1>2, <2>1
    <2>3. Piece(z, BootOp, {"none"})
      BY <2>1, <2>2, SmallPieces
    <2>4. QED
      BY <2>1, <2>3 DEF Piece
  <1> HIDE DEF z
  <1>18. Balanced(all \o z)
    BY <1>16, <1>17, ConcatBalanced
  <1>19. Masks(all \o z, TRUE)
    <2>1. Masks(z, TRUE) /\ ~Held(z, "SCHEDULER")
      BY <1>17, NoScheduler
    <2>2. QED
      BY <1>16, <1>17, <2>1, ConcatMasks
  <1>20. Masks(all \o z, enabled)
    BY <1>19 DEF Masks, MaskedAt
  <1>21. /\ all \o z \in Seq(BootOp) /\ Len(all) \in Nat /\ Len(all \o z) = Len(all) + Len(z)
         /\ \A i \in DOMAIN all : (all \o z)[i] = all[i]
         /\ DOMAIN (all \o z) = 1..(Len(all) + Len(z)) /\ DOMAIN all = 1..Len(all)
    <2>1. all \in Seq(BootOp) /\ z \in Seq(BootOp)
      BY <1>16, <1>17
    <2>2. QED
      BY <2>1, ConcatItems
  <1>22. ASSUME NEW i \in DOMAIN all PROVE all[i].op # "start"
    <2>1. all[i] \in QuietOp
      BY <1>16
    <2>2. QED
      BY <2>1 DEF QuietOp, BootOp, LockOp, Op
  <1>23. OnlyLast(all \o z, "start")
    BY <1>17, <1>21, <1>22 DEF OnlyLast
  <1>24. QED
    BY <1>14, <1>18, <1>20, <1>21, <1>23

-----------------------------------------------------------------------------
(* The initial state *)

\* Every kind of operation is one of Operation.
LEMMA OpSets ==
    /\ BootOp \subseteq Operation /\ HeartbeatOp \subseteq Operation
    /\ UserOp \subseteq Operation /\ IrqOp \subseteq Operation
  BY DEF BootOp, HeartbeatOp, UserOp, IrqOp, LockOp, Operation, Ops, Lock

\* The contexts are distinct from each other and from Irq and Free.
LEMMA Distinct ==
    /\ Boot \in Context /\ Heartbeat \in Context /\ Worker \in Context
    /\ User \subseteq Context /\ Task \subseteq Context
    /\ Boot # Heartbeat /\ Boot # Worker /\ Heartbeat # Worker
    /\ Boot \notin User /\ Heartbeat \notin User /\ Worker \notin User
    /\ Boot \notin Task /\ Irq \notin Context /\ Free \notin Context /\ Irq # Free
    /\ \A c \in Context : c = Boot \/ c = Heartbeat \/ c = Worker \/ c \in User
  BY LocksAssumption DEF Context, Task

\* The programs the contexts begin with hold nothing.
LEMMA InitInv == Init => IInv
  <1> SUFFICES ASSUME Init PROVE IInv
    OBVIOUS
  <1>1. PICK enabled \in BOOLEAN :
           /\ prog = [c \in Context |->
                         CASE c = Boot -> EarlyBoot(enabled)
                           [] c = Heartbeat -> HeartbeatStart
                           [] OTHER -> <<>>]
           /\ iflag = [c \in Context |-> c = Boot => enabled]
    BY DEF Init
  <1>2. /\ prog[Boot] = EarlyBoot(enabled) /\ prog[Heartbeat] = HeartbeatStart
        /\ prog[Worker] = <<>> /\ \A u \in User : prog[u] = <<>>
    <2>1. /\ DOMAIN prog = Context
          /\ \A c \in Context : prog[c] = CASE c = Boot -> EarlyBoot(enabled)
                                            [] c = Heartbeat -> HeartbeatStart
                                            [] OTHER -> <<>>
      BY <1>1
    <2>2. QED
      BY <2>1, Distinct
  <1>3. iflag \in [Context -> BOOLEAN] /\ iflag[Boot] = enabled
    BY <1>1, Distinct
  <1>4. /\ prog[Boot] \in Seq(BootOp) /\ Balanced(prog[Boot])
        /\ Masks(prog[Boot], iflag[Boot]) /\ OnlyLast(prog[Boot], "start")
    BY <1>2, <1>3, EarlyBootSound
  <1>5. prog[Heartbeat] \in Seq(HeartbeatOp) /\ Balanced(prog[Heartbeat])
    BY <1>2, HeartbeatPiece DEF Piece
  <1>6. Balanced(<<>>) /\ LocksFirst(<<>>) /\ OnlyLast(<<>>, "switch")
    BY SmallPieces DEF Piece, LocksFirst, OnlyLast
  <1>7. \A c \in Context : Balanced(prog[c])
    BY <1>2, <1>4, <1>5, <1>6, Distinct, Zenon
  <1>8. prog \in [Context -> Seq(Operation)]
    <2>1. prog[Boot] \in Seq(Operation)
      BY <1>4, OpSets
    <2>2. prog[Heartbeat] \in Seq(Operation)
      BY <1>5, OpSets
    <2>3. <<>> \in Seq(Operation)
      OBVIOUS
    <2>4. \A c \in Context : prog[c] \in Seq(Operation)
      BY <1>2, <2>1, <2>2, <2>3, Distinct, Zenon
    <2>5. prog = [c \in Context |-> prog[c]]
      BY <1>1
    <2>6. QED
      BY <2>4, <2>5
  <1>9. /\ irq = <<>> /\ running = Boot /\ queue = TaskOrder /\ exited = {} /\ armed = {}
        /\ holder = [l \in Lock |-> Free]
    BY DEF Init
  <1>10. Types
    BY <1>3, <1>8, <1>9, Distinct, LocksAssumption DEF Types
  <1>11. Programs
    <2>1. /\ irq \in Seq(IrqOp) /\ OnlyLast(irq, "switch") /\ Alternates(irq)
      BY <1>6, <1>9 DEF Balanced
    <2>2. \A u \in User : prog[u] \in Seq(UserOp) /\ LocksFirst(prog[u])
      <3>1. <<>> \in Seq(UserOp)
        OBVIOUS
      <3>2. QED
        BY <1>2, <1>6, <3>1, Zenon
    <2>3. \A c \in Context : Alternates(prog[c])
      BY <1>7 DEF Balanced
    <2>4. QED
      BY <1>2, <1>4, <1>5, <2>1, <2>2, <2>3 DEF Programs
  <1>12. Holders
    <2> SUFFICES ASSUME NEW l \in Lock
                 PROVE  /\ \A c \in Context : holder[l] = c <=> Held(prog[c], l)
                        /\ holder[l] = Irq <=> Held(irq, l)
      BY DEF Holders
    <2>1. holder[l] = Free
      BY <1>9
    <2>2. ~Held(irq, l) /\ \A c \in Context : ~Held(prog[c], l)
      BY <1>6, <1>7, <1>9 DEF Balanced
    <2>3. QED
      BY <2>1, <2>2, Distinct
  <1>13. BootFlow
    BY <1>4, <1>9 DEF BootFlow
  <1>14. UsersMasked
    BY <1>2 DEF UsersMasked
  <1>15. QED
    BY <1>10, <1>11, <1>12, <1>13, <1>14 DEF IInv

-----------------------------------------------------------------------------
(* One operation *)

\* Which operation is performed tells who performs it.
LEMMA Performers ==
    ASSUME IInv, Active # <<>>
    PROVE  LET x == Head(Active) IN
           /\ x.op = "try" => irq # <<>> /\ x.lock = "SCHEDULER"
           /\ x.op \in {"switch", "iret"} => irq # <<>> /\ x.lock = "none"
           /\ x.op \in {"start", "cli", "sti"} =>
                 irq = <<>> /\ running = Boot /\ x.lock = "none"
           /\ x.op = "arm" =>
                 irq = <<>> /\ running = Boot /\ x.lock \in {"timer", "keyboard"}
           /\ x.op \in {"yield", "exit", "sysret"} =>
                 irq = <<>> /\ running \in User /\ x.lock = "none"
           /\ x.op \in {"acquire", "release"} => x.lock \in Lock
  <1> DEFINE x == Head(Active)
  <1>1. CASE irq # <<>>
    <2>1. Active = irq /\ irq \in Seq(IrqOp)
      BY <1>1 DEF Active, IInv, Programs
    <2>2. x \in IrqOp
      BY <1>1, <2>1
    <2> HIDE DEF x
    <2>3. QED
      BY <1>1, <2>2 DEF IrqOp, LockOp, x
  <1>2. CASE irq = <<>>
    <2>1. Active = prog[running] /\ running \in Context
      BY <1>2 DEF Active, IInv, Types
    <2>2. CASE running = Boot
      <3>1. prog[Boot] \in Seq(BootOp)
        BY DEF IInv, Programs
      <3>2. x \in BootOp
        BY <2>1, <2>2, <3>1
      <3> HIDE DEF x
      <3>3. QED
        BY <1>2, <2>2, <3>2 DEF BootOp, LockOp, x
    <2>3. CASE running = Heartbeat
      <3>1. prog[Heartbeat] \in Seq(HeartbeatOp)
        BY DEF IInv, Programs
      <3>2. x \in HeartbeatOp
        BY <2>1, <2>3, <3>1
      <3> HIDE DEF x
      <3>3. QED
        BY <3>2 DEF HeartbeatOp, LockOp, Lock, x
    <2>4. CASE running \in User
      <3>1. prog[running] \in Seq(UserOp)
        BY <2>4 DEF IInv, Programs
      <3>2. x \in UserOp
        BY <2>1, <3>1
      <3> HIDE DEF x
      <3>3. QED
        BY <1>2, <2>4, <3>2 DEF UserOp, LockOp, x
    <2>5. running # Worker
      BY <2>1 DEF IInv, Programs
    <2>6. QED
      BY <2>1, <2>2, <2>3, <2>4, <2>5, Distinct
  <1>3. QED
    BY <1>1, <1>2

\* Advance moves one program, that of Self, to its tail.
LEMMA Advanced ==
    ASSUME IInv, Active # <<>>, Advance
    PROVE  /\ irq # <<>> => /\ Active = irq /\ Self = Irq
                            /\ irq' = Tail(irq) /\ prog' = prog
           /\ irq = <<>> => /\ Active = prog[running] /\ Self = running
                            /\ irq' = <<>> /\ running \in Context
                            /\ prog'[running] = Tail(prog[running])
                            /\ \A c \in Context : c # running => prog'[c] = prog[c]
           /\ prog' \in [Context -> Seq(Operation)]
  <1>1. prog \in [Context -> Seq(Operation)] /\ running \in Context
    BY DEF IInv, Types
  <1>2. CASE irq # <<>>
    BY <1>1, <1>2 DEF Advance, Active, Self
  <1>3. CASE irq = <<>>
    <2>1. /\ Active = prog[running] /\ Self = running /\ irq' = <<>>
          /\ prog' = [prog EXCEPT ![running] = Tail(@)]
      BY <1>3 DEF Advance, Active, Self
    <2>2. Tail(prog[running]) \in Seq(Operation)
      BY <1>1, <2>1
    <2>3. QED
      BY <1>1, <1>3, <2>1, <2>2
  <1>4. QED
    BY <1>2, <1>3

\* What is left of the programs is again as it should be.
LEMMA AdvancePrograms ==
    ASSUME IInv, Active # <<>>, Advance
    PROVE  Programs'
  <1>1. CASE irq # <<>>
    <2>1. irq' = Tail(irq) /\ prog' = prog
      BY <1>1, Advanced
    <2>2. irq \in Seq(IrqOp) /\ OnlyLast(irq, "switch") /\ Alternates(irq)
      BY DEF IInv, Programs
    <2>3. Tail(irq) \in Seq(IrqOp) /\ OnlyLast(Tail(irq), "switch") /\ Alternates(Tail(irq))
      BY <1>1, <2>2, TailOrder, TailItems
    <2>4. QED
      BY <2>1, <2>3 DEF IInv, Programs
  <1>2. CASE irq = <<>>
    <2> DEFINE p == prog[running]
    <2>1. /\ running \in Context /\ p # <<>> /\ irq' = irq
          /\ prog'[running] = Tail(p)
          /\ \A c \in Context : c # running => prog'[c] = prog[c]
      BY <1>2, Advanced
    <2>2. Alternates(p) /\ p \in Seq(Operation)
      BY <2>1 DEF IInv, Programs, Types
    <2>3. Alternates(Tail(p))
      BY <2>1, <2>2, TailOrder
    <2>4. \A c \in Context : Alternates(prog'[c])
      BY <2>1, <2>3 DEF IInv, Programs
    <2>5. prog'[Boot] \in Seq(BootOp) /\ OnlyLast(prog'[Boot], "start")
      <3>1. prog[Boot] \in Seq(BootOp) /\ OnlyLast(prog[Boot], "start")
        BY DEF IInv, Programs
      <3>2. CASE running = Boot
        <4>1. prog'[Boot] = Tail(prog[Boot]) /\ prog[Boot] # <<>>
          BY <2>1, <3>2
        <4>2. Tail(prog[Boot]) \in Seq(BootOp)
          BY <3>1, <4>1, TailItems, Zenon
        <4>3. OnlyLast(Tail(prog[Boot]), "start")
          BY <3>1, <4>1, TailOrder, Zenon
        <4>4. QED
          BY <4>1, <4>2, <4>3, Zenon
      <3>3. CASE running # Boot
        BY <2>1, <3>1, <3>3, Distinct
      <3>4. QED
        BY <3>2, <3>3
    <2>6. prog'[Heartbeat] \in Seq(HeartbeatOp)
      <3>1. prog[Heartbeat] \in Seq(HeartbeatOp)
        BY DEF IInv, Programs
      <3>2. CASE running = Heartbeat
        BY <2>1, <3>1, <3>2, TailItems
      <3>3. CASE running # Heartbeat
        BY <2>1, <3>1, <3>3, Distinct
      <3>4. QED
        BY <3>2, <3>3
    <2>7. prog'[Worker] = <<>>
      BY <2>1, Distinct DEF IInv, Programs
    <2>8. ASSUME NEW u \in User PROVE prog'[u] \in Seq(UserOp) /\ LocksFirst(prog'[u])
      <3>1. prog[u] \in Seq(UserOp) /\ LocksFirst(prog[u])
        BY DEF IInv, Programs
      <3>2. CASE running = u
        BY <2>1, <3>1, <3>2, TailOrder, TailItems
      <3>3. CASE running # u
        BY <2>1, <3>1, <3>3, Distinct
      <3>4. QED
        BY <3>2, <3>3
    <2>9. irq' \in Seq(IrqOp) /\ OnlyLast(irq', "switch") /\ Alternates(irq')
      BY <2>1 DEF IInv, Programs
    <2>10. QED
      BY <2>4, <2>5, <2>6, <2>7, <2>8, <2>9 DEF Programs
  <1>3. QED
    BY <1>1, <1>2

\* The holders are again those that have a release before them, when the lock
\* of the operation, if it has one, changed hands accordingly.
LEMMA AdvanceHolders ==
    ASSUME IInv, Active # <<>>, Advance,
           \A l \in Lock :
               /\ Its # l => holder'[l] = holder[l]
               /\ Its = l /\ Head(Active).op = "release" => holder'[l] = Free
               /\ Its = l /\ Head(Active).op # "release" =>
                     holder[l] = Free /\ holder'[l] = Self
    PROVE  Holders'
  <1> SUFFICES ASSUME NEW l \in Lock
               PROVE  /\ \A c \in Context : holder'[l] = c <=> Held(prog'[c], l)
                      /\ holder'[l] = Irq <=> Held(irq', l)
    BY DEF Holders
  <1>1. /\ \A c \in Context : holder[l] = c <=> Held(prog[c], l)
        /\ holder[l] = Irq <=> Held(irq, l)
    BY DEF IInv, Holders
  <1>2. Its = Head(Active).lock
    BY DEF Its
  <1>3. CASE irq # <<>>
    <2>1. Active = irq /\ Self = Irq /\ irq' = Tail(irq) /\ prog' = prog
      BY <1>3, Advanced
    <2>2. irq \in Seq(IrqOp) /\ Alternates(irq)
      BY DEF IInv, Programs
    <2>3. /\ Its = l => /\ Held(Tail(irq), l) <=> Head(irq).op # "release"
                        /\ Held(irq, l) <=> Head(irq).op = "release"
          /\ Its # l => (Held(Tail(irq), l) <=> Held(irq, l))
      BY <1>2, <1>3, <2>1, <2>2, StepHeld
    <2>4. CASE Its # l
      BY <1>1, <2>1, <2>3, <2>4
    <2>5. CASE Its = l /\ Head(irq).op = "release"
      <3>1. holder'[l] = Free /\ holder[l] = Irq
        BY <1>1, <2>1, <2>3, <2>5
      <3>2. \A c \in Context : ~Held(prog[c], l)
        BY <1>1, <3>1, Distinct
      <3>3. QED
        BY <2>1, <2>3, <2>5, <3>1, <3>2, Distinct
    <2>6. CASE Its = l /\ Head(irq).op # "release"
      <3>1. holder'[l] = Irq /\ holder[l] = Free
        BY <2>1, <2>6
      <3>2. \A c \in Context : ~Held(prog[c], l)
        BY <1>1, <3>1, Distinct
      <3>3. QED
        BY <2>1, <2>3, <2>6, <3>1, <3>2, Distinct
    <2>7. QED
      BY <2>4, <2>5, <2>6
  <1>4. CASE irq = <<>>
    <2> DEFINE p == prog[running]
    <2>1. /\ Active = p /\ Self = running /\ irq' = irq /\ running \in Context
          /\ prog'[running] = Tail(p)
          /\ \A c \in Context : c # running => prog'[c] = prog[c]
      BY <1>4, Advanced
    <2>2. p \in Seq(Operation) /\ Alternates(p) /\ p # <<>>
      BY <2>1 DEF IInv, Types, Programs
    <2>3. /\ Its = l => /\ Held(Tail(p), l) <=> Head(p).op # "release"
                        /\ Held(p, l) <=> Head(p).op = "release"
          /\ Its # l => (Held(Tail(p), l) <=> Held(p, l))
      BY <1>2, <2>1, <2>2, StepHeld
    <2>4. ~Held(irq, l)
      BY <1>4 DEF Held, HeldAfter
    <2> HIDE DEF p
    <2>5. CASE Its # l
      <3>1. \A c \in Context : Held(prog'[c], l) <=> Held(prog[c], l)
        BY <2>1, <2>3, <2>5 DEF p
      <3>2. QED
        BY <1>1, <2>1, <2>5, <3>1
    <2>6. CASE Its = l /\ Head(p).op = "release"
      <3>1. holder'[l] = Free /\ holder[l] = running
        BY <1>1, <2>1, <2>3, <2>6 DEF p
      <3>2. \A c \in Context : ~Held(prog'[c], l)
        BY <1>1, <2>1, <2>3, <2>6, <3>1
      <3>3. QED
        BY <2>1, <2>4, <3>1, <3>2, Distinct
    <2>7. CASE Its = l /\ Head(p).op # "release"
      <3>1. holder'[l] = running /\ holder[l] = Free
        BY <2>1, <2>7
      <3>2. \A c \in Context : ~Held(prog[c], l)
        BY <1>1, <3>1, Distinct
      <3>3. Held(prog'[running], l)
        BY <2>1, <2>3, <2>7
      <3>4. \A c \in Context : c # running => ~Held(prog'[c], l)
        BY <2>1, <3>2
      <3>5. QED
        BY <2>1, <2>4, <3>1, <3>3, <3>4, Distinct
    <2>8. QED
      BY <2>5, <2>6, <2>7
  <1>5. QED
    BY <1>3, <1>4

\* Boot and the system calls go on as masked as they were, when the operation
\* is none on the interrupt flag and the CPU stays where it is.
LEMMA AdvanceFlow ==
    ASSUME IInv, Active # <<>>, Advance, UNCHANGED <<iflag, running, queue>>,
           Head(Active).op \notin {"cli", "sti"}
    PROVE  BootFlow' /\ UsersMasked'
  <1>1. CASE irq # <<>>
    <2>1. irq' = Tail(irq) /\ prog' = prog
      BY <1>1, Advanced
    <2>2. BootFlow'
      BY <1>1, <2>1 DEF IInv, BootFlow
    <2>3. UsersMasked'
      BY <1>1, <2>1 DEF IInv, UsersMasked
    <2>4. QED
      BY <2>2, <2>3
  <1>2. CASE irq = <<>>
    <2> DEFINE p == prog[running]
    <2>1. /\ Active = p /\ irq' = <<>> /\ running \in Context
          /\ prog'[running] = Tail(p)
          /\ \A c \in Context : c # running => prog'[c] = prog[c]
      BY <1>2, Advanced
    <2>2. p \in Seq(Operation) /\ p # <<>>
      BY <2>1 DEF IInv, Types
    <2>3. Masks(prog'[Boot], iflag'[Boot])
      <3>1. Masks(prog[Boot], iflag[Boot]) /\ iflag[Boot] \in BOOLEAN
        BY Distinct DEF IInv, BootFlow, Types
      <3>2. CASE running = Boot
        BY <2>1, <2>2, <3>1, <3>2, TailMasks
      <3>3. CASE running # Boot
        BY <2>1, <3>1, <3>3, Distinct
      <3>4. QED
        BY <3>2, <3>3
    <2>4. running # Boot => prog'[Boot] = <<>>
      BY <2>1, Distinct DEF IInv, BootFlow
    <2>5. BootFlow'
      BY <2>1, <2>3, <2>4 DEF IInv, BootFlow
    <2>6. UsersMasked'
      <3> SUFFICES ASSUME NEW u \in User, NEW i \in DOMAIN prog'[u], prog'[u][i].lock \in Lock
                   PROVE  running = u /\ irq' = <<>> /\ ~iflag[u]
        BY DEF UsersMasked
      <3>1. \E k \in DOMAIN prog[u] : prog[u][k].lock \in Lock
        <4>1. CASE u = running
          BY <2>1, <2>2, <4>1, TailOrder
        <4>2. CASE u # running
          BY <2>1, <4>2, Distinct
        <4>3. QED
          BY <4>1, <4>2
      <3>2. QED
        BY <2>1, <3>1 DEF IInv, UsersMasked
    <2>7. QED
      BY <2>5, <2>6
  <1>3. QED
    BY <1>1, <1>2

-----------------------------------------------------------------------------
(* The actions *)

\* A system call holds locks only while it has the CPU and no handler runs;
\* the kernel tasks hold none but the VFS and the allocator.
LEMMA WhoHolds ==
    ASSUME IInv, NEW l \in Lock, NEW c \in Context, holder[l] = c
    PROVE  /\ prog[c] # <<>> /\ Held(prog[c], l)
           /\ c = Boot \/ (c = Heartbeat /\ l \in {"VFS", "ALLOCATOR"}) \/ c \in User
           /\ c \in User => running = c /\ irq = <<>>
           /\ c = Boot => running = Boot
  <1>1. Held(prog[c], l)
    BY DEF IInv, Holders
  <1>2. PICK k \in DOMAIN prog[c] : prog[c][k].lock = l
    BY <1>1 DEF Held, HeldAfter
  <1>3. prog[c] # <<>> /\ c # Worker
    BY <1>2 DEF IInv, Programs
  <1>4. ASSUME c = Heartbeat PROVE l \in {"VFS", "ALLOCATOR"}
    <2>1. prog[c][k] \in HeartbeatOp
      BY <1>2, <1>4 DEF IInv, Programs
    <2>2. QED
      BY <1>2, <2>1 DEF HeartbeatOp, LockOp
  <1>5. c \in User => running = c /\ irq = <<>>
    BY <1>2 DEF IInv, UsersMasked
  <1>6. c = Boot => running = Boot
    BY <1>3 DEF IInv, BootFlow
  <1>7. QED
    BY <1>1, <1>3, <1>4, <1>5, <1>6, Distinct

\* Boot holds the scheduler's lock masked, so no handler runs; nobody else has
\* it when a handler runs.
LEMMA TickFree == IInv => TickFindsScheduler
  <1> SUFFICES ASSUME IInv, At("try") PROVE holder["SCHEDULER"] = Free
    BY DEF TickFindsScheduler
  <1>1. Active # <<>> /\ Head(Active).op = "try"
    BY DEF At
  <1>2. irq # <<>> /\ Head(Active).lock = "SCHEDULER" /\ Active = irq
    BY <1>1, Performers DEF Active
  <1>3. "SCHEDULER" \in Lock /\ holder["SCHEDULER"] \in Context \cup {Irq, Free}
    BY DEF IInv, Types, Lock
  <1>4. holder["SCHEDULER"] # Irq
    <2>1. irq \in Seq(IrqOp) /\ Alternates(irq)
      BY DEF IInv, Programs
    <2>2. ~Held(irq, "SCHEDULER")
      BY <1>1, <1>2, <1>3, <2>1, StepHeld
    <2>3. QED
      BY <1>3, <2>2 DEF IInv, Holders
  <1>5. ASSUME NEW c \in Context, holder["SCHEDULER"] = c PROVE FALSE
    <2>1. c = Boot
      BY <1>2, <1>3, <1>5, WhoHolds
    <2>2. running = Boot /\ Held(prog[Boot], "SCHEDULER")
      BY <1>3, <1>5, <2>1, WhoHolds
    <2>3. iflag[Boot] /\ iflag[Boot] \in BOOLEAN
      BY <1>2, <2>2, Distinct DEF IInv, BootFlow, Types
    <2>4. ~iflag[Boot]
      BY <2>2, <2>3, HeldMasked DEF IInv, BootFlow, Programs
    <2>5. QED
      BY <2>3, <2>4
  <1>6. QED
    BY <1>3, <1>4, <1>5

\* Whoever waits, waits for Boot from a handler, or for heartbeat_task.
LEMMA Culprit == IInv => SpinCulprit
  <1> SUFFICES ASSUME IInv, At("acquire"), holder[Its] # Free
               PROVE  \/ Self = Irq /\ holder[Its] = Boot
                      \/ /\ Self # Heartbeat
                         /\ holder[Its] = Heartbeat
                         /\ Its \in {"VFS", "ALLOCATOR"}
    BY DEF SpinCulprit
  <1>1. Active # <<>> /\ Head(Active).op = "acquire" /\ Its = Head(Active).lock
    BY DEF At, Its
  <1>2. Its \in Lock
    BY <1>1, Performers
  <1>3. holder[Its] \in Context \cup {Irq}
    BY <1>2 DEF IInv, Types
  <1>4. CASE irq # <<>>
    <2>1. Self = Irq /\ Active = irq /\ irq \in Seq(IrqOp) /\ Alternates(irq)
      BY <1>4 DEF Self, Active, IInv, Programs
    <2>2. ~Held(irq, Its)
      BY <1>1, <1>2, <2>1, StepHeld
    <2>3. holder[Its] \in Context
      BY <1>2, <1>3, <2>2 DEF IInv, Holders
    <2>4. \/ holder[Its] = Boot
          \/ holder[Its] = Heartbeat /\ Its \in {"VFS", "ALLOCATOR"}
      BY <1>2, <1>4, <2>3, WhoHolds
    <2>5. QED
      BY <2>1, <2>4, Distinct
  <1>5. CASE irq = <<>>
    <2>1. /\ Self = running /\ Active = prog[running] /\ running \in Context
          /\ prog[running] \in Seq(Operation) /\ Alternates(prog[running])
      BY <1>5 DEF Self, Active, IInv, Types, Programs
    <2>2. ~Held(prog[running], Its)
      BY <1>1, <1>2, <2>1, StepHeld
    <2>3. holder[Its] # running
      BY <1>2, <2>1, <2>2 DEF IInv, Holders
    <2>4. ~Held(irq, Its)
      BY <1>5 DEF Held, HeldAfter
    <2>5. holder[Its] \in Context
      BY <1>2, <1>3, <2>4 DEF IInv, Holders
    <2>6. holder[Its] = Heartbeat /\ Its \in {"VFS", "ALLOCATOR"}
      BY <1>2, <2>3, <2>5, WhoHolds
    <2>7. QED
      BY <2>1, <2>3, <2>6
  <1>6. QED
    BY <1>4, <1>5

\* The operations that leave the flag and the CPU alone.
LEMMA QuietSteps ==
    ASSUME IInv, Acquire \/ Release \/ TryLock \/ IretKeyboard \/ Arm
    PROVE  IInv'
  <1> DEFINE x == Head(Active)
  <1>1. Active # <<>> /\ Its = x.lock
    BY DEF Acquire, Release, TryLock, IretKeyboard, Arm, At, Its
  <1>2. CASE Acquire \/ Release
    <2>1. /\ Advance /\ UNCHANGED <<iflag, running, queue, exited, armed>>
          /\ x.op \in {"acquire", "release"}
      BY <1>2 DEF Acquire, Release, At
    <2>2. x.lock \in Lock
      BY <1>1, <2>1, Performers
    <2>3. Self \in Context \cup {Irq} /\ holder \in [Lock -> Context \cup {Irq, Free}]
      BY DEF IInv, Types, Self
    <2>4. /\ holder' \in [Lock -> Context \cup {Irq, Free}]
          /\ \A l \in Lock :
               /\ Its # l => holder'[l] = holder[l]
               /\ Its = l /\ x.op = "release" => holder'[l] = Free
               /\ Its = l /\ x.op # "release" => holder[l] = Free /\ holder'[l] = Self
      BY <1>1, <1>2, <2>2, <2>3 DEF Acquire, Release, At
    <2>5. Programs' /\ Holders'
      BY <1>1, <2>1, <2>4, AdvancePrograms, AdvanceHolders
    <2>6. BootFlow' /\ UsersMasked'
      BY <1>1, <2>1, AdvanceFlow
    <2>7. Types'
      BY <1>1, <2>1, <2>4, Advanced DEF IInv, Types
    <2>8. QED
      BY <2>5, <2>6, <2>7 DEF IInv
  <1>3. CASE TryLock
    <2>1. x.op = "try" /\ x.lock = "SCHEDULER" /\ "SCHEDULER" \in Lock
      BY <1>1, <1>3, Performers DEF TryLock, At, Lock
    <2>2. holder["SCHEDULER"] = Free
      BY <1>3, TickFree DEF TryLock, TickFindsScheduler
    <2>3. /\ Advance /\ UNCHANGED <<iflag, running, queue, exited, armed>>
          /\ holder' = [holder EXCEPT !["SCHEDULER"] = Self]
      BY <1>1, <1>3, <2>1, <2>2 DEF TryLock
    <2>4. Self \in Context \cup {Irq} /\ holder \in [Lock -> Context \cup {Irq, Free}]
      BY DEF IInv, Types, Self
    <2>5. /\ holder' \in [Lock -> Context \cup {Irq, Free}]
          /\ \A l \in Lock :
               /\ Its # l => holder'[l] = holder[l]
               /\ Its = l /\ x.op = "release" => holder'[l] = Free
               /\ Its = l /\ x.op # "release" => holder[l] = Free /\ holder'[l] = Self
      BY <1>1, <2>1, <2>2, <2>3, <2>4
    <2>6. Programs' /\ Holders'
      BY <1>1, <2>3, <2>5, AdvancePrograms, AdvanceHolders
    <2>7. BootFlow' /\ UsersMasked'
      BY <1>1, <2>1, <2>3, AdvanceFlow
    <2>8. Types'
      BY <1>1, <2>3, <2>5, Advanced DEF IInv, Types
    <2>9. QED
      BY <2>6, <2>7, <2>8 DEF IInv
  <1>4. CASE IretKeyboard \/ Arm
    <2>1. /\ Advance /\ UNCHANGED <<holder, iflag, running, queue, exited>>
          /\ x.op \in {"iret", "arm"}
          /\ armed' = armed \/ (x.op = "arm" /\ armed' = armed \cup {Its})
      BY <1>4 DEF IretKeyboard, Arm, At
    <2>2. /\ x.lock \notin Lock
          /\ x.op = "arm" => x.lock \in {"timer", "keyboard"}
      BY <1>1, <2>1, Performers DEF Lock
    <2>3. armed' \subseteq {"timer", "keyboard"}
      BY <1>1, <2>1, <2>2 DEF IInv, Types
    <2>4. Programs' /\ Holders'
      BY <1>1, <2>1, <2>2, AdvancePrograms, AdvanceHolders
    <2>5. BootFlow' /\ UsersMasked'
      BY <1>1, <2>1, AdvanceFlow
    <2>6. Types'
      BY <1>1, <2>1, <2>3, Advanced DEF IInv, Types
    <2>7. QED
      BY <2>4, <2>5, <2>6 DEF IInv
  <1>5. QED
    BY <1>2, <1>3, <1>4

\* cli and sti occur in early_boot alone, whose masking fits them.
LEMMA SetFlagStep ==
    ASSUME IInv, SetFlag
    PROVE  IInv'
  <1> DEFINE x == Head(Active)
  <1>1. /\ Active # <<>> /\ Its = x.lock /\ x.op \in {"cli", "sti"} /\ Advance
        /\ iflag' = [iflag EXCEPT ![running] = At("sti")]
        /\ UNCHANGED <<holder, running, queue, exited, armed>>
    BY DEF SetFlag, At, Its
  <1>2. irq = <<>> /\ running = Boot /\ x.lock = "none"
    BY <1>1, Performers
  <1>3. x.lock \notin Lock
    BY <1>2 DEF Lock
  <1>4. Programs' /\ Holders'
    BY <1>1, <1>3, AdvancePrograms, AdvanceHolders
  <1>5. /\ iflag' \in [Context -> BOOLEAN] /\ iflag'[Boot] \in BOOLEAN
        /\ x.op = "cli" => ~iflag'[Boot]
        /\ \A u \in User : iflag'[u] = iflag[u]
    <2>1. At("sti") \in BOOLEAN /\ (x.op = "cli" => ~At("sti"))
      BY DEF At
    <2>2. iflag \in [Context -> BOOLEAN]
      BY DEF IInv, Types
    <2> HIDE DEF x
    <2>3. QED
      BY <1>1, <1>2, <2>1, <2>2, Distinct
  <1>6. Types'
    BY <1>1, <1>5, Advanced DEF IInv, Types
  <1>7. /\ Active = prog[Boot] /\ irq' = <<>> /\ prog'[Boot] = Tail(prog[Boot])
        /\ \A c \in Context : c # Boot => prog'[c] = prog[c]
    BY <1>1, <1>2, Advanced
  <1>8. BootFlow'
    <2>1. /\ prog[Boot] \in Seq(BootOp) /\ Masks(prog[Boot], iflag[Boot])
          /\ iflag[Boot] \in BOOLEAN
      BY Distinct DEF IInv, Programs, BootFlow, Types
    <2>2. Masks(Tail(prog[Boot]), iflag'[Boot])
      BY <1>1, <1>5, <1>7, <2>1, TailMasks
    <2>3. QED
      BY <1>1, <1>2, <1>7, <2>2 DEF IInv, BootFlow
  <1>9. UsersMasked'
    <2>1. \A u \in User : u # running /\ prog'[u] = prog[u]
      BY <1>2, <1>7, Distinct
    <2>2. QED
      BY <1>1, <1>2, <1>5, <1>7, <2>1 DEF IInv, UsersMasked
  <1>10. QED
    BY <1>4, <1>6, <1>8, <1>9 DEF IInv

\* A system call has no lock left when it returns.
LEMMA SysretStep ==
    ASSUME IInv, Sysret
    PROVE  IInv'
  <1> DEFINE x == Head(Active)
  <1>1. /\ Active # <<>> /\ Its = x.lock /\ x.op = "sysret" /\ Advance
        /\ iflag' = [iflag EXCEPT ![running] = TRUE]
        /\ UNCHANGED <<holder, running, queue, exited, armed>>
    BY DEF Sysret, At, Its
  <1>2. irq = <<>> /\ running \in User /\ x.lock = "none"
    BY <1>1, Performers
  <1>3. x.lock \notin Lock
    BY <1>2 DEF Lock
  <1>4. Programs' /\ Holders'
    BY <1>1, <1>3, AdvancePrograms, AdvanceHolders
  <1>5. /\ iflag' \in [Context -> BOOLEAN]
        /\ \A c \in Context : c # running => iflag'[c] = iflag[c]
    BY <1>1 DEF IInv, Types
  <1>6. Types'
    BY <1>1, <1>5, Advanced DEF IInv, Types
  <1>7. /\ Active = prog[running] /\ irq' = <<>> /\ prog'[running] = Tail(prog[running])
        /\ \A c \in Context : c # running => prog'[c] = prog[c]
    BY <1>1, <1>2, Advanced
  <1>8. BootFlow'
    <2>1. Boot # running /\ Boot \in Context
      BY <1>2, Distinct
    <2>2. QED
      BY <1>1, <1>5, <1>7, <2>1 DEF IInv, BootFlow
  <1>9. UsersMasked'
    <2>1. prog[running] \in Seq(UserOp) /\ LocksFirst(prog[running])
      BY <1>2 DEF IInv, Programs
    <2>2. \A i \in DOMAIN prog[running] : prog[running][i].lock \notin Lock
      <3>1. 1 \in DOMAIN prog[running] /\ prog[running][1].op = "sysret"
        BY <1>1, <1>7, <2>1
      <3>2. \A i \in DOMAIN prog[running] : 1 <= i
        BY <2>1
      <3>3. QED
        BY <2>1, <3>1, <3>2 DEF LocksFirst
    <2>3. \A i \in DOMAIN prog'[running] : prog'[running][i].lock \notin Lock
      BY <1>1, <1>7, <2>1, <2>2, TailOrder
    <2>4. ASSUME NEW u \in User, u # running PROVE prog'[u] = prog[u]
      BY <1>7, <2>4, Distinct
    <2>5. QED
      BY <1>1, <1>2, <2>3, <2>4 DEF IInv, UsersMasked
  <1>10. QED
    BY <1>4, <1>6, <1>8, <1>9 DEF IInv

\* start_scheduling leaves nothing of early_boot behind.
LEMMA StartStep ==
    ASSUME IInv, Start
    PROVE  IInv'
  <1> DEFINE x == Head(Active)
  <1>1. /\ Active # <<>> /\ Its = x.lock /\ x.op = "start" /\ Advance
        /\ running' = Head(queue) /\ queue' = Tail(queue)
        /\ UNCHANGED <<holder, iflag, exited, armed>>
    BY DEF Start, At, Its
  <1>2. irq = <<>> /\ running = Boot /\ x.lock = "none"
    BY <1>1, Performers
  <1>3. x.lock \notin Lock
    BY <1>2 DEF Lock
  <1>4. Programs' /\ Holders'
    BY <1>1, <1>3, AdvancePrograms, AdvanceHolders
  <1>5. queue = TaskOrder /\ queue \in Seq(Task) /\ queue # <<>>
    BY <1>2, LocksAssumption DEF IInv, BootFlow
  <1>6. running' \in Task /\ queue' \in Seq(Task)
    BY <1>1, <1>5
  <1>7. running' \in Context /\ running' # Boot
    BY <1>6, Distinct
  <1>8. Types'
    BY <1>1, <1>6, <1>7, Advanced DEF IInv, Types
  <1>9. /\ Active = prog[Boot] /\ irq' = <<>> /\ prog'[Boot] = Tail(prog[Boot])
        /\ \A c \in Context : c # Boot => prog'[c] = prog[c]
    BY <1>1, <1>2, Advanced
  <1>10. Tail(prog[Boot]) = <<>>
    <2>1. prog[Boot] \in Seq(BootOp) /\ OnlyLast(prog[Boot], "start") /\ prog[Boot] # <<>>
      BY <1>1, <1>9 DEF IInv, Programs
    <2>2. 1 \in DOMAIN prog[Boot] /\ prog[Boot][1].op = "start"
      BY <1>1, <1>9, <2>1
    <2>3. Len(prog[Boot]) = 1
      BY <2>1, <2>2 DEF OnlyLast
    <2>4. Tail(prog[Boot]) \in Seq(BootOp) /\ Len(Tail(prog[Boot])) = 0
      BY <2>1, <2>3, TailItems
    <2>5. QED
      BY <2>4, EmptySeq
  <1>11. BootFlow'
    <2>1. Masks(<<>>, iflag'[Boot])
      BY DEF Masks
    <2>2. QED
      BY <1>7, <1>9, <1>10, <2>1 DEF BootFlow
  <1>12. UsersMasked'
    <2>1. \A u \in User : prog'[u] = prog[u] /\ u # running
      BY <1>2, <1>9, Distinct
    <2>2. QED
      BY <1>1, <2>1 DEF IInv, UsersMasked
  <1>13. QED
    BY <1>4, <1>8, <1>11, <1>12 DEF IInv

\* A handler that returns holds nothing.
LEMMA SwitchStep ==
    ASSUME IInv, Switch
    PROVE  IInv'
  <1> DEFINE x == Head(Active)
  <1>1. /\ Active # <<>> /\ x.op = "switch" /\ irq' = <<>>
        /\ UNCHANGED <<holder, prog, iflag, exited, armed>>
    BY DEF Switch, At
  <1>2. irq # <<>> /\ x.lock = "none"
    BY <1>1, Performers
  <1>3. Active = irq /\ irq \in Seq(IrqOp) /\ OnlyLast(irq, "switch") /\ Alternates(irq)
    BY <1>2 DEF Active, IInv, Programs
  <1>4. \A l \in Lock : ~Held(irq, l) /\ ~Held(<<>>, l)
    <2>1. 1 \in DOMAIN irq /\ irq[1] = x /\ DOMAIN irq = 1..Len(irq) /\ Len(irq) \in Nat
      BY <1>2, <1>3
    <2>2. Len(irq) = 1
      BY <1>1, <1>3, <2>1 DEF OnlyLast
    <2>3. DOMAIN irq = {1}
      BY <2>1, <2>2
    <2>4. irq[1].op # "release"
      BY <1>1, <2>1
    <2>5. \A l \in Lock : ~Held(irq, l)
      BY <2>3, <2>4 DEF Held, HeldAfter
    <2>6. \A l \in Lock : ~Held(<<>>, l)
      BY DEF Held, HeldAfter
    <2>7. QED
      BY <2>5, <2>6
  <1>5. Programs'
    <2>1. <<>> \in Seq(IrqOp) /\ OnlyLast(<<>>, "switch") /\ Alternates(<<>>)
      BY DEF OnlyLast, Alternates
    <2>2. QED
      BY <1>1, <2>1 DEF IInv, Programs
  <1>6. Holders'
    BY <1>1, <1>4 DEF IInv, Holders
  <1>7. /\ running' \in Context /\ queue' \in Seq(Task)
        /\ running' = Boot => running = Boot /\ queue' = queue
        /\ running = Boot => running' = Boot
    <2>1. running \in Context /\ queue \in Seq(Task)
      BY DEF IInv, Types
    <2>2. CASE running # Boot /\ queue # <<>>
      <3>1. /\ running' = Head(queue)
            /\ queue' = Tail(queue) \/ queue' = Append(Tail(queue), running)
        BY <2>2 DEF Switch
      <3>2. running \in Task /\ Head(queue) \in Task /\ Tail(queue) \in Seq(Task)
        BY <2>1, <2>2 DEF Context
      <3>3. queue' \in Seq(Task)
        BY <3>1, <3>2
      <3>4. QED
        BY <2>2, <3>1, <3>2, <3>3, Distinct
    <2>3. CASE ~(running # Boot /\ queue # <<>>)
      BY <2>1, <2>3 DEF Switch
    <2>4. QED
      BY <2>2, <2>3
  <1>8. Types'
    BY <1>1, <1>7 DEF IInv, Types
  <1>9. BootFlow'
    BY <1>1, <1>7 DEF IInv, BootFlow
  <1>10. UsersMasked'
    BY <1>1, <1>2 DEF IInv, UsersMasked
  <1>11. QED
    BY <1>5, <1>6, <1>8, <1>9, <1>10 DEF IInv

\* A handler is entered where no system call is in the way and, from
\* early_boot, only with interrupts enabled.
LEMMA Enter ==
    ASSUME IInv, irq = <<>>, Handler(irq'), UNCHANGED <<holder, prog, iflag, running, queue>>,
           exited' \subseteq User, UNCHANGED armed, running = Boot => iflag[Boot],
           running \in User => \A i \in DOMAIN prog[running] : prog[running][i].lock \notin Lock
    PROVE  IInv'
  <1>1. irq' \in Seq(IrqOp) /\ OnlyLast(irq', "switch") /\ Balanced(irq')
    BY DEF Handler, Piece
  <1>2. Programs'
    BY <1>1 DEF IInv, Programs, Balanced
  <1>3. Holders'
    <2>1. \A l \in Lock : ~Held(irq, l) /\ ~Held(irq', l)
      BY <1>1, NothingHeld, Zenon DEF Balanced
    <2>2. QED
      BY <2>1 DEF IInv, Holders
  <1>4. BootFlow' /\ Types'
    BY DEF IInv, BootFlow, Types
  <1>5. UsersMasked'
    BY DEF IInv, UsersMasked
  <1>6. QED
    BY <1>2, <1>3, <1>4, <1>5 DEF IInv

\* Interrupts, and the yield of heartbeat_task.
LEMMA InterruptSteps ==
    ASSUME IInv, TimerInterrupt \/ KeyboardInterrupt \/ HeartbeatYield
    PROVE  IInv'
  <1>1. /\ irq = <<>> /\ UNCHANGED <<holder, prog, iflag, running, queue, exited, armed>>
        /\ irq' = TimerHandler \/ irq' \in KeyboardHandlers \/ irq' = YieldHandler
        /\ running = Heartbeat \/ iflag[running]
    BY DEF TimerInterrupt, KeyboardInterrupt, HeartbeatYield, Interruptible
  <1>2. Handler(irq')
    BY <1>1, Handlers, Zenon
  <1>3. running = Boot => iflag[Boot]
    BY <1>1, Distinct
  <1>4. running \in User => \A i \in DOMAIN prog[running] : prog[running][i].lock \notin Lock
    BY <1>1, Distinct DEF IInv, UsersMasked
  <1>5. exited' \subseteq User
    BY <1>1 DEF IInv, Types
  <1>6. QED
    BY <1>1, <1>2, <1>3, <1>4, <1>5, Enter

\* int 0x81 in a system call comes after its locks.
LEMMA YieldStep ==
    ASSUME IInv, Yield
    PROVE  IInv'
  <1> DEFINE x == Head(Active)
             p == prog[running]
  <1>1. /\ Active # <<>> /\ x.op \in {"yield", "exit"}
        /\ irq' = ExitHandler \/ irq' = YieldHandler
        /\ exited' = exited \/ exited' = exited \cup {running}
        /\ prog' = [prog EXCEPT ![running] = Tail(@)]
        /\ UNCHANGED <<holder, iflag, running, queue, armed>>
    BY DEF Yield, At
  <1>2. irq = <<>> /\ running \in User /\ running \in Context
    BY <1>1, Performers, Distinct
  <1>3. Active = p /\ p # <<>>
    BY <1>1, <1>2 DEF Active
  <1>4. p \in Seq(UserOp) /\ p \in Seq(Operation) /\ LocksFirst(p) /\ Alternates(p)
    BY <1>2 DEF IInv, Programs, Types
  <1>5. /\ prog'[running] = Tail(p) /\ Tail(p) \in Seq(Operation)
        /\ \A c \in Context : c # running => prog'[c] = prog[c]
        /\ prog' \in [Context -> Seq(Operation)]
    <2>1. prog \in [Context -> Seq(Operation)]
      BY DEF IInv, Types
    <2>2. Tail(p) \in Seq(Operation)
      BY <1>3, <1>4
    <2>3. QED
      BY <1>1, <1>2, <2>1, <2>2
  <1>6. \A i \in DOMAIN p : p[i].lock \notin Lock
    <2>1. 1 \in DOMAIN p /\ p[1] = x /\ \A i \in DOMAIN p : 1 <= i
      BY <1>3, <1>4
    <2>2. QED
      BY <1>1, <1>4, <2>1 DEF LocksFirst
  <1>7. /\ Tail(p) \in Seq(UserOp) /\ LocksFirst(Tail(p)) /\ Alternates(Tail(p))
        /\ \A i \in DOMAIN Tail(p) : Tail(p)[i].lock \notin Lock
    BY <1>3, <1>4, <1>6, TailOrder, TailItems
  <1>8. Handler(irq')
    BY <1>1, Handlers, Zenon
  <1>9. irq' \in Seq(IrqOp) /\ OnlyLast(irq', "switch") /\ Balanced(irq')
    BY <1>8 DEF Handler, Piece
  <1>10. Programs'
    <2>1. /\ prog'[Boot] = prog[Boot] /\ prog'[Heartbeat] = prog[Heartbeat]
          /\ prog'[Worker] = prog[Worker]
      BY <1>2, <1>5, Distinct
    <2>2. \A u \in User : prog'[u] \in Seq(UserOp) /\ LocksFirst(prog'[u])
      BY <1>5, <1>7, Distinct DEF IInv, Programs
    <2>3. \A c \in Context : Alternates(prog'[c])
      BY <1>5, <1>7 DEF IInv, Programs
    <2>4. QED
      BY <1>9, <2>1, <2>2, <2>3 DEF IInv, Programs, Balanced
  <1>11. Holders'
    <2>1. \A l \in Lock : ~Held(irq, l) /\ ~Held(irq', l)
      BY <1>2, <1>9, NothingHeld, Zenon DEF Balanced
    <2>2. \A l \in Lock : ~Held(p, l) /\ ~Held(Tail(p), l)
      BY <1>6, <1>7 DEF Held, HeldAfter
    <2>3. \A l \in Lock, c \in Context : Held(prog'[c], l) <=> Held(prog[c], l)
      BY <1>5, <2>2
    <2>4. QED
      BY <1>1, <2>1, <2>3 DEF IInv, Holders
  <1>12. Types'
    BY <1>1, <1>2, <1>5 DEF IInv, Types
  <1>13. BootFlow'
    BY <1>1, <1>2, <1>5, Distinct DEF IInv, BootFlow
  <1>14. UsersMasked'
    <2> SUFFICES ASSUME NEW u \in User, NEW i \in DOMAIN prog'[u], prog'[u][i].lock \in Lock
                 PROVE  FALSE
      BY DEF UsersMasked
    <2>1. u # running
      BY <1>5, <1>7
    <2>2. prog'[u] = prog[u]
      BY <1>5, <2>1, Distinct
    <2>3. QED
      BY <2>1, <2>2 DEF IInv, UsersMasked
  <1>15. QED
    BY <1>10, <1>11, <1>12, <1>13, <1>14 DEF IInv

\* A system call is entered masked.
LEMMA SyscallStep ==
    ASSUME IInv, SyscallEntry
    PROVE  IInv'
  <1>1. PICK p \in Syscalls : prog' = [prog EXCEPT ![running] = p]
    BY DEF SyscallEntry
  <1>2. /\ irq = <<>> /\ running \in User /\ prog[running] = <<>>
        /\ iflag' = [iflag EXCEPT ![running] = FALSE]
        /\ UNCHANGED <<holder, irq, running, queue, exited, armed>>
    BY DEF SyscallEntry
  <1>3. running \in Context
    BY <1>2, Distinct
  <1>4. p \in Seq(UserOp) /\ Balanced(p) /\ LocksFirst(p)
    BY Calls DEF Call, Piece
  <1>5. p \in Seq(Operation)
    BY <1>4, OpSets
  <1>6. /\ prog'[running] = p
        /\ \A c \in Context : c # running => prog'[c] = prog[c] /\ iflag'[c] = iflag[c]
        /\ iflag'[running] = FALSE
        /\ prog' \in [Context -> Seq(Operation)] /\ iflag' \in [Context -> BOOLEAN]
    BY <1>1, <1>2, <1>3, <1>5 DEF IInv, Types
  <1>7. Programs'
    <2>1. /\ prog'[Boot] = prog[Boot] /\ prog'[Heartbeat] = prog[Heartbeat]
          /\ prog'[Worker] = prog[Worker]
      BY <1>2, <1>6, Distinct
    <2>2. \A u \in User : prog'[u] \in Seq(UserOp) /\ LocksFirst(prog'[u])
      BY <1>4, <1>6, Distinct DEF IInv, Programs
    <2>3. \A c \in Context : Alternates(prog'[c])
      BY <1>4, <1>6 DEF IInv, Programs, Balanced
    <2>4. QED
      BY <1>2, <2>1, <2>2, <2>3 DEF IInv, Programs
  <1>8. Holders'
    <2>1. \A l \in Lock : ~Held(p, l) /\ ~Held(prog[running], l)
      BY <1>2, <1>4, NothingHeld, Zenon DEF Balanced
    <2>2. \A l \in Lock, c \in Context : Held(prog'[c], l) <=> Held(prog[c], l)
      BY <1>6, <2>1
    <2>3. QED
      BY <1>2, <2>2 DEF IInv, Holders
  <1>9. Types'
    BY <1>2, <1>6 DEF IInv, Types
  <1>10. BootFlow'
    BY <1>2, <1>6, Distinct DEF IInv, BootFlow
  <1>11. UsersMasked'
    BY <1>2, <1>6, Distinct DEF IInv, UsersMasked
  <1>12. QED
    BY <1>7, <1>8, <1>9, <1>10, <1>11 DEF IInv

\* Every step keeps the invariant.
LEMMA NextInv == IInv /\ [Next]_vars => IInv'
  <1> SUFFICES ASSUME IInv, [Next]_vars PROVE IInv'
    OBVIOUS
  <1>1. CASE Acquire \/ Release \/ TryLock \/ IretKeyboard \/ Arm
    BY <1>1, QuietSteps
  <1>2. CASE SetFlag
    BY <1>2, SetFlagStep
  <1>3. CASE Sysret
    BY <1>3, SysretStep
  <1>4. CASE Start
    BY <1>4, StartStep
  <1>5. CASE Switch
    BY <1>5, SwitchStep
  <1>6. CASE Yield
    BY <1>6, YieldStep
  <1>7. CASE SyscallEntry
    BY <1>7, SyscallStep
  <1>8. CASE TimerInterrupt \/ KeyboardInterrupt \/ HeartbeatYield
    BY <1>8, InterruptSteps
  <1>9. CASE UNCHANGED vars
    <2>1. Types' /\ Programs'
      BY <1>9 DEF vars, IInv, Types, Programs
    <2>2. Holders' /\ BootFlow' /\ UsersMasked'
      BY <1>9 DEF vars, IInv, Holders, BootFlow, UsersMasked
    <2>3. QED
      BY <2>1, <2>2 DEF IInv
  <1>10. QED
    BY <1>1, <1>2, <1>3, <1>4, <1>5, <1>6, <1>7, <1>8, <1>9, Zenon DEF Next, Step

-----------------------------------------------------------------------------
(* Theorems *)

\* The holders of the locks are always the contexts that have a release before
\* them, and system calls and the scheduler's lock are always masked.
THEOREM LocksInvariant == Spec => []IInv
  BY InitInv, NextInv, PTL DEF Spec

\* The state keeps its types: in particular, the ready queue only ever holds
\* tasks, never the context of early_boot.
THEOREM LocksTypes == Spec => []TypeOK
  <1>1. IInv => TypeOK
    <2> SUFFICES ASSUME IInv PROVE TypeOK
      OBVIOUS
    <2>1. irq \in Seq(Operation)
      BY OpSets DEF IInv, Programs
    <2>2. QED
      BY <2>1 DEF IInv, Types, TypeOK
  <1>2. QED
    BY <1>1, LocksInvariant, PTL

\* For any number of user tasks, what waits for a lock waits for early_boot,
\* from a handler that interrupted it, or for heartbeat_task, and then for the
\* VFS or the allocator.
THEOREM LocksCulprit == Spec => []SpinCulprit
  BY LocksInvariant, Culprit, PTL

\* timer_tick always gets the scheduler's lock, for any number of user tasks.
THEOREM LocksTick == Spec => []TickFindsScheduler
  BY LocksInvariant, TickFree, PTL

=============================================================================
