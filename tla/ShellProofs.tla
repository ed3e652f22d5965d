---------------------------- MODULE ShellProofs ----------------------------
(***************************************************************************)
(* Proof that the shell executes the lines as they were typed, for lines,  *)
(* buffers and files of any size: ShellSpec => []CommandsAsTyped.          *)
(*                                                                         *)
(* Keyboard interrupts and the shell's steps interleave; what carries the  *)
(* proof is where every line is: executed, in the shell's buffer, or still *)
(* in the queue of the terminal, in this order.                            *)
(***************************************************************************)
EXTENDS Shell, SyscallsProofs

\* Zenon first: it needs no encoding of the context.
USE ZenonT(3), SMTT(20)

-----------------------------------------------------------------------------
(* The inductive invariant *)

Line == Seq(Char \cup {"newline"})

\* What the shell is to make of a line.
Command(l) == Trim(Bytes(l, 0, LineBuf))
CommandSet == {Command(l) : l \in Line}

\* The number of lines the shell has taken from the terminal.
Taken == Len(submitted) - Len(input_queue)

LineTypes ==
    /\ line_buffer \in Seq(Char)
    /\ input_queue \in Seq(Line)
    /\ submitted \in Seq(Line)
    /\ line_buf \in Line
    /\ handled \in Seq(CommandSet)

\* The queue holds the lines not taken yet, in order; none is empty.
Waiting ==
    /\ Len(input_queue) <= Len(submitted)
    /\ \A i \in 1..Len(input_queue) : input_queue[i] = submitted[Taken + i]
    /\ \A i \in 1..Len(submitted) : Len(submitted[i]) >= 1

\* The lines the shell is done with.
Done ==
    /\ Len(handled) <= Len(submitted)
    /\ \A i \in 1..Len(handled) : handled[i] = Command(submitted[i])

\* How far the shell is.
AtStart ==
    /\ Len(handled) = Taken
    /\ Matches(entries, "tty") # {}
    /\ FreeSlots # {}

AtRead == Len(handled) = Taken /\ IsTty(tty_fd)

AtHandle ==
    /\ Len(handled) + 1 = Taken
    /\ IsTty(tty_fd)
    /\ SubSeq(line_buf, 1, len) = Bytes(submitted[Taken], 0, LineBuf)

Progress ==
    \/ pc = "start" /\ AtStart
    \/ pc = "read" /\ AtRead
    \/ pc = "handle" /\ AtHandle
    \/ pc = "exited"

SInv == LineTypes /\ Waiting /\ Done /\ DOMAIN open_files = Fd /\ Progress

-----------------------------------------------------------------------------
(* Results and buffers *)

\* The sign bit divides the range of a register.
LEMMA PowerGrows ==
    ASSUME NEW w \in Nat \ {0}
    PROVE  2^(w - 1) \in Nat /\ 2^w \in Nat \ {0} /\ 2^(w - 1) <= 2^w
  <1>1. w - 1 \in Nat /\ w \in Nat
    OBVIOUS
  <1>2. /\ IsFiniteSet(1..(w - 1)) /\ Cardinality(1..(w - 1)) = w - 1
        /\ IsFiniteSet(1..w) /\ Cardinality(1..w) = w
    <2>1. \A m \in Nat : IsFiniteSet(1..m) /\ Cardinality(1..m) = m
      BY FS_Interval
    <2>2. QED
      BY <1>1, <2>1, Zenon
  <1>3. /\ Cardinality(SUBSET (1..(w - 1))) = 2^(w - 1)
        /\ IsFiniteSet(SUBSET (1..w)) /\ Cardinality(SUBSET (1..w)) = 2^w
    BY <1>2, FS_SUBSET, Zenon
  <1>4. SUBSET (1..(w - 1)) \subseteq SUBSET (1..w)
    BY <1>1
  <1>5. Cardinality(SUBSET (1..(w - 1))) <= Cardinality(SUBSET (1..w))
    BY <1>3, <1>4, FS_Subset, Zenon
  <1>6. 2^(w - 1) \in Nat \ {0} /\ 2^w \in Nat \ {0}
    BY <1>1, PowerPositive, Zenon
  <1>7. QED
    BY <1>3, <1>5, <1>6

\* A success below the sign bit arrives as it was returned.
LEMMA SuccessDecodes ==
    ASSUME NEW v \in Nat, v < 2^(Width - 1), Return(Success(v))
    PROVE  Decode(ret'.rax) = Some(v)
  <1>1. PICK h \in Nat, m \in Nat \ {0} : h = 2^(Width - 1) /\ m = 2^Width /\ h <= m
    BY PowerGrows, SyscallsAssumption
  <1>2. v % m = v
    BY <1>1
  <1>3. ret'.rax = v
    BY <1>1, <1>2 DEF Return, Success, Rax
  <1>4. QED
    BY <1>1, <1>3 DEF Decode

\* A read of a line that is not empty delivers a byte at least.
LEMMA LineBytes ==
    ASSUME NEW l \in Line, Len(l) >= 1
    PROVE  Bytes(l, 0, LineBuf) \in Line /\ Len(Bytes(l, 0, LineBuf)) \in 1..LineBuf
  <1> DEFINE S == Char \cup {"newline"}
             to == AtMost(0 + LineBuf, Len(l))
  <1>1. l \in Seq(S) /\ Len(l) \in Nat /\ LineBuf \in Nat \ {0}
    BY ShellAssumption DEF Line
  <1>2. to \in 1..LineBuf /\ to <= Len(l) /\ 0 + 1 = 1
    BY <1>1 DEF AtMost
  <1>3. Bytes(l, 0, LineBuf) = SubSeq(l, 1, to)
    BY <1>2 DEF Bytes
  <1> HIDE DEF S, to
  <1>4. \A i \in 1..to : l[i] \in S
    BY <1>1, <1>2
  <1>5. SubSeq(l, 1, to) \in Seq(S) /\ Len(SubSeq(l, 1, to)) = to
    BY <1>1, <1>2, <1>4, SubSeqProperties
  <1>6. QED
    BY <1>2, <1>3, <1>5 DEF Line, S

\* The buffer starts with what was read into it.
LEMMA FilledStarts ==
    ASSUME NEW buf \in Line, NEW b \in Line
    PROVE  Filled(buf, b) \in Line /\ SubSeq(Filled(buf, b), 1, Len(b)) = b
  <1> DEFINE S == Char \cup {"newline"}
             r == SubSeq(buf, Len(b) + 1, Len(buf))
             c == b \o r
  <1>1. buf \in Seq(S) /\ b \in Seq(S) /\ Len(b) \in Nat /\ Len(buf) \in Nat
    BY DEF Line
  <1>2. r \in Seq(S) /\ Len(r) \in Nat
    <2>1. \A i \in (Len(b) + 1)..Len(buf) : buf[i] \in S
      <3> HIDE DEF S
      <3>1. QED
        BY <1>1
    <2> HIDE DEF S
    <2>2. r \in Seq(S)
      BY <1>1, <2>1, SubSeqProperties
    <2>3. QED
      BY <2>2
  <1>3. Filled(buf, b) = c
    BY DEF Filled
  <1> HIDE DEF S, r
  <1>4. /\ c \in Seq(S) /\ Len(c) = Len(b) + Len(r)
        /\ \A i \in 1..Len(b) : c[i] = b[i]
    BY <1>1, <1>2, ConcatProperties
  <1> HIDE DEF c
  <1>5. /\ SubSeq(c, 1, Len(b)) \in Seq(S) /\ Len(SubSeq(c, 1, Len(b))) = Len(b)
        /\ \A i \in 1..Len(b) : SubSeq(c, 1, Len(b))[i] = c[i]
    <2>1. \A i \in 1..Len(b) : c[i] \in S
      BY <1>1, <1>4
    <2>2. QED
      BY <1>1, <2>1, SubSeqProperties
  <1>6. SubSeq(c, 1, Len(b)) = b
    BY <1>1, <1>4, <1>5, SeqEqual
  <1>7. QED
    BY <1>3, <1>4, <1>6 DEF Line, S

-----------------------------------------------------------------------------
(* The shell's steps and the keyboard *)

\* Initially nothing has been typed, and early_boot has left a descriptor free.
LEMMA ShellInitInv == ShellInit => SInv
  <1> SUFFICES ASSUME ShellInit PROVE SInv
    OBVIOUS
  <1>1. /\ line_buffer = <<>> /\ input_queue = <<>> /\ submitted = <<>>
        /\ line_buf = <<>> /\ handled = <<>> /\ pc = "start"
        /\ entries = Defaults \o Ramdisk
        /\ DOMAIN open_files = Fd
        /\ \A j \in Fd : ~(j < Len(BootFiles)) => open_files[j] = None
    BY DEF ShellInit, Init, VfsInit, TtyInit
  <1>2. LineTypes
    BY <1>1 DEF LineTypes, Line
  <1>3. Waiting /\ Done /\ Len(handled) = Taken
    BY <1>1 DEF Waiting, Done, Taken
  <1>4. Matches(entries, "tty") # {}
    <2>1. 4 \in DOMAIN entries /\ entries[4] = Defaults[4]
      BY <1>1, VfsAssumption DEF Defaults
    <2>2. Defaults[4].name = "tty"
      BY DEF Defaults
    <2>3. QED
      BY <2>1, <2>2 DEF Matches
  <1>5. FreeSlots # {}
    <2>1. Len(BootFiles) \in Fd /\ ~(Len(BootFiles) < Len(BootFiles))
      BY VfsAssumption, ShellAssumption DEF Fd
    <2>2. QED
      BY <1>1, <2>1 DEF FreeSlots
  <1>6. QED
    BY <1>1, <1>2, <1>3, <1>4, <1>5 DEF SInv, Progress, AtStart

\* A key completes a line at most, which goes to the end of both sequences.
LEMMA TypingInv == ASSUME SInv, Typing PROVE SInv'
  <1>1. /\ Keyboard /\ UNCHANGED <<entries, open_files, pc, tty_fd, line_buf, len, handled>>
        /\ submitted' = IF Len(input_queue') > Len(input_queue)
                        THEN Append(submitted, input_queue'[Len(input_queue')])
                        ELSE submitted
    BY DEF Typing, Keyboard, vfsVars, shellVars
  <1>2. LineTypes /\ Waiting /\ Done /\ Progress /\ DOMAIN open_files = Fd
    BY DEF SInv
  <1>3. /\ line_buffer \in Seq(Char) /\ input_queue \in Seq(Line) /\ submitted \in Seq(Line)
        /\ Len(input_queue) \in Nat /\ Len(submitted) \in Nat /\ Len(handled) \in Nat
        /\ line_buf \in Line /\ handled \in Seq(CommandSet)
    BY <1>2 DEF LineTypes
  <1>4. PICK k \in Key : HandleInput(k)
    BY <1>1 DEF Keyboard, KeyPress
  <1>5. CASE /\ k = "newline"
             /\ input_queue' = Append(input_queue, Append(line_buffer, k))
             /\ line_buffer' = <<>>
    <2> DEFINE l == Append(line_buffer, k)
               n == Len(submitted)
               q == Len(input_queue)
    <2>1. l \in Line /\ Len(l) >= 1
      <3>1. line_buffer \in Seq(Char \cup {"newline"})
        BY <1>3
      <3>2. QED
        BY <1>5, <3>1 DEF Line
    <2> HIDE DEF l
    <2>2. /\ input_queue' \in Seq(Line) /\ Len(input_queue') = q + 1
          /\ input_queue'[q + 1] = l
          /\ \A i \in 1..q : input_queue'[i] = input_queue[i]
      BY <1>3, <1>5, <2>1 DEF l
    <2>3. submitted' = Append(submitted, l)
      BY <1>1, <1>3, <2>2
    <2>4. /\ submitted' \in Seq(Line) /\ Len(submitted') = n + 1
          /\ submitted'[n + 1] = l
          /\ \A i \in 1..n : submitted'[i] = submitted[i]
      BY <1>3, <2>1, <2>3
    <2>5. LineTypes'
      BY <1>1, <1>3, <1>5, <2>2, <2>4 DEF LineTypes
    <2>6. Taken' = Taken /\ Taken = n - q /\ q <= n
      BY <1>2, <1>3, <2>2, <2>4 DEF Taken, Waiting
    <2> HIDE DEF n, q
    <2>7. n \in Nat /\ q \in Nat
      BY <1>3 DEF n, q
    <2>8. Waiting'
      <3>1. ASSUME NEW i \in 1..(q + 1) PROVE input_queue'[i] = submitted'[Taken + i]
        <4>1. CASE i \in 1..q
          <5>1. Taken + i \in 1..n
            BY <2>6, <2>7, <4>1
          <5>2. input_queue[i] = submitted[Taken + i]
            BY <1>2, <4>1 DEF Waiting, q
          <5>3. QED
            BY <2>2, <2>4, <4>1, <5>1, <5>2
        <4>2. CASE i = q + 1
          <5>1. Taken + i = n + 1
            BY <2>6, <2>7, <4>2
          <5>2. QED
            BY <2>2, <2>4, <4>2, <5>1
        <4>3. QED
          BY <2>7, <3>1, <4>1, <4>2
      <3>2. ASSUME NEW i \in 1..(n + 1) PROVE Len(submitted'[i]) >= 1
        <4>1. CASE i \in 1..n
          BY <1>2, <2>4, <4>1 DEF Waiting, n
        <4>2. CASE i = n + 1
          BY <2>1, <2>4, <4>2
        <4>3. QED
          BY <2>7, <3>2, <4>1, <4>2
      <3>3. Len(input_queue') <= Len(submitted')
        BY <2>2, <2>4, <2>6, <2>7
      <3>4. \A i \in 1..Len(input_queue') : input_queue'[i] = submitted'[Taken' + i]
        BY <2>2, <2>6, <3>1, Zenon
      <3>5. \A i \in 1..Len(submitted') : Len(submitted'[i]) >= 1
        BY <2>4, <3>2, Zenon
      <3>6. QED
        BY <3>3, <3>4, <3>5, Zenon DEF Waiting
    <2>9. Done'
      BY <1>1, <1>2, <1>3, <2>4, <2>7 DEF Done, n
    <2>10. Progress'
      <3>1. pc = "handle" => submitted'[Taken] = submitted[Taken]
        <4>1. pc = "handle" => Taken \in 1..n
          BY <1>2, <1>3, <2>6, <2>7 DEF Progress, AtHandle
        <4>2. QED
          BY <2>4, <4>1
      <3>2. /\ (IsTty(tty_fd))' = IsTty(tty_fd) /\ FreeSlots' = FreeSlots
        BY <1>1 DEF IsTty, IsOpen, Name, FreeSlots
      <3>3. QED
        BY <1>1, <1>2, <2>6, <3>1, <3>2 DEF Progress, AtStart, AtRead, AtHandle
    <2>11. QED
      BY <1>1, <1>2, <2>5, <2>8, <2>9, <2>10 DEF SInv
  <1>6. CASE input_queue' = input_queue /\ line_buffer' \in Seq(Char)
    <2>1. submitted' = submitted
      BY <1>1, <1>3, <1>6
    <2>2. LineTypes' /\ Waiting' /\ Done' /\ Taken' = Taken
      BY <1>1, <1>2, <1>6, <2>1 DEF LineTypes, Waiting, Done, Taken
    <2>3. /\ (IsTty(tty_fd))' = IsTty(tty_fd) /\ FreeSlots' = FreeSlots
      BY <1>1 DEF IsTty, IsOpen, Name, FreeSlots
    <2>4. Progress'
      BY <1>1, <1>2, <2>1, <2>2, <2>3 DEF Progress, AtStart, AtRead, AtHandle
    <2>5. QED
      BY <1>1, <1>2, <2>2, <2>4 DEF SInv
  <1>7. \/ /\ k = "newline"
           /\ input_queue' = Append(input_queue, Append(line_buffer, k))
           /\ line_buffer' = <<>>
        \/ input_queue' = input_queue /\ line_buffer' \in Seq(Char)
    <2>1. CASE k = "backspace" /\ UNCHANGED input_queue
               /\ line_buffer' = IF line_buffer = <<>> THEN <<>>
                                 ELSE SubSeq(line_buffer, 1, Len(line_buffer) - 1)
      <3>1. SubSeq(line_buffer, 1, Len(line_buffer) - 1) \in Seq(Char)
        <4>1. Len(line_buffer) \in Nat /\ \A i \in 1..(Len(line_buffer) - 1) : line_buffer[i] \in Char
          BY <1>3
        <4>2. QED
          BY <4>1, SubSeqProperties
      <3>2. QED
        BY <2>1, <3>1
    <2>2. CASE k \in Char /\ line_buffer' = Append(line_buffer, k) /\ UNCHANGED input_queue
      BY <1>3, <2>2
    <2>3. QED
      BY <1>3, <1>4, <2>1, <2>2 DEF HandleInput
  <1>8. QED
    BY <1>5, <1>6, <1>7

\* The shell opens the terminal: open answers with the free descriptor it took.
LEMMA OpenInv == ASSUME SInv, ShellOpen PROVE SInv'
  <1>1. /\ LineTypes /\ Waiting /\ Done /\ AtStart /\ DOMAIN open_files = Fd
    BY DEF SInv, ShellOpen, Progress
  <1>2. /\ HandleOpen("tty")
        /\ tty_fd' = IF Decode(ret'.rax) = None THEN tty_fd ELSE Decode(ret'.rax)[1]
        /\ pc' = IF Decode(ret'.rax) = None THEN "exited" ELSE "read"
        /\ UNCHANGED <<line_buf, len, submitted, handled>>
    BY DEF ShellOpen
  <1>3. Utf8("tty") = "tty"
    BY DEF Utf8, NotUtf8
  <1>4. PICK j \in FreeSlots : OpenResult("tty") = Some(j)
    <2>1. FreeSlots \subseteq Nat /\ FreeSlots # {}
      BY <1>1, VfsAssumption DEF FreeSlots, Fd, AtStart
    <2>2. \E i \in FreeSlots : \A k \in FreeSlots : i <= k
      BY <2>1, Least
    <2>3. (CHOOSE i \in FreeSlots : \A k \in FreeSlots : i <= k) \in FreeSlots
      BY <2>2, Zenon
    <2>4. QED
      BY <1>1, <2>1, <2>3, Zenon DEF OpenResult, AtStart
  <1>5. j \in Fd /\ Some(j) # None /\ Some(j)[1] = j
    BY DEF FreeSlots, Some, None
  <1>6. /\ Return(Success(j)) /\ UNCHANGED <<entries, line_buffer, input_queue>>
        /\ open_files' = [open_files EXCEPT ![j] =
              Some([name |-> "tty", offset |-> 0,
                    file_type |-> entries[First(entries, "tty")].file_type])]
    BY <1>2, <1>3, <1>4, <1>5 DEF HandleOpen, Open, ttyVars
  <1>7. Decode(ret'.rax) = Some(j)
    <2>1. PICK h \in Nat : h = 2^(Width - 1)
      BY PowerGrows, SyscallsAssumption
    <2>2. j \in Nat /\ j < 2^(Width - 1)
      BY <1>5, <2>1, ShellAssumption, VfsAssumption DEF Fd
    <2>3. QED
      BY <1>6, <2>2, SuccessDecodes
  <1>8. tty_fd' = j /\ pc' = "read"
    BY <1>2, <1>5, <1>7
  <1>9. (IsTty(tty_fd))' /\ DOMAIN open_files' = Fd
    <2>1. open_files'[j] = Some([name |-> "tty", offset |-> 0,
                    file_type |-> entries[First(entries, "tty")].file_type])
      BY <1>1, <1>5, <1>6
    <2>2. open_files'[j] # None /\ open_files'[j][1].name = "tty"
      BY <2>1 DEF Some, None
    <2>3. QED
      BY <1>1, <1>5, <1>6, <1>8, <2>2 DEF IsTty, IsOpen, Name
  <1>10. LineTypes' /\ Waiting' /\ Done' /\ Taken' = Taken
    BY <1>1, <1>2, <1>6 DEF LineTypes, Waiting, Done, Taken
  <1>11. QED
    BY <1>1, <1>2, <1>8, <1>9, <1>10 DEF SInv, Progress, AtStart, AtRead

\* The shell reads: nothing, or the first line of the queue.
LEMMA ReadInv == ASSUME SInv, ShellRead PROVE SInv'
  <1>1. /\ LineTypes /\ Waiting /\ Done /\ AtRead /\ DOMAIN open_files = Fd
    BY DEF SInv, ShellRead, Progress
  <1> DEFINE res == ReadResult(tty_fd, LineBuf)
             n == Decode(ret'.rax)
             t == Len(submitted)
             q == Len(input_queue)
  <1>2. /\ HandleRead(tty_fd, LineBuf)
        /\ line_buf' = IF res = None THEN line_buf ELSE Filled(line_buf, res[1])
        /\ len' = IF n = None THEN 0 ELSE n[1]
        /\ pc' = IF len' > 0 THEN "handle" ELSE "read"
        /\ UNCHANGED <<tty_fd, submitted, handled>>
    BY DEF ShellRead
  <1>3. IsTty(tty_fd) /\ Len(handled) = Taken
    BY <1>1 DEF AtRead
  <1>4. /\ ReadLineResult = None => res = Some(<<>>)
        /\ ReadLineResult # None => res = Some(Bytes(ReadLineResult[1], 0, LineBuf))
    <2>1. ~IsFile(tty_fd)
      BY <1>3 DEF IsFile
    <2>2. QED
      BY <1>3, <2>1, Zenon DEF ReadResult
  <1>5. res = Some(res[1]) /\ res # None
    BY <1>4 DEF Some, None
  <1>6. /\ input_queue' = IF input_queue = <<>> THEN <<>> ELSE Tail(input_queue)
        /\ UNCHANGED <<line_buffer, entries, open_files>>
        /\ Return(Success(Len(res[1])))
    <2>1. Read(tty_fd, LineBuf) /\ Return(Success(Len(res[1])))
      BY <1>2, <1>5 DEF HandleRead
    <2>2. ~IsFile(tty_fd)
      BY <1>3 DEF IsFile
    <2>3. ReadLine /\ UNCHANGED vfsVars
      BY <1>5, <2>1, <2>2 DEF Read
    <2>4. QED
      BY <2>1, <2>3 DEF ReadLine, vfsVars
  <1>7. line_buf' = Filled(line_buf, res[1])
    BY <1>2, <1>5
  <1>8. /\ line_buffer \in Seq(Char) /\ input_queue \in Seq(Line) /\ submitted \in Seq(Line)
        /\ line_buf \in Line /\ handled \in Seq(CommandSet)
        /\ t \in Nat /\ q \in Nat /\ q <= t /\ Taken = t - q
    BY <1>1 DEF LineTypes, Waiting, Taken
  <1>9. (IsTty(tty_fd))' /\ DOMAIN open_files' = Fd
    BY <1>1, <1>2, <1>3, <1>6 DEF IsTty, IsOpen, Name
  <1> HIDE DEF res, n
  <1>10. ASSUME res[1] \in Line, Len(res[1]) <= LineBuf
         PROVE  /\ len' = Len(res[1]) /\ line_buf' \in Line
                /\ SubSeq(line_buf', 1, len') = res[1]
    <2>1. PICK h \in Nat : h = 2^(Width - 1)
      BY PowerGrows, SyscallsAssumption
    <2>2. Len(res[1]) \in Nat /\ Len(res[1]) < 2^(Width - 1)
      BY <1>10, <2>1, ShellAssumption DEF Line
    <2>3. n = Some(Len(res[1]))
      BY <1>6, <2>2, SuccessDecodes DEF n
    <2>4. len' = Len(res[1])
      BY <1>2, <2>3 DEF Some, None
    <2>5. QED
      BY <1>7, <1>8, <1>10, <2>4, FilledStarts
  <1>11. CASE input_queue = <<>>
    <2>1. res[1] = <<>>
      BY <1>4, <1>11 DEF ReadLineResult, Some, None
    <2>2. res[1] \in Line /\ Len(res[1]) <= LineBuf /\ Len(res[1]) = 0
      BY <2>1, ShellAssumption DEF Line
    <2>3. len' = 0 /\ line_buf' \in Line /\ pc' = "read"
      BY <1>2, <1>10, <2>2
    <2>4. input_queue' = input_queue
      BY <1>6, <1>11
    <2>5. LineTypes' /\ Waiting' /\ Done' /\ Taken' = Taken
      BY <1>1, <1>2, <1>6, <2>3, <2>4 DEF LineTypes, Waiting, Done, Taken
    <2>6. QED
      BY <1>2, <1>3, <1>9, <2>3, <2>5 DEF SInv, Progress, AtRead
  <1>12. CASE input_queue # <<>>
    <2> DEFINE l == Head(input_queue)
    <2>1. /\ q >= 1 /\ l = input_queue[1] /\ l \in Line
          /\ input_queue' \in Seq(Line) /\ Len(input_queue') = q - 1
          /\ \A i \in 1..(q - 1) : input_queue'[i] = input_queue[i + 1]
      BY <1>6, <1>8, <1>12
    <2>2. l = submitted[Taken + 1] /\ Taken + 1 \in 1..t
      <3>1. 1 \in 1..q
        BY <1>8, <2>1
      <3>2. QED
        BY <1>1, <1>8, <2>1, <3>1 DEF Waiting
    <2>3. Len(l) >= 1
      BY <1>1, <2>2 DEF Waiting
    <2>4. res[1] = Bytes(l, 0, LineBuf)
      BY <1>4, <1>12 DEF ReadLineResult, Some, None
    <2> HIDE DEF l
    <2>5. res[1] \in Line /\ Len(res[1]) \in 1..LineBuf
      BY <2>1, <2>3, <2>4, LineBytes
    <2>6. /\ len' > 0 /\ line_buf' \in Line /\ SubSeq(line_buf', 1, len') = res[1]
          /\ pc' = "handle"
      BY <1>2, <1>10, <2>5, ShellAssumption
    <2>7. LineTypes' /\ Done'
      BY <1>1, <1>2, <1>6, <2>1, <2>6 DEF LineTypes, Done
    <2>8. Taken' = Taken + 1
      BY <1>2, <1>8, <2>1 DEF Taken
    <2>9. Waiting'
      <3>1. Len(input_queue') <= Len(submitted')
        BY <1>2, <1>8, <2>1
      <3>2. ASSUME NEW i \in 1..(q - 1) PROVE input_queue'[i] = submitted'[Taken' + i]
        <4>1. i + 1 \in 1..q /\ Taken + (i + 1) = (Taken + 1) + i
          BY <1>8
        <4>2. input_queue[i + 1] = submitted[Taken + (i + 1)]
          BY <1>1, <4>1 DEF Waiting
        <4>3. QED
          BY <1>2, <2>1, <2>8, <4>1, <4>2
      <3>3. \A i \in 1..Len(input_queue') : input_queue'[i] = submitted'[Taken' + i]
        BY <2>1, <3>2, Zenon
      <3>4. \A i \in 1..Len(submitted') : Len(submitted'[i]) >= 1
        BY <1>1, <1>2 DEF Waiting
      <3>5. QED
        BY <3>1, <3>3, <3>4, Zenon DEF Waiting
    <2>10. AtHandle'
      <3>1. Len(handled') + 1 = Taken'
        BY <1>2, <1>3, <2>8
      <3>2. submitted'[Taken'] = l
        BY <1>2, <2>2, <2>8
      <3>3. QED
        BY <1>9, <2>4, <2>6, <3>1, <3>2, Zenon DEF AtHandle
    <2>11. QED
      BY <1>9, <2>6, <2>7, <2>9, <2>10 DEF SInv, Progress
  <1>13. QED
    BY <1>11, <1>12

\* The shell is done with the line in its buffer.
LEMMA HandleInv == ASSUME SInv, ShellHandle PROVE SInv'
  <1>1. /\ LineTypes /\ Waiting /\ Done /\ AtHandle /\ DOMAIN open_files = Fd
    BY DEF SInv, ShellHandle, Progress
  <1> DEFINE c == Trim(SubSeq(line_buf, 1, len))
             h == Len(handled)
  <1>2. /\ handled' = Append(handled, c) /\ pc' \in {"exited", "read"}
        /\ UNCHANGED <<entries, open_files, line_buffer, input_queue, tty_fd, line_buf,
                       submitted>>
    BY DEF ShellHandle, vars, vfsVars, ttyVars
  <1>3. /\ h \in Nat /\ h + 1 = Taken /\ Taken \in 1..Len(submitted)
        /\ handled \in Seq(CommandSet)
    BY <1>1 DEF LineTypes, AtHandle, Taken, Waiting
  <1>4. c = Command(submitted[h + 1]) /\ c \in CommandSet
    <2>1. submitted[Taken] \in Line
      BY <1>1, <1>3 DEF LineTypes
    <2>2. c = Command(submitted[Taken])
      BY <1>1, Zenon DEF AtHandle, Command
    <2> HIDE DEF c
    <2>3. QED
      BY <1>3, <2>1, <2>2 DEF CommandSet
  <1> HIDE DEF c, h
  <1>5. /\ handled' \in Seq(CommandSet) /\ Len(handled') = h + 1
        /\ handled'[h + 1] = c
        /\ \A i \in 1..h : handled'[i] = handled[i]
    BY <1>2, <1>3, <1>4 DEF h
  <1>6. LineTypes' /\ Waiting' /\ Taken' = Taken
    BY <1>1, <1>2, <1>5 DEF LineTypes, Waiting, Taken
  <1>7. Done'
    <2>1. ASSUME NEW i \in 1..(h + 1) PROVE handled'[i] = Command(submitted[i])
      <3>1. CASE i \in 1..h
        BY <1>1, <1>5, <3>1 DEF Done, h
      <3>2. CASE i = h + 1
        BY <1>4, <1>5, <3>2
      <3>3. QED
        BY <1>3, <2>1, <3>1, <3>2
    <2>2. Len(handled') <= Len(submitted)
      BY <1>3, <1>5
    <2>3. QED
      BY <1>2, <1>5, <2>1, <2>2 DEF Done
  <1>8. (IsTty(tty_fd))' /\ DOMAIN open_files' = Fd
    BY <1>1, <1>2 DEF AtHandle, IsTty, IsOpen, Name
  <1>9. Progress'
    BY <1>2, <1>3, <1>5, <1>6, <1>8 DEF Progress, AtRead
  <1>10. QED
    BY <1>6, <1>7, <1>8, <1>9 DEF SInv

-----------------------------------------------------------------------------
(* The theorem *)

\* Every step of the shell or the keyboard preserves the invariant.
LEMMA ShellNextInv == SInv /\ [ShellNext]_allVars => SInv'
  <1> SUFFICES ASSUME SInv, [ShellNext]_allVars PROVE SInv'
    OBVIOUS
  <1>1. CASE UNCHANGED allVars
    <2>1. UNCHANGED <<entries, open_files, line_buffer, input_queue, pc, tty_fd, line_buf,
                      len, handled, submitted>>
      BY <1>1 DEF allVars, vars, vfsVars, ttyVars, shellVars
    <2>2. LineTypes' /\ Waiting' /\ Done' /\ Taken' = Taken
      BY <2>1 DEF SInv, LineTypes, Waiting, Done, Taken
    <2>3. (IsTty(tty_fd))' = IsTty(tty_fd) /\ FreeSlots' = FreeSlots
      BY <2>1 DEF IsTty, IsOpen, Name, FreeSlots
    <2>4. QED
      BY <2>1, <2>2, <2>3 DEF SInv, Progress, AtStart, AtRead, AtHandle
  <1>2. QED
    BY <1>1, OpenInv, ReadInv, HandleInv, TypingInv DEF ShellNext, ShellStep

\* Where every line is, in every reachable state.
THEOREM ShellInvariant == ShellSpec => []SInv
  BY ShellInitInv, ShellNextInv, PTL DEF ShellSpec

\* The shell executes the lines as they were typed, each once and in order,
\* for any keyboard input and any interleaving of the keyboard interrupt with
\* the shell's system calls.
THEOREM ShellCommandsAsTyped == ShellSpec => []CommandsAsTyped
  <1>1. ASSUME SInv PROVE CommandsAsTyped
    <2> DEFINE h == Len(handled)
               p == SubSeq(Commands, 1, h)
    <2>1. /\ handled \in Seq(CommandSet) /\ h \in Nat /\ submitted \in Seq(Line)
          /\ h <= Len(submitted) /\ Len(submitted) \in Nat
          /\ \A i \in 1..h : handled[i] = Command(submitted[i])
      BY <1>1 DEF SInv, LineTypes, Done
    <2>2. \A i \in 1..Len(submitted) : Commands[i] = Command(submitted[i])
      BY <2>1 DEF Commands, Command
    <2>3. Len(Commands) = Len(submitted)
      BY <2>1 DEF Commands
    <2>4. \A i \in 1..h : Commands[i] = handled[i] /\ handled[i] \in CommandSet
      BY <2>1, <2>2
    <2>5. /\ p \in Seq(CommandSet) /\ Len(p) = h
          /\ \A i \in 1..h : p[i] = Commands[i]
      BY <2>1, <2>4, SubSeqProperties
    <2> HIDE DEF p
    <2>6. handled = p
      BY <2>1, <2>4, <2>5, SeqEqual
    <2>7. QED
      BY <2>1, <2>3, <2>6 DEF CommandsAsTyped, Prefix, p
  <1>2. QED
    BY <1>1, ShellInvariant, PTL

=============================================================================
