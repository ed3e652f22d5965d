--------------------------- MODULE SyscallsProofs ---------------------------
(***************************************************************************)
(* The file system calls for every ramdisk, every number of descriptors    *)
(* and all names: open descriptors resolve, reads are contiguous, and an   *)
(* open file only grows.                                                   *)
(*                                                                         *)
(* A descriptor records a name and every call searches for it again, so    *)
(* the argument is about what a search finds: Kept says that a step leaves *)
(* what a name finds in place, up to growth, and there is one lemma for    *)
(* each way the list of entries changes.                                   *)
(***************************************************************************)
EXTENDS Syscalls, SequenceTheorems, FiniteSetTheorems, WellFoundedInduction, TLAPS

\* Zenon first: it needs no encoding of the context.
USE ZenonT(3), SMTT(20)

\* The values a slot of the table of open files has, and the ghost's.
Slot == {f \in Seq(FileDescriptor) : Len(f) <= 1}
Seen == [base: Nat, bytes: Seq(Byte)]

\* The list of entries is well-formed: an entry has its data or none.
Listing(es) == es \in Seq(Entry) /\ \A i \in DOMAIN es : Len(es[i].data) <= 1

Found(es, path) == es[First(es, path)]

\* What a slot records resolves in the list of entries.
Resolved(es, f) ==
    f # None =>
        /\ Matches(es, f[1].name) # {}
        /\ Found(es, f[1].name).file_type = f[1].file_type

\* What was delivered through a slot is a run of the file that ends at the
\* slot's offset.
Consecutive(data, base, bytes, offset) ==
    /\ bytes = Bytes(data, base, offset - base)
    /\ base + Len(bytes) = offset

HasFile(es, f) ==
    f # None /\ f[1].name # "tty" /\ Found(es, f[1].name).data # None

Contiguous(es, f, s) ==
    HasFile(es, f) =>
        Consecutive(Found(es, f[1].name).data[1], s.base, s.bytes, f[1].offset)

\* From es to et what path finds stays: an entry of the same type, which has
\* data if it had, and at least that data.
Kept(es, et, path) ==
    Matches(es, path) # {} =>
        /\ Matches(et, path) # {}
        /\ Found(et, path).file_type = Found(es, path).file_type
        /\ Found(et, path).data = None <=> Found(es, path).data = None
        /\ Found(es, path).data # None =>
              Prefix(Found(es, path).data[1], Found(et, path).data[1])

TtyTypes ==
    /\ line_buffer \in Seq(Char)
    /\ input_queue \in Seq(Seq(Char \cup {"newline"}))
    /\ keyboard_buffer \in 0..KeyboardBufferSize

Types ==
    /\ Listing(entries)
    /\ open_files \in [Fd -> Slot]
    /\ TtyTypes
    /\ ret \in [ok: BOOLEAN, rax: 0..(2^Width - 1)]
    /\ seen \in [Fd -> Seen]

\* The inductive invariant.
IInv ==
    /\ Types
    /\ \A j \in Fd : Resolved(entries, open_files[j])
    /\ \A j \in Fd : Contiguous(entries, open_files[j], seen[j])

\* A step keeps what the name of a descriptor that stays open finds.
Growth ==
    \A j \in Fd :
        /\ open_files[j] # None /\ open_files'[j] # None
        /\ open_files'[j][1].name = open_files[j][1].name
        => Kept(entries, entries', open_files[j][1].name)

-----------------------------------------------------------------------------
(* Arithmetic and sequences *)

\* A non-empty set of naturals has a least element.
LEMMA Least ==
    ASSUME NEW T, T \subseteq Nat, T # {}
    PROVE  \E i \in T : \A j \in T : i <= j
  <1>1. PICK i \in T : \A j \in T : ~(<<j, i>> \in OpToRel(<, Nat))
    BY NatLessThanWellFounded, WFMin, Zenon
  <1>2. \A j \in T : ~(j < i)
    BY <1>1 DEF OpToRel
  <1>3. QED
    BY <1>2

\* A power of two is positive: it counts the subsets of an interval.
LEMMA PowerPositive ==
    ASSUME NEW w \in Nat
    PROVE  2^w \in Nat \ {0}
  <1>1. IsFiniteSet(1..w) /\ Cardinality(1..w) = w
    BY FS_Interval
  <1>2. IsFiniteSet(SUBSET (1..w)) /\ Cardinality(SUBSET (1..w)) = 2^w
    BY <1>1, FS_SUBSET
  <1>3. SUBSET (1..w) # {}
    OBVIOUS
  <1>4. QED
    BY <1>2, <1>3, FS_CardinalityType, FS_EmptySet

\* What a handler returns fits the register.
LEMMA RaxType ==
    ASSUME NEW v \in Int, NEW ok \in BOOLEAN
    PROVE  [ok |-> ok, rax |-> v % 2^Width] \in [ok: BOOLEAN, rax: 0..(2^Width - 1)]
  <1>1. PICK m \in Nat \ {0} : m = 2^Width
    BY PowerPositive, SyscallsAssumption
  <1>2. v % m \in 0..(m - 1)
    OBVIOUS
  <1>3. QED
    BY <1>1, <1>2

-----------------------------------------------------------------------------
(* What a search finds *)

\* The entry found has the name, and none before it does.
LEMMA FirstFound ==
    ASSUME NEW es, Listing(es), NEW path, Matches(es, path) # {}
    PROVE  /\ First(es, path) \in 1..Len(es)
           /\ DOMAIN es = 1..Len(es) /\ Len(es) \in Nat
           /\ Found(es, path).name = path
           /\ Found(es, path) \in Entry
           /\ Len(Found(es, path).data) <= 1
           /\ \A k \in 1..Len(es) : es[k].name = path => First(es, path) <= k
  <1>1. es \in Seq(Entry) /\ DOMAIN es = 1..Len(es) /\ Len(es) \in Nat
    BY DEF Listing
  <1>2. Matches(es, path) \subseteq Nat
    BY <1>1 DEF Matches
  <1>3. \E i \in Matches(es, path) : \A k \in Matches(es, path) : i <= k
    BY <1>2, Least
  <1>4. /\ First(es, path) \in Matches(es, path)
        /\ \A k \in Matches(es, path) : First(es, path) <= k
    BY <1>3, Zenon DEF First
  <1>5. First(es, path) \in 1..Len(es) /\ es[First(es, path)].name = path
    BY <1>1, <1>4 DEF Matches
  <1>6. es[First(es, path)] \in Entry
    BY <1>1, <1>5
  <1>7. QED
    BY <1>1, <1>4, <1>5, <1>6 DEF Found, Matches, Listing

\* Conversely, the first entry of the name is the one found.
LEMMA FirstIs ==
    ASSUME NEW es, Listing(es), NEW path, NEW i \in 1..Len(es), es[i].name = path,
           \A k \in 1..Len(es) : k < i => es[k].name # path
    PROVE  Matches(es, path) # {} /\ First(es, path) = i
  <1>1. DOMAIN es = 1..Len(es) /\ Len(es) \in Nat
    BY DEF Listing
  <1>2. Matches(es, path) # {}
    BY <1>1 DEF Matches
  <1>3. First(es, path) \in 1..Len(es) /\ es[First(es, path)].name = path
        /\ First(es, path) <= i
    BY <1>2, FirstFound DEF Found
  <1>4. QED
    BY <1>2, <1>3

\* An Option is None or Some.
LEMMA Option ==
    ASSUME NEW S, NEW s \in Seq(S), Len(s) <= 1, s # None
    PROVE  s[1] \in S /\ s = Some(s[1])
  <1>1. Len(s) \in Nat \ {0}
    BY EmptySeq DEF None
  <1>2. \A n \in Nat \ {0} : n <= 1 => n = 1
    OBVIOUS
  <1>3. Len(s) = 1
    BY <1>1, <1>2, Zenon
  <1>4. s[1] \in S
    BY <1>3, ElementOfSeq
  <1>5. QED
    BY <1>3, <1>4 DEF Some

\* An entry's data is an Option.
LEMMA DataOption ==
    ASSUME NEW e \in Entry, Len(e.data) <= 1, e.data # None
    PROVE  e.data[1] \in Seq(Byte) /\ e.data = Some(e.data[1])
  <1>1. e.data \in Seq(Seq(Byte))
    BY DEF Entry
  <1>2. QED
    BY <1>1, Option

\* So is a slot.
LEMMA SlotOption ==
    ASSUME NEW f \in Slot, f # None
    PROVE  f[1] \in FileDescriptor /\ f = Some(f[1])
  <1>1. f \in Seq(FileDescriptor) /\ Len(f) <= 1
    BY DEF Slot
  <1>2. QED
    BY <1>1, Option

\* Some of a descriptor is a slot.
LEMMA SomeSlot ==
    /\ None \in Slot
    /\ \A d \in FileDescriptor :
          Some(d) \in Slot /\ Some(d) # None /\ Some(d)[1] = d
  BY DEF Slot, None, Some

\* A sequence is a prefix of itself.
LEMMA PrefixSelf ==
    ASSUME NEW s \in Seq(Byte)
    PROVE  Prefix(s, s)
  BY DEF Prefix

\* Where nothing changes, what every name finds is kept.
LEMMA KeptSame ==
    ASSUME NEW es, Listing(es), NEW path
    PROVE  Kept(es, es, path)
  <1> SUFFICES ASSUME Matches(es, path) # {}, Found(es, path).data # None
               PROVE  Prefix(Found(es, path).data[1], Found(es, path).data[1])
    BY DEF Kept
  <1>1. Found(es, path) \in Entry /\ Len(Found(es, path).data) <= 1
    BY FirstFound
  <1>2. QED
    BY <1>1, DataOption, PrefixSelf

\* Two lists in which the name finds the same entry.
LEMMA KeptFound ==
    ASSUME NEW es, Listing(es), NEW et, NEW path,
           Matches(es, path) # {} => Matches(et, path) # {} /\ Found(et, path) = Found(es, path)
    PROVE  Kept(es, et, path)
  BY KeptSame DEF Kept

\* mkdir appends: every name finds what it found.
LEMMA KeptAppended ==
    ASSUME NEW es, Listing(es), NEW e \in Entry, Len(e.data) <= 1, NEW path
    PROVE  Listing(Append(es, e)) /\ Kept(es, Append(es, e), path)
  <1> DEFINE et == Append(es, e)
  <1>1. /\ es \in Seq(Entry) /\ Len(es) \in Nat /\ et \in Seq(Entry)
        /\ Len(et) = Len(es) + 1 /\ et[Len(es) + 1] = e
        /\ \A k \in 1..Len(es) : et[k] = es[k]
        /\ DOMAIN es = 1..Len(es)
    BY DEF Listing
  <1>2. Listing(et)
    <2> SUFFICES ASSUME NEW i \in DOMAIN et PROVE Len(et[i].data) <= 1
      BY <1>1 DEF Listing
    <2> HIDE DEF et
    <2>1. i \in 1..Len(es) \/ i = Len(es) + 1
      BY <1>1
    <2>2. QED
      BY <1>1, <2>1 DEF Listing
  <1>3. ASSUME Matches(es, path) # {}
        PROVE  Matches(et, path) # {} /\ Found(et, path) = Found(es, path)
    <2> HIDE DEF et
    <2>1. /\ First(es, path) \in 1..Len(es)
          /\ es[First(es, path)].name = path
          /\ \A k \in 1..Len(es) : es[k].name = path => First(es, path) <= k
      BY <1>3, FirstFound DEF Found
    <2>2. First(es, path) \in 1..Len(et) /\ et[First(es, path)] = es[First(es, path)]
      BY <1>1, <2>1
    <2>3. \A k \in 1..Len(et) : k < First(es, path) => et[k].name # path
      BY <1>1, <2>1
    <2>4. Matches(et, path) # {} /\ First(et, path) = First(es, path)
      BY <1>2, <2>1, <2>2, <2>3, FirstIs
    <2>5. QED
      BY <2>2, <2>4 DEF Found
  <1>4. QED
    BY <1>2, <1>3, KeptFound

\* write replaces the data of one entry by an extension of it: every name finds
\* what it found, the name of that entry with the new data.
LEMMA KeptWritten ==
    ASSUME NEW es, Listing(es), NEW p, Matches(es, p) # {}, Found(es, p).data # None,
           NEW d \in Seq(Byte), Prefix(Found(es, p).data[1], d)
    PROVE  LET et == [es EXCEPT ![First(es, p)].data = Some(d)]
           IN  /\ Listing(et)
               /\ \A path : Kept(es, et, path)
               /\ Found(et, p).data = Some(d)
  <1> DEFINE i == First(es, p)
             et == [es EXCEPT ![i].data = Some(d)]
  <1>1. /\ es \in Seq(Entry) /\ Len(es) \in Nat /\ DOMAIN es = 1..Len(es)
        /\ \A k \in 1..Len(es) : es[k] \in Entry /\ Len(es[k].data) <= 1
    BY DEF Listing
  <1>2. i \in 1..Len(es) /\ es[i].name = p /\ es[i].data # None
    BY FirstFound DEF Found
  <1>3. Some(d) \in Seq(Seq(Byte)) /\ Len(Some(d)) = 1 /\ Some(d)[1] = d /\ Some(d) # None
    BY DEF Some, None
  <1> HIDE DEF i
  <1>4. /\ et[i] = [es[i] EXCEPT !.data = Some(d)]
        /\ \A k \in 1..Len(es) : k # i => et[k] = es[k]
        /\ DOMAIN et = 1..Len(es)
    BY <1>1, <1>2
  <1>5. /\ et[i] \in Entry /\ et[i].data = Some(d)
        /\ et[i].name = es[i].name /\ et[i].file_type = es[i].file_type
    BY <1>1, <1>2, <1>3, <1>4 DEF Entry
  <1>6. /\ et \in Seq(Entry) /\ Len(et) = Len(es)
    <2>1. \A k \in 1..Len(es) : et[k] \in Entry
      BY <1>1, <1>4, <1>5
    <2>2. et = [k \in 1..Len(es) |-> et[k]]
      BY <1>4
    <2> HIDE DEF et
    <2>3. QED
      BY <1>1, <1>4, <2>1, <2>2
  <1>7. Listing(et)
    <2> SUFFICES ASSUME NEW k \in 1..Len(es) PROVE Len(et[k].data) <= 1
      BY <1>4, <1>6 DEF Listing
    <2> HIDE DEF et
    <2>1. CASE k = i
      <3>1. Len(et[k].data) = 1
        BY <1>3, <1>5, <2>1, Zenon
      <3>2. QED
        BY <3>1
    <2>2. CASE k # i
      BY <1>1, <1>4, <2>2
    <2>3. QED
      BY <2>1, <2>2
  <1>8. ASSUME NEW path, Matches(es, path) # {}
        PROVE  Matches(et, path) # {} /\ First(et, path) = First(es, path)
    <2>1. /\ First(es, path) \in 1..Len(es)
          /\ es[First(es, path)].name = path
          /\ \A k \in 1..Len(es) : es[k].name = path => First(es, path) <= k
      BY <1>8, FirstFound DEF Found
    <2>2. \A k \in 1..Len(es) : et[k].name = es[k].name
      BY <1>4, <1>5
    <2> HIDE DEF et
    <2>3. \A k \in 1..Len(et) : k < First(es, path) => et[k].name # path
      BY <1>1, <1>6, <2>1, <2>2
    <2>4. QED
      <3> DEFINE j == First(es, path)
      <3>1. /\ j \in 1..Len(et) /\ et[j].name = path
            /\ \A k \in 1..Len(et) : k < j => et[k].name # path
        BY <1>6, <2>1, <2>2, <2>3, Zenon
      <3> HIDE DEF j
      <3>2. Matches(et, path) # {} /\ First(et, path) = j
        BY <1>7, <3>1, FirstIs
      <3>3. QED
        BY <3>2, Zenon DEF j
  <1>9. Found(et, p).data = Some(d)
    <2>1. First(et, p) = i
      BY <1>8 DEF i
    <2> HIDE DEF et
    <2>2. QED
      BY <1>5, <2>1 DEF Found
  <1>10. ASSUME NEW path PROVE Kept(es, et, path)
    <2> SUFFICES ASSUME Matches(es, path) # {} PROVE Kept(es, et, path)
      BY DEF Kept
    <2>1. Matches(et, path) # {} /\ First(et, path) = First(es, path)
          /\ First(es, path) \in 1..Len(es)
      BY <1>8, FirstFound
    <2> HIDE DEF et
    <2>2. CASE First(es, path) = i
      <3>1. Found(et, path) = et[i] /\ Found(es, path) = es[i] /\ Found(es, p) = es[i]
        BY <2>1, <2>2 DEF Found, i
      <3>2. QED
        BY <1>2, <1>3, <1>5, <2>1, <3>1 DEF Kept
    <2>3. CASE First(es, path) # i
      <3>1. Found(et, path) = Found(es, path)
        BY <1>4, <2>1, <2>3 DEF Found
      <3>2. QED
        BY <2>1, <3>1, KeptFound
    <2>4. QED
      BY <2>2, <2>3
  <1>11. QED
    BY <1>7, <1>9, <1>10 DEF i

\* Vec::remove closes the gap.
LEMMA WithoutItems ==
    ASSUME NEW S, NEW s \in Seq(S), NEW i \in 1..Len(s)
    PROVE  /\ Without(s, i) \in Seq(S)
           /\ Len(Without(s, i)) = Len(s) - 1
           /\ \A k \in 1..(Len(s) - 1) :
                 Without(s, i)[k] = IF k < i THEN s[k] ELSE s[k + 1]
  <1>1. Len(s) \in Nat /\ i \in Nat /\ 1 <= i /\ i <= Len(s)
    OBVIOUS
  <1>2. /\ SubSeq(s, 1, i - 1) \in Seq(S) /\ Len(SubSeq(s, 1, i - 1)) = i - 1
        /\ \A k \in 1..(i - 1) : SubSeq(s, 1, i - 1)[k] = s[k]
    BY <1>1, SubSeqProperties
  <1>3. /\ SubSeq(s, i + 1, Len(s)) \in Seq(S)
        /\ Len(SubSeq(s, i + 1, Len(s))) = Len(s) - i
        /\ \A k \in 1..(Len(s) - i) : SubSeq(s, i + 1, Len(s))[k] = s[i + k]
    BY <1>1, SubSeqProperties
  <1> DEFINE a == SubSeq(s, 1, i - 1)
             b == SubSeq(s, i + 1, Len(s))
  <1> HIDE DEF a, b
  <1>4. /\ a \o b \in Seq(S) /\ Len(a \o b) = Len(s) - 1
        /\ \A k \in 1..(Len(s) - 1) :
              (a \o b)[k] = IF k <= Len(a) THEN a[k] ELSE b[k - Len(a)]
    <2>1. a \in Seq(S) /\ b \in Seq(S) /\ Len(a) = i - 1 /\ Len(b) = Len(s) - i
      BY <1>2, <1>3 DEF a, b
    <2>2. /\ a \o b \in Seq(S) /\ Len(a \o b) = Len(a) + Len(b)
          /\ \A k \in 1..(Len(a) + Len(b)) :
                (a \o b)[k] = IF k <= Len(a) THEN a[k] ELSE b[k - Len(a)]
      BY <2>1, ConcatProperties
    <2>3. Len(a) + Len(b) = Len(s) - 1
      BY <1>1, <2>1
    <2>4. QED
      BY <2>2, <2>3
  <1>5. ASSUME NEW k \in 1..(Len(s) - 1)
        PROVE  (a \o b)[k] = IF k < i THEN s[k] ELSE s[k + 1]
    <2>1. CASE k < i
      BY <1>1, <1>2, <1>4, <2>1 DEF a
    <2>2. CASE ~(k < i)
      <3>1. k - Len(a) = k - (i - 1) /\ k - (i - 1) \in 1..(Len(s) - i)
        BY <1>1, <1>2, <2>2 DEF a
      <3>2. b[k - (i - 1)] = s[i + (k - (i - 1))] /\ i + (k - (i - 1)) = k + 1
        BY <1>1, <1>3, <3>1 DEF b
      <3>3. ~(k <= Len(a))
        BY <1>1, <1>2, <2>2 DEF a
      <3>4. QED
        BY <1>4, <2>2, <3>1, <3>2, <3>3
    <2>3. QED
      BY <2>1, <2>2
  <1>6. QED
    BY <1>4, <1>5 DEF Without, a, b

\* unlink removes the entry a name finds: every other name finds what it found.
LEMMA KeptRemoved ==
    ASSUME NEW es, Listing(es), NEW p, Matches(es, p) # {}
    PROVE  LET et == Without(es, First(es, p))
           IN  /\ Listing(et)
               /\ \A path : path # p => Kept(es, et, path)
  <1> DEFINE i == First(es, p)
             et == Without(es, i)
  <1>1. /\ es \in Seq(Entry) /\ Len(es) \in Nat /\ DOMAIN es = 1..Len(es)
        /\ \A k \in 1..Len(es) : Len(es[k].data) <= 1
    BY DEF Listing
  <1>2. i \in 1..Len(es) /\ es[i].name = p
    BY FirstFound DEF Found
  <1> HIDE DEF i
  <1>3. /\ et \in Seq(Entry) /\ Len(et) = Len(es) - 1
        /\ \A k \in 1..(Len(es) - 1) : et[k] = IF k < i THEN es[k] ELSE es[k + 1]
    BY <1>1, <1>2, WithoutItems
  <1> HIDE DEF et
  <1>4. DOMAIN et = 1..(Len(es) - 1)
    BY <1>3
  <1>5. Listing(et)
    <2> SUFFICES ASSUME NEW k \in 1..(Len(es) - 1) PROVE Len(et[k].data) <= 1
      BY <1>3, <1>4 DEF Listing
    <2>1. PICK m \in 1..Len(es) : et[k] = es[m]
      <3>1. k \in 1..Len(es) /\ k + 1 \in 1..Len(es)
        BY <1>1
      <3>2. QED
        BY <1>3, <3>1
    <2>2. QED
      BY <1>1, <2>1
  <1>6. ASSUME NEW path, path # p, Matches(es, path) # {}
        PROVE  Matches(et, path) # {} /\ Found(et, path) = Found(es, path)
    <2> DEFINE f == First(es, path)
               g == IF f < i THEN f ELSE f - 1
    <2>1. /\ f \in 1..Len(es) /\ es[f].name = path
          /\ \A k \in 1..Len(es) : es[k].name = path => f <= k
      BY <1>6, FirstFound DEF Found
    <2> HIDE DEF f
    <2>2. f # i
      BY <1>2, <1>6, <2>1
    <2>3. g \in 1..(Len(es) - 1) /\ (f < i => g = f) /\ (~(f < i) => ~(g < i) /\ g + 1 = f)
      BY <1>1, <1>2, <2>1, <2>2
    <2> HIDE DEF g
    <2>4. et[g] = es[f]
      <3>1. CASE f < i
        BY <1>3, <2>3, <3>1
      <3>2. CASE ~(f < i)
        BY <1>3, <2>3, <3>2
      <3>3. QED
        BY <3>1, <3>2
    <2>5. ASSUME NEW k \in 1..(Len(es) - 1), k < g
          PROVE  et[k].name # path
      <3>1. CASE k < i
        <4>1. k \in 1..Len(es) /\ k < f /\ et[k] = es[k]
          BY <1>1, <1>2, <1>3, <2>1, <2>3, <2>5, <3>1
        <4>2. QED
          BY <2>1, <4>1
      <3>2. CASE ~(k < i)
        <4>1. k + 1 \in 1..Len(es) /\ k + 1 < f /\ et[k] = es[k + 1]
          BY <1>1, <1>2, <1>3, <2>1, <2>3, <2>5, <3>2
        <4>2. QED
          BY <2>1, <4>1
      <3>3. QED
        BY <3>1, <3>2
    <2>6. g \in 1..Len(et) /\ et[g].name = path
          /\ \A k \in 1..Len(et) : k < g => et[k].name # path
      BY <1>3, <2>1, <2>3, <2>4, <2>5
    <2>7. Matches(et, path) # {} /\ First(et, path) = g
      BY <1>5, <2>6, FirstIs
    <2>8. QED
      BY <2>4, <2>7 DEF Found, f
  <1>7. ASSUME NEW path, path # p PROVE Kept(es, et, path)
    BY <1>6, <1>7, KeptFound
  <1>8. QED
    BY <1>5, <1>7 DEF et, i

-----------------------------------------------------------------------------
(* Bytes *)

\* What Bytes takes of a sequence: as many bytes as there are.
LEMMA BytesItems ==
    ASSUME NEW s \in Seq(Byte), NEW start \in Nat, NEW n \in Nat
    PROVE  /\ Bytes(s, start, n) \in Seq(Byte)
           /\ Len(Bytes(s, start, n)) \in 0..n
           /\ start + n <= Len(s) => Len(Bytes(s, start, n)) = n
           /\ start <= Len(s) /\ Len(s) < start + n
                 => Len(Bytes(s, start, n)) = Len(s) - start
           /\ Len(s) < start => Len(Bytes(s, start, n)) = 0
           /\ \A k \in 1..Len(Bytes(s, start, n)) :
                 Bytes(s, start, n)[k] = s[start + k] /\ start + k <= Len(s)
  <1> DEFINE to == AtMost(start + n, Len(s))
  <1>1. Len(s) \in Nat
    OBVIOUS
  <1>2. to \in Nat /\ to <= start + n /\ to <= Len(s)
        /\ (start + n <= Len(s) => to = start + n)
        /\ (Len(s) < start + n => to = Len(s))
    BY <1>1 DEF AtMost
  <1> HIDE DEF to
  <1>3. \A k \in (start + 1)..to : k \in 1..Len(s)
    BY <1>1, <1>2
  <1>4. \A k \in (start + 1)..to : s[k] \in Byte
    BY <1>3, ElementOfSeq
  <1>5. /\ SubSeq(s, start + 1, to) \in Seq(Byte)
        /\ Len(SubSeq(s, start + 1, to)) = IF start + 1 <= to THEN to - start ELSE 0
        /\ \A k \in 1..Len(SubSeq(s, start + 1, to)) :
              SubSeq(s, start + 1, to)[k] = s[start + k] /\ start + k <= to
    <2> DEFINE q == SubSeq(s, start + 1, to)
    <2>1. /\ q \in Seq(Byte)
          /\ Len(q) = IF start + 1 <= to THEN to - (start + 1) + 1 ELSE 0
          /\ \A k \in 1..(to - (start + 1) + 1) : q[k] = s[(start + 1) + k - 1]
      <3>1. start + 1 \in Int /\ to \in Int
        BY <1>2
      <3>2. QED
        BY <1>4, <3>1, SubSeqProperties
    <2> HIDE DEF q
    <2>2. Len(q) = IF start + 1 <= to THEN to - start ELSE 0
      BY <1>2, <2>1
    <2>3. ASSUME NEW k \in 1..Len(q) PROVE q[k] = s[start + k] /\ start + k <= to
      <3>1. k \in 1..(to - (start + 1) + 1) /\ (start + 1) + k - 1 = start + k
            /\ start + k <= to
        BY <1>2, <2>2
      <3>2. q[k] = s[(start + 1) + k - 1]
        BY <2>1, <3>1, Zenon
      <3>3. QED
        BY <3>1, <3>2, Zenon
    <2>4. QED
      BY <2>1, <2>2, <2>3, Zenon DEF q
  <1> DEFINE b == SubSeq(s, start + 1, to)
  <1>6. Bytes(s, start, n) = b
    BY DEF Bytes, to
  <1>7. /\ b \in Seq(Byte)
        /\ Len(b) = IF start + 1 <= to THEN to - start ELSE 0
        /\ \A k \in 1..Len(b) : b[k] = s[start + k] /\ start + k <= to
    BY <1>5
  <1> HIDE DEF b
  <1>8. /\ Len(b) \in 0..n
        /\ start + n <= Len(s) => Len(b) = n
        /\ start <= Len(s) /\ Len(s) < start + n => Len(b) = Len(s) - start
        /\ Len(s) < start => Len(b) = 0
    BY <1>1, <1>2, <1>7
  <1>9. \A k \in 1..Len(b) : b[k] = s[start + k] /\ start + k <= Len(s)
    BY <1>1, <1>2, <1>7, <1>8
  <1>10. QED
    BY <1>6, <1>7, <1>8, <1>9

\* Two sequences of the same length and elements are the same.
LEMMA SameSeq ==
    ASSUME NEW S, NEW s \in Seq(S), NEW t \in Seq(S), Len(s) = Len(t),
           \A k \in 1..Len(s) : s[k] = t[k]
    PROVE  s = t
  BY SeqEqual

\* A descriptor just positioned has delivered nothing.
LEMMA ConsecutiveFresh ==
    ASSUME NEW data \in Seq(Byte), NEW at \in Nat
    PROVE  Consecutive(data, at, <<>>, at)
  <1>1. Bytes(data, at, 0) \in Seq(Byte) /\ Len(Bytes(data, at, 0)) = 0
    <2> DEFINE z == 0
    <2>1. z \in Nat
      OBVIOUS
    <2> HIDE DEF z
    <2>2. Bytes(data, at, z) \in Seq(Byte) /\ Len(Bytes(data, at, z)) \in 0..z
      BY <2>1, BytesItems, Zenon
    <2>3. QED
      BY <2>2 DEF z
  <1>2. Bytes(data, at, 0) = <<>>
    BY <1>1, EmptySeq
  <1>3. at - at = 0 /\ at + 0 = at /\ Len(<<>>) = 0
    OBVIOUS
  <1>4. QED
    BY <1>2, <1>3 DEF Consecutive

\* What was delivered is still a run of the file when the file has grown.
LEMMA ConsecutiveGrown ==
    ASSUME NEW data \in Seq(Byte), NEW more \in Seq(Byte), Prefix(data, more),
           NEW base \in Nat, NEW bytes \in Seq(Byte), NEW offset \in Nat, Consecutive(data, base, bytes, offset)
    PROVE  Consecutive(more, base, bytes, offset)
  <1> DEFINE n == offset - base
             b == Bytes(data, base, n)
             c == Bytes(more, base, n)
  <1>1. Len(bytes) \in Nat
    OBVIOUS
  <1>2. n \in Nat /\ n = Len(bytes) /\ bytes = b
    BY <1>1 DEF Consecutive
  <1> HIDE DEF n, b, c
  <1>3. /\ Len(data) \in Nat /\ Len(more) \in Nat /\ Len(data) <= Len(more)
        /\ \A k \in 1..Len(data) : data[k] = more[k]
    <2>1. Len(data) \in Nat /\ Len(more) \in Nat /\ Len(data) <= Len(more)
          /\ data = SubSeq(more, 1, Len(data))
      BY DEF Prefix
    <2>2. \A k \in 1..Len(data) : SubSeq(more, 1, Len(data))[k] = more[k]
      BY <2>1
    <2>3. QED
      BY <2>1, <2>2, Zenon
  <1>4. /\ b \in Seq(Byte) /\ Len(b) = n
        /\ \A k \in 1..n : b[k] = data[base + k] /\ base + k <= Len(data)
    <2>1. n \in Nat
      BY <1>2
    <2>2. Len(b) = n
      BY <1>2, Zenon
    <2>3. /\ b \in Seq(Byte)
          /\ \A k \in 1..Len(b) : b[k] = data[base + k] /\ base + k <= Len(data)
      BY <2>1, BytesItems, Zenon DEF b
    <2>4. QED
      BY <2>2, <2>3, Zenon
  <1>5. /\ c \in Seq(Byte) /\ Len(c) \in 0..n
        /\ base + n <= Len(more) => Len(c) = n
        /\ \A k \in 1..Len(c) : c[k] = more[base + k] /\ base + k <= Len(more)
    <2>1. n \in Nat
      BY <1>2
    <2>2. QED
      BY <2>1, BytesItems, Zenon DEF c
  <1>6. Len(c) = n
    <2>1. CASE n = 0
      BY <1>5, <2>1
    <2>2. CASE n # 0
      <3>1. base + n <= Len(data)
        BY <1>2, <1>4, <2>2
      <3>2. QED
        BY <1>1, <1>2, <1>3, <1>5, <3>1
    <2>3. QED
      BY <2>1, <2>2
  <1>7. ASSUME NEW k \in 1..n PROVE b[k] = c[k]
    <2>1. base + k \in 1..Len(data)
      BY <1>1, <1>2, <1>3, <1>4
    <2>2. QED
      BY <1>3, <1>4, <1>5, <1>6, <2>1
  <1>8. b = c
    BY <1>4, <1>5, <1>6, <1>7, SameSeq
  <1>9. QED
    BY <1>2, <1>8 DEF Consecutive, n, b, c

\* A read continues the run.
LEMMA ConsecutiveRead ==
    ASSUME NEW data \in Seq(Byte), NEW base \in Nat, NEW bytes \in Seq(Byte), NEW offset \in Nat, NEW n \in Nat,
           Consecutive(data, base, bytes, offset)
    PROVE  LET r == Bytes(data, offset, n)
           IN  /\ bytes \o r \in Seq(Byte)
               /\ Consecutive(data, base, bytes \o r, offset + Len(r))
  <1> DEFINE m == offset - base
             b == Bytes(data, base, m)
             r == Bytes(data, offset, n)
             c == Bytes(data, base, m + Len(r))
  <1>1. Len(bytes) \in Nat /\ Len(data) \in Nat
    OBVIOUS
  <1>2. m \in Nat /\ m = Len(bytes) /\ bytes = b /\ offset = base + m
    BY <1>1 DEF Consecutive
  <1> HIDE DEF m, b, c, r
  <1>3. /\ b \in Seq(Byte) /\ Len(b) = m
        /\ \A k \in 1..m : b[k] = data[base + k] /\ base + k <= Len(data)
    <2>1. m \in Nat
      BY <1>2
    <2>2. Len(b) = m
      BY <1>2, Zenon
    <2>3. /\ b \in Seq(Byte)
          /\ \A k \in 1..Len(b) : b[k] = data[base + k] /\ base + k <= Len(data)
      BY <2>1, BytesItems, Zenon DEF b
    <2>4. QED
      BY <2>2, <2>3, Zenon
  <1>4. /\ r \in Seq(Byte) /\ Len(r) \in Nat
        /\ \A k \in 1..Len(r) : r[k] = data[offset + k] /\ offset + k <= Len(data)
    <2>1. /\ r \in Seq(Byte)
          /\ \A k \in 1..Len(r) : r[k] = data[offset + k] /\ offset + k <= Len(data)
      BY BytesItems, Zenon DEF r
    <2>2. QED
      BY <2>1
  <1>5. m + Len(r) \in Nat
    BY <1>2, <1>4
  <1>6. /\ c \in Seq(Byte) /\ Len(c) \in 0..(m + Len(r))
        /\ base + (m + Len(r)) <= Len(data) => Len(c) = m + Len(r)
        /\ \A k \in 1..Len(c) : c[k] = data[base + k] /\ base + k <= Len(data)
    BY <1>5, BytesItems, Zenon DEF c
  <1>7. Len(c) = m + Len(r)
    <2>1. CASE Len(r) # 0
      <3>1. offset + Len(r) <= Len(data)
        BY <1>4, <2>1
      <3>2. QED
        BY <1>1, <1>2, <1>4, <1>6, <3>1
    <2>2. CASE Len(r) = 0 /\ m # 0
      <3>1. base + m <= Len(data)
        BY <1>2, <1>3, <2>2
      <3>2. QED
        BY <1>1, <1>2, <1>4, <1>6, <2>2, <3>1
    <2>3. CASE Len(r) = 0 /\ m = 0
      BY <1>6, <2>3
    <2>4. QED
      BY <2>1, <2>2, <2>3
  <1>8. /\ b \o r \in Seq(Byte) /\ Len(b \o r) = m + Len(r)
        /\ \A k \in 1..(m + Len(r)) : (b \o r)[k] = IF k <= m THEN b[k] ELSE r[k - m]
    <2>1. Len(b) = m /\ b \in Seq(Byte) /\ r \in Seq(Byte)
      BY <1>3, <1>4
    <2>2. /\ b \o r \in Seq(Byte) /\ Len(b \o r) = Len(b) + Len(r)
          /\ \A k \in 1..(Len(b) + Len(r)) :
                (b \o r)[k] = IF k <= Len(b) THEN b[k] ELSE r[k - Len(b)]
      BY <2>1, ConcatProperties, Zenon
    <2>3. QED
      BY <2>1, <2>2, Zenon
  <1>9. ASSUME NEW k \in 1..(m + Len(r)) PROVE (b \o r)[k] = c[k]
    <2>1. CASE k <= m
      <3>1. k \in 1..m /\ k \in 1..Len(c)
        BY <1>2, <1>4, <1>7, <2>1
      <3>2. b[k] = c[k]
        BY <1>3, <1>6, <3>1
      <3>3. QED
        BY <1>8, <2>1, <3>2
    <2>2. CASE ~(k <= m)
      <3>1. k - m \in 1..Len(r) /\ offset + (k - m) = base + k
        BY <1>1, <1>2, <1>4, <2>2
      <3>2. QED
        BY <1>4, <1>6, <1>7, <1>8, <2>2, <3>1
    <2>3. QED
      BY <2>1, <2>2
  <1>10. b \o r = c
    BY <1>6, <1>7, <1>8, <1>9, SameSeq
  <1>11. (offset + Len(r)) - base = m + Len(r) /\ base + (m + Len(r)) = offset + Len(r)
    BY <1>2, <1>4
  <1>12. Consecutive(data, base, b \o r, offset + Len(r))
    BY <1>8, <1>10, <1>11 DEF Consecutive, c
  <1>13. QED
    BY <1>2, <1>8, <1>12 DEF r

\* A write extends the data.
LEMMA ExtendedPrefix ==
    ASSUME NEW data \in Seq(Byte), NEW start \in Nat, NEW buf \in Seq(Byte)
    PROVE  Extended(data, start, buf) \in Seq(Byte) /\ Prefix(data, Extended(data, start, buf))
  <1>1. ASSUME NEW tail \in Seq(Byte)
        PROVE  data \o tail \in Seq(Byte) /\ Prefix(data, data \o tail)
    <2>1. /\ data \o tail \in Seq(Byte) /\ Len(data \o tail) = Len(data) + Len(tail)
          /\ Len(data) \in Nat /\ Len(tail) \in Nat
          /\ \A k \in 1..Len(data) : (data \o tail)[k] = data[k]
      BY ConcatProperties
    <2> DEFINE u == data \o tail
    <2> HIDE DEF u
    <2>2. /\ u \in Seq(Byte) /\ Len(data) <= Len(u)
          /\ \A k \in 1..Len(data) : u[k] = data[k]
      BY <2>1 DEF u
    <2>3. /\ SubSeq(u, 1, Len(data)) \in Seq(Byte)
          /\ Len(SubSeq(u, 1, Len(data))) = Len(data)
          /\ \A k \in 1..Len(data) : SubSeq(u, 1, Len(data))[k] = u[k]
      BY <2>1, <2>2, SubSeqProperties
    <2>4. data = SubSeq(u, 1, Len(data))
      BY <2>2, <2>3, SameSeq
    <2>5. QED
      BY <2>1, <2>2, <2>4 DEF Prefix, u
  <1>2. CASE start > Len(data)
    <2>1. Zeros(start - Len(data)) \in Seq(Byte)
      <3>1. start - Len(data) \in Nat /\ Zero \in Byte
        BY <1>2, VfsAssumption
      <3>2. QED
        BY <3>1 DEF Zeros
    <2>2. (data \o Zeros(start - Len(data))) \o buf = data \o (Zeros(start - Len(data)) \o buf)
      BY <2>1, ConcatAssociative
    <2>3. Zeros(start - Len(data)) \o buf \in Seq(Byte)
      BY <2>1, ConcatProperties
    <2>4. QED
      BY <1>1, <1>2, <2>2, <2>3 DEF Extended
  <1>3. CASE ~(start > Len(data))
    BY <1>1, <1>3 DEF Extended
  <1>4. QED
    BY <1>2, <1>3

-----------------------------------------------------------------------------
(* Slots *)

\* The data of a slot that has a file.
LEMMA SlotFile ==
    ASSUME NEW es, Listing(es), NEW f \in Slot, Resolved(es, f), HasFile(es, f)
    PROVE  /\ f[1] \in FileDescriptor /\ f[1].offset \in Nat
           /\ Matches(es, f[1].name) # {}
           /\ Found(es, f[1].name) \in Entry
           /\ Found(es, f[1].name).data # None
           /\ Found(es, f[1].name).data[1] \in Seq(Byte)
  <1>1. f # None /\ Found(es, f[1].name).data # None
    BY DEF HasFile
  <1>2. Matches(es, f[1].name) # {}
    BY <1>1 DEF Resolved
  <1>3. Found(es, f[1].name) \in Entry /\ Len(Found(es, f[1].name).data) <= 1
    BY <1>2, FirstFound
  <1>4. f[1] \in FileDescriptor
    BY <1>1, SlotOption
  <1>5. f[1].offset \in Nat
    BY <1>4 DEF FileDescriptor
  <1>6. QED
    BY <1>1, <1>2, <1>3, <1>4, <1>5, DataOption

\* A slot that a step leaves alone stays resolved and contiguous when what its
\* name finds is kept.
LEMMA KeptSlot ==
    ASSUME NEW es, Listing(es), NEW et, Listing(et), NEW f \in Slot, NEW s \in Seen,
           Resolved(es, f), Contiguous(es, f, s), f # None => Kept(es, et, f[1].name)
    PROVE  Resolved(et, f) /\ Contiguous(et, f, s)
  <1>1. CASE f = None
    BY <1>1 DEF Resolved, Contiguous, HasFile
  <1>2. CASE f # None
    <2>1. Matches(es, f[1].name) # {} /\ Kept(es, et, f[1].name)
      BY <1>2 DEF Resolved
    <2>2. Resolved(et, f)
      BY <1>2, <2>1 DEF Resolved, Kept
    <2>3. ASSUME HasFile(et, f)
          PROVE  Consecutive(Found(et, f[1].name).data[1], s.base, s.bytes, f[1].offset)
      <3>1. HasFile(es, f)
        BY <2>1, <2>3 DEF HasFile, Kept
      <3>2. Prefix(Found(es, f[1].name).data[1], Found(et, f[1].name).data[1])
        BY <2>1, <3>1 DEF HasFile, Kept
      <3>3. Found(es, f[1].name).data[1] \in Seq(Byte) /\ f[1].offset \in Nat
        BY <3>1, SlotFile
      <3>4. Found(et, f[1].name).data[1] \in Seq(Byte)
        BY <2>2, <2>3, SlotFile
      <3>5. Consecutive(Found(es, f[1].name).data[1], s.base, s.bytes, f[1].offset)
        BY <3>1 DEF Contiguous
      <3>6. s.base \in Nat /\ s.bytes \in Seq(Byte)
        BY DEF Seen
      <3>7. QED
        BY <3>2, <3>3, <3>4, <3>5, <3>6, ConsecutiveGrown
    <2>4. QED
      BY <2>2, <2>3 DEF Contiguous
  <1>3. QED
    BY <1>1, <1>2

\* A slot whose name and type resolve, just positioned.
LEMMA FreshSlot ==
    ASSUME NEW es, Listing(es), NEW f \in Slot, Resolved(es, f), NEW at \in Nat,
           f # None => f[1].offset = at
    PROVE  Positioned(at) \in Seen /\ Contiguous(es, f, Positioned(at))
  <1>1. /\ Positioned(at) \in Seen
        /\ Positioned(at).base = at /\ Positioned(at).bytes = <<>>
    BY DEF Positioned, Seen
  <1>2. ASSUME HasFile(es, f)
        PROVE  Consecutive(Found(es, f[1].name).data[1], at, <<>>, f[1].offset)
    <2>1. Found(es, f[1].name).data[1] \in Seq(Byte)
      BY <1>2, SlotFile
    <2>2. f[1].offset = at
      BY <1>2 DEF HasFile
    <2>3. QED
      BY <2>1, <2>2, ConsecutiveFresh
  <1>3. QED
    BY <1>1, <1>2 DEF Contiguous

\* Setting an offset changes nothing else of the table.
LEMMA OffsetStep ==
    ASSUME open_files \in [Fd -> Slot], NEW fd \in Fd, open_files[fd] # None,
           NEW o \in Nat, SetOffset(fd, o)
    PROVE  /\ open_files' \in [Fd -> Slot]
           /\ \A j \in Fd : j # fd => open_files'[j] = open_files[j]
           /\ open_files'[fd] \in Slot
           /\ open_files'[fd] # None
           /\ open_files'[fd][1].name = open_files[fd][1].name
           /\ open_files'[fd][1].file_type = open_files[fd][1].file_type
           /\ open_files'[fd][1].offset = o
  <1> DEFINE of == open_files
             og == open_files'
             d == [of[fd][1] EXCEPT !.offset = o]
  <1>0. of \in [Fd -> Slot] /\ of[fd] # None /\ og = [of EXCEPT ![fd][1].offset = o]
    BY DEF SetOffset
  <1> HIDE DEF of, og
  <1>1. of[fd] \in Slot /\ of[fd][1] \in FileDescriptor /\ of[fd] = <<of[fd][1]>>
    BY <1>0, SlotOption DEF Some
  <1>2. /\ d \in FileDescriptor /\ d.offset = o
        /\ d.name = of[fd][1].name /\ d.file_type = of[fd][1].file_type
    BY <1>1 DEF FileDescriptor
  <1>3. og[fd] = [of[fd] EXCEPT ![1].offset = o]
    BY <1>0
  <1>4. [of[fd] EXCEPT ![1].offset = o] = <<d>>
    <2>1. DOMAIN of[fd] = 1..1
      BY <1>1
    <2>2. QED
      BY <1>1, <2>1
  <1>5. og[fd] = Some(d)
    BY <1>3, <1>4 DEF Some
  <1>6. \A j \in Fd : j # fd => og[j] = of[j]
    BY <1>0
  <1>7. Some(d) \in Slot /\ Some(d) # None /\ Some(d)[1] = d
    BY <1>2, SomeSlot
  <1>8. og \in [Fd -> Slot]
    BY <1>0, <1>5, <1>6, <1>7
  <1> HIDE DEF d
  <1>9. og[fd] # None /\ og[fd][1] = d
    BY <1>5, <1>7
  <1>10. QED
    BY <1>2, <1>6, <1>8, <1>9 DEF of, og

\* A handler's result fits the register.
LEMMA ReturnType ==
    ASSUME NEW r, r.ok \in BOOLEAN, r.value \in Int, Return(r)
    PROVE  ret' \in [ok: BOOLEAN, rax: 0..(2^Width - 1)]
  BY RaxType, Zenon DEF Return, Rax

\* The two kinds of result.
LEMMA Results ==
    \A v \in Int : /\ Success(v).ok \in BOOLEAN /\ Success(v).value \in Int
                   /\ Error(v).ok \in BOOLEAN /\ Error(v).value \in Int
  BY DEF Success, Error

-----------------------------------------------------------------------------
(* The steps *)

\* What the file system's operators say of a descriptor, in terms of its slot.
LEMMA View ==
    ASSUME IInv, NEW fd \in Fd
    PROVE  /\ IsOpen(fd) <=> open_files[fd] # None
           /\ IsTty(fd) => open_files[fd] # None
           /\ IsFile(fd) <=> HasFile(entries, open_files[fd])
           /\ IsOpen(fd) => DataOf(fd) = Found(entries, open_files[fd][1].name).data
  <1>1. Resolved(entries, open_files[fd])
    BY DEF IInv
  <1>2. IsOpen(fd) <=> open_files[fd] # None
    BY DEF IsOpen
  <1>3. IsOpen(fd) => DataOf(fd) = Found(entries, open_files[fd][1].name).data
    BY <1>1, <1>2 DEF Resolved, DataOf, Name, Found
  <1>4. IsTty(fd) <=> open_files[fd] # None /\ open_files[fd][1].name = "tty"
    BY <1>2 DEF IsTty, Name
  <1>5. QED
    BY <1>2, <1>3, <1>4 DEF IsFile, HasFile

\* An argument is taken for a name.
LEMMA ArgName ==
    ASSUME NEW arg \in Arg
    PROVE  Utf8(arg) \in FileName
  <1>1. arg = NotUtf8 \/ arg \in Path
    BY DEF Arg
  <1>2. "" \in FileName /\ Path \subseteq FileName
    BY DEF FileName
  <1>3. QED
    BY <1>1, <1>2, Zenon DEF Utf8

\* What is left when a step leaves the entries and one descriptor alone.
LEMMA SameSlot ==
    ASSUME IInv, NEW j \in Fd
    PROVE  /\ open_files[j] \in Slot /\ seen[j] \in Seen
           /\ Resolved(entries, open_files[j])
           /\ Contiguous(entries, open_files[j], seen[j])
           /\ Kept(entries, entries, open_files[j][1].name)
  <1>1. Listing(entries) /\ open_files \in [Fd -> Slot] /\ seen \in [Fd -> Seen]
    BY DEF IInv, Types
  <1>2. Kept(entries, entries, open_files[j][1].name)
    BY <1>1, KeptSame
  <1>3. QED
    BY <1>1, <1>2 DEF IInv

\* A step that leaves the file system as it is.
LEMMA QuietStep ==
    ASSUME IInv, UNCHANGED <<vfsVars, seen>>, TtyTypes',
           ret' \in [ok: BOOLEAN, rax: 0..(2^Width - 1)]
    PROVE  IInv' /\ Growth
  <1>1. entries' = entries /\ open_files' = open_files /\ seen' = seen
    BY DEF vfsVars
  <1>2. Growth
    BY <1>1, SameSlot DEF Growth
  <1>3. Types'
    BY <1>1 DEF IInv, Types
  <1>4. (\A j \in Fd : Resolved(entries, open_files[j]))'
    BY <1>1, SameSlot
  <1>5. (\A j \in Fd : Contiguous(entries, open_files[j], seen[j]))'
    BY <1>1, SameSlot
  <1>6. QED
    BY <1>2, <1>3, <1>4, <1>5 DEF IInv

\* The slot open chooses.
LEMMA OpenSlot ==
    ASSUME NEW path, OpenResult(path) # None
    PROVE  /\ OpenResult(path)[1] \in FreeSlots
           /\ OpenResult(path) = Some(OpenResult(path)[1])
           /\ Matches(entries, path) # {}
  <1>1. Matches(entries, path) # {} /\ FreeSlots # {}
    BY DEF OpenResult
  <1>2. FreeSlots \subseteq Nat
    BY VfsAssumption DEF FreeSlots, Fd
  <1> DEFINE j == CHOOSE j \in FreeSlots : \A k \in FreeSlots : j <= k
  <1>3. j \in FreeSlots
    <2>1. \E i \in FreeSlots : \A k \in FreeSlots : i <= k
      BY <1>1, <1>2, Least
    <2>2. QED
      BY <2>1, Zenon
  <1>4. OpenResult(path) = Some(j)
    BY <1>1, Zenon DEF OpenResult
  <1> HIDE DEF j
  <1>5. Some(j)[1] = j
    BY DEF Some
  <1>6. QED
    BY <1>1, <1>3, <1>4, <1>5

\* open: the new slot resolves, and is positioned at the start.
LEMMA OpenStep ==
    ASSUME IInv, NEW arg \in Arg, HandleOpen(arg)
    PROVE  IInv' /\ Growth
  <1> DEFINE path == Utf8(arg)
             fd == OpenResult(path)[1]
             d == [name |-> path, offset |-> 0,
                   file_type |-> entries[First(entries, path)].file_type]
  <1>1. entries' = entries /\ UNCHANGED ttyVars
    BY DEF HandleOpen, Open
  <1>2. /\ Listing(entries) /\ open_files \in [Fd -> Slot] /\ seen \in [Fd -> Seen]
        /\ TtyTypes'
    BY <1>1 DEF IInv, Types, TtyTypes, ttyVars
  <1>3. CASE OpenResult(path) = None
    <2>1. UNCHANGED <<vfsVars, seen>> /\ Return(Error(1))
      BY <1>1, <1>3 DEF HandleOpen, Open, vfsVars
    <2>2. QED
      BY <1>2, <2>1, QuietStep, ReturnType, Results
  <1>4. CASE OpenResult(path) # None
    <2>1. fd \in Fd /\ open_files[fd] = None /\ Matches(entries, path) # {}
      BY <1>4, OpenSlot DEF FreeSlots
    <2>2. /\ open_files' = [open_files EXCEPT ![fd] = Some(d)]
          /\ Return(Success(fd))
          /\ seen' = [seen EXCEPT ![fd] = Positioned(0)]
      BY <1>4 DEF HandleOpen, Open
    <2>3. path \in FileName
      BY ArgName
    <2>4. Found(entries, path).file_type \in FileType
      BY <1>2, <2>1, FirstFound DEF Entry
    <2>5. d \in FileDescriptor /\ d.offset = 0 /\ d.name = path
          /\ d.file_type = Found(entries, path).file_type
      BY <2>3, <2>4 DEF FileDescriptor, Found
    <2> HIDE DEF d, path, fd
    <2>6. Some(d) \in Slot /\ Some(d) # None /\ Some(d)[1] = d
      BY <2>5, SomeSlot
    <2>7. Resolved(entries, Some(d))
      BY <2>1, <2>5, <2>6 DEF Resolved
    <2>8. Positioned(0) \in Seen /\ Contiguous(entries, Some(d), Positioned(0))
      BY <1>2, <2>5, <2>6, <2>7, FreshSlot
    <2>9. /\ open_files' \in [Fd -> Slot] /\ open_files'[fd] = Some(d)
          /\ \A j \in Fd : j # fd => open_files'[j] = open_files[j]
      BY <1>2, <2>1, <2>2, <2>6
    <2>10. /\ seen' \in [Fd -> Seen] /\ seen'[fd] = Positioned(0)
           /\ \A j \in Fd : j # fd => seen'[j] = seen[j]
      BY <1>2, <2>1, <2>2, <2>8
    <2>11. ret' \in [ok: BOOLEAN, rax: 0..(2^Width - 1)]
      <3>1. fd \in Int
        BY <2>1, VfsAssumption DEF Fd
      <3>2. QED
        BY <2>2, <3>1, ReturnType, Results
    <2>12. Types'
      BY <1>1, <1>2, <2>9, <2>10, <2>11 DEF Types
    <2>13. (\A j \in Fd : Resolved(entries, open_files[j]))'
      BY <1>1, <2>7, <2>9, SameSlot
    <2>14. (\A j \in Fd : Contiguous(entries, open_files[j], seen[j]))'
      BY <1>1, <2>8, <2>9, <2>10, SameSlot
    <2>15. Growth
      BY <1>1, <2>1, <2>9, SameSlot DEF Growth
    <2>16. QED
      BY <2>12, <2>13, <2>14, <2>15 DEF IInv
  <1>5. QED
    BY <1>3, <1>4

\* close: the slot is empty.
LEMMA CloseStep ==
    ASSUME IInv, NEW fd \in Fd, HandleClose(fd)
    PROVE  IInv' /\ Growth
  <1>1. entries' = entries /\ UNCHANGED ttyVars
    BY DEF HandleClose, Close
  <1>2. /\ Listing(entries) /\ open_files \in [Fd -> Slot] /\ seen \in [Fd -> Seen]
        /\ TtyTypes'
    BY <1>1 DEF IInv, Types, TtyTypes, ttyVars
  <1>3. /\ open_files' \in [Fd -> Slot] /\ open_files'[fd] = None
        /\ \A j \in Fd : j # fd => open_files'[j] = open_files[j]
    <2>1. CASE IsOpen(fd)
      <3>1. open_files' = [open_files EXCEPT ![fd] = None]
        BY <2>1 DEF HandleClose, Close
      <3>2. QED
        BY <1>2, <3>1, SomeSlot
    <2>2. CASE ~IsOpen(fd)
      <3>1. open_files' = open_files /\ open_files[fd] = None
        BY <2>2 DEF HandleClose, Close, IsOpen
      <3>2. QED
        BY <1>2, <3>1
    <2>3. QED
      BY <2>1, <2>2
  <1>4. None \in Slot /\ Resolved(entries, None)
    BY SomeSlot DEF Resolved
  <1>5. Positioned(0) \in Seen /\ Contiguous(entries, None, Positioned(0))
    BY <1>2, <1>4, FreshSlot
  <1>6. /\ seen' \in [Fd -> Seen] /\ seen'[fd] = Positioned(0)
        /\ \A j \in Fd : j # fd => seen'[j] = seen[j]
    <2>1. seen' = [seen EXCEPT ![fd] = Positioned(0)]
      BY DEF HandleClose
    <2>2. QED
      BY <1>2, <1>5, <2>1
  <1>7. ret' \in [ok: BOOLEAN, rax: 0..(2^Width - 1)]
    <2>1. Return(Success(0))
      BY DEF HandleClose
    <2>2. QED
      BY <2>1, ReturnType, Results
  <1>8. Types'
    BY <1>1, <1>2, <1>3, <1>6, <1>7 DEF Types
  <1>9. (\A j \in Fd : Resolved(entries, open_files[j]))'
    BY <1>1, <1>3, <1>4, SameSlot
  <1>10. (\A j \in Fd : Contiguous(entries, open_files[j], seen[j]))'
    BY <1>1, <1>3, <1>5, <1>6, SameSlot
  <1>11. Growth
    BY <1>1, <1>3, SameSlot DEF Growth
  <1>12. QED
    BY <1>8, <1>9, <1>10, <1>11 DEF IInv

\* A step that sets the offset of one open descriptor, and changes at most the
\* data its name and the others find.
LEMMA MoveStep ==
    ASSUME IInv, NEW fd \in Fd, open_files[fd] # None, NEW o \in Nat, SetOffset(fd, o),
           Listing(entries'), \A path : Kept(entries, entries', path),
           UNCHANGED ttyVars, ret' \in [ok: BOOLEAN, rax: 0..(2^Width - 1)],
           NEW s \in Seen, seen' = [seen EXCEPT ![fd] = s],
           Contiguous(entries', open_files'[fd], s)
    PROVE  IInv' /\ Growth
  <1>1. /\ Listing(entries) /\ open_files \in [Fd -> Slot] /\ seen \in [Fd -> Seen]
        /\ TtyTypes'
    BY DEF IInv, Types, TtyTypes, ttyVars
  <1>2. /\ open_files' \in [Fd -> Slot]
        /\ \A j \in Fd : j # fd => open_files'[j] = open_files[j]
        /\ open_files'[fd] # None
        /\ open_files'[fd][1].name = open_files[fd][1].name
        /\ open_files'[fd][1].file_type = open_files[fd][1].file_type
    BY <1>1, OffsetStep
  <1>3. /\ seen' \in [Fd -> Seen] /\ seen'[fd] = s
        /\ \A j \in Fd : j # fd => seen'[j] = seen[j]
    BY <1>1
  <1>4. ASSUME NEW j \in Fd
        PROVE  Resolved(entries', open_files[j]) /\ Contiguous(entries', open_files[j], seen[j])
    BY <1>1, SameSlot, KeptSlot
  <1>5. Resolved(entries', open_files'[fd])
    BY <1>2, <1>4 DEF Resolved
  <1>6. Types'
    BY <1>1, <1>2, <1>3 DEF Types
  <1>7. (\A j \in Fd : Resolved(entries, open_files[j]))'
    BY <1>2, <1>4, <1>5
  <1>8. (\A j \in Fd : Contiguous(entries, open_files[j], seen[j]))'
    BY <1>2, <1>3, <1>4
  <1>9. Growth
    BY DEF Growth
  <1>10. QED
    BY <1>6, <1>7, <1>8, <1>9 DEF IInv

\* seek: the descriptor is positioned.
LEMMA SeekStep ==
    ASSUME IInv, NEW fd \in Fd, NEW o \in 0..MaxSize, HandleSeek(fd, o)
    PROVE  IInv' /\ Growth
  <1>1. o \in Nat
    BY VfsAssumption
  <1>2. Listing(entries) /\ open_files \in [Fd -> Slot] /\ TtyTypes'
    BY DEF IInv, Types, TtyTypes, ttyVars, HandleSeek, Seek
  <1>3. ret' \in [ok: BOOLEAN, rax: 0..(2^Width - 1)]
    <2>1. Return(Success(0)) \/ Return(Error(1))
      BY DEF HandleSeek
    <2>2. QED
      BY <2>1, ReturnType, Results
  <1>4. CASE ~IsOpen(fd)
    <2>1. UNCHANGED <<vfsVars, seen>>
      BY <1>4 DEF HandleSeek, Seek, vfsVars
    <2>2. QED
      BY <1>2, <1>3, <2>1, QuietStep
  <1>5. CASE IsOpen(fd)
    <2>1. /\ open_files[fd] # None /\ SetOffset(fd, o)
          /\ entries' = entries /\ UNCHANGED ttyVars
          /\ seen' = [seen EXCEPT ![fd] = Positioned(o)]
      BY <1>5 DEF HandleSeek, Seek, IsOpen
    <2>2. /\ open_files'[fd] \in Slot /\ open_files'[fd] # None
          /\ open_files'[fd][1].name = open_files[fd][1].name
          /\ open_files'[fd][1].file_type = open_files[fd][1].file_type
          /\ open_files'[fd][1].offset = o
      BY <1>1, <1>2, <2>1, OffsetStep
    <2>3. Resolved(entries, open_files'[fd])
      <3>1. Resolved(entries, open_files[fd])
        BY SameSlot
      <3>2. QED
        BY <2>1, <2>2, <3>1 DEF Resolved
    <2>4. Positioned(o) \in Seen /\ Contiguous(entries, open_files'[fd], Positioned(o))
      BY <1>1, <1>2, <2>2, <2>3, FreshSlot
    <2>5. \A path : Kept(entries, entries', path)
      BY <1>2, <2>1, KeptSame
    <2>6. QED
      BY <1>1, <1>2, <1>3, <2>1, <2>4, <2>5, MoveStep
  <1>6. QED
    BY <1>4, <1>5

\* The length of what Bytes takes, whatever the sequence is of.
LEMMA BytesLen ==
    ASSUME NEW S, NEW s \in Seq(S), NEW n \in Nat
    PROVE  Len(Bytes(s, 0, n)) \in Int
  <1> DEFINE to == AtMost(0 + n, Len(s))
  <1>1. to \in Nat /\ to <= Len(s)
    BY DEF AtMost
  <1>2. \A k \in 1..to : s[k] \in S
    BY <1>1
  <1> HIDE DEF to
  <1>3. SubSeq(s, 1, to) \in Seq(S)
    BY <1>1, <1>2
  <1>4. Bytes(s, 0, n) = SubSeq(s, 1, to)
    BY DEF Bytes, to
  <1>5. QED
    BY <1>3, <1>4

\* What read returns.
LEMMA ReadReturns ==
    ASSUME IInv, NEW fd \in Fd, NEW n \in Nat
    PROVE  /\ ReadResult(fd, n) # None => Len(ReadResult(fd, n)[1]) \in Int
           /\ IsFile(fd) => /\ ReadResult(fd, n) # None
                            /\ ReadResult(fd, n)[1] = Bytes(DataOf(fd)[1], Offset(fd), n)
  <1>1. CASE IsTty(fd)
    <2>1. ~IsFile(fd)
      BY <1>1 DEF IsFile
    <2>2. CASE ReadLineResult = None
      BY <1>1, <2>1, <2>2 DEF ReadResult, Some
    <2>3. CASE ReadLineResult # None
      <3>1. input_queue \in Seq(Seq(Char \cup {"newline"})) /\ input_queue # <<>>
        BY <2>3 DEF IInv, Types, TtyTypes, ReadLineResult
      <3>2. Head(input_queue) \in Seq(Char \cup {"newline"})
        BY <3>1, HeadTailProperties
      <3>3. ReadLineResult[1] = Head(input_queue)
        BY <3>1 DEF ReadLineResult, Some
      <3>4. Len(Bytes(ReadLineResult[1], 0, n)) \in Int
        BY <3>2, <3>3, BytesLen
      <3>5. ReadResult(fd, n)[1] = Bytes(ReadLineResult[1], 0, n)
        <4>1. ReadResult(fd, n) = Some(Bytes(ReadLineResult[1], 0, n))
          BY <1>1, <2>1, <2>3, Zenon DEF ReadResult
        <4>2. QED
          BY <4>1 DEF Some
      <3>6. QED
        BY <2>1, <3>4, <3>5
    <2>4. QED
      BY <2>2, <2>3
  <1>2. CASE IsFile(fd)
    <2>1. ~IsTty(fd) /\ IsOpen(fd)
      BY <1>2 DEF IsFile
    <2>2. ReadResult(fd, n) = Some(Bytes(DataOf(fd)[1], Offset(fd), n))
      BY <1>2, <2>1, Zenon DEF ReadResult
    <2>3. Listing(entries) /\ open_files[fd] \in Slot /\ Resolved(entries, open_files[fd])
      BY SameSlot DEF IInv, Types
    <2>4. HasFile(entries, open_files[fd])
          /\ DataOf(fd) = Found(entries, open_files[fd][1].name).data
      BY <1>2, <2>1, View
    <2>5. DataOf(fd)[1] \in Seq(Byte) /\ Offset(fd) \in Nat
      BY <2>3, <2>4, SlotFile DEF Offset
    <2> DEFINE b == Bytes(DataOf(fd)[1], Offset(fd), n)
    <2>6. b \in Seq(Byte)
      BY <2>5, BytesItems, Zenon
    <2> HIDE DEF b
    <2>7. ReadResult(fd, n) = Some(b) /\ Some(b) # None /\ Some(b)[1] = b
      BY <2>2 DEF b, Some, None
    <2>8. QED
      BY <2>6, <2>7 DEF b
  <1>3. CASE ~IsTty(fd) /\ ~IsFile(fd)
    BY <1>3 DEF ReadResult
  <1>4. QED
    BY <1>1, <1>2, <1>3

\* read: a file's descriptor continues its run, the terminal gives up a line.
LEMMA ReadStep ==
    ASSUME IInv, NEW fd \in Fd, NEW n \in 1..2, HandleRead(fd, n)
    PROVE  IInv' /\ Growth
  <1> DEFINE r == ReadResult(fd, n)
  <1>1. n \in Nat
    OBVIOUS
  <1>2. ret' \in [ok: BOOLEAN, rax: 0..(2^Width - 1)]
    <2>1. CASE r = None
      <3>1. Return(Error(1))
        BY <2>1 DEF HandleRead
      <3>2. QED
        BY <3>1, ReturnType, Results
    <2>2. CASE r # None
      <3>1. Return(Success(Len(r[1]))) /\ Len(r[1]) \in Int
        BY <1>1, <2>2, ReadReturns DEF HandleRead
      <3>2. QED
        BY <3>1, ReturnType, Results
    <2>3. QED
      BY <2>1, <2>2
  <1>3. CASE IsFile(fd)
    <2> DEFINE data == Found(entries, open_files[fd][1].name).data[1]
               o == open_files[fd][1].offset
               b == Bytes(data, o, n)
               t == [seen[fd] EXCEPT !.bytes = @ \o b]
    <2>1. /\ Listing(entries) /\ open_files \in [Fd -> Slot] /\ seen \in [Fd -> Seen]
          /\ open_files[fd] \in Slot /\ seen[fd] \in Seen
          /\ Resolved(entries, open_files[fd])
          /\ Contiguous(entries, open_files[fd], seen[fd])
      BY SameSlot DEF IInv, Types
    <2>2. /\ HasFile(entries, open_files[fd]) /\ open_files[fd] # None
          /\ DataOf(fd)[1] = data /\ Offset(fd) = o
      BY <1>3, View DEF IsFile, Offset
    <2>3. data \in Seq(Byte) /\ o \in Nat
      BY <2>1, <2>2, SlotFile
    <2>4. Consecutive(data, seen[fd].base, seen[fd].bytes, o)
      BY <2>1, <2>2 DEF Contiguous
    <2>5. seen[fd].base \in Nat /\ seen[fd].bytes \in Seq(Byte)
      BY <2>1 DEF Seen
    <2>6. r # None /\ r[1] = b
      BY <1>1, <1>3, <2>2, ReadReturns
    <2>7. /\ SetOffset(fd, Offset(fd) + Len(r[1]))
          /\ entries' = entries /\ UNCHANGED ttyVars
      BY <1>3, <2>6, Zenon DEF HandleRead, Read, IsFile
    <2> HIDE DEF data, o, r
    <2>8. seen' = [seen EXCEPT ![fd] = t]
      <3>1. seen' = [seen EXCEPT ![fd].bytes = @ \o r[1]]
        BY <1>3 DEF HandleRead, r
      <3>2. QED
        BY <2>6, <3>1
    <2>9. /\ seen[fd].bytes \o b \in Seq(Byte)
          /\ Consecutive(data, seen[fd].base, seen[fd].bytes \o b, o + Len(b))
      BY <1>1, <2>3, <2>4, <2>5, ConsecutiveRead
    <2>10. b \in Seq(Byte)
      BY <1>1, <2>3, BytesItems, Zenon
    <2> HIDE DEF b
    <2>11. t \in Seen /\ t.base = seen[fd].base /\ t.bytes = seen[fd].bytes \o b
      BY <2>1, <2>9 DEF Seen
    <2> HIDE DEF t
    <2>12. o + Len(b) \in Nat /\ SetOffset(fd, o + Len(b))
      BY <2>2, <2>3, <2>6, <2>7, <2>10
    <2>13. /\ open_files'[fd][1].name = open_files[fd][1].name
           /\ open_files'[fd][1].offset = o + Len(b)
      BY <2>1, <2>2, <2>12, OffsetStep
    <2>14. Contiguous(entries', open_files'[fd], t)
      BY <2>7, <2>9, <2>11, <2>13 DEF Contiguous, data
    <2>15. Listing(entries') /\ \A path : Kept(entries, entries', path)
      BY <2>1, <2>7, KeptSame
    <2>16. QED
      BY <1>2, <2>2, <2>7, <2>8, <2>11, <2>12, <2>14, <2>15, MoveStep
  <1>4. CASE ~IsFile(fd)
    <2>1. UNCHANGED <<vfsVars, seen>>
      BY <1>4 DEF HandleRead, Read, vfsVars
    <2>2. TtyTypes'
      <3>1. TtyTypes
        BY DEF IInv, Types
      <3>2. CASE ReadLine
        <4>1. CASE input_queue = <<>>
          BY <3>1, <3>2, <4>1 DEF ReadLine, TtyTypes
        <4>2. CASE input_queue # <<>>
          <5>1. Tail(input_queue) \in Seq(Seq(Char \cup {"newline"}))
            BY <3>1, <4>2, HeadTailProperties DEF TtyTypes
          <5>2. QED
            BY <3>1, <3>2, <4>2, <5>1 DEF ReadLine, TtyTypes
        <4>3. QED
          BY <4>1, <4>2
      <3>3. CASE UNCHANGED ttyVars
        BY <3>1, <3>3 DEF TtyTypes, ttyVars
      <3>4. QED
        BY <1>4, <3>2, <3>3 DEF HandleRead, Read
    <2>3. QED
      BY <1>2, <2>1, <2>2, QuietStep
  <1>5. QED
    BY <1>3, <1>4

\* write: the file grows, and the descriptor is positioned past what it wrote.
LEMMA WriteStep ==
    ASSUME IInv, NEW fd \in Fd, NEW b \in Byte, NEW utf8 \in BOOLEAN,
           HandleWriteFile(fd, <<b>>, utf8)
    PROVE  IInv' /\ Growth
  <1> DEFINE buf == <<b>>
             data == Found(entries, open_files[fd][1].name).data[1]
             o == open_files[fd][1].offset
             to == o + Len(buf)
             p == open_files[fd][1].name
  <1>1. buf \in Seq(Byte) /\ Len(buf) \in Nat
    OBVIOUS
  <1> HIDE DEF buf
  <1>2. ret' \in [ok: BOOLEAN, rax: 0..(2^Width - 1)]
    <2>1. WriteResult(fd, buf, utf8) # None => WriteResult(fd, buf, utf8)[1] = Len(buf)
      BY DEF WriteResult, Some
    <2>2. Return(Error(1)) \/ Return(Success(Len(buf)))
      BY <2>1 DEF HandleWriteFile, buf
    <2>3. QED
      BY <1>1, <2>2, ReturnType, Results
  <1>3. UNCHANGED ttyVars /\ TtyTypes'
    BY DEF HandleWriteFile, Write, IInv, Types, TtyTypes, ttyVars
  <1>4. CASE IsFile(fd)
    <2>1. /\ Listing(entries) /\ open_files \in [Fd -> Slot]
          /\ open_files[fd] \in Slot
          /\ Resolved(entries, open_files[fd])
      BY SameSlot DEF IInv, Types
    <2>2. /\ HasFile(entries, open_files[fd]) /\ open_files[fd] # None
          /\ DataOf(fd)[1] = data /\ Offset(fd) = o /\ Name(fd) = p
      BY <1>4, View DEF IsFile, Offset, Name
    <2>3. data \in Seq(Byte) /\ o \in Nat /\ Matches(entries, p) # {}
          /\ Found(entries, p).data # None
      BY <2>1, <2>2, SlotFile
    <2> DEFINE d == Extended(data, o, buf)
    <2>4. d \in Seq(Byte) /\ Prefix(data, d)
      BY <1>1, <2>3, ExtendedPrefix
    <2>5. /\ entries' = [entries EXCEPT ![First(entries, p)].data = Some(d)]
          /\ SetOffset(fd, to)
          /\ seen' = [seen EXCEPT ![fd] = Positioned(to)]
      BY <1>4, <2>2 DEF HandleWriteFile, Write, buf
    <2> HIDE DEF d
    <2>6. Listing(entries') /\ \A path : Kept(entries, entries', path)
      <3>1. Prefix(Found(entries, p).data[1], d)
        BY <2>4
      <3>2. QED
        BY <2>1, <2>3, <2>4, <2>5, <3>1, KeptWritten
    <2>7. to \in Nat
      BY <1>1, <2>3
    <2> HIDE DEF to
    <2>8. /\ open_files'[fd] \in Slot
          /\ open_files'[fd][1].name = open_files[fd][1].name
          /\ open_files'[fd][1].file_type = open_files[fd][1].file_type
          /\ open_files'[fd][1].offset = to
      BY <2>1, <2>2, <2>5, <2>7, OffsetStep
    <2>9. Resolved(entries', open_files'[fd])
      BY <2>2, <2>1, <2>6, <2>8 DEF Resolved, Kept
    <2>10. Positioned(to) \in Seen /\ Contiguous(entries', open_files'[fd], Positioned(to))
      BY <2>6, <2>7, <2>8, <2>9, FreshSlot
    <2>11. QED
      BY <1>2, <1>3, <2>2, <2>5, <2>6, <2>7, <2>10, MoveStep
  <1>5. CASE ~IsFile(fd)
    <2>1. UNCHANGED <<vfsVars, seen>>
      BY <1>5 DEF HandleWriteFile, Write, vfsVars
    <2>2. QED
      BY <1>2, <1>3, <2>1, QuietStep
  <1>6. QED
    BY <1>4, <1>5

\* A step that changes the entries and leaves the descriptors that stay open.
LEMMA EntriesStep ==
    ASSUME IInv, Listing(entries'), UNCHANGED ttyVars,
           ret' \in [ok: BOOLEAN, rax: 0..(2^Width - 1)],
           open_files' \in [Fd -> Slot], seen' \in [Fd -> Seen],
           \A j \in Fd : open_files'[j] # None =>
               /\ open_files'[j] = open_files[j] /\ seen'[j] = seen[j]
               /\ Kept(entries, entries', open_files[j][1].name)
    PROVE  IInv' /\ Growth
  <1>1. Listing(entries) /\ TtyTypes'
    BY DEF IInv, Types, TtyTypes, ttyVars
  <1>2. Types'
    BY <1>1 DEF Types
  <1>3. ASSUME NEW j \in Fd
        PROVE  Resolved(entries', open_files'[j]) /\ Contiguous(entries', open_files'[j], seen'[j])
    <2>1. CASE open_files'[j] = None
      BY <2>1 DEF Resolved, Contiguous, HasFile
    <2>2. CASE open_files'[j] # None
      <3>1. /\ open_files'[j] = open_files[j] /\ seen'[j] = seen[j]
            /\ Kept(entries, entries', open_files[j][1].name)
        BY <2>2
      <3>2. /\ open_files[j] \in Slot /\ seen[j] \in Seen
            /\ Resolved(entries, open_files[j])
            /\ Contiguous(entries, open_files[j], seen[j])
        BY SameSlot
      <3>3. Resolved(entries', open_files[j]) /\ Contiguous(entries', open_files[j], seen[j])
        BY <1>1, <3>1, <3>2, KeptSlot
      <3>4. QED
        BY <3>1, <3>3
    <2>3. QED
      BY <2>1, <2>2
  <1>4. Growth
    BY DEF Growth
  <1>5. QED
    BY <1>2, <1>3, <1>4 DEF IInv

\* mkdir: every descriptor resolves as it did.
LEMMA MkdirStep ==
    ASSUME IInv, NEW arg \in Arg, HandleMkdir(arg)
    PROVE  IInv' /\ Growth
  <1> DEFINE path == Utf8(arg)
             e == [name |-> path, file_type |-> "Directory", data |-> Some(<<>>)]
  <1>1. /\ Listing(entries) /\ open_files \in [Fd -> Slot] /\ seen \in [Fd -> Seen]
        /\ UNCHANGED <<open_files, ttyVars, seen>>
    BY DEF IInv, Types, HandleMkdir, Mkdir
  <1>2. ret' \in [ok: BOOLEAN, rax: 0..(2^Width - 1)]
    <2>1. Return(Success(0)) \/ Return(Error(1))
      BY DEF HandleMkdir
    <2>2. QED
      BY <2>1, ReturnType, Results
  <1>3. e \in Entry /\ Len(e.data) <= 1
    <2>1. path \in FileName
      BY ArgName
    <2>2. Some(<<>>) \in Seq(Seq(Byte)) /\ Len(Some(<<>>)) = 1
      BY DEF Some
    <2>3. e \in Entry
      BY <2>1, <2>2 DEF Entry, FileType
    <2>4. 1 <= 1
      OBVIOUS
    <2>5. Len(e.data) <= 1
      BY <2>2, <2>4, Zenon
    <2>6. QED
      BY <2>3, <2>5
  <1>4. entries' = entries \/ entries' = Append(entries, e)
    BY DEF HandleMkdir, Mkdir
  <1> HIDE DEF e
  <1>5. Listing(entries') /\ \A q : Kept(entries, entries', q)
    BY <1>1, <1>3, <1>4, KeptSame, KeptAppended
  <1>6. QED
    BY <1>1, <1>2, <1>5, EntriesStep

\* unlink: the descriptors of the name are closed, the others resolve as they did.
LEMMA UnlinkStep ==
    ASSUME IInv, NEW arg \in Arg, HandleUnlink(arg)
    PROVE  IInv' /\ Growth
  <1> DEFINE path == Utf8(arg)
  <1>1. /\ Listing(entries) /\ open_files \in [Fd -> Slot] /\ seen \in [Fd -> Seen]
        /\ UNCHANGED ttyVars
    BY DEF IInv, Types, HandleUnlink, Unlink
  <1>2. ret' \in [ok: BOOLEAN, rax: 0..(2^Width - 1)]
    <2>1. Return(Success(0)) \/ Return(Error(1))
      BY DEF HandleUnlink
    <2>2. QED
      BY <2>1, ReturnType, Results
  <1>3. /\ seen' \in [Fd -> Seen]
        /\ \A j \in Fd : open_files'[j] # None => seen'[j] = seen[j]
    <2>1. seen' = [j \in Fd |-> IF open_files'[j] = None THEN Positioned(0) ELSE seen[j]]
      BY DEF HandleUnlink
    <2>2. Positioned(0) \in Seen
      BY DEF Positioned, Seen
    <2>3. QED
      BY <1>1, <2>1, <2>2
  <1>4. CASE ~UnlinkResult(path)
    <2>1. entries' = entries /\ open_files' = open_files
      BY <1>4 DEF HandleUnlink, Unlink
    <2>2. \A q : Kept(entries, entries', q)
      BY <1>1, <2>1, KeptSame
    <2>3. QED
      BY <1>1, <1>2, <1>3, <2>1, <2>2, EntriesStep
  <1>5. CASE UnlinkResult(path)
    <2>1. /\ Matches(entries, path) # {}
          /\ entries' = Without(entries, First(entries, path))
          /\ open_files' = [j \in Fd |->
                IF IsOpen(j) /\ Name(j) = path THEN None ELSE open_files[j]]
      BY <1>5 DEF HandleUnlink, Unlink, UnlinkResult
    <2> HIDE DEF path
    <2>2. Listing(entries') /\ \A q : q # path => Kept(entries, entries', q)
      BY <1>1, <2>1, KeptRemoved
    <2>3. open_files' \in [Fd -> Slot]
      BY <1>1, <2>1, SomeSlot
    <2>4. ASSUME NEW j \in Fd, open_files'[j] # None
          PROVE  open_files'[j] = open_files[j] /\ open_files[j][1].name # path
      BY <2>1, <2>4 DEF IsOpen, Name
    <2>5. QED
      BY <1>1, <1>2, <1>3, <2>2, <2>3, <2>4, EntriesStep
  <1>6. QED
    BY <1>4, <1>5

\* The calls that leave the file system as it is.
LEMMA OtherStep ==
    ASSUME IInv, HandleOther
    PROVE  IInv' /\ Growth
  <1>1. UNCHANGED <<vfsVars, seen>> /\ TtyTypes'
    BY DEF HandleOther, IInv, Types, TtyTypes, ttyVars
  <1>2. PICK v \in Int : Return(Success(v)) \/ Return(Error(v))
    <2>1. ASSUME NEW room \in 0..1, Return(Success(AtMost(room, Len(ListDirResult))))
          PROVE  \E v \in Int : Return(Success(v))
      <3>1. Listing(entries)
        BY DEF IInv, Types
      <3>2. Len(ListDirResult) \in Nat
        BY <3>1 DEF Listing, ListDirResult
      <3>3. AtMost(room, Len(ListDirResult)) \in Int
        BY <3>2 DEF AtMost
      <3>4. QED
        BY <2>1, <3>3
    <2>2. \/ \E room \in 0..1 : Return(Success(AtMost(room, Len(ListDirResult))))
          \/ Return(Success(0)) \/ Return(Error(1)) \/ Return(Error(-1))
      BY DEF HandleOther
    <2>3. 0 \in Int /\ 1 \in Int /\ -1 \in Int
      OBVIOUS
    <2>4. QED
      BY <2>1, <2>2, <2>3
  <1>3. ret' \in [ok: BOOLEAN, rax: 0..(2^Width - 1)]
    BY <1>2, ReturnType, Results
  <1>4. QED
    BY <1>1, <1>3, QuietStep

\* A key changes the terminal only.
LEMMA KeyboardStep ==
    ASSUME IInv, Keyboard
    PROVE  IInv' /\ Growth
  <1>1. UNCHANGED <<vfsVars, seen>> /\ ret' \in [ok: BOOLEAN, rax: 0..(2^Width - 1)]
    BY DEF Keyboard, IInv, Types
  <1>2. PICK k \in Key : HandleInput(k) /\ AddChar
    BY DEF Keyboard, KeyPress
  <1>3. /\ line_buffer \in Seq(Char) /\ input_queue \in Seq(Seq(Char \cup {"newline"}))
        /\ keyboard_buffer \in 0..KeyboardBufferSize
    BY DEF IInv, Types, TtyTypes
  <1>4. keyboard_buffer' \in 0..KeyboardBufferSize
    BY <1>2, <1>3, TtyAssumption DEF AddChar
  <1>5. line_buffer' \in Seq(Char) /\ input_queue' \in Seq(Seq(Char \cup {"newline"}))
    <2>1. CASE k = "newline" /\ line_buffer' = <<>>
               /\ input_queue' = Append(input_queue, Append(line_buffer, k))
      <3>1. Append(line_buffer, k) \in Seq(Char \cup {"newline"})
        BY <1>3, <2>1
      <3>2. QED
        BY <1>3, <2>1, <3>1
    <2>2. CASE /\ line_buffer' = IF line_buffer = <<>> THEN <<>>
                                 ELSE SubSeq(line_buffer, 1, Len(line_buffer) - 1)
               /\ UNCHANGED input_queue
      <3>1. CASE line_buffer = <<>>
        BY <1>3, <2>2, <3>1
      <3>2. CASE line_buffer # <<>>
        <4>1. Len(line_buffer) - 1 \in Nat
          BY <1>3, <3>2, EmptySeq
        <4>2. \A i \in 1..(Len(line_buffer) - 1) : line_buffer[i] \in Char
          BY <1>3
        <4>3. SubSeq(line_buffer, 1, Len(line_buffer) - 1) \in Seq(Char)
          BY <1>3, <4>1, <4>2
        <4>4. QED
          BY <1>3, <2>2, <3>2, <4>3
      <3>3. QED
        BY <3>1, <3>2
    <2>3. CASE UNCHANGED <<line_buffer, input_queue>>
      BY <1>3, <2>3
    <2>4. CASE k \in Char /\ line_buffer' = Append(line_buffer, k) /\ UNCHANGED input_queue
      BY <1>3, <2>4
    <2>5. QED
      BY <1>2, <2>1, <2>2, <2>3, <2>4 DEF HandleInput
  <1>6. QED
    BY <1>1, <1>4, <1>5, QuietStep DEF TtyTypes

-----------------------------------------------------------------------------
(* The invariant *)

\* The entries the file system starts with: a file early_boot opens is one of
\* the ramdisk's.
LEMMA StartEntries ==
    LET es == Defaults \o Ramdisk
    IN  /\ Listing(es)
        /\ \A j \in 1..Len(BootFiles) :
              /\ Matches(es, BootFiles[j]) # {}
              /\ Found(es, BootFiles[j]) \in Entry
              /\ Len(Found(es, BootFiles[j]).data) = 1
              /\ Found(es, BootFiles[j]).data[1] \in Seq(Byte)
  <1> DEFINE es == Defaults \o Ramdisk
             n == Len(Ramdisk)
  <1>1. /\ Ramdisk \in Seq(Entry) /\ n \in Nat
        /\ \A i \in 1..n : Ramdisk[i] \in Entry /\ Len(Ramdisk[i].data) = 1
        /\ BootFiles \in Seq(FileName)
    BY VfsAssumption
  <1>2. /\ Defaults \in Seq(Entry) /\ Len(Defaults) = 4
        /\ \A i \in 1..4 : /\ Len(Defaults[i].data) = 0
                           /\ Defaults[i].name \in {".", "dev", "null", "tty"}
    <2>1. \A x \in {".", "dev", "null", "tty"}, t \in {"Directory", "Device"} :
             [name |-> x, file_type |-> t, data |-> None] \in Entry
      <3>1. {".", "dev", "null", "tty"} \subseteq FileName
        BY DEF FileName
      <3>2. {"Directory", "Device"} \subseteq FileType
        BY DEF FileType
      <3>3. None \in Seq(Seq(Byte))
        BY DEF None
      <3>4. QED
        BY <3>1, <3>2, <3>3, Zenon DEF Entry
    <2>2. Defaults[1] \in Entry /\ Defaults[2] \in Entry
          /\ Defaults[3] \in Entry /\ Defaults[4] \in Entry
      BY <2>1 DEF Defaults
    <2>3. Defaults = [i \in 1..4 |-> Defaults[i]]
      BY DEF Defaults
    <2>4. \A i \in 1..4 : Defaults[i] \in Entry
      BY <2>2
    <2>5. Defaults \in Seq(Entry) /\ Len(Defaults) = 4
      BY <2>3, <2>4
    <2>6. \A i \in 1..4 : Defaults[i].data = None
      BY DEF Defaults
    <2>7. \A i \in 1..4 : Defaults[i].name \in {".", "dev", "null", "tty"}
      BY DEF Defaults
    <2>8. Len(None) = 0
      BY DEF None
    <2>9. QED
      BY <2>5, <2>6, <2>7, <2>8
  <1>3. /\ es \in Seq(Entry) /\ Len(es) = 4 + n
        /\ \A i \in 1..(4 + n) : es[i] = IF i <= 4 THEN Defaults[i] ELSE Ramdisk[i - 4]
    <2>1. Defaults \in Seq(Entry) /\ Ramdisk \in Seq(Entry)
      BY <1>1, <1>2
    <2>2. /\ Defaults \o Ramdisk \in Seq(Entry)
          /\ Len(Defaults \o Ramdisk) = Len(Defaults) + Len(Ramdisk)
          /\ \A i \in 1..(Len(Defaults) + Len(Ramdisk)) : (Defaults \o Ramdisk)[i] =
                IF i <= Len(Defaults) THEN Defaults[i] ELSE Ramdisk[i - Len(Defaults)]
      BY <2>1, ConcatProperties
    <2>3. Len(Defaults) = 4
      BY <1>2
    <2> HIDE DEF Defaults
    <2>4. QED
      BY <2>2, <2>3
  <1> HIDE DEF es, n
  <1>4. ASSUME NEW i \in 1..(4 + n), ~(i <= 4)
        PROVE  i - 4 \in 1..n /\ es[i] = Ramdisk[i - 4] /\ Len(es[i].data) = 1
    BY <1>1, <1>3, <1>4
  <1>5. ASSUME NEW i \in 1..(4 + n), i <= 4
        PROVE  es[i].name \in {".", "dev", "null", "tty"} /\ Len(es[i].data) = 0
    BY <1>1, <1>2, <1>3, <1>5
  <1>6. DOMAIN es = 1..(4 + n)
    BY <1>3
  <1>7. Listing(es)
    <2> SUFFICES ASSUME NEW i \in 1..(4 + n) PROVE Len(es[i].data) <= 1
      BY <1>3, <1>6 DEF Listing
    <2>1. Len(es[i].data) = 0 \/ Len(es[i].data) = 1
      BY <1>4, <1>5, Zenon
    <2>2. 0 <= 1 /\ 1 <= 1
      OBVIOUS
    <2>3. QED
      BY <2>1, <2>2, Zenon
  <1>8. ASSUME NEW j \in 1..Len(BootFiles)
        PROVE  /\ Matches(es, BootFiles[j]) # {}
               /\ Found(es, BootFiles[j]) \in Entry
               /\ Len(Found(es, BootFiles[j]).data) = 1
               /\ Found(es, BootFiles[j]).data[1] \in Seq(Byte)
    <2> DEFINE path == BootFiles[j]
               f == First(es, path)
    <2>1. path \notin {".", "dev", "null", "tty"}
      BY <1>1, VfsAssumption
    <2>2. PICK i \in 1..n : Ramdisk[i].name = path
      <3>1. DOMAIN Ramdisk = 1..n /\ j \in DOMAIN BootFiles
        BY <1>1 DEF n
      <3>2. \E i \in DOMAIN Ramdisk : Ramdisk[i].name = path
        BY <3>1, VfsAssumption
      <3>3. QED
        BY <3>1, <3>2, Zenon
    <2> HIDE DEF path
    <2>3. i + 4 \in 1..(4 + n) /\ es[i + 4] = Ramdisk[i]
      <3>1. i + 4 \in 1..(4 + n) /\ ~(i + 4 <= 4) /\ (i + 4) - 4 = i
        BY <1>1
      <3>2. QED
        BY <1>4, <3>1
    <2>4. Matches(es, path) # {}
      BY <1>6, <2>2, <2>3 DEF Matches
    <2>5. f \in 1..(4 + n) /\ es[f].name = path /\ es[f] \in Entry
      BY <1>3, <1>7, <2>4, FirstFound DEF Found
    <2> HIDE DEF f
    <2>6. Len(es[f].data) = 1
      BY <1>4, <1>5, <2>1, <2>5
    <2>7. Found(es, path) = es[f]
      BY DEF Found, f
    <2>8. Found(es, path) \in Entry /\ Len(Found(es, path).data) = 1
      BY <2>5, <2>6, <2>7
    <2>9. Found(es, path).data[1] \in Seq(Byte)
      <3>1. Found(es, path).data \in Seq(Seq(Byte))
        BY <2>8 DEF Entry
      <3>2. QED
        BY <2>8, <3>1
    <2>10. QED
      BY <2>4, <2>8, <2>9 DEF path
  <1>9. QED
    BY <1>7, <1>8 DEF es

\* The invariant holds when early_boot is done.
LEMMA InvInit ==
    ASSUME Init
    PROVE  IInv
  <1>1. /\ Listing(entries)
        /\ \A j \in 1..Len(BootFiles) :
              /\ Matches(entries, BootFiles[j]) # {}
              /\ Found(entries, BootFiles[j]) \in Entry
              /\ Len(Found(entries, BootFiles[j]).data) = 1
              /\ Found(entries, BootFiles[j]).data[1] \in Seq(Byte)
    BY StartEntries DEF Init, VfsInit
  <1>2. TtyTypes
    BY TtyAssumption DEF Init, TtyInit, TtyTypes
  <1>3. ret \in [ok: BOOLEAN, rax: 0..(2^Width - 1)]
    <2>1. 2^Width \in Nat \ {0}
      BY PowerPositive, SyscallsAssumption
    <2>2. QED
      BY <2>1 DEF Init
  <1>4. ASSUME NEW j \in Fd
        PROVE  open_files[j] \in Slot /\ Resolved(entries, open_files[j])
    <2>1. CASE ~(j < Len(BootFiles))
      <3>1. open_files[j] = None
        BY <2>1 DEF Init, VfsInit
      <3>2. QED
        BY <3>1, SomeSlot DEF Resolved
    <2>2. CASE j < Len(BootFiles)
      <3> DEFINE path == BootFiles[j + 1]
                 e == Found(entries, path)
                 d == [name |-> path, file_type |-> e.file_type, offset |-> Len(e.data[1])]
      <3>1. j + 1 \in 1..Len(BootFiles) /\ BootFiles \in Seq(FileName)
        <4>1. BootFiles \in Seq(FileName)
          BY VfsAssumption
        <4>2. Len(BootFiles) \in Nat /\ j \in Nat
          BY <4>1, VfsAssumption DEF Fd
        <4>3. QED
          BY <2>2, <4>1, <4>2
      <3>2. path \in FileName
        BY <3>1
      <3>3. Matches(entries, path) # {} /\ e \in Entry /\ e.data[1] \in Seq(Byte)
        BY <1>1, <3>1
      <3>4. open_files[j] = Some(d)
        BY <2>2 DEF Init, VfsInit, Found
      <3> HIDE DEF path
      <3>5. /\ d \in FileDescriptor /\ d.name = path /\ d.file_type = e.file_type
        <4>1. e.file_type \in FileType
          BY <3>3 DEF Entry
        <4>2. Len(e.data[1]) \in Nat
          BY <3>3
        <4> HIDE DEF e
        <4>3. QED
          BY <3>2, <4>1, <4>2 DEF FileDescriptor
      <3> HIDE DEF d
      <3>6. Some(d) \in Slot /\ Some(d) # None /\ Some(d)[1] = d
        BY <3>5, SomeSlot
      <3>7. QED
        BY <3>3, <3>4, <3>5, <3>6 DEF Resolved
    <2>3. QED
      BY <2>1, <2>2
  <1>5. open_files \in [Fd -> Slot]
    <2>1. open_files = [j \in Fd |-> open_files[j]]
      BY DEF Init, VfsInit
    <2>2. QED
      BY <1>4, <2>1
  <1>6. ASSUME NEW j \in Fd
        PROVE  seen[j] \in Seen /\ Contiguous(entries, open_files[j], seen[j])
    <2> DEFINE at == IF open_files[j] = None THEN 0 ELSE open_files[j][1].offset
    <2>1. seen[j] = Positioned(at)
      BY DEF Init, Offset
    <2>2. at \in Nat
      <3>1. open_files[j] # None => open_files[j][1] \in FileDescriptor
        BY <1>4, SlotOption
      <3>2. QED
        BY <3>1 DEF FileDescriptor
    <2>3. open_files[j] # None => open_files[j][1].offset = at
      OBVIOUS
    <2> HIDE DEF at
    <2>4. QED
      BY <1>1, <1>4, <2>1, <2>2, <2>3, FreshSlot
  <1>7. seen \in [Fd -> Seen]
    <2>1. seen = [j \in Fd |-> seen[j]]
      BY DEF Init
    <2>2. QED
      BY <1>6, <2>1
  <1>8. QED
    BY <1>1, <1>2, <1>3, <1>4, <1>5, <1>6, <1>7 DEF IInv, Types

\* Every step keeps the invariant, and what open descriptors find.
LEMMA InvNext ==
    ASSUME IInv, [Next]_vars
    PROVE  IInv' /\ Growth
  <1>1. CASE UNCHANGED vars
    <2>1. /\ UNCHANGED <<vfsVars, seen>> /\ TtyTypes'
          /\ ret' \in [ok: BOOLEAN, rax: 0..(2^Width - 1)]
      BY <1>1 DEF vars, IInv, Types, TtyTypes, ttyVars
    <2>2. QED
      BY <2>1, QuietStep
  <1>2. CASE \E arg \in Arg : HandleOpen(arg)
    BY <1>2, OpenStep
  <1>3. CASE \E fd \in Fd : HandleClose(fd)
    BY <1>3, CloseStep
  <1>4. CASE \E fd \in Fd, n \in 1..2 : HandleRead(fd, n)
    BY <1>4, ReadStep
  <1>5. CASE \E fd \in Fd, b \in Byte \ {Zero}, utf8 \in BOOLEAN :
                 HandleWriteFile(fd, <<b>>, utf8)
    BY <1>5, WriteStep
  <1>6. CASE \E fd \in Fd, offset \in 0..MaxSize : HandleSeek(fd, offset)
    BY <1>6, SeekStep
  <1>7. CASE \E arg \in Arg : HandleMkdir(arg)
    BY <1>7, MkdirStep
  <1>8. CASE \E arg \in Arg : HandleUnlink(arg)
    BY <1>8, UnlinkStep
  <1>9. CASE HandleOther
    BY <1>9, OtherStep
  <1>10. CASE Keyboard
    BY <1>10, KeyboardStep
  <1>11. QED
    BY <1>1, <1>2, <1>3, <1>4, <1>5, <1>6, <1>7, <1>8, <1>9, <1>10 DEF Next

\* The invariant holds throughout.
THEOREM FilesInvariant == Spec => []IInv
  <1>1. Init => IInv
    BY InvInit
  <1>2. IInv /\ [Next]_vars => IInv'
    BY InvNext
  <1>3. QED
    BY <1>1, <1>2, PTL DEF Spec

\* The variables of the file system, the terminal and the handlers keep their
\* types; names are never invented, and what a handler returns fits rax.
THEOREM FilesTypes == Spec => []TypeOK
  <1>1. IInv => TypeOK
    <2> SUFFICES ASSUME IInv PROVE TypeOK
      OBVIOUS
    <2>1. Listing(entries) /\ open_files \in [Fd -> Slot] /\ TtyTypes
          /\ ret \in [ok: BOOLEAN, rax: 0..(2^Width - 1)]
      BY DEF IInv, Types
    <2>2. ASSUME NEW i \in DOMAIN entries
          PROVE  /\ entries[i].name \in FileName
                 /\ entries[i].file_type \in FileType
                 /\ Len(entries[i].data) <= 1
                 /\ \A k \in DOMAIN entries[i].data : entries[i].data[k] \in Seq(Byte)
      <3>1. entries[i] \in Entry /\ Len(entries[i].data) <= 1
        BY <2>1 DEF Listing
      <3>2. entries[i].data \in Seq(Seq(Byte))
        BY <3>1 DEF Entry
      <3>3. QED
        BY <3>1, <3>2 DEF Entry
    <2>3. \A j \in Fd : open_files[j] \in Seq(FileDescriptor)
      BY <2>1 DEF Slot
    <2>4. DOMAIN open_files = Fd
      BY <2>1
    <2>5. QED
      BY <2>1, <2>2, <2>3, <2>4 DEF TypeOK, TtyTypes
  <1>2. QED
    BY <1>1, FilesInvariant, PTL

\* Every open descriptor resolves, to an entry of the type it was opened with,
\* whatever is created and unlinked: stat cannot fail on an open file.
THEOREM FilesResolve == Spec => []DescriptorsResolve
  <1>1. IInv => DescriptorsResolve
    <2> SUFFICES ASSUME IInv, NEW j \in Fd, IsOpen(j)
                 PROVE  /\ StatResult(Name(j)) # None
                        /\ StatResult(Name(j))[1].file_type = open_files[j][1].file_type
      BY DEF DescriptorsResolve
    <2>1. open_files[j] # None /\ Resolved(entries, open_files[j])
      BY DEF IInv, IsOpen
    <2>2. /\ Matches(entries, Name(j)) # {}
          /\ entries[First(entries, Name(j))].file_type = open_files[j][1].file_type
      BY <2>1 DEF Resolved, Name, Found
    <2>3. QED
      BY <2>2 DEF StatResult, Some, None
  <1>2. QED
    BY <1>1, FilesInvariant, PTL

\* Successive reads of a descriptor deliver consecutive bytes of one file,
\* whatever other descriptors do meanwhile.
THEOREM FilesContiguous == Spec => []ReadsAreContiguous
  <1>1. IInv => ReadsAreContiguous
    <2> SUFFICES ASSUME IInv, NEW j \in Fd, IsFile(j)
                 PROVE  /\ seen[j].bytes = Bytes(DataOf(j)[1], seen[j].base,
                                                 Offset(j) - seen[j].base)
                        /\ seen[j].base + Len(seen[j].bytes) = Offset(j)
      BY DEF ReadsAreContiguous
    <2>1. HasFile(entries, open_files[j])
          /\ DataOf(j) = Found(entries, open_files[j][1].name).data
      BY View DEF IsFile
    <2>2. Contiguous(entries, open_files[j], seen[j])
      BY DEF IInv
    <2>3. QED
      BY <2>1, <2>2 DEF Contiguous, Consecutive, Offset
  <1>2. QED
    BY <1>1, FilesInvariant, PTL

\* While a descriptor stays open its file only grows: no step changes or drops
\* a byte of it.
THEOREM FilesGrow == Spec => GrowsOnly
  <1>1. ASSUME IInv, IInv', [Next]_vars, NEW j \in Fd,
               IsFile(j), IsFile(j)', Name(j)' = Name(j)
        PROVE  Prefix(DataOf(j)[1], DataOf(j)'[1])
    <2>1. Growth
      BY <1>1, InvNext
    <2>2. /\ open_files[j] # None /\ Found(entries, open_files[j][1].name).data # None
          /\ DataOf(j) = Found(entries, open_files[j][1].name).data
          /\ Matches(entries, open_files[j][1].name) # {}
      BY <1>1, View DEF IsFile, IsOpen, HasFile, IInv, Resolved
    <2>3. open_files'[j] # None /\ open_files'[j][1].name = open_files[j][1].name
      BY <1>1 DEF IsFile, IsOpen, Name
    <2>4. /\ Matches(entries', open_files[j][1].name) # {}
          /\ Prefix(Found(entries, open_files[j][1].name).data[1],
                    Found(entries', open_files[j][1].name).data[1])
      BY <2>1, <2>2, <2>3 DEF Growth, Kept
    <2>5. DataOf(j)' = Found(entries', open_files[j][1].name).data
      BY <2>3, <2>4 DEF DataOf, Name, Found
    <2>6. QED
      BY <2>2, <2>4, <2>5
  <1>2. IInv /\ IInv' /\ [Next]_vars =>
            [\A j \in Fd : IsFile(j) /\ IsFile(j)' /\ Name(j)' = Name(j) =>
                Prefix(DataOf(j)[1], DataOf(j)'[1])]_vars
    BY <1>1
  <1>3. QED
    BY <1>2, FilesInvariant, PTL DEF Spec, GrowsOnly

=============================================================================
