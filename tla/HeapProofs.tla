----------------------------- MODULE HeapProofs -----------------------------
(***************************************************************************)
(* The kernel heap for every heap size, every list of block sizes and all  *)
(* layouts: what is allocated never overlaps, fits its request, and free   *)
(* regions can hold their nodes.                                           *)
(*                                                                         *)
(* Every operation moves one piece of memory between the regions, the      *)
(* lists of blocks and the callers.  Sound says what holds of the three,   *)
(* Clear that a piece belongs to none of them; there is one lemma for      *)
(* taking a piece from each of the three and one for adding it.            *)
(***************************************************************************)
EXTENDS Heap, SequenceTheorems, WellFoundedInduction, TLAPS

\* Zenon first: it needs no encoding of the context.
USE ZenonT(3), SMTT(20)

Region == [start: Addr, size: 1..HeapSize]
Live == [addr: Addr, layout: Layouts]

\* Two pieces, each given by its start and its size, do not overlap.
Apart(a, m, b, n) == a + m <= b \/ b + n <= a

\* A piece is in the heap and overlaps no region, no block and no allocation.
Clear(fr, lh, lv, a, m) ==
    /\ a + m <= HeapSize
    /\ \A i \in DOMAIN fr : Apart(a, m, fr[i].start, fr[i].size)
    /\ \A c \in Class : \A i \in DOMAIN lh[c] : Apart(a, m, lh[c][i], BlockSizes[c])
    /\ \A b \in lv : Apart(a, m, b.addr, Extent(b.layout))

\* The address of what the layout may get is aligned as its class is.
AlignedFor(a, l) ==
    IF Pooled(l) THEN a % BlockSizes[Index(l)] = 0 ELSE a % l.align = 0

\* Regions, blocks and allocations have their types, lie in the heap, are
\* aligned, and overlap neither each other nor anything of the other kinds.
RegionsSound(fr) ==
    /\ fr \in Seq(Region)
    /\ \A i \in DOMAIN fr : NodeSize <= fr[i].size /\ fr[i].start + fr[i].size <= HeapSize
    /\ \A i, j \in DOMAIN fr :
          i # j => Apart(fr[i].start, fr[i].size, fr[j].start, fr[j].size)

BlocksSound(lh) ==
    /\ lh \in [Class -> Seq(Addr)]
    /\ \A c \in Class : \A i \in DOMAIN lh[c] :
          lh[c][i] + BlockSizes[c] <= HeapSize /\ lh[c][i] % BlockSizes[c] = 0
    /\ \A c, d \in Class : \A i \in DOMAIN lh[c], j \in DOMAIN lh[d] :
          c # d \/ i # j => Apart(lh[c][i], BlockSizes[c], lh[d][j], BlockSizes[d])

LiveSound(lv) ==
    /\ lv \subseteq Live
    /\ \A b \in lv : b.addr + Extent(b.layout) <= HeapSize /\ AlignedFor(b.addr, b.layout)
    /\ \A a, b \in lv :
          a # b => Apart(a.addr, Extent(a.layout), b.addr, Extent(b.layout))

Separate(fr, lh, lv) ==
    /\ \A i \in DOMAIN fr, c \in Class : \A j \in DOMAIN lh[c] :
          Apart(fr[i].start, fr[i].size, lh[c][j], BlockSizes[c])
    /\ \A i \in DOMAIN fr, b \in lv :
          Apart(fr[i].start, fr[i].size, b.addr, Extent(b.layout))
    /\ \A c \in Class, b \in lv : \A j \in DOMAIN lh[c] :
          Apart(lh[c][j], BlockSizes[c], b.addr, Extent(b.layout))

Sound(fr, lh, lv) ==
    RegionsSound(fr) /\ BlocksSound(lh) /\ LiveSound(lv) /\ Separate(fr, lh, lv)

IInv == Sound(free, list_heads, live)

-----------------------------------------------------------------------------
(* Arithmetic *)

\* A product is a multiple of its first factor.
LEMMA ProductMultiple ==
    ASSUME NEW n \in Nat \ {0}, NEW i \in Nat
    PROVE  (n * i) % n = 0
  BY SMTT(30)

\* align_up rounds up to a multiple, and leaves a multiple alone.
LEMMA AlignUpProperties ==
    ASSUME NEW a \in Nat, NEW n \in Nat \ {0}
    PROVE  /\ AlignUp(a, n) \in Nat
           /\ a <= AlignUp(a, n)
           /\ AlignUp(a, n) % n = 0
           /\ a % n = 0 => AlignUp(a, n) = a
  <1> DEFINE q == (a + n - 1) \div n
             r == (a + n - 1) % n
  <1>1. q \in Nat /\ r \in 0..(n - 1) /\ a + n - 1 = n * q + r
    BY SMT
  <1>2. AlignUp(a, n) = n * q /\ n * q \in Nat
    BY <1>1, SMT DEF AlignUp
  <1> HIDE DEF q, r
  <1>3. (n * q) % n = 0
    BY <1>1, ProductMultiple, Zenon
  <1>4. ASSUME a % n = 0 PROVE n * q = a
    <2>1. PICK k \in Nat : a = n * k
      <3>1. a \div n \in Nat /\ a = n * (a \div n)
        BY <1>4, SMT
      <3>2. QED
        BY <3>1
    <2>2. n * q - n < n * k /\ n * k <= n * q
      BY <1>1, <2>1
    <2>3. k <= q
      BY <1>1, <2>2, SMT
    <2>4. n * q - n = n * (q - 1)
      BY <1>1, SMT
    <2>5. q - 1 < k
      BY <1>1, <2>2, <2>4, SMT
    <2>6. QED
      BY <1>1, <2>1, <2>3, <2>5
  <1>5. a <= n * q
    BY <1>1
  <1>6. QED
    BY <1>2, <1>3, <1>4, <1>5

\* A multiple of a multiple is a multiple.
LEMMA MultipleOfMultiple ==
    ASSUME NEW a \in Nat, NEW m \in Nat \ {0}, NEW n \in Nat \ {0},
           a % m = 0, m % n = 0
    PROVE  a % n = 0
  <1>1. PICK j \in Nat : a = m * j
    <2>1. a \div m \in Nat /\ a = m * (a \div m)
      BY SMT
    <2>2. QED
      BY <2>1
  <1>2. PICK k \in Nat : m = n * k
    <2>1. m \div n \in Nat /\ m = n * (m \div n)
      BY SMT
    <2>2. QED
      BY <2>1
  <1>3. PICK i \in Nat : i = k * j
    BY SMT
  <1>4. a = n * i
    BY <1>1, <1>2, <1>3, SMT
  <1>5. (n * i) % n = 0
    BY ProductMultiple, Zenon
  <1>6. QED
    BY <1>4, <1>5, Zenon

\* A set of natural numbers has a least element.
LEMMA Least ==
    ASSUME NEW T, T \subseteq Nat, T # {}
    PROVE  \E i \in T : \A j \in T : i <= j
  <1>1. PICK i \in T : \A j \in T : ~(<<j, i>> \in OpToRel(<, Nat))
    BY NatLessThanWellFounded, WFMin, Zenon
  <1>2. \A j \in T : ~(j < i)
    BY <1>1 DEF OpToRel
  <1>3. QED
    BY <1>2

-----------------------------------------------------------------------------
(* Sequences *)

\* Putting an element in front.
LEMMA PushFront ==
    ASSUME NEW S, NEW s \in Seq(S), NEW x \in S
    PROVE  /\ <<x>> \o s \in Seq(S)
           /\ DOMAIN (<<x>> \o s) = 1..(Len(s) + 1)
           /\ (<<x>> \o s)[1] = x
           /\ \A i \in 2..(Len(s) + 1) : i - 1 \in DOMAIN s /\ (<<x>> \o s)[i] = s[i - 1]
           /\ <<x>> \o s # <<>>
           /\ Head(<<x>> \o s) = x
  OBVIOUS

Without(s, k) == SubSeq(s, 1, k - 1) \o SubSeq(s, k + 1, Len(s))
Skip(k, i) == IF i < k THEN i ELSE i + 1

\* Taking an element out: every element of the result is one of the others.
LEMMA TakeOut ==
    ASSUME NEW S, NEW s \in Seq(S), NEW k \in DOMAIN s
    PROVE  /\ Without(s, k) \in Seq(S)
           /\ \A i \in DOMAIN Without(s, k) :
                 Skip(k, i) \in DOMAIN s \ {k} /\ Without(s, k)[i] = s[Skip(k, i)]
  <1> DEFINE p == SubSeq(s, 1, k - 1)
             q == SubSeq(s, k + 1, Len(s))
             n == Len(s)
  <1>1. n \in Nat /\ k \in 1..n /\ DOMAIN s = 1..n
    OBVIOUS
  <1>2. /\ p \in Seq(S) /\ Len(p) = k - 1
        /\ \A i \in 1..(k - 1) : p[i] = s[i]
    <2>1. \A i \in 1..(k - 1) : s[i] \in S
      BY <1>1
    <2>2. QED
      BY <1>1, <2>1, SubSeqProperties
  <1>3. /\ q \in Seq(S) /\ Len(q) = n - k
        /\ \A i \in 1..(n - k) : q[i] = s[k + i]
    <2>1. \A i \in (k + 1)..n : s[i] \in S
      BY <1>1
    <2>2. /\ q \in Seq(S)
          /\ Len(q) = IF k + 1 <= n THEN n - (k + 1) + 1 ELSE 0
          /\ \A i \in 1..(n - (k + 1) + 1) : q[i] = s[(k + 1) + i - 1]
      BY <1>1, <2>1, SubSeqProperties
    <2>3. QED
      BY <1>1, <2>2
  <1> HIDE DEF p, q, n
  <1>4. /\ p \o q \in Seq(S)
        /\ Len(p \o q) = n - 1
        /\ \A i \in 1..(n - 1) : (p \o q)[i] = IF i <= k - 1 THEN p[i] ELSE q[i - (k - 1)]
    <2>1. /\ p \o q \in Seq(S)
          /\ Len(p \o q) = Len(p) + Len(q)
          /\ \A i \in 1..(Len(p) + Len(q)) :
                (p \o q)[i] = IF i <= Len(p) THEN p[i] ELSE q[i - Len(p)]
      BY <1>2, <1>3, ConcatProperties
    <2>2. Len(p) = k - 1 /\ Len(p) + Len(q) = n - 1
      BY <1>1, <1>2, <1>3
    <2>3. QED
      BY <2>1, <2>2
  <1>5. DOMAIN (p \o q) = 1..(n - 1)
    BY <1>4
  <1>6. ASSUME NEW i \in 1..(n - 1), i < k
        PROVE  i \in 1..n /\ i # k /\ (p \o q)[i] = s[i]
    BY <1>1, <1>2, <1>4, <1>6
  <1>7. ASSUME NEW i \in 1..(n - 1), ~(i < k)
        PROVE  i + 1 \in 1..n /\ i + 1 # k /\ (p \o q)[i] = s[i + 1]
    <2>1. i - (k - 1) \in 1..(n - k) /\ k + (i - (k - 1)) = i + 1
      BY <1>1, <1>7
    <2>2. (p \o q)[i] = q[i - (k - 1)]
      BY <1>1, <1>4, <1>7
    <2>3. q[i - (k - 1)] = s[k + (i - (k - 1))]
      BY <1>3, <2>1, Zenon
    <2>4. (p \o q)[i] = s[i + 1]
      BY <2>1, <2>2, <2>3, Zenon
    <2>5. i + 1 \in 1..n /\ i + 1 # k
      BY <1>1, <1>7
    <2>6. QED
      BY <2>4, <2>5, Zenon
  <1>8. QED
    BY <1>1, <1>4, <1>5, <1>6, <1>7 DEF p, q, n, Without, Skip

-----------------------------------------------------------------------------
(* Classes and extents *)

\* The class of a layout is one that can serve it, and what a layout gets is at
\* least what it asks for.
LEMMA LayoutProperties ==
    ASSUME NEW l \in Layouts
    PROVE  /\ l.size \in Nat \ {0} /\ l.align \in Nat \ {0}
           /\ Pooled(l) => /\ Index(l) \in Class
                           /\ BlockSizes[Index(l)] \in Nat \ {0}
                           /\ BlockSizes[Index(l)] >= l.size
                           /\ BlockSizes[Index(l)] >= l.align
                           /\ BlockSizes[Index(l)] % l.align = 0
           /\ SizeAlign(l).size \in Nat \ {0}
           /\ SizeAlign(l).size >= l.size
           /\ SizeAlign(l).size >= NodeSize
           /\ SizeAlign(l).align = l.align
           /\ Extent(l) \in Nat \ {0}
           /\ Extent(l) >= l.size
  <1>1. l.size \in Nat \ {0} /\ l.align \in Nat \ {0}
    BY HeapAssumption
  <1>2. ASSUME Pooled(l)
        PROVE  /\ Index(l) \in Class
               /\ BlockSizes[Index(l)] \in Nat \ {0}
               /\ BlockSizes[Index(l)] >= l.size
               /\ BlockSizes[Index(l)] >= l.align
               /\ BlockSizes[Index(l)] % l.align = 0
    <2>1. ListIndex(l) \subseteq Nat /\ ListIndex(l) # {}
      BY <1>2, HeapAssumption DEF ListIndex, Pooled, Class
    <2>2. Index(l) \in ListIndex(l)
      BY <2>1, Least DEF Index
    <2>3. /\ Index(l) \in Class /\ BlockSizes[Index(l)] \in Nat \ {0}
          /\ BlockSizes[Index(l)] >= AtLeast(l.size, l.align)
      BY <2>2, HeapAssumption DEF ListIndex, Class
    <2>4. BlockSizes[Index(l)] >= l.size /\ BlockSizes[Index(l)] >= l.align
      BY <1>1, <2>3 DEF AtLeast
    <2>5. QED
      BY <2>3, <2>4, HeapAssumption DEF Class
  <1>3. /\ SizeAlign(l).size \in Nat \ {0}
        /\ SizeAlign(l).size >= l.size
        /\ SizeAlign(l).size >= NodeSize
        /\ SizeAlign(l).align = l.align
    <2>1. AlignUp(l.size, l.align) \in Nat /\ l.size <= AlignUp(l.size, l.align)
      BY <1>1, AlignUpProperties
    <2>2. QED
      BY <1>1, <2>1, HeapAssumption DEF SizeAlign, AtLeast
  <1>4. QED
    BY <1>1, <1>2, <1>3 DEF Extent

\* What the linked list is asked for on behalf of a layout holds a node and the
\* layout's extent, and is aligned as the class of the layout.
LEMMA FallbackProperties ==
    ASSUME NEW l \in Layouts
    PROVE  /\ Fallback(l).size \in Nat \ {0} /\ Fallback(l).align \in Nat \ {0}
           /\ Fallback(l).size >= NodeSize
           /\ Fallback(l).size >= Extent(l)
           /\ \A a \in Nat : a % Fallback(l).align = 0 => AlignedFor(a, l)
  <1>1. CASE Pooled(l)
    <2> DEFINE B == BlockSizes[Index(l)]
    <2>1. B \in Nat \ {0}
      BY <1>1, LayoutProperties
    <2> HIDE DEF B
    <2>2. AlignUp(B, B) \in Nat /\ B <= AlignUp(B, B)
      BY <2>1, AlignUpProperties
    <2>3. Fallback(l) = SizeAlign([size |-> B, align |-> B])
      BY <1>1 DEF Fallback, B
    <2>4. Fallback(l).size = AtLeast(AlignUp(B, B), NodeSize) /\ Fallback(l).align = B
      BY <2>3 DEF SizeAlign
    <2>5. Extent(l) = B
      BY <1>1 DEF Extent, B
    <2>6. \A a : a % B = 0 => AlignedFor(a, l)
      BY <1>1 DEF AlignedFor, B
    <2>7. QED
      BY <2>1, <2>2, <2>4, <2>5, <2>6, HeapAssumption DEF AtLeast
  <1>2. CASE ~Pooled(l)
    <2>1. Fallback(l) = SizeAlign(l) /\ Extent(l) = SizeAlign(l).size
      BY <1>2 DEF Fallback, Extent
    <2>2. \A a : a % l.align = 0 => AlignedFor(a, l)
      BY <1>2 DEF AlignedFor
    <2>3. QED
      BY <2>1, <2>2, LayoutProperties
  <1>3. QED
    BY <1>1, <1>2

-----------------------------------------------------------------------------
(* Taking a piece from one of the three, and adding it to one *)

\* Numbers behind the types of the three.
LEMMA SoundTypes ==
    ASSUME NEW fr, NEW lh, NEW lv, Sound(fr, lh, lv)
    PROVE  /\ \A i \in DOMAIN fr : fr[i].start \in Nat /\ fr[i].size \in Nat \ {0}
           /\ \A c \in Class : BlockSizes[c] \in Nat \ {0}
           /\ \A c \in Class : \A i \in DOMAIN lh[c] : lh[c][i] \in Nat
           /\ \A b \in lv : /\ b.addr \in Nat /\ b.layout \in Layouts
                            /\ Extent(b.layout) \in Nat \ {0}
  <1>1. \A i \in DOMAIN fr : fr[i].start \in Nat /\ fr[i].size \in Nat \ {0}
    <2>1. fr \in Seq(Region)
      BY DEF Sound, RegionsSound
    <2>2. \A i \in DOMAIN fr : fr[i] \in Region
      BY <2>1
    <2>3. QED
      BY <2>2, HeapAssumption DEF Region, Addr
  <1>2. \A c \in Class : BlockSizes[c] \in Nat \ {0}
    BY HeapAssumption DEF Class
  <1>3. \A c \in Class : \A i \in DOMAIN lh[c] : lh[c][i] \in Nat
    BY HeapAssumption DEF Sound, BlocksSound, Addr
  <1>4. \A b \in lv : b.addr \in Nat /\ b.layout \in Layouts
    BY HeapAssumption DEF Sound, LiveSound, Live, Addr
  <1>5. QED
    BY <1>1, <1>2, <1>3, <1>4, LayoutProperties

\* A part of a clear piece is clear.
LEMMA ClearPart ==
    ASSUME NEW fr, NEW lh, NEW lv, Sound(fr, lh, lv),
           NEW a \in Nat, NEW m \in Nat, Clear(fr, lh, lv, a, m),
           NEW b \in Nat, NEW n \in Nat, a <= b, b + n <= a + m
    PROVE  Clear(fr, lh, lv, b, n)
  <1>1. ASSUME NEW x \in Nat, NEW y \in Nat, Apart(a, m, x, y)
        PROVE  Apart(b, n, x, y)
    BY <1>1 DEF Apart
  <1>2. b + n <= HeapSize
    BY HeapAssumption DEF Clear
  <1>3. QED
    BY <1>1, <1>2, SoundTypes DEF Clear

\* Taking away an allocation.
LEMMA DropLive ==
    ASSUME NEW fr, NEW lh, NEW lv, Sound(fr, lh, lv), NEW b \in lv
    PROVE  /\ Sound(fr, lh, lv \ {b})
           /\ Clear(fr, lh, lv \ {b}, b.addr, Extent(b.layout))
  <1>1. Sound(fr, lh, lv \ {b})
    BY DEF Sound, LiveSound, Separate
  <1>2. Clear(fr, lh, lv \ {b}, b.addr, Extent(b.layout))
    BY SoundTypes DEF Sound, LiveSound, Separate, Clear, Apart
  <1>3. QED
    BY <1>1, <1>2

\* Adding an allocation.
LEMMA AddLive ==
    ASSUME NEW fr, NEW lh, NEW lv, Sound(fr, lh, lv), NEW b \in Live,
           Clear(fr, lh, lv, b.addr, Extent(b.layout)), AlignedFor(b.addr, b.layout)
    PROVE  Sound(fr, lh, lv \cup {b})
  <1>1. LiveSound(lv \cup {b})
    BY SoundTypes DEF Sound, LiveSound, Clear, Apart
  <1>2. Separate(fr, lh, lv \cup {b})
    BY SoundTypes DEF Sound, Separate, Clear, Apart
  <1>3. QED
    BY <1>1, <1>2 DEF Sound

\* Taking the head of a list of blocks.
LEMMA PopBlock ==
    ASSUME NEW fr, NEW lh, NEW lv, Sound(fr, lh, lv), NEW c \in Class, lh[c] # <<>>
    PROVE  LET rest == [lh EXCEPT ![c] = Tail(@)]
           IN  /\ Sound(fr, rest, lv)
               /\ Clear(fr, rest, lv, Head(lh[c]), BlockSizes[c])
               /\ Head(lh[c]) \in Addr
               /\ Head(lh[c]) % BlockSizes[c] = 0
  <1> DEFINE rest == [lh EXCEPT ![c] = Tail(@)]
             Source(d, i) == IF d = c THEN i + 1 ELSE i
  <1>1. lh \in [Class -> Seq(Addr)] /\ lh[c] \in Seq(Addr)
    BY DEF Sound, BlocksSound
  <1>2. /\ Head(lh[c]) = lh[c][1] /\ 1 \in DOMAIN lh[c]
        /\ Tail(lh[c]) \in Seq(Addr)
        /\ \A i \in DOMAIN Tail(lh[c]) : i + 1 \in DOMAIN lh[c] /\ i + 1 # 1
                                         /\ i \in Nat /\ Tail(lh[c])[i] = lh[c][i + 1]
    BY <1>1
  <1>3. /\ rest \in [Class -> Seq(Addr)]
        /\ \A d \in Class : \A i \in DOMAIN rest[d] :
              /\ i \in Nat
              /\ Source(d, i) \in DOMAIN lh[d] /\ rest[d][i] = lh[d][Source(d, i)]
              /\ d = c => Source(d, i) # 1
    BY <1>1, <1>2
  <1> HIDE DEF rest
  <1>4. BlocksSound(rest)
    <2>1. \A d \in Class : \A i \in DOMAIN rest[d] :
             rest[d][i] + BlockSizes[d] <= HeapSize /\ rest[d][i] % BlockSizes[d] = 0
      <3> SUFFICES ASSUME NEW d \in Class, NEW i \in DOMAIN rest[d]
                   PROVE  /\ rest[d][i] + BlockSizes[d] <= HeapSize
                          /\ rest[d][i] % BlockSizes[d] = 0
        OBVIOUS
      <3>1. Source(d, i) \in DOMAIN lh[d] /\ rest[d][i] = lh[d][Source(d, i)]
        BY <1>3
      <3> HIDE DEF Source
      <3>2. QED
        BY <3>1, Zenon DEF Sound, BlocksSound
    <2>2. ASSUME NEW d \in Class, NEW e \in Class,
                 NEW i \in DOMAIN rest[d], NEW j \in DOMAIN rest[e], d # e \/ i # j
          PROVE  Apart(rest[d][i], BlockSizes[d], rest[e][j], BlockSizes[e])
      <3>1. d # e \/ Source(d, i) # Source(e, j)
        BY <1>3, <2>2
      <3>2. Apart(lh[d][Source(d, i)], BlockSizes[d], lh[e][Source(e, j)], BlockSizes[e])
        BY <1>3, <3>1 DEF Sound, BlocksSound
      <3>3. QED
        BY <1>3, <3>2
    <2>3. QED
      BY <1>3, <2>1, <2>2 DEF BlocksSound
  <1>5. Separate(fr, rest, lv)
    <2>1. \A d \in Class : \A j \in DOMAIN rest[d] :
             \E m \in DOMAIN lh[d] : rest[d][j] = lh[d][m]
      BY <1>3, Zenon
    <2>2. Separate(fr, lh, lv)
      BY DEF Sound
    <2>3. ASSUME NEW i \in DOMAIN fr, NEW d \in Class, NEW j \in DOMAIN rest[d]
          PROVE  Apart(fr[i].start, fr[i].size, rest[d][j], BlockSizes[d])
      <3>1. PICK m \in DOMAIN lh[d] : rest[d][j] = lh[d][m]
        BY <2>1, Zenon
      <3>2. QED
        BY <2>2, <3>1, Zenon DEF Separate
    <2>4. ASSUME NEW d \in Class, NEW b \in lv, NEW j \in DOMAIN rest[d]
          PROVE  Apart(rest[d][j], BlockSizes[d], b.addr, Extent(b.layout))
      <3>1. PICK m \in DOMAIN lh[d] : rest[d][j] = lh[d][m]
        BY <2>1, Zenon
      <3>2. QED
        BY <2>2, <3>1, Zenon DEF Separate
    <2>5. QED
      BY <2>2, <2>3, <2>4, Zenon DEF Separate
  <1>6. Clear(fr, rest, lv, lh[c][1], BlockSizes[c])
    <2>1. lh[c][1] + BlockSizes[c] <= HeapSize
      BY <1>2 DEF Sound, BlocksSound
    <2>2. \A i \in DOMAIN fr : Apart(lh[c][1], BlockSizes[c], fr[i].start, fr[i].size)
      BY <1>2, SoundTypes DEF Sound, Separate, Apart
    <2>3. ASSUME NEW d \in Class, NEW i \in DOMAIN rest[d]
          PROVE  Apart(lh[c][1], BlockSizes[c], rest[d][i], BlockSizes[d])
      BY <1>2, <1>3 DEF Sound, BlocksSound
    <2>4. \A b \in lv : Apart(lh[c][1], BlockSizes[c], b.addr, Extent(b.layout))
      BY <1>2 DEF Sound, Separate
    <2>5. QED
      BY <2>1, <2>2, <2>3, <2>4 DEF Clear
  <1>7. lh[c][1] \in Addr /\ lh[c][1] % BlockSizes[c] = 0
    BY <1>1, <1>2 DEF Sound, BlocksSound
  <1>8. QED
    BY <1>2, <1>4, <1>5, <1>6, <1>7 DEF Sound, rest

\* Putting a block on its list.
LEMMA PushBlock ==
    ASSUME NEW fr, NEW lh, NEW lv, Sound(fr, lh, lv), NEW c \in Class,
           NEW a \in Addr, a % BlockSizes[c] = 0, Clear(fr, lh, lv, a, BlockSizes[c])
    PROVE  Sound(fr, [lh EXCEPT ![c] = <<a>> \o @], lv)
  <1> DEFINE more == [lh EXCEPT ![c] = <<a>> \o @]
             New(d, i) == d = c /\ i = 1
             Source(d, i) == IF d = c THEN i - 1 ELSE i
  <1>1. lh \in [Class -> Seq(Addr)] /\ lh[c] \in Seq(Addr)
    BY DEF Sound, BlocksSound
  <1>2. /\ <<a>> \o lh[c] \in Seq(Addr)
        /\ \A i \in DOMAIN (<<a>> \o lh[c]) :
              /\ i \in Nat
              /\ i = 1 => (<<a>> \o lh[c])[i] = a
              /\ i # 1 => i - 1 \in DOMAIN lh[c] /\ (<<a>> \o lh[c])[i] = lh[c][i - 1]
    BY <1>1, PushFront
  <1>3. /\ more \in [Class -> Seq(Addr)]
        /\ \A d \in Class : \A i \in DOMAIN more[d] :
              /\ i \in Nat
              /\ New(d, i) => more[d][i] = a
              /\ ~New(d, i) => /\ Source(d, i) \in DOMAIN lh[d]
                               /\ more[d][i] = lh[d][Source(d, i)]
    BY <1>1, <1>2
  <1>4. a \in Nat /\ \A d \in Class : BlockSizes[d] \in Nat \ {0}
    BY SoundTypes, HeapAssumption DEF Addr
  <1> HIDE DEF more
  <1>5. BlocksSound(more)
    <2>1. ASSUME NEW d \in Class, NEW i \in DOMAIN more[d]
          PROVE  /\ more[d][i] + BlockSizes[d] <= HeapSize
                 /\ more[d][i] % BlockSizes[d] = 0
      <3>1. CASE New(d, i)
        BY <1>3, <3>1 DEF Clear
      <3>2. CASE ~New(d, i)
        <4>1. PICK k \in DOMAIN lh[d] : more[d][i] = lh[d][k]
          BY <1>3, <3>2
        <4>2. lh[d][k] + BlockSizes[d] <= HeapSize /\ lh[d][k] % BlockSizes[d] = 0
          BY DEF Sound, BlocksSound
        <4>3. QED
          BY <4>1, <4>2
      <3>3. QED
        BY <3>1, <3>2
    <2>2. ASSUME NEW d \in Class, NEW e \in Class,
                 NEW i \in DOMAIN more[d], NEW j \in DOMAIN more[e], d # e \/ i # j
          PROVE  Apart(more[d][i], BlockSizes[d], more[e][j], BlockSizes[e])
      <3>1. CASE New(d, i) /\ ~New(e, j)
        BY <1>3, <3>1 DEF Clear
      <3>2. CASE ~New(d, i) /\ New(e, j)
        <4>1. PICK k \in DOMAIN lh[d] : more[d][i] = lh[d][k]
          BY <1>3, <3>2
        <4>2. Apart(a, BlockSizes[c], lh[d][k], BlockSizes[d]) /\ lh[d][k] \in Nat
          BY SoundTypes DEF Clear
        <4>3. more[e][j] = a /\ e = c
          BY <1>3, <3>2
        <4>4. QED
          BY <1>4, <4>1, <4>2, <4>3 DEF Apart
      <3>3. CASE ~New(d, i) /\ ~New(e, j)
        <4>1. d # e \/ Source(d, i) # Source(e, j)
          BY <1>3, <2>2, <3>3
        <4>2. Apart(lh[d][Source(d, i)], BlockSizes[d], lh[e][Source(e, j)], BlockSizes[e])
          BY <1>3, <3>3, <4>1 DEF Sound, BlocksSound
        <4>3. QED
          BY <1>3, <3>3, <4>2
      <3>4. QED
        BY <2>2, <3>1, <3>2, <3>3
    <2>3. QED
      BY <1>3, <2>1, <2>2 DEF BlocksSound
  <1>6. Separate(fr, more, lv)
    <2>1. ASSUME NEW d \in Class, NEW i \in DOMAIN more[d], NEW k \in DOMAIN fr
          PROVE  Apart(fr[k].start, fr[k].size, more[d][i], BlockSizes[d])
      <3>1. CASE New(d, i)
        BY <1>3, <1>4, <3>1, SoundTypes DEF Clear, Apart
      <3>2. CASE ~New(d, i)
        BY <1>3, <3>2 DEF Sound, Separate
      <3>3. QED
        BY <3>1, <3>2
    <2>2. ASSUME NEW d \in Class, NEW i \in DOMAIN more[d], NEW b \in lv
          PROVE  Apart(more[d][i], BlockSizes[d], b.addr, Extent(b.layout))
      <3>1. CASE New(d, i)
        BY <1>3, <3>1 DEF Clear
      <3>2. CASE ~New(d, i)
        BY <1>3, <3>2 DEF Sound, Separate
      <3>3. QED
        BY <3>1, <3>2
    <2>3. QED
      BY <2>1, <2>2 DEF Sound, Separate
  <1>7. QED
    BY <1>5, <1>6 DEF Sound, more

\* Taking a region out of the linked list.
LEMMA DropRegion ==
    ASSUME NEW fr, NEW lh, NEW lv, Sound(fr, lh, lv), NEW k \in DOMAIN fr
    PROVE  /\ Sound(Without(fr, k), lh, lv)
           /\ Clear(Without(fr, k), lh, lv, fr[k].start, fr[k].size)
  <1> DEFINE rest == Without(fr, k)
  <1>1. fr \in Seq(Region) /\ k \in Nat
    BY DEF Sound, RegionsSound
  <1>2. /\ rest \in Seq(Region)
        /\ \A i \in DOMAIN rest : Skip(k, i) \in DOMAIN fr \ {k} /\ rest[i] = fr[Skip(k, i)]
    BY <1>1, TakeOut
  <1>3. \A i, j \in DOMAIN rest : i # j => Skip(k, i) # Skip(k, j)
    BY <1>1, <1>2 DEF Skip
  <1> HIDE DEF rest
  <1>4. RegionsSound(rest)
    BY <1>2, <1>3 DEF Sound, RegionsSound
  <1>5. Separate(rest, lh, lv)
    BY <1>2 DEF Sound, Separate
  <1>6. Clear(rest, lh, lv, fr[k].start, fr[k].size)
    BY <1>2 DEF Sound, RegionsSound, Separate, Clear
  <1>7. QED
    BY <1>4, <1>5, <1>6 DEF Sound, rest

\* Putting a region in front of the linked list (add_free_region).
LEMMA PushRegion ==
    ASSUME NEW fr, NEW lh, NEW lv, Sound(fr, lh, lv), NEW r \in Region,
           NodeSize <= r.size, Clear(fr, lh, lv, r.start, r.size)
    PROVE  Sound(<<r>> \o fr, lh, lv)
  <1> DEFINE more == <<r>> \o fr
  <1>1. fr \in Seq(Region)
    BY DEF Sound, RegionsSound
  <1>2. /\ more \in Seq(Region)
        /\ \A i \in DOMAIN more :
              /\ i \in Nat
              /\ i = 1 => more[i] = r
              /\ i # 1 => i - 1 \in DOMAIN fr /\ more[i] = fr[i - 1]
    BY <1>1, PushFront
  <1>3. r.start \in Nat /\ r.size \in Nat
    BY HeapAssumption DEF Region, Addr
  <1> HIDE DEF more
  <1>4. RegionsSound(more)
    <2>1. \A i \in DOMAIN more :
             NodeSize <= more[i].size /\ more[i].start + more[i].size <= HeapSize
      BY <1>2 DEF Sound, RegionsSound, Clear
    <2>2. ASSUME NEW i \in DOMAIN more, NEW j \in DOMAIN more, i # j
          PROVE  Apart(more[i].start, more[i].size, more[j].start, more[j].size)
      <3>1. CASE i = 1
        BY <1>2, <2>2, <3>1 DEF Clear
      <3>2. CASE j = 1
        BY <1>2, <1>3, <2>2, <3>2, SoundTypes DEF Clear, Apart
      <3>3. CASE i # 1 /\ j # 1
        BY <1>2, <2>2, <3>3 DEF Sound, RegionsSound
      <3>4. QED
        BY <3>1, <3>2, <3>3
    <2>3. QED
      BY <1>2, <2>1, <2>2 DEF RegionsSound
  <1>5. Separate(more, lh, lv)
    BY <1>2 DEF Sound, Separate, Clear
  <1>6. QED
    BY <1>4, <1>5 DEF Sound, more

-----------------------------------------------------------------------------
(* The operations *)

\* find_region answers a region in which the block fits behind the padding,
\* with an empty rest or one that can hold a node.
LEMMA FindRegionFits ==
    ASSUME IInv, NEW l, l.size \in Nat \ {0}, l.align \in Nat \ {0}, Fitting(l) # {}
    PROVE  LET r == free[FindRegion(l)]
               a == AllocStart(r, l)
           IN  /\ FindRegion(l) \in DOMAIN free
               /\ r \in Region
               /\ a \in Nat /\ a % l.align = 0 /\ r.start <= a
               /\ a + l.size = End(r) \/ a + l.size + NodeSize <= End(r)
  <1> DEFINE k == FindRegion(l)
             r == free[k]
             a == AllocStart(r, l)
  <1>1. free \in Seq(Region)
    BY DEF IInv, Sound, RegionsSound
  <1>2. k \in Fitting(l)
    <2>1. Fitting(l) \subseteq Nat
      BY <1>1 DEF Fitting
    <2>2. \E i \in Fitting(l) : \A j \in Fitting(l) : i <= j
      BY <2>1, Least
    <2>3. QED
      BY <2>2, Zenon DEF FindRegion
  <1>3. k \in DOMAIN free /\ Fits(r, l)
    BY <1>2 DEF Fitting
  <1>4. r \in Region
    BY <1>1, <1>3
  <1> HIDE DEF k, r
  <1>5. r.start \in Nat
    BY <1>4, HeapAssumption DEF Region, Addr
  <1>6. a \in Nat /\ a % l.align = 0 /\ r.start <= a
    BY <1>5, AlignUpProperties DEF AllocStart
  <1>7. a + l.size = End(r) \/ a + l.size + NodeSize <= End(r)
    BY <1>3 DEF Fits
  <1>8. QED
    BY <1>3, <1>4, <1>6, <1>7 DEF k, r

\* allocate of the linked list leaves the heap sound, and what it answers is
\* clear.
LEMMA CarveSound ==
    ASSUME IInv, NEW l, l.size \in Nat \ {0}, l.align \in Nat \ {0}, Fitting(l) # {}
    PROVE  LET a == AllocStart(free[FindRegion(l)], l)
           IN  /\ Sound(Carve(l), list_heads, live)
               /\ Clear(Carve(l), list_heads, live, a, l.size)
               /\ a \in Addr /\ a % l.align = 0
  <1> DEFINE k == FindRegion(l)
             r == free[k]
             a == AllocStart(r, l)
             end == a + l.size
             rest == [start |-> end, size |-> End(r) - end]
             others == Without(free, k)
  <1>1. /\ k \in DOMAIN free /\ r \in Region
        /\ a \in Nat /\ a % l.align = 0 /\ r.start <= a
        /\ end = End(r) \/ end + NodeSize <= End(r)
    BY FindRegionFits
  <1>2. free \in Seq(Region) /\ Sound(free, list_heads, live)
    BY DEF IInv, Sound, RegionsSound
  <1>3. /\ Sound(others, list_heads, live)
        /\ Clear(others, list_heads, live, r.start, r.size)
    BY <1>1, <1>2, DropRegion
  <1>4. /\ r.start \in Nat /\ r.size \in Nat /\ End(r) = r.start + r.size
        /\ End(r) \in Nat /\ End(r) <= HeapSize
    <2>1. r.start + r.size <= HeapSize
      BY <1>1, <1>2, Zenon DEF Sound, RegionsSound
    <2>2. HeapSize \in Nat /\ r.start \in Addr /\ r.size \in 1..HeapSize
      BY <1>1, HeapAssumption DEF Region
    <2> HIDE DEF r
    <2>3. r.start \in Nat /\ r.size \in Nat
      BY <2>2 DEF Addr
    <2>4. QED
      BY <2>1, <2>2, <2>3 DEF End
  <1>5. a \in Addr /\ end \in Nat /\ end <= End(r)
    <2>1. /\ HeapSize \in Nat /\ l.size \in Nat \ {0} /\ NodeSize \in Nat
          /\ a \in Nat /\ End(r) \in Nat /\ End(r) <= HeapSize
          /\ a + l.size = End(r) \/ a + l.size + NodeSize <= End(r)
      BY <1>1, <1>4, HeapAssumption
    <2> HIDE DEF a, r
    <2>2. QED
      BY <2>1 DEF Addr
  <1>6. Clear(others, list_heads, live, a, l.size)
    BY <1>1, <1>3, <1>4, <1>5, ClearPart
  <1>7. /\ SubSeq(free, 1, k - 1) \in Seq(Region)
        /\ SubSeq(free, k + 1, Len(free)) \in Seq(Region)
    <2>1. k \in 1..Len(free) /\ Len(free) \in Nat /\ \A i \in 1..Len(free) : free[i] \in Region
      BY <1>1, <1>2
    <2>2. /\ \A i \in 1..(k - 1) : free[i] \in Region
          /\ \A i \in (k + 1)..Len(free) : free[i] \in Region
      BY <2>1
    <2>3. QED
      BY <2>1, <2>2, SubSeqProperties
  <1>8. CASE end < End(r)
    <2>1. /\ rest \in Region /\ rest.start = end /\ rest.size = End(r) - end
          /\ NodeSize <= rest.size
      <3> HIDE DEF k, r, a
      <3>1. rest.start = end /\ rest.size = End(r) - end
        OBVIOUS
      <3>2. end \in Addr /\ End(r) - end \in 1..HeapSize /\ NodeSize <= End(r) - end
        <4>1. HeapSize \in Nat /\ NodeSize \in Nat \ {0}
          BY HeapAssumption
        <4>2. end + NodeSize <= End(r) /\ end \in Nat /\ End(r) \in Nat /\ End(r) <= HeapSize
          BY <1>1, <1>4, <1>5, <1>8
        <4> HIDE DEF end
        <4>3. QED
          BY <4>1, <4>2 DEF Addr
      <3>3. QED
        BY <3>1, <3>2 DEF Region
    <2>2. Clear(others, list_heads, live, end, End(r) - end)
      <3>1. /\ End(r) - end \in Nat /\ r.start <= end
            /\ end + (End(r) - end) <= r.start + r.size
        <4>1. /\ l.size \in Nat /\ a \in Nat /\ r.start \in Nat /\ r.start <= a
              /\ End(r) = r.start + r.size /\ End(r) \in Nat
          BY <1>1, <1>4
        <4>2. end \in Nat /\ end <= End(r) /\ r.start <= end
          BY <1>5, <4>1
        <4> HIDE DEF end, r
        <4>3. QED
          BY <4>1, <4>2
      <3>2. QED
        BY <1>3, <1>4, <1>5, <3>1, ClearPart
    <2>3. Carve(l) = <<rest>> \o others
      <3>1. Carve(l) = (<<rest>> \o SubSeq(free, 1, k - 1)) \o SubSeq(free, k + 1, Len(free))
        BY <1>8 DEF Carve
      <3>2. <<rest>> \in Seq(Region)
        BY <2>1
      <3> DEFINE p == SubSeq(free, 1, k - 1)
                 q == SubSeq(free, k + 1, Len(free))
      <3>3. p \in Seq(Region) /\ q \in Seq(Region) /\ others = p \o q
        BY <1>7 DEF Without
      <3>4. Carve(l) = (<<rest>> \o p) \o q
        BY <3>1
      <3> HIDE DEF p, q, rest, others
      <3>5. (<<rest>> \o p) \o q = <<rest>> \o (p \o q)
        BY <3>2, <3>3, ConcatAssociative
      <3>6. QED
        BY <3>3, <3>4, <3>5
    <2>4. Sound(<<rest>> \o others, list_heads, live)
      BY <1>3, <2>1, <2>2, PushRegion
    <2>5. Clear(<<rest>> \o others, list_heads, live, a, l.size)
      <3>1. others \in Seq(Region)
        BY <1>3 DEF Sound, RegionsSound
      <3>2. \A i \in DOMAIN (<<rest>> \o others) :
               \/ (<<rest>> \o others)[i] = rest
               \/ i - 1 \in DOMAIN others /\ (<<rest>> \o others)[i] = others[i - 1]
        BY <2>1, <3>1, PushFront
      <3>3. Apart(a, l.size, rest.start, rest.size)
        BY <1>1, <2>1 DEF Apart
      <3> HIDE DEF rest, others, a
      <3>4. QED
        BY <1>6, <3>2, <3>3 DEF Clear
    <2>6. QED
      BY <1>1, <1>5, <2>3, <2>4, <2>5
  <1>9. CASE end = End(r)
    <2>1. Carve(l) = (<<>> \o SubSeq(free, 1, k - 1)) \o SubSeq(free, k + 1, Len(free))
      <3>1. ~(end < End(r))
        <4> HIDE DEF k, r, a
        <4>1. QED
          BY <1>4, <1>9
      <3>2. QED
        BY <3>1, Zenon DEF Carve
    <2>2. Carve(l) = others
      BY <1>7, <2>1, ConcatEmptySeq, Zenon DEF Without
    <2>3. QED
      BY <1>1, <1>3, <1>5, <1>6, <2>2
  <1>10. QED
    BY <1>4, <1>5, <1>8, <1>9

\* alloc: the block comes from the list of its class, or is carved out of a
\* region.
LEMMA AllocSound ==
    ASSUME IInv, NEW l \in Layouts, Alloc(l)
    PROVE  IInv'
  <1> DEFINE a == AllocResult(l)
             b == [addr |-> a, layout |-> l]
  <1>1. /\ b.addr = a /\ b.layout = l
        /\ a \in Addr => b \in Live
    BY DEF Live
  <1>2. live' = live \cup {b}
    BY DEF Alloc
  <1>3. CASE HasBlock(l)
    <2> DEFINE c == Index(l)
               rest == [list_heads EXCEPT ![c] = Tail(@)]
    <2>1. /\ a = Head(list_heads[c]) /\ list_heads[c] # <<>> /\ Pooled(l)
          /\ list_heads' = rest /\ free' = free
      BY <1>3 DEF Alloc, AllocResult, HasBlock
    <2>2. c \in Class
      BY <2>1, LayoutProperties
    <2>3. Extent(l) = BlockSizes[c]
      BY <2>1 DEF Extent
    <2>4. /\ Sound(free, rest, live)
          /\ Clear(free, rest, live, a, BlockSizes[c])
          /\ a \in Addr /\ a % BlockSizes[c] = 0
      BY <2>1, <2>2, PopBlock DEF IInv
    <2>5. AlignedFor(a, l)
      BY <2>1, <2>4 DEF AlignedFor
    <2> HIDE DEF a, b, c, rest
    <2>6. Sound(free, rest, live \cup {b})
      BY <1>1, <2>3, <2>4, <2>5, AddLive
    <2>7. QED
      BY <1>2, <2>1, <2>6 DEF IInv
  <1>4. CASE ~HasBlock(l)
    <2> DEFINE f == Fallback(l)
    <2>1. /\ a = AllocStart(free[FindRegion(f)], f) /\ Fitting(f) # {}
          /\ free' = Carve(f) /\ list_heads' = list_heads
      BY <1>4 DEF Alloc, AllocResult, CanAlloc
    <2>2. /\ f.size \in Nat \ {0} /\ f.align \in Nat \ {0} /\ f.size >= Extent(l)
          /\ \A x \in Nat : x % f.align = 0 => AlignedFor(x, l)
      BY FallbackProperties
    <2> HIDE DEF a, f
    <2>3. /\ Sound(Carve(f), list_heads, live)
          /\ Clear(Carve(f), list_heads, live, a, f.size)
          /\ a \in Addr /\ a % f.align = 0
      BY <2>1, <2>2, CarveSound
    <2>4. a \in Nat /\ Extent(l) \in Nat
      BY <2>3, LayoutProperties, HeapAssumption DEF Addr
    <2>5. Clear(Carve(f), list_heads, live, a, Extent(l))
      BY <2>2, <2>3, <2>4, ClearPart
    <2>6. AlignedFor(a, l)
      BY <2>2, <2>3, <2>4
    <2> HIDE DEF b
    <2>7. Sound(Carve(f), list_heads, live \cup {b})
      BY <1>1, <2>3, <2>5, <2>6, AddLive
    <2>8. QED
      BY <1>2, <2>1, <2>7 DEF IInv
  <1>5. QED
    BY <1>3, <1>4

\* dealloc: the block becomes the first of its list, or the first region.
LEMMA DeallocSound ==
    ASSUME IInv, NEW b \in live, Dealloc(b)
    PROVE  IInv'
  <1> DEFINE a == b.addr
             l == b.layout
             others == live \ {b}
  <1>1. /\ Sound(free, list_heads, others)
        /\ Clear(free, list_heads, others, a, Extent(l))
    BY DropLive DEF IInv
  <1>2. b \in Live /\ AlignedFor(a, l) /\ a + Extent(l) <= HeapSize
    BY DEF IInv, Sound, LiveSound
  <1>3. a \in Addr /\ l \in Layouts
    BY <1>2 DEF Live
  <1>4. live' = others
    BY DEF Dealloc
  <1>5. CASE Pooled(l)
    <2> DEFINE c == Index(l)
               more == [list_heads EXCEPT ![c] = <<a>> \o @]
    <2>1. list_heads' = more /\ free' = free
      BY <1>5 DEF Dealloc
    <2>2. c \in Class /\ Extent(l) = BlockSizes[c] /\ a % BlockSizes[c] = 0
      BY <1>2, <1>3, <1>5, LayoutProperties DEF Extent, AlignedFor
    <2> HIDE DEF a, l, others, c
    <2>3. Sound(free, more, others)
      BY <1>1, <1>3, <2>2, PushBlock
    <2>4. QED
      BY <1>4, <2>1, <2>3 DEF IInv
  <1>6. CASE ~Pooled(l)
    <2> DEFINE r == [start |-> a, size |-> SizeAlign(l).size]
    <2>1. free' = <<r>> \o free /\ list_heads' = list_heads
      BY <1>6 DEF Dealloc
    <2>2. Extent(l) = SizeAlign(l).size /\ Extent(l) \in Nat \ {0} /\ NodeSize <= Extent(l)
      BY <1>3, <1>6, LayoutProperties, HeapAssumption DEF Extent
    <2> HIDE DEF a, l, others
    <2>3. r.start = a /\ r.size = Extent(l) /\ r \in Region
      <3>1. a \in Nat /\ HeapSize \in Nat
        BY <1>3, HeapAssumption DEF Addr
      <3>2. Extent(l) \in 1..HeapSize
        BY <1>2, <2>2, <3>1
      <3>3. QED
        BY <1>3, <2>2, <3>2 DEF Region
    <2> HIDE DEF r
    <2>4. Sound(<<r>> \o free, list_heads, others)
      BY <1>1, <2>2, <2>3, PushRegion
    <2>5. QED
      BY <1>4, <2>1, <2>4 DEF IInv
  <1>7. QED
    BY <1>5, <1>6

-----------------------------------------------------------------------------
(* The invariant and what it implies *)

\* The heap is sound when it is one region.
LEMMA InitSound == Init => IInv
  <1> SUFFICES ASSUME Init PROVE IInv
    OBVIOUS
  <1> DEFINE r == [start |-> 0, size |-> HeapSize]
  <1>1. HeapSize \in Nat /\ NodeSize \in Nat \ {0} /\ NodeSize <= HeapSize
    BY HeapAssumption
  <1>2. /\ r \in Region /\ r.start = 0 /\ r.size = HeapSize
        /\ free = <<r>> /\ DOMAIN free = {1} /\ free[1] = r
    BY <1>1 DEF Init, Region, Addr
  <1>3. /\ list_heads \in [Class -> Seq(Addr)] /\ live = {}
        /\ \A c \in Class : DOMAIN list_heads[c] = {}
    BY DEF Init
  <1> HIDE DEF r
  <1>4. RegionsSound(free)
    BY <1>1, <1>2 DEF RegionsSound
  <1>5. BlocksSound(list_heads) /\ LiveSound(live)
    BY <1>3 DEF BlocksSound, LiveSound
  <1>6. Separate(free, list_heads, live)
    BY <1>3 DEF Separate
  <1>7. QED
    BY <1>4, <1>5, <1>6 DEF IInv, Sound

\* alloc and dealloc keep the heap sound.
LEMMA NextSound == IInv /\ [Next]_vars => IInv'
  <1> SUFFICES ASSUME IInv, [Next]_vars PROVE IInv'
    OBVIOUS
  <1>1. ASSUME NEW l \in Layouts, Alloc(l) PROVE IInv'
    BY <1>1, AllocSound
  <1>2. ASSUME NEW b \in live, Dealloc(b) PROVE IInv'
    BY <1>2, DeallocSound
  <1>3. CASE UNCHANGED vars
    BY <1>3 DEF IInv, vars
  <1>4. QED
    BY <1>1, <1>2, <1>3, Zenon DEF Next

\* Every span is a region, a block or an allocation.
LEMMA SpanKinds ==
    ASSUME NEW s \in Spans
    PROVE  \/ \E i \in DOMAIN free :
                 s = [kind |-> <<"region", i>>, from |-> free[i].start, to |-> End(free[i])]
           \/ \E c \in Class : \E i \in DOMAIN list_heads[c] :
                 s = [kind |-> <<"block", c, i>>, from |-> list_heads[c][i],
                      to |-> list_heads[c][i] + BlockSizes[c]]
           \/ \E b \in live :
                 s = [kind |-> <<"live", b>>, from |-> b.addr,
                      to |-> b.addr + Extent(b.layout)]
  <1> DEFINE blocks(c) == { [kind |-> <<"block", c, i>>, from |-> list_heads[c][i],
                             to |-> list_heads[c][i] + BlockSizes[c]] :
                            i \in DOMAIN list_heads[c] }
             regions == { [kind |-> <<"region", i>>, from |-> free[i].start,
                           to |-> End(free[i])] : i \in DOMAIN free }
             allocations == { [kind |-> <<"live", b>>, from |-> b.addr,
                               to |-> b.addr + Extent(b.layout)] : b \in live }
  <1>1. Spans = regions \cup (UNION { blocks(c) : c \in Class }) \cup allocations
    BY DEF Spans
  <1>2. s \in regions \/ s \in UNION { blocks(c) : c \in Class } \/ s \in allocations
    <2> HIDE DEF regions, blocks, allocations
    <2>1. QED
      BY <1>1
  <1>3. ASSUME s \in UNION { blocks(c) : c \in Class } PROVE \E c \in Class : s \in blocks(c)
    <2> HIDE DEF blocks
    <2>1. QED
      BY <1>3
  <1>4. QED
    BY <1>2, <1>3, Zenon

\* Soundness, pair by pair of kinds, is NoOverlap of the spans.
LEMMA SoundNoOverlap == IInv => NoOverlap
  <1> SUFFICES ASSUME IInv PROVE NoOverlap
    OBVIOUS
  <1> DEFINE region(i) == [kind |-> <<"region", i>>, from |-> free[i].start, to |-> End(free[i])]
             block(c, i) == [kind |-> <<"block", c, i>>, from |-> list_heads[c][i],
                             to |-> list_heads[c][i] + BlockSizes[c]]
             held(b) == [kind |-> <<"live", b>>, from |-> b.addr, to |-> b.addr + Extent(b.layout)]
             Disjoint(s, t) == s.to <= t.from \/ t.to <= s.from
  <1>1. ASSUME NEW s \in Spans PROVE s.to <= HeapSize
    <2>1. ASSUME NEW i \in DOMAIN free, s = region(i) PROVE s.to <= HeapSize
      BY <2>1 DEF IInv, Sound, RegionsSound, End
    <2>2. ASSUME NEW c \in Class, NEW i \in DOMAIN list_heads[c], s = block(c, i)
          PROVE s.to <= HeapSize
      BY <2>2 DEF IInv, Sound, BlocksSound
    <2>3. ASSUME NEW b \in live, s = held(b) PROVE s.to <= HeapSize
      BY <2>3 DEF IInv, Sound, LiveSound
    <2>4. QED
      BY <1>1, <2>1, <2>2, <2>3, SpanKinds
  <1>2. ASSUME NEW i \in DOMAIN free, NEW t \in Spans, region(i) # t
        PROVE  Disjoint(region(i), t)
    <2>1. ASSUME NEW j \in DOMAIN free, t = region(j) PROVE Disjoint(region(i), t)
      BY <1>2, <2>1 DEF IInv, Sound, RegionsSound, Apart, End
    <2>2. ASSUME NEW d \in Class, NEW j \in DOMAIN list_heads[d], t = block(d, j)
          PROVE  Disjoint(region(i), t)
      BY <2>2 DEF IInv, Sound, Separate, Apart, End
    <2>3. ASSUME NEW b \in live, t = held(b) PROVE Disjoint(region(i), t)
      BY <2>3 DEF IInv, Sound, Separate, Apart, End
    <2> HIDE DEF Disjoint
    <2>4. QED
      BY <1>2, <2>1, <2>2, <2>3, SpanKinds
  <1>3. ASSUME NEW c \in Class, NEW i \in DOMAIN list_heads[c], NEW t \in Spans,
               block(c, i) # t
        PROVE  Disjoint(block(c, i), t)
    <2>1. ASSUME NEW j \in DOMAIN free, t = region(j) PROVE Disjoint(block(c, i), t)
      BY <2>1 DEF IInv, Sound, Separate, Apart, End
    <2>2. ASSUME NEW d \in Class, NEW j \in DOMAIN list_heads[d], t = block(d, j)
          PROVE  Disjoint(block(c, i), t)
      BY <1>3, <2>2 DEF IInv, Sound, BlocksSound, Apart
    <2>3. ASSUME NEW b \in live, t = held(b) PROVE Disjoint(block(c, i), t)
      BY <2>3 DEF IInv, Sound, Separate, Apart
    <2> HIDE DEF Disjoint
    <2>4. QED
      BY <1>3, <2>1, <2>2, <2>3, SpanKinds
  <1>4. ASSUME NEW a \in live, NEW t \in Spans, held(a) # t
        PROVE  Disjoint(held(a), t)
    <2>1. ASSUME NEW j \in DOMAIN free, t = region(j) PROVE Disjoint(held(a), t)
      BY <2>1 DEF IInv, Sound, Separate, Apart, End
    <2>2. ASSUME NEW d \in Class, NEW j \in DOMAIN list_heads[d], t = block(d, j)
          PROVE  Disjoint(held(a), t)
      BY <2>2 DEF IInv, Sound, Separate, Apart
    <2>3. ASSUME NEW b \in live, t = held(b) PROVE Disjoint(held(a), t)
      BY <1>4, <2>3 DEF IInv, Sound, LiveSound, Apart
    <2> HIDE DEF Disjoint
    <2>4. QED
      BY <1>4, <2>1, <2>2, <2>3, SpanKinds
  <1>5. ASSUME NEW s \in Spans, NEW t \in Spans, s # t PROVE Disjoint(s, t)
    <2> HIDE DEF Disjoint
    <2>1. QED
      BY <1>2, <1>3, <1>4, <1>5, SpanKinds
  <1>6. QED
    BY <1>1, <1>5 DEF NoOverlap

\* A block of a class is aligned to the size of the class, which is a multiple
\* of the alignment asked for.
LEMMA SoundSuitable == IInv => Suitable
  <1> SUFFICES ASSUME IInv, NEW b \in live
               PROVE  b.addr % b.layout.align = 0 /\ Extent(b.layout) >= b.layout.size
    BY DEF Suitable
  <1> DEFINE l == b.layout
  <1>1. b.addr \in Nat /\ l \in Layouts /\ AlignedFor(b.addr, l)
    BY SoundTypes DEF IInv, Sound, LiveSound
  <1> HIDE DEF l
  <1>2. CASE Pooled(l)
    <2>1. b.addr % BlockSizes[Index(l)] = 0
      BY <1>1, <1>2 DEF AlignedFor
    <2>2. b.addr % l.align = 0
      BY <1>1, <1>2, <2>1, LayoutProperties, MultipleOfMultiple
    <2>3. Extent(l) >= l.size
      BY <1>1, <1>2, LayoutProperties DEF Extent
    <2>4. QED
      BY <2>2, <2>3 DEF l
  <1>3. CASE ~Pooled(l)
    <2>1. b.addr % l.align = 0
      BY <1>1, <1>3 DEF AlignedFor
    <2>2. Extent(l) >= l.size
      BY <1>1, <1>3, LayoutProperties DEF Extent
    <2>3. QED
      BY <2>1, <2>2 DEF l
  <1>4. QED
    BY <1>2, <1>3

\* A freed block is what the next request of its layout gets: it is the first
\* of its list, or the first region and fits without padding and without rest.
LEMMA FreedFirst ==
    ASSUME IInv, NEW b \in live, Dealloc(b)
    PROVE  CanAlloc(b.layout)' /\ AllocResult(b.layout)' = b.addr
  <1> DEFINE a == b.addr
             l == b.layout
             f == Fallback(l)
  <1>1. a \in Nat /\ l \in Layouts /\ AlignedFor(a, l)
    BY SoundTypes DEF IInv, Sound, LiveSound
  <1>2. CASE Pooled(l)
    <2> DEFINE c == Index(l)
    <2>1. c \in Class /\ list_heads \in [Class -> Seq(Addr)] /\ a \in Addr
      BY <1>1, <1>2, LayoutProperties DEF IInv, Sound, BlocksSound, LiveSound, Live
    <2>2. list_heads'[c] = <<a>> \o list_heads[c]
      BY <1>2, <2>1 DEF Dealloc
    <2>3. list_heads[c] \in Seq(Addr)
      BY <2>1
    <2> HIDE DEF c
    <2>4. list_heads'[c] # <<>> /\ Head(list_heads'[c]) = a
      BY <2>1, <2>2, <2>3, PushFront
    <2>5. HasBlock(l)'
      BY <1>2, <2>4 DEF HasBlock, c
    <2>6. QED
      BY <2>4, <2>5 DEF CanAlloc, AllocResult, c
  <1>3. CASE ~Pooled(l)
    <2> DEFINE r == [start |-> a, size |-> f.size]
    <2>1. f = SizeAlign(l) /\ f.align = l.align /\ f.size \in Nat /\ l.align \in Nat \ {0}
      BY <1>1, <1>3, LayoutProperties DEF Fallback
    <2>2. free' = <<r>> \o free /\ free \in Seq(Region)
      BY <1>3, <2>1 DEF Dealloc, IInv, Sound, RegionsSound
    <2>3. DOMAIN (free') = 1..(Len(free) + 1) /\ free'[1] = r /\ Len(free) \in Nat
      BY <2>2
    <2> HIDE DEF f
    <2>4. r.start = a /\ End(r) = a + f.size
      BY DEF End
    <2> HIDE DEF r
    <2>5. AllocStart(r, f) = a
      BY <1>1, <1>3, <2>1, <2>4, AlignUpProperties DEF AllocStart, AlignedFor
    <2>6. Fits(r, f)
      BY <2>4, <2>5 DEF Fits
    <2>7. 1 \in Fitting(f)' /\ Fitting(f)' \subseteq Nat \ {0}
      BY <2>3, <2>6 DEF Fitting
    <2>8. FindRegion(f)' = 1
      <3>1. \A j \in Fitting(f)' : 1 <= j
        BY <2>7
      <3>2. \A i \in Fitting(f)' : (\A j \in Fitting(f)' : i <= j) => i = 1
        BY <2>7
      <3>3. QED
        BY <2>7, <3>1, <3>2 DEF FindRegion
    <2>9. AllocResult(l)' = AllocStart(free'[1], f)
      BY <1>3, <2>8 DEF AllocResult, HasBlock, f
    <2>10. CanAlloc(l)'
      BY <2>7 DEF CanAlloc, f
    <2>11. QED
      BY <2>3, <2>5, <2>9, <2>10
  <1>4. QED
    BY <1>2, <1>3

-----------------------------------------------------------------------------
(* Theorems *)

\* The heap is always sound: everything it consists of is disjoint, in bounds
\* and aligned for the next request of its class.
THEOREM HeapInvariant == Spec => []IInv
  BY InitSound, NextSound, PTL DEF Spec

\* The variables of the heap have their types.
THEOREM HeapTypes == Spec => []TypeOK
  <1>1. IInv => TypeOK
    BY DEF IInv, Sound, RegionsSound, BlocksSound, LiveSound, TypeOK, Region, Live
  <1>2. QED
    BY <1>1, HeapInvariant, PTL

\* The assertion of add_free_region never fails, in a heap of any size and
\* after any history of requests of any layouts.
THEOREM HeapRegionsHoldNodes == Spec => []RegionsHoldNodes
  <1>1. IInv => RegionsHoldNodes
    <2> SUFFICES ASSUME IInv, NEW i \in DOMAIN free PROVE free[i].size >= NodeSize
      BY DEF RegionsHoldNodes
    <2>1. free[i].size \in Nat /\ NodeSize \in Nat /\ NodeSize <= free[i].size
      BY SoundTypes, HeapAssumption DEF IInv, Sound, RegionsSound
    <2>2. QED
      BY <2>1
  <1>2. QED
    BY <1>1, HeapInvariant, PTL

\* No two callers ever share memory, no free list or region reaches into a
\* caller's block, no block is free twice, and everything lies in the heap.
THEOREM HeapNoOverlap == Spec => []NoOverlap
  BY HeapInvariant, SoundNoOverlap, PTL

\* What a caller gets has the alignment and at least the size it asked for.
THEOREM HeapSuitable == Spec => []Suitable
  BY HeapInvariant, SoundSuitable, PTL

\* What is freed is what the next request of that layout gets.
THEOREM HeapReusedAtOnce == Spec => ReusedAtOnce
  <1> DEFINE Reused == \A b \in live \ live' :
                          CanAlloc(b.layout)' /\ AllocResult(b.layout)' = b.addr
  <1>1. IInv /\ [Next]_vars => [Reused]_vars
    <2> SUFFICES ASSUME IInv, Next, NEW b \in live \ live'
                 PROVE  CanAlloc(b.layout)' /\ AllocResult(b.layout)' = b.addr
      BY Zenon
    <2>1. CASE \E l \in Layouts : Alloc(l)
      BY <2>1 DEF Alloc
    <2>2. CASE \E d \in live : Dealloc(d)
      <3>1. PICK d \in live : Dealloc(d)
        BY <2>2
      <3>2. d = b
        BY <3>1 DEF Dealloc
      <3>3. QED
        BY <3>1, <3>2, FreedFirst
    <2>3. QED
      BY <2>1, <2>2, Zenon DEF Next
  <1>2. QED
    BY <1>1, HeapInvariant, PTL DEF Spec, ReusedAtOnce

=============================================================================
