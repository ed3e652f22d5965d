---------------------------- MODULE FramesProofs ----------------------------
(***************************************************************************)
(* The frame allocator for every memory map of whole pages that does not   *)
(* overflow: FramesSpec implies that FramesFresh and NothingSkipped hold.  *)
(***************************************************************************)
EXTENDS Frames, WellFoundedInduction, TLAPS

\* Zenon first: it needs no encoding of the context.
USE ZenonT(3), SMTT(20)

-----------------------------------------------------------------------------
(* Arithmetic *)

\* Division by a page: every number is a multiple of the page size and a rest.
LEMMA DivMod ==
    ASSUME NEW P \in Nat \ {0}, NEW a \in Nat
    PROVE  /\ a \div P \in Nat
           /\ a % P \in 0..(P - 1)
           /\ a = P * (a \div P) + (a % P)
  BY SMT

\* A multiple leaves no rest.
LEMMA MulMod ==
    ASSUME NEW P \in Nat \ {0}, NEW q \in Nat
    PROVE  (P * q) % P = 0
  BY SMT

\* Of two multiples, the greater is greater by at least one page.
LEMMA MulStep ==
    ASSUME NEW P \in Nat \ {0}, NEW q \in Nat, NEW k \in Nat, P * k < P * q
    PROVE  P * k + P <= P * q
  <1>1. k < q
    BY SMT
  <1>2. QED
    BY <1>1, SMT

\* The same for numbers without a rest.
LEMMA AlignedStep ==
    ASSUME NEW P \in Nat \ {0}, NEW a \in Nat, NEW b \in Nat,
           a % P = 0, b % P = 0, a < b
    PROVE  a + P <= b
  <1>1. a = P * (a \div P) /\ a \div P \in Nat
    BY DivMod
  <1>2. b = P * (b \div P) /\ b \div P \in Nat
    BY DivMod
  <1>3. QED
    BY <1>1, <1>2, MulStep

\* Whole pages added to an aligned address end at an aligned address.
LEMMA AlignedSum ==
    ASSUME NEW P \in Nat \ {0}, NEW a \in Nat, NEW n \in Nat, a % P = 0
    PROVE  (a + n * P) % P = 0
  <1>1. a \div P \in Nat /\ a = P * (a \div P)
    BY DivMod
  <1>2. PICK k \in Nat : k = (a \div P) + n
    BY <1>1
  <1>3. a + n * P = P * k
    BY <1>1, <1>2
  <1>4. (P * k) % P = 0
    BY MulMod
  <1>5. QED
    BY <1>3, <1>4, Zenon

-----------------------------------------------------------------------------
(* align_up and the candidate of a range *)

\* AlignUp rounds up to the least multiple of the page size, as long as the sum
\* in the code does not overflow.
LEMMA AlignUpLeast ==
    ASSUME NEW v \in Nat, v + PageSize - 1 <= MaxAddress
    PROVE  /\ AlignUp(v) \in Nat
           /\ v <= AlignUp(v)
           /\ AlignUp(v) % PageSize = 0
           /\ \A f \in Nat : f % PageSize = 0 /\ v <= f => AlignUp(v) <= f
  <1> DEFINE a == v + PageSize - 1
             q == a \div PageSize
  <1>1. PageSize \in Nat \ {0} /\ MaxAddress \in Nat /\ a \in Nat
    BY MachineAssumption
  <1>2. q \in Nat /\ a % PageSize \in 0..(PageSize - 1)
        /\ a = PageSize * q + (a % PageSize)
    BY <1>1, DivMod
  <1>3. AlignUp(v) = a - (a % PageSize)
    BY <1>1 DEF AlignUp
  <1>4. AlignUp(v) = PageSize * q /\ PageSize * q \in Nat
    BY <1>1, <1>2, <1>3
  <1>5. AlignUp(v) % PageSize = 0
    BY <1>1, <1>2, <1>4, MulMod
  <1>6. v <= AlignUp(v)
    BY <1>1, <1>2, <1>3
  <1>7. ASSUME NEW f \in Nat, f % PageSize = 0, v <= f, f < AlignUp(v)
        PROVE  FALSE
    <2>1. f + PageSize <= AlignUp(v)
      BY <1>1, <1>4, <1>5, <1>7, AlignedStep
    <2>2. AlignUp(v) <= a
      BY <1>1, <1>2, <1>3
    <2>3. QED
      BY <1>1, <1>4, <1>7, <2>1, <2>2
  <1>8. QED
    BY <1>4, <1>5, <1>6, <1>7

\* What MapOK says of one descriptor.
LEMMA DescriptorOK ==
    ASSUME NEW map, MapOK(map), NEW i \in Entries(map)
    PROVE  /\ i \in Nat \ {0}
           /\ map.at[i] \in Descriptor
           /\ map.at[i].phys_start \in Nat
           /\ map.at[i].page_count \in Nat
           /\ RangeEnd(map.at[i]) \in Nat
           /\ map.at[i].phys_start % PageSize = 0
           /\ RangeEnd(map.at[i]) % PageSize = 0
           /\ RangeEnd(map.at[i]) + PageSize <= MaxAddress
           /\ ~Overflows(map.at[i])
  <1>1. PageSize \in Nat \ {0} /\ MaxAddress \in Nat
    BY MachineAssumption
  <1>2. map.at \in Seq(Descriptor) /\ i \in DOMAIN map.at
    BY DEF MapOK, MemoryMap
  <1>3. map.at[i] \in Descriptor /\ i \in Nat \ {0}
    BY <1>2
  <1> DEFINE d == map.at[i]
  <1>4. d.phys_start \in Nat /\ d.page_count \in Nat
    BY <1>3 DEF Descriptor
  <1>5. RangeEnd(d) = d.phys_start + d.page_count * PageSize /\ RangeEnd(d) \in Nat
    BY <1>1, <1>4 DEF RangeEnd
  <1>6. d.phys_start % PageSize = 0 /\ RangeEnd(d) + PageSize <= MaxAddress
    BY DEF MapOK
  <1>7. RangeEnd(d) % PageSize = 0
    <2>1. PICK a \in Nat, n \in Nat : a = d.phys_start /\ n = d.page_count
      BY <1>4
    <2>2. a % PageSize = 0
      BY <1>6, <2>1, Zenon
    <2>3. (a + n * PageSize) % PageSize = 0
      BY <1>1, <2>2, AlignedSum
    <2>4. QED
      BY <1>5, <2>1, <2>3, Zenon
  <1>8. ~Overflows(d)
    BY <1>1, <1>5, <1>6 DEF Overflows
  <1>9. QED
    BY <1>3, <1>4, <1>5, <1>6, <1>7, <1>8

\* The candidate of a range that serves a request is a whole frame of the range
\* at or above next_address.
LEMMA CandidateInside ==
    ASSUME NEW map, MapOK(map), NEW i \in Entries(map), NEW next \in Nat,
           Serves(map.at[i], next)
    PROVE  LET d == map.at[i]
               f == Candidate(d, next)
           IN  /\ f \in Nat
               /\ f % PageSize = 0
               /\ next <= f
               /\ d.phys_start <= f
               /\ f + PageSize <= RangeEnd(d)
  <1> DEFINE d == map.at[i]
             v == IF next > d.phys_start THEN next ELSE d.phys_start
             f == Candidate(d, next)
  <1>1. PageSize \in Nat \ {0} /\ MaxAddress \in Nat
    BY MachineAssumption
  <1>2. /\ d.phys_start \in Nat /\ RangeEnd(d) \in Nat
        /\ RangeEnd(d) % PageSize = 0 /\ RangeEnd(d) + PageSize <= MaxAddress
    BY DescriptorOK
  <1>3. v \in Nat /\ next <= v /\ d.phys_start <= v
    BY <1>2
  <1>4. f = AlignUp(v) /\ f < RangeEnd(d)
    BY DEF Serves, Candidate
  <1>5. v + PageSize - 1 <= MaxAddress
    <2>1. CASE v + PageSize - 1 > MaxAddress
      <3>1. f = v
        BY <1>4, <2>1 DEF AlignUp
      <3>2. QED
        BY <1>1, <1>2, <1>3, <1>4, <2>1, <3>1
    <2>2. QED
      BY <1>1, <1>3, <2>1
  <1>6. f \in Nat /\ v <= f /\ f % PageSize = 0
    BY <1>3, <1>4, <1>5, AlignUpLeast
  <1>7. f + PageSize <= RangeEnd(d)
    BY <1>1, <1>2, <1>4, <1>6, AlignedStep
  <1>8. QED
    BY <1>2, <1>3, <1>6, <1>7

\* A usable frame at or above next_address makes its range serve the request, with
\* a candidate that is no higher.
LEMMA UsableServes ==
    ASSUME NEW map, MapOK(map), NEW i \in Entries(map), NEW next \in Nat,
           Usable(map.at[i]), NEW g \in Nat, g % PageSize = 0, next <= g,
           map.at[i].phys_start <= g, g + PageSize <= RangeEnd(map.at[i])
    PROVE  Serves(map.at[i], next) /\ Candidate(map.at[i], next) <= g
  <1> DEFINE d == map.at[i]
             v == IF next > d.phys_start THEN next ELSE d.phys_start
  <1>1. PageSize \in Nat \ {0} /\ MaxAddress \in Nat
    BY MachineAssumption
  <1>2. /\ d.phys_start \in Nat /\ RangeEnd(d) \in Nat
        /\ RangeEnd(d) + PageSize <= MaxAddress
    BY DescriptorOK
  <1>3. v \in Nat /\ v <= g
    BY <1>2
  <1>4. v + PageSize - 1 <= MaxAddress
    BY <1>1, <1>2, <1>3
  <1>5. AlignUp(v) \in Nat /\ AlignUp(v) <= g
    BY <1>3, <1>4, AlignUpLeast
  <1>6. Candidate(d, next) = AlignUp(v)
    BY DEF Candidate
  <1>7. AlignUp(v) < RangeEnd(d)
    BY <1>1, <1>2, <1>5
  <1>8. QED
    BY <1>5, <1>6, <1>7 DEF Serves

\* The members of UsableFrames.
LEMMA UsableFramesDef ==
    ASSUME NEW map, MapOK(map), NEW g
    PROVE  g \in UsableFrames(map) <=>
             \E i \in Entries(map) :
                /\ Usable(map.at[i])
                /\ g \in Nat /\ g % PageSize = 0
                /\ map.at[i].phys_start <= g /\ g + PageSize <= RangeEnd(map.at[i])
  <1>1. PageSize \in Nat \ {0}
    BY MachineAssumption
  <1>2. ASSUME NEW i \in Entries(map)
        PROVE  g \in map.at[i].phys_start..(RangeEnd(map.at[i]) - PageSize) <=>
                 /\ g \in Nat
                 /\ map.at[i].phys_start <= g /\ g + PageSize <= RangeEnd(map.at[i])
    <2>1. map.at[i].phys_start \in Nat /\ RangeEnd(map.at[i]) \in Nat
      BY DescriptorOK
    <2>2. QED
      BY <1>1, <2>1
  <1>3. QED
    <2>1. g \in UsableFrames(map) <=>
            \E i \in Entries(map) :
                /\ Usable(map.at[i])
                /\ g \in map.at[i].phys_start..(RangeEnd(map.at[i]) - PageSize)
                /\ g % PageSize = 0
      BY DEF UsableFrames
    <2>2. QED
      BY <1>2, <2>1, Zenon

\* When some range serves a request, the first one in map order does, and the
\* request is granted.
LEMMA FirstServing ==
    ASSUME NEW map, MapOK(map), NEW next \in Nat,
           NEW k \in Entries(map), Serves(map.at[k], next)
    PROVE  Granted(map, next) # {}
  <1> DEFINE T == {j \in Entries(map) : Serves(map.at[j], next)}
  <1>1. T \subseteq Nat /\ T # {}
    BY DescriptorOK
  <1>2. PICK i \in T : \A j \in T : ~(<<j, i>> \in OpToRel(<, Nat))
    BY <1>1, NatLessThanWellFounded, WFMin, Zenon
  <1>3. \A j \in T : ~(j < i)
    BY <1>1, <1>2 DEF OpToRel
  <1>4. i \in Entries(map) /\ i \in Nat \ {0} /\ Serves(map.at[i], next)
    BY DescriptorOK
  <1>5. \A j \in 1..(i - 1) : j \in Entries(map)
    <2>1. Entries(map) = 1..EntryCount(map)
      BY <1>4 DEF Entries
    <2>2. EntryCount(map) \in Int
      <3>1. map.desc_size \in Nat /\ map.map_size \in Nat
        BY DEF MapOK, MemoryMap
      <3>2. QED
        BY <3>1, DivMod DEF EntryCount
    <2>3. QED
      BY <1>4, <2>1, <2>2
  <1>6. ASSUME NEW j \in 1..(i - 1)
        PROVE  ~Serves(map.at[j], next) /\ ~Overflows(map.at[j])
    <2>1. j \in Entries(map) /\ j < i
      BY <1>4, <1>5
    <2>2. QED
      BY <1>3, <2>1, DescriptorOK
  <1>7. i \in Serving(map, next)
    BY <1>4, <1>6, DescriptorOK DEF Serving
  <1>8. Candidate(map.at[i], next) + PageSize <= MaxAddress
    <2>1. /\ Candidate(map.at[i], next) \in Nat
          /\ Candidate(map.at[i], next) + PageSize <= RangeEnd(map.at[i])
      BY <1>4, CandidateInside
    <2>2. RangeEnd(map.at[i]) \in Nat /\ RangeEnd(map.at[i]) + PageSize <= MaxAddress
      BY <1>4, DescriptorOK
    <2>3. QED
      BY <2>1, <2>2, MachineAssumption
  <1>9. QED
    BY <1>7, <1>8 DEF Granted

-----------------------------------------------------------------------------
(* The inductive invariant *)

\* Below next_address a sorted map has no usable frame that was not handed out.
BelowHanded ==
    Sorted(memory_map) =>
        \A g \in UsableFrames(memory_map) :
            LowMemoryCutoff <= g /\ g < next_address => g \in HandedSet

\* The frames lie below next_address, which is why the next one is fresh; the
\* rest is what the two properties say without a failed request.
FramesInv ==
    /\ MapOK(memory_map)
    /\ next_address \in Nat
    /\ handed \in Seq(Nat)
    /\ LowMemoryCutoff <= next_address
    /\ \A i \in 1..Len(handed) : handed[i] + PageSize <= next_address
    /\ FramesFresh
    /\ BelowHanded

\* A new allocator satisfies the invariant (FrameAllocator::new).
LEMMA FramesInitInv == FramesInit => FramesInv
  <1> SUFFICES ASSUME FramesInit PROVE FramesInv
    OBVIOUS
  <1>1. LowMemoryCutoff \in Nat /\ PageSize \in Nat \ {0}
    BY FramesAssumption, MachineAssumption
  <1>2. MapOK(memory_map) /\ next_address = LowMemoryCutoff /\ handed = <<>>
    BY DEF FramesInit
  <1>3. FramesFresh
    BY <1>2 DEF FramesFresh, HandedSet
  <1>4. BelowHanded
    <2> SUFFICES ASSUME NEW g \in UsableFrames(memory_map),
                        LowMemoryCutoff <= g, g < next_address
                 PROVE  FALSE
      BY DEF BelowHanded
    <2>1. g \in Nat
      BY <1>2, UsableFramesDef
    <2>2. QED
      BY <1>1, <1>2, <2>1
  <1>5. QED
    BY <1>1, <1>2, <1>3, <1>4 DEF FramesInv

\* A request preserves the invariant (allocate_physical_frame).
LEMMA FramesStepInv == FramesInv /\ AllocatePhysicalFrame => FramesInv'
  <1> SUFFICES ASSUME FramesInv, AllocatePhysicalFrame PROVE FramesInv'
    OBVIOUS
  <1>1. LowMemoryCutoff \in Nat /\ PageSize \in Nat \ {0} /\ MaxAddress \in Nat
    BY FramesAssumption, MachineAssumption
  <1>2. /\ MapOK(memory_map) /\ next_address \in Nat /\ handed \in Seq(Nat)
        /\ LowMemoryCutoff <= next_address
        /\ \A k \in 1..Len(handed) : handed[k] + PageSize <= next_address
        /\ FramesFresh /\ BelowHanded
    BY DEF FramesInv
  <1>3. memory_map' = memory_map
    BY DEF AllocatePhysicalFrame
  <1>4. PICK f \in Granted(memory_map, next_address) :
            next_address' = f + PageSize /\ handed' = Append(handed, f)
    BY DEF AllocatePhysicalFrame
  <1>5. PICK i \in Serving(memory_map, next_address) :
            f = Candidate(memory_map.at[i], next_address)
    BY DEF Granted
  <1> DEFINE d == memory_map.at[i]
  <1>6. /\ i \in Entries(memory_map) /\ Serves(d, next_address)
        /\ \A j \in 1..(i - 1) : ~Serves(memory_map.at[j], next_address)
    BY DEF Serving
  <1>7. /\ f \in Nat /\ f % PageSize = 0 /\ next_address <= f
        /\ d.phys_start <= f /\ f + PageSize <= RangeEnd(d)
    BY <1>2, <1>5, <1>6, CandidateInside
  <1>8. f \in UsableFrames(memory_map)
    BY <1>2, <1>6, <1>7, UsableFramesDef DEF Serves
  <1>9. /\ handed' \in Seq(Nat) /\ Len(handed') = Len(handed) + 1
        /\ Len(handed) \in Nat /\ DOMAIN handed = 1..Len(handed)
        /\ DOMAIN handed' = 1..(Len(handed) + 1)
        /\ handed'[Len(handed) + 1] = f
        /\ \A k \in 1..Len(handed) : handed'[k] = handed[k] /\ handed[k] \in Nat
    BY <1>2, <1>4, <1>7
  <1>10. HandedSet' = HandedSet \cup {f}
    BY <1>9 DEF HandedSet
  <1>11. \A k \in 1..Len(handed') : handed'[k] + PageSize <= next_address'
    BY <1>1, <1>2, <1>4, <1>7, <1>9
  <1>12. FramesFresh'
    <2>1. ASSUME NEW k \in DOMAIN handed', NEW l \in DOMAIN handed', k < l
          PROVE  handed'[k] + PageSize <= handed'[l]
      <3>1. k \in 1..Len(handed) /\ l \in 1..(Len(handed) + 1)
        BY <1>9, <2>1
      <3>2. handed'[k] = handed[k] /\ handed[k] \in Nat
        BY <1>9, <3>1, Zenon
      <3>3. CASE l = Len(handed) + 1
        <4>1. handed[k] + PageSize <= next_address
          BY <1>2, <3>1, Zenon
        <4>2. handed'[l] = f
          BY <1>9, <3>3, Zenon
        <4>3. QED
          BY <1>1, <1>2, <1>7, <3>2, <4>1, <4>2
      <3>4. CASE l # Len(handed) + 1
        <4>1. l \in 1..Len(handed)
          BY <1>9, <3>1, <3>4
        <4>2. handed'[l] = handed[l]
          BY <1>9, <4>1, Zenon
        <4>3. handed[k] + PageSize <= handed[l]
          BY <1>2, <1>9, <2>1, <3>1, <4>1, Zenon DEF FramesFresh
        <4>4. QED
          BY <3>2, <4>2, <4>3, Zenon
      <3>5. QED
        BY <3>3, <3>4
    <2>2. ASSUME NEW g \in HandedSet'
          PROVE  LowMemoryCutoff <= g /\ g \in UsableFrames(memory_map)'
      <3>1. UsableFrames(memory_map)' = UsableFrames(memory_map)
        BY <1>3
      <3>2. CASE g = f
        BY <1>1, <1>2, <1>7, <1>8, <3>1, <3>2
      <3>3. CASE g \in HandedSet
        BY <1>2, <3>1, <3>3 DEF FramesFresh
      <3>4. QED
        BY <1>10, <3>2, <3>3
    <2>3. QED
      BY <2>1, <2>2 DEF FramesFresh
  <1>13. BelowHanded'
    <2> SUFFICES ASSUME Sorted(memory_map), NEW g \in UsableFrames(memory_map),
                        LowMemoryCutoff <= g, g < next_address'
                 PROVE  g \in HandedSet'
      BY <1>3 DEF BelowHanded
    <2>1. PICK j \in Entries(memory_map) :
             /\ Usable(memory_map.at[j])
             /\ g \in Nat /\ g % PageSize = 0
             /\ memory_map.at[j].phys_start <= g
             /\ g + PageSize <= RangeEnd(memory_map.at[j])
      BY <1>2, UsableFramesDef
    <2>2. CASE g < next_address
      BY <1>2, <1>10, <2>2 DEF BelowHanded
    <2>3. CASE next_address <= g
      <3>1. Serves(memory_map.at[j], next_address)
            /\ Candidate(memory_map.at[j], next_address) <= g
        BY <1>2, <2>1, <2>3, UsableServes
      <3>2. i \in Nat \ {0} /\ j \in Nat \ {0}
        BY <1>2, <1>6, DescriptorOK
      <3>3. ~(j < i)
        BY <1>6, <3>1, <3>2
      <3>4. CASE i = j
        <4>1. f <= g
          BY <1>5, <3>1, <3>4
        <4>2. g = f
          <5>1. g < f + PageSize
            BY <1>4
          <5>2. ~(f < g)
            <6>1. ASSUME f < g PROVE f + PageSize <= g
              BY <1>1, <1>7, <2>1, <6>1, AlignedStep
            <6>2. QED
              BY <1>1, <1>7, <2>1, <5>1, <6>1
          <5>3. QED
            BY <1>7, <2>1, <4>1, <5>2
        <4>3. QED
          BY <1>10, <4>2
      <3>5. CASE i < j
        <4>1. RangeEnd(d) <= memory_map.at[j].phys_start
          BY <1>6, <2>1, <3>5 DEF Sorted, Serves
        <4>2. RangeEnd(d) \in Nat /\ memory_map.at[j].phys_start \in Nat
          BY <1>2, <1>6, DescriptorOK
        <4>3. QED
          BY <1>1, <1>4, <1>7, <2>1, <4>1, <4>2
      <3>6. QED
        BY <3>2, <3>3, <3>4, <3>5
    <2>4. QED
      BY <1>2, <2>1, <2>2, <2>3
  <1>14. next_address' \in Nat /\ LowMemoryCutoff <= next_address'
    BY <1>1, <1>2, <1>4, <1>7
  <1>15. MapOK(memory_map)'
    BY <1>2, <1>3
  <1>16. QED
    BY <1>9, <1>11, <1>12, <1>13, <1>14, <1>15 DEF FramesInv

-----------------------------------------------------------------------------
(* The theorems *)

\* The invariant holds of the allocator over any memory map.
THEOREM FramesInvariant == FramesSpec => []FramesInv
  <1>1. FramesInit => FramesInv
    BY FramesInitInv
  <1>2. FramesInv /\ [AllocatePhysicalFrame]_frameVars => FramesInv'
    <2> SUFFICES ASSUME FramesInv, [AllocatePhysicalFrame]_frameVars PROVE FramesInv'
      OBVIOUS
    <2>1. CASE AllocatePhysicalFrame
      BY <2>1, FramesStepInv
    <2>2. CASE UNCHANGED frameVars
      BY <2>2 DEF frameVars, FramesInv, FramesFresh, BelowHanded, HandedSet
    <2>3. QED
      BY <2>1, <2>2
  <1>3. QED
    BY <1>1, <1>2, PTL DEF FramesSpec

\* The frames allocate_physical_frame hands out never overlap and lie in usable
\* ranges above the low memory, whatever the memory map.
THEOREM FramesFreshAlways == FramesSpec => []FramesFresh
  <1>1. FramesInv => FramesFresh
    BY DEF FramesInv
  <1>2. QED
    BY <1>1, FramesInvariant, PTL

\* Over a sorted memory map allocate_physical_frame skips no usable frame, and
\* fails only when every one has been handed out.
THEOREM NothingSkippedAlways == FramesSpec => []NothingSkipped
  <1>1. FramesInv => NothingSkipped
    <2> SUFFICES ASSUME FramesInv, Sorted(memory_map),
                        NEW g \in UsableFrames(memory_map), LowMemoryCutoff <= g,
                        g < next_address \/ Granted(memory_map, next_address) = {}
                 PROVE  g \in HandedSet
      BY DEF NothingSkipped
    <2>1. MapOK(memory_map) /\ next_address \in Nat /\ BelowHanded
      BY DEF FramesInv
    <2>2. PICK j \in Entries(memory_map) :
             /\ Usable(memory_map.at[j])
             /\ g \in Nat /\ g % PageSize = 0
             /\ memory_map.at[j].phys_start <= g
             /\ g + PageSize <= RangeEnd(memory_map.at[j])
      BY <2>1, UsableFramesDef
    <2>3. g < next_address
      <3>1. ASSUME next_address <= g PROVE FALSE
        <4>1. Serves(memory_map.at[j], next_address)
          BY <2>1, <2>2, <3>1, UsableServes
        <4>2. Granted(memory_map, next_address) # {}
          BY <2>1, <4>1, FirstServing
        <4>3. QED
          BY <2>1, <2>2, <3>1, <4>2
      <3>2. QED
        BY <2>1, <2>2, <3>1
    <2>4. QED
      BY <2>1, <2>3 DEF BelowHanded
  <1>2. QED
    BY <1>1, FramesInvariant, PTL

=============================================================================
