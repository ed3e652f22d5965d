----------------------------- MODULE ElfProofs -----------------------------
(***************************************************************************)
(* Proof that the two ELF parsers agree on every file, whatever its        *)
(* headers say, for every page size and every size of the headers.         *)
(***************************************************************************)
EXTENDS Elf, WellFoundedInduction, TLAPS

\* Zenon first: it needs no encoding of the context.
USE ZenonT(3), SMTT(20)

\* The files a parser may meet: any length, any fields, any program headers.
ElfFile ==
    [len: 0..MaxAddress, magic: BOOLEAN, class: Nat, endian: STRING, version: Nat,
     type: STRING, machine: STRING, phentsize: Nat, phoff: Nat, phnum: Nat,
     headers: UNION {[D -> [type: STRING, segment: Segment]] : D \in SUBSET Nat}]

\* A check of a parser, whether it fails and with which error.
Errors ==
    {"FileTooSmall", "BadMagic", "UnsupportedClass", "UnsupportedEndian",
     "UnsupportedVersion", "UnsupportedType", "UnsupportedMachine",
     "InvalidProgramHeaderSize", "SegmentAlignment", "SegmentOutOfBounds"}
Check == BOOLEAN \X Errors

Passed(s) == \A k \in DOMAIN s : ~s[k][1]

-----------------------------------------------------------------------------
(* Sequences of checks *)

\* A set of natural numbers has a least element.
LEMMA Least ==
    ASSUME NEW T, T \subseteq Nat, T # {}
    PROVE  \E i \in T : \A j \in T : i <= j
  <1>1. PICK i \in T : \A j \in T : ~(<<j, i>> \in OpToRel(<, Nat))
    BY NatLessThanWellFounded, WFMin, Zenon
  <1>2. \A j \in T : ~(j < i)
    BY <1>1 DEF OpToRel
  <1>3. \A j \in T : i <= j
    BY <1>2
  <1>4. QED
    BY <1>3

\* Early returns let a file pass exactly when no check fails.
LEMMA PassesAll ==
    ASSUME NEW s \in Seq(Check)
    PROVE  FirstError(s) = "ok" <=> Passed(s)
  <1> DEFINE failed == {k \in DOMAIN s : s[k][1]}
             first == CHOOSE k \in failed : \A j \in failed : k <= j
  <1>1. CASE failed = {}
    <2>1. FirstError(s) = "ok"
      BY <1>1, Zenon DEF FirstError
    <2>2. Passed(s)
      BY <1>1, Zenon DEF Passed
    <2>3. QED
      BY <2>1, <2>2
  <1>2. CASE failed # {}
    <2>1. failed \subseteq Nat
      <3>1. DOMAIN s \subseteq Nat
        OBVIOUS
      <3>2. QED
        BY <3>1, Zenon
    <2>2. \E i \in failed : \A j \in failed : i <= j
      <3> HIDE DEF failed
      <3> QED
        BY <1>2, <2>1, Least
    <2>3. first \in failed
      BY <2>2, Zenon
    <2>4. FirstError(s) = s[first][2]
      BY <1>2, Zenon DEF FirstError
    <2>5. first \in DOMAIN s /\ s[first][1]
      BY <2>3, Zenon
    <2> HIDE DEF first
    <2>6. s[first][2] # "ok"
      BY <2>5 DEF Check, Errors
    <2>7. QED
      BY <2>4, <2>5, <2>6, Zenon DEF Passed
  <1>3. QED
    BY <1>1, <1>2, Zenon

\* Two sequences of checks, one after the other.
LEMMA PassesBoth ==
    ASSUME NEW s \in Seq(Check), NEW t \in Seq(Check)
    PROVE  /\ s \o t \in Seq(Check)
           /\ Passed(s \o t) <=> Passed(s) /\ Passed(t)
  <1>1. /\ s \o t \in Seq(Check)
        /\ Len(s \o t) = Len(s) + Len(t)
        /\ \A k \in 1..Len(s) : (s \o t)[k] = s[k]
        /\ \A k \in 1..Len(t) : (s \o t)[Len(s) + k] = t[k]
        /\ \A k \in (Len(s) + 1)..(Len(s) + Len(t)) :
              k - Len(s) \in 1..Len(t) /\ (s \o t)[k] = t[k - Len(s)]
    OBVIOUS
  <1>2. ASSUME Passed(s \o t) PROVE Passed(s)
    BY <1>1, <1>2 DEF Passed
  <1>3. ASSUME Passed(s \o t) PROVE Passed(t)
    <2> SUFFICES ASSUME NEW k \in 1..Len(t) PROVE ~t[k][1]
      BY DEF Passed
    <2>1. Len(s) + k \in DOMAIN (s \o t) /\ (s \o t)[Len(s) + k] = t[k]
      BY <1>1
    <2>2. QED
      BY <1>3, <2>1, Zenon DEF Passed
  <1>4. ASSUME Passed(s), Passed(t) PROVE Passed(s \o t)
    <2> SUFFICES ASSUME NEW k \in DOMAIN (s \o t) PROVE ~(s \o t)[k][1]
      BY DEF Passed
    <2>1. CASE k \in 1..Len(s)
      BY <1>1, <1>4, <2>1 DEF Passed
    <2>2. CASE k \in (Len(s) + 1)..(Len(s) + Len(t))
      BY <1>1, <1>4, <2>2 DEF Passed
    <2>3. QED
      BY <1>1, <2>1, <2>2
  <1>5. QED
    BY <1>1, <1>2, <1>3, <1>4

-----------------------------------------------------------------------------
(* The checks of the parsers *)

\* The checks both parsers make are checks, and the last of them refuses an
\* empty program header.
LEMMA HeaderChecks ==
    ASSUME NEW image \in ElfFile
    PROVE  /\ IdentChecks(image) \in Seq(Check)
           /\ KindChecks(image) \in Seq(Check)
           /\ Passed(KindChecks(image)) => ~(image.phentsize < PhdrSize)
  <1>1. ASSUME NEW b \in BOOLEAN, NEW e \in Errors
        PROVE  <<b, e>> \in Check
    BY DEF Check
  <1>2. ASSUME NEW b1 \in Check, NEW b2 \in Check, NEW b3 \in Check
        PROVE  /\ <<b1>> \in Seq(Check)
               /\ <<b1, b2, b3>> \in Seq(Check)
               /\ Passed(<<b1, b2, b3>>) => ~b3[1]
    BY DEF Passed
  <1>3. ASSUME NEW b1 \in Check, NEW b2 \in Check, NEW b3 \in Check, NEW b4 \in Check
        PROVE  <<b1, b2, b3, b4>> \in Seq(Check)
    OBVIOUS
  <1>4. /\ (image.len < EhdrSize) \in BOOLEAN
        /\ (~image.magic) \in BOOLEAN
        /\ (image.class # 64) \in BOOLEAN
        /\ (image.endian # "little") \in BOOLEAN
        /\ (image.type \notin {"EXEC", "DYN"}) \in BOOLEAN
        /\ (image.machine # "x86_64") \in BOOLEAN
        /\ (image.phentsize < PhdrSize) \in BOOLEAN
    OBVIOUS
  <1>5. /\ "FileTooSmall" \in Errors /\ "BadMagic" \in Errors
        /\ "UnsupportedClass" \in Errors /\ "UnsupportedEndian" \in Errors
        /\ "UnsupportedType" \in Errors /\ "UnsupportedMachine" \in Errors
        /\ "InvalidProgramHeaderSize" \in Errors
    BY DEF Errors
  <1>6. /\ <<image.len < EhdrSize, "FileTooSmall">> \in Check
        /\ <<~image.magic, "BadMagic">> \in Check
        /\ <<image.class # 64, "UnsupportedClass">> \in Check
        /\ <<image.endian # "little", "UnsupportedEndian">> \in Check
    BY <1>1, <1>4, <1>5, Zenon
  <1>7. /\ <<image.type \notin {"EXEC", "DYN"}, "UnsupportedType">> \in Check
        /\ <<image.machine # "x86_64", "UnsupportedMachine">> \in Check
        /\ <<image.phentsize < PhdrSize, "InvalidProgramHeaderSize">> \in Check
    BY <1>1, <1>4, <1>5, Zenon
  <1>8. IdentChecks(image) \in Seq(Check)
    BY <1>3, <1>6, ZenonT(60) DEF IdentChecks
  <1>9. KindChecks(image) \in Seq(Check)
    BY <1>2, <1>7, Zenon DEF KindChecks
  <1>10. Passed(KindChecks(image)) => ~(image.phentsize < PhdrSize)
    BY <1>2, <1>7, Zenon DEF KindChecks
  <1>11. QED
    BY <1>8, <1>9, <1>10

\* The file headers the kernel's parser and the loader's accept.
LEMMA HeadersAccepted ==
    ASSUME NEW image \in ElfFile
    PROVE  /\ ParseHeader(image) = "ok" <=>
                 Passed(IdentChecks(image)) /\ Passed(KindChecks(image))
           /\ LoaderParseHeader(image) = "ok" <=>
                 /\ Passed(IdentChecks(image))
                 /\ image.version = 1
                 /\ Passed(KindChecks(image))
  <1> DEFINE version == << <<image.version # 1, "UnsupportedVersion">> >>
  <1>1. version \in Seq(Check) /\ (Passed(version) <=> image.version = 1)
    <2>1. ASSUME NEW c \in Check
          PROVE  <<c>> \in Seq(Check) /\ (Passed(<<c>>) <=> ~c[1])
      BY DEF Passed
    <2>2. (image.version # 1) \in BOOLEAN /\ "UnsupportedVersion" \in Errors
      BY DEF Errors
    <2>3. <<image.version # 1, "UnsupportedVersion">> \in Check
      <3>1. ASSUME NEW b \in BOOLEAN, NEW e \in Errors
            PROVE  <<b, e>> \in Check
        BY DEF Check
      <3>2. QED
        BY <2>2, <3>1, Zenon
    <2>4. QED
      BY <2>1, <2>3, Zenon
  <1>2. IdentChecks(image) \in Seq(Check) /\ KindChecks(image) \in Seq(Check)
    BY HeaderChecks
  <1> HIDE DEF version
  <1>3. ParseHeader(image) = "ok" <=>
          Passed(IdentChecks(image)) /\ Passed(KindChecks(image))
    BY <1>2, PassesBoth, PassesAll, Zenon DEF ParseHeader
  <1>4. /\ IdentChecks(image) \o version \in Seq(Check)
        /\ Passed(IdentChecks(image) \o version) <=>
             Passed(IdentChecks(image)) /\ image.version = 1
    BY <1>1, <1>2, PassesBoth, Zenon
  <1>5. LoaderParseHeader(image) = "ok" <=>
          FirstError((IdentChecks(image) \o version) \o KindChecks(image)) = "ok"
    BY Zenon DEF LoaderParseHeader, version
  <1>6. LoaderParseHeader(image) = "ok" <=>
          Passed(IdentChecks(image) \o version) /\ Passed(KindChecks(image))
    BY <1>2, <1>4, <1>5, PassesBoth, PassesAll, Zenon
  <1>7. QED
    BY <1>3, <1>4, <1>6, Zenon

-----------------------------------------------------------------------------
(* The theorem *)

\* A program header that is not empty and ends inside the file starts inside it.
LEMMA EndsInside ==
    ASSUME NEW image \in ElfFile, ~(image.phentsize < PhdrSize),
           NEW k \in 0..(image.phnum - 1)
    PROVE  OutOfFile(image, k) <=>
             HeaderEnd(image, k) > MaxAddress \/ HeaderEnd(image, k) > image.len
  <1>1. image.phentsize \in Nat \ {0} /\ image.len \in Nat /\ k \in Nat
    BY MachineAssumption, ElfAssumption DEF ElfFile
  <1>2. HeaderStart(image, k) \in Nat
    <2>1. image.phoff \in Nat
      BY DEF ElfFile
    <2>2. ASSUME NEW a \in Nat, NEW b \in Nat PROVE a * b \in Nat
      OBVIOUS
    <2>3. k * image.phentsize \in Nat
      BY <1>1, <2>2
    <2>4. QED
      BY <2>1, <2>3 DEF HeaderStart
  <1>3. HeaderEnd(image, k) > HeaderStart(image, k) /\ HeaderEnd(image, k) \in Nat
    BY <1>1, <1>2 DEF HeaderEnd
  <1>4. QED
    BY <1>1, <1>2, <1>3 DEF OutOfFile

\* The checks of the loader on a loadable segment.
LEMMA SegmentAccepted ==
    ASSUME NEW image \in ElfFile, NEW k, IsLoad(image, k)
    PROVE  FirstError(
             << <<SegmentAt(image, k).virtual_address % PageSize # 0, "SegmentAlignment">>,
                <<SegmentAt(image, k).memory_size < SegmentAt(image, k).file_size,
                  "SegmentOutOfBounds">> >>) = "ok"
           <=> /\ SegmentAt(image, k).virtual_address % PageSize = 0
               /\ ~(SegmentAt(image, k).memory_size < SegmentAt(image, k).file_size)
  <1> DEFINE ph == SegmentAt(image, k)
             a == <<ph.virtual_address % PageSize # 0, "SegmentAlignment">>
             b == <<ph.memory_size < ph.file_size, "SegmentOutOfBounds">>
  <1>1. ASSUME NEW c \in Check, NEW d \in Check
        PROVE  <<c, d>> \in Seq(Check) /\ (Passed(<<c, d>>) <=> ~c[1] /\ ~d[1])
    BY DEF Passed
  <1>2. ASSUME NEW c \in BOOLEAN, NEW e \in Errors PROVE <<c, e>> \in Check
    BY DEF Check
  <1>3. /\ (ph.virtual_address % PageSize # 0) \in BOOLEAN
        /\ (ph.memory_size < ph.file_size) \in BOOLEAN
    OBVIOUS
  <1>4. "SegmentAlignment" \in Errors /\ "SegmentOutOfBounds" \in Errors
    BY DEF Errors
  <1>5. a \in Check /\ b \in Check
    BY <1>2, <1>3, <1>4, Zenon
  <1>6. a[1] = (ph.virtual_address % PageSize # 0) /\ b[1] = (ph.memory_size < ph.file_size)
    BY Zenon
  <1> HIDE DEF a, b
  <1>7. FirstError(<<a, b>>) = "ok" <=> ~a[1] /\ ~b[1]
    BY <1>1, <1>5, PassesAll, Zenon
  <1>8. QED
    BY <1>6, <1>7, Zenon DEF a, b

\* Whatever the headers of a file say, the loader's parser and the kernel's
\* accept it alike, but for the version and the alignment only the loader asks
\* for (parse_header and parse_program_header of the two elf.rs).
THEOREM ParsersAgreeOnEveryFile ==
    \A image \in ElfFile : AgreeOn(image)
  <1> SUFFICES ASSUME NEW image \in ElfFile PROVE AgreeOn(image)
    OBVIOUS
  <1>1. LoaderParseHeader(image) = "ok" <=>
          ParseHeader(image) = "ok" /\ image.version = 1
    BY HeadersAccepted, Zenon
  <1>2. ASSUME ParseHeader(image) = "ok", NEW k \in 0..(image.phnum - 1)
        PROVE  LoaderParseProgramHeader(image, k) = "ok" <=>
                 /\ ParseProgramHeader(image, k) = "ok"
                 /\ IsLoad(image, k) =>
                       SegmentAt(image, k).virtual_address % PageSize = 0
    <2> DEFINE ph == SegmentAt(image, k)
    <2>1. ~(image.phentsize < PhdrSize)
      BY <1>2, HeadersAccepted, HeaderChecks, Zenon
    <2>2. OutOfFile(image, k) <=>
            HeaderEnd(image, k) > MaxAddress \/ HeaderEnd(image, k) > image.len
      BY <2>1, EndsInside
    <2>3. "ProgramHeaderOutOfBounds" # "ok"
      OBVIOUS
    <2>4. CASE OutOfFile(image, k)
      BY <2>2, <2>3, <2>4, Zenon DEF ParseProgramHeader, LoaderParseProgramHeader
    <2>5. CASE ~OutOfFile(image, k) /\ ~IsLoad(image, k)
      BY <2>2, <2>5, Zenon DEF ParseProgramHeader, LoaderParseProgramHeader
    <2>6. CASE ~OutOfFile(image, k) /\ IsLoad(image, k)
      <3>1. ph.file_size \in Nat /\ ph.memory_size \in Nat
        <4> DEFINE start == HeaderStart(image, k)
        <4>1. start \in DOMAIN image.headers
          BY <2>6 DEF IsLoad, At
        <4>2. PICK D \in SUBSET Nat :
                image.headers \in [D -> [type: STRING, segment: Segment]]
          BY DEF ElfFile
        <4>3. image.headers[start] \in [type: STRING, segment: Segment]
          BY <4>1, <4>2
        <4>4. ph = image.headers[start].segment
          BY <4>1 DEF SegmentAt, At
        <4>5. ph \in Segment
          BY <4>3, <4>4
        <4>6. QED
          BY <4>5, MachineAssumption DEF Segment
      <3>2. ph.file_size > ph.memory_size <=> ph.memory_size < ph.file_size
        BY <3>1
      <3>3. ParseProgramHeader(image, k) = "ok" <=> ~(ph.memory_size < ph.file_size)
        BY <2>3, <2>6, <3>2, Zenon DEF ParseProgramHeader
      <3>4. LoaderParseProgramHeader(image, k) = "ok" <=>
              ph.virtual_address % PageSize = 0 /\ ~(ph.memory_size < ph.file_size)
        BY <2>2, <2>6, SegmentAccepted, Zenon DEF LoaderParseProgramHeader
      <3>5. QED
        BY <2>6, <3>3, <3>4, Zenon
    <2>7. QED
      BY <2>4, <2>5, <2>6, Zenon
  <1>3. QED
    BY <1>1, <1>2, Zenon DEF AgreeOn

=============================================================================
