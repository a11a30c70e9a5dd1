---------------------------- MODULE Lost86FatProofs ----------------------------
(***************************************************************************)
(* What the FAT reader of the boot loader keeps, for every disk, every     *)
(* table, every size of a sector and a cluster, every path and every read  *)
(* that fails: the types of its state and the account of its handles;      *)
(* where the chains of its files run to their ends, that FAT_Read gives    *)
(* the text of a file in its order; and, where its directories are in      *)
(* order, that FAT_Open opens what its path names.                         *)
(***************************************************************************)
EXTENDS Lost86Fat, TLAPS, SequenceTheorems, FiniteSetTheorems, WellFoundedInduction

Ids == Handles \union {ROOT_DIRECTORY_HANDLE}
Buffer == [1 .. SECTOR_SIZE -> Units]
FileType == [opened : BOOLEAN, isdir : BOOLEAN, pos : Nat, size : Nat, first : Nat,
             current : Nat, sector : 0 .. SectorsPerCluster - 1, buffer : Buffer]

-----------------------------------------------------------------------------
(* The inductive invariant.                                                *)

\* FAT_Read is never asked for what is not there.
Asked(fd, left) == fd.isdir \/ left <= fd.size - fd.pos

\* FAT_Open reads the directory it is in, through a handle the program does
\* not hold unless it is the root; nothing is read before FAT_Initialize.
Walking ==
  /\ read.file = NULL => read = NoRead /\ open = NoOpen
  /\ read.file # NULL => status = "running" /\ Asked(files[read.file], read.left)
  /\ open # NoOpen => /\ read.file = open.current
                      /\ open.path \in Seq(Names) /\ open.path # << >>
                      /\ open.current \in Handles => open.current \notin held
  /\ status = "off" => held = {} /\ \A h \in Handles : ~files[h].opened

IInv == TypeOK /\ Walking /\ HandlesHeld

-----------------------------------------------------------------------------
(* Minima, and the pieces a sector is read in.                             *)
LEMMA Least ==
  \A S \in SUBSET Nat : S # {} => Min(S) \in S /\ \A y \in S : Min(S) <= y
<1> SUFFICES ASSUME NEW S \in SUBSET Nat, S # {} PROVE Min(S) \in S /\ \A y \in S : Min(S) <= y
  OBVIOUS
<1>1. \E x \in S : \A y \in S : ~(<<y, x>> \in OpToRel(<, Nat))
  BY NatLessThanWellFounded, WFMin
<1>2. PICK x \in S : \A y \in S : ~(<<y, x>> \in OpToRel(<, Nat))
  BY <1>1
<1>3. ASSUME NEW y \in S PROVE x <= y
  <2> SUFFICES ASSUME ~(x <= y) PROVE FALSE
    OBVIOUS
  <2>1. y \in Nat /\ x \in Nat /\ y < x
    OBVIOUS
  <2>2. <<y, x>> \in OpToRel(<, Nat)
    BY <2>1 DEF OpToRel
  <2> QED
    BY <1>2, <2>2
<1>4. \E z \in S : \A y \in S : z <= y
  BY <1>3
<1> QED
  BY <1>4 DEF Min

LEMMA MinOfTwo ==
  ASSUME NEW a \in Int, NEW b \in Int
  PROVE  Min({a, b}) = IF a <= b THEN a ELSE b
BY DEF Min

\* The first free handle.
LEMMA FirstFree ==
  ASSUME NEW S \in SUBSET Handles, S # {}
  PROVE  Min(S) \in S /\ Min(S) \in Handles
<1>1. Handles \subseteq Nat
  BY DEF Handles
<1> QED
  BY <1>1, Least

LEMMA NoHandle ==
  /\ NULL \notin Ids /\ ROOT_DIRECTORY_HANDLE \notin Handles
  /\ NoRead.file = NULL /\ NoRead.left = 0 /\ NoRead.out = << >>
BY DiskAssumption DEF NULL, Ids, Handles, ROOT_DIRECTORY_HANDLE, NoRead

\* The types of the variables by the names used here.
LEMMA TypesAre ==
  TypeOK <=>
  /\ status \in {"off", "running", "failed", "wild"}
  /\ files \in [Ids -> FileType]
  /\ \A h \in Ids : files[h].isdir \/ files[h].pos <= files[h].size
  /\ open \in [path : Seq(Names), name : Names, current : Ids]
  /\ read \in [file : Ids \union {NULL}, left : Nat, out : Seq(Units)]
  /\ held \subseteq Ids /\ failures \in 0 .. MaxFailures
  /\ got \in [Handles -> Seq(Units)] /\ spoilt \subseteq Ids
  /\ asked \in [path : Seq(Names), fresh : BOOLEAN, spelt : BOOLEAN, before : Nat]
  /\ answer \in Ids \union {NULL}
BY DEF TypeOK, Ids, FileType, Buffer

LEMMA Sizes == /\ SECTOR_SIZE \in Nat /\ SECTOR_SIZE > 0
               /\ SectorsPerCluster \in Nat /\ SectorsPerCluster > 0
BY DiskAssumption

LEMMA Fields ==
  ASSUME NEW fd \in FileType
  PROVE  /\ fd.opened \in BOOLEAN /\ fd.isdir \in BOOLEAN /\ fd.buffer \in Buffer
         /\ fd.pos \in Nat /\ fd.size \in Nat /\ fd.first \in Nat /\ fd.current \in Nat
         /\ fd.sector \in 0 .. SectorsPerCluster - 1
         /\ fd.pos % SECTOR_SIZE \in Nat /\ fd.pos % SECTOR_SIZE < SECTOR_SIZE
<1>1. /\ fd.opened \in BOOLEAN /\ fd.isdir \in BOOLEAN /\ fd.buffer \in Buffer
      /\ fd.pos \in Nat /\ fd.size \in Nat /\ fd.first \in Nat /\ fd.current \in Nat
      /\ fd.sector \in 0 .. SectorsPerCluster - 1
  BY DEF FileType
<1> QED
  BY <1>1, Sizes

\* A part of a sector.
LEMMA Pieces ==
  ASSUME NEW out \in Seq(Units), NEW buffer \in Buffer, NEW from \in Nat, NEW take \in Nat,
         from + take <= SECTOR_SIZE
  PROVE  out \o SubSeq(buffer, from + 1, from + take) \in Seq(Units)
<1>1. SECTOR_SIZE \in Nat
  BY DiskAssumption
<1>2. buffer \in Seq(Units) /\ Len(buffer) = SECTOR_SIZE
  BY <1>1 DEF Buffer
<1>3. SubSeq(buffer, from + 1, from + take) \in Seq(Units)
  BY <1>1, <1>2
<1> QED
  BY <1>3

\* How much one turn takes, and what is left to ask for.
LEMMA Turns ==
  ASSUME NEW fd \in FileType, NEW left \in Nat, left > 0, Asked(fd, left)
  PROVE  LET take == Take(fd, left)
             from == fd.pos % SECTOR_SIZE
         IN  /\ take \in Nat /\ take > 0 /\ take <= left /\ left - take \in Nat
             /\ from \in Nat /\ from + take <= SECTOR_SIZE
             /\ Advanced(fd, take) \in FileType
             /\ Advanced(fd, take).isdir = fd.isdir /\ Advanced(fd, take).opened = fd.opened
             /\ ~fd.isdir => /\ Advanced(fd, take).pos = fd.pos + take
                             /\ Advanced(fd, take).size = fd.size
                             /\ fd.pos + take <= fd.size
                             /\ left - take <= fd.size - (fd.pos + take)
<1> DEFINE from == fd.pos % SECTOR_SIZE
           take == Take(fd, left)
<1>1. SECTOR_SIZE \in Nat /\ SECTOR_SIZE > 0 /\ fd.pos \in Nat /\ fd.size \in Nat
  BY DiskAssumption DEF FileType
<1>2. from \in Nat /\ from < SECTOR_SIZE
  BY <1>1
<1>3. take = IF left <= SECTOR_SIZE - from THEN left ELSE SECTOR_SIZE - from
  BY <1>1, <1>2, MinOfTwo DEF Take
<1> HIDE DEF take, from
<1>4. /\ take \in Nat /\ take > 0 /\ take <= left /\ left - take \in Nat
      /\ from + take <= SECTOR_SIZE
  BY <1>1, <1>2, <1>3
<1>5. (fd.pos + take) % SECTOR_SIZE \in Nat /\ fd.pos + take \in Nat
  BY <1>1, <1>4
<1>6. /\ Advanced(fd, take) \in FileType
      /\ Advanced(fd, take).isdir = fd.isdir /\ Advanced(fd, take).opened = fd.opened
      /\ ~fd.isdir => /\ Advanced(fd, take).pos = fd.pos + take
                      /\ Advanced(fd, take).size = fd.size
  BY <1>5 DEF Advanced, FileType
<1>7. ~fd.isdir => /\ fd.pos + take <= fd.size
                   /\ left - take <= fd.size - (fd.pos + take)
  BY <1>1, <1>4 DEF Asked
<1> QED
  BY <1>2, <1>4, <1>6, <1>7 DEF take, from

-----------------------------------------------------------------------------
(* Reading.                                                                *)
LEMMA Extending ==
  ASSUME TypeOK, NEW fd \in FileType, fd.isdir \/ fd.pos <= fd.size,
         NEW left \in Nat, NEW take \in Nat, read.file # NULL,
         (files[read.file].pos % SECTOR_SIZE) + take <= SECTOR_SIZE,
         Turn(fd, left, take), UNCHANGED <<status, open, held, got, asked, answer>>,
         failures' \in 0 .. MaxFailures, spoilt' \subseteq Ids
  PROVE  TypeOK'
<1>1. read.file \in Ids /\ files[read.file] \in FileType /\ read.out \in Seq(Units)
  BY TypesAre
<1>2. files[read.file].pos % SECTOR_SIZE \in Nat /\ files[read.file].buffer \in Buffer
  BY <1>1, Fields
<1>3. /\ files' = [files EXCEPT ![read.file] = fd]
      /\ read' \in [file : Ids \union {NULL}, left : Nat, out : Seq(Units)]
  BY <1>1, <1>2, Pieces, TypesAre DEF Turn
<1>4. /\ files' \in [Ids -> FileType]
      /\ \A h \in Ids : files'[h].isdir \/ files'[h].pos <= files'[h].size
  BY <1>1, <1>3, TypesAre
<1> QED
  BY <1>3, <1>4 DEF TypeOK, Ids, FileType, Buffer

\* A sector on the disk is one of units.
LEMMA OnDiskBuffer ==
  \A lba, ok : OnDisk(lba) => Sectors[lba % Addressable] \in Buffer
BY DiskAssumption DEF OnDisk, Buffer

LEMMA ReadTypes ==
  ASSUME TypeOK, NEW fd \in FileType, NEW lba, NEW ok \in BOOLEAN, DISK_ReadSectors(lba, ok)
  PROVE  /\ Read(fd, lba, ok) \in FileType
         /\ Read(fd, lba, ok).isdir = fd.isdir /\ Read(fd, lba, ok).opened = fd.opened
         /\ Read(fd, lba, ok).pos = fd.pos /\ Read(fd, lba, ok).size = fd.size
         /\ failures' \in 0 .. MaxFailures
<1>1. ok => Sectors[lba % Addressable] \in Buffer
  BY OnDiskBuffer DEF DISK_ReadSectors
<1>2. failures' \in 0 .. MaxFailures
  BY DiskAssumption, TypesAre DEF DISK_ReadSectors
<1> QED
  BY <1>1, <1>2 DEF Read, FileType

LEMMA NextTypes ==
  ASSUME NEW fd \in FileType, NEW next \in NextSector(fd)
  PROVE  /\ next \in FileType
         /\ next.isdir = fd.isdir /\ next.opened = fd.opened
         /\ next.pos = fd.pos /\ next.size = fd.size /\ next.first = fd.first
<1>1. fd.current \in Nat /\ fd.sector \in 0 .. SectorsPerCluster - 1
  BY Fields
<1>2. CASE fd.sector + 1 < SectorsPerCluster
  <2>1. next = [fd EXCEPT !.sector = @ + 1] /\ fd.sector + 1 \in 0 .. SectorsPerCluster - 1
    BY <1>1, <1>2, Sizes DEF NextSector
  <2> QED
    BY <2>1 DEF FileType
<1>3. CASE ~(fd.sector + 1 < SectorsPerCluster)
  <2>1. PICK c \in FAT_NextCluster(fd.current) :
          next = [fd EXCEPT !.sector = 0, !.current = c]
    BY <1>3 DEF NextSector
  <2>2. c \in Nat
    BY <2>1, EntriesAssumption DEF FAT_NextCluster, Range
  <2>3. 0 \in 0 .. SectorsPerCluster - 1
    BY Sizes
  <2> QED
    BY <2>1, <2>2, <2>3 DEF FileType
<1> QED
  BY <1>2, <1>3

LEMMA RootTypes ==
  ASSUME NEW fd \in FileType
  PROVE  /\ NextRootSector(fd) \in FileType
         /\ NextRootSector(fd).isdir = fd.isdir /\ NextRootSector(fd).opened = fd.opened
         /\ NextRootSector(fd).pos = fd.pos /\ NextRootSector(fd).size = fd.size
<1>1. (fd.current + 1) % Addressable \in Nat
  <2>1. Addressable \in Nat /\ Addressable > 0
    BY DiskAssumption
  <2> QED
    BY <2>1, Fields
<1> QED
  BY <1>1 DEF NextRootSector, FileType

(* Every turn of the loop of FAT_Read keeps the types, the flag that says  *)
(* a handle is taken, and what is left within the file.                    *)
TurnKeeps(fd, left) ==
  /\ fd \in FileType /\ left \in Nat
  /\ fd.isdir = files[read.file].isdir /\ fd.opened = files[read.file].opened
  /\ fd.isdir \/ fd.pos <= fd.size
  /\ Asked(fd, left)

LEMMA TurnEnds ==
  ASSUME IInv, NEW fd, NEW left, NEW take, TurnKeeps(fd, left), take \in Nat,
         (files[read.file].pos % SECTOR_SIZE) + take <= SECTOR_SIZE, read.file # NULL,
         Turn(fd, left, take), UNCHANGED <<status, open, held, got, asked, answer>>,
         failures' \in 0 .. MaxFailures, spoilt' \subseteq Ids
  PROVE  IInv'
<1>1. TypeOK'
  BY Extending DEF IInv, TurnKeeps
<1>2. /\ read.file \in Ids /\ files \in [Ids -> FileType]
      /\ read \in [file : Ids \union {NULL}, left : Nat, out : Seq(Units)]
  BY TypesAre DEF IInv
<1>3. /\ files' = [files EXCEPT ![read.file] = fd]
      /\ read'.file = read.file /\ read'.left = left
  BY <1>2 DEF Turn
<1>4. Walking'
  BY <1>2, <1>3, NoHandle DEF IInv, Walking, TurnKeeps
<1>5. HandlesHeld'
  BY <1>2, <1>3 DEF IInv, HandlesHeld, TurnKeeps, Ids
<1> QED
  BY <1>1, <1>4, <1>5 DEF IInv

LEMMA ReadingKeeps ==
  ASSUME IInv, Reading
  PROVE  IInv'
<1> DEFINE old == files[read.file]
           take == Take(old, read.left)
           fd == Advanced(old, take)
<1>1. /\ read.left > 0 /\ read.left \in Nat /\ read.file # NULL /\ read.file \in Ids
      /\ old \in FileType /\ Asked(old, read.left) /\ spoilt \subseteq Ids
      /\ failures \in 0 .. MaxFailures
  BY NoHandle, TypesAre DEF IInv, Walking, Reading, WithinSector, EndOfSector
<1>2. /\ take \in Nat /\ take > 0 /\ take <= read.left /\ read.left - take \in Nat
      /\ (old.pos % SECTOR_SIZE) + take <= SECTOR_SIZE
      /\ fd \in FileType /\ fd.isdir = old.isdir /\ fd.opened = old.opened
      /\ ~fd.isdir => /\ fd.pos = old.pos + take /\ fd.size = old.size
                      /\ old.pos + take <= old.size
                      /\ read.left - take <= old.size - (old.pos + take)
  BY <1>1, Turns
<1> HIDE DEF take, fd
<1>3. /\ fd.pos \in Nat /\ fd.size \in Nat
      /\ TurnKeeps(fd, read.left - take) /\ TurnKeeps(fd, 0)
  BY <1>1, <1>2, Fields DEF TurnKeeps, Asked
<1>4. ASSUME NEW next, next \in FileType, next.isdir = fd.isdir, next.opened = fd.opened,
             next.pos = fd.pos, next.size = fd.size
      PROVE  TurnKeeps(next, read.left - take) /\ TurnKeeps(next, 0)
  BY <1>3, <1>4 DEF TurnKeeps, Asked
<1>5. CASE WithinSector
  <2>1. Turn(fd, read.left - take, take) /\ UNCHANGED <<failures, spoilt>>
    BY <1>5 DEF WithinSector, fd, take
  <2>2. failures' \in 0 .. MaxFailures /\ spoilt' \subseteq Ids
    BY <1>1, <2>1
  <2> QED
    BY <1>1, <1>2, <1>3, <2>1, <2>2, TurnEnds DEF Reading
<1>6. ASSUME NEW next, next \in FileType, next.isdir = fd.isdir, next.opened = fd.opened,
             next.pos = fd.pos, next.size = fd.size, NEW lba, Refill(next, lba, take)
      PROVE  IInv'
  <2>1. PICK ok \in BOOLEAN :
          /\ DISK_ReadSectors(lba, ok)
          /\ Turn(Read(next, lba, ok), IF ok THEN read.left - take ELSE 0, take)
          /\ spoilt' = IF ok THEN spoilt ELSE spoilt \union {read.file}
    BY <1>6 DEF Refill
  <2> DEFINE filled == Read(next, lba, ok)
             left == IF ok THEN read.left - take ELSE 0
  <2>2. /\ filled \in FileType
        /\ filled.isdir = fd.isdir /\ filled.opened = fd.opened
        /\ filled.pos = fd.pos /\ filled.size = fd.size
        /\ failures' \in 0 .. MaxFailures
    BY <1>6, <2>1, ReadTypes DEF IInv
  <2>3. Turn(filled, left, take) /\ spoilt' \subseteq Ids
    BY <1>1, <2>1
  <2> HIDE DEF filled
  <2>4. TurnKeeps(filled, left)
    BY <1>4, <2>2
  <2> HIDE DEF left
  <2> QED
    BY <1>1, <1>2, <2>2, <2>3, <2>4, TurnEnds DEF Reading
<1>7. CASE EndOfSector
  <2>1. CASE read.file = ROOT_DIRECTORY_HANDLE
    <3> DEFINE next == NextRootSector(fd)
    <3>1. Refill(next, next.current, take)
      BY <1>7, <2>1 DEF EndOfSector, fd, take
    <3>2. /\ next \in FileType /\ next.isdir = fd.isdir /\ next.opened = fd.opened
          /\ next.pos = fd.pos /\ next.size = fd.size
      BY <1>2, RootTypes
    <3> QED
      BY <1>6, <3>1, <3>2
  <2>2. CASE read.file # ROOT_DIRECTORY_HANDLE
    <3>1. PICK next \in NextSector(fd) :
            IF next.current >= ENDS
            THEN /\ Turn([next EXCEPT !.size = IF old.isdir THEN 0 ELSE next.pos], 0, take)
                 /\ UNCHANGED <<failures, spoilt>>
            ELSE Refill(next, FAT_ClusterToLba(next.current) + next.sector, take)
      BY <1>7, <2>2 DEF EndOfSector, fd, take
    <3>2. /\ next \in FileType /\ next.isdir = fd.isdir /\ next.opened = fd.opened
          /\ next.pos = fd.pos /\ next.size = fd.size
      BY <1>2, NextTypes
    <3>3. CASE next.current >= ENDS
      <4> DEFINE last == [next EXCEPT !.size = IF old.isdir THEN 0 ELSE next.pos]
      <4>1. /\ last \in FileType /\ last.isdir = next.isdir /\ last.opened = next.opened
            /\ ~old.isdir => last.pos = next.pos /\ last.size = next.pos
        BY <3>2, Fields DEF FileType
      <4>2. TurnKeeps(last, 0)
        BY <1>2, <3>2, <4>1, Fields DEF TurnKeeps, Asked
      <4>3. Turn(last, 0, take) /\ UNCHANGED <<failures, spoilt>>
        BY <3>1, <3>3
      <4> HIDE DEF last
      <4>4. failures' \in 0 .. MaxFailures /\ spoilt' \subseteq Ids
        BY <1>1, <4>3
      <4> QED
        BY <1>1, <1>2, <4>2, <4>3, <4>4, TurnEnds DEF Reading
    <3>4. CASE ~(next.current >= ENDS)
      BY <1>6, <3>1, <3>2, <3>4
    <3> QED
      BY <3>3, <3>4
  <2> QED
    BY <2>1, <2>2
<1> QED
  BY <1>5, <1>7 DEF Reading

-----------------------------------------------------------------------------
(* Opening and closing.                                                    *)
LEMMA ClosedType == Closed \in FileType /\ ~Closed.opened /\ Closed.pos <= Closed.size
<1>1. NotRead \in Buffer
  BY DiskAssumption DEF NotRead, Buffer
<1>2. 0 \in 0 .. SectorsPerCluster - 1
  BY Sizes
<1> QED
  BY <1>1, <1>2 DEF Closed, FileData, FileType

LEMMA Closing ==
  ASSUME TypeOK, NEW h \in Ids
  PROVE  LET closed == FAT_Close(h)
         IN  /\ closed \in [Ids -> FileType]
             /\ \A k \in Ids : closed[k].isdir \/ closed[k].pos <= closed[k].size
             /\ \A k \in Handles : closed[k].opened <=> files[k].opened /\ k # h
             /\ \A k \in Handles : k # h => closed[k] = files[k]
<1>1. files \in [Ids -> FileType] /\ \A k \in Ids : files[k].isdir \/ files[k].pos <= files[k].size
  BY TypesAre
<1>2. Handles \subseteq Ids /\ files[h] \in FileType
  BY <1>1 DEF Ids
<1>3. CASE h = ROOT_DIRECTORY_HANDLE
  <2> DEFINE root == [files[h] EXCEPT !.pos = 0, !.current = files[h].first]
  <2>1. FAT_Close(h) = [files EXCEPT ![h] = root]
    BY <1>1, <1>2, <1>3 DEF FAT_Close
  <2>2. root \in FileType /\ root.isdir = files[h].isdir /\ root.pos = 0 /\ root.size = files[h].size
    BY <1>2 DEF FileType
  <2>3. root.pos <= root.size
    BY <2>2, <1>2, Fields
  <2> HIDE DEF root
  <2> QED
    BY <1>1, <1>2, <1>3, <2>1, <2>2, <2>3, NoHandle
<1>4. CASE h # ROOT_DIRECTORY_HANDLE
  BY <1>1, <1>2, <1>4, ClosedType DEF FAT_Close
<1> QED
  BY <1>3, <1>4

\* The handle of an entry, at its start.
LEMMA EntryType ==
  ASSUME NEW entry \in Units, NEW buffer \in Buffer
  PROVE  LET fd == FAT_OpenEntry(entry, buffer)
         IN  /\ fd \in FileType /\ fd.opened /\ fd.isdir = entry.dir
             /\ fd.pos = 0 /\ fd.pos <= fd.size
<1>1. entry.dir \in BOOLEAN /\ entry.first \in Nat /\ entry.size \in Nat
  BY EntriesAssumption
<1>2. 0 \in 0 .. SectorsPerCluster - 1
  BY Sizes
<1> QED
  BY <1>1, <1>2 DEF FAT_OpenEntry, FileData, FileType

LEMMA LeftToRead ==
  ASSUME NEW fd \in FileType, fd.isdir \/ fd.pos <= fd.size, NEW n \in Nat
  PROVE  Left(fd, n) \in Nat /\ Asked(fd, Left(fd, n))
<1>1. fd.pos \in Nat /\ fd.size \in Nat
  BY Fields
<1> QED
  BY <1>1, MinOfTwo DEF Left, Asked

LEMMA HeadAndTail ==
  \A S : /\ << >> \in Seq(S)
         /\ \A s \in Seq(S) : s # << >> =>
              /\ s[1] \in S /\ Tail(s) \in Seq(S) /\ Len(s) \in Nat /\ Len(s) # 0
              /\ Len(s) # 1 => Tail(s) # << >> /\ s[2] = Tail(s)[1]
<1> SUFFICES ASSUME NEW S, NEW s \in Seq(S), s # << >>
             PROVE  /\ s[1] \in S /\ Tail(s) \in Seq(S) /\ Len(s) \in Nat /\ Len(s) # 0
                    /\ Len(s) # 1 => Tail(s) # << >> /\ s[2] = Tail(s)[1]
  OBVIOUS
<1>1. Len(s) \in Nat /\ Len(s) # 0
  OBVIOUS
<1>2. /\ s[1] \in S /\ Tail(s) \in Seq(S) /\ Len(Tail(s)) = Len(s) - 1
      /\ \A i \in 1 .. Len(Tail(s)) : Tail(s)[i] = s[i+1]
  BY <1>1, HeadTailProperties
<1>3. Len(s) # 1 => Len(Tail(s)) # 0 /\ Tail(s)[1] = s[1 + 1]
  BY <1>1, <1>2
<1> QED
  BY <1>1, <1>2, <1>3

LEMMA PathTypes ==
  ASSUME NEW path \in Seq(Names), path # << >>, NEW name \in Spellings(path[1])
  PROVE  name \in Names
<1>1. path[1] \in Names
  BY HeadAndTail
<1>2. Garbled \in Names
  BY DEF Names
<1> QED
  BY <1>1, <1>2 DEF Spellings

(* The search for a name in a directory starts, or takes its next entry.   *)
LEMMA Finding ==
  ASSUME NEW path \in Seq(Names), NEW h \in Ids, NEW fd \in FileType,
         fd.isdir \/ fd.pos <= fd.size, NEW name \in Names, FindFile(path, h, fd, name)
  PROVE  /\ open' \in [path : Seq(Names), name : Names, current : Ids]
         /\ open'.path = path /\ open'.current = h
         /\ read' \in [file : Ids \union {NULL}, left : Nat, out : Seq(Units)]
         /\ read'.file = h /\ Asked(fd, read'.left)
<1>1. Left(fd, 1) \in Nat /\ Asked(fd, Left(fd, 1))
  BY LeftToRead
<1> QED
  BY <1>1 DEF FindFile

LEMMA Nothing ==
  /\ NoOpen \in [path : Seq(Names), name : Names, current : Ids]
  /\ NoRead \in [file : Ids \union {NULL}, left : Nat, out : Seq(Units)]
  /\ NoAnswer \in [path : Seq(Names), fresh : BOOLEAN, spelt : BOOLEAN, before : Nat]
  /\ NoOpen.path = << >> /\ NoOpen.current = ROOT_DIRECTORY_HANDLE
<1>1. << >> \in Seq(Names) /\ << >> \in Seq(Units) /\ 0 \in Nat
  BY HeadAndTail
<1>2. Garbled \in Names
  BY DEF Names
<1>3. ROOT_DIRECTORY_HANDLE \in Ids
  BY DEF Ids
<1> QED
  BY <1>1, <1>2, <1>3 DEF NoOpen, NoRead, NoAnswer

LEMMA InitializeKeeps ==
  ASSUME IInv, FAT_Initialize
  PROVE  IInv'
<1>1. PICK ok \in BOOLEAN :
        /\ DISK_ReadSectors(rootDirLba, ok)
        /\ status' = IF ok THEN "running" ELSE "failed"
        /\ files' = IF ok
             THEN [files EXCEPT ![ROOT_DIRECTORY_HANDLE] =
                     FileData(TRUE, TRUE, 0, rootDirLba, Sectors[rootDirLba])]
             ELSE files
  BY DEF FAT_Initialize
<1> DEFINE root == FileData(TRUE, TRUE, 0, rootDirLba, Sectors[rootDirLba])
<1>2. root \in FileType /\ root.isdir
  <2>1. rootDirLba \in Nat /\ Sectors[rootDirLba] \in Buffer /\ 0 \in 0 .. SectorsPerCluster - 1
    BY DiskAssumption DEF Buffer
  <2> QED
    BY <2>1 DEF FileData, FileType
<1>3. files' = IF ok THEN [files EXCEPT ![ROOT_DIRECTORY_HANDLE] = root] ELSE files
  BY <1>1
<1> HIDE DEF root
<1>4. failures' \in 0 .. MaxFailures
  BY <1>1, ClosedType, ReadTypes DEF IInv
<1>5. /\ files' \in [Ids -> FileType]
      /\ \A h \in Ids : files'[h].isdir \/ files'[h].pos <= files'[h].size
      /\ \A h \in Handles : files'[h] = files[h]
  BY <1>2, <1>3, TypesAre, NoHandle DEF IInv, Ids
<1>6. TypeOK'
  BY <1>1, <1>4, <1>5, TypesAre DEF IInv, FAT_Initialize, TypeOK, Ids, FileType, Buffer
<1>7. read.file = NULL
  BY DEF IInv, Walking, FAT_Initialize
<1>8. Walking' /\ HandlesHeld'
  BY <1>1, <1>5, <1>7 DEF IInv, Walking, HandlesHeld, FAT_Initialize
<1> QED
  BY <1>6, <1>8 DEF IInv

LEMMA IdleMeans ==
  ASSUME Idle
  PROVE  /\ status = "running" /\ open = NoOpen /\ read = NoRead
         /\ read.file = NULL /\ read.left = 0 /\ open.current = ROOT_DIRECTORY_HANDLE
BY NoHandle, Nothing DEF Idle

LEMMA ProgramKeeps ==
  ASSUME IInv, Program
  PROVE  IInv'
<1>1. /\ status = "running" /\ open = NoOpen /\ read = NoRead
      /\ read.file = NULL /\ read.left = 0
  BY IdleMeans DEF Program, ReadFile, Close, OpenRoot, OpenFile
<1>2. /\ TypeOK /\ files \in [Ids -> FileType] /\ Handles \subseteq Ids
      /\ \A k \in Ids : files[k].isdir \/ files[k].pos <= files[k].size
      /\ held \subseteq Ids /\ NULL \in Ids \union {NULL}
      /\ ROOT_DIRECTORY_HANDLE \in Ids
  BY TypesAre DEF IInv, Ids
<1>3. CASE ReadFile
  <2>1. PICK h \in held, byteCount \in Counts :
          read' = [file |-> h, left |-> Left(files[h], byteCount), out |-> << >>]
    BY <1>3 DEF ReadFile
  <2>2. /\ UNCHANGED <<status, files, open, held, failures, got, spoilt>>
        /\ asked' = NoAnswer /\ answer' = NULL
    BY <1>3 DEF ReadFile
  <2>3. /\ read' \in [file : Ids \union {NULL}, left : Nat, out : Seq(Units)]
        /\ read'.file = h /\ h # NULL /\ Asked(files[h], read'.left)
    BY <1>2, <2>1, EntriesAssumption, LeftToRead, HeadAndTail, NoHandle
  <2>4. TypeOK'
    BY <1>2, <2>2, <2>3, Nothing DEF TypeOK, Ids, FileType, Buffer
  <2>5. Walking' /\ HandlesHeld'
    BY <1>1, <2>2, <2>3, NoHandle DEF IInv, Walking, HandlesHeld
  <2> QED
    BY <2>4, <2>5 DEF IInv
<1>4. CASE Close
  <2>1. PICK h \in held : files' = FAT_Close(h) /\ held' = held \ {h}
    BY <1>4 DEF Close
  <2>2. /\ UNCHANGED <<status, open, read, failures, got, spoilt>>
        /\ asked' = NoAnswer /\ answer' = NULL
    BY <1>4 DEF Close
  <2>3. /\ files' \in [Ids -> FileType]
        /\ \A k \in Ids : files'[k].isdir \/ files'[k].pos <= files'[k].size
        /\ \A k \in Handles : files'[k].opened <=> files[k].opened /\ k # h
    BY <1>2, <2>1, Closing
  <2>4. TypeOK'
    BY <1>2, <2>1, <2>2, <2>3, TypesAre, Nothing DEF TypeOK, Ids, FileType, Buffer
  <2>5. Walking' /\ HandlesHeld'
    BY <1>1, <2>1, <2>2, <2>3, NoHandle DEF IInv, Walking, HandlesHeld
  <2> QED
    BY <2>4, <2>5 DEF IInv
<1>5. CASE OpenRoot
  <2>1. /\ held' = held \union {ROOT_DIRECTORY_HANDLE}
        /\ UNCHANGED <<status, files, open, read, failures, got, spoilt>>
        /\ asked' = NoAnswer /\ answer' = NULL
    BY <1>5 DEF OpenRoot
  <2>2. TypeOK'
    BY <1>2, <2>1, TypesAre, Nothing DEF TypeOK, Ids, FileType, Buffer
  <2>3. Walking' /\ HandlesHeld'
    BY <1>1, <2>1, NoHandle DEF IInv, Walking, HandlesHeld
  <2> QED
    BY <2>2, <2>3 DEF IInv
<1>6. CASE OpenFile
  <2>a. PICK path \in Paths \ {<< >>} : \E name \in Spellings(path[1]) :
          /\ FindFile(path, ROOT_DIRECTORY_HANDLE, files[ROOT_DIRECTORY_HANDLE], name)
          /\ asked' = [path |-> path, fresh |-> Fresh, spelt |-> name = path[1],
                       before |-> failures]
    BY <1>6 DEF OpenFile
  <2>1. PICK name \in Spellings(path[1]) :
          /\ FindFile(path, ROOT_DIRECTORY_HANDLE, files[ROOT_DIRECTORY_HANDLE], name)
          /\ asked' = [path |-> path, fresh |-> Fresh, spelt |-> name = path[1],
                       before |-> failures]
    BY <2>a
  <2>2. UNCHANGED <<status, files, held, failures, got, spoilt>> /\ answer' = NULL
    BY <1>6 DEF OpenFile
  <2>3. path \in Seq(Names) /\ path # << >> /\ name \in Names
    BY <2>1, EntriesAssumption, PathTypes
  <2>4. /\ open' \in [path : Seq(Names), name : Names, current : Ids]
        /\ open'.path = path /\ open'.current = ROOT_DIRECTORY_HANDLE
        /\ read' \in [file : Ids \union {NULL}, left : Nat, out : Seq(Units)]
        /\ read'.file = ROOT_DIRECTORY_HANDLE
        /\ Asked(files[ROOT_DIRECTORY_HANDLE], read'.left)
    BY <1>2, <2>1, <2>3, Finding
  <2>5. asked' \in [path : Seq(Names), fresh : BOOLEAN, spelt : BOOLEAN, before : Nat]
    <3>1. Fresh \in BOOLEAN /\ failures \in Nat
      BY DiskAssumption, TypesAre DEF Fresh, IInv
    <3> QED
      BY <2>1, <2>3, <3>1
  <2>6. TypeOK'
    BY <1>2, <2>2, <2>4, <2>5, TypesAre DEF TypeOK, Ids, FileType, Buffer
  <2>7. Walking' /\ HandlesHeld'
    BY <1>1, <1>2, <2>2, <2>3, <2>4, NoHandle DEF IInv, Walking, HandlesHeld
  <2> QED
    BY <2>6, <2>7 DEF IInv
<1> QED
  BY <1>3, <1>4, <1>5, <1>6 DEF Program

LEMMA ReturnKeeps ==
  ASSUME IInv, ReadReturns
  PROVE  IInv'
<1>1. /\ read' = NoRead
      /\ UNCHANGED <<status, files, open, held, failures, spoilt, asked, answer>>
      /\ open = NoOpen
  BY DEF ReadReturns
<1>2. got' \in [Handles -> Seq(Units)]
  <2>1. got \in [Handles -> Seq(Units)] /\ read.out \in Seq(Units)
    BY TypesAre DEF IInv
  <2>2. CASE files[read.file].isdir
    BY <2>1, <2>2 DEF ReadReturns
  <2>3. CASE ~files[read.file].isdir
    <3>1. got' = [got EXCEPT ![read.file] = got[read.file] \o read.out]
      BY <2>3 DEF ReadReturns
    <3>2. read.file \in Handles => got[read.file] \o read.out \in Seq(Units)
      BY <2>1
    <3> QED
      BY <2>1, <3>1, <3>2
  <2> QED
    BY <2>2, <2>3
<1>3. TypeOK'
  BY <1>1, <1>2, TypesAre, Nothing DEF IInv, TypeOK, Ids, FileType, Buffer
<1>4. Walking' /\ HandlesHeld'
  BY <1>1, NoHandle DEF IInv, Walking, HandlesHeld
<1> QED
  BY <1>3, <1>4 DEF IInv

\* FAT_Open between two entries.
LEMMA EnteringMeans ==
  ASSUME IInv, Entering
  PROVE  /\ TypeOK /\ status = "running" /\ open # NoOpen
         /\ read.file = open.current /\ open.current \in Ids
         /\ open.path \in Seq(Names) /\ open.path # << >> /\ open.name \in Names
         /\ open.current \in Handles => open.current \notin held
         /\ \A h \in Handles : files[h].opened <=> h \in held \/ open.current = h
         /\ read.out \in Seq(Units)
<1>1. TypeOK /\ status = "running" /\ open # NoOpen
  BY DEF Entering, IInv
<1> QED
  BY <1>1, TypesAre DEF IInv, Walking, HandlesHeld

LEMMA NextEntryKeeps ==
  ASSUME IInv, NotThisEntry
  PROVE  IInv'
<1>1. /\ TypeOK /\ status = "running" /\ open # NoOpen /\ open.current \in Ids
      /\ open.path \in Seq(Names) /\ open.path # << >> /\ open.name \in Names
      /\ open.current \in Handles => open.current \notin held
  BY EnteringMeans DEF NotThisEntry
<1>2. /\ files[open.current] \in FileType
      /\ files[open.current].isdir \/ files[open.current].pos <= files[open.current].size
  BY <1>1, TypesAre
<1>3. FindFile(open.path, open.current, files[open.current], open.name)
  BY DEF NotThisEntry
<1>4. UNCHANGED <<status, files, held, failures, got, spoilt, asked, answer>>
  BY DEF NotThisEntry
<1>5. /\ open' \in [path : Seq(Names), name : Names, current : Ids]
      /\ open'.path = open.path /\ open'.current = open.current
      /\ read' \in [file : Ids \union {NULL}, left : Nat, out : Seq(Units)]
      /\ read'.file = open.current
      /\ Asked(files[open.current], read'.left)
  BY <1>1, <1>2, <1>3, Finding
<1>6. TypeOK'
  BY <1>1, <1>4, <1>5, TypesAre DEF TypeOK, Ids, FileType, Buffer
<1>7. open' # NoOpen
  BY <1>1, <1>5, Nothing
<1>8. Walking' /\ HandlesHeld'
  BY <1>1, <1>4, <1>5, <1>7, NoHandle DEF IInv, Walking, HandlesHeld
<1> QED
  BY <1>6, <1>8 DEF IInv

LEMMA NotFoundKeeps ==
  ASSUME IInv, NotFound
  PROVE  IInv'
<1>1. /\ TypeOK /\ status = "running" /\ open.current \in Ids
      /\ open.current \in Handles => open.current \notin held
      /\ \A h \in Handles : files[h].opened <=> h \in held \/ open.current = h
  BY EnteringMeans DEF NotFound
<1>2. files' = FAT_Close(open.current) /\ open' = NoOpen /\ read' = NoRead
  BY DEF NotFound
<1>3. UNCHANGED <<status, held, failures, got, spoilt, asked, answer>>
  BY DEF NotFound
<1>4. /\ files' \in [Ids -> FileType]
      /\ \A k \in Ids : files'[k].isdir \/ files'[k].pos <= files'[k].size
      /\ \A k \in Handles : files'[k].opened <=> files[k].opened /\ k # open.current
  BY <1>1, <1>2, Closing
<1>5. TypeOK'
  BY <1>1, <1>2, <1>3, <1>4, TypesAre, Nothing DEF TypeOK, Ids, FileType, Buffer
<1>6. Walking' /\ HandlesHeld'
  BY <1>1, <1>2, <1>3, <1>4, NoHandle DEF Walking, HandlesHeld
<1> QED
  BY <1>5, <1>6 DEF IInv

LEMMA ProceedKeeps ==
  ASSUME IInv, Entering, NEW h \in Handles \union {NULL}, NEW fd \in FileType,
         fd.isdir \/ fd.pos <= fd.size, Proceed(h, fd),
         files' \in [Ids -> FileType],
         \A k \in Ids : files'[k].isdir \/ files'[k].pos <= files'[k].size,
         \A k \in Handles : files'[k].opened <=> k \in held \/ k = h,
         h # NULL => h \notin held /\ files'[h] = fd,
         failures' \in 0 .. MaxFailures, got' \in [Handles -> Seq(Units)], spoilt' \subseteq Ids
  PROVE  IInv'
<1>1. /\ TypeOK /\ status = "running" /\ open.path \in Seq(Names) /\ open.path # << >>
      /\ held \subseteq Ids /\ answer \in Ids \union {NULL}
      /\ asked \in [path : Seq(Names), fresh : BOOLEAN, spelt : BOOLEAN, before : Nat]
  BY EnteringMeans, TypesAre
<1>2. Handles \subseteq Ids /\ NULL \notin Ids
  BY NoHandle DEF Ids
<1>3. CASE Len(open.path) = 1
  <2>1. /\ held' = held \union ({h} \ {NULL}) /\ answer' = h
        /\ open' = NoOpen /\ read' = NoRead /\ UNCHANGED <<status, asked>>
    BY <1>3 DEF Proceed
  <2>2. TypeOK'
    BY <1>1, <1>2, <2>1, Nothing DEF TypeOK, Ids, FileType, Buffer
  <2>3. Walking' /\ HandlesHeld'
    BY <1>1, <1>2, <2>1, NoHandle DEF Walking, HandlesHeld
  <2> QED
    BY <2>2, <2>3 DEF IInv
<1>4. CASE Len(open.path) # 1 /\ h = NULL
  <2>1. /\ status' = "wild" /\ open' = NoOpen /\ read' = NoRead
        /\ UNCHANGED <<held, asked, answer>>
    BY <1>4 DEF Proceed
  <2>2. TypeOK'
    BY <1>1, <1>2, <2>1, Nothing DEF TypeOK, Ids, FileType, Buffer
  <2>3. Walking' /\ HandlesHeld'
    BY <2>1, NoHandle DEF Walking, HandlesHeld
  <2> QED
    BY <2>2, <2>3 DEF IInv
<1>5. CASE Len(open.path) # 1 /\ h # NULL
  <2>1. PICK name \in Spellings(open.path[2]) :
          /\ FindFile(Tail(open.path), h, fd, name)
          /\ asked' = [asked EXCEPT !.spelt = @ /\ name = open.path[2]]
    BY <1>5 DEF Proceed
  <2>2. UNCHANGED <<status, held, answer>>
    BY <1>5 DEF Proceed
  <2>3. /\ Tail(open.path) \in Seq(Names) /\ Tail(open.path) # << >>
        /\ open.path[2] = Tail(open.path)[1]
    BY <1>1, <1>5, HeadAndTail
  <2>4. name \in Names
    BY <2>1, <2>3, PathTypes
  <2>5. /\ open' \in [path : Seq(Names), name : Names, current : Ids]
        /\ open'.path = Tail(open.path) /\ open'.current = h
        /\ read' \in [file : Ids \union {NULL}, left : Nat, out : Seq(Units)]
        /\ read'.file = h /\ Asked(fd, read'.left)
    BY <1>2, <1>5, <2>1, <2>3, <2>4, Finding
  <2>6. asked' \in [path : Seq(Names), fresh : BOOLEAN, spelt : BOOLEAN, before : Nat]
    <3>1. asked.spelt \in BOOLEAN /\ (asked.spelt /\ name = open.path[2]) \in BOOLEAN
      BY <1>1
    <3> QED
      BY <1>1, <2>1, <3>1
  <2>7. TypeOK'
    BY <1>1, <2>2, <2>5, <2>6 DEF TypeOK, Ids, FileType, Buffer
  <2>8. open' # NoOpen
    BY <2>3, <2>5, Nothing
  <2>9. Walking' /\ HandlesHeld'
    BY <1>1, <1>2, <1>5, <2>2, <2>3, <2>5, <2>8, NoHandle DEF Walking, HandlesHeld
  <2> QED
    BY <2>7, <2>9 DEF IInv
<1> QED
  BY <1>3, <1>4, <1>5

LEMMA FoundKeeps ==
  ASSUME IInv, Found
  PROVE  IInv'
<1> DEFINE closed == FAT_Close(open.current)
           entry == read.out[1]
           lba == FAT_ClusterToLba(entry.first)
           free == {h \in Handles : ~closed[h].opened}
           fd == FAT_OpenEntry(entry, Sectors[lba % Addressable])
<1>1. /\ TypeOK /\ status = "running" /\ open.current \in Ids
      /\ open.current \in Handles => open.current \notin held
      /\ \A h \in Handles : files[h].opened <=> h \in held \/ open.current = h
      /\ read.out \in Seq(Units)
  BY EnteringMeans DEF Found
<1>2. /\ Entering /\ read.out # << >>
      /\ \/ /\ free = {} /\ files' = closed
            /\ Proceed(NULL, Closed) /\ UNCHANGED <<failures, got, spoilt>>
         \/ /\ free # {} /\ DISK_ReadSectors(lba, FALSE)
            /\ files' = closed
            /\ Proceed(NULL, Closed) /\ UNCHANGED <<got, spoilt>>
         \/ /\ free # {} /\ DISK_ReadSectors(lba, TRUE)
            /\ files' = [closed EXCEPT ![Min(free)] = fd]
            /\ Proceed(Min(free), fd)
            /\ got' = [got EXCEPT ![Min(free)] = << >>]
            /\ spoilt' = spoilt \ {Min(free)}
  BY DEF Found
<1>3. entry \in Units
  BY <1>1, <1>2, HeadAndTail
<1>4. /\ closed \in [Ids -> FileType]
      /\ \A k \in Ids : closed[k].isdir \/ closed[k].pos <= closed[k].size
      /\ \A k \in Handles : closed[k].opened <=> k \in held
  BY <1>1, Closing
<1>5. /\ failures \in 0 .. MaxFailures /\ spoilt \subseteq Ids
      /\ got \in [Handles -> Seq(Units)]
  BY <1>1, TypesAre
<1>6. DISK_ReadSectors(lba, FALSE) \/ DISK_ReadSectors(lba, TRUE)
        => failures' \in 0 .. MaxFailures
  BY <1>1, ClosedType, ReadTypes
<1>7. DISK_ReadSectors(lba, TRUE) => Sectors[lba % Addressable] \in Buffer
  BY OnDiskBuffer DEF DISK_ReadSectors
<1>8. free \in SUBSET Handles
  OBVIOUS
<1> HIDE DEF closed, entry, lba
<1>9. CASE /\ files' = closed /\ Proceed(NULL, Closed) /\ UNCHANGED <<got, spoilt>>
           /\ failures' \in 0 .. MaxFailures
  <2>1. NULL \in Handles \union {NULL} /\ (Closed.isdir \/ Closed.pos <= Closed.size)
    BY ClosedType
  <2>2. \A k \in Handles : files'[k].opened <=> k \in held \/ k = NULL
    BY <1>4, <1>9, NoHandle DEF Ids
  <2> QED
    BY <1>2, <1>4, <1>5, <1>9, <2>1, <2>2, ClosedType, ProceedKeeps
<1>10. CASE /\ free # {} /\ DISK_ReadSectors(lba, TRUE)
            /\ files' = [closed EXCEPT ![Min(free)] = fd]
            /\ Proceed(Min(free), fd)
            /\ got' = [got EXCEPT ![Min(free)] = << >>]
            /\ spoilt' = spoilt \ {Min(free)}
  <2> DEFINE h == Min(free)
  <2>1. h \in free /\ h \in Handles /\ h \in Ids /\ h # NULL
    BY <1>8, <1>10, FirstFree, NoHandle DEF Ids
  <2>2. h \notin held
    BY <1>4, <2>1
  <2>3. fd \in FileType /\ fd.opened /\ fd.pos <= fd.size
    BY <1>3, <1>7, <1>10, EntryType
  <2> HIDE DEF free, fd
  <2>4. Proceed(h, fd) /\ files' = [closed EXCEPT ![h] = fd]
    BY <1>10
  <2>5. /\ failures' \in 0 .. MaxFailures /\ spoilt' \subseteq Ids
        /\ got' \in [Handles -> Seq(Units)]
    BY <1>5, <1>6, <1>10, HeadAndTail
  <2> HIDE DEF h
  <2>6. /\ files' \in [Ids -> FileType]
        /\ \A k \in Ids : files'[k].isdir \/ files'[k].pos <= files'[k].size
        /\ files'[h] = fd
    BY <1>4, <2>1, <2>3, <2>4
  <2>7. \A k \in Handles : files'[k].opened <=> k \in held \/ k = h
    BY <1>4, <2>1, <2>3, <2>4 DEF Ids
  <2> QED
    BY <1>2, <2>1, <2>2, <2>3, <2>4, <2>5, <2>6, <2>7, ProceedKeeps
<1> QED
  BY <1>2, <1>5, <1>6, <1>9, <1>10

-----------------------------------------------------------------------------
LEMMA InitKeeps == Init => IInv
<1> SUFFICES ASSUME Init PROVE IInv
  OBVIOUS
<1>1. files \in [Ids -> FileType] /\ \A h \in Ids : files[h] = Closed
  BY ClosedType DEF Init, Ids
<1>2. TypeOK
  BY <1>1, ClosedType, Nothing, DiskAssumption, HeadAndTail
     DEF Init, TypeOK, Ids, FileType, Buffer
<1>3. Walking /\ HandlesHeld
  BY <1>1, ClosedType, NoHandle DEF Init, Walking, HandlesHeld, Ids
<1> QED
  BY <1>2, <1>3 DEF IInv

LEMMA Inductive == Spec => []IInv
<1>1. IInv /\ [Next]_vars => IInv'
  <2> SUFFICES ASSUME IInv, [Next]_vars PROVE IInv'
    OBVIOUS
  <2>1. CASE FAT_Initialize
    BY <2>1, InitializeKeeps
  <2>2. CASE Program
    BY <2>2, ProgramKeeps
  <2>3. CASE Library
    BY <2>3, ReadingKeeps, ReturnKeeps, NextEntryKeeps, NotFoundKeeps, FoundKeeps DEF Library
  <2>4. CASE UNCHANGED vars
    BY <2>4 DEF vars, IInv, TypeOK, Walking, HandlesHeld
  <2> QED
    BY <2>1, <2>2, <2>3, <2>4 DEF Next
<1> QED
  BY <1>1, InitKeeps, PTL DEF Spec

(* Whatever the disk holds and whichever reads fail, no position passes the*)
(* size of its file, no sector the end of its cluster, and no buffer is    *)
(* read past its end.                                                      *)
THEOREM FatTypes == Spec => []TypeOK
  BY Inductive, PTL DEF IInv

(* No path leaks a handle or frees one the program holds, found or not,    *)
(* read or not, of any length.                                             *)
THEOREM HandlesAreHeld == Spec => []HandlesHeld
  BY Inductive, PTL DEF IInv

-----------------------------------------------------------------------------
(* Places in a chain: sectors and units are counted through it.            *)
LEMMA Euclid ==
  ASSUME NEW a \in Nat, NEW d \in Nat, d > 0
  PROVE  /\ a \div d \in Nat /\ a % d \in Nat /\ a % d < d
         /\ a = (a \div d) * d + (a % d)
OBVIOUS

LEMMA Monotonic ==
  ASSUME NEW a \in Nat, NEW b \in Nat, NEW d \in Nat, a <= b
  PROVE  a * d \in Nat /\ b * d \in Nat /\ a * d <= b * d
OBVIOUS

LEMMA Digits ==
  ASSUME NEW q \in Nat, NEW r \in Nat, NEW d \in Nat, r < d
  PROVE  (q * d + r) \div d = q /\ (q * d + r) % d = r
BY SMTT(30)

\* Digits r below d of numbers q below m.
LEMMA Below ==
  ASSUME NEW q \in Nat, NEW m \in Nat, q < m, NEW r \in Nat, NEW d \in Nat, r < d
  PROVE  q * d + r \in Nat /\ q * d + r < m * d /\ m * d \in Nat
<1>1. q + 1 \in Nat /\ q + 1 <= m
  OBVIOUS
<1>2. (q + 1) * d <= m * d /\ m * d \in Nat
  BY <1>1, Monotonic
<1>3. (q + 1) * d = q * d + d /\ q * d \in Nat
  OBVIOUS
<1> QED
  BY <1>2, <1>3

LEMMA Quotient ==
  ASSUME NEW a \in Nat, NEW m \in Nat, NEW d \in Nat, d > 0, a < m * d
  PROVE  a \div d \in 0 .. m - 1 /\ a % d \in 0 .. d - 1
<1> DEFINE q == a \div d
<1>1. q \in Nat /\ a % d \in Nat /\ a % d < d /\ a = q * d + (a % d)
  BY Euclid
<1> HIDE DEF q
<1>2. ~(m <= q)
  <2> SUFFICES ASSUME m <= q PROVE FALSE
    OBVIOUS
  <2>1. m * d <= q * d /\ m * d \in Nat /\ q * d \in Nat
    BY <1>1, Monotonic
  <2> QED
    BY <1>1, <2>1
<1> QED
  BY <1>1, <1>2 DEF q

-----------------------------------------------------------------------------
(* What the table says of a file.                                          *)
LEMMA ClusterMeans ==
  ASSUME NEW c \in Clusters
  PROVE  /\ c \in Nat /\ c \in DOMAIN g_Fat /\ c < ENDS /\ ENDS \in Nat
         /\ \A s \in 0 .. SectorsPerCluster - 1 :
              /\ FAT_ClusterToLba(c) + s \in DOMAIN Sectors
              /\ (FAT_ClusterToLba(c) + s) % Addressable = FAT_ClusterToLba(c) + s
              /\ Sectors[FAT_ClusterToLba(c) + s] \in Buffer
<1>1. c \in Nat /\ c \in DOMAIN g_Fat /\ c < ENDS /\ ENDS \in Nat
  BY EntriesAssumption DEF Clusters
<1>2. ASSUME NEW s \in 0 .. SectorsPerCluster - 1
      PROVE  /\ FAT_ClusterToLba(c) + s \in DOMAIN Sectors
             /\ (FAT_ClusterToLba(c) + s) % Addressable = FAT_ClusterToLba(c) + s
             /\ Sectors[FAT_ClusterToLba(c) + s] \in Buffer
  <2> DEFINE lba == FAT_ClusterToLba(c) + s
  <2>1. lba \in DOMAIN Sectors
    BY DEF Clusters
  <2>2. lba \in 0 .. Addressable - 1 /\ Addressable \in Nat /\ Sectors[lba] \in Buffer
    BY <2>1, DiskAssumption DEF Buffer
  <2> HIDE DEF lba
  <2>3. lba % Addressable = lba
    BY <2>2
  <2> QED
    BY <2>1, <2>2, <2>3 DEF lba
<1> QED
  BY <1>1, <1>2

LEMMA ChainMeans ==
  ASSUME NEW first, Chains(first) # {}
  PROVE  LET chain == Chain(first)
         IN  /\ Len(chain) \in Nat /\ Len(chain) > 0 /\ chain[1] = first
             /\ \A i \in 1 .. Len(chain) : chain[i] \in Clusters
             /\ \A i \in 1 .. Len(chain) - 1 : g_Fat[chain[i]] = chain[i + 1]
             /\ g_Fat[chain[Len(chain)]] >= ENDS
             /\ first \in Clusters
<1> DEFINE chain == Chain(first)
<1>1. chain \in SeqOf(Clusters, Cardinality(Clusters)) /\ IsChain(chain, first)
  BY DEF Chain, Chains
<1> HIDE DEF chain
<1>2. PICK m \in 0 .. Cardinality(Clusters) : chain \in [1 .. m -> Clusters]
  BY <1>1 DEF SeqOf
<1>3. m \in Nat /\ chain \in Seq(Clusters)
  BY <1>2
<1>4. Len(chain) \in Nat /\ Len(chain) > 0 /\ \A i \in 1 .. Len(chain) : chain[i] \in Clusters
  BY <1>1, <1>3 DEF IsChain
<1> QED
  BY <1>1, <1>4 DEF chain, IsChain

\* Where in a file a unit of a sector is.
Index(i, sector, r) == ((i - 1) * SectorsPerCluster + sector) * SECTOR_SIZE + r
Length(first) == Len(Chain(first)) * SectorsPerCluster * SECTOR_SIZE

LEMMA IndexWithin ==
  ASSUME NEW n \in Nat, NEW i \in 1 .. n, NEW sector \in 0 .. SectorsPerCluster - 1,
         NEW r \in 0 .. SECTOR_SIZE - 1
  PROVE  LET q == (i - 1) * SectorsPerCluster + sector
         IN  /\ Index(i, sector, r) \in Nat
             /\ Index(i, sector, r) < n * SectorsPerCluster * SECTOR_SIZE
             /\ Index(i, sector, r) \div SECTOR_SIZE = q
             /\ Index(i, sector, r) % SECTOR_SIZE = r
             /\ q \div SectorsPerCluster = i - 1 /\ q % SectorsPerCluster = sector
<1> DEFINE q == (i - 1) * SectorsPerCluster + sector
<1>1. /\ i - 1 \in Nat /\ i - 1 < n /\ sector \in Nat /\ sector < SectorsPerCluster
      /\ r \in Nat /\ r < SECTOR_SIZE /\ SECTOR_SIZE \in Nat /\ SectorsPerCluster \in Nat
  BY Sizes
<1>2. q \in Nat /\ q < n * SectorsPerCluster /\ n * SectorsPerCluster \in Nat
  BY <1>1, Below
<1>3. q \div SectorsPerCluster = i - 1 /\ q % SectorsPerCluster = sector
  BY <1>1, Digits
<1> HIDE DEF q
<1>4. q * SECTOR_SIZE + r \in Nat /\ q * SECTOR_SIZE + r < n * SectorsPerCluster * SECTOR_SIZE
  BY <1>1, <1>2, Below
<1>5. (q * SECTOR_SIZE + r) \div SECTOR_SIZE = q /\ (q * SECTOR_SIZE + r) % SECTOR_SIZE = r
  BY <1>1, <1>2, Digits
<1>6. Index(i, sector, r) = q * SECTOR_SIZE + r
  BY DEF Index, q
<1> QED
  BY <1>3, <1>4, <1>5, <1>6 DEF q

LEMMA IndexMoves ==
  ASSUME NEW i \in Nat, i > 0, NEW sector \in 0 .. SectorsPerCluster - 1,
         NEW r \in Int, NEW n \in Int
  PROVE  Index(i, sector, r + n) = Index(i, sector, r) + n
<1> DEFINE base == ((i - 1) * SectorsPerCluster + sector) * SECTOR_SIZE
<1>1. i - 1 \in Nat /\ sector \in Nat /\ SectorsPerCluster \in Nat /\ SECTOR_SIZE \in Nat
  BY Sizes
<1>2. (i - 1) * SectorsPerCluster + sector \in Nat
  BY <1>1
<1>3. base \in Nat
  BY <1>1, <1>2
<1>4. Index(i, sector, r + n) = base + (r + n) /\ Index(i, sector, r) = base + r
  BY DEF Index
<1> HIDE DEF base
<1> QED
  BY <1>3, <1>4

\* The end of a sector is the start of the next.
LEMMA NextIndex ==
  ASSUME NEW i \in Nat, i > 0, NEW sector \in 0 .. SectorsPerCluster - 1
  PROVE  /\ Index(i, sector, SECTOR_SIZE) % SECTOR_SIZE = 0
         /\ sector + 1 < SectorsPerCluster =>
              Index(i, sector, SECTOR_SIZE) = Index(i, sector + 1, 0)
         /\ sector + 1 >= SectorsPerCluster =>
              Index(i, sector, SECTOR_SIZE) = Index(i + 1, 0, 0)
<1> DEFINE q == (i - 1) * SectorsPerCluster + sector
<1>1. /\ i - 1 \in Nat /\ sector \in Nat /\ SECTOR_SIZE \in Nat /\ SECTOR_SIZE > 0
      /\ SectorsPerCluster \in Nat /\ (i - 1) * SectorsPerCluster \in Nat
  BY Sizes
<1>2. q \in Nat /\ q + 1 = (i - 1) * SectorsPerCluster + (sector + 1)
  BY <1>1
<1>3. sector + 1 >= SectorsPerCluster => q + 1 = ((i + 1) - 1) * SectorsPerCluster + 0
  <2> SUFFICES ASSUME sector + 1 >= SectorsPerCluster
               PROVE  q + 1 = ((i + 1) - 1) * SectorsPerCluster + 0
    OBVIOUS
  <2>1. sector + 1 = SectorsPerCluster
    BY <1>1
  <2>2. q + 1 = (i - 1) * SectorsPerCluster + SectorsPerCluster
    BY <1>2, <2>1
  <2>3. (i - 1) * SectorsPerCluster + SectorsPerCluster = i * SectorsPerCluster
    BY <1>1
  <2>4. (i + 1) - 1 = i /\ i * SectorsPerCluster \in Nat
    BY <1>1
  <2> HIDE DEF q
  <2> QED
    BY <2>2, <2>3, <2>4
<1>4. Index(i, sector, SECTOR_SIZE) = q * SECTOR_SIZE + SECTOR_SIZE
  BY DEF Index
<1>5. /\ Index(i, sector + 1, 0) = ((i - 1) * SectorsPerCluster + (sector + 1)) * SECTOR_SIZE + 0
      /\ Index(i + 1, 0, 0) = (((i + 1) - 1) * SectorsPerCluster + 0) * SECTOR_SIZE + 0
  BY DEF Index
<1> HIDE DEF q
<1>6. Index(i, sector, SECTOR_SIZE) = (q + 1) * SECTOR_SIZE + 0 /\ q + 1 \in Nat
  BY <1>1, <1>2, <1>4
<1>7. ((q + 1) * SECTOR_SIZE + 0) % SECTOR_SIZE = 0
  BY <1>1, <1>6, Digits
<1> QED
  BY <1>2, <1>3, <1>5, <1>6, <1>7

LEMMA ContentMeans ==
  ASSUME NEW first, Chains(first) # {}
  PROVE  /\ Length(first) \in Nat
         /\ Content[first] \in Seq(Units) /\ Len(Content[first]) = Length(first)
         /\ \A i \in 1 .. Len(Chain(first)), sector \in 0 .. SectorsPerCluster - 1,
               r \in 0 .. SECTOR_SIZE - 1 :
              /\ Index(i, sector, r) \in Nat /\ Index(i, sector, r) < Length(first)
              /\ Content[first][Index(i, sector, r) + 1] =
                   Sectors[FAT_ClusterToLba(Chain(first)[i]) + sector][r + 1]
<1> DEFINE chain == Chain(first)
           Unit(k) == Sectors[FAT_ClusterToLba(
                        chain[(((k - 1) \div SECTOR_SIZE) \div SectorsPerCluster) + 1])
                          + (((k - 1) \div SECTOR_SIZE) % SectorsPerCluster)]
                              [((k - 1) % SECTOR_SIZE) + 1]
<1>1. /\ Len(chain) \in Nat /\ first \in Clusters
      /\ \A i \in 1 .. Len(chain) : chain[i] \in Clusters
  BY ChainMeans
<1>2. Content[first] = [k \in 1 .. Length(first) |-> Unit(k)]
  BY <1>1 DEF Content, Length
<1>3. Len(chain) * SectorsPerCluster \in Nat /\ Length(first) \in Nat
  BY <1>1, Sizes DEF Length
<1>4. ASSUME NEW k \in 1 .. Length(first)
      PROVE  Unit(k) \in Units
  <2> DEFINE n == (k - 1) \div SECTOR_SIZE
  <2>1. k - 1 \in Nat /\ k - 1 < Len(chain) * SectorsPerCluster * SECTOR_SIZE
    BY <1>3 DEF Length
  <2>2. n \in 0 .. Len(chain) * SectorsPerCluster - 1 /\ (k - 1) % SECTOR_SIZE \in 0 .. SECTOR_SIZE - 1
    BY <1>3, <2>1, Sizes, Quotient
  <2> HIDE DEF n
  <2>3. n \in Nat /\ n < Len(chain) * SectorsPerCluster
    BY <1>3, <2>2
  <2>4. /\ n \div SectorsPerCluster \in 0 .. Len(chain) - 1
        /\ n % SectorsPerCluster \in 0 .. SectorsPerCluster - 1
    BY <1>1, <2>3, Sizes, Quotient
  <2> DEFINE i == (n \div SectorsPerCluster) + 1
             s == n % SectorsPerCluster
             r == ((k - 1) % SECTOR_SIZE) + 1
  <2>5. i \in 1 .. Len(chain) /\ s \in 0 .. SectorsPerCluster - 1 /\ r \in 1 .. SECTOR_SIZE
    BY <1>1, <2>2, <2>4, Sizes
  <2>6. Unit(k) = Sectors[FAT_ClusterToLba(chain[i]) + s][r]
    BY DEF n
  <2> HIDE DEF i, s, r, Unit
  <2>7. chain[i] \in Clusters
    BY <1>1, <2>5
  <2>8. Sectors[FAT_ClusterToLba(chain[i]) + s] \in Buffer
    BY <2>5, <2>7, ClusterMeans
  <2> QED
    BY <2>5, <2>6, <2>8 DEF Buffer
<1>5. Content[first] \in Seq(Units) /\ Len(Content[first]) = Length(first)
  <2> HIDE DEF Unit
  <2> QED
    BY <1>2, <1>3, <1>4
<1>6. ASSUME NEW i \in 1 .. Len(chain), NEW sector \in 0 .. SectorsPerCluster - 1,
             NEW r \in 0 .. SECTOR_SIZE - 1
      PROVE  /\ Index(i, sector, r) \in Nat /\ Index(i, sector, r) < Length(first)
             /\ Content[first][Index(i, sector, r) + 1] =
                  Sectors[FAT_ClusterToLba(chain[i]) + sector][r + 1]
  <2> DEFINE x == Index(i, sector, r)
             q == (i - 1) * SectorsPerCluster + sector
  <2>1. /\ x \in Nat /\ x < Length(first) /\ x \div SECTOR_SIZE = q /\ x % SECTOR_SIZE = r
        /\ q \div SectorsPerCluster = i - 1 /\ q % SectorsPerCluster = sector
    BY <1>1, IndexWithin DEF Length
  <2> HIDE DEF x, q
  <2>2. x + 1 \in 1 .. Length(first) /\ (x + 1) - 1 = x /\ (i - 1) + 1 = i
    BY <1>3, <2>1
  <2>3. Content[first][x + 1] = Unit(x + 1)
    <3> HIDE DEF Unit
    <3> QED
      BY <1>2, <2>2
  <2>4. Unit(x + 1) = Sectors[FAT_ClusterToLba(chain[i]) + sector][r + 1]
    BY <2>1, <2>2
  <2> QED
    BY <2>1, <2>3, <2>4 DEF x
<1> QED
  BY <1>3, <1>5, <1>6

-----------------------------------------------------------------------------
(* The place of a file in its chain.                                       *)

\* The sector of a cluster of the chain.
InBuffer(buffer, first, i, sector) ==
  buffer = Sectors[FAT_ClusterToLba(Chain(first)[i]) + sector]

\* Where the next unit comes from: the sector in the buffer is the one of the
\* chain that holds the position.
At(fd) ==
  \E i \in 1 .. Len(Chain(fd.first)), r \in 0 .. SECTOR_SIZE - 1 :
    /\ fd.current = Chain(fd.first)[i] /\ fd.pos = Index(i, fd.sector, r)
    /\ InBuffer(fd.buffer, fd.first, i, fd.sector)

\* What was given of a file is the start of its text, up to a position.
StartOf(given, first, pos) ==
  /\ given \in Seq(Units) /\ Len(given) = pos
  /\ \A k \in 1 .. Len(given) : k <= Length(first) /\ given[k] = Content[first][k]

Placed(fd, given) ==
  /\ StartOf(given, fd.first, fd.pos)
  /\ fd.size > 0 => Chains(fd.first) # {}
  /\ fd.pos < fd.size => At(fd)

\* With what the running FAT_Read has taken.
Given(h) == IF read.file = h THEN got[h] \o read.out ELSE got[h]

InPlace == \A h \in held \intersect Handles :
  h \notin spoilt /\ ~files[h].isdir => Placed(files[h], Given(h))

\* Nothing is searched for but names of paths.
Named == open.path \in Seq(Searched) /\ open.name \in Searched \union {Garbled}

LEMMA SameAs ==
  ASSUME NEW fd, NEW new, new.first = fd.first, new.pos = fd.pos, new.current = fd.current,
         new.sector = fd.sector, new.buffer = fd.buffer, new.size = fd.size, NEW given,
         Placed(fd, given)
  PROVE  Placed(new, given)
BY DEF Placed, At

\* A sequence and a piece of another.
With(s, b, from, n) == s \o SubSeq(b, from + 1, from + n)
Continues(S, more, s, b, from, n) ==
  /\ more \in Seq(S) /\ Len(more) = Len(s) + n
  /\ \A k \in 1 .. Len(s) : more[k] = s[k]
  /\ \A j \in 1 .. n : more[Len(s) + j] = b[from + j]

LEMMA Appending ==
  ASSUME NEW S, NEW s \in Seq(S), NEW b \in Seq(S), NEW from \in Nat, NEW n \in Nat,
         from + n <= Len(b)
  PROVE  Continues(S, With(s, b, from, n), s, b, from, n)
<1> DEFINE piece == SubSeq(b, from + 1, from + n)
           more == s \o piece
<1>1. Len(b) \in Nat /\ Len(s) \in Nat /\ from + 1 \in Int /\ from + n \in Int
  OBVIOUS
<1>2. \A j \in from + 1 .. from + n : b[j] \in S
  BY <1>1, ElementOfSeq
<1>3. /\ piece \in Seq(S)
      /\ Len(piece) = IF from + 1 <= from + n THEN (from + n) - (from + 1) + 1 ELSE 0
      /\ \A j \in 1 .. (from + n) - (from + 1) + 1 : piece[j] = b[(from + 1) + j - 1]
  BY <1>1, <1>2, SubSeqProperties
<1> HIDE DEF piece
<1>4. Len(piece) = n /\ \A j \in 1 .. n : piece[j] = b[from + j]
  BY <1>3
<1>5. /\ more \in Seq(S) /\ Len(more) = Len(s) + Len(piece)
      /\ \A k \in 1 .. Len(s) + Len(piece) :
           more[k] = IF k <= Len(s) THEN s[k] ELSE piece[k - Len(s)]
  BY <1>3, ConcatProperties
<1> HIDE DEF more
<1>6. \A k \in 1 .. Len(s) : more[k] = s[k]
  BY <1>1, <1>4, <1>5
<1>7. ASSUME NEW j \in 1 .. n PROVE more[Len(s) + j] = b[from + j]
  <2>1. Len(s) + j \in 1 .. Len(s) + Len(piece) /\ ~(Len(s) + j <= Len(s))
        /\ (Len(s) + j) - Len(s) = j
    BY <1>1, <1>4
  <2> QED
    BY <1>4, <1>5, <2>1
<1> QED
  BY <1>4, <1>5, <1>6, <1>7 DEF more, piece, With, Continues

LEMMA BufferSeq ==
  ASSUME NEW buffer \in Buffer
  PROVE  buffer \in Seq(Units) /\ Len(buffer) = SECTOR_SIZE
BY Sizes DEF Buffer

\* The piece a turn takes is the next piece of the text.
LEMMA PieceOfText ==
  ASSUME NEW first, Chains(first) # {}, NEW i \in 1 .. Len(Chain(first)),
         NEW sector \in 0 .. SectorsPerCluster - 1, NEW buffer \in Buffer,
         InBuffer(buffer, first, i, sector),
         NEW from \in Nat, NEW n \in Nat, from + n <= SECTOR_SIZE,
         NEW given, StartOf(given, first, Index(i, sector, from))
  PROVE  StartOf(With(given, buffer, from, n), first, Index(i, sector, from + n))
<1> DEFINE more == With(given, buffer, from, n)
<1>1. /\ i \in Nat /\ i > 0 /\ SECTOR_SIZE \in Nat /\ from \in Int /\ n \in Int
      /\ Len(given) \in Nat /\ Len(given) = Index(i, sector, from) /\ given \in Seq(Units)
  <2>1. /\ Len(given) \in Nat /\ SECTOR_SIZE \in Nat /\ Len(given) = Index(i, sector, from)
        /\ given \in Seq(Units)
    BY Sizes DEF StartOf
  <2>2. Len(Chain(first)) \in Nat
    BY ChainMeans
  <2> QED
    BY <2>1, <2>2
<1>2. buffer \in Seq(Units) /\ from + n <= Len(buffer)
  BY BufferSeq
<1>3. /\ more \in Seq(Units) /\ Len(more) = Len(given) + n
      /\ \A k \in 1 .. Len(given) : more[k] = given[k]
      /\ \A j \in 1 .. n : more[Len(given) + j] = buffer[from + j]
  <2>1. Continues(Units, more, given, buffer, from, n)
    BY <1>1, <1>2, Appending
  <2> QED
    BY <2>1 DEF Continues
<1> HIDE DEF more
<1>4. Len(more) = Index(i, sector, from + n)
  <2>1. Index(i, sector, from + n) = Index(i, sector, from) + n
    BY <1>1, IndexMoves
  <2> QED
    BY <1>1, <1>3, <2>1
<1>5. ASSUME NEW j \in 1 .. n
      PROVE  /\ Len(given) + j <= Length(first)
             /\ more[Len(given) + j] = Content[first][Len(given) + j]
  <2> DEFINE at == Index(i, sector, from + (j - 1))
  <2>1. /\ j - 1 \in Int /\ from + (j - 1) \in 0 .. SECTOR_SIZE - 1
        /\ (from + (j - 1)) + 1 = from + j
    BY <1>1
  <2>2. at = Index(i, sector, from) + (j - 1)
    BY <1>1, <2>1, IndexMoves
  <2>3. /\ at \in Nat /\ at < Length(first) /\ Length(first) \in Nat
        /\ Content[first][at + 1] =
             Sectors[FAT_ClusterToLba(Chain(first)[i]) + sector][(from + (j - 1)) + 1]
    BY <2>1, ContentMeans
  <2> HIDE DEF at
  <2>4. at = Len(given) + (j - 1)
    BY <1>1, <2>2
  <2>5. at + 1 = Len(given) + j /\ at + 1 <= Length(first)
    BY <1>1, <2>1, <2>3, <2>4
  <2> QED
    BY <1>3, <2>1, <2>3, <2>5 DEF InBuffer
<1>6. ASSUME NEW k \in 1 .. Len(more)
      PROVE  k <= Length(first) /\ more[k] = Content[first][k]
  <2>1. CASE k <= Len(given)
    BY <1>1, <1>3, <2>1 DEF StartOf
  <2>2. CASE ~(k <= Len(given))
    <3>1. k - Len(given) \in 1 .. n /\ Len(given) + (k - Len(given)) = k
      BY <1>1, <1>3, <2>2
    <3> QED
      BY <1>5, <3>1
  <2> QED
    BY <2>1, <2>2
<1> QED
  BY <1>3, <1>4, <1>6 DEF more, StartOf

\* After a turn, in the sector of before or in the next.
After(fd, given, take) == With(given, fd.buffer, fd.pos % SECTOR_SIZE, take)

LEMMA TurnOfText ==
  ASSUME NEW fd \in FileType, NEW given, Placed(fd, given), fd.pos < fd.size,
         NEW take \in Nat, (fd.pos % SECTOR_SIZE) + take <= SECTOR_SIZE
  PROVE  /\ Chains(fd.first) # {} /\ Len(Chain(fd.first)) \in Nat
         /\ StartOf(After(fd, given, take), fd.first, fd.pos + take)
         /\ \E i \in 1 .. Len(Chain(fd.first)) :
              /\ fd.current = Chain(fd.first)[i] /\ InBuffer(fd.buffer, fd.first, i, fd.sector)
              /\ fd.pos + take = Index(i, fd.sector, (fd.pos % SECTOR_SIZE) + take)
<1>1. /\ fd.pos \in Nat /\ fd.size \in Nat /\ fd.buffer \in Buffer
      /\ fd.sector \in 0 .. SectorsPerCluster - 1 /\ fd.pos % SECTOR_SIZE \in Nat
  BY Fields
<1>2. Chains(fd.first) # {} /\ At(fd) /\ StartOf(given, fd.first, fd.pos)
  BY <1>1 DEF Placed
<1>3. PICK i \in 1 .. Len(Chain(fd.first)), r \in 0 .. SECTOR_SIZE - 1 :
        /\ fd.current = Chain(fd.first)[i] /\ fd.pos = Index(i, fd.sector, r)
        /\ InBuffer(fd.buffer, fd.first, i, fd.sector)
  BY <1>2 DEF At
<1>4. Len(Chain(fd.first)) \in Nat
  BY <1>2, ChainMeans
<1> DEFINE from == fd.pos % SECTOR_SIZE
<1>5. r = from
  BY <1>1, <1>3, <1>4, IndexWithin
<1>6. from \in Nat /\ from + take <= SECTOR_SIZE /\ fd.pos = Index(i, fd.sector, from)
  BY <1>1, <1>3, <1>5
<1>7. After(fd, given, take) = With(given, fd.buffer, from, take)
  BY DEF After
<1> HIDE DEF from
<1>8. StartOf(given, fd.first, Index(i, fd.sector, from))
  BY <1>2, <1>6
<1>9. StartOf(With(given, fd.buffer, from, take), fd.first, Index(i, fd.sector, from + take))
  BY <1>1, <1>2, <1>3, <1>6, <1>8, PieceOfText
<1>10. fd.pos + take = Index(i, fd.sector, from + take)
  <2>1. i \in Nat /\ i > 0 /\ from \in Int /\ take \in Int
    BY <1>4, <1>6
  <2>2. Index(i, fd.sector, from + take) = Index(i, fd.sector, from) + take
    BY <1>1, <2>1, IndexMoves
  <2> QED
    BY <1>6, <2>2
<1> QED
  BY <1>2, <1>3, <1>4, <1>7, <1>9, <1>10 DEF from

LEMMA AdvancedFile ==
  ASSUME NEW fd \in FileType, ~fd.isdir, NEW take \in Nat
  PROVE  LET new == Advanced(fd, take)
         IN  /\ new.first = fd.first /\ new.current = fd.current /\ new.sector = fd.sector
             /\ new.buffer = fd.buffer /\ new.size = fd.size /\ new.pos = fd.pos + take
             /\ new \in FileType
<1>1. fd.pos + take \in Nat
  BY Fields
<1>2. Advanced(fd, take) = [fd EXCEPT !.pos = fd.pos + take]
  BY DEF Advanced
<1> QED
  BY <1>1, <1>2 DEF FileType

\* A sector is used up exactly where the next unit of it would be past its end.
LEMMA UsedUp ==
  ASSUME NEW i \in Nat, i > 0, NEW sector \in 0 .. SectorsPerCluster - 1,
         NEW r \in Nat, r > 0, r <= SECTOR_SIZE
  PROVE  Index(i, sector, r) % SECTOR_SIZE = 0 <=> r = SECTOR_SIZE
<1>1. CASE r = SECTOR_SIZE
  BY <1>1, NextIndex
<1>2. CASE r # SECTOR_SIZE
  <2>1. i \in 1 .. i /\ r \in 0 .. SECTOR_SIZE - 1
    BY <1>2, Sizes
  <2>2. Index(i, sector, r) % SECTOR_SIZE = r
    BY <2>1, IndexWithin
  <2> QED
    BY <1>2, <2>2
<1> QED
  BY <1>1, <1>2

LEMMA WithinPlaced ==
  ASSUME NEW fd \in FileType, NEW given, Placed(fd, given), fd.pos < fd.size,
         NEW take \in Nat, take > 0, (fd.pos % SECTOR_SIZE) + take <= SECTOR_SIZE,
         ~fd.isdir, ~Drained(fd, take)
  PROVE  Placed(Advanced(fd, take), After(fd, given, take))
<1> DEFINE new == Advanced(fd, take)
           more == After(fd, given, take)
           r == (fd.pos % SECTOR_SIZE) + take
<1>1. /\ Chains(fd.first) # {} /\ Len(Chain(fd.first)) \in Nat
      /\ StartOf(more, fd.first, fd.pos + take)
  BY TurnOfText
<1>2. PICK i \in 1 .. Len(Chain(fd.first)) :
        /\ fd.current = Chain(fd.first)[i] /\ InBuffer(fd.buffer, fd.first, i, fd.sector)
        /\ fd.pos + take = Index(i, fd.sector, r)
  BY TurnOfText
<1>3. /\ fd.sector \in 0 .. SectorsPerCluster - 1 /\ r \in Nat /\ r > 0 /\ r <= SECTOR_SIZE
      /\ SECTOR_SIZE \in Nat
  BY Fields, Sizes
<1>4. /\ new.first = fd.first /\ new.current = fd.current /\ new.sector = fd.sector
      /\ new.buffer = fd.buffer /\ new.size = fd.size /\ new.pos = fd.pos + take
  BY AdvancedFile
<1>5. (fd.pos + take) % SECTOR_SIZE # 0
  BY DEF Drained
<1> HIDE DEF r, new, more
<1>6. r \in 0 .. SECTOR_SIZE - 1
  <2>1. i \in Nat /\ i > 0
    BY <1>1
  <2>2. r # SECTOR_SIZE
    BY <1>2, <1>3, <1>5, <2>1, UsedUp
  <2> QED
    BY <1>3, <2>2
<1>7. At(new)
  BY <1>2, <1>4, <1>6 DEF At
<1> QED
  BY <1>1, <1>4, <1>7 DEF Placed, new, more

\* The next sector of the chain, or its end.
LEMMA NextPlaced ==
  ASSUME NEW fd \in FileType, NEW given, Placed(fd, given), fd.pos < fd.size,
         NEW take \in Nat, take > 0, (fd.pos % SECTOR_SIZE) + take <= SECTOR_SIZE,
         ~fd.isdir, Drained(fd, take), NEW next \in NextSector(Advanced(fd, take))
  PROVE  /\ next.first = fd.first /\ next.pos = fd.pos + take /\ next.size = fd.size
         /\ \/ next.current >= ENDS
            \/ \E i \in 1 .. Len(Chain(fd.first)) :
                 /\ next.current = Chain(fd.first)[i] /\ next.pos = Index(i, next.sector, 0)
                 /\ next.sector \in 0 .. SectorsPerCluster - 1
<1> DEFINE new == Advanced(fd, take)
           chain == Chain(fd.first)
           r == (fd.pos % SECTOR_SIZE) + take
<1>1. Chains(fd.first) # {} /\ Len(chain) \in Nat
  BY TurnOfText
<1>2. PICK i \in 1 .. Len(chain) :
        fd.current = chain[i] /\ fd.pos + take = Index(i, fd.sector, r)
  BY TurnOfText
<1>3. /\ fd.sector \in 0 .. SectorsPerCluster - 1 /\ r \in Nat /\ r > 0 /\ r <= SECTOR_SIZE
      /\ SectorsPerCluster \in Nat /\ SectorsPerCluster > 0
  BY Fields, Sizes
<1>4. /\ \A j \in 1 .. Len(chain) : chain[j] \in Clusters
      /\ \A j \in 1 .. Len(chain) - 1 : g_Fat[chain[j]] = chain[j + 1]
      /\ g_Fat[chain[Len(chain)]] >= ENDS
  BY <1>1, ChainMeans
<1>5. /\ new.first = fd.first /\ new.current = fd.current /\ new.sector = fd.sector
      /\ new.size = fd.size /\ new.pos = fd.pos + take /\ new \in FileType
  BY AdvancedFile
<1>6. (fd.pos + take) % SECTOR_SIZE = 0
  BY DEF Drained
<1>7. next \in NextSector(new)
  OBVIOUS
<1> HIDE DEF new, r, chain
<1>8. i \in Nat /\ i > 0
  BY <1>1
<1>9. new.pos = Index(i, new.sector, SECTOR_SIZE) /\ new.sector \in 0 .. SectorsPerCluster - 1
  <2>1. r = SECTOR_SIZE
    BY <1>2, <1>3, <1>6, <1>8, UsedUp
  <2> QED
    BY <1>2, <1>3, <1>5, <2>1
<1>10. CASE new.sector + 1 < SectorsPerCluster
  <2>1. next = [new EXCEPT !.sector = new.sector + 1]
    BY <1>7, <1>10 DEF NextSector
  <2>2. /\ next.first = new.first /\ next.current = new.current /\ next.sector = new.sector + 1
        /\ next.size = new.size /\ next.pos = new.pos
    BY <1>5, <2>1 DEF FileType
  <2>3. next.pos = Index(i, next.sector, 0)
    BY <1>8, <1>9, <1>10, <2>2, NextIndex
  <2>4. next.sector \in 0 .. SectorsPerCluster - 1
    BY <1>9, <1>3, <1>10, <2>2
  <2> QED
    BY <1>2, <1>5, <2>2, <2>3, <2>4 DEF chain
<1>11. CASE ~(new.sector + 1 < SectorsPerCluster)
  <2>1. PICK c \in FAT_NextCluster(new.current) : next = [new EXCEPT !.sector = 0, !.current = c]
    BY <1>7, <1>11 DEF NextSector
  <2>2. /\ next.first = new.first /\ next.current = c /\ next.sector = 0
        /\ next.size = new.size /\ next.pos = new.pos
    BY <1>5, <2>1 DEF FileType
  <2>3. new.current \in DOMAIN g_Fat /\ new.current = chain[i]
    BY <1>2, <1>4, <1>5, ClusterMeans
  <2>4. c = g_Fat[chain[i]]
    BY <2>1, <2>3 DEF FAT_NextCluster
  <2>5. 0 \in 0 .. SectorsPerCluster - 1 /\ new.sector + 1 >= SectorsPerCluster
    BY <1>3, <1>9, <1>11
  <2>6. CASE i = Len(chain)
    BY <1>4, <1>5, <2>2, <2>4, <2>6
  <2>7. CASE i # Len(chain)
    <3>1. i \in 1 .. Len(chain) - 1 /\ i + 1 \in 1 .. Len(chain)
      BY <1>1, <2>7
    <3>2. c = chain[i + 1]
      BY <1>4, <2>4, <3>1
    <3>3. next.pos = Index(i + 1, next.sector, 0)
      BY <1>8, <1>9, <2>2, <2>5, NextIndex
    <3> QED
      BY <1>5, <2>2, <2>5, <3>1, <3>2, <3>3 DEF chain
  <2> QED
    BY <2>6, <2>7
<1> QED
  BY <1>10, <1>11

-----------------------------------------------------------------------------
(* The steps.  A file stays in its place while no one reads on in it.      *)
LEMMA Undisturbed ==
  ASSUME InPlace,
         \A h \in held' \intersect Handles : h \notin spoilt' /\ ~files'[h].isdir =>
           \/ h \in held /\ h \notin spoilt /\ files'[h] = files[h] /\ Given(h)' = Given(h)
           \/ Placed(files'[h], Given(h)')
  PROVE  InPlace'
<1> SUFFICES ASSUME NEW h \in (held \intersect Handles)', h \notin spoilt', ~files'[h].isdir
             PROVE  Placed(files'[h], Given(h)')
  BY DEF InPlace
<1>1. CASE h \in held /\ h \notin spoilt /\ files'[h] = files[h] /\ Given(h)' = Given(h)
  <2>1. Placed(files[h], Given(h))
    BY <1>1 DEF InPlace
  <2> QED
    BY <1>1, <2>1
<1> QED
  BY <1>1

LEMMA HeldNotNull ==
  ASSUME TypeOK
  PROVE  /\ held \subseteq Ids /\ NULL \notin held
         /\ got \in [Handles -> Seq(Units)]
         /\ \A s \in Seq(Units) : s \o << >> = s
<1>1. \A s \in Seq(Units) : s \o << >> = s
  BY ConcatEmptySeq
<1> QED
  BY <1>1, TypesAre, NoHandle

LEMMA ProgramPlaces ==
  ASSUME IInv, InPlace, Program
  PROVE  InPlace'
<1>1. /\ read.file = NULL /\ status = "running"
      /\ \A h \in held \intersect Handles : Given(h) = got[h]
  BY IdleMeans, HeldNotNull DEF Program, ReadFile, Close, OpenRoot, OpenFile, Given, IInv
<1>2. CASE ReadFile
  <2>1. PICK h \in held, byteCount \in Counts :
          read' = [file |-> h, left |-> Left(files[h], byteCount), out |-> << >>]
    BY <1>2 DEF ReadFile
  <2>2. UNCHANGED <<files, held, got, spoilt>>
    BY <1>2 DEF ReadFile
  <2>3. \A k \in held \intersect Handles : Given(k)' = got[k]
    BY <2>1, <2>2, HeldNotNull DEF IInv, Given
  <2> QED
    BY <1>1, <2>2, <2>3, Undisturbed
<1>3. CASE Close
  <2>1. PICK h \in held : files' = FAT_Close(h) /\ held' = held \ {h}
    BY <1>3 DEF Close
  <2>2. UNCHANGED <<read, got, spoilt>>
    BY <1>3 DEF Close
  <2>3. \A k \in Handles : k # h => files'[k] = files[k]
    BY <2>1, HeldNotNull, Closing DEF IInv
  <2>4. \A k \in held \intersect Handles : Given(k)' = Given(k)
    BY <2>2 DEF Given
  <2> QED
    BY <2>1, <2>2, <2>3, <2>4, Undisturbed
<1>4. CASE OpenRoot
  <2>1. /\ held' = held \union {ROOT_DIRECTORY_HANDLE}
        /\ UNCHANGED <<files, read, got, spoilt>>
    BY <1>4 DEF OpenRoot
  <2>2. \A k \in held' \intersect Handles : k \in held /\ Given(k)' = Given(k)
    BY <2>1, NoHandle DEF Given
  <2> QED
    BY <2>1, <2>2, Undisturbed
<1>5. CASE OpenFile
  <2>1. UNCHANGED <<files, held, got, spoilt>> /\ read'.file = ROOT_DIRECTORY_HANDLE
    BY <1>5 DEF OpenFile, FindFile
  <2>2. \A k \in held \intersect Handles : Given(k)' = got[k]
    BY <2>1, NoHandle DEF Given
  <2> QED
    BY <1>1, <2>1, <2>2, Undisturbed
<1> QED
  BY <1>2, <1>3, <1>4, <1>5 DEF Program

LEMMA ReturnPlaces ==
  ASSUME IInv, InPlace, ReadReturns
  PROVE  InPlace'
<1>1. UNCHANGED <<files, held, spoilt>> /\ read' = NoRead
  BY DEF ReadReturns
<1>2. ASSUME NEW h \in held \intersect Handles, ~files[h].isdir
      PROVE  Given(h)' = Given(h)
  <2>1. Given(h)' = got'[h]
    BY <1>1, <1>2, NoHandle, HeldNotNull DEF Given, IInv
  <2>2. got \in [Handles -> Seq(Units)]
    BY HeldNotNull DEF IInv
  <2>3. CASE read.file = h
    BY <1>2, <2>1, <2>2, <2>3 DEF ReadReturns, Given
  <2>4. CASE read.file # h
    BY <1>2, <2>1, <2>2, <2>4 DEF ReadReturns, Given
  <2> QED
    BY <2>3, <2>4
<1> QED
  BY <1>1, <1>2, Undisturbed

LEMMA SearchPlaces ==
  ASSUME IInv, InPlace, NotThisEntry \/ NotFound
  PROVE  InPlace'
<1>1. /\ open.current \in Handles => open.current \notin held
      /\ read.file = open.current /\ open.current \in Ids /\ TypeOK
  BY EnteringMeans DEF NotThisEntry, NotFound
<1>2. UNCHANGED <<held, got, spoilt>>
  BY DEF NotThisEntry, NotFound
<1>3. read'.file = open.current \/ read'.file = NULL
  BY NoHandle DEF NotThisEntry, NotFound, FindFile
<1>4. \A k \in held \intersect Handles : files'[k] = files[k]
  <2>1. CASE NotThisEntry
    BY <2>1 DEF NotThisEntry
  <2>2. CASE NotFound
    BY <1>1, <2>2, Closing DEF NotFound
  <2> QED
    BY <2>1, <2>2
<1>5. \A k \in held \intersect Handles : Given(k)' = Given(k)
  BY <1>1, <1>2, <1>3, HeldNotNull DEF Given
<1> QED
  BY <1>2, <1>4, <1>5, Undisturbed

\* A file that was just opened is at its start.
\* What is read when the handle of an entry is taken is the start of its chain.
LEMMA FirstSector ==
  ASSUME NEW entry \in Units, Chains(entry.first) # {},
         NEW buffer, buffer = Sectors[FAT_ClusterToLba(entry.first) % Addressable]
  PROVE  LET chain == Chain(entry.first)
         IN  /\ 1 \in 1 .. Len(chain) /\ chain[1] = entry.first /\ Index(1, 0, 0) = 0
             /\ 0 \in 0 .. SECTOR_SIZE - 1 /\ InBuffer(buffer, entry.first, 1, 0)
<1> DEFINE first == entry.first
<1>1. first \in Nat
  BY EntriesAssumption
<1>2. Chains(first) # {}
  OBVIOUS
<1> HIDE DEF first
<1>3. /\ Len(Chain(first)) \in Nat /\ Len(Chain(first)) > 0
      /\ Chain(first)[1] = first /\ first \in Clusters
  BY <1>2, ChainMeans
<1>4. 1 \in 1 .. Len(Chain(first)) /\ 0 \in 0 .. SECTOR_SIZE - 1
      /\ 0 \in 0 .. SectorsPerCluster - 1
  BY <1>3, Sizes
<1>5. Index(1, 0, 0) = 0
  <2>1. /\ (1 - 1) * SectorsPerCluster = 0 /\ 0 * SECTOR_SIZE = 0
    BY Sizes
  <2>2. Index(1, 0, 0) = ((1 - 1) * SectorsPerCluster + 0) * SECTOR_SIZE + 0
    BY DEF Index
  <2> QED
    BY <2>1, <2>2
<1>6. /\ FAT_ClusterToLba(first) + 0 = FAT_ClusterToLba(first)
      /\ (FAT_ClusterToLba(first) + 0) % Addressable = FAT_ClusterToLba(first) + 0
  <2>1. (FAT_ClusterToLba(first) + 0) % Addressable = FAT_ClusterToLba(first) + 0
    BY <1>3, <1>4, ClusterMeans
  <2>2. FAT_ClusterToLba(first) \in Int
    BY <1>1, Sizes, DiskAssumption DEF FAT_ClusterToLba
  <2> QED
    BY <2>1, <2>2
<1>7. InBuffer(buffer, first, 1, 0)
  BY <1>3, <1>6 DEF InBuffer, first
<1> QED
  BY <1>3, <1>4, <1>5, <1>7 DEF first

LEMMA StartPlaced ==
  ASSUME Chained, NEW entry \in Units, entry.name \in Searched, ~entry.dir,
         NEW buffer, buffer = Sectors[FAT_ClusterToLba(entry.first) % Addressable]
  PROVE  Placed(FAT_OpenEntry(entry, buffer), << >>)
<1> DEFINE fd == FAT_OpenEntry(entry, buffer)
<1>1. /\ fd.pos = 0 /\ fd.size = entry.size /\ fd.first = entry.first
      /\ fd.current = entry.first /\ fd.sector = 0 /\ fd.buffer = buffer
  BY DEF FAT_OpenEntry, FileData
<1>2. entry.size \in Nat /\ entry.first \in Nat
  BY EntriesAssumption
<1>3. entry.size > 0 => Chains(entry.first) # {}
  BY DEF Chained
<1> HIDE DEF fd
<1>4. StartOf(<< >>, fd.first, fd.pos)
  <2>1. << >> \in Seq(Units) /\ Len(<< >>) = 0
    BY HeadAndTail
  <2> QED
    BY <1>1, <2>1 DEF StartOf
<1>5. ASSUME fd.pos < fd.size
      PROVE  At(fd)
  <2>1. Chains(entry.first) # {}
    BY <1>1, <1>3, <1>5
  <2>2. /\ 1 \in 1 .. Len(Chain(entry.first)) /\ Chain(entry.first)[1] = entry.first
        /\ Index(1, 0, 0) = 0 /\ 0 \in 0 .. SECTOR_SIZE - 1
        /\ InBuffer(buffer, entry.first, 1, 0)
    BY <2>1, FirstSector
  <2> QED
    BY <1>1, <2>2 DEF At
<1> QED
  BY <1>1, <1>3, <1>4, <1>5 DEF Placed, fd

LEMMA FoundPlaces ==
  ASSUME Chained, IInv, Named, InPlace, Found
  PROVE  InPlace'
<1> DEFINE closed == FAT_Close(open.current)
           entry == read.out[1]
           lba == FAT_ClusterToLba(entry.first)
           free == {h \in Handles : ~closed[h].opened}
           fd == FAT_OpenEntry(entry, Sectors[lba % Addressable])
<1>1. /\ TypeOK /\ open.current \in Ids /\ read.file = open.current
      /\ open.current \in Handles => open.current \notin held
      /\ \A h \in Handles : files[h].opened <=> h \in held \/ open.current = h
      /\ read.out \in Seq(Units) /\ got \in [Handles -> Seq(Units)]
      /\ NULL \notin held /\ NULL \notin Ids
  BY EnteringMeans, HeldNotNull, NoHandle DEF Found
<1>2. /\ Entering /\ read.out # << >> /\ entry.name = open.name
      /\ \/ /\ free = {} /\ files' = closed
            /\ Proceed(NULL, Closed) /\ UNCHANGED <<failures, got, spoilt>>
         \/ /\ free # {} /\ DISK_ReadSectors(lba, FALSE)
            /\ files' = closed
            /\ Proceed(NULL, Closed) /\ UNCHANGED <<got, spoilt>>
         \/ /\ free # {} /\ DISK_ReadSectors(lba, TRUE)
            /\ files' = [closed EXCEPT ![Min(free)] = fd]
            /\ Proceed(Min(free), fd)
            /\ got' = [got EXCEPT ![Min(free)] = << >>]
            /\ spoilt' = spoilt \ {Min(free)}
  BY DEF Found
<1>3. entry \in Units /\ entry.name \in Searched
  <2>1. entry \in Units
    BY <1>1, <1>2, HeadAndTail
  <2> QED
    BY <1>2, <2>1, EntriesAssumption DEF Named
<1>4. /\ closed \in [Ids -> FileType]
      /\ \A k \in Handles : closed[k].opened <=> k \in held
      /\ \A k \in held \intersect Handles : closed[k] = files[k]
  BY <1>1, Closing
<1>5. \A k \in held \intersect Handles : Given(k) = got[k]
  BY <1>1 DEF Given
<1>6. free \in SUBSET Handles
  OBVIOUS
<1>7. ASSUME NEW h \in Handles \union {NULL}, NEW new, Proceed(h, new)
      PROVE  held' \subseteq held \union {h} /\ (read'.file = h \/ read' = NoRead)
             /\ (read'.file \in held => read'.file = h) /\ (h \in held' => read' = NoRead \/ h \in held)
             /\ (read'.file = h => read'.out = << >> \/ read' = NoRead)
  BY <1>1, <1>7, NoHandle DEF Proceed, FindFile
<1> HIDE DEF closed, entry, lba
<1>8. CASE files' = closed /\ Proceed(NULL, Closed) /\ UNCHANGED <<got, spoilt>>
  <2>1. /\ held' \subseteq held \union {NULL}
        /\ read'.file = NULL \/ read' = NoRead
    BY <1>7, <1>8
  <2>2. \A k \in held' \intersect Handles : k \in held /\ k # read'.file
    BY <1>1, <2>1, NoHandle DEF Ids
  <2>3. \A k \in held' \intersect Handles : Given(k)' = got[k]
    BY <1>8, <2>2 DEF Given
  <2> QED
    BY <1>4, <1>5, <1>8, <2>2, <2>3, Undisturbed
<1>9. CASE /\ free # {} /\ DISK_ReadSectors(lba, TRUE)
           /\ files' = [closed EXCEPT ![Min(free)] = fd]
           /\ Proceed(Min(free), fd)
           /\ got' = [got EXCEPT ![Min(free)] = << >>]
           /\ spoilt' = spoilt \ {Min(free)}
  <2> DEFINE h == Min(free)
  <2>1. h \in free /\ h \in Handles /\ h \in Ids /\ h # NULL
    BY <1>6, <1>9, FirstFree, NoHandle DEF Ids
  <2>2. h \notin held
    BY <1>4, <2>1
  <2> HIDE DEF free, fd
  <2>3. /\ Proceed(h, fd) /\ files' = [closed EXCEPT ![h] = fd]
        /\ got' = [got EXCEPT ![h] = << >>] /\ spoilt' = spoilt \ {h}
    BY <1>9
  <2> HIDE DEF h
  <2>4. /\ held' \subseteq held \union {h} /\ (read'.file = h \/ read' = NoRead)
        /\ h \in held' => read' = NoRead
    BY <1>7, <2>1, <2>2, <2>3
  <2>5. /\ files'[h] = fd /\ got'[h] = << >>
        /\ \A k \in held \intersect Handles : files'[k] = closed[k] /\ got'[k] = got[k]
    BY <1>1, <1>4, <2>1, <2>2, <2>3 DEF Ids
  <2>6. ASSUME NEW k \in held' \intersect Handles, k \notin spoilt', ~files'[k].isdir
        PROVE  \/ k \in held /\ k \notin spoilt /\ files'[k] = files[k] /\ Given(k)' = Given(k)
               \/ Placed(files'[k], Given(k)')
    <3>1. CASE k = h
      <4>1. Given(k)' = << >>
        BY <2>1, <2>4, <2>5, <2>6, <3>1, NoHandle DEF Given
      <4>2. ~entry.dir
        BY <2>5, <2>6, <3>1 DEF fd, FAT_OpenEntry, FileData
      <4>3. Placed(fd, << >>)
        BY <1>3, <4>2, StartPlaced DEF fd, lba
      <4> QED
        BY <2>5, <3>1, <4>1, <4>3
    <3>2. CASE k # h
      <4>1. k \in held \intersect Handles /\ k \notin spoilt
        BY <2>3, <2>4, <2>6, <3>2
      <4>2. k # read'.file
        BY <1>1, <2>4, <3>2, <4>1, NoHandle
      <4>3. Given(k)' = got[k]
        BY <2>5, <4>1, <4>2 DEF Given
      <4> QED
        BY <1>4, <1>5, <2>5, <4>1, <4>3
    <3> QED
      BY <3>1, <3>2
  <2> QED
    BY <2>6, Undisturbed
<1> QED
  BY <1>2, <1>8, <1>9

LEMMA PathNames ==
  /\ Paths \subseteq Seq(Searched)
  /\ \A name \in Searched : Spellings(name) \subseteq Searched \union {Garbled}
<1>1. ASSUME NEW path \in Paths
      PROVE  path \in Seq(Searched)
  <2>1. path \in Seq(Names)
    BY EntriesAssumption
  <2>2. Range(path) \subseteq Searched
    BY DEF Searched
  <2>3. \A i \in 1 .. Len(path) : path[i] \in Searched
    BY <2>1, <2>2 DEF Range
  <2> QED
    BY <2>1, <2>3
<1>2. ASSUME NEW name \in Searched
      PROVE  Spellings(name) \subseteq Searched \union {Garbled}
  BY DEF Spellings
<1> QED
  BY <1>1, <1>2

LEMMA NamesKept ==
  ASSUME IInv, Named, Next
  PROVE  Named'
<1>1. NoOpen.path \in Seq(Searched) /\ NoOpen.name \in Searched \union {Garbled}
  BY HeadAndTail DEF NoOpen
<1>2. CASE open' = open \/ open' = NoOpen
  BY <1>1, <1>2 DEF Named
<1>3. ASSUME NEW path \in Seq(Searched), path # << >>, NEW name \in Spellings(path[1]),
             NEW h, NEW fd, FindFile(path, h, fd, name)
      PROVE  Named'
  <2>1. path[1] \in Searched
    BY <1>3, HeadAndTail
  <2> QED
    BY <1>3, <2>1, PathNames DEF FindFile, Named
<1>4. CASE OpenFile
  <2>1. PICK path \in Paths \ {<< >>} : \E name \in Spellings(path[1]) :
          FindFile(path, ROOT_DIRECTORY_HANDLE, files[ROOT_DIRECTORY_HANDLE], name)
    BY <1>4 DEF OpenFile
  <2> QED
    BY <1>3, <2>1, PathNames
<1>5. CASE NotThisEntry
  BY <1>5 DEF NotThisEntry, FindFile, Named
<1>6. CASE Found
  <2>1. open.path \in Seq(Searched) /\ open.path # << >>
    BY <1>6, EnteringMeans DEF Found, Named
  <2>2. ASSUME NEW h, NEW fd, Proceed(h, fd)
        PROVE  Named'
    <3>1. CASE open' = NoOpen
      BY <1>2, <3>1
    <3>2. CASE open' # NoOpen
      <4>1. Len(open.path) # 1 /\ \E name \in Spellings(open.path[2]) :
              FindFile(Tail(open.path), h, fd, name)
        BY <2>2, <3>2 DEF Proceed
      <4>2. /\ Tail(open.path) \in Seq(Searched) /\ Tail(open.path) # << >>
            /\ open.path[2] = Tail(open.path)[1]
        BY <2>1, <4>1, HeadAndTail
      <4> QED
        BY <1>3, <4>1, <4>2
    <3> QED
      BY <3>1, <3>2
  <2>3. \E h, fd : Proceed(h, fd)
    BY <1>6 DEF Found
  <2> QED
    BY <2>2, <2>3
<1>7. CASE FAT_Initialize \/ Reading \/ ReadReturns \/ NotFound \/ ReadFile \/ Close \/ OpenRoot
  BY <1>2, <1>7
     DEF FAT_Initialize, Reading, ReadReturns, NotFound, ReadFile, Close, OpenRoot
<1> QED
  BY <1>4, <1>5, <1>6, <1>7 DEF Next, Library, Program

LEMMA Associative ==
  \A s \in Seq(Units), t \in Seq(Units), u \in Seq(Units) : (s \o t) \o u = s \o (t \o u)
BY ConcatAssociative

LEMMA Concatenated ==
  \A s \in Seq(Units), t \in Seq(Units) :
    /\ Len(s \o t) = Len(s) + Len(t) /\ Len(s) \in Nat /\ Len(t) \in Nat
    /\ \A k \in 1 .. Len(s) : (s \o t)[k] = s[k]
BY ConcatProperties

\* One turn of the loop: the file that is read moves on, the others stay.
LEMMA TurnPlaces ==
  ASSUME IInv, InPlace, NEW fd, NEW left, NEW take \in Nat, Turn(fd, left, take),
         read.file # NULL, UNCHANGED <<held, got>>, spoilt \subseteq spoilt',
         fd.isdir = files[read.file].isdir,
         (files[read.file].pos % SECTOR_SIZE) + take <= SECTOR_SIZE,
         read.file \in Handles /\ read.file \notin spoilt' /\ ~fd.isdir =>
           \A given : Placed(files[read.file], given)
                        => Placed(fd, After(files[read.file], given, take))
  PROVE  InPlace'
<1> DEFINE h == read.file
           old == files[h]
           from == old.pos % SECTOR_SIZE
           piece == SubSeq(old.buffer, from + 1, from + take)
<1>1. /\ read \in [file : Ids \union {NULL}, left : Nat, out : Seq(Units)]
      /\ files \in [Ids -> FileType] /\ h \in Ids /\ Handles \subseteq Ids
      /\ got \in [Handles -> Seq(Units)]
  BY TypesAre DEF IInv, Ids
<1>2. /\ files' = [files EXCEPT ![h] = fd]
      /\ read'.file = h /\ read'.out = read.out \o piece
  BY <1>1 DEF Turn
<1>3. \A k \in held \intersect Handles : k # h =>
        files'[k] = files[k] /\ Given(k)' = Given(k)
  BY <1>1, <1>2 DEF Given
<1>4. ASSUME NEW k \in held \intersect Handles, k = h, k \notin spoilt', ~files'[k].isdir
      PROVE  Placed(files'[k], Given(k)')
  <2>1. files'[k] = fd /\ k \notin spoilt /\ k \in Handles /\ ~old.isdir /\ ~files[k].isdir
    BY <1>1, <1>2, <1>4
  <2>2. Placed(old, Given(k)) /\ Given(k) = got[k] \o read.out
    <3>1. Placed(files[k], Given(k))
      <4>1. \A j \in held \intersect Handles :
              j \notin spoilt /\ ~files[j].isdir => Placed(files[j], Given(j))
        BY DEF InPlace
      <4> QED
        BY <2>1, <4>1
    <3>2. Given(k) = got[k] \o read.out
      BY <1>4 DEF Given
    <3> QED
      BY <1>4, <3>1, <3>2
  <2>3. Given(k)' = got[k] \o (read.out \o piece)
    <3>1. Given(k)' = got'[k] \o read'.out /\ got' = got
      BY <1>2, <1>4 DEF Given
    <3> HIDE DEF piece
    <3> QED
      BY <1>2, <3>1
  <2>4. old \in FileType /\ got[k] \in Seq(Units) /\ read.out \in Seq(Units)
    BY <1>1, <1>4
  <2>5. piece \in Seq(Units)
    <3>1. old.buffer \in Buffer /\ from \in Nat /\ << >> \in Seq(Units)
      BY <2>4, Fields, HeadAndTail
    <3>2. SubSeq(old.buffer, from + 1, from + take) \in Seq(Units)
      <4>1. SECTOR_SIZE \in Nat /\ old.buffer \in Seq(Units) /\ Len(old.buffer) = SECTOR_SIZE
        BY <3>1, Sizes, BufferSeq
      <4> HIDE DEF from, old
      <4>2. \A j \in from + 1 .. from + take : old.buffer[j] \in Units
        BY <3>1, <4>1, ElementOfSeq DEF from, old
      <4>3. from + 1 \in Int /\ from + take \in Int
        BY <3>1
      <4> QED
        BY <4>2, <4>3, SubSeqProperties
    <3> QED
      BY <3>2
  <2> HIDE DEF piece
  <2>6. Given(k)' = (got[k] \o read.out) \o piece
    <3>1. (got[k] \o read.out) \o piece = got[k] \o (read.out \o piece)
      BY <2>4, <2>5, Associative
    <3> QED
      BY <2>3, <3>1
  <2>7. Given(k)' = After(old, Given(k), take)
    BY <2>2, <2>6 DEF After, With, piece
  <2>8. Placed(fd, After(old, Given(k), take))
    BY <1>4, <2>1, <2>2
  <2> QED
    BY <2>1, <2>7, <2>8
<1> HIDE DEF h
<1>5. ASSUME NEW k \in held' \intersect Handles, k \notin spoilt', ~files'[k].isdir
      PROVE  \/ k \in held /\ k \notin spoilt /\ files'[k] = files[k] /\ Given(k)' = Given(k)
             \/ Placed(files'[k], Given(k)')
  <2>1. k \in held \intersect Handles /\ k \notin spoilt
    BY <1>5
  <2>2. CASE k = h
    BY <1>4, <1>5, <2>1, <2>2
  <2>3. CASE k # h
    BY <1>3, <2>1, <2>3
  <2> QED
    BY <2>2, <2>3
<1> QED
  BY <1>5, Undisturbed

LEMMA ReadingPlaces ==
  ASSUME IInv, InPlace, Reading
  PROVE  InPlace'
<1> DEFINE old == files[read.file]
           take == Take(old, read.left)
           fd == Advanced(old, take)
<1>1. /\ read.left > 0 /\ read.left \in Nat /\ read.file # NULL /\ read.file \in Ids
      /\ old \in FileType /\ Asked(old, read.left)
      /\ UNCHANGED <<held, got>>
  BY NoHandle, TypesAre DEF IInv, Walking, Reading, WithinSector, EndOfSector
<1>2. /\ take \in Nat /\ take > 0 /\ take <= read.left
      /\ (old.pos % SECTOR_SIZE) + take <= SECTOR_SIZE
      /\ fd \in FileType /\ fd.isdir = old.isdir
  BY <1>1, Turns
<1>3. ~old.isdir => old.pos < old.size
  <2>1. old.pos \in Nat /\ old.size \in Nat
    BY <1>1, Fields
  <2> QED
    BY <1>1, <2>1 DEF Asked
<1> HIDE DEF take, fd, old
<1>4. CASE WithinSector
  <2>1. /\ Turn(fd, read.left - take, take) /\ UNCHANGED <<failures, spoilt>>
        /\ ~Drained(old, take)
    BY <1>4 DEF WithinSector, fd, take, old
  <2>2. ~fd.isdir => \A given : Placed(old, given) => Placed(fd, After(old, given, take))
    BY <1>1, <1>2, <1>3, <2>1, WithinPlaced DEF fd
  <2> QED
    BY <1>1, <1>2, <2>1, <2>2, TurnPlaces DEF old
<1>5. CASE EndOfSector /\ read.file = ROOT_DIRECTORY_HANDLE
  <2> DEFINE next == NextRootSector(fd)
  <2>1. Refill(next, next.current, take)
    BY <1>5 DEF EndOfSector, fd, take, old
  <2>2. next \in FileType /\ next.isdir = fd.isdir
    BY <1>2, RootTypes
  <2> HIDE DEF next
  <2>3. PICK ok \in BOOLEAN :
          /\ DISK_ReadSectors(next.current, ok)
          /\ Turn(Read(next, next.current, ok), IF ok THEN read.left - take ELSE 0, take)
          /\ spoilt' = IF ok THEN spoilt ELSE spoilt \union {read.file}
    BY <2>1 DEF Refill
  <2>4. Read(next, next.current, ok).isdir = old.isdir /\ spoilt \subseteq spoilt'
    BY <1>2, <2>2, <2>3, ReadTypes DEF IInv
  <2>5. read.file \notin Handles
    BY <1>5, NoHandle
  <2> QED
    BY <1>1, <1>2, <2>3, <2>4, <2>5, TurnPlaces DEF old
<1>6. CASE EndOfSector /\ read.file # ROOT_DIRECTORY_HANDLE
  <2>1. /\ Drained(old, take)
        /\ \E next \in NextSector(fd) :
             IF next.current >= ENDS
             THEN /\ Turn([next EXCEPT !.size = IF old.isdir THEN 0 ELSE next.pos], 0, take)
                  /\ UNCHANGED <<failures, spoilt>>
             ELSE Refill(next, FAT_ClusterToLba(next.current) + next.sector, take)
    BY <1>6 DEF EndOfSector, fd, take, old
  <2>2. PICK next \in NextSector(fd) :
             IF next.current >= ENDS
             THEN /\ Turn([next EXCEPT !.size = IF old.isdir THEN 0 ELSE next.pos], 0, take)
                  /\ UNCHANGED <<failures, spoilt>>
             ELSE Refill(next, FAT_ClusterToLba(next.current) + next.sector, take)
    BY <2>1
  <2>3. next \in FileType /\ next.isdir = old.isdir /\ next.pos \in Nat
    BY <1>2, NextTypes, Fields
  <2>4. ASSUME ~old.isdir, NEW given, Placed(old, given)
        PROVE  /\ Chains(old.first) # {}
               /\ StartOf(After(old, given, take), old.first, old.pos + take)
               /\ next.first = old.first /\ next.pos = old.pos + take
               /\ \/ next.current >= ENDS
                  \/ \E i \in 1 .. Len(Chain(old.first)) :
                       /\ next.current = Chain(old.first)[i]
                       /\ next.pos = Index(i, next.sector, 0)
                       /\ next.sector \in 0 .. SectorsPerCluster - 1
    <3>1. next \in NextSector(Advanced(old, take))
      BY DEF fd
    <3>2. /\ Chains(old.first) # {}
          /\ StartOf(After(old, given, take), old.first, old.pos + take)
      BY <1>1, <1>2, <1>3, <2>4, TurnOfText
    <3>3. /\ next.first = old.first /\ next.pos = old.pos + take
          /\ \/ next.current >= ENDS
             \/ \E i \in 1 .. Len(Chain(old.first)) :
                  /\ next.current = Chain(old.first)[i]
                  /\ next.pos = Index(i, next.sector, 0)
                  /\ next.sector \in 0 .. SectorsPerCluster - 1
      BY <1>1, <1>2, <1>3, <2>1, <2>4, <3>1, NextPlaced
    <3> QED
      BY <3>2, <3>3
  <2>5. CASE next.current >= ENDS
    <3> DEFINE last == [next EXCEPT !.size = IF old.isdir THEN 0 ELSE next.pos]
    <3>1. Turn(last, 0, take) /\ UNCHANGED <<failures, spoilt>>
      BY <2>2, <2>5
    <3>2. /\ last.isdir = old.isdir /\ last.first = next.first /\ last.pos = next.pos
          /\ ~old.isdir => last.size = next.pos
      BY <2>3 DEF FileType
    <3> HIDE DEF last
    <3>3. ASSUME ~old.isdir, NEW given, Placed(old, given)
          PROVE  Placed(last, After(old, given, take))
      <4>1. ~(last.pos < last.size)
        BY <2>3, <3>2, <3>3
      <4> QED
        BY <2>4, <3>2, <3>3, <4>1 DEF Placed
    <3> QED
      BY <1>1, <1>2, <3>1, <3>2, <3>3, TurnPlaces DEF old
  <2>6. CASE ~(next.current >= ENDS)
    <3> DEFINE lba == FAT_ClusterToLba(next.current) + next.sector
    <3>1. PICK ok \in BOOLEAN :
            /\ DISK_ReadSectors(lba, ok)
            /\ Turn(Read(next, lba, ok), IF ok THEN read.left - take ELSE 0, take)
            /\ spoilt' = IF ok THEN spoilt ELSE spoilt \union {read.file}
      BY <2>2, <2>6 DEF Refill
    <3> DEFINE filled == Read(next, lba, ok)
    <3>2. filled.isdir = old.isdir /\ spoilt \subseteq spoilt'
      BY <2>3, <3>1, ReadTypes DEF IInv
    <3>3. ASSUME read.file \notin spoilt', ~old.isdir, NEW given, Placed(old, given)
          PROVE  Placed(filled, After(old, given, take))
      <4>1. ok
        BY <3>1, <3>3
      <4>2. /\ filled.first = next.first /\ filled.pos = next.pos /\ filled.size = next.size
            /\ filled.current = next.current /\ filled.sector = next.sector
            /\ filled.buffer = Sectors[lba % Addressable]
        BY <2>3, <4>1 DEF Read, FileType
      <4>3. PICK i \in 1 .. Len(Chain(old.first)) :
              /\ next.current = Chain(old.first)[i] /\ next.pos = Index(i, next.sector, 0)
              /\ next.sector \in 0 .. SectorsPerCluster - 1
        BY <2>4, <2>6, <3>3
      <4>4. Chain(old.first)[i] \in Clusters /\ Chains(old.first) # {}
        BY <2>4, <3>3, ChainMeans
      <4>5. lba % Addressable = lba
        BY <4>3, <4>4, ClusterMeans
      <4>6. /\ next.first = old.first /\ next.pos = old.pos + take
            /\ StartOf(After(old, given, take), old.first, old.pos + take)
        BY <2>4, <3>3
      <4>7. 0 \in 0 .. SECTOR_SIZE - 1
        BY Sizes
      <4>8. InBuffer(filled.buffer, filled.first, i, filled.sector)
        BY <4>2, <4>3, <4>5, <4>6 DEF InBuffer
      <4> HIDE DEF filled
      <4>9. At(filled)
        BY <4>2, <4>3, <4>6, <4>7, <4>8 DEF At
      <4> QED
        BY <4>2, <4>4, <4>6, <4>9 DEF Placed
    <3> HIDE DEF filled
    <3> QED
      BY <1>1, <1>2, <3>1, <3>2, <3>3, TurnPlaces DEF old, filled
  <2> QED
    BY <2>5, <2>6
<1> QED
  BY <1>4, <1>5, <1>6 DEF Reading

LEMMA PlacesKept ==
  ASSUME Chained, IInv, Named, InPlace, [Next]_vars
  PROVE  InPlace'
<1>1. CASE FAT_Initialize
  <2>1. held = {} /\ held' = held
    BY <1>1 DEF FAT_Initialize, IInv, Walking
  <2> QED
    BY <2>1, Undisturbed
<1>2. CASE Program
  BY <1>2, ProgramPlaces
<1>3. CASE Library
  BY <1>3, ReadingPlaces, ReturnPlaces, SearchPlaces, FoundPlaces DEF Library
<1>4. CASE UNCHANGED vars
  <2>1. UNCHANGED <<files, read, held, got, spoilt>>
    BY <1>4 DEF vars
  <2>2. \A h \in held \intersect Handles : Given(h)' = Given(h)
    BY <2>1 DEF Given
  <2> QED
    BY <2>1, <2>2, Undisturbed
<1> QED
  BY <1>1, <1>2, <1>3, <1>4 DEF Next

LEMMA PlacedReads ==
  ASSUME IInv, InPlace
  PROVE  ReadsInOrder
<1> SUFFICES ASSUME NEW h \in (held \ spoilt) \ {ROOT_DIRECTORY_HANDLE}, ~files[h].isdir
             PROVE  /\ read.file # h => Len(got[h]) = files[h].pos
                    /\ got[h] = SubSeq(Content[files[h].first], 1, Len(got[h]))
  BY DEF ReadsInOrder
<1> DEFINE first == files[h].first
           given == Given(h)
<1>1. /\ h \in Handles /\ h \in Ids /\ files[h] \in FileType /\ got[h] \in Seq(Units)
      /\ read.out \in Seq(Units) /\ files[h].pos <= files[h].size
  BY TypesAre DEF IInv, Ids
<1>2. files[h].pos \in Nat /\ files[h].size \in Nat
  BY <1>1, Fields
<1>3. Placed(files[h], given)
  BY <1>1 DEF InPlace
<1>4. /\ given \in Seq(Units) /\ Len(given) = files[h].pos
      /\ \A k \in 1 .. Len(given) : k <= Length(first) /\ given[k] = Content[first][k]
  BY <1>3 DEF Placed, StartOf
<1>5. /\ Len(got[h]) <= Len(given) /\ Len(got[h]) \in Nat
      /\ \A k \in 1 .. Len(got[h]) : given[k] = got[h][k]
      /\ read.file # h => given = got[h]
  <2>1. CASE read.file = h
    <3>1. given = got[h] \o read.out
      BY <2>1 DEF Given
    <3>2. given = got[h] \o read.out /\ got[h] \in Seq(Units) /\ read.out \in Seq(Units)
      BY <1>1, <3>1
    <3> HIDE DEF given
    <3> DEFINE g == got[h]
               o == read.out
    <3>3. /\ Len(g \o o) = Len(g) + Len(o) /\ Len(g) \in Nat /\ Len(o) \in Nat
          /\ \A k \in 1 .. Len(g) : (g \o o)[k] = g[k]
      BY <3>2, Concatenated
    <3>4. Len(given) = Len(g) + Len(o) /\ \A k \in 1 .. Len(g) : given[k] = g[k]
      BY <3>2, <3>3
    <3>5. Len(g) <= Len(g) + Len(o)
      <4>1. Len(g) \in Nat /\ Len(o) \in Nat
        BY <3>3
      <4>2. \A i \in Nat, j \in Nat : i <= i + j
        OBVIOUS
      <4> HIDE DEF g, o
      <4> QED
        BY <4>1, <4>2
    <3> QED
      BY <2>1, <3>3, <3>4, <3>5
  <2>2. CASE read.file # h
    <3>1. given = got[h] /\ Len(got[h]) \in Nat
      BY <1>1, <2>2 DEF Given
    <3> QED
      BY <3>1
  <2> QED
    BY <2>1, <2>2
<1> HIDE DEF given
<1>6. CASE Len(got[h]) = 0
  <2>1. got[h] = << >>
    BY <1>1, <1>6
  <2>2. SubSeq(Content[first], 1, 0) = << >>
    BY SubSeqEmpty
  <2> QED
    BY <1>4, <1>5, <1>6, <2>1, <2>2
<1>7. CASE Len(got[h]) # 0
  <2>1. files[h].size > 0
    BY <1>1, <1>2, <1>4, <1>5, <1>7
  <2>2. Chains(first) # {}
    BY <1>3, <2>1 DEF Placed
  <2>3. Content[first] \in Seq(Units) /\ Len(Content[first]) = Length(first) /\ Length(first) \in Nat
    BY <2>2, ContentMeans
  <2> DEFINE n == Len(got[h])
             start == SubSeq(Content[first], 1, n)
  <2> HIDE DEF first
  <2>4. \A k \in 1 .. n : k <= Length(first) /\ got[h][k] = Content[first][k]
    BY <1>4, <1>5
  <2>5. n \in Nat /\ \A k \in 1 .. n : Content[first][k] \in Units
    BY <1>5, <2>3, <2>4, ElementOfSeq
  <2>6. /\ start \in Seq(Units) /\ Len(start) = IF 1 <= n THEN n - 1 + 1 ELSE 0
        /\ \A k \in 1 .. n - 1 + 1 : start[k] = Content[first][1 + k - 1]
    BY <2>5, SubSeqProperties
  <2> HIDE DEF start, n
  <2>7. n # 0 /\ 1 <= n /\ n - 1 + 1 = n /\ \A k \in 1 .. n : 1 + k - 1 = k
    BY <1>7, <2>5 DEF n
  <2>8. Len(start) = n /\ \A k \in 1 .. n : start[k] = Content[first][k]
    BY <2>6, <2>7
  <2>9. got[h] = start
    <3>1. Len(got[h]) = n
      BY DEF n
    <3> QED
      BY <1>1, <2>4, <2>6, <2>8, <3>1, SeqEqual
  <2> QED
    BY <1>4, <1>5, <2>9 DEF first, start, n
<1> QED
  BY <1>6, <1>7

(* On every volume whose files have chains, whatever the sizes, the order  *)
(* of the reads and the reads that fail: what FAT_Read gave of a file is   *)
(* the start of its text, and its position is how much was given.          *)
THEOREM ReadsFollowTheChain ==
  ASSUME Chained
  PROVE  Spec => []ReadsInOrder
<1>1. Init => Named /\ InPlace
  BY HeadAndTail DEF Init, NoOpen, Named, InPlace
<1>2. IInv /\ Named /\ InPlace /\ [Next]_vars => (Named /\ InPlace)'
  <2> SUFFICES ASSUME IInv, Named, InPlace, [Next]_vars PROVE Named' /\ InPlace'
    OBVIOUS
  <2>1. Named'
    <3>1. CASE UNCHANGED vars
      BY <3>1 DEF vars, Named
    <3> QED
      BY <3>1, NamesKept
  <2> QED
    BY <2>1, PlacesKept
<1>3. IInv /\ InPlace => ReadsInOrder
  BY PlacedReads
<1> QED
  BY <1>1, <1>2, <1>3, Inductive, PTL DEF Spec

-----------------------------------------------------------------------------
(***************************************************************************)
(* FAT_Open returns what the path names.  The search of a directory is     *)
(* followed unit by unit, and the path component by component.             *)
(***************************************************************************)
LEMMA Counting ==
  \A S : 0 \in S /\ (\A n \in Nat : n \in S => n + 1 \in S) => Nat \subseteq S
<1> SUFFICES ASSUME NEW S, 0 \in S, \A n \in Nat : n \in S => n + 1 \in S,
                    NEW m \in Nat, m \notin S
             PROVE  FALSE
  OBVIOUS
<1> DEFINE T == {n \in Nat : n \notin S}
           x == Min(T)
<1>1. T \in SUBSET Nat /\ T # {}
  OBVIOUS
<1> HIDE DEF T
<1>2. x \in T /\ \A y \in T : x <= y
  BY <1>1, Least
<1> HIDE DEF x
<1>3. x \in Nat /\ x \notin S
  BY <1>2 DEF T
<1>4. x # 0 /\ x - 1 \in Nat /\ x - 1 + 1 = x
  BY <1>3
<1>5. x - 1 \notin S
  BY <1>3, <1>4
<1>6. x - 1 \in T
  BY <1>4, <1>5 DEF T
<1> QED
  BY <1>2, <1>3, <1>6

\* The first unit of a name.
Names_in(units, name) == {i \in 1 .. Len(units) : units[i].name = name}
Place(units, name) == Min(Names_in(units, name))

LEMMA InMeans ==
  ASSUME NEW units \in Seq(Units), NEW name
  PROVE  /\ In(units, name) = Missing => \A i \in 1 .. Len(units) : units[i].name # name
         /\ In(units, name) # Missing =>
              /\ Place(units, name) \in 1 .. Len(units)
              /\ In(units, name) = units[Place(units, name)]
              /\ In(units, name) \in Units /\ In(units, name).name = name
              /\ \A i \in 1 .. Place(units, name) - 1 : units[i].name # name
<1> DEFINE S == Names_in(units, name)
           p == Place(units, name)
<1>1. In(units, name) = LET i == IF S # {} THEN p ELSE 0
                        IN  IF i = 0 THEN Missing ELSE units[i]
  BY DEF In, SelectInSeq, Names_in, Place
<1>2. S \in SUBSET Nat /\ Len(units) \in Nat
  BY DEF Names_in
<1>3. CASE S = {}
  BY <1>1, <1>3 DEF Names_in
<1>4. CASE S # {}
  <2>1. p \in S /\ \A y \in S : p <= y
    BY <1>2, <1>4, Least DEF Place
  <2> HIDE DEF p
  <2>2. p \in 1 .. Len(units) /\ units[p].name = name
    BY <2>1 DEF Names_in
  <2>3. p \in Nat /\ p # 0
    BY <1>2, <2>2
  <2>4. In(units, name) = units[p]
    BY <1>1, <1>4, <2>3
  <2>5. units[p] \in Units
    BY <2>2, ElementOfSeq
  <2>6. units[p] # Missing
    BY <2>5, EntriesAssumption DEF Missing
  <2>7. ASSUME NEW i \in 1 .. p - 1
        PROVE  units[i].name # name
    <3>1. i \in 1 .. Len(units) /\ ~(p <= i)
      BY <1>2, <2>2, <2>3
    <3> QED
      BY <2>1, <3>1 DEF Names_in
  <2> QED
    BY <2>2, <2>4, <2>5, <2>6, <2>7 DEF p
<1> QED
  BY <1>3, <1>4

(* The entries along a path. *)
Along(path, at, n) ==
  IF n = 1 THEN In(RootUnits, path[1])
  ELSE IF at[n - 1].dir THEN In(Content[at[n - 1].first], path[n]) ELSE Missing

LEMMA AlongExists ==
  ASSUME NEW path, NEW m \in Nat
  PROVE  \E at : at = [k \in 1 .. m |-> Along(path, at, k)]
<1> DEFINE S == {n \in Nat : \E at : at = [k \in 1 .. n |-> Along(path, at, k)]}
<1>1. 0 \in S
  <2>1. 1 .. 0 = {}
    OBVIOUS
  <2>2. [k \in 1 .. 0 |-> 0] = [k \in 1 .. 0 |-> Along(path, [j \in 1 .. 0 |-> 0], k)]
    BY <2>1
  <2> QED
    BY <2>2
<1>2. ASSUME NEW n \in Nat, n \in S
      PROVE  n + 1 \in S
  <2>1. PICK at : at = [k \in 1 .. n |-> Along(path, at, k)]
    BY <1>2
  <2> DEFINE last == Along(path, at, n + 1)
             to == [k \in 1 .. n + 1 |-> IF k \in 1 .. n THEN at[k] ELSE last]
  <2>2. ASSUME NEW k \in 1 .. n + 1
        PROVE  to[k] = Along(path, to, k)
    <3>1. k # 1 => k - 1 \in 1 .. n /\ k - 1 \in 1 .. n + 1
      OBVIOUS
    <3>2. k # 1 => to[k - 1] = at[k - 1]
      BY <3>1
    <3>3. Along(path, to, k) = Along(path, at, k)
      <4> HIDE DEF to
      <4> QED
        BY <3>2 DEF Along
    <3>4. CASE k \in 1 .. n
      BY <2>1, <3>3, <3>4
    <3>5. CASE k \notin 1 .. n
      <4>1. k = n + 1
        BY <3>5
      <4> QED
        BY <3>3, <3>5, <4>1
    <3> QED
      BY <3>4, <3>5
  <2>3. to = [k \in 1 .. n + 1 |-> Along(path, to, k)]
    <3>1. to = [k \in 1 .. n + 1 |-> to[k]]
      OBVIOUS
    <3> HIDE DEF to
    <3> QED
      BY <2>2, <3>1
  <2> HIDE DEF to
  <2> QED
    BY <2>3
<1>3. Nat \subseteq S
  <2> HIDE DEF S
  <2> QED
    BY <1>1, <1>2, Counting
<1> QED
  BY <1>3

LEMMA EntriesAre ==
  ASSUME NEW path \in Seq(Names), NEW n \in 1 .. Len(path)
  PROVE  Entries(path)[n] = Along(path, Entries(path), n)
<1> DEFINE e == CHOOSE at : at = [k \in 1 .. Len(path) |-> Along(path, at, k)]
<1>1. Entries(path) = e
  BY DEF Entries, Along
<1>2. Len(path) \in Nat
  OBVIOUS
<1>3. \E at : at = [k \in 1 .. Len(path) |-> Along(path, at, k)]
  BY <1>2, AlongExists
<1>4. e = [k \in 1 .. Len(path) |-> Along(path, e, k)]
  BY <1>3
<1> HIDE DEF e
<1>5. e[n] = Along(path, e, n)
  BY <1>4
<1> QED
  BY <1>1, <1>5

LEMMA RootMeans ==
  ASSUME Findable
  PROVE  /\ RootUnits \in Seq(Units)
         /\ Len(RootUnits) = (g_DataSectionLba - rootDirLba) * SECTOR_SIZE
         /\ Len(RootUnits) \in Nat
         /\ \A q \in Nat, r \in 0 .. SECTOR_SIZE - 1 : rootDirLba + q < g_DataSectionLba =>
              /\ rootDirLba + q \in DOMAIN Sectors /\ (rootDirLba + q) % Addressable = rootDirLba + q
              /\ q * SECTOR_SIZE + r \in Nat /\ q * SECTOR_SIZE + r < Len(RootUnits)
              /\ RootUnits[(q * SECTOR_SIZE + r) + 1] = Sectors[rootDirLba + q][r + 1]
<1> DEFINE m == g_DataSectionLba - rootDirLba
           Unit(k) == Sectors[rootDirLba + ((k - 1) \div SECTOR_SIZE)][((k - 1) % SECTOR_SIZE) + 1]
<1>1. rootDirLba \in Nat /\ m \in Nat /\ SECTOR_SIZE \in Nat /\ SECTOR_SIZE > 0 /\ m * SECTOR_SIZE \in Nat
  BY DiskAssumption, Sizes
<1>2. RootUnits = [k \in 1 .. m * SECTOR_SIZE |-> Unit(k)]
  BY DEF RootUnits
<1>3. ASSUME NEW q \in Nat, q < m
      PROVE  /\ rootDirLba + q \in DOMAIN Sectors /\ (rootDirLba + q) % Addressable = rootDirLba + q
             /\ Sectors[rootDirLba + q] \in Buffer
  <2>1. rootDirLba + q \in rootDirLba .. g_DataSectionLba - 1
    BY <1>1, <1>3, DiskAssumption
  <2> DEFINE lba == rootDirLba + q
  <2>2. lba \in DOMAIN Sectors
    BY <2>1 DEF Findable
  <2> HIDE DEF lba
  <2>3. lba \in 0 .. Addressable - 1 /\ Addressable \in Nat /\ Sectors[lba] \in Buffer
    BY <2>2, DiskAssumption DEF Buffer
  <2>4. lba % Addressable = lba
    BY <2>3
  <2> QED
    BY <2>2, <2>3, <2>4 DEF lba
<1>4. ASSUME NEW k \in 1 .. m * SECTOR_SIZE
      PROVE  Unit(k) \in Units
  <2> DEFINE n == (k - 1) \div SECTOR_SIZE
             r == ((k - 1) % SECTOR_SIZE) + 1
  <2>1. k - 1 \in Nat /\ k - 1 < m * SECTOR_SIZE
    BY <1>1
  <2> HIDE DEF m
  <2>2. n \in 0 .. m - 1 /\ (k - 1) % SECTOR_SIZE \in 0 .. SECTOR_SIZE - 1
    BY <1>1, <2>1, Quotient
  <2> HIDE DEF n
  <2>3. r \in 1 .. SECTOR_SIZE
    BY <1>1, <2>2
  <2> HIDE DEF r
  <2>4. Sectors[rootDirLba + n] \in Buffer
    BY <1>1, <1>3, <2>2
  <2>5. Unit(k) = Sectors[rootDirLba + n][r]
    BY DEF n, r
  <2> HIDE DEF Unit
  <2> QED
    BY <2>3, <2>4, <2>5 DEF Buffer
<1> HIDE DEF Unit
<1>5. RootUnits \in Seq(Units) /\ Len(RootUnits) = m * SECTOR_SIZE
  BY <1>1, <1>2, <1>4
<1>6. ASSUME NEW q \in Nat, NEW r \in 0 .. SECTOR_SIZE - 1, rootDirLba + q < g_DataSectionLba
      PROVE  /\ q < m /\ q * SECTOR_SIZE + r \in Nat /\ q * SECTOR_SIZE + r < Len(RootUnits)
             /\ RootUnits[(q * SECTOR_SIZE + r) + 1] = Sectors[rootDirLba + q][r + 1]
  <2>1. q < m
    BY <1>1, <1>6, DiskAssumption
  <2>2. r \in Nat /\ r < SECTOR_SIZE
    BY <1>1
  <2> DEFINE x == q * SECTOR_SIZE + r
  <2> HIDE DEF m
  <2>3. x \in Nat /\ x < m * SECTOR_SIZE
    BY <1>1, <2>1, <2>2, Below
  <2>4. x \div SECTOR_SIZE = q /\ x % SECTOR_SIZE = r
    BY <1>1, <2>2, Digits
  <2> HIDE DEF x
  <2>5. x + 1 \in 1 .. m * SECTOR_SIZE /\ (x + 1) - 1 = x
    BY <1>1, <2>3
  <2>6. RootUnits[x + 1] = Unit(x + 1)
    BY <1>2, <2>5
  <2>7. Unit(x + 1) = Sectors[rootDirLba + q][r + 1]
    BY <2>4, <2>5 DEF Unit
  <2> QED
    BY <1>5, <2>1, <2>3, <2>6, <2>7 DEF x
<1> QED
  BY <1>1, <1>3, <1>5, <1>6 DEF m

-----------------------------------------------------------------------------
(* The place of a directory that is searched.                              *)

\* The units of the directory behind a handle.
UnitsOf(h, fd) == IF h = ROOT_DIRECTORY_HANDLE THEN RootUnits ELSE Content[fd.first]

\* After k units of it: the sector in the buffer is the one with the next.
Spot(h, fd, k) ==
  /\ fd.pos \in 0 .. SECTOR_SIZE - 1
  /\ IF h = ROOT_DIRECTORY_HANDLE
     THEN \E q \in Nat : /\ fd.current = rootDirLba + q /\ rootDirLba + q < g_DataSectionLba
                        /\ k = q * SECTOR_SIZE + fd.pos
                        /\ fd.buffer = Sectors[rootDirLba + q]
     ELSE /\ Chains(fd.first) # {}
          /\ \E i \in 1 .. Len(Chain(fd.first)) :
               /\ fd.current = Chain(fd.first)[i] /\ k = Index(i, fd.sector, fd.pos)
               /\ InBuffer(fd.buffer, fd.first, i, fd.sector)

LEMMA SpotUnit ==
  ASSUME Findable, NEW h, NEW fd \in FileType, NEW k, Spot(h, fd, k)
  PROVE  /\ k \in Nat /\ UnitsOf(h, fd) \in Seq(Units) /\ Len(UnitsOf(h, fd)) \in Nat
         /\ k < Len(UnitsOf(h, fd)) /\ UnitsOf(h, fd)[k + 1] = fd.buffer[fd.pos + 1]
<1>1. fd.pos \in 0 .. SECTOR_SIZE - 1 /\ fd.sector \in 0 .. SectorsPerCluster - 1
  BY Fields DEF Spot
<1>2. CASE h = ROOT_DIRECTORY_HANDLE
  <2>1. PICK q \in Nat : /\ rootDirLba + q < g_DataSectionLba
                         /\ k = q * SECTOR_SIZE + fd.pos
                         /\ fd.buffer = Sectors[rootDirLba + q]
    BY <1>2 DEF Spot
  <2>2. UnitsOf(h, fd) = RootUnits
    BY <1>2 DEF UnitsOf
  <2> QED
    BY <1>1, <2>1, <2>2, RootMeans
<1>3. CASE h # ROOT_DIRECTORY_HANDLE
  <2>1. Chains(fd.first) # {} /\ UnitsOf(h, fd) = Content[fd.first]
    BY <1>3 DEF Spot, UnitsOf
  <2>2. PICK i \in 1 .. Len(Chain(fd.first)) :
          k = Index(i, fd.sector, fd.pos) /\ InBuffer(fd.buffer, fd.first, i, fd.sector)
    BY <1>3 DEF Spot
  <2> DEFINE first == fd.first
             chain == Chain(first)
  <2>3. /\ Length(first) \in Nat
        /\ Content[first] \in Seq(Units) /\ Len(Content[first]) = Length(first)
        /\ \A j \in 1 .. Len(chain), sector \in 0 .. SectorsPerCluster - 1,
              r \in 0 .. SECTOR_SIZE - 1 :
             /\ Index(j, sector, r) \in Nat /\ Index(j, sector, r) < Length(first)
             /\ Content[first][Index(j, sector, r) + 1] =
                  Sectors[FAT_ClusterToLba(chain[j]) + sector][r + 1]
    BY <2>1, ContentMeans
  <2>4. /\ Length(first) \in Nat
        /\ Content[first] \in Seq(Units) /\ Len(Content[first]) = Length(first)
        /\ k \in Nat /\ k < Length(first)
        /\ Content[first][k + 1] =
             Sectors[FAT_ClusterToLba(chain[i]) + fd.sector][fd.pos + 1]
    <3> HIDE DEF chain, first
    <3>1. i \in 1 .. Len(chain) /\ k = Index(i, fd.sector, fd.pos)
      BY <2>2 DEF chain, first
    <3> QED
      BY <1>1, <2>3, <3>1
  <2> QED
    BY <2>1, <2>2, <2>4 DEF InBuffer
<1> QED
  BY <1>2, <1>3

LEMMA OneElement ==
  ASSUME NEW s \in Seq(Units), NEW x \in 1 .. Len(s)
  PROVE  SubSeq(s, x, x) = <<s[x]>>
<1>1. Len(s) \in Nat /\ x \in Int /\ s[x] \in Units
  BY ElementOfSeq
<1>2. \A j \in x .. x : s[j] \in Units
  BY <1>1
<1> DEFINE p == SubSeq(s, x, x)
<1>3. /\ p \in Seq(Units) /\ Len(p) = IF x <= x THEN x - x + 1 ELSE 0
      /\ \A j \in 1 .. x - x + 1 : p[j] = s[x + j - 1]
  BY <1>1, <1>2, SubSeqProperties
<1> HIDE DEF p
<1>a. x <= x /\ x - x + 1 = 1 /\ x + 1 - 1 = x
  BY <1>1
<1>4. Len(p) = 1 /\ p[1] = s[x]
  <2>1. p[1] = s[x + 1 - 1]
    BY <1>a, <1>3
  <2> QED
    BY <1>a, <1>3, <2>1
<1> DEFINE u == s[x]
<1>5. p = <<u>>
  <2> HIDE DEF u
  <2>1. p \in Seq(Units) /\ <<u>> \in Seq(Units) /\ Len(p) = Len(<<u>>)
    BY <1>1, <1>3, <1>4 DEF u
  <2>2. \A j \in 1 .. Len(p) : p[j] = <<u>>[j]
    BY <1>4 DEF u
  <2> QED
    BY <2>1, <2>2, SeqEqual
<1> QED
  BY <1>5 DEF p

\* One unit is taken of the sector in the buffer.
LEMMA OneUnit ==
  ASSUME NEW fd \in FileType, fd.isdir, fd.pos \in 0 .. SECTOR_SIZE - 1
  PROVE  LET new == Advanced(fd, 1)
         IN  /\ Take(fd, 1) = 1 /\ fd.pos % SECTOR_SIZE = fd.pos
             /\ SubSeq(fd.buffer, fd.pos + 1, fd.pos + 1) = <<fd.buffer[fd.pos + 1]>>
             /\ new \in FileType /\ new.isdir = fd.isdir /\ new.first = fd.first
             /\ new.current = fd.current
             /\ new.sector = fd.sector /\ new.buffer = fd.buffer
             /\ Drained(fd, 1) => fd.pos + 1 = SECTOR_SIZE /\ new.pos = 0
             /\ ~Drained(fd, 1) => new.pos = fd.pos + 1 /\ new.pos \in 0 .. SECTOR_SIZE - 1
<1> DEFINE new == Advanced(fd, 1)
<1>1. SECTOR_SIZE \in Nat /\ SECTOR_SIZE > 0 /\ fd.pos \in Nat /\ fd.pos < SECTOR_SIZE
  BY Sizes
<1>2. fd.pos % SECTOR_SIZE = fd.pos
  BY <1>1
<1>3. Take(fd, 1) = 1
  BY <1>1, <1>2, MinOfTwo DEF Take
<1>4. /\ fd.pos + 1 < SECTOR_SIZE => (fd.pos + 1) % SECTOR_SIZE = fd.pos + 1
      /\ fd.pos + 1 = SECTOR_SIZE => (fd.pos + 1) % SECTOR_SIZE = 0
      /\ (fd.pos + 1) % SECTOR_SIZE \in Nat
  BY <1>1
<1>5. new = [fd EXCEPT !.pos = (fd.pos + 1) % SECTOR_SIZE]
  BY DEF Advanced
<1>6. /\ new \in FileType /\ new.isdir = fd.isdir /\ new.first = fd.first
      /\ new.current = fd.current
      /\ new.sector = fd.sector /\ new.buffer = fd.buffer
      /\ new.pos = (fd.pos + 1) % SECTOR_SIZE
  BY <1>4, <1>5 DEF FileType
<1>7. SubSeq(fd.buffer, fd.pos + 1, fd.pos + 1) = <<fd.buffer[fd.pos + 1]>>
  <2>1. fd.buffer \in Seq(Units) /\ Len(fd.buffer) = SECTOR_SIZE
    BY Fields, BufferSeq
  <2> DEFINE x == fd.pos + 1
  <2>2. x \in Nat /\ x >= 1 /\ x <= SECTOR_SIZE
    BY <1>1
  <2> HIDE DEF x
  <2>3. SubSeq(fd.buffer, x, x) = <<fd.buffer[x]>>
    BY <2>1, <2>2, OneElement
  <2> QED
    BY <2>3 DEF x
<1>8. /\ Drained(fd, 1) => fd.pos + 1 = SECTOR_SIZE /\ (fd.pos + 1) % SECTOR_SIZE = 0
      /\ ~Drained(fd, 1) => /\ (fd.pos + 1) % SECTOR_SIZE = fd.pos + 1
                            /\ fd.pos + 1 \in 0 .. SECTOR_SIZE - 1
  <2> DEFINE d == (fd.pos + 1) % SECTOR_SIZE
  <2>1. Drained(fd, 1) <=> d = 0
    BY DEF Drained
  <2>2. /\ fd.pos + 1 < SECTOR_SIZE => d = fd.pos + 1
        /\ fd.pos + 1 = SECTOR_SIZE => d = 0
    BY <1>4
  <2> HIDE DEF d
  <2>3. /\ d = 0 => fd.pos + 1 = SECTOR_SIZE
        /\ d # 0 => d = fd.pos + 1 /\ fd.pos + 1 \in 0 .. SECTOR_SIZE - 1
    BY <1>1, <2>2
  <2> QED
    BY <2>1, <2>3 DEF d
<1> HIDE DEF new
<1> QED
  BY <1>2, <1>3, <1>6, <1>7, <1>8 DEF new

LEMMA WithinSpot ==
  ASSUME Findable, NEW h, NEW fd \in FileType, NEW k, Spot(h, fd, k), fd.isdir, ~Drained(fd, 1)
  PROVE  Spot(h, Advanced(fd, 1), k + 1)
<1> DEFINE new == Advanced(fd, 1)
<1>1. fd.pos \in 0 .. SECTOR_SIZE - 1 /\ fd.sector \in 0 .. SectorsPerCluster - 1
  BY Fields DEF Spot
<1>2. /\ new.first = fd.first /\ new.current = fd.current
      /\ new.sector = fd.sector /\ new.buffer = fd.buffer
      /\ new.pos = fd.pos + 1 /\ new.pos \in 0 .. SECTOR_SIZE - 1
  BY <1>1, OneUnit
<1> HIDE DEF new
<1>3. CASE h = ROOT_DIRECTORY_HANDLE
  <2>1. PICK q \in Nat : /\ fd.current = rootDirLba + q /\ rootDirLba + q < g_DataSectionLba
                         /\ k = q * SECTOR_SIZE + fd.pos
                         /\ fd.buffer = Sectors[rootDirLba + q]
    BY <1>3 DEF Spot
  <2>2. q * SECTOR_SIZE \in Nat
    BY Sizes
  <2>3. k + 1 = q * SECTOR_SIZE + new.pos
    BY <1>1, <1>2, <2>1, <2>2
  <2> QED
    BY <1>2, <1>3, <2>1, <2>3 DEF Spot, new
<1>4. CASE h # ROOT_DIRECTORY_HANDLE
  <2>1. Chains(fd.first) # {}
    BY <1>4 DEF Spot
  <2>2. PICK i \in 1 .. Len(Chain(fd.first)) :
          /\ fd.current = Chain(fd.first)[i] /\ k = Index(i, fd.sector, fd.pos)
          /\ InBuffer(fd.buffer, fd.first, i, fd.sector)
    BY <1>4 DEF Spot
  <2>3. i \in Nat /\ i > 0 /\ fd.pos \in Int
    <3>1. Len(Chain(fd.first)) \in Nat
      BY <2>1, ChainMeans
    <3> QED
      BY <1>1, <3>1
  <2>4. Index(i, fd.sector, fd.pos + 1) = Index(i, fd.sector, fd.pos) + 1
    <3> DEFINE sector == fd.sector
               pos == fd.pos
    <3>1. sector \in 0 .. SectorsPerCluster - 1 /\ pos \in Int
      BY <1>1, <2>3
    <3> HIDE DEF sector, pos
    <3>2. \A n \in Int : Index(i, sector, pos + n) = Index(i, sector, pos) + n
      BY <2>3, <3>1, IndexMoves
    <3> QED
      BY <3>2 DEF sector, pos
  <2>5. k + 1 = Index(i, new.sector, new.pos)
    BY <1>2, <2>2, <2>4
  <2> QED
    BY <1>2, <1>4, <2>1, <2>2, <2>5 DEF Spot, new
<1> QED
  BY <1>3, <1>4

\* The sector after the last of the units read, where there are more.
LEMMA NextRootSpot ==
  ASSUME Findable, NEW fd \in FileType, NEW k, Spot(ROOT_DIRECTORY_HANDLE, fd, k), fd.isdir,
         Drained(fd, 1), k + 1 < Len(RootUnits)
  PROVE  LET next == NextRootSector(Advanced(fd, 1))
         IN  /\ OnDisk(next.current)
             /\ Spot(ROOT_DIRECTORY_HANDLE, Read(next, next.current, TRUE), k + 1)
<1> DEFINE new == Advanced(fd, 1)
           next == NextRootSector(new)
<1>1. fd.pos \in 0 .. SECTOR_SIZE - 1
  BY DEF Spot
<1>2. new \in FileType /\ new.current = fd.current /\ fd.pos + 1 = SECTOR_SIZE /\ new.pos = 0
  BY <1>1, OneUnit
<1>3. PICK q \in Nat : /\ fd.current = rootDirLba + q /\ rootDirLba + q < g_DataSectionLba
                       /\ k = q * SECTOR_SIZE + fd.pos
  BY DEF Spot
<1> HIDE DEF new
<1>4. next = [new EXCEPT !.current = (new.current + 1) % Addressable]
  BY DEF NextRootSector
<1>5. PICK p : p = q + 1
  OBVIOUS
<1>6. /\ p \in Nat /\ rootDirLba \in Nat /\ new.current + 1 = rootDirLba + p
      /\ SECTOR_SIZE \in Nat /\ SECTOR_SIZE > 0 /\ g_DataSectionLba - rootDirLba \in Nat
  BY <1>2, <1>3, <1>5, DiskAssumption
<1>7. k + 1 = p * SECTOR_SIZE /\ p * SECTOR_SIZE \in Nat
  <2>1. k + 1 = q * SECTOR_SIZE + SECTOR_SIZE
    <3>1. q * SECTOR_SIZE \in Nat
      BY <1>6
    <3> QED
      BY <1>1, <1>2, <1>3, <3>1
  <2> QED
    BY <1>5, <1>6, <2>1
<1>8. p < g_DataSectionLba - rootDirLba
  <2> DEFINE m == g_DataSectionLba - rootDirLba
  <2> SUFFICES ASSUME ~(p < m) PROVE FALSE
    OBVIOUS
  <2> HIDE DEF m
  <2>0. m \in Nat
    BY <1>6 DEF m
  <2>1. m * SECTOR_SIZE <= p * SECTOR_SIZE /\ m * SECTOR_SIZE \in Nat
    BY <1>6, <2>0, Monotonic
  <2>2. Len(RootUnits) = m * SECTOR_SIZE
    BY RootMeans DEF m
  <2> QED
    BY <1>7, <2>1, <2>2
<1>9. rootDirLba + p < g_DataSectionLba
  BY <1>6, <1>8, DiskAssumption
<1>10. rootDirLba + p \in DOMAIN Sectors /\ (rootDirLba + p) % Addressable = rootDirLba + p
  <2>1. 0 \in 0 .. SECTOR_SIZE - 1
    BY <1>6
  <2> QED
    BY <1>6, <1>9, <2>1, RootMeans
<1>11. next.current = rootDirLba + p /\ next.pos = 0 /\ next \in FileType
  <2> DEFINE lba == rootDirLba + p
  <2>1. lba \in Nat /\ (new.current + 1) % Addressable = lba
    BY <1>6, <1>10
  <2> HIDE DEF lba, next
  <2>2. next = [new EXCEPT !.current = lba]
    BY <1>4, <2>1
  <2>3. next.current = lba /\ next.pos = 0 /\ next \in FileType
    BY <1>2, <2>1, <2>2 DEF FileType
  <2> QED
    BY <2>3 DEF lba
<1> HIDE DEF next
<1>12. OnDisk(next.current)
  BY <1>10, <1>11 DEF OnDisk
<1> DEFINE filled == Read(next, next.current, TRUE)
<1>13. filled.current = rootDirLba + p /\ filled.pos = 0 /\ filled.buffer = Sectors[rootDirLba + p]
  BY <1>10, <1>11 DEF Read, FileType
<1> HIDE DEF filled
<1>14. k + 1 = p * SECTOR_SIZE + filled.pos /\ filled.pos \in 0 .. SECTOR_SIZE - 1
  BY <1>6, <1>7, <1>13
<1>15. Spot(ROOT_DIRECTORY_HANDLE, filled, k + 1)
  BY <1>6, <1>9, <1>13, <1>14 DEF Spot
<1> QED
  BY <1>12, <1>15 DEF filled, next, new

LEMMA NextChainSpot ==
  ASSUME Findable, NEW h, h # ROOT_DIRECTORY_HANDLE, NEW fd \in FileType, NEW k,
         Spot(h, fd, k), fd.isdir, Drained(fd, 1), k + 1 < Len(Content[fd.first]),
         NEW next \in NextSector(Advanced(fd, 1))
  PROVE  LET lba == FAT_ClusterToLba(next.current) + next.sector
         IN  /\ ~(next.current >= ENDS) /\ OnDisk(lba)
             /\ Spot(h, Read(next, lba, TRUE), k + 1)
<1> DEFINE new == Advanced(fd, 1)
           chain == Chain(fd.first)
           sector == fd.sector
<1>1. fd.pos \in 0 .. SECTOR_SIZE - 1 /\ sector \in 0 .. SectorsPerCluster - 1
  BY Fields DEF Spot
<1>2. /\ new \in FileType /\ new.current = fd.current /\ new.first = fd.first
      /\ new.sector = sector /\ fd.pos + 1 = SECTOR_SIZE /\ new.pos = 0
  BY <1>1, OneUnit
<1>3. Chains(fd.first) # {}
  BY DEF Spot
<1>4. PICK i \in 1 .. Len(chain) : fd.current = chain[i] /\ k = Index(i, sector, fd.pos)
  BY DEF Spot
<1>5. /\ Len(chain) \in Nat /\ \A j \in 1 .. Len(chain) : chain[j] \in Clusters
      /\ \A j \in 1 .. Len(chain) - 1 : g_Fat[chain[j]] = chain[j + 1]
  BY <1>3, ChainMeans
<1>6. Len(Content[fd.first]) = Len(chain) * SectorsPerCluster * SECTOR_SIZE
  BY <1>3, ContentMeans DEF Length
<1>7. /\ SectorsPerCluster \in Nat /\ SectorsPerCluster > 0 /\ SECTOR_SIZE \in Nat
      /\ SECTOR_SIZE > 0
  BY Sizes
<1> HIDE DEF new, chain, sector
<1>8. i \in Nat /\ i > 0 /\ i <= Len(chain)
  BY <1>4, <1>5
<1>9. k + 1 = Index(i, sector, SECTOR_SIZE)
  <2> DEFINE pos == fd.pos
  <2>1. pos \in Int /\ pos + 1 = SECTOR_SIZE /\ k = Index(i, sector, pos)
    BY <1>1, <1>2, <1>4
  <2> HIDE DEF pos
  <2>2. \A n \in Int : Index(i, sector, pos + n) = Index(i, sector, pos) + n
    BY <1>1, <1>8, <2>1, IndexMoves
  <2>3. Index(i, sector, pos + 1) = Index(i, sector, pos) + 1
    BY <2>2
  <2> QED
    BY <2>1, <2>3
<1>10. \E j \in 1 .. Len(chain) : /\ next.current = chain[j] /\ k + 1 = Index(j, next.sector, 0)
                                  /\ next.sector \in 0 .. SectorsPerCluster - 1
                                  /\ next.pos = 0 /\ next.first = fd.first /\ next \in FileType
  <2>1. next \in NextSector(new)
    BY DEF new
  <2>2. next \in FileType /\ next.pos = 0 /\ next.first = fd.first
    BY <1>2, <2>1, NextTypes
  <2>3. CASE sector + 1 < SectorsPerCluster
    <3>1. next = [new EXCEPT !.sector = new.sector + 1]
      BY <1>2, <2>1, <2>3 DEF NextSector
    <3>2. next.current = chain[i] /\ next.sector = sector + 1
      BY <1>2, <1>4, <3>1 DEF FileType
    <3>3. sector + 1 \in 0 .. SectorsPerCluster - 1
      BY <1>1, <1>7, <2>3
    <3>4. k + 1 = Index(i, sector + 1, 0)
      BY <1>1, <1>8, <1>9, <2>3, NextIndex
    <3> QED
      BY <1>4, <2>2, <3>2, <3>3, <3>4
  <2>4. CASE ~(sector + 1 < SectorsPerCluster)
    <3>1. PICK c \in FAT_NextCluster(new.current) :
            next = [new EXCEPT !.sector = 0, !.current = c]
      BY <1>2, <2>1, <2>4 DEF NextSector
    <3>2. next.current = c /\ next.sector = 0
      BY <1>2, <3>1 DEF FileType
    <3>3. chain[i] \in DOMAIN g_Fat /\ new.current = chain[i]
      BY <1>2, <1>4, <1>5, ClusterMeans
    <3>4. c = g_Fat[chain[i]]
      BY <3>1, <3>3 DEF FAT_NextCluster
    <3>5. k + 1 = Index(i + 1, 0, 0)
      BY <1>1, <1>7, <1>8, <1>9, <2>4, NextIndex
    <3>6. i # Len(chain)
      <4> SUFFICES ASSUME i = Len(chain) PROVE FALSE
        OBVIOUS
      <4> DEFINE n == i * SectorsPerCluster
      <4>1. n \in Nat
        BY <1>7, <1>8
      <4>2. Index(i + 1, 0, 0) = (((i + 1) - 1) * SectorsPerCluster + 0) * SECTOR_SIZE + 0
        BY DEF Index
      <4>3. ((i + 1) - 1) * SectorsPerCluster + 0 = n
        BY <1>7, <1>8
      <4> HIDE DEF n
      <4>4. n * SECTOR_SIZE \in Nat
        BY <1>7, <4>1
      <4>5. Index(i + 1, 0, 0) = n * SECTOR_SIZE
        BY <4>2, <4>3, <4>4
      <4>6. Len(Content[fd.first]) = n * SECTOR_SIZE
        BY <1>6 DEF n
      <4> QED
        BY <3>5, <4>4, <4>5, <4>6
    <3>7. PICK j : j = i + 1
      OBVIOUS
    <3>8. i \in 1 .. Len(chain) - 1 /\ j \in 1 .. Len(chain)
      BY <1>5, <1>8, <3>6, <3>7
    <3>9. next.current = chain[j] /\ 0 \in 0 .. SectorsPerCluster - 1
      BY <1>5, <1>7, <3>2, <3>4, <3>7, <3>8
    <3> QED
      BY <2>2, <3>2, <3>5, <3>7, <3>8, <3>9
  <2> QED
    BY <2>3, <2>4
<1>11. PICK j \in 1 .. Len(chain) : /\ next.current = chain[j] /\ k + 1 = Index(j, next.sector, 0)
                                    /\ next.sector \in 0 .. SectorsPerCluster - 1
                                    /\ next.pos = 0 /\ next.first = fd.first /\ next \in FileType
  BY <1>10
<1> DEFINE lba == FAT_ClusterToLba(next.current) + next.sector
<1>12. lba \in DOMAIN Sectors /\ lba % Addressable = lba /\ ~(next.current >= ENDS)
  <2>1. next.current \in Clusters
    BY <1>5, <1>11
  <2> QED
    BY <1>11, <2>1, ClusterMeans
<1>13. lba = FAT_ClusterToLba(chain[j]) + next.sector
  BY <1>11
<1> HIDE DEF lba
<1> DEFINE filled == Read(next, lba, TRUE)
<1>14. /\ filled.current = next.current /\ filled.pos = 0 /\ filled.first = fd.first
       /\ filled.sector = next.sector /\ filled.buffer = Sectors[lba]
  BY <1>11, <1>12 DEF Read, FileType
<1> HIDE DEF filled
<1>15. InBuffer(filled.buffer, filled.first, j, filled.sector)
  BY <1>13, <1>14 DEF InBuffer, chain
<1>16. Spot(h, filled, k + 1)
  <2>1. filled.pos \in 0 .. SECTOR_SIZE - 1
    BY <1>7, <1>14
  <2>2. filled.current = Chain(filled.first)[j] /\ j \in 1 .. Len(Chain(filled.first))
    BY <1>11, <1>14 DEF chain
  <2>3. k + 1 = Index(j, filled.sector, filled.pos)
    BY <1>11, <1>14
  <2> QED
    BY <1>3, <1>14, <1>15, <2>1, <2>2, <2>3 DEF Spot
<1>17. OnDisk(lba)
  BY <1>12 DEF OnDisk
<1> QED
  BY <1>12, <1>16, <1>17 DEF filled, lba

\* A read of one unit of a directory gives the next, and moves on by it.
LEMMA ReadingSpot ==
  ASSUME IInv, Findable, Reading, NEW k, read.left = 1, read.out = << >>,
         files[read.file].isdir, Spot(read.file, files[read.file], k)
  PROVE  LET fd == files[read.file]
             new == files'[read.file]
         IN  /\ read'.file = read.file /\ read'.left = 0
             /\ read'.out = <<UnitsOf(read.file, fd)[k + 1]>>
             /\ failures \in Nat /\ failures' \in Nat /\ failures <= failures'
             /\ new.isdir = fd.isdir /\ new.first = fd.first
             /\ failures' = failures /\ k + 1 < Len(UnitsOf(read.file, fd)) =>
                  Spot(read.file, new, k + 1)
<1> DEFINE h == read.file
           fd == files[h]
           units == UnitsOf(h, fd)
           adv == Advanced(fd, 1)
<1>1. /\ read \in [file : Ids \union {NULL}, left : Nat, out : Seq(Units)]
      /\ files \in [Ids -> FileType] /\ h \in Ids /\ fd \in FileType /\ failures \in Nat
  <2>1. read.file # NULL
    BY NoHandle DEF IInv, Walking
  <2> QED
    BY <2>1, TypesAre DEF IInv
<1>2. fd.pos \in 0 .. SECTOR_SIZE - 1
  BY DEF Spot
<1>3. /\ Take(fd, 1) = 1 /\ fd.pos % SECTOR_SIZE = fd.pos
      /\ SubSeq(fd.buffer, fd.pos + 1, fd.pos + 1) = <<fd.buffer[fd.pos + 1]>>
      /\ adv \in FileType /\ adv.isdir = fd.isdir /\ adv.first = fd.first
  BY <1>1, <1>2, OneUnit
<1>4. units[k + 1] = fd.buffer[fd.pos + 1]
  BY <1>1, SpotUnit
<1> HIDE DEF units
<1>5. ASSUME NEW new, NEW left, Turn(new, left, 1)
      PROVE  /\ read'.file = h /\ read'.left = left /\ read'.out = <<units[k + 1]>>
             /\ files'[h] = new
  <2>1. read' = [read EXCEPT !.left = left, !.out = << >> \o <<fd.buffer[fd.pos + 1]>>]
    BY <1>3, <1>5 DEF Turn
  <2>2. << >> \o <<fd.buffer[fd.pos + 1]>> = <<fd.buffer[fd.pos + 1]>>
    OBVIOUS
  <2> QED
    BY <1>1, <1>4, <1>5, <2>1, <2>2 DEF Turn
<1>6. CASE WithinSector
  <2>1. Turn(adv, 0, 1) /\ ~Drained(fd, 1) /\ failures' = failures
    BY <1>3, <1>6 DEF WithinSector
  <2>2. Spot(h, adv, k + 1)
    BY <1>1, <2>1, WithinSpot
  <2>3. /\ read'.file = h /\ read'.left = 0 /\ read'.out = <<units[k + 1]>>
        /\ files'[h] = adv
    BY <1>5, <2>1
  <2>4. failures' \in Nat /\ failures <= failures'
    BY <1>1, <2>1
  <2> QED
    BY <1>1, <1>3, <2>2, <2>3, <2>4 DEF units
<1>7. ASSUME NEW next, NEW lba, Refill(next, lba, 1), next \in FileType, next.isdir = fd.isdir,
             next.first = fd.first,
             k + 1 < Len(units) => OnDisk(lba) /\ Spot(h, Read(next, lba, TRUE), k + 1)
      PROVE  /\ read'.file = h /\ read'.left = 0 /\ read'.out = <<units[k + 1]>>
             /\ failures' \in Nat /\ failures <= failures'
             /\ files'[h].isdir = fd.isdir /\ files'[h].first = fd.first
             /\ failures' = failures /\ k + 1 < Len(units) => Spot(h, files'[h], k + 1)
  <2>1. PICK ok \in BOOLEAN : /\ DISK_ReadSectors(lba, ok)
                              /\ Turn(Read(next, lba, ok), IF ok THEN 1 - 1 ELSE 0, 1)
    BY <1>7 DEF Refill
  <2>2. Turn(Read(next, lba, ok), 0, 1)
    <3>1. (IF ok THEN 1 - 1 ELSE 0) = 0
      OBVIOUS
    <3> QED
      BY <2>1, <3>1
  <2>3. failures' = failures + (IF ~ok /\ OnDisk(lba) THEN 1 ELSE 0)
    BY <2>1 DEF DISK_ReadSectors
  <2>4. Read(next, lba, ok).isdir = fd.isdir /\ Read(next, lba, ok).first = fd.first
    BY <1>7 DEF Read, FileType
  <2>5. failures' \in Nat /\ failures <= failures'
    BY <1>1, <2>3
  <2>6. ASSUME failures' = failures, k + 1 < Len(units)
        PROVE  Spot(h, Read(next, lba, ok), k + 1)
    <3>1. ok = TRUE
      BY <1>1, <1>7, <2>3, <2>6
    <3> QED
      BY <1>7, <2>6, <3>1
  <2> QED
    BY <1>5, <2>2, <2>4, <2>5, <2>6
<1>8. CASE EndOfSector /\ h = ROOT_DIRECTORY_HANDLE
  <2> DEFINE next == NextRootSector(adv)
  <2>1. Drained(fd, 1) /\ Refill(next, next.current, 1)
    BY <1>3, <1>8 DEF EndOfSector
  <2>2. next \in FileType /\ next.isdir = fd.isdir /\ next.first = fd.first
    BY <1>3, RootTypes DEF NextRootSector, FileType
  <2>3. k + 1 < Len(units) =>
          OnDisk(next.current) /\ Spot(h, Read(next, next.current, TRUE), k + 1)
    BY <1>1, <1>8, <2>1, NextRootSpot DEF units, UnitsOf
  <2> HIDE DEF next
  <2> QED
    BY <1>1, <1>7, <2>1, <2>2, <2>3 DEF units
<1>9. CASE EndOfSector /\ h # ROOT_DIRECTORY_HANDLE
  <2>1. PICK next \in NextSector(adv) :
          /\ Drained(fd, 1)
          /\ IF next.current >= ENDS
             THEN /\ Turn([next EXCEPT !.size = IF fd.isdir THEN 0 ELSE next.pos], 0, 1)
                  /\ UNCHANGED <<failures, spoilt>>
             ELSE Refill(next, FAT_ClusterToLba(next.current) + next.sector, 1)
    BY <1>3, <1>9 DEF EndOfSector
  <2>2. next \in FileType /\ next.isdir = fd.isdir /\ next.first = fd.first
    BY <1>3, <2>1, NextTypes
  <2> DEFINE lba == FAT_ClusterToLba(next.current) + next.sector
  <2>3. k + 1 < Len(units) =>
          ~(next.current >= ENDS) /\ OnDisk(lba) /\ Spot(h, Read(next, lba, TRUE), k + 1)
    BY <1>1, <1>9, <2>1, NextChainSpot DEF units, UnitsOf
  <2> HIDE DEF lba
  <2>4. CASE next.current >= ENDS
    <3> DEFINE last == [next EXCEPT !.size = IF fd.isdir THEN 0 ELSE next.pos]
    <3>1. Turn(last, 0, 1) /\ failures' = failures
      BY <2>1, <2>4
    <3>2. last.isdir = fd.isdir /\ last.first = fd.first
      BY <2>2 DEF FileType
    <3> HIDE DEF last
    <3>3. /\ read'.file = h /\ read'.left = 0 /\ read'.out = <<units[k + 1]>>
          /\ files'[h] = last
      BY <1>5, <3>1
    <3>4. failures' \in Nat /\ failures <= failures'
      BY <1>1, <3>1
    <3> QED
      BY <1>1, <2>3, <2>4, <3>2, <3>3, <3>4 DEF units
  <2>5. CASE ~(next.current >= ENDS)
    <3>1. Refill(next, lba, 1)
      BY <2>1, <2>5 DEF lba
    <3> QED
      BY <1>1, <1>7, <2>2, <2>3, <3>1 DEF units
  <2> QED
    BY <2>4, <2>5
<1> QED
  BY <1>6, <1>8, <1>9 DEF Reading

-----------------------------------------------------------------------------
(* What the volume says of a path.                                         *)
UnitsFor(path, n) == IF n = 1 THEN RootUnits ELSE Content[Entries(path)[n - 1].first]

LEMMA EntryMeans ==
  ASSUME Findable, NEW path \in Paths, NEW n \in 1 .. Len(path), Entries(path)[n] # Missing
  PROVE  /\ n # 1 => /\ n - 1 \in 1 .. Len(path) /\ Entries(path)[n - 1] # Missing
                     /\ Entries(path)[n - 1].dir /\ Chains(Entries(path)[n - 1].first) # {}
         /\ UnitsFor(path, n) \in Seq(Units)
         /\ Place(UnitsFor(path, n), path[n]) \in 1 .. Len(UnitsFor(path, n))
         /\ Entries(path)[n] = UnitsFor(path, n)[Place(UnitsFor(path, n), path[n])]
         /\ Entries(path)[n] \in Units /\ Entries(path)[n].name = path[n]
         /\ \A i \in 1 .. Place(UnitsFor(path, n), path[n]) - 1 :
              UnitsFor(path, n)[i].name # path[n]
<1> DEFINE e == Entries(path)
           units == UnitsFor(path, n)
<1>1. path \in Seq(Names) /\ Len(path) \in Nat
  BY EntriesAssumption
<1>2. e[n] = Along(path, e, n)
  BY <1>1, EntriesAre
<1>3. \A m \in 1 .. Len(path) : e[m] # Missing /\ m < Len(path) /\ e[m].dir => Chains(e[m].first) # {}
  BY DEF Findable
<1> HIDE DEF e
<1>4. /\ n # 1 => n - 1 \in 1 .. Len(path) /\ e[n - 1] # Missing /\ e[n - 1].dir
                  /\ Chains(e[n - 1].first) # {}
      /\ e[n] = In(units, path[n]) /\ units \in Seq(Units)
  <2>1. CASE n = 1
    <3>1. units = RootUnits /\ e[n] = In(RootUnits, path[n])
      BY <1>2, <2>1 DEF UnitsFor, Along
    <3> QED
      BY <2>1, <3>1, RootMeans
  <2>2. CASE n # 1
    <3>1. e[n - 1].dir /\ e[n] = In(Content[e[n - 1].first], path[n])
      BY <1>2, <2>2 DEF Along, e
    <3>2. e[n - 1] # Missing
      BY <3>1 DEF Missing
    <3>3. n - 1 \in 1 .. Len(path) /\ n - 1 < Len(path)
      BY <1>1, <2>2
    <3>4. Chains(e[n - 1].first) # {}
      BY <1>3, <3>1, <3>2, <3>3
    <3>5. units = Content[e[n - 1].first]
      BY <2>2 DEF UnitsFor, e
    <3>6. Content[e[n - 1].first] \in Seq(Units)
      <4> DEFINE first == e[n - 1].first
      <4>1. Chains(first) # {}
        BY <3>4
      <4> HIDE DEF first
      <4>2. Content[first] \in Seq(Units)
        BY <4>1, ContentMeans
      <4> QED
        BY <4>2 DEF first
    <3> QED
      BY <3>1, <3>2, <3>3, <3>4, <3>5, <3>6
  <2> QED
    BY <2>1, <2>2
<1>5. In(units, path[n]) # Missing
  BY <1>4 DEF e
<1> HIDE DEF units
<1>6. /\ Place(units, path[n]) \in 1 .. Len(units)
      /\ e[n] = units[Place(units, path[n])] /\ e[n] \in Units /\ e[n].name = path[n]
      /\ \A i \in 1 .. Place(units, path[n]) - 1 : units[i].name # path[n]
  <2> DEFINE name == path[n]
  <2>1. In(units, name) # Missing /\ e[n] = In(units, name)
    BY <1>4, <1>5
  <2> HIDE DEF name
  <2>2. /\ Place(units, name) \in 1 .. Len(units)
        /\ In(units, name) = units[Place(units, name)]
        /\ In(units, name) \in Units /\ In(units, name).name = name
        /\ \A i \in 1 .. Place(units, name) - 1 : units[i].name # name
    BY <1>4, <2>1, InMeans
  <2> QED
    BY <2>1, <2>2 DEF name
<1> QED
  BY <1>4, <1>6 DEF e, units

\* A name that is missing where the path has come to is nowhere.
LEMMA MissingMeans ==
  ASSUME Findable, NEW path \in Paths, NEW n \in 1 .. Len(path), Entries(path)[n] = Missing,
         \A m \in 1 .. n - 1 : Entries(path)[m] # Missing, NEW u \in Units
  PROVE  u.name # path[n]
<1>1. PICK m \in 1 .. n : \A v \in Units : v.name # path[m]
  BY DEF Findable
<1>2. CASE m = n
  BY <1>1, <1>2
<1>3. CASE m # n
  <2>1. Len(path) \in Nat
    BY EntriesAssumption
  <2>2. m \in 1 .. n - 1 /\ m \in 1 .. Len(path)
    BY <1>3, <2>1
  <2>3. Entries(path)[m] \in Units /\ Entries(path)[m].name = path[m]
    BY <2>2, EntryMeans
  <2> QED
    BY <1>1, <2>3
<1> QED
  BY <1>2, <1>3

\* What is missing early is missing at the end.
LEMMA MissingStays ==
  ASSUME Findable, NEW path \in Paths, NEW n \in 1 .. Len(path), Entries(path)[n] = Missing
  PROVE  Lookup(path) = Missing
<1> DEFINE S == {j \in Nat : n + j <= Len(path) => Entries(path)[n + j] = Missing}
<1>1. Len(path) \in Nat
  BY EntriesAssumption
<1>2. 0 \in S
  <2>1. n + 0 = n
    OBVIOUS
  <2> QED
    BY <2>1
<1>3. ASSUME NEW j \in Nat, j \in S
      PROVE  j + 1 \in S
  <2> SUFFICES ASSUME n + (j + 1) <= Len(path), Entries(path)[n + (j + 1)] # Missing
               PROVE  FALSE
    OBVIOUS
  <2>1. PICK k : k = n + (j + 1)
    OBVIOUS
  <2>2. k \in 1 .. Len(path) /\ k # 1 /\ k - 1 = n + j /\ n + j <= Len(path)
    BY <1>1, <2>1
  <2>3. Entries(path)[k] # Missing
    BY <2>1
  <2>4. Entries(path)[k - 1] # Missing
    BY <2>2, <2>3, EntryMeans
  <2> QED
    BY <1>3, <2>2, <2>4
<1>4. Nat \subseteq S
  <2> HIDE DEF S
  <2> QED
    BY <1>2, <1>3, Counting
<1>5. Len(path) - n \in Nat /\ n + (Len(path) - n) = Len(path)
  BY <1>1
<1>6. Len(path) - n \in S
  BY <1>4, <1>5
<1>7. Entries(path)[n + (Len(path) - n)] = Missing
  BY <1>1, <1>5, <1>6
<1> QED
  BY <1>5, <1>7 DEF Lookup

-----------------------------------------------------------------------------
(* The inductive invariant of FAT_Open.                                    *)

\* The n-th component of the path that was asked for is sought.
OnPath(n) ==
  /\ n \in 1 .. Len(asked.path)
  /\ Len(open.path) = Len(asked.path) - n + 1
  /\ \A m \in 1 .. Len(open.path) : open.path[m] = asked.path[n + m - 1]
  /\ open.name = IF asked.spelt THEN asked.path[n] ELSE Garbled

\* It is sought behind the handle of the entry before it.
Beneath(path, n, h, fd) ==
  /\ \A m \in 1 .. n - 1 : Entries(path)[m] # Missing
  /\ n = 1 => h = ROOT_DIRECTORY_HANDLE
  /\ n # 1 => /\ h # ROOT_DIRECTORY_HANDLE
              /\ fd.isdir = Entries(path)[n - 1].dir /\ fd.first = Entries(path)[n - 1].first

\* What was read lies before the first unit of the name, or is this unit.
Seeking(name, h, fd, left, out) ==
  LET units == UnitsOf(h, fd)
      place == Place(units, name)
  IN  \E k \in Nat : \/ left = 1 /\ out = << >> /\ k < place /\ Spot(h, fd, k)
                    \/ /\ left = 0 /\ k \in 1 .. place /\ out = <<units[k]>>
                       /\ k < place => Spot(h, fd, k)

OnTheWay(n) ==
  LET h == open.current
  IN  /\ Beneath(asked.path, n, h, files[h])
      /\ Entries(asked.path)[n] # Missing =>
           Seeking(asked.path[n], h, files[h], read.left, read.out)

Sure == asked.fresh /\ asked.spelt /\ failures = asked.before

Led ==
  /\ asked.before <= failures
  /\ asked = NoAnswer \/ asked.path \in Paths \ {<< >>}
  /\ status = "off" => asked = NoAnswer
  /\ status = "running" => /\ files[ROOT_DIRECTORY_HANDLE].isdir
                           /\ files[ROOT_DIRECTORY_HANDLE].first = rootDirLba
  /\ open = NoOpen /\ read.file # NULL => asked = NoAnswer
  /\ open # NoOpen => /\ asked.path # << >> /\ answer = NULL
                      /\ \E n : OnPath(n) /\ (Sure => OnTheWay(n))
  /\ OpensNamed

LEMMA NoAnswerIs == /\ NoAnswer.path = << >> /\ ~NoAnswer.fresh /\ NoAnswer.spelt
                    /\ NoAnswer.before = 0
BY DEF NoAnswer

\* The units sought in are those of the component before.
LEMMA SoughtIn ==
  ASSUME NEW path, NEW n, NEW h, NEW fd, Beneath(path, n, h, fd)
  PROVE  UnitsOf(h, fd) = UnitsFor(path, n)
BY DEF UnitsOf, UnitsFor, Beneath

\* Nothing is asked, so nothing is to be answered.
LEMMA Unasked ==
  ASSUME IInv', asked' = NoAnswer, open' = NoOpen,
         status' = "running" => /\ files'[ROOT_DIRECTORY_HANDLE].isdir
                                /\ files'[ROOT_DIRECTORY_HANDLE].first = rootDirLba
  PROVE  Led'
<1>1. failures' \in Nat
  BY TypesAre DEF IInv, TypeOK
<1>2. asked'.before <= failures' /\ asked'.path = << >>
  BY <1>1, NoAnswerIs
<1>3. OpensNamed'
  BY <1>2 DEF OpensNamed
<1> QED
  BY <1>2, <1>3 DEF Led

LEMMA CloseRoot ==
  ASSUME TypeOK, NEW h \in Ids
  PROVE  /\ FAT_Close(h)[ROOT_DIRECTORY_HANDLE].isdir = files[ROOT_DIRECTORY_HANDLE].isdir
         /\ FAT_Close(h)[ROOT_DIRECTORY_HANDLE].first = files[ROOT_DIRECTORY_HANDLE].first
<1>1. files \in [Ids -> FileType] /\ ROOT_DIRECTORY_HANDLE \in Ids
  BY TypesAre DEF Ids
<1>2. files[ROOT_DIRECTORY_HANDLE] \in FileType
  BY <1>1
<1>3. CASE h = ROOT_DIRECTORY_HANDLE
  BY <1>1, <1>2, <1>3 DEF FAT_Close, FileType
<1>4. CASE h # ROOT_DIRECTORY_HANDLE
  BY <1>1, <1>4 DEF FAT_Close
<1> QED
  BY <1>3, <1>4

-----------------------------------------------------------------------------
(* The steps.                                                              *)
\* Reading leaves every file where it starts.
LEMMA ReadingStays ==
  ASSUME IInv, Reading
  PROVE  /\ \A h \in Ids : files'[h].isdir = files[h].isdir /\ files'[h].first = files[h].first
         /\ failures \in Nat /\ failures' \in Nat /\ failures <= failures'
         /\ read.file # NULL /\ read'.file = read.file /\ read.left # 0
<1> DEFINE old == files[read.file]
           take == Take(old, read.left)
           fd == Advanced(old, take)
<1>1. /\ read.left > 0 /\ read.left \in Nat /\ read.file # NULL /\ read.file \in Ids
      /\ read \in [file : Ids \union {NULL}, left : Nat, out : Seq(Units)]
      /\ old \in FileType /\ Asked(old, read.left) /\ files \in [Ids -> FileType]
      /\ failures \in Nat
  BY NoHandle, TypesAre DEF IInv, Walking, Reading, WithinSector, EndOfSector
<1>2. fd \in FileType
  BY <1>1, Turns
<1>3. fd.isdir = old.isdir /\ fd.first = old.first
  BY <1>1 DEF Advanced, FileType
<1> HIDE DEF fd, take
<1>4. ASSUME NEW new, NEW left, Turn(new, left, take), new.isdir = old.isdir, new.first = old.first
      PROVE  /\ \A h \in Ids : files'[h].isdir = files[h].isdir /\ files'[h].first = files[h].first
             /\ read'.file = read.file
  BY <1>1, <1>4 DEF Turn
<1>5. ASSUME NEW next \in FileType, next.isdir = old.isdir, next.first = old.first, NEW lba,
             Refill(next, lba, take)
      PROVE  /\ \A h \in Ids : files'[h].isdir = files[h].isdir /\ files'[h].first = files[h].first
             /\ read'.file = read.file
             /\ failures' \in Nat /\ failures <= failures'
  <2>1. PICK ok \in BOOLEAN :
          /\ DISK_ReadSectors(lba, ok)
          /\ Turn(Read(next, lba, ok), IF ok THEN read.left - take ELSE 0, take)
    BY <1>5 DEF Refill
  <2> DEFINE left == IF ok THEN read.left - take ELSE 0
             filled == Read(next, lba, ok)
  <2>2. filled.isdir = old.isdir /\ filled.first = old.first
    BY <1>5 DEF Read, FileType
  <2>3. Turn(filled, left, take)
    BY <2>1
  <2>4. failures' = failures + (IF ~ok /\ OnDisk(lba) THEN 1 ELSE 0)
    BY <2>1 DEF DISK_ReadSectors
  <2>5. failures' \in Nat /\ failures <= failures'
    BY <1>1, <2>4
  <2> HIDE DEF filled, left
  <2>6. /\ \A h \in Ids : files'[h].isdir = files[h].isdir /\ files'[h].first = files[h].first
        /\ read'.file = read.file
    BY <1>4, <2>2, <2>3
  <2> QED
    BY <2>5, <2>6
<1>6. CASE WithinSector
  <2>1. Turn(fd, read.left - take, take) /\ failures' = failures
    BY <1>6 DEF WithinSector, fd, take
  <2> DEFINE left == read.left - take
  <2>2. Turn(fd, left, take)
    BY <2>1
  <2> HIDE DEF left
  <2>3. /\ \A h \in Ids : files'[h].isdir = files[h].isdir /\ files'[h].first = files[h].first
        /\ read'.file = read.file
    BY <1>3, <1>4, <2>2
  <2>4. failures' \in Nat /\ failures <= failures' /\ read.left # 0
    BY <1>1, <2>1
  <2> QED
    BY <1>1, <2>3, <2>4
<1>7. CASE EndOfSector /\ read.file = ROOT_DIRECTORY_HANDLE
  <2> DEFINE next == NextRootSector(fd)
  <2>1. Refill(next, next.current, take)
    BY <1>7 DEF EndOfSector, fd, take
  <2>2. next \in FileType /\ next.isdir = old.isdir /\ next.first = old.first
    BY <1>2, <1>3, RootTypes DEF NextRootSector, FileType
  <2> DEFINE lba == next.current
  <2>3. Refill(next, lba, take)
    BY <2>1
  <2> HIDE DEF next, lba
  <2>4. read.left # 0
    BY <1>1
  <2> QED
    BY <1>1, <1>5, <2>2, <2>3, <2>4
<1>8. CASE EndOfSector /\ read.file # ROOT_DIRECTORY_HANDLE
  <2>1. PICK next \in NextSector(fd) :
          IF next.current >= ENDS
          THEN /\ Turn([next EXCEPT !.size = IF old.isdir THEN 0 ELSE next.pos], 0, take)
               /\ UNCHANGED <<failures, spoilt>>
          ELSE Refill(next, FAT_ClusterToLba(next.current) + next.sector, take)
    BY <1>8 DEF EndOfSector, fd, take
  <2>2. next \in FileType /\ next.isdir = old.isdir /\ next.first = old.first
    BY <1>2, <1>3, <2>1, NextTypes
  <2>3. read.left # 0
    BY <1>1
  <2>4. CASE next.current >= ENDS
    <3> DEFINE last == [next EXCEPT !.size = IF old.isdir THEN 0 ELSE next.pos]
    <3>1. Turn(last, 0, take) /\ failures' = failures
      BY <2>1, <2>4
    <3>2. last.isdir = old.isdir /\ last.first = old.first
      BY <2>2 DEF FileType
    <3> HIDE DEF last
    <3>3. failures' \in Nat /\ failures <= failures'
      BY <1>1, <3>1
    <3>4. /\ \A h \in Ids : files'[h].isdir = files[h].isdir /\ files'[h].first = files[h].first
          /\ read'.file = read.file
      BY <1>4, <3>1, <3>2
    <3> QED
      BY <1>1, <2>3, <3>3, <3>4
  <2>5. CASE ~(next.current >= ENDS)
    <3> DEFINE lba == FAT_ClusterToLba(next.current) + next.sector
    <3>1. Refill(next, lba, take)
      BY <2>1, <2>5
    <3> HIDE DEF lba
    <3> QED
      BY <1>1, <1>5, <2>2, <2>3, <3>1
  <2> QED
    BY <2>4, <2>5
<1> QED
  BY <1>6, <1>7, <1>8 DEF Reading

\* The directory behind the handle in which a name is sought that is there.
LEMMA Directories ==
  ASSUME Findable, IInv, Led, open # NoOpen, status = "running", NEW n, OnPath(n), OnTheWay(n),
         Entries(asked.path)[n] # Missing
  PROVE  LET h == open.current
         IN  /\ asked.path \in Paths /\ n \in 1 .. Len(asked.path) /\ read.file = h /\ h \in Ids
             /\ files[h].isdir /\ files[h] \in FileType
             /\ UnitsOf(h, files[h]) = UnitsFor(asked.path, n)
             /\ Seeking(asked.path[n], h, files[h], read.left, read.out)
<1> DEFINE h == open.current
           path == asked.path
<1>1. path \in Paths /\ n \in 1 .. Len(path)
  BY NoAnswerIs DEF Led, OnPath
<1>2. read.file = h /\ h \in Ids /\ files[h] \in FileType
  BY TypesAre DEF IInv, Walking
<1>3. Beneath(path, n, h, files[h]) /\ Seeking(path[n], h, files[h], read.left, read.out)
  BY DEF OnTheWay
<1>4. UnitsOf(h, files[h]) = UnitsFor(path, n)
  BY <1>3, SoughtIn
<1>5. files[h].isdir
  <2>1. CASE n = 1
    BY <1>3, <2>1 DEF Beneath, Led
  <2>2. CASE n # 1
    <3>1. Entries(path)[n - 1].dir
      BY <1>1, <2>2, EntryMeans
    <3> QED
      BY <1>3, <2>2, <3>1 DEF Beneath
  <2> QED
    BY <2>1, <2>2
<1> QED
  BY <1>1, <1>2, <1>3, <1>4, <1>5

LEMMA ReadingLeads ==
  ASSUME Findable, IInv, Led, Reading, IInv'
  PROVE  Led'
<1> DEFINE h == open.current
           fd == files[h]
           new == files'[h]
<1>1. /\ \A k \in Ids : files'[k].isdir = files[k].isdir /\ files'[k].first = files[k].first
      /\ failures \in Nat /\ failures' \in Nat /\ failures <= failures'
      /\ read.file # NULL /\ read'.file = read.file /\ read.left # 0
  BY ReadingStays
<1>2. UNCHANGED <<status, open, held, got, asked, answer>>
  BY DEF Reading
<1>3. status = "running" => /\ files'[ROOT_DIRECTORY_HANDLE].isdir
                            /\ files'[ROOT_DIRECTORY_HANDLE].first = rootDirLba
  BY <1>1 DEF Led, Ids
<1>4. CASE open = NoOpen
  <2>1. asked = NoAnswer
    BY <1>1, <1>4 DEF Led
  <2> QED
    BY <1>2, <1>3, <1>4, <2>1, Unasked
<1>5. CASE open # NoOpen
  <2>1. status = "running" /\ read.file = h /\ h \in Ids
    BY <1>1, <1>5, TypesAre DEF IInv, Walking
  <2>2. PICK n : OnPath(n) /\ (Sure => OnTheWay(n))
    BY <1>5 DEF Led
  <2>3. asked.before \in Nat /\ asked.before <= failures /\ asked.before <= failures'
    <3>1. asked.before \in Nat /\ asked.before <= failures
      BY TypesAre DEF IInv, Led
    <3> QED
      BY <1>1, <3>1
  <2>4. OnPath(n)'
    BY <1>2, <2>2 DEF OnPath
  <2>5. ASSUME Sure'
        PROVE  OnTheWay(n)'
    <3>1. failures' = failures /\ Sure
      <4>1. failures' = asked.before
        BY <1>2, <2>5 DEF Sure
      <4>2. failures' = failures
        BY <1>1, <2>3, <4>1
      <4> QED
        BY <1>2, <2>5, <4>2 DEF Sure
    <3>2. OnTheWay(n)
      BY <2>2, <3>1
    <3>3. Beneath(asked.path, n, h, new)
      <4>1. Beneath(asked.path, n, h, fd)
        BY <3>2 DEF OnTheWay
      <4>2. new.isdir = fd.isdir /\ new.first = fd.first
        BY <1>1, <2>1
      <4> HIDE DEF new, fd
      <4> QED
        BY <4>1, <4>2 DEF Beneath
    <3>4. ASSUME Entries(asked.path)[n] # Missing
          PROVE  Seeking(asked.path[n], h, new, read'.left, read'.out)
      <4> DEFINE units == UnitsOf(h, fd)
                 place == Place(units, asked.path[n])
      <4>1. /\ asked.path \in Paths /\ n \in 1 .. Len(asked.path) /\ fd.isdir /\ fd \in FileType
            /\ units = UnitsFor(asked.path, n)
            /\ Seeking(asked.path[n], h, fd, read.left, read.out)
        BY <1>5, <2>1, <2>2, <3>2, <3>4, Directories
      <4>2. PICK k \in Nat : read.left = 1 /\ read.out = << >> /\ k < place /\ Spot(h, fd, k)
        BY <1>1, <4>1 DEF Seeking
      <4>3. place \in 1 .. Len(units) /\ Len(units) \in Nat
        <5>1. units \in Seq(Units) /\ place \in 1 .. Len(units)
          BY <3>4, <4>1, EntryMeans
        <5> QED
          BY <5>1
      <4>4. /\ read'.left = 0 /\ read'.out = <<units[k + 1]>>
            /\ new.isdir = fd.isdir /\ new.first = fd.first
            /\ k + 1 < Len(units) => Spot(h, new, k + 1)
        BY <2>1, <3>1, <4>1, <4>2, ReadingSpot
      <4>5. UnitsOf(h, new) = units
        BY <4>4 DEF UnitsOf
      <4> HIDE DEF units, place, new, fd
      <4>6. PICK j : j = k + 1
        OBVIOUS
      <4>7. j \in Nat /\ j \in 1 .. place /\ (j < place => j < Len(units))
        BY <4>2, <4>3, <4>6
      <4>8. read'.out = <<units[j]>> /\ (j < place => Spot(h, new, j))
        BY <4>4, <4>6, <4>7
      <4>9. place = Place(UnitsOf(h, new), asked.path[n])
        BY <4>5 DEF place, units
      <4> QED
        BY <4>4, <4>5, <4>7, <4>8, <4>9 DEF Seeking
    <3> QED
      BY <1>2, <3>3, <3>4 DEF OnTheWay
  <2>6. OpensNamed'
    BY <1>2, <1>5 DEF OpensNamed
  <2>7. asked.path # << >> /\ answer = NULL
    BY <1>5 DEF Led
  <2>8. (asked = NoAnswer \/ asked.path \in Paths \ {<< >>}) /\ (status = "off" => asked = NoAnswer)
    BY DEF Led
  <2>9. \E m : (OnPath(m) /\ (Sure => OnTheWay(m)))'
    BY <2>4, <2>5
  <2> QED
    BY <1>2, <1>3, <1>5, <2>3, <2>6, <2>7, <2>8, <2>9 DEF Led
<1> QED
  BY <1>4, <1>5

\* A step after which nothing is open and nothing is asked.
LEMMA IdleLeads ==
  ASSUME IInv, Led, IInv',
         FAT_Initialize \/ ReadFile \/ Close \/ OpenRoot \/ ReadReturns
  PROVE  Led'
<1>1. CASE FAT_Initialize
  <2>1. status = "off" /\ open' = open /\ asked' = asked
    BY <1>1 DEF FAT_Initialize
  <2>2. open = NoOpen
    BY <2>1, NoHandle, TypesAre DEF IInv, Walking
  <2>3. asked' = NoAnswer
    BY <2>1 DEF Led
  <2>4. status' = "running" => /\ files'[ROOT_DIRECTORY_HANDLE].isdir
                               /\ files'[ROOT_DIRECTORY_HANDLE].first = rootDirLba
    <3>1. files \in [Ids -> FileType] /\ ROOT_DIRECTORY_HANDLE \in Ids
      BY TypesAre DEF IInv, Ids
    <3>2. status' = "running" => files' = [files EXCEPT ![ROOT_DIRECTORY_HANDLE] =
                                    FileData(TRUE, TRUE, 0, rootDirLba, Sectors[rootDirLba])]
      BY <1>1 DEF FAT_Initialize
    <3> QED
      BY <3>1, <3>2 DEF FileData
  <2> QED
    BY <2>1, <2>2, <2>3, <2>4, Unasked
<1>2. CASE ReadFile \/ OpenRoot
  <2>1. asked' = NoAnswer /\ open' = NoOpen /\ UNCHANGED <<status, files>>
    BY <1>2 DEF ReadFile, OpenRoot, Idle
  <2> QED
    BY <2>1, Unasked DEF Led
<1>3. CASE Close
  <2>1. PICK h \in held : files' = FAT_Close(h)
    BY <1>3 DEF Close
  <2>2. asked' = NoAnswer /\ open' = NoOpen /\ status' = status /\ TypeOK /\ h \in Ids
    BY <1>3, TypesAre DEF Close, Idle, IInv
  <2> QED
    BY <2>1, <2>2, CloseRoot, Unasked DEF Led
<1>4. CASE ReadReturns
  <2>1. asked' = NoAnswer /\ open' = NoOpen /\ UNCHANGED <<status, files>>
    BY <1>4 DEF ReadReturns, Led
  <2> QED
    BY <2>1, Unasked DEF Led
<1> QED
  BY <1>1, <1>2, <1>3, <1>4

LEMMA Starting ==
  ASSUME NEW fd \in FileType, fd.isdir, NEW path, NEW h, NEW name, FindFile(path, h, fd, name)
  PROVE  /\ open'.path = path /\ open'.name = name /\ open'.current = h
         /\ read'.left = 1 /\ read'.out = << >>
BY DEF FindFile, Left

LEMMA FindOpens ==
  ASSUME NEW path, path # << >>, NEW h, NEW fd, NEW name, FindFile(path, h, fd, name)
  PROVE  open' # NoOpen /\ open'.path = path /\ open'.name = name /\ open'.current = h
BY DEF FindFile, NoOpen

LEMMA OpenLeads ==
  ASSUME Findable, IInv, Led, OpenFile, IInv'
  PROVE  Led'
<1> DEFINE root == files[ROOT_DIRECTORY_HANDLE]
<1>1. PICK path \in Paths \ {<< >>} : \E name \in Spellings(path[1]) :
        /\ Idle
        /\ FindFile(path, ROOT_DIRECTORY_HANDLE, root, name)
        /\ asked' = [path |-> path, fresh |-> Fresh, spelt |-> name = path[1],
                     before |-> failures]
        /\ answer' = NULL
        /\ UNCHANGED <<status, files, held, failures, got, spoilt>>
  BY DEF OpenFile
<1>2. PICK name \in Spellings(path[1]) :
        /\ Idle
        /\ FindFile(path, ROOT_DIRECTORY_HANDLE, root, name)
        /\ asked' = [path |-> path, fresh |-> Fresh, spelt |-> name = path[1],
                     before |-> failures]
        /\ answer' = NULL
        /\ UNCHANGED <<status, files, held, failures, got, spoilt>>
  BY <1>1
<1>3. /\ open' # NoOpen /\ open'.path = path /\ open'.name = name
      /\ open'.current = ROOT_DIRECTORY_HANDLE
  BY <1>2, FindOpens
<1>4. /\ asked'.path = path /\ asked'.fresh = Fresh /\ asked'.spelt = (name = path[1])
      /\ asked'.before = failures
  BY <1>2
<1>5. path \in Seq(Names) /\ Len(path) \in Nat /\ Len(path) # 0 /\ 1 \in 1 .. Len(path)
  <2>1. path \in Seq(Names)
    BY EntriesAssumption
  <2> QED
    BY <2>1, HeadAndTail
<1>6. /\ files \in [Ids -> FileType] /\ root \in FileType /\ failures \in Nat
      /\ root.isdir /\ root.first = rootDirLba
  <2>1. files \in [Ids -> FileType] /\ root \in FileType /\ failures \in Nat
    BY TypesAre DEF IInv, Ids
  <2> QED
    BY <1>2, <2>1 DEF Led, Idle
<1>7. OnPath(1)'
  <2>1. name = IF asked'.spelt THEN path[1] ELSE Garbled
    BY <1>2, <1>4 DEF Spellings
  <2>2. Len(path) = Len(path) - 1 + 1
    BY <1>5
  <2>3. \A m \in 1 .. Len(path) : path[m] = path[1 + m - 1]
    <3> SUFFICES ASSUME NEW m \in 1 .. Len(path) PROVE path[m] = path[1 + m - 1]
      OBVIOUS
    <3>1. 1 + m - 1 = m
      BY <1>5
    <3> QED
      BY <3>1
  <2> QED
    BY <1>3, <1>4, <1>5, <2>1, <2>2, <2>3 DEF OnPath
<1>8. ASSUME Sure'
      PROVE  OnTheWay(1)'
  <2>1. Fresh
    BY <1>4, <1>8 DEF Sure
  <2>2. /\ root.pos = 0 /\ root.current = rootDirLba /\ root.buffer = Sectors[rootDirLba]
    BY <1>6, <2>1 DEF Fresh
  <2>3. Spot(ROOT_DIRECTORY_HANDLE, root, 0)
    <3>1. /\ rootDirLba \in Nat /\ g_DataSectionLba \in Nat /\ rootDirLba < g_DataSectionLba
          /\ SECTOR_SIZE \in Nat /\ SECTOR_SIZE > 0
      BY DiskAssumption, Sizes
    <3>2. rootDirLba + 0 = rootDirLba /\ 0 * SECTOR_SIZE + 0 = 0 /\ 0 \in 0 .. SECTOR_SIZE - 1
      BY <3>1
    <3> QED
      BY <2>2, <3>1, <3>2 DEF Spot
  <2>4. read'.left = 1 /\ read'.out = << >>
    BY <1>2, <1>6, Starting
  <2>5. Beneath(path, 1, ROOT_DIRECTORY_HANDLE, root)
    BY DEF Beneath
  <2>6. ASSUME Entries(path)[1] # Missing
        PROVE  Seeking(path[1], ROOT_DIRECTORY_HANDLE, root, read'.left, read'.out)
    <3>1. UnitsOf(ROOT_DIRECTORY_HANDLE, root) = UnitsFor(path, 1)
      BY <2>5, SoughtIn
    <3> DEFINE place == Place(UnitsOf(ROOT_DIRECTORY_HANDLE, root), path[1])
    <3>2. place \in 1 .. Len(UnitsFor(path, 1)) /\ UnitsFor(path, 1) \in Seq(Units)
      BY <1>5, <2>6, <3>1, EntryMeans
    <3> HIDE DEF place
    <3>3. 0 < place /\ 0 \in Nat
      BY <3>2
    <3> QED
      BY <2>3, <2>4, <3>3 DEF Seeking, place
  <2>7. files'[open'.current] = root
    BY <1>2, <1>3
  <2> HIDE DEF root
  <2> QED
    BY <1>3, <1>4, <2>5, <2>6, <2>7 DEF OnTheWay
<1>9. OpensNamed'
  BY <1>3 DEF OpensNamed
<1>10. \E m : (OnPath(m) /\ (Sure => OnTheWay(m)))'
  BY <1>7, <1>8
<1>11. asked'.before <= failures' /\ asked'.path \in Paths \ {<< >>}
       /\ status' = "running" /\ answer' = NULL /\ files' = files
  <2>1. failures <= failures
    BY <1>6
  <2> QED
    BY <1>2, <1>4, <2>1 DEF Idle
<1> QED
  BY <1>3, <1>6, <1>9, <1>10, <1>11 DEF Led

LEMMA NotThisLeads ==
  ASSUME Findable, IInv, Led, NotThisEntry, IInv'
  PROVE  Led'
<1> DEFINE h == open.current
           fd == files[h]
<1>1. /\ status = "running" /\ open # NoOpen /\ open.path # << >> /\ h \in Ids
      /\ read.file = h /\ read.left = 0 /\ read.out # << >> /\ read.out[1].name # open.name
  BY EnteringMeans DEF NotThisEntry, Entering
<1>2. FindFile(open.path, h, fd, open.name)
  BY DEF NotThisEntry
<1>3. UNCHANGED <<status, files, held, failures, got, spoilt, asked, answer>>
  BY DEF NotThisEntry
<1>4. /\ open' # NoOpen /\ open'.path = open.path /\ open'.name = open.name
      /\ open'.current = h
  BY <1>1, <1>2, FindOpens
<1>5. PICK n : OnPath(n) /\ (Sure => OnTheWay(n))
  BY <1>1 DEF Led
<1>6. OnPath(n)'
  BY <1>3, <1>4, <1>5 DEF OnPath
<1>7. ASSUME Sure'
      PROVE  OnTheWay(n)'
  <2>1. Sure /\ OnTheWay(n)
    BY <1>3, <1>5, <1>7 DEF Sure
  <2>2. Beneath(asked.path, n, h, fd)
    BY <2>1 DEF OnTheWay
  <2>3. ASSUME Entries(asked.path)[n] # Missing
        PROVE  Seeking(asked.path[n], h, fd, read'.left, read'.out)
    <3> DEFINE units == UnitsOf(h, fd)
               name == asked.path[n]
               place == Place(units, name)
    <3>1. /\ asked.path \in Paths /\ n \in 1 .. Len(asked.path) /\ fd.isdir /\ fd \in FileType
          /\ units = UnitsFor(asked.path, n) /\ Seeking(name, h, fd, read.left, read.out)
      BY <1>1, <1>5, <2>1, <2>3, Directories
    <3>2. PICK k \in Nat : k \in 1 .. place /\ read.out = <<units[k]>> /\ (k < place => Spot(h, fd, k))
      BY <1>1, <3>1 DEF Seeking
    <3>3. place \in 1 .. Len(units) /\ Len(units) \in Nat /\ units[place].name = name
      <4>1. /\ units \in Seq(Units) /\ place \in 1 .. Len(units)
            /\ Entries(asked.path)[n] = units[place] /\ Entries(asked.path)[n].name = name
        BY <2>3, <3>1, EntryMeans
      <4> QED
        BY <4>1
    <3>4. open.name = name
      BY <1>5, <2>1 DEF OnPath, Sure
    <3> HIDE DEF units, name, place, fd
    <3>5. k # place
      BY <1>1, <3>2, <3>3, <3>4
    <3>6. k < place
      BY <3>2, <3>3, <3>5
    <3>7. read'.left = 1 /\ read'.out = << >>
      BY <1>2, <3>1, Starting
    <3> QED
      BY <3>2, <3>6, <3>7 DEF Seeking, place, units, name, fd
  <2> QED
    BY <1>3, <1>4, <2>2, <2>3 DEF OnTheWay
<1>8. \E m : (OnPath(m) /\ (Sure => OnTheWay(m)))'
  BY <1>6, <1>7
<1>9. OpensNamed'
  BY <1>4 DEF OpensNamed
<1>10. /\ asked.before <= failures /\ (asked = NoAnswer \/ asked.path \in Paths \ {<< >>})
       /\ (status = "running" => /\ files[ROOT_DIRECTORY_HANDLE].isdir
                                 /\ files[ROOT_DIRECTORY_HANDLE].first = rootDirLba)
       /\ asked.path # << >> /\ answer = NULL
  BY <1>1 DEF Led
<1> QED
  BY <1>1, <1>3, <1>4, <1>8, <1>9, <1>10 DEF Led

LEMMA NotFoundLeads ==
  ASSUME Findable, IInv, Led, NotFound, IInv'
  PROVE  Led'
<1>1. /\ TypeOK /\ status = "running" /\ open # NoOpen /\ open.current \in Ids
      /\ read.left = 0 /\ read.out = << >>
  BY EnteringMeans DEF NotFound, Entering
<1>2. /\ files' = FAT_Close(open.current) /\ open' = NoOpen /\ read' = NoRead
      /\ UNCHANGED <<status, held, failures, got, spoilt, asked, answer>>
  BY DEF NotFound
<1>3. PICK n : OnPath(n) /\ (Sure => OnTheWay(n))
  BY <1>1 DEF Led
<1>4. /\ asked.path \in Paths /\ n \in 1 .. Len(asked.path) /\ answer = NULL
      /\ asked.before \in Nat /\ failures \in Nat /\ asked.before <= failures
  <2>1. asked.before \in Nat /\ failures \in Nat
    BY <1>1, TypesAre
  <2> QED
    BY <1>1, <1>3, <2>1, NoAnswerIs DEF Led, OnPath
<1>5. ASSUME Sure
      PROVE  Lookup(asked.path) = Missing
  <2>1. OnTheWay(n)
    BY <1>3, <1>5
  <2> SUFFICES ASSUME Entries(asked.path)[n] # Missing PROVE FALSE
    BY <1>4, MissingStays
  <2>2. Seeking(asked.path[n], open.current, files[open.current], read.left, read.out)
    BY <1>1, <1>3, <2>1, Directories
  <2> QED
    BY <1>1, <2>2 DEF Seeking
<1>6. OpensNamed'
  <2>1. asked.fresh => Sure \/ failures > asked.before \/ ~asked.spelt
    BY <1>4 DEF Sure
  <2> QED
    BY <1>2, <1>4, <1>5, <2>1 DEF OpensNamed
<1>7. /\ files'[ROOT_DIRECTORY_HANDLE].isdir = files[ROOT_DIRECTORY_HANDLE].isdir
      /\ files'[ROOT_DIRECTORY_HANDLE].first = files[ROOT_DIRECTORY_HANDLE].first
  BY <1>1, <1>2, CloseRoot
<1>8. read'.file = NULL
  BY <1>2, NoHandle
<1> QED
  BY <1>1, <1>2, <1>4, <1>6, <1>7, <1>8 DEF Led

\* A unit of the name that is sought is the entry the path leads to.
LEMMA FoundEntry ==
  ASSUME Findable, IInv, Led, Found, NEW n, OnPath(n), Sure => OnTheWay(n)
  PROVE  LET entry == read.out[1]
         IN  /\ asked.path \in Paths /\ entry \in Units /\ asked.spelt
             /\ Sure => /\ OnTheWay(n) /\ entry = Entries(asked.path)[n] /\ entry # Missing
                        /\ OnDisk(FAT_ClusterToLba(entry.first))
<1> DEFINE entry == read.out[1]
           path == asked.path
<1>1. /\ status = "running" /\ open # NoOpen /\ read.left = 0 /\ read.out # << >>
      /\ read.out \in Seq(Units) /\ entry.name = open.name
  BY EnteringMeans DEF Found, Entering
<1>2. path \in Paths /\ n \in 1 .. Len(path)
  BY <1>1, NoAnswerIs DEF Led, OnPath
<1>3. entry \in Units /\ entry.name # Garbled
  <2>1. entry \in Units
    BY <1>1, HeadAndTail
  <2> QED
    BY <2>1, EntriesAssumption
<1>4. asked.spelt /\ entry.name = path[n]
  BY <1>1, <1>3 DEF OnPath
<1>5. ASSUME Sure
      PROVE  /\ OnTheWay(n) /\ entry = Entries(path)[n] /\ entry # Missing
             /\ OnDisk(FAT_ClusterToLba(entry.first))
  <2>1. OnTheWay(n)
    BY <1>5
  <2>2. Entries(path)[n] # Missing
    <3>1. \A m \in 1 .. n - 1 : Entries(path)[m] # Missing
      BY <2>1 DEF OnTheWay, Beneath
    <3> QED
      BY <1>2, <1>3, <1>4, <3>1, MissingMeans
  <2>3. entry = Entries(path)[n]
    <3> DEFINE h == open.current
               units == UnitsOf(h, files[h])
               name == path[n]
               place == Place(units, name)
    <3>1. units = UnitsFor(path, n) /\ Seeking(name, h, files[h], read.left, read.out)
      BY <1>1, <2>1, <2>2, Directories
    <3>2. PICK k \in Nat : k \in 1 .. place /\ read.out = <<units[k]>>
      BY <1>1, <3>1 DEF Seeking
    <3>3. /\ place \in Nat /\ Entries(path)[n] = units[place]
          /\ \A i \in 1 .. place - 1 : units[i].name # name
      BY <1>2, <2>2, <3>1, EntryMeans
    <3>4. units[k].name = name
      BY <1>4, <3>2
    <3> HIDE DEF units, name, place
    <3>5. k = place
      BY <3>2, <3>3, <3>4
    <3> QED
      BY <3>2, <3>3, <3>5
  <2>4. OnDisk(FAT_ClusterToLba(Entries(path)[n].first))
    BY <1>2, <2>2 DEF Findable
  <2> QED
    BY <2>1, <2>2, <2>3, <2>4
<1> QED
  BY <1>2, <1>3, <1>4, <1>5

\* The handle of a directory, at its first unit.
LEMMA StartSpot ==
  ASSUME NEW entry \in Units, Chains(entry.first) # {}, NEW h, h # ROOT_DIRECTORY_HANDLE,
         NEW buffer, buffer = Sectors[FAT_ClusterToLba(entry.first) % Addressable]
  PROVE  Spot(h, FAT_OpenEntry(entry, buffer), 0)
<1> DEFINE fd == FAT_OpenEntry(entry, buffer)
<1>1. /\ fd.pos = 0 /\ fd.first = entry.first
      /\ fd.current = entry.first /\ fd.sector = 0 /\ fd.buffer = buffer
  BY DEF FAT_OpenEntry, FileData
<1>2. /\ 1 \in 1 .. Len(Chain(entry.first)) /\ Chain(entry.first)[1] = entry.first
      /\ Index(1, 0, 0) = 0 /\ 0 \in 0 .. SECTOR_SIZE - 1
      /\ InBuffer(buffer, entry.first, 1, 0)
  BY FirstSector
<1> HIDE DEF fd
<1> QED
  BY <1>1, <1>2 DEF Spot, fd

LEMMA AllHeld ==
  ASSUME TypeOK, Handles \subseteq held
  PROVE  Cardinality(held \ {ROOT_DIRECTORY_HANDLE}) = MAX_FILE_HANDLES
<1>1. held \ {ROOT_DIRECTORY_HANDLE} = 0 .. MAX_FILE_HANDLES - 1
  BY TypesAre, NoHandle DEF Ids, Handles
<1>2. MAX_FILE_HANDLES \in Nat
  BY DiskAssumption
<1>3. Cardinality(0 .. MAX_FILE_HANDLES - 1) = MAX_FILE_HANDLES
  <2> DEFINE last == MAX_FILE_HANDLES - 1
  <2>1. last \in Int /\ (IF 0 > last THEN 0 ELSE last - 0 + 1) = MAX_FILE_HANDLES
    BY <1>2
  <2> HIDE DEF last
  <2>2. Cardinality(0 .. last) = IF 0 > last THEN 0 ELSE last - 0 + 1
    BY <2>1, FS_Interval
  <2>3. Cardinality(0 .. last) = MAX_FILE_HANDLES
    BY <2>1, <2>2
  <2> QED
    BY <2>3 DEF last
<1> QED
  BY <1>1, <1>3

\* FAT_Open gives NULL for an entry it found.
LEMMA NothingLeads ==
  ASSUME Findable, IInv, Led, Found, IInv',
         files' = FAT_Close(open.current), Proceed(NULL, Closed),
         \/ Handles \subseteq held /\ failures' = failures
         \/ DISK_ReadSectors(FAT_ClusterToLba(read.out[1].first), FALSE)
  PROVE  Led'
<1> DEFINE entry == read.out[1]
           lba == FAT_ClusterToLba(entry.first)
<1>1. TypeOK /\ status = "running" /\ open # NoOpen /\ open.current \in Ids
  BY EnteringMeans DEF Found
<1>2. PICK n : OnPath(n) /\ (Sure => OnTheWay(n))
  BY <1>1 DEF Led
<1>3. Sure => OnDisk(lba)
  BY <1>2, FoundEntry
<1> HIDE DEF lba
<1>4. /\ asked.before \in Nat /\ failures \in Nat /\ asked.before <= failures
      /\ asked.path \in Paths /\ asked.path # << >>
  <2>1. asked.before \in Nat /\ failures \in Nat
    BY <1>1, TypesAre
  <2> QED
    BY <1>1, <2>1, NoAnswerIs DEF Led
<1>5. /\ asked.before <= failures'
      /\ Handles \subseteq held \/ (Sure => failures' > asked.before)
      /\ failures = asked.before \/ failures' > asked.before
  <2>1. CASE Handles \subseteq held /\ failures' = failures
    BY <1>4, <2>1
  <2>2. CASE DISK_ReadSectors(lba, FALSE)
    <3>1. failures' = failures + (IF OnDisk(lba) THEN 1 ELSE 0)
      BY <2>2 DEF DISK_ReadSectors
    <3> QED
      BY <1>3, <1>4, <3>1 DEF Sure
  <2> QED
    BY <2>1, <2>2 DEF lba
<1>6. /\ files'[ROOT_DIRECTORY_HANDLE].isdir = files[ROOT_DIRECTORY_HANDLE].isdir
      /\ files'[ROOT_DIRECTORY_HANDLE].first = files[ROOT_DIRECTORY_HANDLE].first
  BY <1>1, CloseRoot
<1>7. read'.file = NULL /\ open' = NoOpen /\ asked' = asked
  BY NoHandle DEF Proceed
<1>8. status' = "wild" \/ (status' = status /\ answer' = NULL /\ held' = held)
  BY DEF Proceed
<1>9. status' = "wild" \/ status' = "running"
  BY <1>1, <1>8
<1>10. OpensNamed'
  <2> SUFFICES ASSUME status' = "running", asked.fresh
               PROVE  \/ Cardinality(held \ {ROOT_DIRECTORY_HANDLE}) = MAX_FILE_HANDLES
                      \/ failures' > asked.before \/ ~asked.spelt
    BY <1>7, <1>8 DEF OpensNamed
  <2> QED
    BY <1>1, <1>5, AllHeld DEF Sure
<1> QED
  BY <1>1, <1>4, <1>5, <1>6, <1>7, <1>9, <1>10 DEF Led

\* FAT_Open returns a handle.
LEMMA AnswerLeads ==
  ASSUME Findable, IInv, Led, Found, IInv', Len(open.path) = 1,
         NEW h \in Handles, NEW buffer,
         files'[h] = FAT_OpenEntry(read.out[1], buffer), Proceed(h, files'[h]),
         files'[ROOT_DIRECTORY_HANDLE] = FAT_Close(open.current)[ROOT_DIRECTORY_HANDLE],
         failures' = failures
  PROVE  Led'
<1> DEFINE entry == read.out[1]
           path == asked.path
<1>1. TypeOK /\ status = "running" /\ open # NoOpen /\ open.current \in Ids /\ h # NULL
  BY EnteringMeans, NoHandle DEF Found, Ids
<1>2. /\ answer' = h /\ open' = NoOpen /\ read'.file = NULL /\ asked' = asked
      /\ status' = "running"
  BY <1>1, NoHandle DEF Proceed
<1>3. PICK n : OnPath(n) /\ (Sure => OnTheWay(n))
  BY <1>1 DEF Led
<1>4. /\ path \in Paths /\ asked.spelt
      /\ Sure => entry = Entries(path)[n] /\ entry # Missing
  BY <1>3, FoundEntry
<1>5. n = Len(path)
  <2>1. path \in Seq(Names)
    BY <1>4, EntriesAssumption
  <2>2. Len(path) \in Nat
    BY <2>1
  <2>3. n \in 1 .. Len(path) /\ 1 = Len(path) - n + 1
    <3>1. OnPath(n)
      BY <1>3
    <3> QED
      BY <3>1 DEF OnPath
  <2> QED
    BY <2>2, <2>3
<1>6. files'[h] = FAT_OpenEntry(entry, files'[h].buffer)
  BY DEF FAT_OpenEntry, FileData
<1> HIDE DEF entry
<1>7. OpensNamed'
  <2> SUFFICES ASSUME Sure PROVE Lookup(path) # Missing
                                 /\ files'[h] = FAT_OpenEntry(Lookup(path), files'[h].buffer)
    BY <1>1, <1>2, <1>4 DEF OpensNamed, Sure
  <2> QED
    BY <1>4, <1>5, <1>6 DEF Lookup
<1>8. /\ files'[ROOT_DIRECTORY_HANDLE].isdir = files[ROOT_DIRECTORY_HANDLE].isdir
      /\ files'[ROOT_DIRECTORY_HANDLE].first = files[ROOT_DIRECTORY_HANDLE].first
  BY <1>1, CloseRoot
<1> QED
  BY <1>1, <1>2, <1>7, <1>8, NoAnswerIs DEF Led

\* FAT_Open goes on under the entry.
LEMMA GoesOnLeads ==
  ASSUME Findable, IInv, Led, Found, IInv', Len(open.path) # 1,
         NEW h \in Handles, NEW buffer,
         buffer = Sectors[FAT_ClusterToLba(read.out[1].first) % Addressable],
         buffer \in Buffer,
         files'[h] = FAT_OpenEntry(read.out[1], buffer), Proceed(h, files'[h]),
         files'[ROOT_DIRECTORY_HANDLE] = FAT_Close(open.current)[ROOT_DIRECTORY_HANDLE],
         failures' = failures
  PROVE  Led'
<1> DEFINE entry == read.out[1]
           path == asked.path
           new == files'[h]
<1>1. /\ TypeOK /\ status = "running" /\ open # NoOpen /\ open.current \in Ids /\ h # NULL
      /\ h # ROOT_DIRECTORY_HANDLE /\ open.path \in Seq(Names) /\ open.path # << >>
      /\ asked \in [path : Seq(Names), fresh : BOOLEAN, spelt : BOOLEAN, before : Nat]
  BY EnteringMeans, NoHandle, TypesAre DEF Found, Ids
<1>2. PICK name \in Spellings(open.path[2]) :
        /\ FindFile(Tail(open.path), h, new, name)
        /\ asked' = [asked EXCEPT !.spelt = @ /\ name = open.path[2]]
        /\ UNCHANGED <<status, held, answer>>
  BY <1>1 DEF Proceed
<1>3. /\ Tail(open.path) \in Seq(Names) /\ Tail(open.path) # << >>
      /\ Len(open.path) \in Nat /\ Len(open.path) # 0
  <2>1. Tail(open.path) \in Seq(Names) /\ Tail(open.path) # << >>
    BY <1>1, HeadAndTail
  <2>2. Len(open.path) \in Nat /\ Len(open.path) # 0
    BY <1>1
  <2> QED
    BY <2>1, <2>2
<1>4. /\ Len(Tail(open.path)) = Len(open.path) - 1
      /\ \A i \in 1 .. Len(Tail(open.path)) : Tail(open.path)[i] = open.path[i + 1]
  BY <1>1, <1>3, HeadTailProperties
<1>5. /\ open' # NoOpen /\ open'.path = Tail(open.path) /\ open'.name = name
      /\ open'.current = h
  BY <1>2, <1>3, FindOpens
<1>6. PICK n : OnPath(n) /\ (Sure => OnTheWay(n))
  BY <1>1 DEF Led
<1>7. /\ path \in Paths /\ entry \in Units /\ asked.spelt
      /\ Sure => OnTheWay(n) /\ entry = Entries(path)[n] /\ entry # Missing
  BY <1>6, FoundEntry
<1>8. /\ asked'.path = path /\ asked'.fresh = asked.fresh /\ asked'.before = asked.before
      /\ asked'.spelt = (name = open.path[2])
  BY <1>1, <1>2, <1>7
<1>9. /\ n \in Nat /\ n # 0 /\ Len(path) \in Nat /\ n <= Len(path)
      /\ Len(open.path) = Len(path) - n + 1
  <2>1. path \in Seq(Names)
    BY <1>7, EntriesAssumption
  <2>2. Len(path) \in Nat
    BY <2>1
  <2>3. OnPath(n)
    BY <1>6
  <2>4. n \in 1 .. Len(path) /\ Len(open.path) = Len(path) - n + 1
    BY <2>3 DEF OnPath
  <2> QED
    BY <2>2, <2>4
<1>10. \A m \in 1 .. Len(open.path) : open.path[m] = path[n + m - 1]
  <2>1. OnPath(n)
    BY <1>6
  <2> QED
    BY <2>1 DEF OnPath
<1>11. PICK p : p = n + 1
  OBVIOUS
<1>12. p \in 1 .. Len(path) /\ p - 1 = n /\ p # 1 /\ open.path[2] = path[p]
  <2>1. p \in 1 .. Len(path) /\ p - 1 = n /\ p # 1 /\ 2 \in 1 .. Len(open.path) /\ n + 2 - 1 = p
    BY <1>3, <1>9, <1>11
  <2>2. open.path[2] = path[n + 2 - 1]
    BY <1>10, <2>1
  <2> QED
    BY <2>1, <2>2
<1>13. OnPath(p)'
  <2> DEFINE tail == Tail(open.path)
  <2>1. Len(tail) = Len(open.path) - 1
    BY <1>4
  <2>2. \A i \in 1 .. Len(tail) : tail[i] = open.path[i + 1]
    BY <1>4
  <2> HIDE DEF tail
  <2>3. Len(tail) \in Nat /\ Len(tail) = Len(path) - p + 1
    BY <1>3, <1>9, <1>11, <2>1
  <2>4. ASSUME NEW m \in 1 .. Len(tail)
        PROVE  tail[m] = path[p + m - 1]
    <3>1. PICK j : j = m + 1
      OBVIOUS
    <3>2. j \in 1 .. Len(open.path) /\ n + j - 1 = p + m - 1
      BY <1>3, <1>9, <1>11, <2>1, <2>3, <3>1
    <3>3. open.path[j] = path[n + j - 1]
      BY <1>10, <3>2
    <3> QED
      BY <2>2, <3>1, <3>2, <3>3
  <2>5. name = IF asked'.spelt THEN path[p] ELSE Garbled
    BY <1>2, <1>8, <1>12 DEF Spellings
  <2>6. open'.path = tail
    BY <1>5 DEF tail
  <2> QED
    BY <1>5, <1>8, <1>12, <2>3, <2>4, <2>5, <2>6 DEF OnPath
<1>14. /\ new \in FileType /\ new.isdir = entry.dir /\ new.first = entry.first
       /\ Chains(entry.first) # {} => Spot(h, new, 0)
  <2>1. new \in FileType /\ new.isdir = entry.dir
    BY <1>7, EntryType
  <2>2. new.first = entry.first
    BY DEF FAT_OpenEntry, FileData
  <2>3. Chains(entry.first) # {} => Spot(h, new, 0)
    BY <1>1, <1>7, StartSpot
  <2> QED
    BY <2>1, <2>2, <2>3
<1> HIDE DEF entry, new
<1>15. ASSUME Sure'
       PROVE  OnTheWay(p)'
  <2>1. Sure
    BY <1>7, <1>8, <1>15 DEF Sure
  <2>2. Beneath(path, p, h, new)
    <3>1. \A m \in 1 .. n - 1 : Entries(path)[m] # Missing
      BY <1>7, <2>1 DEF OnTheWay, Beneath
    <3>2. \A m \in 1 .. p - 1 : m \in 1 .. n - 1 \/ m = n
      BY <1>9, <1>11
    <3>3. \A m \in 1 .. p - 1 : Entries(path)[m] # Missing
      BY <1>7, <2>1, <3>1, <3>2
    <3> QED
      BY <1>1, <1>7, <1>12, <1>14, <2>1, <3>3 DEF Beneath
  <2>3. ASSUME Entries(path)[p] # Missing
        PROVE  Seeking(path[p], h, new, read'.left, read'.out)
    <3>1. UnitsOf(h, new) = UnitsFor(path, p)
      BY <2>2, SoughtIn
    <3>2. entry.dir /\ Chains(entry.first) # {}
      <4>1. Entries(path)[p - 1].dir /\ Chains(Entries(path)[p - 1].first) # {}
        BY <1>7, <1>12, <2>3, EntryMeans
      <4> QED
        BY <1>7, <1>12, <2>1, <4>1
    <3> DEFINE place == Place(UnitsOf(h, new), path[p])
    <3>3. place \in 1 .. Len(UnitsFor(path, p)) /\ UnitsFor(path, p) \in Seq(Units)
      BY <1>7, <1>12, <2>3, <3>1, EntryMeans
    <3> HIDE DEF place
    <3>4. 0 < place /\ 0 \in Nat
      BY <3>3
    <3>5. read'.left = 1 /\ read'.out = << >>
      BY <1>2, <1>14, <3>2, Starting
    <3> QED
      BY <1>14, <3>2, <3>4, <3>5 DEF Seeking, place
  <2> QED
    BY <1>5, <1>8, <2>2, <2>3 DEF OnTheWay, new
<1>16. OpensNamed'
  BY <1>5 DEF OpensNamed
<1>17. \E m : (OnPath(m) /\ (Sure => OnTheWay(m)))'
  BY <1>13, <1>15
<1>18. /\ files'[ROOT_DIRECTORY_HANDLE].isdir = files[ROOT_DIRECTORY_HANDLE].isdir
       /\ files'[ROOT_DIRECTORY_HANDLE].first = files[ROOT_DIRECTORY_HANDLE].first
  BY <1>1, CloseRoot
<1>19. asked.before <= failures /\ answer = NULL /\ path # << >>
  BY <1>1 DEF Led
<1> QED
  BY <1>1, <1>2, <1>5, <1>7, <1>8, <1>16, <1>17, <1>18, <1>19 DEF Led

LEMMA FoundLeads ==
  ASSUME Findable, IInv, Led, Found, IInv'
  PROVE  Led'
<1> DEFINE closed == FAT_Close(open.current)
           entry == read.out[1]
           lba == FAT_ClusterToLba(entry.first)
           free == {k \in Handles : ~closed[k].opened}
           buffer == Sectors[lba % Addressable]
           fd == FAT_OpenEntry(entry, buffer)
           h == Min(free)
<1>1. /\ TypeOK /\ open.current \in Ids
      /\ open.current \in Handles => open.current \notin held
      /\ \A k \in Handles : files[k].opened <=> k \in held \/ open.current = k
  BY EnteringMeans DEF Found
<1>2. /\ closed \in [Ids -> FileType]
      /\ \A k \in Handles : closed[k].opened <=> k \in held
  BY <1>1, Closing
<1>3. \/ /\ free = {} /\ files' = closed
         /\ Proceed(NULL, Closed) /\ UNCHANGED <<failures, got, spoilt>>
      \/ /\ free # {} /\ DISK_ReadSectors(lba, FALSE)
         /\ files' = closed /\ Proceed(NULL, Closed)
      \/ /\ free # {} /\ DISK_ReadSectors(lba, TRUE)
         /\ files' = [closed EXCEPT ![h] = fd] /\ Proceed(h, fd)
  BY DEF Found
<1>4. free \in SUBSET Handles
  OBVIOUS
<1>5. free = {} => Handles \subseteq held
  BY <1>2
<1>6. DISK_ReadSectors(lba, TRUE) => buffer \in Buffer /\ failures' = failures + 0
  BY OnDiskBuffer DEF DISK_ReadSectors
<1>7. failures + 0 = failures
  BY <1>1, TypesAre
<1> HIDE DEF free
<1>8. CASE files' = closed /\ Proceed(NULL, Closed)
           /\ ((free = {} /\ failures' = failures) \/ DISK_ReadSectors(lba, FALSE))
  BY <1>5, <1>8, NothingLeads
<1>9. CASE /\ free # {} /\ DISK_ReadSectors(lba, TRUE)
           /\ files' = [closed EXCEPT ![h] = fd] /\ Proceed(h, fd)
  <2>1. h \in Handles /\ h \in Ids /\ h # ROOT_DIRECTORY_HANDLE
        /\ ROOT_DIRECTORY_HANDLE \in Ids
    BY <1>4, <1>9, FirstFree, NoHandle DEF Ids
  <2> HIDE DEF closed, h
  <2>2. files'[h] = fd /\ files'[ROOT_DIRECTORY_HANDLE] = closed[ROOT_DIRECTORY_HANDLE]
    BY <1>2, <1>9, <2>1
  <2>3. Proceed(h, files'[h]) /\ buffer \in Buffer /\ failures' = failures
    BY <1>6, <1>7, <1>9, <2>2
  <2>4. CASE Len(open.path) = 1
    BY <2>1, <2>2, <2>3, <2>4, AnswerLeads DEF closed
  <2>5. CASE Len(open.path) # 1
    BY <2>1, <2>2, <2>3, <2>5, GoesOnLeads DEF closed
  <2> QED
    BY <2>4, <2>5
<1> QED
  BY <1>3, <1>8, <1>9

LEMMA LedKept ==
  ASSUME Findable, IInv, Led, [Next]_vars, IInv'
  PROVE  Led'
<1>1. CASE UNCHANGED vars
  BY <1>1 DEF vars, Led, OpensNamed, OnPath, OnTheWay, Sure
<1>2. CASE Next
  BY <1>2, ReadingLeads, IdleLeads, OpenLeads, NotThisLeads, NotFoundLeads, FoundLeads
     DEF Next, Library, Program
<1> QED
  BY <1>1, <1>2

LEMMA LedFirst == Init => Led
<1> SUFFICES ASSUME Init PROVE Led
  OBVIOUS
<1> QED
  BY NoAnswerIs, NoHandle, 0 <= 0 DEF Init, Led, OpensNamed

(* On every volume with its directories in order, along a path of any      *)
(* length: FAT_Open called on a fresh root gives the file the path names,  *)
(* at its start, and NULL only when it is not there, the handles are taken,*)
(* a read failed or a name was not terminated.                             *)
THEOREM OpensWhatIsNamed ==
  ASSUME Findable
  PROVE  Spec => []OpensNamed
<1>1. IInv /\ Led /\ [Next]_vars /\ IInv' => Led'
  BY LedKept
<1>2. Led => OpensNamed
  BY DEF Led
<1> QED
  BY <1>1, <1>2, LedFirst, Inductive, PTL DEF Spec
=============================================================================
