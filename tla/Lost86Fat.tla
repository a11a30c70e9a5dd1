------------------------------ MODULE Lost86Fat ------------------------------
(***************************************************************************)
(* The FAT12 reader of the boot loader of Lost86: a root directory and a   *)
(* few file handles, each with the one sector of it that was read last.    *)
(* FAT_Open walks a path, FAT_Read reads on; both go through the loop of   *)
(* FAT_Read, one turn of which is a step.                                  *)
(*                                                                         *)
(* Sizes and positions count units of 32 bytes, the size of an entry of a  *)
(* directory.  A unit is what an entry tells, for text as well: any text   *)
(* can be taken for an entry.  The position of a directory matters modulo  *)
(* the sector and is kept so; the size of a directory is not used.         *)
(***************************************************************************)
EXTENDS Integers, FiniteSets, SequencesExt

CONSTANTS SECTOR_SIZE, SectorsPerCluster, MAX_FILE_HANDLES,
          Sectors,         \* the disk: for every sector its units
          Addressable,     \* sectors a cylinder, head and sector can name
          rootDirLba, g_DataSectionLba,
          g_Fat,           \* the table: for every cluster the next
          Behind,          \* what may be found behind the table
          ENDS,            \* 0xFF8: the least value that ends a chain
          Extended,        \* names with an extension of three letters
          Paths, Counts,   \* what the program opens, how much it reads at once
          MaxFailures      \* reads that fail although the sector exists

VARIABLES status,          \* "off", "running", "failed" or "wild"
          files,           \* RootDirectory and OpenedFiles
          open,            \* FAT_Open: what is left of the path, and where it is
          read,            \* FAT_Read: what is left to read, and what was read
          held,            \* the handles the program holds
          failures,
          got, spoilt,     \* history: what was read of a file; a read of it failed
          asked, answer    \* history: the last FAT_Open and its result

vars == <<status, files, open, read, held, failures, got, spoilt, asked, answer>>

ROOT_DIRECTORY_HANDLE == -1
NULL == -2
Handles == 0 .. MAX_FILE_HANDLES - 1
Units == UNION {Range(Sectors[lba]) : lba \in DOMAIN Sectors}
Garbled == "?"             \* a name no entry has
Searched == UNION {Range(path) : path \in Paths}
Names == {Garbled} \union Searched \union {u.name : u \in Units}

ASSUME DiskAssumption ==
  /\ SECTOR_SIZE \in Nat \ {0} /\ SectorsPerCluster \in Nat \ {0}
  /\ MAX_FILE_HANDLES \in Nat /\ MaxFailures \in Nat /\ Addressable \in Nat
  /\ \A lba \in DOMAIN Sectors :
        lba \in 0 .. Addressable - 1 /\ Sectors[lba] \in [1 .. SECTOR_SIZE -> Units]
  /\ {0, rootDirLba} \subseteq DOMAIN Sectors
  /\ g_DataSectionLba \in Nat /\ g_DataSectionLba > rootDirLba

ASSUME EntriesAssumption ==
  /\ Units \subseteq [name : Names, dir : BOOLEAN, first : Nat, size : Nat]
  /\ \A u \in Units : u.name # Garbled
  /\ DOMAIN g_Fat \subseteq Nat /\ Range(g_Fat) \subseteq Nat /\ Behind \subseteq Nat
  /\ ENDS \in Nat /\ \A c \in DOMAIN g_Fat : c < ENDS
  /\ Paths \subseteq Seq(Names) /\ Counts \subseteq Nat

-----------------------------------------------------------------------------
(* The disk.  A read is tried three times; what lies past the disk cannot  *)
(* be read, and the cylinder wraps to the start of the disk.               *)
OnDisk(lba) == lba % Addressable \in DOMAIN Sectors

DISK_ReadSectors(lba, ok) ==
  /\ ok => OnDisk(lba)
  /\ ~ok /\ OnDisk(lba) => failures < MaxFailures
  /\ failures' = failures + (IF ~ok /\ OnDisk(lba) THEN 1 ELSE 0)

Read(fd, lba, ok) == IF ok THEN [fd EXCEPT !.buffer = Sectors[lba % Addressable]] ELSE fd

FAT_ClusterToLba(cluster) == g_DataSectionLba + (cluster - 2) * SectorsPerCluster
FAT_NextCluster(c) == IF c \in DOMAIN g_Fat THEN {g_Fat[c]} ELSE Behind

-----------------------------------------------------------------------------
(* Files and handles.                                                      *)
FileData(opened, isdir, size, first, buffer) ==
  [opened |-> opened, isdir |-> isdir, pos |-> 0, size |-> size, first |-> first,
   current |-> first, sector |-> 0, buffer |-> buffer]

NotRead == [i \in 1 .. SECTOR_SIZE |-> Sectors[0][1]]
Closed == FileData(FALSE, FALSE, 0, 0, NotRead)
Free == {h \in Handles : ~files[h].opened}

NoOpen == [path |-> << >>, name |-> Garbled, current |-> ROOT_DIRECTORY_HANDLE]
NoRead == [file |-> NULL, left |-> 0, out |-> << >>]
NoAnswer == [path |-> << >>, fresh |-> FALSE, spelt |-> TRUE, before |-> 0]

Idle == status = "running" /\ open = NoOpen /\ read = NoRead

FAT_Initialize ==
  /\ status = "off"
  /\ \E ok \in BOOLEAN :
       /\ DISK_ReadSectors(rootDirLba, ok)
       /\ status' = IF ok THEN "running" ELSE "failed"
       /\ files' = IF ok
            THEN [files EXCEPT ![ROOT_DIRECTORY_HANDLE] =
                    FileData(TRUE, TRUE, 0, rootDirLba, Sectors[rootDirLba])]
            ELSE files
  /\ UNCHANGED <<open, read, held, got, spoilt, asked, answer>>

\* The root keeps the sector that was read last in its buffer.  What a closed
\* handle holds is never looked at and is not kept.
\* Wrong on purpose: the handle of a directory stays taken.
FAT_Close_files_only(h) ==
  IF h = ROOT_DIRECTORY_HANDLE
  THEN [files EXCEPT ![h].pos = 0, ![h].current = files[h].first]
  ELSE [files EXCEPT ![h] = IF files[h].isdir THEN @ ELSE Closed]

FAT_Close(h) ==
  IF h = ROOT_DIRECTORY_HANDLE
  THEN [files EXCEPT ![h].pos = 0, ![h].current = files[h].first]
  ELSE [files EXCEPT ![h] = Closed]

Close == \E h \in held :
  /\ Idle
  /\ files' = FAT_Close(h)
  /\ held' = held \ {h}
  /\ asked' = NoAnswer /\ answer' = NULL
  /\ UNCHANGED <<status, open, read, failures, got, spoilt>>

-----------------------------------------------------------------------------
(* FAT_Read.                                                               *)
Left(fd, byteCount) == IF fd.isdir THEN byteCount ELSE Min({byteCount, fd.size - fd.pos})

ReadFile == \E h \in held, byteCount \in Counts :
  /\ Idle
  /\ read' = [file |-> h, left |-> Left(files[h], byteCount), out |-> << >>]
  /\ asked' = NoAnswer /\ answer' = NULL
  /\ UNCHANGED <<status, files, open, held, failures, got, spoilt>>

\* Wrong on purpose: a whole sector is taken, whatever was asked for.
Take_whole(fd, byteCount) == SECTOR_SIZE - (fd.pos % SECTOR_SIZE)
Take(fd, byteCount) == Min({byteCount, SECTOR_SIZE - (fd.pos % SECTOR_SIZE)})

Advanced(fd, take) ==
  [fd EXCEPT !.pos = IF fd.isdir THEN (fd.pos + take) % SECTOR_SIZE ELSE fd.pos + take]
Drained(fd, take) == (fd.pos + take) % SECTOR_SIZE = 0

Turn(fd, left, take) ==
  LET from == files[read.file].pos % SECTOR_SIZE
  IN  /\ files' = [files EXCEPT ![read.file] = fd]
      /\ read' = [read EXCEPT !.left = left,
                    !.out = @ \o SubSeq(files[read.file].buffer, from + 1, from + take)]

\* The next sector, or the end of the chain; a cluster given by the table
\* or by what lies behind it.
\* Wrong on purpose: the first sector of a cluster is skipped.
Next_sector_skipped(fd) ==
  IF fd.sector + 1 < SectorsPerCluster THEN {[fd EXCEPT !.sector = @ + 1]}
  ELSE {[fd EXCEPT !.sector = SectorsPerCluster - 1, !.current = c] :
           c \in FAT_NextCluster(fd.current)}

NextSector(fd) ==
  IF fd.sector + 1 < SectorsPerCluster THEN {[fd EXCEPT !.sector = @ + 1]}
  ELSE {[fd EXCEPT !.sector = 0, !.current = c] : c \in FAT_NextCluster(fd.current)}

\* Wrong on purpose: the root stays at its sector.
NextRootSector_same(fd) == fd
NextRootSector(fd) == [fd EXCEPT !.current = (fd.current + 1) % Addressable]

WithinSector ==
  LET fd == files[read.file] take == Take(fd, read.left)
  IN  /\ read.left > 0 /\ ~Drained(fd, take)
      /\ Turn(Advanced(fd, take), read.left - take, take)
      /\ UNCHANGED <<failures, spoilt>>

\* A failed read ends the loop with what was taken; the position and the
\* place on the disk have moved on, the buffer has not.
Refill(fd, lba, take) == \E ok \in BOOLEAN :
  /\ DISK_ReadSectors(lba, ok)
  /\ Turn(Read(fd, lba, ok), IF ok THEN read.left - take ELSE 0, take)
  /\ spoilt' = IF ok THEN spoilt ELSE spoilt \union {read.file}

EndOfSector ==
  LET fd == files[read.file] take == Take(fd, read.left)
  IN  /\ read.left > 0 /\ Drained(fd, take)
      /\ IF read.file = ROOT_DIRECTORY_HANDLE
         THEN LET next == NextRootSector(Advanced(fd, take))
              IN  Refill(next, next.current, take)
         ELSE \E next \in NextSector(Advanced(fd, take)) :
                IF next.current >= ENDS
                THEN /\ Turn([next EXCEPT !.size = IF fd.isdir THEN 0 ELSE next.pos], 0, take)
                     /\ UNCHANGED <<failures, spoilt>>
                ELSE Refill(next, FAT_ClusterToLba(next.current) + next.sector, take)

Reading == /\ WithinSector \/ EndOfSector
           /\ UNCHANGED <<status, open, held, got, asked, answer>>

\* FAT_Read returns to the program.
ReadReturns ==
  /\ read.file # NULL /\ read.left = 0 /\ open = NoOpen
  /\ got' = IF files[read.file].isdir THEN got
            ELSE [got EXCEPT ![read.file] = @ \o read.out]
  /\ read' = NoRead
  /\ UNCHANGED <<status, files, open, held, failures, spoilt, asked, answer>>

-----------------------------------------------------------------------------
(* FAT_Open.  The copy of a name is not terminated: one without an         *)
(* extension is followed by what happens to be in memory.                  *)
Spellings(name) == IF name \in Extended THEN {name} ELSE {name, Garbled}

FindFile(path, h, fd, name) ==
  /\ open' = [path |-> path, name |-> name, current |-> h]
  /\ read' = [file |-> h, left |-> Left(fd, 1), out |-> << >>]

Fresh == LET root == files[ROOT_DIRECTORY_HANDLE]
         IN  /\ root.pos = 0 /\ root.current = root.first
             /\ root.buffer = Sectors[rootDirLba]

OpenRoot ==
  /\ Idle /\ << >> \in Paths
  /\ held' = held \union {ROOT_DIRECTORY_HANDLE}
  /\ asked' = NoAnswer /\ answer' = NULL
  /\ UNCHANGED <<status, files, open, read, failures, got, spoilt>>

OpenFile == \E path \in Paths \ {<< >>} : \E name \in Spellings(path[1]) :
  /\ Idle
  /\ FindFile(path, ROOT_DIRECTORY_HANDLE, files[ROOT_DIRECTORY_HANDLE], name)
  /\ asked' = [path |-> path, fresh |-> Fresh, spelt |-> name = path[1],
               before |-> failures]
  /\ answer' = NULL
  /\ UNCHANGED <<status, files, held, failures, got, spoilt>>

Entering == /\ status = "running" /\ open # NoOpen /\ read.left = 0

NotThisEntry ==
  /\ Entering /\ read.out # << >> /\ read.out[1].name # open.name
  /\ FindFile(open.path, open.current, files[open.current], open.name)
  /\ UNCHANGED <<status, files, held, failures, got, spoilt, asked, answer>>

NotFound ==
  /\ Entering /\ read.out = << >>
  /\ files' = FAT_Close(open.current)
  /\ open' = NoOpen /\ read' = NoRead
  /\ UNCHANGED <<status, held, failures, got, spoilt, asked, answer>>

\* What FAT_Open does with the handle, or NULL, of an entry: return it, or go
\* on under it; under NULL it reads whatever lies at address 0.
Proceed(h, fd) ==
  IF Len(open.path) = 1
  THEN /\ held' = held \union ({h} \ {NULL}) /\ answer' = h
       /\ open' = NoOpen /\ read' = NoRead
       /\ UNCHANGED <<status, asked>>
  ELSE IF h = NULL
  THEN /\ status' = "wild" /\ open' = NoOpen /\ read' = NoRead
       /\ UNCHANGED <<held, asked, answer>>
  ELSE \E name \in Spellings(open.path[2]) :
         /\ FindFile(Tail(open.path), h, fd, name)
         /\ asked' = [asked EXCEPT !.spelt = @ /\ name = open.path[2]]
         /\ UNCHANGED <<status, held, answer>>

\* Wrong on purpose: every entry is a file.
FAT_OpenEntry_flat(entry, buffer) ==
  FileData(TRUE, FALSE, IF entry.dir THEN 0 ELSE entry.size, entry.first, buffer)

FAT_OpenEntry(entry, buffer) ==
  FileData(TRUE, entry.dir, IF entry.dir THEN 0 ELSE entry.size, entry.first, buffer)

\* An entry that is not the last of the path is not asked whether it is a
\* directory: the mask of the attributes is compared first.
Found ==
  /\ Entering /\ read.out # << >> /\ read.out[1].name = open.name
  /\ LET closed == FAT_Close(open.current)
         entry == read.out[1]
         lba == FAT_ClusterToLba(entry.first)
         free == {h \in Handles : ~closed[h].opened}
         fd == FAT_OpenEntry(entry, Sectors[lba % Addressable])
     IN  \/ /\ free = {} /\ files' = closed
            /\ Proceed(NULL, Closed) /\ UNCHANGED <<failures, got, spoilt>>
         \/ /\ free # {} /\ DISK_ReadSectors(lba, FALSE)
            /\ files' = closed
            /\ Proceed(NULL, Closed) /\ UNCHANGED <<got, spoilt>>
         \/ /\ free # {} /\ DISK_ReadSectors(lba, TRUE)
            /\ files' = [closed EXCEPT ![Min(free)] = fd]
            /\ Proceed(Min(free), fd)
            /\ got' = [got EXCEPT ![Min(free)] = << >>]
            /\ spoilt' = spoilt \ {Min(free)}

-----------------------------------------------------------------------------
Init ==
  /\ status = "off"
  /\ files = [h \in Handles \union {ROOT_DIRECTORY_HANDLE} |-> Closed]
  /\ open = NoOpen /\ read = NoRead
  /\ held = {} /\ failures = 0
  /\ got = [h \in Handles |-> << >>] /\ spoilt = {}
  /\ asked = NoAnswer /\ answer = NULL

\* The turns of the loops of FAT_Read and FAT_FindFile.
Library == Reading \/ ReadReturns \/ NotThisEntry \/ NotFound \/ Found
Program == ReadFile \/ Close \/ OpenRoot \/ OpenFile
Next == FAT_Initialize \/ Library \/ Program

\* The loader is the only program on the machine: a loop goes on turning.
Spec == Init /\ [][Next]_vars /\ WF_vars(Library)

-----------------------------------------------------------------------------
(* What is on the disk, read off the table and not by the program.         *)
Clusters == {c \in DOMAIN g_Fat \ {0, 1} : \A s \in 0 .. SectorsPerCluster - 1 :
                                             FAT_ClusterToLba(c) + s \in DOMAIN Sectors}

IsChain(chain, first) ==
  /\ chain # << >> /\ chain[1] = first
  /\ \A i \in 1 .. Len(chain) - 1 : g_Fat[chain[i]] = chain[i + 1]
  /\ g_Fat[chain[Len(chain)]] >= ENDS

Chains(first) == {chain \in SeqOf(Clusters, Cardinality(Clusters)) : IsChain(chain, first)}
Chain(first) == CHOOSE chain \in Chains(first) : TRUE

\* A sound volume: the chain of a file a path may find runs to its end.
Chained == \A u \in Units :
  u.name \in Searched /\ ~u.dir /\ u.size > 0 => Chains(u.first) # {}

\* The units of the file or directory that starts at a cluster.
Content == [first \in Clusters |->
  [k \in 1 .. Len(Chain(first)) * SectorsPerCluster * SECTOR_SIZE |->
     LET n == (k - 1) \div SECTOR_SIZE
         cluster == Chain(first)[(n \div SectorsPerCluster) + 1]
     IN  Sectors[FAT_ClusterToLba(cluster) + (n % SectorsPerCluster)]
                [((k - 1) % SECTOR_SIZE) + 1]]]

RootUnits == [k \in 1 .. (g_DataSectionLba - rootDirLba) * SECTOR_SIZE |->
  Sectors[rootDirLba + ((k - 1) \div SECTOR_SIZE)][((k - 1) % SECTOR_SIZE) + 1]]

Missing == [name |-> Garbled, dir |-> FALSE, first |-> 0, size |-> 0]
In(units, name) ==
  LET i == SelectInSeq(units, LAMBDA u : u.name = name)
  IN  IF i = 0 THEN Missing ELSE units[i]

\* The entries a path leads along, by the names of its directories.
Entries(path) ==
  LET at[n \in 1 .. Len(path)] ==
        IF n = 1 THEN In(RootUnits, path[1])
        ELSE IF at[n - 1].dir THEN In(Content[at[n - 1].first], path[n]) ELSE Missing
  IN  at

Lookup(path) == Entries(path)[Len(path)]

\* A volume to open files on: the root is there, a directory that a path goes
\* through runs to its end, what a path leads to starts on the disk, and a
\* name that is missing where it is sought is not found elsewhere instead.
Findable ==
  /\ rootDirLba .. g_DataSectionLba - 1 \subseteq DOMAIN Sectors
  /\ \A path \in Paths : \A n \in 1 .. Len(path) :
       LET entry == Entries(path)[n]
       IN  IF entry = Missing
           THEN \E m \in 1 .. n : \A u \in Units : u.name # path[m]
           ELSE /\ OnDisk(FAT_ClusterToLba(entry.first))
                /\ n < Len(path) /\ entry.dir => Chains(entry.first) # {}

-----------------------------------------------------------------------------
(* Properties.                                                             *)

\* Every variable keeps its type; a file is never read past its size, nor a
\* sector past its end (FAT_Read).
TypeOK ==
  /\ status \in {"off", "running", "failed", "wild"}
  /\ files \in [Handles \union {ROOT_DIRECTORY_HANDLE} ->
       [opened : BOOLEAN, isdir : BOOLEAN, pos : Nat, size : Nat, first : Nat,
        current : Nat, sector : 0 .. SectorsPerCluster - 1,
        buffer : [1 .. SECTOR_SIZE -> Units]]]
  /\ \A h \in DOMAIN files : files[h].isdir \/ files[h].pos <= files[h].size
  /\ open \in [path : Seq(Names), name : Names, current : DOMAIN files]
  /\ read \in [file : DOMAIN files \union {NULL}, left : Nat, out : Seq(Units)]
  /\ held \subseteq DOMAIN files /\ failures \in 0 .. MaxFailures
  /\ got \in [Handles -> Seq(Units)] /\ spoilt \subseteq DOMAIN files
  /\ asked \in [path : Seq(Names), fresh : BOOLEAN, spelt : BOOLEAN, before : Nat]
  /\ answer \in DOMAIN files \union {NULL}

\* A handle is taken exactly while the program holds it or FAT_Open searches
\* the directory behind it: no path, found or not, leaks or frees one.
HandlesHeld ==
  status = "running" =>
    \A h \in Handles : files[h].opened <=> h \in held \/ (open # NoOpen /\ open.current = h)

\* What FAT_Read has given of a file, in pieces of any size, over any number
\* of sectors and clusters, with other files read in between, is the start of
\* its text, unless a sector of it could not be read.
ReadsInOrder ==
  \A h \in (held \ spoilt) \ {ROOT_DIRECTORY_HANDLE} : ~files[h].isdir =>
    /\ read.file # h => Len(got[h]) = files[h].pos
    /\ got[h] = SubSeq(Content[files[h].first], 1, Len(got[h]))

\* FAT_Open, called while the root is as FAT_Initialize left it, returns the
\* file the path names, at its start; NULL only when it is not there, the
\* handles are taken, a read failed or a name was not terminated.
OpensNamed ==
  (status = "running" /\ open = NoOpen /\ asked.path # << >> /\ asked.fresh) =>
    IF answer = NULL
    THEN \/ Lookup(asked.path) = Missing \/ Cardinality(held \ {ROOT_DIRECTORY_HANDLE}) = MAX_FILE_HANDLES
         \/ failures > asked.before \/ ~asked.spelt
    ELSE failures = asked.before =>
           LET entry == Lookup(asked.path)
           IN  entry # Missing /\ files[answer] = FAT_OpenEntry(entry, files[answer].buffer)

Searching(path) == open # NoOpen /\ asked.path = path

\* The search for a file that is there ends, while reads do not fail, names are
\* terminated and the search began at the start of the root.
OpenReturns ==
  \A path \in {p \in Paths : p # << >> /\ Lookup(p) # Missing} :
    (Searching(path) /\ asked.fresh) ~>
      (open = NoOpen \/ failures > asked.before \/ ~asked.spelt)

\* "FAT: %s not found" (fat.c:339): the search for a name that is not there ends.
MissingIsNotFound ==
  \A path \in {p \in Paths : p # << >> /\ Lookup(p) = Missing} :
    Searching(path) ~> open = NoOpen
=============================================================================
