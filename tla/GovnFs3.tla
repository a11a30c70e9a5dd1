------------------------------- MODULE GovnFs3 -------------------------------
(***************************************************************************)
(* ugovnfs3, the tool that keeps a GovnFS 3.0 disk image: the table of     *)
(* clusters, the directory of all entries and the data clusters.  Every    *)
(* run of the tool reads the image, carries out one command in memory and  *)
(* writes the whole image back over the file, from the front: a crash      *)
(* leaves the new table, then the new directory, then the new data up to   *)
(* some point (Save).  Reading and listing write nothing.                  *)
(*                                                                         *)
(* A block of 2048 bytes is a text and whether its last word was           *)
(* overwritten; a name is its first eight characters, how many characters  *)
(* it has beyond them, and the length of its extension.                    *)
(***************************************************************************)
EXTENDS Integers, Sequences, FiniteSets

CONSTANTS Clusters,     \* the clusters that have a word in the table
          Inside,       \* those of them that lie in the image
          StrayCluster, \* the cluster at 0x20000, whose last word is at 0x207FE
          Last,         \* the last entry of the directory; 0 is the root
          DirNames, FileNames, Texts,
          Paths,        \* sequences of directory names
          Contents      \* the files to be written

VARIABLES table, dir, data,
          cut,          \* the image was not written to its end
          owner         \* history: the entry whose file a cluster was taken for

vars == <<table, dir, data, cut, owner>>

TFILE == 0
TDIR  == 1
CFREE == 0
CENDC == 65528          \* 0xFFF8
PBAD  == 65535          \* 0xFFFF
Entries == 0 .. Last
Zeros == "zeros"        \* the text of a cluster that was never written

ASSUME GeometryAssumption ==
  /\ Last \in Nat /\ Last < PBAD
  /\ Clusters \in SUBSET (1 .. CENDC - 1) /\ Inside \subseteq Clusters
  /\ \A c \in Inside : \A k \in Clusters : k < c => k \in Inside
  /\ Paths \subseteq Seq(DirNames) /\ "/" \notin DirNames
  /\ \A c \in Contents : c.blocks \in Seq(Texts) /\ c.full \in BOOLEAN

-----------------------------------------------------------------------------
(* Names.  writef stores the name of a file and tok() splits the last      *)
(* component of a path, each in its own way.  An extension of one letter   *)
(* is stored with its terminator and sought with the byte behind it; a     *)
(* ninth letter is dropped by the one and kept by the other, unless the    *)
(* extension covers it; with ten the extension is taken one byte late.     *)
Kept(n) == <<n.base, n.ext,
             IF n.beyond > 1 THEN "shifted" ELSE IF n.ext = 1 THEN "ended" ELSE "padded">>
Sought(n) == <<n.base, n.ext,
               IF n.beyond > 0 /\ n.ext = 0 THEN "longer"
               ELSE IF n.ext = 1 THEN "overrun" ELSE "padded">>

-----------------------------------------------------------------------------
(* Looking up.                                                             *)
\* Wrong on purpose: the last of several entries of a name is found.
inodeidx_newest(name, parent, t) ==
  LET same == {i \in Entries : /\ dir[i].type = t /\ dir[i].name = name
                               /\ dir[i].parent = parent}
  IN  IF same = {} THEN PBAD ELSE CHOOSE i \in same : \A j \in same : j <= i

inodeidx(name, parent, t) ==
  LET same == {i \in Entries : /\ dir[i].type = t /\ dir[i].name = name
                               /\ dir[i].parent = parent}
  IN  IF same = {} THEN PBAD ELSE CHOOSE i \in same : \A j \in same : i <= j

\* The directories of a path, from the root on.  The tool looks at the text
\* before the last stroke only: "/a" is the root and "/a/" is the directory.
pathidx(path) ==
  LET at[k \in 0 .. Len(path)] ==
        IF k = 0 THEN 0
        ELSE LET parent == at[k - 1]
             IN  IF parent = PBAD THEN PBAD ELSE inodeidx(<<path[k]>>, parent, TDIR)
  IN  at[Len(path)]

\* The clusters of a file: what is read from cluster c on.
Chain[c \in Clusters] ==
  IF table[c] \in Clusters /\ table[c] > c THEN <<c>> \o Chain[table[c]] ELSE <<c>>

Unreadable == [is |-> "unreadable", blocks |-> << >>]

\* No clusters, or clusters that lie outside the image.
irdfile == [i \in Entries |->
  IF dir[i].first = CFREE THEN Unreadable
  ELSE LET s == Chain[dir[i].first]
       IN  IF \E k \in DOMAIN s : s[k] \notin Inside THEN Unreadable
           ELSE [is |-> "file", blocks |-> [k \in DOMAIN s |-> data[s[k]]]]]

uread(path, sought) ==
  LET parent == pathidx(path)
      i == IF parent = PBAD THEN PBAD ELSE inodeidx(sought, parent, TFILE)
  IN  IF i = PBAD THEN [is |-> "absent", blocks |-> << >>] ELSE irdfile[i]

-----------------------------------------------------------------------------
(* Writing the image back.                                                 *)
UpTo(k, new, old) == [c \in DOMAIN old |-> IF c <= k THEN new[c] ELSE old[c]]

\* Wrong on purpose: the directory reaches the disk before the table.
Save_directory_first(t, d, b, o) ==
  \/ table' = t /\ dir' = d /\ data' = b /\ owner' = o /\ cut' = FALSE
  \/ /\ \E k \in Clusters : table' = UpTo(k, t, table)
     /\ dir' = d /\ owner' = o /\ cut' = TRUE
     /\ UNCHANGED data

Save(t, d, b, o) ==
  \/ table' = t /\ dir' = d /\ data' = b /\ owner' = o /\ cut' = FALSE
  \/ /\ \E k \in Clusters :
          \/ table' = UpTo(k, t, table) /\ UNCHANGED <<dir, data, owner>>
          \/ table' = t /\ dir' = d /\ data' = UpTo(k, b, data) /\ owner' = o
     /\ cut' = TRUE

-----------------------------------------------------------------------------
(* The commands.                                                           *)
Entry(name, t, parent, first, size) ==
  [name |-> name, type |-> t, parent |-> parent, first |-> first, size |-> size]
NoEntry == Entry(<< >>, TFILE, 0, CFREE, 0)
Root == Entry(<<"/">>, TDIR, 0, CFREE, 0)
Fresh == [text |-> Zeros, blotted |-> FALSE]

uformat ==
  /\ table' = [c \in Clusters |-> CFREE]
  /\ dir' = [i \in Entries |-> IF i = 0 THEN Root ELSE NoEntry]
  /\ data' = [c \in Inside |-> Fresh]
  /\ cut' = FALSE
  /\ owner' = [c \in Clusters |-> PBAD]

\* freinode and freclust have no end: the tool is run while there is room.
freinode(i) == dir[i].name = << >> /\ \A j \in 0 .. i - 1 : dir[j].name # << >>
Free == {c \in Clusters : table[c] = CFREE}

\* What freclust answers n times: always the lowest cluster still free.
Taken(n) == {s \in [1 .. n -> Free] :
               \A k \in 1 .. n : \A c \in Free :
                 (c < s[k] <=> \E j \in 1 .. k - 1 : s[j] = c)}
Numbered(s, c) == \E k \in DOMAIN s : s[k] = c
Number(s, c) == CHOOSE k \in DOMAIN s : s[k] = c

\* Each new cluster is linked from the one before it, the last one is ended.
Linked(s) ==
  [c \in Clusters |-> IF ~Numbered(s, c) THEN table[c]
                      ELSE IF Number(s, c) = Len(s) THEN CENDC
                      ELSE s[Number(s, c) + 1]]

\* Wrong on purpose: every cluster gets the beginning of the file.
Filled_amountless(s, f) ==
  [c \in Inside |->
     IF ~Numbered(s, c) THEN data[c]
     ELSE [text |-> f.blocks[1],
           blotted |-> Number(s, c) = Len(s) /\ ~f.full /\ data[c].blotted]]

\* The last block of a file covers the whole cluster only if it is full.
Filled(s, f) ==
  [c \in Inside |->
     IF ~Numbered(s, c) THEN data[c]
     ELSE [text |-> f.blocks[Number(s, c)],
           blotted |-> Number(s, c) = Len(s) /\ ~f.full /\ data[c].blotted]]

\* clust2 is still 0xFFFF when nothing was written, and its word in the table
\* is the last one of StrayCluster.
Strayed == [c \in Inside |-> IF c = StrayCluster THEN [data[c] EXCEPT !.blotted = TRUE]
                             ELSE data[c]]

Claimed(s, i) == [c \in Clusters |-> IF Numbered(s, c) THEN i ELSE owner[c]]

\* The entry is written before the path is looked up, and stays when the path
\* leads nowhere.  Outside the image the clusters are memory of the host: the
\* tool may fault before it saves, or what it writes there is lost.
writef(path, n, f) ==
  \E free \in Entries :
    LET Entered(parent, first) ==
          [dir EXCEPT ![free] = Entry(Kept(n), TFILE, parent, first, Len(f.blocks))]
    IN  /\ freinode(free)
        /\ \/ pathidx(path) = PBAD /\ Save(table, Entered(0, CFREE), data, owner)
           \/ \E parent \in Entries :
                /\ pathidx(path) = parent
                /\ f.blocks = << >>
                /\ Save(table, Entered(parent, CFREE), Strayed, owner)
           \/ \E parent \in Entries :
                /\ pathidx(path) = parent
                /\ f.blocks # << >>
                /\ \E s \in Taken(Len(f.blocks)) :
                     \/ Save(Linked(s), Entered(parent, s[1]), Filled(s, f),
                             Claimed(s, free))
                     \/ (\E k \in DOMAIN s : s[k] \notin Inside) /\ UNCHANGED vars

\* Wrong on purpose: a path that leads nowhere is taken.
dircr_unchecked(path, d) ==
  \E free \in Entries :
    /\ freinode(free)
    /\ Save(table, [dir EXCEPT ![free] = Entry(<<d>>, TDIR, pathidx(path), CFREE, 0)],
            data, owner)

dircr(path, d) ==
  \E free \in Entries :
    /\ freinode(free)
    /\ \/ pathidx(path) = PBAD /\ Save(table, dir, data, owner)
       \/ \E parent \in Entries :
            /\ pathidx(path) = parent
            /\ Save(table, [dir EXCEPT ![free] = Entry(<<d>>, TDIR, parent, CFREE, 0)],
                    data, owner)

Init == /\ table = [c \in Clusters |-> CFREE]
        /\ dir = [i \in Entries |-> IF i = 0 THEN Root ELSE NoEntry]
        /\ data = [c \in Inside |-> Fresh]
        /\ cut = FALSE
        /\ owner = [c \in Clusters |-> PBAD]

Next == \/ uformat
        \/ \E path \in Paths : \/ \E n \in FileNames, f \in Contents : writef(path, n, f)
                               \/ \E d \in DirNames : dircr(path, d)

Spec == Init /\ [][Next]_vars

-----------------------------------------------------------------------------
(* The words of the table, the entries and the history are of their types. *)
Names == Seq({"/"} \cup DirNames) \cup {Kept(n) : n \in FileNames}
EntryRecords == [name : Names, type : {TFILE, TDIR}, parent : Entries,
                 first : {CFREE} \cup Clusters, size : Nat]
Blocks == [text : Texts \cup {Zeros}, blotted : BOOLEAN]

TypeOK ==
  /\ table \in [Clusters -> {CFREE, CENDC} \cup Clusters]
  /\ dir \in [Entries -> EntryRecords]
  /\ data \in [Inside -> Blocks]
  /\ owner \in [Clusters -> Entries \cup {PBAD}]
  /\ cut \in BOOLEAN

(* No two files share a cluster and every chain comes to its end: the first*)
(* cluster of an entry and every cluster linked from one of its own belong *)
(* to that entry, none is free, and links lead upwards.  It survives a     *)
(* crash at any point of the writing, which leaves the links of an         *)
(* unfinished file in the table, some to clusters that are free again.     *)
NoSharing ==
  /\ \A i \in Entries : dir[i].first # CFREE => owner[dir[i].first] = i
  /\ \A c \in Clusters : owner[c] # PBAD =>
       /\ table[c] # CFREE
       /\ table[c] \in Clusters => owner[table[c]] = owner[c] /\ table[c] > c

Places == Paths \X {Sought(n) : n \in FileNames}
Store == [p \in Places |-> uread(p[1], p[2])]
Promise == INSTANCE FileStore
             WITH Files <- [is : {"file", "unreadable"},
                            blocks : Seq(Blocks)],
                  store <- Store

(* Read by path, the image is a FileStore: whatever is written later,      *)
(* under the same name, into the same directory, on a full image or with a *)
(* crash in between, a file that could be read is still read the same.     *)
ImplementsStore == Promise!Spec

TextsAt(path, n) == LET b == uread(path, Sought(n)).blocks
                    IN  [k \in DOMAIN b |-> b[k].text]
Fits(f) == Cardinality(Free \cap Inside) >= Len(f.blocks)

(* A file written under a name that can be sought, to a directory that is  *)
(* there, where nothing was found before, is read back as it was written.  *)
WrittenIsRead ==
  [][\A path \in Paths, n \in FileNames, f \in Contents :
       (/\ ~cut' /\ f.blocks # << >> /\ Kept(n) = Sought(n) /\ Fits(f)
        /\ pathidx(path) # PBAD /\ uread(path, Sought(n)).is = "absent"
        /\ writef(path, n, f))
       => TextsAt(path, n)' = f.blocks]_vars
=============================================================================
