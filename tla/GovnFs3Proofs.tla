---------------------------- MODULE GovnFs3Proofs -----------------------------
(***************************************************************************)
(* The clusters of a GovnFS image are never shared, for any size of the    *)
(* table, the image and the directory, through every crash; a command      *)
(* changes at most the one file it names; and what was written completely  *)
(* is read back.                                                           *)
(***************************************************************************)
EXTENDS GovnFs3, TLAPS, WellFoundedInduction, FiniteSetTheorems

Tables == [Clusters -> {CFREE, CENDC} \cup Clusters]
Owners == [Clusters -> Entries \cup {PBAD}]
Dirs   == [Entries -> EntryRecords]

\* NoSharing, of an image that is still in memory.
Separate(t, d, o) ==
  /\ \A i \in Entries : d[i].first # CFREE => o[d[i].first] = i
  /\ \A c \in Clusters : o[c] # PBAD =>
       /\ t[c] # CFREE
       /\ t[c] \in Clusters => o[t[c]] = o[c] /\ t[c] > c

IInv == TypeOK /\ NoSharing

LEMMA Numbers ==
  /\ Clusters \in SUBSET Nat /\ \A c \in Clusters : c > 0 /\ c < CENDC
  /\ Last \in Nat /\ Last < PBAD /\ Inside \in SUBSET Clusters /\ 0 \in Entries
  /\ \A i \in Entries : i \in Nat /\ i # PBAD
<1>1. \A c \in Clusters : c \in Nat /\ c > 0 /\ c < CENDC
  <2>1. \A c \in Clusters : c \in 1 .. CENDC - 1
    BY GeometryAssumption
  <2>2. CENDC \in Nat
    BY DEF CENDC
  <2> QED
    BY <2>1, <2>2
<1>2. Last \in Nat /\ Last < PBAD /\ 0 \in Entries /\ \A i \in Entries : i \in Nat /\ i # PBAD
  BY GeometryAssumption DEF Entries, PBAD
<1> QED
  BY <1>1, <1>2, GeometryAssumption

LEMMA SeparateNow == NoSharing <=> Separate(table, dir, owner)
BY DEF NoSharing, Separate

-----------------------------------------------------------------------------
(* Whatever part of an image reaches the disk: when it separates the files *)
(* and leaves the owned words of the table as they are, the disk does too. *)
LEMMA Saving ==
  ASSUME IInv, NEW t \in Tables, NEW d \in Dirs, NEW b \in [Inside -> Blocks],
         NEW o \in Owners, Save(t, d, b, o), Separate(t, d, o),
         \A c \in Clusters : owner[c] # PBAD => t[c] = table[c]
  PROVE  IInv'
<1>1. CASE table' = t /\ dir' = d /\ data' = b /\ owner' = o /\ cut' = FALSE
  <2>1. TypeOK'
    BY <1>1 DEF TypeOK, Tables, Dirs, Owners
  <2> QED
    BY <1>1, <2>1 DEF IInv, NoSharing, Separate
<1>2. ASSUME NEW k \in Clusters, table' = UpTo(k, t, table), UNCHANGED <<dir, data, owner>>,
             cut' = TRUE
      PROVE  IInv'
  <2>1. table \in Tables /\ table' = [c \in Clusters |-> IF c <= k THEN t[c] ELSE table[c]]
    BY <1>2 DEF UpTo, IInv, TypeOK, Tables
  <2>2. table' \in Tables
    BY <2>1 DEF Tables
  <2>3. TypeOK'
    BY <1>2, <2>2 DEF IInv, TypeOK, Tables
  <2>4. \A c \in Clusters : owner[c] # PBAD => table'[c] = table[c]
    BY <2>1
  <2> QED
    BY <1>2, <2>3, <2>4 DEF IInv, NoSharing
<1>3. ASSUME NEW k \in Clusters, table' = t, dir' = d, data' = UpTo(k, b, data), owner' = o,
             cut' = TRUE
      PROVE  IInv'
  <2>1. data' \in [Inside -> Blocks]
    <3>1. data \in [Inside -> Blocks]
      BY DEF IInv, TypeOK
    <3>2. data' = [c \in Inside |-> IF c <= k THEN b[c] ELSE data[c]]
      BY <1>3, <3>1 DEF UpTo
    <3> QED
      BY <3>1, <3>2
  <2>2. TypeOK'
    BY <1>3, <2>1 DEF TypeOK, Tables, Dirs, Owners
  <2> QED
    BY <1>3, <2>2 DEF IInv, NoSharing, Separate
<1> QED
  BY <1>1, <1>2, <1>3 DEF Save

-----------------------------------------------------------------------------
(* An entry without clusters.                                              *)
LEMMA EntryTypes ==
  ASSUME NEW name \in Names, NEW t \in {TFILE, TDIR}, NEW p \in Entries,
         NEW c \in {CFREE} \cup Clusters, NEW n \in Nat
  PROVE  Entry(name, t, p, c, n) \in EntryRecords /\ Entry(name, t, p, c, n).first = c
BY DEF Entry, EntryRecords

LEMMA NameTypes ==
  /\ << >> \in Names /\ <<"/">> \in Names
  /\ \A d \in DirNames : <<d>> \in Names
  /\ \A n \in FileNames : Kept(n) \in Names
<1>1. \A n \in FileNames : Kept(n) \in Names
  BY DEF Names
<1>2. \A d \in DirNames \cup {"/"} : <<d>> \in Names
  BY DEF Names
<1>3. << >> \in Names
  BY DEF Names
<1> QED
  BY <1>1, <1>2, <1>3

LEMMA EntryOnly ==
  ASSUME IInv, NEW i \in Entries, NEW e \in EntryRecords, e.first = CFREE
  PROVE  /\ [dir EXCEPT ![i] = e] \in Dirs
         /\ Separate(table, [dir EXCEPT ![i] = e], owner)
<1>1. dir \in Dirs
  BY DEF IInv, TypeOK, Dirs
<1> DEFINE d == [dir EXCEPT ![i] = e]
<1>2. d \in Dirs /\ \A j \in Entries : d[j] = IF j = i THEN e ELSE dir[j]
  BY <1>1 DEF Dirs
<1> QED
  BY <1>2 DEF IInv, NoSharing, Separate

-----------------------------------------------------------------------------
(* The clusters of a new file: distinct, and each above the one before it. *)
LEMMA TakenRise ==
  ASSUME TypeOK, NEW n \in Nat, NEW s \in Taken(n)
  PROVE  /\ DOMAIN s = 1 .. n /\ Len(s) = n
         /\ \A k \in 1 .. n : s[k] \in Clusters /\ table[s[k]] = CFREE
         /\ \A j, k \in 1 .. n : j < k => s[j] < s[k]
<1>1. s \in [1 .. n -> Free] /\ s \in Seq(Free)
  BY DEF Taken
<1>2. \A k \in 1 .. n : s[k] \in Clusters /\ table[s[k]] = CFREE
  BY <1>1 DEF Free
<1>3. ASSUME NEW k \in 1 .. n, NEW j \in 1 .. k - 1
      PROVE  s[j] < s[k]
  <2>1. j \in 1 .. n /\ s[j] \in Free
    BY <1>1
  <2> QED
    BY <2>1 DEF Taken
<1> QED
  BY <1>1, <1>2, <1>3

LEMMA Numbering ==
  ASSUME TypeOK, NEW n \in Nat, NEW s \in Taken(n)
  PROVE  /\ \A k \in 1 .. n : Numbered(s, s[k]) /\ Number(s, s[k]) = k
         /\ \A c \in Clusters : Numbered(s, c) =>
              Number(s, c) \in 1 .. n /\ s[Number(s, c)] = c /\ table[c] = CFREE
<1>1. /\ DOMAIN s = 1 .. n
      /\ \A k \in 1 .. n : s[k] \in Clusters /\ table[s[k]] = CFREE
      /\ \A j, k \in 1 .. n : j < k => s[j] < s[k]
  BY TakenRise
<1>2. ASSUME NEW j \in 1 .. n, NEW k \in 1 .. n, s[j] = s[k]
      PROVE  j = k
  <2>1. s[j] \in Nat /\ s[k] \in Nat
    BY <1>1, Numbers
  <2>2. ~(j < k) /\ ~(k < j)
    BY <1>1, <1>2, <2>1
  <2> QED
    BY <2>2
<1>3. ASSUME NEW c, Numbered(s, c)
      PROVE  Number(s, c) \in 1 .. n /\ s[Number(s, c)] = c
  BY <1>1, <1>3 DEF Numbered, Number
<1>4. \A k \in 1 .. n : Numbered(s, s[k])
  BY <1>1 DEF Numbered
<1> QED
  BY <1>1, <1>2, <1>3, <1>4

LEMMA Linking ==
  ASSUME IInv, NEW n \in Nat, NEW s \in Taken(n)
  PROVE  /\ Linked(s) \in Tables
         /\ \A c \in Clusters : ~Numbered(s, c) => Linked(s)[c] = table[c]
         /\ \A c \in Clusters : owner[c] # PBAD => ~Numbered(s, c)
         /\ \A k \in 1 .. n : Linked(s)[s[k]] = IF k = n THEN CENDC ELSE s[k + 1]
<1>1. table \in Tables
  BY DEF IInv, TypeOK, Tables
<1>2. /\ Len(s) = n /\ \A k \in 1 .. n : s[k] \in Clusters
      /\ \A k \in 1 .. n : Numbered(s, s[k]) /\ Number(s, s[k]) = k
      /\ \A c \in Clusters : Numbered(s, c) => Number(s, c) \in 1 .. n /\ table[c] = CFREE
  BY TakenRise, Numbering DEF IInv
<1>3. ASSUME NEW c \in Clusters
      PROVE  (IF ~Numbered(s, c) THEN table[c]
              ELSE IF Number(s, c) = Len(s) THEN CENDC
              ELSE s[Number(s, c) + 1]) \in {CFREE, CENDC} \cup Clusters
  <2>1. CASE ~Numbered(s, c)
    BY <1>1, <2>1 DEF Tables
  <2>2. CASE Numbered(s, c)
    <3>1. Number(s, c) # n => Number(s, c) + 1 \in 1 .. n
      BY <1>2, <2>2
    <3> QED
      BY <1>2, <2>2, <3>1
  <2> QED
    BY <2>1, <2>2
<1>4. Linked(s) \in Tables
  BY <1>3 DEF Linked, Tables
<1>5. \A c \in Clusters : owner[c] # PBAD => ~Numbered(s, c)
  BY <1>2 DEF IInv, NoSharing
<1> QED
  BY <1>2, <1>4, <1>5 DEF Linked

LEMMA Separation ==
  ASSUME IInv, NEW n \in Nat \ {0}, NEW s \in Taken(n), NEW i \in Entries,
         NEW e \in EntryRecords, e.first = s[1]
  PROVE  /\ Claimed(s, i) \in Owners
         /\ Separate(Linked(s), [dir EXCEPT ![i] = e], Claimed(s, i))
<1> DEFINE o == Claimed(s, i)  t == Linked(s)  d == [dir EXCEPT ![i] = e]
<1>1. dir \in Dirs /\ owner \in Owners /\ table \in Tables
  BY DEF IInv, TypeOK, Dirs, Owners, Tables
<1>2. /\ o \in Owners
      /\ \A c \in Clusters : o[c] = IF Numbered(s, c) THEN i ELSE owner[c]
  BY <1>1 DEF Claimed, Owners
<1>3. \A j \in Entries : d[j] = IF j = i THEN e ELSE dir[j]
  BY <1>1 DEF Dirs
<1>4. /\ \A k \in 1 .. n : s[k] \in Clusters /\ Numbered(s, s[k])
      /\ \A j, k \in 1 .. n : j < k => s[j] < s[k]
      /\ \A c \in Clusters : Numbered(s, c) => Number(s, c) \in 1 .. n /\ s[Number(s, c)] = c
  BY TakenRise, Numbering DEF IInv
<1>5. /\ \A c \in Clusters : ~Numbered(s, c) => t[c] = table[c]
      /\ \A c \in Clusters : owner[c] # PBAD => ~Numbered(s, c)
      /\ \A k \in 1 .. n : t[s[k]] = IF k = n THEN CENDC ELSE s[k + 1]
  BY Linking
<1> HIDE DEF o, t, d
<1>6. ASSUME NEW j \in Entries, d[j].first # CFREE
      PROVE  o[d[j].first] = j
  <2>1. CASE j = i
    BY <1>2, <1>3, <1>4, <2>1
  <2>2. CASE j # i
    <3>1. dir[j].first \in Clusters /\ owner[dir[j].first] = j
      BY <1>1, <1>3, <1>6, <2>2 DEF IInv, NoSharing, Dirs, EntryRecords
    <3>2. ~Numbered(s, dir[j].first)
      BY <1>5, <3>1, Numbers
    <3> QED
      BY <1>2, <1>3, <2>2, <3>1, <3>2
  <2> QED
    BY <2>1, <2>2
<1>7. ASSUME NEW c \in Clusters, o[c] # PBAD
      PROVE  t[c] # CFREE /\ (t[c] \in Clusters => o[t[c]] = o[c] /\ t[c] > c)
  <2>1. CASE Numbered(s, c)
    <3> DEFINE k == Number(s, c)
    <3>1. k \in 1 .. n /\ s[k] = c /\ t[c] = IF k = n THEN CENDC ELSE s[k + 1]
      BY <1>4, <1>5, <2>1
    <3> HIDE DEF k
    <3>2. CASE k = n
      BY <3>1, <3>2, Numbers DEF CFREE, CENDC
    <3>3. CASE k # n
      <4>1. k + 1 \in 1 .. n /\ k < k + 1
        BY <3>1, <3>3
      <4>2. s[k + 1] \in Clusters /\ Numbered(s, s[k + 1]) /\ s[k] < s[k + 1]
        BY <1>4, <3>1, <4>1
      <4>3. t[c] = s[k + 1] /\ t[c] \in Clusters /\ c < t[c] /\ o[t[c]] = i /\ o[c] = i
        BY <1>2, <2>1, <3>1, <3>3, <4>2
      <4>4. c \in Nat /\ t[c] \in Nat /\ t[c] > 0
        BY <4>3, Numbers
      <4> QED
        BY <4>3, <4>4 DEF CFREE
    <3> QED
      BY <3>2, <3>3
  <2>2. CASE ~Numbered(s, c)
    <3>1. owner[c] # PBAD /\ t[c] = table[c] /\ o[c] = owner[c]
      BY <1>2, <1>5, <1>7, <2>2
    <3>2. table[c] # CFREE
          /\ (table[c] \in Clusters => owner[table[c]] = owner[c] /\ table[c] > c)
      BY <3>1 DEF IInv, NoSharing
    <3>3. table[c] \in Clusters => ~Numbered(s, table[c])
      BY <1>5, <3>1, <3>2
    <3> QED
      BY <1>2, <3>1, <3>2, <3>3
  <2> QED
    BY <2>1, <2>2
<1>8. Separate(t, d, o)
  BY <1>6, <1>7 DEF Separate
<1> QED
  BY <1>2, <1>8 DEF o, t, d

-----------------------------------------------------------------------------
(* The commands.                                                           *)
LEMMA DataTypes ==
  ASSUME TypeOK, NEW n \in Nat, NEW s \in Taken(n), NEW f \in Contents, n = Len(f.blocks)
  PROVE  Filled(s, f) \in [Inside -> Blocks]
<1>1. data \in [Inside -> Blocks] /\ f.blocks \in Seq(Texts) /\ f.full \in BOOLEAN
  BY GeometryAssumption DEF TypeOK
<1>2. ASSUME NEW c \in Inside
      PROVE  (IF ~Numbered(s, c) THEN data[c]
              ELSE [text |-> f.blocks[Number(s, c)],
                    blotted |-> Number(s, c) = Len(s) /\ ~f.full /\ data[c].blotted]) \in Blocks
  <2>1. Numbered(s, c) => Number(s, c) \in 1 .. n
    BY Numbering, Numbers
  <2>2. Numbered(s, c) => f.blocks[Number(s, c)] \in Texts
    BY <1>1, <2>1
  <2>3. (Number(s, c) = Len(s) /\ ~f.full /\ data[c].blotted) \in BOOLEAN
    OBVIOUS
  <2> QED
    BY <1>1, <2>2, <2>3 DEF Blocks
<1> QED
  BY <1>2 DEF Filled

LEMMA StrayTypes ==
  ASSUME TypeOK
  PROVE  Strayed \in [Inside -> Blocks]
<1>1. data \in [Inside -> Blocks]
  BY DEF TypeOK
<1>2. ASSUME NEW c \in Inside
      PROVE  (IF c = StrayCluster THEN [data[c] EXCEPT !.blotted = TRUE] ELSE data[c]) \in Blocks
  BY <1>1 DEF Blocks
<1> QED
  BY <1>2 DEF Strayed

LEMMA WriteStep ==
  ASSUME IInv, NEW path \in Paths, NEW n \in FileNames, NEW f \in Contents,
         writef(path, n, f)
  PROVE  IInv'
<1> DEFINE size == Len(f.blocks)
<1>1. size \in Nat /\ (f.blocks # << >> => size \in Nat \ {0}) /\ f.blocks \in Seq(Texts)
  BY GeometryAssumption
<1>2. PICK i \in Entries :
        \/ Save(table, [dir EXCEPT ![i] = Entry(Kept(n), TFILE, 0, CFREE, size)], data, owner)
        \/ \E p \in Entries :
             Save(table, [dir EXCEPT ![i] = Entry(Kept(n), TFILE, p, CFREE, size)],
                  Strayed, owner)
        \/ /\ f.blocks # << >>
           /\ \E p \in Entries, s \in Taken(size) :
                \/ Save(Linked(s), [dir EXCEPT ![i] = Entry(Kept(n), TFILE, p, s[1], size)],
                        Filled(s, f), Claimed(s, i))
                \/ UNCHANGED vars
  BY DEF writef
<1>3. /\ TypeOK /\ Kept(n) \in Names /\ TFILE \in {TFILE, TDIR} /\ CFREE \in {CFREE} \cup Clusters
      /\ data \in [Inside -> Blocks] /\ owner \in Owners /\ table \in Tables
      /\ Strayed \in [Inside -> Blocks] /\ 0 \in Entries
  BY NameTypes, StrayTypes, Numbers DEF IInv, TypeOK, Tables, Owners
<1>4. ASSUME NEW p \in Entries
      PROVE  /\ [dir EXCEPT ![i] = Entry(Kept(n), TFILE, p, CFREE, size)] \in Dirs
             /\ Separate(table, [dir EXCEPT ![i] = Entry(Kept(n), TFILE, p, CFREE, size)], owner)
  <2> DEFINE e == Entry(Kept(n), TFILE, p, CFREE, size)
  <2>1. e \in EntryRecords /\ e.first = CFREE
    BY <1>1, <1>3 DEF Entry, EntryRecords
  <2> HIDE DEF e
  <2>2. /\ [dir EXCEPT ![i] = e] \in Dirs
        /\ Separate(table, [dir EXCEPT ![i] = e], owner)
    BY <2>1, EntryOnly
  <2> QED
    BY <2>2 DEF e
<1>5. ASSUME NEW p \in Entries, NEW s \in Taken(size), f.blocks # << >>,
             Save(Linked(s), [dir EXCEPT ![i] = Entry(Kept(n), TFILE, p, s[1], size)],
                  Filled(s, f), Claimed(s, i))
      PROVE  IInv'
  <2> DEFINE e == Entry(Kept(n), TFILE, p, s[1], size)
  <2>1. s[1] \in Clusters
    BY <1>1, <1>3, <1>5, TakenRise
  <2>2. e \in EntryRecords /\ e.first = s[1]
    BY <1>1, <1>3, <2>1, EntryTypes
  <2> HIDE DEF e
  <2>3. [dir EXCEPT ![i] = e] \in Dirs
    BY <2>2 DEF IInv, TypeOK, Dirs
  <2>4. /\ Claimed(s, i) \in Owners
        /\ Separate(Linked(s), [dir EXCEPT ![i] = e], Claimed(s, i))
    BY <1>1, <1>5, <2>2, Separation
  <2>5. /\ Linked(s) \in Tables
        /\ \A c \in Clusters : owner[c] # PBAD => Linked(s)[c] = table[c]
    BY <1>1, Linking
  <2>6. Filled(s, f) \in [Inside -> Blocks]
    BY <1>1, <1>3, DataTypes
  <2>7. Save(Linked(s), [dir EXCEPT ![i] = e], Filled(s, f), Claimed(s, i))
    BY <1>5 DEF e
  <2> QED
    BY <2>3, <2>4, <2>5, <2>6, <2>7, Saving
<1>6. CASE UNCHANGED vars
  BY <1>6 DEF vars, IInv, TypeOK, NoSharing
<1>7. CASE Save(table, [dir EXCEPT ![i] = Entry(Kept(n), TFILE, 0, CFREE, size)], data, owner)
  BY <1>3, <1>4, <1>7, Saving
<1>8. ASSUME NEW p \in Entries,
             Save(table, [dir EXCEPT ![i] = Entry(Kept(n), TFILE, p, CFREE, size)],
                  Strayed, owner)
      PROVE  IInv'
  BY <1>3, <1>4, <1>8, Saving
<1> QED
  BY <1>2, <1>5, <1>6, <1>7, <1>8

LEMMA DirectoryStep ==
  ASSUME IInv, NEW path \in Paths, NEW d \in DirNames, dircr(path, d)
  PROVE  IInv'
<1>1. /\ <<d>> \in Names /\ TDIR \in {TFILE, TDIR} /\ CFREE \in {CFREE} \cup Clusters
      /\ data \in [Inside -> Blocks] /\ owner \in Owners /\ table \in Tables /\ dir \in Dirs
      /\ 0 \in Nat
  BY NameTypes DEF IInv, TypeOK, Tables, Owners, Dirs
<1>2. CASE Save(table, dir, data, owner)
  BY <1>1, <1>2, SeparateNow, Saving DEF IInv
<1>3. ASSUME NEW i \in Entries, NEW p \in Entries,
             Save(table, [dir EXCEPT ![i] = Entry(<<d>>, TDIR, p, CFREE, 0)], data, owner)
      PROVE  IInv'
  <2>1. /\ [dir EXCEPT ![i] = Entry(<<d>>, TDIR, p, CFREE, 0)] \in Dirs
        /\ Separate(table, [dir EXCEPT ![i] = Entry(<<d>>, TDIR, p, CFREE, 0)], owner)
    BY <1>1, EntryTypes, EntryOnly
  <2> QED
    BY <1>1, <1>3, <2>1, Saving
<1> QED
  BY <1>2, <1>3 DEF dircr

(* The entries a format writes.                                            *)
LEMMA RootTypes ==
  /\ Root \in EntryRecords /\ Root.first = CFREE
  /\ NoEntry \in EntryRecords /\ NoEntry.first = CFREE
<1>1. 0 \in Entries /\ 0 \in Nat /\ CFREE \in {CFREE} \cup Clusters
  BY Numbers
<1>2. Root \in EntryRecords /\ Root.first = CFREE
  <2>1. <<"/">> \in Names /\ TDIR \in {TFILE, TDIR}
    BY NameTypes
  <2> QED
    BY <1>1, <2>1 DEF Root, Entry, EntryRecords
<1>3. NoEntry \in EntryRecords /\ NoEntry.first = CFREE
  <2>1. << >> \in Names /\ TFILE \in {TFILE, TDIR}
    BY NameTypes
  <2> QED
    BY <1>1, <2>1 DEF NoEntry, Entry, EntryRecords
<1> QED
  BY <1>2, <1>3

LEMMA Empties ==
  ASSUME table = [c \in Clusters |-> CFREE],
         dir = [i \in Entries |-> IF i = 0 THEN Root ELSE NoEntry],
         data = [c \in Inside |-> Fresh], cut = FALSE, owner = [c \in Clusters |-> PBAD]
  PROVE  IInv
<1>1. /\ Root \in EntryRecords /\ Root.first = CFREE
      /\ NoEntry \in EntryRecords /\ NoEntry.first = CFREE
  BY RootTypes
<1>2. Fresh \in Blocks
  BY DEF Fresh, Blocks
<1>3. TypeOK
  BY <1>1, <1>2 DEF TypeOK
<1>4. NoSharing
  BY <1>1 DEF NoSharing
<1> QED
  BY <1>3, <1>4 DEF IInv

LEMMA EmptiesNext ==
  ASSUME uformat
  PROVE  IInv'
<1>1. /\ Root \in EntryRecords /\ Root.first = CFREE
      /\ NoEntry \in EntryRecords /\ NoEntry.first = CFREE
  BY RootTypes
<1>2. Fresh \in Blocks
  BY DEF Fresh, Blocks
<1>3. TypeOK'
  BY <1>1, <1>2 DEF TypeOK, uformat
<1>4. NoSharing'
  BY <1>1 DEF NoSharing, uformat
<1> QED
  BY <1>3, <1>4 DEF IInv

LEMMA NextInv == ASSUME IInv, [Next]_vars PROVE IInv'
<1>1. CASE uformat
  BY <1>1, EmptiesNext
<1>2. CASE UNCHANGED vars
  BY <1>2 DEF vars, IInv, TypeOK, NoSharing
<1> QED
  BY <1>1, <1>2, WriteStep, DirectoryStep DEF Next

THEOREM DiskInvariant == Spec => []IInv
<1>1. Init => IInv
  BY Empties DEF Init
<1> QED
  BY <1>1, NextInv, PTL DEF Spec

(* Entries, table words and blocks keep their types.                       *)
THEOREM DiskTypes == Spec => []TypeOK
<1>1. IInv => TypeOK
  BY DEF IInv
<1> QED
  BY <1>1, DiskInvariant, PTL

(* No cluster belongs to two files and every chain leads upwards to its    *)
(* end, whatever was written, wherever a write was cut off.                *)
THEOREM DiskNoSharing == Spec => []NoSharing
<1>1. IInv => NoSharing
  BY DEF IInv
<1> QED
  BY <1>1, DiskInvariant, PTL

-----------------------------------------------------------------------------
(***************************************************************************)
(* Read by path, the image is a FileStore.  What reading a path gives is   *)
(* written below as a function of the table, the data and the directory,   *)
(* so that it can be followed from the image before a command to the one   *)
(* after it.                                                               *)
(***************************************************************************)

\* inodeidx, pathidx, Chain and uread of a table t, data b and a directory d.
Same(d, name, parent, t) ==
  {i \in Entries : d[i].type = t /\ d[i].name = name /\ d[i].parent = parent}
Find(d, name, parent, t) ==
  IF Same(d, name, parent, t) = {} THEN PBAD
  ELSE CHOOSE i \in Same(d, name, parent, t) : \A j \in Same(d, name, parent, t) : i <= j

Descend(d, path, at, k) ==
  IF k = 0 THEN 0
  ELSE IF at[k - 1] = PBAD THEN PBAD ELSE Find(d, <<path[k]>>, at[k - 1], TDIR)
At(d, path) == CHOOSE at : at = [k \in 0 .. Len(path) |-> Descend(d, path, at, k)]
Directory(d, path) == At(d, path)[Len(path)]

Found(d, place) ==
  IF Directory(d, place[1]) = PBAD THEN PBAD
  ELSE Find(d, place[2], Directory(d, place[1]), TFILE)

Linkage(t, f, c) == IF t[c] \in Clusters /\ t[c] > c THEN <<c>> \o f[t[c]] ELSE <<c>>
ChainOf(t) == CHOOSE f : f = [c \in Clusters |-> Linkage(t, f, c)]

Text(t, b, c) ==
  IF \E k \in DOMAIN ChainOf(t)[c] : ChainOf(t)[c][k] \notin Inside THEN Unreadable
  ELSE [is |-> "file", blocks |-> [k \in DOMAIN ChainOf(t)[c] |-> b[ChainOf(t)[c][k]]]]
Given(t, b, e) == IF e.first = CFREE THEN Unreadable ELSE Text(t, b, e.first)

Absent == [is |-> "absent", blocks |-> << >>]
ReadAt(t, b, d, place) ==
  IF Found(d, place) = PBAD THEN Absent ELSE Given(t, b, d[Found(d, place)])

LEMMA SearchIs ==
  /\ \A name, parent, t : inodeidx(name, parent, t) = Find(dir, name, parent, t)
  /\ \A path : pathidx(path) = Directory(dir, path)
<1>1. \A name, parent, t : inodeidx(name, parent, t) = Find(dir, name, parent, t)
  BY DEF inodeidx, Find, Same
<1>2. \A path : pathidx(path) = Directory(dir, path)
  BY DEF pathidx, Directory, At, Descend, inodeidx, Find, Same
<1> QED
  BY <1>1, <1>2

LEMMA NextSearchIs ==
  /\ \A name, parent, t : inodeidx(name, parent, t)' = Find(dir', name, parent, t)
  /\ \A path : pathidx(path)' = Directory(dir', path)
<1>1. \A name, parent, t : inodeidx(name, parent, t)' = Find(dir', name, parent, t)
  BY DEF inodeidx, Find, Same
<1>2. \A path : pathidx(path)' = Directory(dir', path)
  BY DEF pathidx, Directory, At, Descend, inodeidx, Find, Same
<1> QED
  BY <1>1, <1>2

LEMMA ReadIs ==
  \A i \in Entries : irdfile[i] = Given(table, data, dir[i])
<1>1. Chain = ChainOf(table)
  BY DEF Chain, ChainOf, Linkage
<1> QED
  BY <1>1 DEF irdfile, Given, Text

LEMMA NextReadIs ==
  \A i \in Entries : irdfile'[i] = Given(table', data', dir'[i])
<1>1. Chain' = ChainOf(table')
  BY DEF Chain, ChainOf, Linkage
<1> QED
  BY <1>1 DEF irdfile, Given, Text

-----------------------------------------------------------------------------
(* Induction, over the elements of a set of numbers.                       *)
LEMMA Least ==
  \A S \in SUBSET Nat : S # {} => \E x \in S : \A y \in S : x <= y
<1> SUFFICES ASSUME NEW S \in SUBSET Nat, S # {} PROVE \E x \in S : \A y \in S : x <= y
  OBVIOUS
<1>1. \E x \in S : \A y \in S : ~(<<y, x>> \in OpToRel(<, Nat))
  BY NatLessThanWellFounded, WFMin
<1>2. PICK x \in S : \A y \in S : ~(<<y, x>> \in OpToRel(<, Nat))
  BY <1>1
<1>3. ASSUME NEW y \in S PROVE x <= y
  <2> SUFFICES ASSUME ~(x <= y) PROVE FALSE
    OBVIOUS
  <2>1. y \in Nat /\ x \in Nat /\ y < x
    OBVIOUS
  <2>2. <<y, x>> \in OpToRel(<, Nat)
    BY <2>1 DEF OpToRel
  <2> QED
    BY <1>2, <2>2
<1> QED
  BY <1>2, <1>3

LEMMA Counting ==
  \A S : 0 \in S /\ (\A n \in Nat : n \in S => n + 1 \in S) => Nat \subseteq S
<1> SUFFICES ASSUME NEW S, 0 \in S, \A n \in Nat : n \in S => n + 1 \in S,
                    NEW m \in Nat, m \notin S
             PROVE  FALSE
  OBVIOUS
<1> DEFINE T == {n \in Nat : n \notin S}
<1>1. PICK x \in T : \A y \in T : x <= y
  <2>1. T \in SUBSET Nat /\ T # {}
    OBVIOUS
  <2> HIDE DEF T
  <2> QED
    BY <2>1, Least
<1>2. x # 0 /\ x - 1 \in Nat /\ x - 1 + 1 = x
  BY <1>1
<1>3. x - 1 \notin S
  BY <1>1, <1>2
<1> QED
  BY <1>1, <1>2, <1>3

-----------------------------------------------------------------------------
(* Looking up.                                                             *)
LEMMA FindMeans ==
  ASSUME NEW d, NEW name, NEW parent, NEW t
  PROVE  LET i == Find(d, name, parent, t) IN
         /\ i = PBAD <=> Same(d, name, parent, t) = {}
         /\ i # PBAD => /\ i \in Entries /\ d[i].type = t /\ d[i].name = name
                        /\ d[i].parent = parent
                        /\ \A j \in Same(d, name, parent, t) : i <= j
<1> DEFINE S == Same(d, name, parent, t)
<1>1. S \subseteq Entries /\ S \in SUBSET Nat /\ PBAD \notin S
  BY Numbers DEF Same
<1>2. CASE S = {}
  BY <1>2 DEF Find
<1>3. CASE S # {}
  <2>1. \E x \in S : \A y \in S : x <= y
    BY <1>1, <1>3, Least
  <2>2. Find(d, name, parent, t) \in S /\ \A y \in S : Find(d, name, parent, t) <= y
    BY <1>3, <2>1 DEF Find
  <2> QED
    BY <1>1, <1>3, <2>2 DEF Same
<1> QED
  BY <1>2, <1>3

LEMMA FindType ==
  \A d, name, parent, t : Find(d, name, parent, t) \in Entries \union {PBAD}
BY FindMeans

(* What FindMeans says of it is enough to know an entry.                   *)
LEMMA FindIs ==
  ASSUME NEW d, NEW name, NEW parent, NEW t, NEW i \in Same(d, name, parent, t),
         \A j \in Same(d, name, parent, t) : i <= j
  PROVE  Find(d, name, parent, t) = i
<1> DEFINE f == Find(d, name, parent, t)
<1>1. f # PBAD /\ f \in Same(d, name, parent, t) /\ f <= i
  BY FindMeans DEF Same
<1>2. i \in Nat /\ f \in Nat /\ i <= f
  BY <1>1, Numbers DEF Same
<1> QED
  BY <1>1, <1>2

(* The entry of every component of a path.                                 *)
LEMMA AtExists ==
  ASSUME NEW d, NEW path, NEW m \in Nat
  PROVE  \E at : at = [k \in 0 .. m |-> Descend(d, path, at, k)]
<1> DEFINE S == {n \in Nat : \E at : at = [k \in 0 .. n |-> Descend(d, path, at, k)]}
<1>1. 0 \in S
  <2>1. [k \in 0 .. 0 |-> 0] = [k \in 0 .. 0 |-> Descend(d, path, [j \in 0 .. 0 |-> 0], k)]
    BY DEF Descend
  <2> QED
    BY <2>1
<1>2. ASSUME NEW n \in Nat, n \in S
      PROVE  n + 1 \in S
  <2>1. PICK at : at = [k \in 0 .. n |-> Descend(d, path, at, k)]
    BY <1>2
  <2> DEFINE last == IF at[n] = PBAD THEN PBAD ELSE Find(d, <<path[n + 1]>>, at[n], TDIR)
             to == [k \in 0 .. n + 1 |-> IF k \in 0 .. n THEN at[k] ELSE last]
  <2>2. ASSUME NEW k \in 0 .. n + 1
        PROVE  to[k] = Descend(d, path, to, k)
    <3>1. CASE k = 0
      BY <2>1, <3>1 DEF Descend
    <3>2. CASE k \in 1 .. n
      <4>1. k - 1 \in 0 .. n /\ k \in 0 .. n /\ k # 0
        BY <3>2
      <4>2. to[k] = at[k] /\ to[k - 1] = at[k - 1] /\ at[k] = Descend(d, path, at, k)
        BY <2>1, <4>1
      <4> QED
        BY <4>1, <4>2 DEF Descend
    <3>3. CASE k = n + 1
      <4>1. k \notin 0 .. n /\ k - 1 = n /\ n \in 0 .. n + 1 /\ n \in 0 .. n /\ k # 0
        BY <3>3
      <4>2. to[k] = last /\ to[k - 1] = at[n]
        BY <4>1
      <4> QED
        BY <3>3, <4>1, <4>2 DEF Descend
    <3> QED
      BY <3>1, <3>2, <3>3
  <2>3. to = [k \in 0 .. n + 1 |-> Descend(d, path, to, k)]
    <3>1. to = [k \in 0 .. n + 1 |-> to[k]]
      OBVIOUS
    <3> HIDE DEF to
    <3> QED
      BY <2>2, <3>1
  <2> HIDE DEF to
  <2> QED
    BY <2>3
<1>3. Nat \subseteq S
  <2> HIDE DEF S
  <2> QED
    BY <1>1, <1>2, Counting
<1> QED
  BY <1>3

LEMMA AtMeans ==
  ASSUME NEW d, NEW path \in Paths
  PROVE  /\ Len(path) \in Nat /\ At(d, path)[0] = 0
         /\ \A k \in 1 .. Len(path) :
              At(d, path)[k] = IF At(d, path)[k - 1] = PBAD THEN PBAD
                               ELSE Find(d, <<path[k]>>, At(d, path)[k - 1], TDIR)
         /\ \A k \in 0 .. Len(path) :
              At(d, path)[k] \in Entries \union {PBAD}
         /\ \A k \in 1 .. Len(path) : path[k] \in DirNames
<1> DEFINE at == At(d, path)
<1>1. path \in Seq(DirNames) /\ Len(path) \in Nat
  BY GeometryAssumption
<1>2. at = [k \in 0 .. Len(path) |-> Descend(d, path, at, k)]
  BY <1>1, AtExists DEF At
<1> HIDE DEF at
<1>3. \A k \in 0 .. Len(path) : at[k] = Descend(d, path, at, k)
  BY <1>2
<1>4. at[0] = 0 /\ 0 \in Entries
  <2>1. 0 \in 0 .. Len(path)
    BY <1>1
  <2>2. at[0] = Descend(d, path, at, 0)
    BY <1>3, <2>1
  <2> QED
    BY <2>2, Numbers DEF Descend
<1>5. \A k \in 1 .. Len(path) :
        at[k] = IF at[k - 1] = PBAD THEN PBAD ELSE Find(d, <<path[k]>>, at[k - 1], TDIR)
  BY <1>3 DEF Descend
<1>6. \A k \in 1 .. Len(path) : at[k] \in Entries \union {PBAD}
  <2> SUFFICES ASSUME NEW k \in 1 .. Len(path) PROVE at[k] \in Entries \union {PBAD}
    OBVIOUS
  <2> QED
    BY <1>5, FindType
<1>7. \A k \in 0 .. Len(path) : at[k] \in Entries \union {PBAD}
  <2>1. \A k \in 0 .. Len(path) : k = 0 \/ k \in 1 .. Len(path)
    BY <1>1
  <2> QED
    BY <1>4, <1>6, <2>1
<1>8. \A k \in 1 .. Len(path) : path[k] \in DirNames
  BY <1>1
<1> QED
  BY <1>1, <1>4, <1>5, <1>7, <1>8 DEF at

-----------------------------------------------------------------------------
(* The tree of directories.                                                *)

\* The entries in use are the first ones, and so are their parents.
Grown(d) ==
  /\ d[0] = Root
  /\ \A i \in Entries : d[i].name # << >> =>
       /\ d[d[i].parent].name # << >>
       /\ \A j \in Entries : j < i => d[j].name # << >>

\* A command enters e at the first free place i, in a directory that is there.
Enters(d, new, i, e) ==
  /\ d \in Dirs /\ Grown(d) /\ i \in Entries /\ e \in EntryRecords
  /\ d[i].name = << >> /\ \A j \in 0 .. i - 1 : d[j].name # << >>
  /\ e.name # << >> /\ d[e.parent].name # << >>
  /\ new = [d EXCEPT ![i] = e]

LEMMA EntersMeans ==
  ASSUME NEW d, NEW new, NEW i, NEW e, Enters(d, new, i, e)
  PROVE  /\ i \in Entries /\ i # 0 /\ e \in EntryRecords /\ e.parent \in Entries
         /\ e.parent # i /\ new \in Dirs
         /\ \A j \in Entries : new[j] = IF j = i THEN e ELSE d[j]
         /\ \A j \in Entries : d[j].name # << >> => j < i
         /\ \A j \in Entries : j < i => d[j].name # << >>
<1>1. d \in Dirs /\ i \in Entries /\ e \in EntryRecords /\ new = [d EXCEPT ![i] = e]
  BY DEF Enters
<1>2. /\ new \in Dirs /\ \A j \in Entries : new[j] = IF j = i THEN e ELSE d[j]
      /\ e.parent \in Entries
  BY <1>1 DEF Dirs, EntryRecords
<1>3. i \in Nat /\ \A j \in Entries : j \in Nat
  BY <1>1, Numbers
<1>4. ASSUME NEW j \in Entries, d[j].name # << >>
      PROVE  j < i
  <2>1. j # i /\ ~(i < j)
    BY <1>4 DEF Enters, Grown
  <2> QED
    BY <1>3, <2>1
<1>5. ASSUME NEW j \in Entries, j < i
      PROVE  d[j].name # << >>
  <2>1. j \in 0 .. i - 1
    BY <1>3, <1>5
  <2> QED
    BY <2>1 DEF Enters
<1>6. i # 0
  <2>1. d[0].name # << >>
    BY DEF Enters, Grown, Root, Entry
  <2> QED
    BY <2>1 DEF Enters
<1>7. e.parent # i
  BY DEF Enters
<1> QED
  BY <1>1, <1>2, <1>4, <1>5, <1>6, <1>7

LEMMA GrownOn ==
  ASSUME NEW d, NEW new, NEW i, NEW e, Enters(d, new, i, e)
  PROVE  Grown(new)
<1>1. /\ i \in Entries /\ i # 0 /\ e.parent \in Entries /\ e.parent # i
      /\ \A j \in Entries : new[j] = IF j = i THEN e ELSE d[j]
      /\ \A j \in Entries : d[j].name # << >> => j < i
      /\ \A j \in Entries : j < i => d[j].name # << >>
  BY EntersMeans
<1>2. /\ d[0] = Root /\ e.name # << >> /\ d[e.parent].name # << >>
      /\ \A j \in Entries : d[j].parent \in Entries
  BY DEF Enters, Grown, Dirs, EntryRecords
<1>3. new[0] = Root
  BY <1>1, <1>2, Numbers
<1>4. ASSUME NEW j \in Entries, new[j].name # << >>
      PROVE  /\ new[new[j].parent].name # << >>
             /\ \A k \in Entries : k < j => new[k].name # << >>
  <2>1. CASE j = i
    BY <1>1, <1>2, <2>1
  <2>2. CASE j # i
    <3>1. /\ d[j].name # << >> /\ new[j] = d[j] /\ d[j].parent \in Entries
          /\ d[d[j].parent].name # << >>
          /\ \A k \in Entries : k < j => d[k].name # << >>
      BY <1>1, <1>2, <1>4, <2>2 DEF Enters, Grown
    <3> QED
      BY <1>1, <1>2, <3>1
  <2> QED
    BY <2>1, <2>2
<1> QED
  BY <1>3, <1>4 DEF Grown

(* What was found is found again; only what was not there may be now.      *)
LEMMA FindGrows ==
  ASSUME NEW d, NEW new, NEW i, NEW e, Enters(d, new, i, e),
         NEW name, name # << >>, NEW parent, NEW t
  PROVE  Find(new, name, parent, t) =
           IF /\ Find(d, name, parent, t) = PBAD
              /\ e.type = t /\ e.name = name /\ e.parent = parent
           THEN i ELSE Find(d, name, parent, t)
<1> DEFINE S == Same(d, name, parent, t)  T == Same(new, name, parent, t)
<1>1. /\ i \in Entries
      /\ \A j \in Entries : new[j] = IF j = i THEN e ELSE d[j]
      /\ \A j \in Entries : d[j].name # << >> => j < i
  BY EntersMeans
<1>2. \A j \in S : j \in Entries /\ j # i /\ j < i
  BY <1>1, Numbers DEF Same
<1>3. T = S \union {j \in {i} : e.type = t /\ e.name = name /\ e.parent = parent}
  BY <1>1, <1>2 DEF Same
<1>4. CASE Find(d, name, parent, t) = PBAD
  <2>1. S = {}
    BY <1>4, FindMeans
  <2>2. CASE e.type = t /\ e.name = name /\ e.parent = parent
    <3>1. T = {i}
      BY <1>3, <2>1, <2>2
    <3>2. i \in T /\ \A j \in T : i <= j
      BY <1>1, <3>1, Numbers
    <3> QED
      BY <1>4, <2>2, <3>2, FindIs
  <2>3. CASE ~(e.type = t /\ e.name = name /\ e.parent = parent)
    <3>1. T = {}
      BY <1>3, <2>1, <2>3
    <3> QED
      BY <1>4, <2>3, <3>1, FindMeans
  <2> QED
    BY <2>2, <2>3
<1>5. CASE Find(d, name, parent, t) # PBAD
  <2> DEFINE f == Find(d, name, parent, t)
  <2>1. f \in S /\ \A j \in S : f <= j
    BY <1>5, FindMeans DEF Same
  <2>2. f \in T /\ \A j \in T : f <= j
    <3>1. f < i /\ f \in Nat /\ i \in Nat
      BY <1>1, <1>2, <2>1, Numbers
    <3> HIDE DEF f, S, T
    <3> QED
      BY <1>3, <2>1, <3>1
  <2> HIDE DEF f, S
  <2>3. Find(new, name, parent, t) = f
    BY <2>2, FindIs
  <2> QED
    BY <1>5, <2>3 DEF f
<1> QED
  BY <1>4, <1>5

\* The directory entered is empty.
LEMMA NothingIn ==
  ASSUME NEW d, NEW new, NEW i, NEW e, Enters(d, new, i, e),
         NEW name, name # << >>, NEW t
  PROVE  Find(new, name, i, t) = PBAD
<1>1. e.parent # i /\ \A j \in Entries : d[j].name # << >> => d[j].parent # i
  BY EntersMeans DEF Enters, Grown
<1>2. Same(d, name, i, t) = {}
  BY <1>1 DEF Same
<1>3. Find(d, name, i, t) = PBAD
  BY <1>2, FindMeans
<1> QED
  BY <1>1, <1>3, FindGrows

(* A path that led somewhere leads there still; one that did not can only  *)
(* lead to the directory just entered.                                     *)
LEMMA DirectoryGrows ==
  ASSUME NEW d, NEW new, NEW i, NEW e, Enters(d, new, i, e), NEW path \in Paths
  PROVE  \/ Directory(new, path) = Directory(d, path)
         \/ /\ Directory(d, path) = PBAD /\ Directory(new, path) = i /\ e.type = TDIR
<1> DEFINE at == At(d, path)  to == At(new, path)
<1>1. /\ Len(path) \in Nat /\ at[0] = 0 /\ to[0] = 0
      /\ \A k \in 1 .. Len(path) :
           /\ at[k] = IF at[k - 1] = PBAD THEN PBAD ELSE Find(d, <<path[k]>>, at[k - 1], TDIR)
           /\ to[k] = IF to[k - 1] = PBAD THEN PBAD ELSE Find(new, <<path[k]>>, to[k - 1], TDIR)
  BY AtMeans
<1> HIDE DEF at, to
<1> DEFINE S == {k \in Nat : k <= Len(path) =>
                   \/ to[k] = at[k]
                   \/ at[k] = PBAD /\ to[k] = i /\ e.type = TDIR}
<1>2. 0 \in S
  BY <1>1
<1>3. ASSUME NEW n \in Nat, n \in S
      PROVE  n + 1 \in S
  <2> SUFFICES ASSUME n + 1 <= Len(path)
               PROVE  \/ to[n + 1] = at[n + 1]
                      \/ at[n + 1] = PBAD /\ to[n + 1] = i /\ e.type = TDIR
    OBVIOUS
  <2> DEFINE name == <<path[n + 1]>>
  <2>1. n + 1 \in 1 .. Len(path) /\ n + 1 - 1 = n /\ name # << >>
    BY <1>1
  <2> HIDE DEF name
  <2>2. /\ at[n + 1] = IF at[n] = PBAD THEN PBAD ELSE Find(d, name, at[n], TDIR)
        /\ to[n + 1] = IF to[n] = PBAD THEN PBAD ELSE Find(new, name, to[n], TDIR)
    BY <1>1, <2>1 DEF name
  <2>3. CASE to[n] = at[n]
    BY <2>1, <2>2, <2>3, FindGrows
  <2>4. CASE at[n] = PBAD /\ to[n] = i /\ e.type = TDIR
    BY <2>1, <2>2, <2>4, NothingIn
  <2> QED
    BY <1>3, <2>3, <2>4
<1>4. Len(path) \in S
  <2> HIDE DEF S
  <2> QED
    BY <1>1, <1>2, <1>3, Counting
<1> QED
  BY <1>4 DEF Directory, at, to

(* Two paths to one directory are the same path.                           *)
LEMMA OnePath ==
  ASSUME NEW d, Grown(d), NEW p \in Paths, NEW q \in Paths,
         Directory(d, p) = Directory(d, q), Directory(d, p) # PBAD
  PROVE  p = q
<1> DEFINE at == At(d, p)  to == At(d, q)
<1>1. /\ Len(p) \in Nat /\ at[0] = 0
      /\ \A k \in 1 .. Len(p) : /\ p[k] \in DirNames
           /\ at[k] = IF at[k - 1] = PBAD THEN PBAD ELSE Find(d, <<p[k]>>, at[k - 1], TDIR)
  BY AtMeans
<1>2. /\ Len(q) \in Nat /\ to[0] = 0
      /\ \A k \in 1 .. Len(q) : /\ q[k] \in DirNames
           /\ to[k] = IF to[k - 1] = PBAD THEN PBAD ELSE Find(d, <<q[k]>>, to[k - 1], TDIR)
  BY AtMeans
<1> HIDE DEF at, to
<1>3. d[0].name = <<"/">>
  BY DEF Grown, Root, Entry
<1>4. ASSUME NEW k \in 1 .. Len(p), at[k] # PBAD
      PROVE  at[k - 1] # PBAD /\ d[at[k]].name = <<p[k]>> /\ d[at[k]].parent = at[k - 1]
             /\ at[k] # 0
  <2>1. at[k - 1] # PBAD /\ at[k] = Find(d, <<p[k]>>, at[k - 1], TDIR)
    BY <1>1, <1>4
  <2>2. d[at[k]].name = <<p[k]>> /\ d[at[k]].parent = at[k - 1]
    BY <1>4, <2>1, FindMeans
  <2>3. p[k] # "/"
    BY <1>1, GeometryAssumption
  <2> QED
    BY <1>3, <2>1, <2>2, <2>3
<1>5. ASSUME NEW k \in 1 .. Len(q), to[k] # PBAD
      PROVE  to[k - 1] # PBAD /\ d[to[k]].name = <<q[k]>> /\ d[to[k]].parent = to[k - 1]
             /\ to[k] # 0
  <2>1. to[k - 1] # PBAD /\ to[k] = Find(d, <<q[k]>>, to[k - 1], TDIR)
    BY <1>2, <1>5
  <2>2. d[to[k]].name = <<q[k]>> /\ d[to[k]].parent = to[k - 1]
    BY <1>5, <2>1, FindMeans
  <2>3. q[k] # "/"
    BY <1>2, GeometryAssumption
  <2> QED
    BY <1>3, <2>1, <2>2, <2>3
<1> DEFINE S == {m \in Nat : \A n \in 0 .. Len(q) :
                   m <= Len(p) /\ at[m] = to[n] /\ at[m] # PBAD =>
                     m = n /\ \A k \in 1 .. m : p[k] = q[k]}
<1>6. 0 \in S
  <2> SUFFICES ASSUME NEW n \in 0 .. Len(q), to[n] = 0, 0 # PBAD PROVE n = 0
    BY <1>1
  <2>1. n # 0 => n \in 1 .. Len(q)
    BY <1>2
  <2> QED
    BY <2>1, <1>5
<1>7. ASSUME NEW m \in Nat, m \in S
      PROVE  m + 1 \in S
  <2> SUFFICES ASSUME NEW n \in 0 .. Len(q), m + 1 <= Len(p), at[m + 1] = to[n],
                      at[m + 1] # PBAD
               PROVE  m + 1 = n /\ \A k \in 1 .. m + 1 : p[k] = q[k]
    OBVIOUS
  <2>1. m + 1 \in 1 .. Len(p) /\ m + 1 - 1 = m
    BY <1>1
  <2>2. /\ at[m] # PBAD /\ d[at[m + 1]].name = <<p[m + 1]>> /\ d[at[m + 1]].parent = at[m]
        /\ at[m + 1] # 0
    <3>1. PICK k \in 1 .. Len(p) : k = m + 1
      BY <2>1
    <3>2. at[k - 1] # PBAD /\ d[at[k]].name = <<p[k]>> /\ d[at[k]].parent = at[k - 1]
          /\ at[k] # 0
      BY <1>4, <3>1
    <3>3. k - 1 = m
      BY <3>1
    <3> QED
      BY <3>1, <3>2, <3>3
  <2>3. n \in 1 .. Len(q) /\ n - 1 \in 0 .. Len(q)
    BY <1>2, <2>2
  <2>4. d[to[n]].name = <<q[n]>> /\ d[to[n]].parent = to[n - 1]
    BY <1>5, <2>3
  <2>5. at[m] = to[n - 1] /\ <<p[m + 1]>> = <<q[n]>>
    BY <2>2, <2>4
  <2>6. m = n - 1 /\ \A k \in 1 .. m : p[k] = q[k]
    BY <1>1, <1>7, <2>1, <2>2, <2>3, <2>5
  <2>7. p[m + 1] = q[m + 1] /\ \A k \in 1 .. m + 1 : k \in 1 .. m \/ k = m + 1
    BY <2>5, <2>6
  <2> QED
    BY <2>6, <2>7
<1>8. Len(p) \in S
  <2> HIDE DEF S
  <2> QED
    BY <1>1, <1>6, <1>7, Counting
<1>9. Len(p) = Len(q) /\ \A k \in 1 .. Len(p) : p[k] = q[k]
  <2>1. at[Len(p)] = to[Len(q)] /\ at[Len(p)] # PBAD /\ Len(q) \in 0 .. Len(q)
    BY <1>2 DEF Directory, at, to
  <2> QED
    BY <1>1, <1>8, <2>1
<1>10. p \in Seq(DirNames) /\ q \in Seq(DirNames)
  BY GeometryAssumption
<1> QED
  BY <1>9, <1>10

-----------------------------------------------------------------------------
(* The entry a place names.                                                *)
LEMMA PlaceMeans ==
  ASSUME NEW place \in Places
  PROVE  place[1] \in Paths /\ place[2] # << >>
<1>1. place[1] \in Paths /\ \E n \in FileNames : place[2] = Sought(n)
  BY DEF Places
<1> QED
  BY <1>1 DEF Sought

LEMMA FoundMeans ==
  ASSUME NEW d, NEW place \in Places, Found(d, place) # PBAD
  PROVE  /\ Found(d, place) \in Entries /\ Directory(d, place[1]) # PBAD
         /\ d[Found(d, place)].name = place[2]
         /\ d[Found(d, place)].parent = Directory(d, place[1])
         /\ d[Found(d, place)].name # << >>
<1>1. /\ Directory(d, place[1]) # PBAD
      /\ Found(d, place) = Find(d, place[2], Directory(d, place[1]), TFILE)
  BY DEF Found
<1> QED
  BY <1>1, FindMeans, PlaceMeans

LEMMA OnePlace ==
  ASSUME NEW d, Grown(d), NEW p \in Places, NEW q \in Places,
         Found(d, p) = Found(d, q), Found(d, p) # PBAD
  PROVE  p = q
<1>1. p[2] = q[2] /\ Directory(d, p[1]) = Directory(d, q[1]) /\ Directory(d, p[1]) # PBAD
  BY FoundMeans
<1>2. p[1] = q[1]
  BY <1>1, OnePath, PlaceMeans
<1> QED
  BY <1>1, <1>2 DEF Places

LEMMA FoundGrows ==
  ASSUME NEW d, NEW new, NEW i, NEW e, Enters(d, new, i, e), NEW place \in Places
  PROVE  \/ Found(new, place) = Found(d, place)
         \/ Found(d, place) = PBAD /\ Found(new, place) = i
<1> DEFINE from == Directory(d, place[1])  to == Directory(new, place[1])
<1>1. place[1] \in Paths /\ place[2] # << >>
  BY PlaceMeans
<1>2. to = from \/ (from = PBAD /\ to = i)
  BY <1>1, DirectoryGrows
<1>3. /\ Found(d, place) = IF from = PBAD THEN PBAD ELSE Find(d, place[2], from, TFILE)
      /\ Found(new, place) = IF to = PBAD THEN PBAD ELSE Find(new, place[2], to, TFILE)
  BY DEF Found
<1> HIDE DEF from, to
<1>4. CASE to = from
  BY <1>1, <1>3, <1>4, FindGrows
<1>5. CASE from = PBAD /\ to = i
  BY <1>1, <1>3, <1>5, NothingIn
<1> QED
  BY <1>2, <1>4, <1>5

-----------------------------------------------------------------------------
(* The clusters of a file.                                                 *)
\* Every cluster from c on has its chain, for c from CENDC down.
LEMMA ChainExists ==
  ASSUME NEW t
  PROVE  \E f : f = [c \in Clusters |-> Linkage(t, f, c)]
<1> DEFINE Above(n) == {c \in Clusters : c + n >= CENDC}
           S == {n \in Nat : \E f : f = [c \in Above(n) |-> Linkage(t, f, c)]}
<1>1. \A c \in Clusters : c \in Nat /\ c < CENDC
  BY Numbers
<1>2. 0 \in S
  <2> DEFINE f == [c \in Above(0) |-> {}]
  <2>1. \A c \in Above(0) : FALSE
    BY <1>1 DEF CENDC
  <2> HIDE DEF Above
  <2>2. f = [c \in Above(0) |-> Linkage(t, f, c)]
    BY <2>1
  <2> HIDE DEF f
  <2> QED
    BY <2>2
<1>3. ASSUME NEW n \in Nat, n \in S
      PROVE  n + 1 \in S
  <2>1. PICK f : f = [c \in Above(n) |-> Linkage(t, f, c)]
    BY <1>3
  <2> DEFINE g == [c \in Above(n + 1) |-> Linkage(t, f, c)]
  <2>2. \A c \in Above(n) : c \in Above(n + 1)
    BY <1>1 DEF CENDC
  <2>3. \A c \in Above(n) : g[c] = f[c]
    BY <2>1, <2>2
  <2>4. \A c \in Above(n + 1), k \in Clusters : k > c => k \in Above(n)
    BY <1>1 DEF CENDC
  <2> HIDE DEF Above
  <2>5. ASSUME NEW c \in Above(n + 1)
        PROVE  Linkage(t, g, c) = Linkage(t, f, c)
    <3> HIDE DEF g
    <3> QED
      BY <2>3, <2>4 DEF Linkage
  <2>6. g = [c \in Above(n + 1) |-> Linkage(t, g, c)]
    BY <2>5
  <2> HIDE DEF g
  <2> QED
    BY <2>6
<1>4. CENDC \in S
  <2>1. CENDC \in Nat
    BY DEF CENDC
  <2> HIDE DEF S
  <2> QED
    BY <1>2, <1>3, <2>1, Counting
<1>5. Above(CENDC) = Clusters
  BY <1>1 DEF CENDC
<1> QED
  BY <1>4, <1>5

LEMMA ChainMeans ==
  ASSUME NEW t, NEW c \in Clusters
  PROVE  ChainOf(t)[c] =
           IF t[c] \in Clusters /\ t[c] > c THEN <<c>> \o ChainOf(t)[t[c]] ELSE <<c>>
<1>1. ChainOf(t) = [k \in Clusters |-> Linkage(t, ChainOf(t), k)]
  BY ChainExists DEF ChainOf
<1>2. ChainOf(t)[c] = Linkage(t, ChainOf(t), c)
  BY <1>1
<1> QED
  BY <1>2 DEF Linkage

\* From the end of the table back to its front.
LEMMA Downward ==
  \A S : (\A c \in Clusters : (\A k \in Clusters : k > c => k \in S) => c \in S)
           => Clusters \subseteq S
<1> SUFFICES ASSUME NEW S,
                    \A c \in Clusters : (\A k \in Clusters : k > c => k \in S) => c \in S
             PROVE  Clusters \subseteq S
  OBVIOUS
<1>1. \A c \in Clusters : c \in Nat /\ c < CENDC
  BY Numbers
<1> DEFINE T == {n \in Nat : \A c \in Clusters : c + n >= CENDC => c \in S}
<1>2. 0 \in T
  BY <1>1 DEF CENDC
<1>3. ASSUME NEW n \in Nat, n \in T
      PROVE  n + 1 \in T
  <2> SUFFICES ASSUME NEW c \in Clusters, c + (n + 1) >= CENDC PROVE c \in S
    OBVIOUS
  <2>1. \A k \in Clusters : k > c => k + n >= CENDC
    BY <1>1 DEF CENDC
  <2> QED
    BY <1>3, <2>1
<1>4. CENDC \in T
  <2>1. CENDC \in Nat
    BY DEF CENDC
  <2> HIDE DEF T
  <2> QED
    BY <1>2, <1>3, <2>1, Counting
<1> QED
  BY <1>1, <1>4 DEF CENDC

\* The table links only upwards and within one owner.
Upwards(t, o) ==
  \A c \in Clusters : o[c] # PBAD /\ t[c] \in Clusters => o[t[c]] = o[c] /\ t[c] > c

\* Two tables agree on the clusters that belong to files.
Steady(t, new, o) == \A c \in Clusters : o[c] # PBAD => new[c] = t[c]

LEMMA Prepended ==
  ASSUME NEW S, NEW c \in S, NEW s \in Seq(S)
  PROVE  /\ <<c>> \o s \in Seq(S) /\ Len(<<c>> \o s) = Len(s) + 1
         /\ (<<c>> \o s)[1] = c
         /\ \A k \in 1 .. Len(s) : (<<c>> \o s)[k + 1] = s[k]
         /\ \A k \in 1 .. Len(<<c>> \o s) : k = 1 \/ (k - 1 \in 1 .. Len(s) /\ (<<c>> \o s)[k] = s[k - 1])
OBVIOUS

LEMMA ChainTypes ==
  ASSUME NEW t
  PROVE  \A c \in Clusters : ChainOf(t)[c] \in Seq(Clusters) \ {<< >>} /\ ChainOf(t)[c][1] = c
<1> DEFINE S == {c \in Clusters : /\ ChainOf(t)[c] \in Seq(Clusters) /\ ChainOf(t)[c] # << >>
                                  /\ ChainOf(t)[c][1] = c}
<1>1. ASSUME NEW c \in Clusters, \A k \in Clusters : k > c => k \in S
      PROVE  c \in S
  <2> DEFINE f == ChainOf(t)
  <2>1. f[c] = IF t[c] \in Clusters /\ t[c] > c THEN <<c>> \o f[t[c]] ELSE <<c>>
    BY ChainMeans
  <2>2. \A k \in Clusters : k > c => f[k] \in Seq(Clusters)
    BY <1>1
  <2> HIDE DEF f
  <2>3. ASSUME t[c] \in Clusters, t[c] > c
        PROVE  f[c] \in Seq(Clusters) /\ f[c] # << >> /\ f[c][1] = c
    <3>1. f[t[c]] \in Seq(Clusters) /\ f[c] = <<c>> \o f[t[c]]
      BY <2>1, <2>2, <2>3
    <3>2. f[c] \in Seq(Clusters) /\ f[c][1] = c /\ Len(f[c]) = Len(f[t[c]]) + 1
      BY <3>1, Prepended
    <3>3. Len(f[t[c]]) \in Nat
      BY <3>1
    <3>4. f[c] # << >>
      BY <3>2, <3>3
    <3> QED
      BY <3>2, <3>4
  <2>4. ASSUME ~(t[c] \in Clusters /\ t[c] > c)
        PROVE  f[c] \in Seq(Clusters) /\ f[c] # << >> /\ f[c][1] = c
    BY <2>1, <2>4
  <2>5. f[c] \in Seq(Clusters) /\ f[c] # << >> /\ f[c][1] = c
    BY <2>3, <2>4
  <2> QED
    BY <2>5 DEF f
<1>2. Clusters \subseteq S
  <2> HIDE DEF S
  <2> QED
    BY <1>1, Downward
<1> QED
  BY <1>2

LEMMA ChainOwned ==
  ASSUME NEW t, NEW o, Upwards(t, o), NEW c \in Clusters, o[c] # PBAD
  PROVE  \A k \in 1 .. Len(ChainOf(t)[c]) :
           /\ o[ChainOf(t)[c][k]] = o[c]
           /\ k # 1 => ChainOf(t)[c][k] > c
<1> DEFINE f == ChainOf(t)
           S == {a \in Clusters : o[a] # PBAD =>
                   \A k \in 1 .. Len(f[a]) : o[f[a][k]] = o[a] /\ (k # 1 => f[a][k] > a)}
<1>0. \A a \in Clusters : a \in Nat
  BY Numbers
<1>1. ASSUME NEW a \in Clusters, \A k \in Clusters : k > a => k \in S
      PROVE  a \in S
  <2> SUFFICES ASSUME o[a] # PBAD, NEW k \in 1 .. Len(f[a])
               PROVE  o[f[a][k]] = o[a] /\ (k # 1 => f[a][k] > a)
    OBVIOUS
  <2>1. f[a] = IF t[a] \in Clusters /\ t[a] > a THEN <<a>> \o f[t[a]] ELSE <<a>>
    BY ChainMeans
  <2>2. \A b \in Clusters : f[b] \in Seq(Clusters) /\ f[b] # << >> /\ f[b][1] = b
    BY ChainTypes
  <2>3. CASE t[a] \in Clusters /\ t[a] > a
    <3> DEFINE b == t[a]
    <3>1. b \in Clusters /\ b > a /\ b \in S /\ o[b] = o[a] /\ f[b] \in Seq(Clusters)
      BY <1>1, <2>2, <2>3 DEF Upwards
    <3>2. \A j \in 1 .. Len(f[b]) : o[f[b][j]] = o[a] /\ f[b][j] > a
      <4> SUFFICES ASSUME NEW j \in 1 .. Len(f[b])
                   PROVE  o[f[b][j]] = o[a] /\ f[b][j] > a
        OBVIOUS
      <4>1. o[f[b][j]] = o[b] /\ (j # 1 => f[b][j] > b) /\ f[b][j] \in Clusters
        BY <3>1
      <4>2. f[b][1] = b
        BY <2>2, <3>1
      <4> HIDE DEF f, b
      <4> QED
        BY <1>0, <3>1, <4>1, <4>2
    <3>3. f[a] = <<a>> \o f[b]
      BY <2>1, <2>3
    <3>4. k = 1 \/ (k - 1 \in 1 .. Len(f[b]) /\ f[a][k] = f[b][k - 1])
      BY <3>1, <3>3, Prepended
    <3>5. f[a][1] = a
      BY <2>2
    <3> HIDE DEF f, b
    <3> QED
      BY <3>2, <3>4, <3>5
  <2>4. CASE ~(t[a] \in Clusters /\ t[a] > a)
    <3>1. f[a] = <<a>>
      BY <2>1, <2>4
    <3> HIDE DEF f
    <3> QED
      BY <3>1
  <2> QED
    BY <2>3, <2>4
<1>2. Clusters \subseteq S
  <2> HIDE DEF S
  <2> QED
    BY <1>1, Downward
<1> QED
  BY <1>2

\* No cluster is twice in its chain.
LEMMA ChainOnce ==
  ASSUME NEW t, NEW c \in Clusters
  PROVE  \A j, k \in 1 .. Len(ChainOf(t)[c]) : j < k => ChainOf(t)[c][j] < ChainOf(t)[c][k]
<1> DEFINE f == ChainOf(t)
           Rises(a) == \A j, k \in 1 .. Len(f[a]) : j < k => f[a][j] < f[a][k]
           S == {a \in Clusters : Rises(a)}
<1>0. \A a \in Clusters : a \in Nat
  BY Numbers
<1>1. ASSUME NEW a \in Clusters, \A k \in Clusters : k > a => k \in S
      PROVE  a \in S
  <2>1. f[a] = IF t[a] \in Clusters /\ t[a] > a THEN <<a>> \o f[t[a]] ELSE <<a>>
    BY ChainMeans
  <2>2. \A b \in Clusters : f[b] \in Seq(Clusters) /\ f[b] # << >> /\ f[b][1] = b
    BY ChainTypes
  <2>3. CASE t[a] \in Clusters /\ t[a] > a
    <3> DEFINE b == t[a]
    <3>1. /\ b \in Clusters /\ b > a /\ Rises(b) /\ f[b] \in Seq(Clusters) /\ f[b][1] = b
          /\ Len(f[b]) \in Nat
      BY <1>1, <2>2, <2>3
    <3>2. f[a] = <<a>> \o f[b]
      BY <2>1, <2>3
    <3> HIDE DEF f, b
    <3>3. \A j \in 1 .. Len(f[b]) : f[b][j] > a /\ f[b][j] \in Nat
      <4> SUFFICES ASSUME NEW j \in 1 .. Len(f[b]) PROVE f[b][j] > a /\ f[b][j] \in Nat
        OBVIOUS
      <4>1. f[b][j] \in Clusters /\ 1 \in 1 .. Len(f[b]) /\ (1 < j => f[b][1] < f[b][j])
        BY <3>1
      <4> QED
        BY <1>0, <3>1, <4>1
    <3>4. /\ f[a][1] = a
          /\ \A k \in 1 .. Len(f[a]) : k = 1 \/ (k - 1 \in 1 .. Len(f[b]) /\ f[a][k] = f[b][k - 1])
      BY <3>1, <3>2, Prepended
    <3>5. ASSUME NEW j \in 1 .. Len(f[a]), NEW k \in 1 .. Len(f[a]), j < k
          PROVE  f[a][j] < f[a][k]
      <4>1. k # 1 /\ (j # 1 => j - 1 < k - 1)
        BY <3>5
      <4>2. k - 1 \in 1 .. Len(f[b]) /\ f[a][k] = f[b][k - 1]
        BY <3>4, <4>1
      <4>3. CASE j = 1
        BY <3>3, <3>4, <4>2, <4>3
      <4>4. CASE j # 1
        BY <3>1, <3>4, <4>1, <4>2, <4>4
      <4> QED
        BY <4>3, <4>4
    <3> QED
      BY <3>5 DEF f
  <2>4. CASE ~(t[a] \in Clusters /\ t[a] > a)
    <3>1. f[a] = <<a>>
      BY <2>1, <2>4
    <3>2. Rises(a)
      <4> HIDE DEF f
      <4> QED
        BY <3>1
    <3> QED
      BY <3>2
  <2> QED
    BY <2>3, <2>4
<1>2. Clusters \subseteq S
  <2> HIDE DEF S
  <2> QED
    BY <1>1, Downward
<1> QED
  BY <1>2

LEMMA ChainKept ==
  ASSUME NEW t, NEW new, NEW o, Upwards(t, o), Steady(t, new, o),
         NEW c \in Clusters, o[c] # PBAD
  PROVE  ChainOf(new)[c] = ChainOf(t)[c]
<1> DEFINE f == ChainOf(t)  g == ChainOf(new)
           S == {a \in Clusters : o[a] # PBAD => g[a] = f[a]}
<1>1. ASSUME NEW a \in Clusters, \A k \in Clusters : k > a => k \in S
      PROVE  a \in S
  <2> SUFFICES ASSUME o[a] # PBAD PROVE g[a] = f[a]
    OBVIOUS
  <2>1. /\ f[a] = IF t[a] \in Clusters /\ t[a] > a THEN <<a>> \o f[t[a]] ELSE <<a>>
        /\ g[a] = IF new[a] \in Clusters /\ new[a] > a THEN <<a>> \o g[new[a]] ELSE <<a>>
    BY ChainMeans
  <2>2. new[a] = t[a] /\ (t[a] \in Clusters => o[t[a]] # PBAD)
    BY DEF Upwards, Steady
  <2>3. t[a] \in Clusters /\ t[a] > a => g[t[a]] = f[t[a]]
    BY <1>1, <2>2
  <2> HIDE DEF f, g
  <2> QED
    BY <2>1, <2>2, <2>3
<1>2. Clusters \subseteq S
  <2> HIDE DEF S
  <2> QED
    BY <1>1, Downward
<1> QED
  BY <1>2

-----------------------------------------------------------------------------
(* What is read of a file.                                                 *)
Files == [is : {"file", "unreadable"}, blocks : Seq(Blocks)]

\* The data of the clusters that belong to files, but for the stray word.
Blots(b, new, o) ==
  \A c \in Inside : o[c] # PBAD =>
    \/ new[c] = b[c]
    \/ c = StrayCluster /\ new[c] = [b[c] EXCEPT !.blotted = TRUE]

LEMMA GivenTypes ==
  ASSUME NEW t, NEW b \in [Inside -> Blocks], NEW e, e.first \in {CFREE} \union Clusters
  PROVE  Given(t, b, e) \in Files
<1>1. Unreadable \in Files
  BY DEF Unreadable, Files
<1>2. ASSUME e.first # CFREE
      PROVE  Text(t, b, e.first) \in Files
  <2> DEFINE s == ChainOf(t)[e.first]
  <2>1. s \in Seq(Clusters)
    BY <1>2, ChainTypes
  <2> HIDE DEF s
  <2>2. CASE \E k \in DOMAIN s : s[k] \notin Inside
    BY <1>1, <2>2 DEF Text, s
  <2>3. CASE \A k \in DOMAIN s : s[k] \in Inside
    <3>1. DOMAIN s = 1 .. Len(s) /\ Len(s) \in Nat
      BY <2>1
    <3>2. [k \in DOMAIN s |-> b[s[k]]] \in Seq(Blocks)
      BY <2>3, <3>1
    <3>3. [is |-> "file", blocks |-> [k \in DOMAIN s |-> b[s[k]]]] \in Files
      BY <3>2 DEF Files
    <3> QED
      BY <2>3, <3>3 DEF Text, s
  <2> QED
    BY <2>2, <2>3
<1> QED
  BY <1>1, <1>2 DEF Given

LEMMA WordBlotted ==
  ASSUME NEW r, NEW k \in DOMAIN r, NEW q, q = [r EXCEPT ![k] = [@ EXCEPT !.blotted = TRUE]]
  PROVE  Promise!Blotted([is |-> "file", blocks |-> r], [is |-> "file", blocks |-> q])
<1> DEFINE old == [is |-> "file", blocks |-> r]  new == [is |-> "file", blocks |-> q]
<1>1. old.blocks = r /\ \A x : [old EXCEPT !.blocks = x] = [is |-> "file", blocks |-> x]
  OBVIOUS
<1> HIDE DEF old
<1>2. new = [old EXCEPT !.blocks = [old.blocks EXCEPT ![k] = [@ EXCEPT !.blotted = TRUE]]]
  BY <1>1
<1>3. \E j \in DOMAIN old.blocks : new = [old EXCEPT !.blocks[j].blotted = TRUE]
  BY <1>1, <1>2
<1> QED
  BY <1>3 DEF old, Promise!Blotted

\* A file reads the same after the command, or one word of it was blotted.
LEMMA GivenKept ==
  ASSUME NEW t, NEW new, NEW o, Upwards(t, o), Steady(t, new, o),
         NEW b, NEW by, Blots(b, by, o),
         NEW e, e.first \in {CFREE} \union Clusters, e.first # CFREE => o[e.first] # PBAD
  PROVE  \/ Given(new, by, e) = Given(t, b, e)
         \/ /\ o[StrayCluster] = o[e.first] /\ e.first \in Clusters
            /\ Promise!Blotted(Given(t, b, e), Given(new, by, e))
<1>1. CASE e.first = CFREE
  BY <1>1 DEF Given
<1>2. CASE e.first # CFREE
  <2> DEFINE c == e.first  s == ChainOf(t)[e.first]
  <2>1. c \in Clusters /\ o[c] # PBAD
    BY <1>2
  <2>2. s \in Seq(Clusters) /\ ChainOf(new)[e.first] = s
    BY <2>1, ChainTypes, ChainKept
  <2>3. DOMAIN s = 1 .. Len(s) /\ \A k \in DOMAIN s : o[s[k]] = o[c] /\ s[k] \in Clusters
    BY <2>1, <2>2, ChainOwned
  <2>4. \A j, k \in DOMAIN s : s[j] = s[k] => j = k
    <3> SUFFICES ASSUME NEW j \in 1 .. Len(s), NEW k \in 1 .. Len(s), s[j] = s[k] PROVE j = k
      BY <2>3
    <3>1. (j < k => s[j] < s[k]) /\ (k < j => s[k] < s[j])
      BY <2>1, ChainOnce
    <3>2. s[j] \in Nat /\ s[k] \in Nat
      BY <2>3, Numbers
    <3> HIDE DEF s
    <3> QED
      BY <3>1, <3>2
  <2> HIDE DEF s, c
  <2>5. CASE \E k \in DOMAIN s : s[k] \notin Inside
    BY <1>2, <2>2, <2>5 DEF Given, Text, s
  <2>6. CASE \A k \in DOMAIN s : s[k] \in Inside
    <3> DEFINE r == [k \in DOMAIN s |-> b[s[k]]]  q == [k \in DOMAIN s |-> by[s[k]]]
    <3>1. /\ Given(t, b, e) = [is |-> "file", blocks |-> r]
          /\ Given(new, by, e) = [is |-> "file", blocks |-> q]
      BY <1>2, <2>2, <2>6 DEF Given, Text, s
    <3>2. \A k \in DOMAIN s : \/ by[s[k]] = b[s[k]]
                              \/ /\ s[k] = StrayCluster
                                 /\ by[s[k]] = [b[s[k]] EXCEPT !.blotted = TRUE]
      BY <2>1, <2>3, <2>6 DEF Blots
    <3>3. CASE \A k \in DOMAIN s : by[s[k]] = b[s[k]]
      BY <3>1, <3>3
    <3>4. CASE \E k \in DOMAIN s : by[s[k]] # b[s[k]]
      <4>1. PICK k \in DOMAIN s : by[s[k]] # b[s[k]]
        BY <3>4
      <4>2. s[k] = StrayCluster /\ q[k] = [r[k] EXCEPT !.blotted = TRUE]
        BY <3>2, <4>1
      <4>3. \A j \in DOMAIN s : j # k => q[j] = r[j]
        BY <2>4, <3>2, <4>2
      <4> HIDE DEF q, r
      <4>4. q = [r EXCEPT ![k] = [@ EXCEPT !.blotted = TRUE]]
        <5>1. q = [j \in DOMAIN s |-> q[j]] /\ r = [j \in DOMAIN s |-> r[j]]
          BY DEF q, r
        <5> QED
          BY <4>1, <4>2, <4>3, <5>1
      <4>5. DOMAIN r = DOMAIN s
        BY DEF r
      <4>6. Promise!Blotted([is |-> "file", blocks |-> r], [is |-> "file", blocks |-> q])
        BY <4>1, <4>4, <4>5, WordBlotted
      <4>7. o[StrayCluster] = o[e.first] /\ e.first \in Clusters
        BY <2>1, <2>3, <4>1, <4>2 DEF c
      <4> QED
        BY <3>1, <4>6, <4>7
    <3> QED
      BY <3>3, <3>4
  <2> QED
    BY <2>5, <2>6
<1> QED
  BY <1>1, <1>2

-----------------------------------------------------------------------------
(* The answers at all places.                                              *)
LEMMA StoreIs ==
  /\ Store = [p \in Places |-> ReadAt(table, data, dir, p)]
  /\ Store' = [p \in Places |-> ReadAt(table', data', dir', p)]
<1>1. ASSUME NEW p \in Places
      PROVE  uread(p[1], p[2]) = ReadAt(table, data, dir, p)
  <2> DEFINE parent == Directory(dir, p[1])
             i == IF parent = PBAD THEN PBAD ELSE Find(dir, p[2], parent, TFILE)
  <2>1. uread(p[1], p[2]) = IF i = PBAD THEN Absent ELSE irdfile[i]
    BY SearchIs DEF uread, Absent
  <2>2. i = Found(dir, p) /\ i \in Entries \union {PBAD}
    BY FindType DEF Found
  <2> HIDE DEF i
  <2> QED
    BY <2>1, <2>2, ReadIs DEF ReadAt
<1>2. ASSUME NEW p \in Places
      PROVE  uread(p[1], p[2])' = ReadAt(table', data', dir', p)
  <2> DEFINE parent == Directory(dir', p[1])
             i == IF parent = PBAD THEN PBAD ELSE Find(dir', p[2], parent, TFILE)
  <2>1. uread(p[1], p[2])' = IF i = PBAD THEN Absent ELSE irdfile'[i]
    BY NextSearchIs DEF uread, Absent
  <2>2. i = Found(dir', p) /\ i \in Entries \union {PBAD}
    BY FindType DEF Found
  <2> HIDE DEF i
  <2> QED
    BY <2>1, <2>2, NextReadIs DEF ReadAt
<1>3. Store = [p \in Places |-> ReadAt(table, data, dir, p)]
  BY <1>1 DEF Store
<1>4. Store' = [p \in Places |-> ReadAt(table', data', dir', p)]
  BY <1>2 DEF Store
<1> QED
  BY <1>3, <1>4

LEMMA OwnedMeans ==
  ASSUME IInv
  PROVE  /\ Upwards(table, owner) /\ dir \in Dirs /\ data \in [Inside -> Blocks]
         /\ \A i \in Entries : /\ dir[i].first \in {CFREE} \union Clusters
                               /\ dir[i].first # CFREE => owner[dir[i].first] = i /\ i # PBAD
<1>1. dir \in Dirs /\ \A i \in Entries : dir[i].first \in {CFREE} \union Clusters
  BY DEF IInv, TypeOK, Dirs, EntryRecords
<1> QED
  BY <1>1, Numbers DEF IInv, TypeOK, NoSharing, Upwards

LEMMA AnswerTypes ==
  ASSUME IInv, NEW p \in Places
  PROVE  ReadAt(table, data, dir, p) \in Files \union {Absent}
<1>1. CASE Found(dir, p) = PBAD
  BY <1>1 DEF ReadAt
<1>2. CASE Found(dir, p) # PBAD
  <2>1. Found(dir, p) \in Entries
    BY <1>2, FoundMeans
  <2> QED
    BY <1>2, <2>1, OwnedMeans, GivenTypes DEF ReadAt
<1> QED
  BY <1>1, <1>2

LEMMA AnswerTypesNext ==
  ASSUME IInv', NEW p \in Places
  PROVE  /\ ReadAt(table', data', dir', p) \in Files \union {Absent}
         /\ Found(dir', p) # PBAD => ReadAt(table', data', dir', p) \in Files
<1>1. dir' \in Dirs /\ data' \in [Inside -> Blocks]
  BY DEF IInv, TypeOK, Dirs
<1>2. \A i \in Entries : dir'[i].first \in {CFREE} \union Clusters
  BY <1>1 DEF Dirs, EntryRecords
<1>3. CASE Found(dir', p) = PBAD
  BY <1>3 DEF ReadAt
<1>4. CASE Found(dir', p) # PBAD
  <2>1. Found(dir', p) \in Entries
    BY <1>4, FoundMeans
  <2> QED
    BY <1>1, <1>2, <1>4, <2>1, GivenTypes DEF ReadAt
<1> QED
  BY <1>3, <1>4

\* A command that enters nothing changes no answer.
LEMMA NothingRead ==
  ASSUME IInv, dir' = dir, data' = data, Steady(table, table', owner)
  PROVE  Store' = Store
<1>1. ASSUME NEW p \in Places
      PROVE  ReadAt(table', data', dir', p) = ReadAt(table, data, dir, p)
  <2> DEFINE i == Found(dir, p)
  <2>1. CASE i = PBAD
    BY <2>1 DEF ReadAt
  <2>2. CASE i # PBAD
    <3>1. i \in Entries
      BY <2>2, FoundMeans
    <3> HIDE DEF i
    <3>2. Given(table', data, dir[i]) = Given(table, data, dir[i])
      <4>1. dir[i].first # CFREE => /\ dir[i].first \in Clusters
                                    /\ ChainOf(table')[dir[i].first] = ChainOf(table)[dir[i].first]
        BY <3>1, OwnedMeans, ChainKept
      <4> QED
        BY <4>1 DEF Given, Text
    <3> QED
      BY <2>2, <3>2 DEF ReadAt, i
  <2> QED
    BY <2>1, <2>2
<1> QED
  BY <1>1, StoreIs

\* One that enters an entry fills its place, and may blot one file.
LEMMA OneFilled ==
  ASSUME IInv, IInv', NEW i, NEW e, Enters(dir, dir', i, e),
         Steady(table, table', owner), Blots(data, data', owner)
  PROVE  Promise!Command
<1> DEFINE old == Store  new == Store'
           Was(p) == Found(dir, p)  Is(p) == Found(dir', p)
           Fills(p) == /\ Is(p) = i /\ i # PBAD /\ old[p] = Absent /\ new[p] \in Files
           Spots(p) == /\ Was(p) # PBAD /\ owner[StrayCluster] = Was(p)
                       /\ old[p] \in Files /\ Promise!Blotted(old[p], new[p])
<1>1. /\ old = [p \in Places |-> ReadAt(table, data, dir, p)]
      /\ new = [p \in Places |-> ReadAt(table', data', dir', p)]
  BY StoreIs
<1> HIDE DEF old, new
<1>2. /\ i \in Entries /\ Grown(dir) /\ Grown(dir') /\ i # PBAD
      /\ \A j \in Entries : dir'[j] = IF j = i THEN e ELSE dir[j]
      /\ \A j \in Entries : dir[j].name # << >> => j < i
  <2>1. Grown(dir)
    BY DEF Enters
  <2> QED
    BY <2>1, EntersMeans, GrownOn, Numbers
<1>3. \A p \in Places : old[p] \in Files \union {Absent} /\ new[p] \in Files \union {Absent}
  BY <1>1, AnswerTypes, AnswerTypesNext
<1>4. Absent \notin Files /\ \A x : ~Promise!Blotted(Absent, x)
  BY DEF Absent, Files, Promise!Blotted
<1>5. ASSUME NEW p \in Places, old[p] # new[p]
      PROVE  Fills(p) \/ Spots(p)
  <2>1. CASE Was(p) = PBAD
    <3>1. Is(p) = i
      BY <1>1, <1>5, <2>1, FoundGrows DEF ReadAt
    <3>2. old[p] = Absent /\ new[p] \in Files
      BY <1>1, <1>2, <2>1, <3>1, AnswerTypesNext DEF ReadAt
    <3> QED
      BY <1>2, <3>1, <3>2
  <2>2. CASE Was(p) # PBAD
    <3> DEFINE j == Was(p)
    <3>1. j \in Entries /\ dir[j].name # << >> /\ Is(p) = j
      BY <2>2, FoundMeans, FoundGrows
    <3>2. dir'[j] = dir[j]
      BY <1>2, <3>1, Numbers
    <3>3. old[p] = Given(table, data, dir[j]) /\ new[p] = Given(table', data', dir[j])
      BY <1>1, <2>2, <3>1, <3>2 DEF ReadAt
    <3> HIDE DEF j
    <3>4. /\ dir[j].first \in {CFREE} \union Clusters
          /\ dir[j].first # CFREE => owner[dir[j].first] = j /\ j # PBAD
          /\ Upwards(table, owner) /\ CFREE \notin Clusters /\ data \in [Inside -> Blocks]
      BY <3>1, OwnedMeans, Numbers DEF CFREE
    <3>5. /\ owner[StrayCluster] = owner[dir[j].first] /\ dir[j].first \in Clusters
          /\ Promise!Blotted(old[p], new[p])
      BY <1>5, <3>3, <3>4, GivenKept
    <3>6. old[p] \in Files
      BY <3>3, <3>4, GivenTypes
    <3> QED
      BY <2>2, <3>4, <3>5, <3>6 DEF j
  <2> QED
    BY <2>1, <2>2
<1>6. \A p, q \in Places : Fills(p) /\ Fills(q) => p = q
  BY <1>2, OnePlace
<1>7. \A p, q \in Places : Spots(p) /\ Spots(q) => p = q
  BY <1>2, OnePlace
<1> HIDE DEF Was, Is
<1>8. \A p \in Places : Fills(p) => Promise!Filled(old[p], new[p])
                                    /\ ~Promise!Blotted(old[p], new[p])
  BY <1>4 DEF Promise!Filled, Promise!Absent, Absent, Files
<1>9. \A p \in Places : Spots(p) => ~Promise!Filled(old[p], new[p])
                                    /\ Promise!Blotted(old[p], new[p])
  BY <1>4 DEF Promise!Filled, Promise!Absent, Absent
<1> HIDE DEF Fills, Spots
<1>10. {old, new} \subseteq [Places -> Files \union {Absent}]
  BY <1>1, <1>3
<1> DEFINE changed == {p \in Places : new[p] # old[p]}
<1>11. \A p \in changed : Promise!Filled(old[p], new[p]) \/ Promise!Blotted(old[p], new[p])
  BY <1>5, <1>8, <1>9
<1>12. \A p, q \in changed : p # q =>
         (Promise!Filled(old[p], new[p]) <=> Promise!Blotted(old[q], new[q]))
  BY <1>5, <1>6, <1>7, <1>8, <1>9
<1> DEFINE Done(o, n, set) ==
      /\ \A p \in set : Promise!Filled(o[p], n[p]) \/ Promise!Blotted(o[p], n[p])
      /\ \A p, q \in set : p # q =>
           (Promise!Filled(o[p], n[p]) <=> Promise!Blotted(o[q], n[q]))
<1>13. Done(old, new, changed)
  BY <1>11, <1>12
<1> HIDE DEF Done
<1>14. \E set \in {{p \in Places : new[p] # old[p]}} : Done(old, new, set)
  BY <1>13
<1>15. \E o \in {old}, n \in {new} :
         /\ {o, n} \subseteq [Places -> Files \union {Absent}]
         /\ \E set \in {{p \in Places : n[p] # o[p]}} : Done(o, n, set)
  BY <1>10, <1>14
<1> QED
  BY <1>15 DEF Promise!Command, Promise!Absent, Absent, Files, old, new, Done

-----------------------------------------------------------------------------
(* What a command, complete or cut off, does to the parts of the image.    *)
Entering == \E i \in Entries, e \in EntryRecords :
              /\ Enters(dir, dir', i, e)
              /\ Steady(table, table', owner) /\ Blots(data, data', owner)
Idling == dir' = dir /\ data' = data /\ Steady(table, table', owner)

LEMMA Saved ==
  ASSUME IInv, NEW t, NEW d, NEW b \in [Inside -> Blocks], NEW o, Save(t, d, b, o),
         Steady(table, t, owner), Blots(data, b, owner)
  PROVE  /\ dir' \in {d, dir} /\ Steady(table, table', owner)
         /\ Blots(data, data', owner) /\ (dir' = d \/ data' = data)
         /\ b = data => data' = data
<1>1. /\ data \in [Inside -> Blocks] /\ DOMAIN table = Clusters
  BY DEF IInv, TypeOK
<1>2. CASE table' = t /\ dir' = d /\ data' = b
  BY <1>2
<1>3. ASSUME NEW k \in Clusters, table' = UpTo(k, t, table), dir' = dir, data' = data
      PROVE  Steady(table, table', owner) /\ Blots(data, data', owner)
  <2>1. table' = [c \in Clusters |-> IF c <= k THEN t[c] ELSE table[c]]
    BY <1>1, <1>3 DEF UpTo
  <2> QED
    BY <1>3, <2>1 DEF Steady, Blots
<1>4. ASSUME NEW k \in Clusters, table' = t, dir' = d, data' = UpTo(k, b, data)
      PROVE  /\ Steady(table, table', owner) /\ Blots(data, data', owner)
             /\ b = data => data' = data
  <2>1. data' = [c \in Inside |-> IF c <= k THEN b[c] ELSE data[c]]
    BY <1>1, <1>4 DEF UpTo
  <2>2. b = data => data' = data
    BY <1>1, <2>1
  <2> QED
    BY <1>4, <2>1, <2>2 DEF Blots
<1> QED
  BY <1>2, <1>3, <1>4 DEF Save

LEMMA PathNamed ==
  ASSUME NEW d, Grown(d), NEW path \in Paths, Directory(d, path) # PBAD
  PROVE  Directory(d, path) \in Entries /\ d[Directory(d, path)].name # << >>
<1> DEFINE at == At(d, path)  n == Len(path)
<1>1. /\ n \in Nat /\ at[0] = 0
      /\ \A k \in 1 .. n :
           at[k] = IF at[k - 1] = PBAD THEN PBAD ELSE Find(d, <<path[k]>>, at[k - 1], TDIR)
  BY AtMeans
<1>2. Directory(d, path) = at[n]
  BY DEF Directory
<1> HIDE DEF at, n
<1>3. CASE n = 0
  <2>1. d[0].name # << >>
    BY DEF Grown, Root, Entry
  <2> QED
    BY <1>1, <1>2, <1>3, <2>1, Numbers
<1>4. CASE n # 0
  <2>1. n \in 1 .. n
    BY <1>1, <1>4
  <2>2. at[n] = Find(d, <<path[n]>>, at[n - 1], TDIR)
    BY <1>1, <1>2, <2>1
  <2>3. at[n] \in Entries /\ d[at[n]].name = <<path[n]>>
    BY <1>2, <2>2, FindMeans
  <2>4. <<path[n]>> # << >>
    OBVIOUS
  <2> QED
    BY <1>2, <2>3, <2>4
<1> QED
  BY <1>3, <1>4

LEMMA EntryEnters ==
  ASSUME IInv, Grown(dir), NEW i \in Entries, freinode(i), NEW name \in Names, name # << >>,
         NEW t \in {TFILE, TDIR}, NEW parent \in Entries, dir[parent].name # << >>,
         NEW first \in {CFREE} \union Clusters, NEW size \in Nat
  PROVE  /\ Entry(name, t, parent, first, size) \in EntryRecords
         /\ Enters(dir, [dir EXCEPT ![i] = Entry(name, t, parent, first, size)], i,
                   Entry(name, t, parent, first, size))
<1>1. Entry(name, t, parent, first, size) \in EntryRecords
  BY EntryTypes
<1>2. /\ Entry(name, t, parent, first, size).name = name
      /\ Entry(name, t, parent, first, size).parent = parent
  BY DEF Entry
<1>3. dir \in Dirs
  BY DEF IInv, TypeOK, Dirs
<1> QED
  BY <1>1, <1>2, <1>3 DEF Enters, freinode

LEMMA SavedEnters ==
  ASSUME IInv, NEW i \in Entries, NEW e \in EntryRecords,
         Enters(dir, [dir EXCEPT ![i] = e], i, e),
         NEW t, NEW b \in [Inside -> Blocks], NEW o, Save(t, [dir EXCEPT ![i] = e], b, o),
         Steady(table, t, owner), Blots(data, b, owner)
  PROVE  Idling \/ Entering
<1> DEFINE d == [dir EXCEPT ![i] = e]
<1>1. Enters(dir, d, i, e) /\ Save(t, d, b, o)
  OBVIOUS
<1> HIDE DEF d
<1>2. /\ dir' \in {d, dir} /\ Steady(table, table', owner)
      /\ Blots(data, data', owner) /\ (dir' = d \/ data' = data)
  BY <1>1, Saved
<1> QED
  BY <1>1, <1>2 DEF Idling, Entering

LEMMA FileEnters ==
  ASSUME IInv, Grown(dir), NEW path \in Paths, NEW n \in FileNames, NEW f \in Contents,
         writef(path, n, f)
  PROVE  UNCHANGED vars \/ Idling \/ Entering
<1> DEFINE size == Len(f.blocks)
<1>1. /\ size \in Nat /\ (f.blocks # << >> => size \in Nat \ {0})
      /\ Kept(n) \in Names /\ Kept(n) # << >> /\ TFILE \in {TFILE, TDIR}
      /\ CFREE \in {CFREE} \union Clusters /\ 0 \in Entries /\ dir[0].name # << >>
  BY GeometryAssumption, NameTypes, Numbers DEF Kept, Grown, Root, Entry
<1>2. PICK i \in Entries :
        /\ freinode(i)
        /\ \/ Save(table, [dir EXCEPT ![i] = Entry(Kept(n), TFILE, 0, CFREE, size)], data, owner)
           \/ \E p \in Entries :
                /\ pathidx(path) = p
                /\ Save(table, [dir EXCEPT ![i] = Entry(Kept(n), TFILE, p, CFREE, size)],
                        Strayed, owner)
           \/ \E p \in Entries :
                /\ pathidx(path) = p /\ f.blocks # << >>
                /\ \E s \in Taken(size) :
                     \/ Save(Linked(s), [dir EXCEPT ![i] = Entry(Kept(n), TFILE, p, s[1], size)],
                             Filled(s, f), Claimed(s, i))
                     \/ UNCHANGED vars
  BY DEF writef
<1>3. /\ data \in [Inside -> Blocks] /\ Strayed \in [Inside -> Blocks] /\ TypeOK
      /\ Steady(table, table, owner) /\ Blots(data, data, owner) /\ Blots(data, Strayed, owner)
  BY StrayTypes DEF IInv, TypeOK, Steady, Blots, Strayed
<1>4. \A p \in Entries : pathidx(path) = p => dir[p].name # << >>
  BY PathNamed, SearchIs, Numbers
<1>5. CASE Save(table, [dir EXCEPT ![i] = Entry(Kept(n), TFILE, 0, CFREE, size)], data, owner)
  <2> DEFINE e == Entry(Kept(n), TFILE, 0, CFREE, size)
  <2>1. e \in EntryRecords /\ Enters(dir, [dir EXCEPT ![i] = e], i, e)
    BY <1>1, <1>2, EntryEnters
  <2> QED
    BY <1>3, <1>5, <2>1, SavedEnters
<1>6. ASSUME NEW p \in Entries, pathidx(path) = p,
             Save(table, [dir EXCEPT ![i] = Entry(Kept(n), TFILE, p, CFREE, size)],
                  Strayed, owner)
      PROVE  Idling \/ Entering
  <2> DEFINE e == Entry(Kept(n), TFILE, p, CFREE, size)
  <2>1. e \in EntryRecords /\ Enters(dir, [dir EXCEPT ![i] = e], i, e)
    BY <1>1, <1>2, <1>4, <1>6, EntryEnters
  <2> QED
    BY <1>3, <1>6, <2>1, SavedEnters
<1>7. ASSUME NEW p \in Entries, pathidx(path) = p, f.blocks # << >>, NEW s \in Taken(size),
             Save(Linked(s), [dir EXCEPT ![i] = Entry(Kept(n), TFILE, p, s[1], size)],
                  Filled(s, f), Claimed(s, i))
      PROVE  Idling \/ Entering
  <2> DEFINE e == Entry(Kept(n), TFILE, p, s[1], size)
  <2>1. s[1] \in Clusters
    BY <1>1, <1>3, <1>7, TakenRise
  <2>2. e \in EntryRecords /\ Enters(dir, [dir EXCEPT ![i] = e], i, e)
    BY <1>1, <1>2, <1>4, <1>7, <2>1, EntryEnters
  <2>3. /\ \A c \in Clusters : ~Numbered(s, c) => Linked(s)[c] = table[c]
        /\ \A c \in Clusters : owner[c] # PBAD => ~Numbered(s, c)
    BY <1>1, Linking
  <2>4. Filled(s, f) \in [Inside -> Blocks]
    BY <1>1, <1>3, DataTypes
  <2>5. Steady(table, Linked(s), owner)
    BY <2>3 DEF Steady
  <2>6. Blots(data, Filled(s, f), owner)
    BY <2>3, Numbers DEF Blots, Filled
  <2> HIDE DEF e
  <2>7. Save(Linked(s), [dir EXCEPT ![i] = e], Filled(s, f), Claimed(s, i))
    BY <1>7 DEF e
  <2> QED
    BY <2>2, <2>4, <2>5, <2>6, <2>7, SavedEnters
<1> QED
  BY <1>2, <1>5, <1>6, <1>7

LEMMA DirectoryEnters ==
  ASSUME IInv, Grown(dir), NEW path \in Paths, NEW d \in DirNames, dircr(path, d)
  PROVE  Idling \/ Entering
<1>1. /\ <<d>> \in Names /\ <<d>> # << >> /\ TDIR \in {TFILE, TDIR}
      /\ CFREE \in {CFREE} \union Clusters /\ data \in [Inside -> Blocks] /\ 0 \in Nat
      /\ Steady(table, table, owner) /\ Blots(data, data, owner)
  BY NameTypes DEF IInv, TypeOK, Steady, Blots
<1>2. CASE Save(table, dir, data, owner)
  BY <1>1, <1>2, Saved DEF Idling
<1>3. ASSUME NEW i \in Entries, freinode(i), NEW p \in Entries, pathidx(path) = p,
             Save(table, [dir EXCEPT ![i] = Entry(<<d>>, TDIR, p, CFREE, 0)], data, owner)
      PROVE  Idling \/ Entering
  <2> DEFINE e == Entry(<<d>>, TDIR, p, CFREE, 0)
  <2>1. dir[p].name # << >>
    BY <1>3, PathNamed, SearchIs, Numbers
  <2>2. e \in EntryRecords /\ Enters(dir, [dir EXCEPT ![i] = e], i, e)
    BY <1>1, <1>3, <2>1, EntryEnters
  <2> QED
    BY <1>1, <1>3, <2>2, SavedEnters
<1> QED
  BY <1>2, <1>3 DEF dircr

LEMMA StepKinds ==
  ASSUME IInv, Grown(dir), [Next]_vars
  PROVE  uformat \/ Idling \/ Entering
<1>1. UNCHANGED vars => Idling
  BY DEF vars, Idling, Steady
<1> QED
  BY <1>1, FileEnters, DirectoryEnters DEF Next

\* Nothing is found on an image that was formatted.
LEMMA Formatted ==
  ASSUME NEW d, d = [i \in Entries |-> IF i = 0 THEN Root ELSE NoEntry]
  PROVE  Grown(d) /\ \A p \in Places : Found(d, p) = PBAD
<1>1. 0 \in Entries /\ \A i \in Entries : i \in Nat
  BY Numbers
<1>2. /\ Root.name = <<"/">> /\ Root.type = TDIR /\ Root.parent = 0
      /\ NoEntry.name = << >> /\ Root.name # << >>
  BY DEF Root, NoEntry, Entry
<1>3. Grown(d)
  BY <1>1, <1>2 DEF Grown
<1>4. ASSUME NEW p \in Places, Found(d, p) # PBAD
      PROVE  FALSE
  <2>1. /\ Found(d, p) \in Entries /\ d[Found(d, p)].name # << >>
        /\ Found(d, p) = Find(d, p[2], Directory(d, p[1]), TFILE)
    BY <1>4, FoundMeans DEF Found
  <2>2. d[Found(d, p)] = Root
    BY <1>2, <2>1
  <2>3. d[Found(d, p)].type = TFILE
    BY <1>4, <2>1, FindMeans
  <2> QED
    BY <1>2, <2>2, <2>3 DEF TFILE, TDIR
<1> QED
  BY <1>3, <1>4

LEMMA FormatImplements ==
  ASSUME uformat
  PROVE  Grown(dir') /\ Promise!Format
<1>1. Grown(dir') /\ \A p \in Places : Found(dir', p) = PBAD
  BY Formatted DEF uformat
<1>2. Store' = [p \in Places |-> Absent]
  BY <1>1, StoreIs DEF ReadAt
<1> QED
  BY <1>1, <1>2 DEF Promise!Format, Promise!Absent, Absent

LEMMA GrownNext ==
  ASSUME IInv, Grown(dir), [Next]_vars
  PROVE  Grown(dir')
<1>1. Entering => Grown(dir')
  BY GrownOn DEF Entering
<1>2. Idling => Grown(dir')
  BY DEF Idling
<1> QED
  BY <1>1, <1>2, StepKinds, FormatImplements

(* Whatever is written later, under the same name, into the same directory,*)
(* on a full image, and wherever a write is cut off: what was read by a    *)
(* path is read there still, short of a format and of the one stray word.  *)
(* For images, directories, names and files of any number and size.        *)
THEOREM DiskImplementsStore == Spec => ImplementsStore
<1>1. Init => Grown(dir)
  BY Formatted DEF Init
<1>2. IInv /\ Grown(dir) /\ [Next]_vars => Grown(dir)'
  BY GrownNext
<1>3. IInv /\ IInv' /\ Grown(dir) /\ [Next]_vars => [Promise!Next]_Store
  <2> SUFFICES ASSUME IInv, IInv', Grown(dir), [Next]_vars
               PROVE  Promise!Next \/ Store' = Store
    OBVIOUS
  <2>1. uformat => Promise!Format
    BY FormatImplements
  <2>2. Idling => Store' = Store
    BY NothingRead DEF Idling
  <2>3. Entering => Promise!Command
    BY OneFilled DEF Entering
  <2> QED
    BY <2>1, <2>2, <2>3, StepKinds DEF Promise!Next
<1> QED
  BY <1>1, <1>2, <1>3, DiskInvariant, PTL DEF Spec, ImplementsStore, Promise!Spec

-----------------------------------------------------------------------------
(* What was written is read.                                               *)

\* The chain of a new file is the clusters taken for it, from any one on.
LEMMA NewChain ==
  ASSUME IInv, NEW n \in Nat \ {0}, NEW s \in Taken(n)
  PROVE  LET r == ChainOf(Linked(s))[s[1]] IN
         Len(r) = n /\ DOMAIN r = 1 .. n /\ \A j \in 1 .. n : r[j] = s[j]
<1> DEFINE t == Linked(s)  g == ChainOf(Linked(s))
           Rest(k) == /\ Len(g[s[k]]) = n - k + 1
                      /\ \A j \in 1 .. n - k + 1 : g[s[k]][j] = s[k + j - 1]
           S == {m \in Nat : \A k \in 1 .. n : k + m = n => Rest(k)}
<1>1. /\ \A k \in 1 .. n : s[k] \in Clusters
      /\ \A j, k \in 1 .. n : j < k => s[j] < s[k]
      /\ \A k \in 1 .. n : t[s[k]] = IF k = n THEN CENDC ELSE s[k + 1]
  BY TakenRise, Linking DEF IInv
<1>2. \A c \in Clusters :
        /\ g[c] = IF t[c] \in Clusters /\ t[c] > c THEN <<c>> \o g[t[c]] ELSE <<c>>
        /\ g[c] \in Seq(Clusters)
  BY ChainMeans, ChainTypes
<1> HIDE DEF t, g
<1>3. 0 \in S
  <2> SUFFICES ASSUME NEW k \in 1 .. n, k = n PROVE Rest(k)
    OBVIOUS
  <2>1. t[s[k]] \notin Clusters
    BY <1>1, Numbers DEF CENDC
  <2>2. g[s[k]] = <<s[k]>>
    BY <1>1, <1>2, <2>1
  <2> QED
    BY <2>2
<1>4. ASSUME NEW m \in Nat, m \in S
      PROVE  m + 1 \in S
  <2> SUFFICES ASSUME NEW k \in 1 .. n, k + (m + 1) = n PROVE Rest(k)
    OBVIOUS
  <2>1. PICK i \in 1 .. n : i = k + 1 /\ i + m = n /\ k # n
    OBVIOUS
  <2> DEFINE r == g[s[i]]
  <2>2. Len(r) = n - i + 1 /\ \A j \in 1 .. n - i + 1 : r[j] = s[i + j - 1]
    BY <1>4, <2>1
  <2> HIDE DEF S
  <2>3. /\ g[s[k]] = <<s[k]>> \o r /\ r \in Seq(Clusters) /\ s[k] \in Clusters
    <3>1. s[i] \in Clusters /\ s[k] < s[i] /\ s[k] \in Clusters /\ t[s[k]] = s[i]
      BY <1>1, <2>1
    <3>2. s[i] > s[k]
      BY <3>1, Numbers
    <3> QED
      BY <1>2, <3>1, <3>2
  <2>4. Len(r) = n - k /\ \A j \in 1 .. n - k : r[j] = s[k + j]
    <3>1. n - i + 1 = n - k /\ \A j \in 1 .. n - k : i + j - 1 = k + j
      BY <2>1
    <3> HIDE DEF r
    <3> QED
      BY <2>2, <3>1
  <2> HIDE DEF r
  <2>5. /\ Len(g[s[k]]) = Len(r) + 1 /\ g[s[k]][1] = s[k]
        /\ \A j \in 1 .. Len(g[s[k]]) :
             j = 1 \/ (j - 1 \in 1 .. Len(r) /\ g[s[k]][j] = r[j - 1])
    BY <2>3, Prepended
  <2>6. ASSUME NEW j \in 1 .. n - k + 1
        PROVE  g[s[k]][j] = s[k + j - 1]
    <3>1. j \in 1 .. Len(g[s[k]])
      BY <2>4, <2>5
    <3>2. CASE j = 1
      BY <2>5, <3>2
    <3>3. CASE j # 1
      <4>1. PICK h \in 1 .. n - k : h = j - 1
        BY <3>3
      <4>2. g[s[k]][j] = r[h] /\ r[h] = s[k + h]
        BY <2>4, <2>5, <3>1, <3>3, <4>1
      <4>3. k + h = k + j - 1
        BY <4>1
      <4> QED
        BY <4>2, <4>3
    <3> QED
      BY <3>2, <3>3
  <2> QED
    BY <2>4, <2>5, <2>6
<1>5. n - 1 \in S
  <2> HIDE DEF S
  <2> QED
    BY <1>3, <1>4, Counting
<1>6. Rest(1)
  BY <1>5
<1>7. /\ Len(g[s[1]]) = n /\ g[s[1]] \in Seq(Clusters)
      /\ \A j \in 1 .. n : g[s[1]][j] = s[1 + j - 1]
  <2>1. n - 1 + 1 = n /\ 1 \in 1 .. n
    OBVIOUS
  <2>2. Len(g[s[1]]) = n - 1 + 1 /\ \A j \in 1 .. n - 1 + 1 : g[s[1]][j] = s[1 + j - 1]
    BY <1>6
  <2>3. g[s[1]] \in Seq(Clusters)
    BY <1>1, <1>2, <2>1
  <2> QED
    BY <2>1, <2>2, <2>3
<1>8. \A j \in 1 .. n : 1 + j - 1 = j
  OBVIOUS
<1> QED
  BY <1>7, <1>8 DEF g

\* The clusters taken lie in the image when so many are free in it.
LEMMA TakenInside ==
  ASSUME IInv, NEW n \in Nat, NEW s \in Taken(n), Cardinality(Free \cap Inside) >= n,
         NEW k \in 1 .. n
  PROVE  s[k] \in Inside
<1> SUFFICES ASSUME s[k] \notin Inside PROVE FALSE
  OBVIOUS
<1>1. s[k] \in Free /\ s[k] \in Clusters
  BY DEF Taken, Free
<1>2. \A c \in Free \cap Inside : \E j \in 1 .. k - 1 : s[j] = c
  <2> SUFFICES ASSUME NEW c \in Free \cap Inside PROVE \E j \in 1 .. k - 1 : s[j] = c
    OBVIOUS
  <2>1. c \in Nat /\ s[k] \in Nat /\ c # s[k]
    BY <1>1, Numbers
  <2>2. ~(s[k] < c)
    BY <1>1, GeometryAssumption
  <2>3. c < s[k]
    BY <2>1, <2>2
  <2> QED
    BY <2>3 DEF Taken
<1> DEFINE g == [j \in 1 .. k - 1 |-> s[j]]
           B == {s[j] : j \in 1 .. k - 1}
<1>3. IsFiniteSet(1 .. k - 1) /\ Cardinality(1 .. k - 1) = k - 1
  BY FS_Interval
<1>4. IsFiniteSet(B) /\ Cardinality(B) <= k - 1
  <2>1. g \in Surjection(1 .. k - 1, B)
    BY DEF Surjection
  <2> HIDE DEF g, B
  <2> QED
    BY <1>3, <2>1, FS_Surjection
<1>5. Free \cap Inside \subseteq B
  BY <1>2
<1> HIDE DEF B
<1>6. Cardinality(Free \cap Inside) <= Cardinality(B) /\ Cardinality(B) \in Nat
      /\ Cardinality(Free \cap Inside) \in Nat
  BY <1>4, <1>5, FS_Subset, FS_CardinalityType
<1> QED
  BY <1>4, <1>6

\* The file just entered is the one found at its place.
LEMMA EnteredFound ==
  ASSUME NEW d, NEW new, NEW i, NEW e, Enters(d, new, i, e), NEW p \in Places,
         e.type = TFILE, e.name = p[2], e.parent = Directory(d, p[1]),
         Found(d, p) = PBAD
  PROVE  Found(new, p) = i /\ i \in Entries /\ i # PBAD /\ new[i] = e
<1>1. /\ i \in Entries /\ i # PBAD /\ e.parent \in Entries /\ e.parent # PBAD /\ new[i] = e
  BY EntersMeans, Numbers
<1>2. Directory(new, p[1]) = Directory(d, p[1])
  BY PlaceMeans, DirectoryGrows DEF TFILE, TDIR
<1>3. Find(d, p[2], Directory(d, p[1]), TFILE) = PBAD
  BY <1>1 DEF Found
<1>4. Find(new, p[2], Directory(d, p[1]), TFILE) = i
  BY <1>3, PlaceMeans, FindGrows
<1> QED
  BY <1>1, <1>2, <1>4 DEF Found

LEMMA FileReads ==
  ASSUME IInv, NEW f \in Contents, f.blocks # << >>, Fits(f), NEW s \in Taken(Len(f.blocks)),
         NEW e, e.first = s[1]
  PROVE  LET b == Given(Linked(s), Filled(s, f), e).blocks
         IN  [k \in DOMAIN b |-> b[k].text] = f.blocks
<1> DEFINE n == Len(f.blocks)  r == ChainOf(Linked(s))[s[1]]
           b == [k \in DOMAIN r |-> Filled(s, f)[r[k]]]
<1>1. n \in Nat \ {0} /\ f.blocks \in Seq(Texts) /\ f.blocks = [k \in 1 .. n |-> f.blocks[k]]
  BY GeometryAssumption
<1>2. DOMAIN r = 1 .. n /\ \A k \in 1 .. n : r[k] = s[k]
  BY <1>1, NewChain
<1> s \in Taken(n) /\ Cardinality(Free \cap Inside) >= n
  BY DEF Fits
<1> HIDE DEF n
<1>a. \A k \in 1 .. n : s[k] \in Clusters
  BY <1>1, TakenRise DEF IInv
<1>b. \A k \in 1 .. n : Numbered(s, s[k]) /\ Number(s, s[k]) = k
  BY <1>1, Numbering DEF IInv
<1>c. \A k \in 1 .. n : s[k] \in Inside
  BY <1>1, TakenInside
<1>3. \A k \in 1 .. n : /\ s[k] \in Clusters /\ s[k] \in Inside
                         /\ Numbered(s, s[k]) /\ Number(s, s[k]) = k
  BY <1>a, <1>b, <1>c
<1>4. s[1] # CFREE
  BY <1>1, <1>3, Numbers DEF CFREE
<1> HIDE DEF r
<1>5. Given(Linked(s), Filled(s, f), e) = [is |-> "file", blocks |-> b]
  BY <1>2, <1>3, <1>4 DEF Given, Text, r
<1>6. DOMAIN b = 1 .. n /\ \A k \in 1 .. n : b[k].text = f.blocks[k]
  BY <1>2, <1>3 DEF Filled
<1> HIDE DEF b, n
<1> QED
  BY <1>1, <1>5, <1>6

LEMMA WrittenReads ==
  ASSUME IInv, Grown(dir), NEW path \in Paths, NEW n \in FileNames, NEW f \in Contents,
         ~cut', f.blocks # << >>, Kept(n) = Sought(n), Fits(f),
         pathidx(path) # PBAD, uread(path, Sought(n)).is = "absent", writef(path, n, f),
         ~(UNCHANGED vars)
  PROVE  TextsAt(path, n)' = f.blocks
<1> DEFINE size == Len(f.blocks)
<1>1. /\ size \in Nat \ {0} /\ Kept(n) \in Names /\ Kept(n) # << >> /\ TFILE \in {TFILE, TDIR}
  BY GeometryAssumption, NameTypes DEF Kept
<1>2. PICK i \in Entries, parent \in Entries, s \in Taken(size) :
        /\ freinode(i) /\ pathidx(path) = parent
        /\ Save(Linked(s), [dir EXCEPT ![i] = Entry(Kept(n), TFILE, parent, s[1], size)],
                Filled(s, f), Claimed(s, i))
  BY DEF writef
<1> DEFINE e == Entry(Kept(n), TFILE, parent, s[1], size)
<1>3. table' = Linked(s) /\ dir' = [dir EXCEPT ![i] = e] /\ data' = Filled(s, f)
  BY <1>2 DEF Save
<1>4. Enters(dir, dir', i, e)
  <2>1. s[1] \in {CFREE} \union Clusters
    BY <1>1, TakenRise DEF IInv
  <2>2. dir[parent].name # << >>
    BY <1>2, PathNamed, SearchIs
  <2> QED
    BY <1>1, <1>2, <1>3, <2>1, <2>2, EntryEnters
<1>5. e.type = TFILE /\ e.name = Sought(n) /\ e.parent = Directory(dir, path) /\ e.first = s[1]
  BY <1>2, SearchIs DEF Entry
<1> HIDE DEF e
<1> DEFINE p == <<path, Sought(n)>>
<1>6. p \in Places /\ p[1] = path /\ p[2] = Sought(n)
  BY DEF Places
<1> HIDE DEF p
<1>7. /\ Store[p] = uread(path, Sought(n)) /\ (Store[p])' = uread(path, Sought(n))'
      /\ Store[p] = ReadAt(table, data, dir, p)
      /\ (Store[p])' = ReadAt(table', data', dir', p)
  BY <1>6, StoreIs DEF Store
<1>8. Found(dir, p) = PBAD
  <2> SUFFICES ASSUME Found(dir, p) # PBAD PROVE FALSE
    OBVIOUS
  <2>1. Found(dir, p) \in Entries
    BY <1>6, FoundMeans
  <2>2. ReadAt(table, data, dir, p) \in Files
    BY <2>1, OwnedMeans, GivenTypes DEF ReadAt
  <2> QED
    BY <1>7, <2>2 DEF Files
<1>9. Found(dir', p) = i /\ i # PBAD /\ dir'[i] = e
  BY <1>4, <1>5, <1>6, <1>8, EnteredFound
<1>10. uread(path, Sought(n))' = Given(Linked(s), Filled(s, f), e)
  BY <1>3, <1>7, <1>9 DEF ReadAt
<1> QED
  BY <1>5, <1>10, FileReads DEF TextsAt

(* A file written completely, under a name that is stored as it is sought, *)
(* to a directory that is there and while its blocks fit the image, is     *)
(* read back block by block, for images and files of any size.             *)
THEOREM DiskWrittenIsRead == Spec => WrittenIsRead
<1>1. Init => Grown(dir)
  BY Formatted DEF Init
<1>2. IInv /\ Grown(dir) /\ [Next]_vars => Grown(dir)'
  BY GrownNext
<1> DEFINE Reads == \A path \in Paths, n \in FileNames, f \in Contents :
      (/\ ~cut' /\ f.blocks # << >> /\ Kept(n) = Sought(n) /\ Fits(f)
       /\ pathidx(path) # PBAD /\ uread(path, Sought(n)).is = "absent"
       /\ writef(path, n, f))
      => TextsAt(path, n)' = f.blocks
<1>3. IInv /\ Grown(dir) /\ [Next]_vars => [Reads]_vars
  BY WrittenReads
<1> QED
  BY <1>1, <1>2, <1>3, DiskInvariant, PTL DEF Spec, WrittenIsRead
=============================================================================
